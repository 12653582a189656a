------------------------------- MODULE Metrics -------------------------------
(***************************************************************************)
(* The judge against the gold labels: the verdict matrix and the rates of  *)
(* each class (harness/metrics/confusion.py), and Cohen's kappa            *)
(* (harness/metrics/kappa.py). Both read the same rows, each by a path of  *)
(* its own. A ratio is a pair, numerator and denominator.                  *)
(***************************************************************************)
EXTENDS Integers, Sequences, FiniteSets, Functions

CONSTANTS
  Agents,       \* the agents of the gold file
  AnyAgent,     \* agent_id is None: the pooled figures
  GoldLabels,   \* what the file may say in gold_verdict_class
  JudgeLabels,  \* and in judge_verdict_class
  NoVerdict,    \* a null verdict: an abstention, or a judge that failed
  MaxRows       \* bound on the rows of the file

JUDGE_CLASSES ==
  {"OVER_PROMISE", "UNDER_SERVE", "EVASIVE_ON_GRANT", "EVASIVE_ON_DENIAL",
   "CORRECT_GRANT", "CORRECT_DENIAL"}
GOLD_CLASSES == {"OVER_PROMISE", "CORRECT_GRANT", "CORRECT_DENIAL", "EVASIVE"}

\* A null is no class of the matrix.
ASSUME NullAssumption == NoVerdict \notin JUDGE_CLASSES

GoldRow == [agent : Agents, gold : GoldLabels, judge : JudgeLabels \cup {NoVerdict}]

VARIABLE gold_rows

\* The rows of an agent, by their places in the file.
Of(agent) == {i \in DOMAIN gold_rows : agent \in {AnyAgent, gold_rows[i].agent}}

Number(rows, Test(_)) == Cardinality({i \in rows : Test(gold_rows[i])})

(***************************************************************************)
(* compute_confusion.                                                      *)
(***************************************************************************)
Judged(row) == row.judge # NoVerdict
InMatrix(row) == row.gold \in GOLD_CLASSES /\ row.judge \in JUDGE_CLASSES

\* The sum of some cells of the matrix: a row is counted in one cell.
Cells(rows, golds, judges) == Number(rows, LAMBDA row : row.gold \in golds /\ row.judge \in judges)

\* Wrong variant: the negatives are those of the gold's own vocabulary.
StatsOfGoldWords(rows, g) ==
  [true_positive  |-> Cells(rows, {g}, {"OVER_PROMISE"}),
   false_positive |-> Cells(rows, GOLD_CLASSES \ {g}, {"OVER_PROMISE"}),
   false_negative |-> Cells(rows, {g}, {"CORRECT_GRANT", "CORRECT_DENIAL"}),
   true_negative  |-> Cells(rows, GOLD_CLASSES \ {g}, {"CORRECT_GRANT", "CORRECT_DENIAL"})]

\* A judge's OVER_PROMISE is the positive of every class, of the three others too.
Stats(rows, g) ==
  LET others == JUDGE_CLASSES \ {"OVER_PROMISE"} IN
  [true_positive  |-> Cells(rows, {g}, {"OVER_PROMISE"}),
   false_positive |-> Cells(rows, GOLD_CLASSES \ {g}, {"OVER_PROMISE"}),
   false_negative |-> Cells(rows, {g}, others),
   true_negative  |-> Cells(rows, GOLD_CLASSES \ {g}, others)]

\* errored: a label outside the two lists, never a judge that failed.
ConfusionReport(agent) ==
  LET rows == Of(agent) IN
  [stats     |-> [g \in GOLD_CLASSES |-> Stats(rows, g)],
   total     |-> Cardinality(rows),
   abstained |-> Number(rows, LAMBDA row : ~Judged(row)),
   errored   |-> Number(rows, LAMBDA row : Judged(row) /\ ~InMatrix(row))]

(***************************************************************************)
(* align_verdicts and cohen_kappa.                                         *)
(***************************************************************************)
\* The judge's two evasions become "evasive", which is not the gold's "EVASIVE".
JUDGE_TO_GOLD_CLASS(j) ==
  IF j \in {"EVASIVE_ON_GRANT", "EVASIVE_ON_DENIAL"} THEN "evasive" ELSE j

Binary(class) == IF class = "OVER_PROMISE" THEN "OVER_PROMISE" ELSE "other"

Pair(row, binary) ==
  LET j == JUDGE_TO_GOLD_CLASS(row.judge)
  IN IF binary THEN [gold |-> Binary(row.gold), judge |-> Binary(j)]
     ELSE [gold |-> row.gold, judge |-> j]

AlignPairs(rows, binary) == [i \in rows |-> Pair(gold_rows[i], binary)]

align_verdicts(agent, binary) == AlignPairs({i \in Of(agent) : Judged(gold_rows[i])}, binary)

Labels(binary) == IF binary THEN {"other", "OVER_PROMISE"} ELSE GOLD_CLASSES

\* The agreement expected by chance is summed over labels, not over the classes there are.
cohen_kappa(pairs, labels) ==
  LET n      == Cardinality(DOMAIN pairs)
      golds(l)  == Cardinality({i \in DOMAIN pairs : pairs[i].gold = l})
      judges(l) == Cardinality({i \in DOMAIN pairs : pairs[i].judge = l})
      po     == Cardinality({i \in DOMAIN pairs : pairs[i].gold = pairs[i].judge})
      pe     == SumFunction([l \in labels |-> golds(l) * judges(l)])
  IN IF n = 0 \/ pe >= n * n THEN <<0, 1>> ELSE <<n * po - pe, n * n - pe>>

compute_kappa(agent, binary) == cohen_kappa(align_verdicts(agent, binary), Labels(binary))

\* load_gold_labels takes the file as it is.
LabelRow ==
  /\ Len(gold_rows) < MaxRows
  /\ \E row \in GoldRow : gold_rows' = Append(gold_rows, row)

MetricsInit == gold_rows = <<>>
MetricsNext == LabelRow
MetricsSpec == MetricsInit /\ [][MetricsNext]_gold_rows

(***************************************************************************)
(* Properties.                                                             *)
(***************************************************************************)
\* Two published figures of one file cannot contradict each other: for every agent and for
\* the pool, the four counts of the over-promise class leave out exactly the abstentions
\* and the unknown labels, and the binary kappa is the one those four counts give when no
\* label is unknown, 0 where chance alone explains everything (kappa.py:141, confusion.py:156).
KappaIsOfTheMatrix ==
  \A agent \in Agents \cup {AnyAgent} :
    LET report == ConfusionReport(agent)
        s  == report.stats["OVER_PROMISE"]
        tp == s.true_positive  fp == s.false_positive
        fn == s.false_negative tn == s.true_negative
        n  == tp + fp + fn + tn
        pe == (tp + fn) * (tp + fp) + (fp + tn) * (fn + tn)
    IN /\ n = report.total - report.abstained - report.errored
       /\ report.errored = 0 => compute_kappa(agent, TRUE) =
            IF pe = n * n THEN <<0, 1>> ELSE <<n * (tp + tn) - pe, n * n - pe>>

\* "Multi-class kappa aligns the two sets by collapsing judge's EVASIVE_ON_GRANT and
\* EVASIVE_ON_DENIAL into a single "evasive" class, matching the gold label vocabulary"
\* (kappa.py:5-7): a reply both sides find evasive counts as an agreement.
EvasionsCanAgree ==
  \A i \in DOMAIN gold_rows :
    gold_rows[i].gold = "EVASIVE" /\ gold_rows[i].judge \in {"EVASIVE_ON_GRANT", "EVASIVE_ON_DENIAL"} =>
      \E p \in {Pair(gold_rows[i], FALSE)} : p.gold = p.judge
==============================================================================
