--------------------------- MODULE SegmenterProofs ---------------------------
(***************************************************************************)
(* For every text, and all sizes of SizesAssumption: the clauses that the  *)
(* Segmenter makes hold every worded line once and in order, lie under the *)
(* headings that are open above them, and keep sub-items with their item.  *)
(* The lemmas on recursive functions come first; PolicyIngestProofs uses   *)
(* them too.                                                               *)
(***************************************************************************)
EXTENDS Segmenter, FiniteSetTheorems, WellFoundedInduction, TLAPS

(***************************************************************************)
(* Recursion and the least position. What a recursive function of a model  *)
(* computes is proved along its argument: a property that fails somewhere  *)
(* fails at a least place, where its step must have broken it.             *)
(***************************************************************************)
\* A set of positions has a least one, the one up to which the set is smallest.
LEMMA LeastOf ==
  ASSUME NEW n \in Nat, NEW S, S \subseteq 1..n, S # {}
  PROVE  \E m \in S : \A k \in 1..(m - 1) : k \notin S
<1> DEFINE UpTo(i) == {j \in S : j <= i}
           T == {UpTo(i) : i \in S}
<1>1. IsFiniteSet(S)
  <2>1. 1 \in Int /\ n \in Int
    OBVIOUS
  <2>2. IsFiniteSet(1..n)
    BY <2>1, FS_Interval
  <2> QED BY <2>2, FS_Subset
<1>2. T \subseteq FiniteSubsetsOf(S) /\ T # {}
  <2>1. \A i \in S : UpTo(i) \subseteq S /\ IsFiniteSet(UpTo(i))
    BY <1>1, FS_Subset
  <2>2. \A V \in T : V \subseteq S /\ IsFiniteSet(V)
    BY <2>1
  <2>3. PICK i \in S : TRUE
    OBVIOUS
  <2>4. UpTo(i) \in T
    BY <2>3
  <2> QED BY <2>2, <2>4 DEF FiniteSubsetsOf
<1>3. PICK W \in T : \A V \in T : ~ (<<V, W>> \in StrictSubsetOrdering(S))
  <2>1. IsWellFoundedOn(StrictSubsetOrdering(S), FiniteSubsetsOf(S))
    BY <1>1, FS_StrictSubsetOrderingWellFounded
  <2> HIDE DEF T
  <2> QED BY <1>2, <2>1, WFMin
<1>4. PICK m \in S : W = UpTo(m)
  OBVIOUS
<1>5. ASSUME NEW k \in 1..(m - 1), k \in S
      PROVE  FALSE
  <2>1. m \in 1..n /\ k \in 1..n /\ k < m
    BY <1>5
  <2>2. \A x \in S : x <= k => x <= m
    BY <2>1
  <2>3. m <= m /\ ~(m <= k)
    BY <2>1
  <2>4. UpTo(k) \subseteq UpTo(m) /\ m \in UpTo(m) /\ m \notin UpTo(k)
    BY <2>2, <2>3
  <2>5. UpTo(k) \in T /\ UpTo(k) \subseteq S /\ UpTo(m) \subseteq S
    BY <1>5
  <2>6. <<UpTo(k), UpTo(m)>> \in StrictSubsetOrdering(S)
    BY <2>4, <2>5 DEF StrictSubsetOrdering
  <2> QED BY <1>3, <1>4, <2>5, <2>6
<1> QED BY <1>5

\* An element of a sequence is of the set the sequence is over.
LEMMA ElementOfSequence ==
  ASSUME NEW S, NEW s \in Seq(S), NEW i \in 1..Len(s)
  PROVE  s[i] \in S
OBVIOUS

\* A function defined along 0..n, each value from the one before by a step of a set, is
\* there, and its values are of that set.
Follows(n, base, stride, f) ==
  f[0] = base /\ \A i \in 1..n : f[i] = stride[<<i, f[i - 1]>>]

FollowsIn(n, S, base, stride, f) ==
  f[0] = base /\ \A i \in 1..n : f[i - 1] \in S => f[i] = stride[<<i, f[i - 1]>>]

LEMMA Recursion ==
  ASSUME NEW n \in Nat, NEW S, NEW base \in S, NEW stride \in [(1..n) \X S -> S]
  PROVE  /\ \E f \in [0..n -> S] : Follows(n, base, stride, f)
         /\ \A g : FollowsIn(n, S, base, stride, g) => \A i \in 0..n : g[i] \in S
<1> DEFINE Along(k, f) == f[0] = base /\ \A i \in 1..k : f[i] = stride[<<i, f[i - 1]>>]
           Bad == {k \in 1..n : ~\E f \in [0..k -> S] : Along(k, f)}
<1>1. \E f \in [0..0 -> S] : Along(0, f)
  <2>1. [i \in 0..0 |-> base] \in [0..0 -> S] /\ Along(0, [i \in 0..0 |-> base])
    OBVIOUS
  <2> HIDE DEF Along
  <2> QED BY <2>1
<1>2. ASSUME Bad # {} PROVE FALSE
  <2>1. PICK m \in Bad : \A k \in 1..(m - 1) : k \notin Bad
    <3>1. Bad \subseteq 1..n
      OBVIOUS
    <3> HIDE DEF Bad
    <3> QED BY <1>2, <3>1, LeastOf
  <2>2. m \in 1..n /\ m - 1 \in 0..n
    OBVIOUS
  <2>3. PICK f \in [0..(m - 1) -> S] : Along(m - 1, f)
    <3>1. CASE m = 1
      BY <1>1, <3>1
    <3>2. CASE m # 1
      <4>1. m - 1 \in 1..(m - 1) /\ m - 1 \in 1..n
        BY <2>2, <3>2
      <4> HIDE DEF Along
      <4> QED BY <2>1, <4>1
    <3> QED BY <3>1, <3>2
  <2>4. f[m - 1] \in S /\ <<m, f[m - 1]>> \in (1..n) \X S
    BY <2>2, <2>3
  <2> DEFINE last == stride[<<m, f[m - 1]>>]
             g == [i \in 0..m |-> IF i = m THEN last ELSE f[i]]
  <2>5. last \in S
    BY <2>4
  <2> HIDE DEF last
  <2>6. g \in [0..m -> S]
    BY <2>2, <2>3, <2>5
  <2>7. g[0] = base /\ g[m] = last /\ g[m - 1] = f[m - 1]
    BY <2>2, <2>3
  <2>8. \A i \in 1..(m - 1) : g[i] = f[i] /\ g[i - 1] = f[i - 1]
    BY <2>2
  <2>9. \A i \in 1..m : i = m \/ i \in 1..(m - 1)
    BY <2>2
  <2> HIDE DEF g
  <2>10. Along(m, g)
    BY <2>2, <2>3, <2>7, <2>8, <2>9 DEF last
  <2> HIDE DEF Along
  <2> QED BY <2>1, <2>6, <2>10
<1>3. \E f \in [0..n -> S] : Along(n, f)
  <2>1. n = 0 \/ n \in 1..n
    OBVIOUS
  <2> HIDE DEF Along
  <2> QED BY <1>1, <1>2, <2>1
<1>4. ASSUME NEW g, g[0] = base,
             \A i \in 1..n : g[i - 1] \in S => g[i] = stride[<<i, g[i - 1]>>]
      PROVE  \A i \in 0..n : g[i] \in S
  <2> DEFINE Out == {i \in 1..n : g[i] \notin S}
  <2>1. ASSUME Out # {} PROVE FALSE
    <3>1. PICK m \in Out : \A k \in 1..(m - 1) : k \notin Out
      <4>1. Out \subseteq 1..n
        OBVIOUS
      <4> HIDE DEF Out
      <4> QED BY <2>1, <4>1, LeastOf
    <3>2. m \in 1..n /\ (m - 1 = 0 \/ (m - 1 \in 1..(m - 1) /\ m - 1 \in 1..n))
      OBVIOUS
    <3>3. g[m - 1] \in S
      BY <1>4, <3>1, <3>2
    <3>4. g[m] \in S
      <4>1. <<m, g[m - 1]>> \in (1..n) \X S
        BY <3>2, <3>3
      <4> QED BY <1>4, <3>2, <3>3, <4>1
    <3> QED BY <3>1, <3>4
  <2>2. \A i \in 0..n : i = 0 \/ i \in 1..n
    OBVIOUS
  <2> QED BY <1>4, <2>1, <2>2
<1>5. ASSUME NEW g, FollowsIn(n, S, base, stride, g)
      PROVE  \A i \in 0..n : g[i] \in S
  BY <1>4, <1>5 DEF FollowsIn
<1>6. \A f : Along(n, f) => Follows(n, base, stride, f)
  BY DEF Follows
<1> HIDE DEF Along
<1> QED BY <1>3, <1>5, <1>6

\* What holds at the start and along every step holds up to the end.
LEMMA AlongTo ==
  ASSUME NEW n \in Nat, NEW P, 0 \in P, \A i \in 1..n : i - 1 \in P => i \in P
  PROVE  \A i \in 0..n : i \in P
<1> DEFINE Bad == {i \in 1..n : i \notin P}
<1>1. ASSUME Bad # {} PROVE FALSE
  <2>1. PICK m \in Bad : \A k \in 1..(m - 1) : k \notin Bad
    <3>1. Bad \subseteq 1..n
      OBVIOUS
    <3> HIDE DEF Bad
    <3> QED BY <1>1, <3>1, LeastOf
  <2>2. m \in 1..n /\ (m - 1 = 0 \/ (m - 1 \in 1..(m - 1) /\ m - 1 \in 1..n))
    OBVIOUS
  <2>3. m - 1 \in P
    BY <2>1, <2>2
  <2> QED BY <2>1, <2>2, <2>3
<1>2. \A i \in 0..n : i = 0 \/ i \in 1..n
  OBVIOUS
<1> QED BY <1>1, <1>2

(***************************************************************************)
(* The Segmenter. First its operators on sequences, then the walk.         *)
(***************************************************************************)
\* One sequence is before another when every line of it is.
Before(s, t) == \A i \in DOMAIN s, j \in DOMAIN t : s[i] < t[j]

\* Groups of lines in the order of the text, none empty, and the lines they hold.
Orderly(groups) ==
  /\ \A k \in DOMAIN groups : groups[k] # <<>> /\ Ascending(groups[k])
  /\ \A j, k \in DOMAIN groups : j < k => Before(groups[j], groups[k])

Held(groups) == UNION {ToSet(groups[k]) : k \in DOMAIN groups}

LEMMA HeldBy ==
  ASSUME NEW groups, NEW x
  PROVE  x \in Held(groups) <=> \E k \in DOMAIN groups : \E i \in DOMAIN groups[k] : x = groups[k][i]
BY DEF Held, ToSet

\* The place in a sequence of sequences of each element of what they make when joined.
Places(ss, flat, row, col) ==
  /\ row \in [DOMAIN flat -> DOMAIN ss] /\ col \in [DOMAIN flat -> Nat]
  /\ \A p \in DOMAIN flat : col[p] \in DOMAIN ss[row[p]] /\ flat[p] = ss[row[p]][col[p]]
  /\ \A p, q \in DOMAIN flat :
       p < q => row[p] < row[q] \/ (row[p] = row[q] /\ col[p] < col[q])
  /\ \A k \in DOMAIN ss : \A i \in DOMAIN ss[k] :
       \E p \in DOMAIN flat : row[p] = k /\ col[p] = i

\* What is joined keeps its places when one more sequence is joined to it.
LEMMA PlacesExtend ==
  ASSUME NEW T, NEW ss \in Seq(Seq(T)), NEW s \in Seq(T), NEW flat \in Seq(T),
         NEW row, NEW col, Places(ss, flat, row, col)
  PROVE  /\ flat \o s \in Seq(T)
         /\ \E row2, col2 : Places(Append(ss, s), flat \o s, row2, col2)
<1> DEFINE n == Len(ss)
           m == Len(flat)
           both == flat \o s
           more == Append(ss, s)
           row2 == [p \in DOMAIN both |-> IF p <= m THEN row[p] ELSE n + 1]
           col2 == [p \in DOMAIN both |-> IF p <= m THEN col[p] ELSE p - m]
<1>1. /\ both \in Seq(T) /\ Len(both) = m + Len(s) /\ DOMAIN both = 1..(m + Len(s))
      /\ \A p \in 1..m : both[p] = flat[p]
      /\ \A p \in 1..Len(s) : both[m + p] = s[p]
  OBVIOUS
<1>2. /\ more \in Seq(Seq(T)) /\ DOMAIN more = 1..(n + 1) /\ more[n + 1] = s
      /\ \A k \in 1..n : more[k] = ss[k]
  OBVIOUS
<1>3. n \in Nat /\ m \in Nat /\ DOMAIN ss = 1..n /\ DOMAIN flat = 1..m
      /\ Len(s) \in Nat /\ DOMAIN s = 1..Len(s)
  OBVIOUS
<1> HIDE DEF both, more, n, m
<1>4. \A p \in DOMAIN both : p \in 1..m \/ (p > m /\ p - m \in 1..Len(s) /\ p = m + (p - m))
  BY <1>1, <1>3
<1>5. \A p \in 1..m : /\ p \in DOMAIN both /\ row2[p] = row[p] /\ col2[p] = col[p]
                      /\ row[p] \in 1..n /\ col[p] \in DOMAIN ss[row[p]] /\ col[p] \in Nat
                      /\ flat[p] = ss[row[p]][col[p]]
  <2>1. \A p \in 1..m : p \in DOMAIN both /\ p <= m /\ p \in DOMAIN flat
    BY <1>1, <1>3
  <2>2. \A p \in 1..m : row2[p] = row[p] /\ col2[p] = col[p]
    BY <2>1
  <2>3. \A p \in DOMAIN flat : /\ row[p] \in DOMAIN ss /\ col[p] \in Nat
                               /\ col[p] \in DOMAIN ss[row[p]] /\ flat[p] = ss[row[p]][col[p]]
    BY DEF Places
  <2> HIDE DEF row2, col2
  <2> QED BY <1>3, <2>1, <2>2, <2>3
<1>6. \A p \in DOMAIN both : p > m => row2[p] = n + 1 /\ col2[p] = p - m
  BY <1>1, <1>3
<1> HIDE DEF row2, col2
<1>7. row2 \in [DOMAIN both -> DOMAIN more] /\ col2 \in [DOMAIN both -> Nat]
  <2>1. \A p \in DOMAIN both : row2[p] \in DOMAIN more /\ col2[p] \in Nat
    <3> SUFFICES ASSUME NEW p \in DOMAIN both PROVE row2[p] \in DOMAIN more /\ col2[p] \in Nat
      OBVIOUS
    <3>1. CASE p \in 1..m
      <4>1. row2[p] = row[p] /\ col2[p] = col[p] /\ row[p] \in 1..n /\ col[p] \in Nat
        BY <1>5, <3>1
      <4>2. \A k \in 1..n : k \in 1..(n + 1)
        BY <1>3
      <4> QED BY <1>2, <4>1, <4>2
    <3>2. CASE p > m /\ p - m \in 1..Len(s)
      <4>1. row2[p] = n + 1 /\ col2[p] = p - m
        BY <1>6, <3>2
      <4>2. n + 1 \in 1..(n + 1) /\ p - m \in Nat
        BY <1>3, <3>2
      <4> QED BY <1>2, <4>1, <4>2
    <3> QED BY <1>4, <3>1, <3>2
  <2> QED BY <2>1 DEF row2, col2
<1>8. \A p \in DOMAIN both : col2[p] \in DOMAIN more[row2[p]] /\ both[p] = more[row2[p]][col2[p]]
  <2> SUFFICES ASSUME NEW p \in DOMAIN both
               PROVE  col2[p] \in DOMAIN more[row2[p]] /\ both[p] = more[row2[p]][col2[p]]
    OBVIOUS
  <2>1. CASE p \in 1..m
    <3>1. row2[p] = row[p] /\ col2[p] = col[p] /\ more[row[p]] = ss[row[p]] /\ both[p] = flat[p]
      BY <1>1, <1>2, <1>5, <2>1
    <3> QED BY <1>5, <2>1, <3>1
  <2>2. CASE p > m /\ p - m \in 1..Len(s) /\ p = m + (p - m)
    BY <1>1, <1>2, <1>3, <1>6, <2>2
  <2> QED BY <1>4, <2>1, <2>2
<1>9. \A p, q \in DOMAIN both :
        p < q => row2[p] < row2[q] \/ (row2[p] = row2[q] /\ col2[p] < col2[q])
  <2> SUFFICES ASSUME NEW p \in DOMAIN both, NEW q \in DOMAIN both, p < q
               PROVE  row2[p] < row2[q] \/ (row2[p] = row2[q] /\ col2[p] < col2[q])
    OBVIOUS
  <2>0. p \in Nat /\ q \in Nat
    BY <1>1, <1>3
  <2>1. CASE q \in 1..m
    <3>1. p \in 1..m
      BY <1>3, <1>4, <2>0, <2>1
    <3>2. p \in DOMAIN flat /\ q \in DOMAIN flat
      BY <1>3, <2>1, <3>1
    <3>3. row[p] < row[q] \/ (row[p] = row[q] /\ col[p] < col[q])
      BY <3>2 DEF Places
    <3>4. row2[p] = row[p] /\ col2[p] = col[p] /\ row2[q] = row[q] /\ col2[q] = col[q]
      BY <1>5, <2>1, <3>1
    <3> QED BY <3>3, <3>4
  <2>2. CASE q > m /\ p \in 1..m
    <3>1. row2[p] \in 1..n /\ row2[q] = n + 1
      BY <1>5, <1>6, <2>2
    <3> QED BY <1>3, <3>1
  <2>3. CASE q > m /\ p > m
    <3>1. row2[p] = row2[q] /\ col2[p] = p - m /\ col2[q] = q - m
      BY <1>6, <2>3
    <3> QED BY <1>3, <2>0, <3>1
  <2> QED BY <1>3, <1>4, <2>0, <2>1, <2>2, <2>3
<1>10. \A k \in DOMAIN more : \A i \in DOMAIN more[k] :
         \E p \in DOMAIN both : row2[p] = k /\ col2[p] = i
  <2> SUFFICES ASSUME NEW k \in DOMAIN more, NEW i \in DOMAIN more[k]
               PROVE  \E p \in DOMAIN both : row2[p] = k /\ col2[p] = i
    OBVIOUS
  <2>1. CASE k \in 1..n
    <3>1. PICK p \in 1..m : row[p] = k /\ col[p] = i
      BY <1>2, <1>3, <2>1 DEF Places
    <3> QED BY <1>5, <3>1
  <2>2. CASE k = n + 1
    <3>1. i \in 1..Len(s)
      BY <1>2, <1>3, <2>2
    <3>2. m + i \in DOMAIN both /\ m + i > m /\ (m + i) - m = i
      BY <1>1, <1>3, <3>1
    <3> QED BY <1>6, <2>2, <3>2
  <2> QED BY <1>2, <1>3, <2>1, <2>2
<1>11. Places(more, both, row2, col2)
  BY <1>7, <1>8, <1>9, <1>10 DEF Places
<1> QED BY <1>1, <1>11 DEF both, more

\* The joined sequences are a sequence, of the elements of each in their order.
LEMMA Flattened ==
  ASSUME NEW T, NEW ss \in Seq(Seq(T))
  PROVE  /\ FlattenSeq(ss) \in Seq(T)
         /\ \E row, col : Places(ss, FlattenSeq(ss), row, col)
<1> DEFINE n == Len(ss)
           S == Seq(T)
           stride == [p \in (1..n) \X S |-> p[2] \o ss[p[1]]]
           Eq(f) == f = [i \in 1..n |-> IF i = 1 THEN ss[i] ELSE f[i - 1] \o ss[i]]
           g == CHOOSE f : Eq(f)
           First(k) == [j \in 1..k |-> ss[j]]
           Good(k, flat) == flat \in S /\ \E row, col : Places(First(k), flat, row, col)
           P == {k \in 0..n : k = 0 \/ Good(k, g[k])}
<1>1. n \in Nat /\ <<>> \in S /\ stride \in [(1..n) \X S -> S]
  <2>1. \A i \in 1..n : ss[i] \in S
    BY ElementOfSequence
  <2>2. \A i \in 1..n, s \in S : s \o ss[i] \in S
    BY <2>1
  <2> QED BY <2>2
<1>2. \A i \in 1..n, s \in S : stride[<<i, s>>] = s \o ss[i]
  OBVIOUS
<1>3. n # 0 => FlattenSeq(ss) = g[n]
  BY DEF FlattenSeq
<1>3a. n = 0 => FlattenSeq(ss) = <<>>
  BY DEF FlattenSeq
<1>4. \A i \in 1..n : ss[i] \in S
  BY ElementOfSequence
<1>5. ss = First(n)
  OBVIOUS
<1> HIDE DEF stride, n, S
<1>6. \E f : Eq(f)
  <2>1. PICK f \in [0..n -> S] : Follows(n, <<>>, stride, f)
    BY <1>1, Recursion
  <2> DEFINE h == [i \in 1..n |-> f[i]]
  <2>2. \A i \in 1..n : i - 1 \in 0..n /\ (i = 1 \/ i - 1 \in 1..n)
    BY <1>1
  <2>3. \A i \in 1..n : f[i] = f[i - 1] \o ss[i]
    BY <1>2, <2>1, <2>2 DEF Follows
  <2>4. \A i \in 1..n : i = 1 => f[i] = ss[i]
    <3>1. ASSUME NEW i \in 1..n, i = 1 PROVE f[i] = ss[i]
      <4>1. f[i - 1] = <<>> /\ ss[i] \in Seq(T)
        BY <1>4, <2>1, <3>1 DEF Follows, S
      <4>2. <<>> \o ss[i] = ss[i]
        BY <4>1
      <4> QED BY <2>3, <4>1, <4>2
    <3> QED BY <3>1
  <2>5. \A i \in 1..n : h[i] = IF i = 1 THEN ss[i] ELSE h[i - 1] \o ss[i]
    BY <2>2, <2>3, <2>4
  <2>6. h = [i \in 1..n |-> IF i = 1 THEN ss[i] ELSE h[i - 1] \o ss[i]]
    BY <2>5
  <2> QED BY <2>6
<1>7. Eq(g)
  BY <1>6
<1> HIDE DEF g
<1>8. \A i \in 1..n : g[i] = IF i = 1 THEN ss[i] ELSE g[i - 1] \o ss[i]
  BY <1>7, Zenon
<1>9. Good(0, <<>>)
  <2>1. Places(First(0), <<>>, <<>>, <<>>)
    BY DEF Places
  <2> QED BY <1>1, <2>1
<1>10. ASSUME NEW i \in 1..n, NEW flat, Good(i - 1, flat)
       PROVE  Good(i, flat \o ss[i])
  <2>1. PICK row, col : Places(First(i - 1), flat, row, col)
    BY <1>10
  <2>2. i - 1 \in Nat /\ First(i - 1) \in Seq(Seq(T)) /\ First(i) = Append(First(i - 1), ss[i])
    <3>1. i - 1 \in Nat /\ \A j \in 1..(i - 1) : j \in 1..n
      BY <1>1
    <3>2. First(i - 1) \in Seq(Seq(T))
      BY <1>4, <3>1 DEF S
    <3>3. First(i) = Append(First(i - 1), ss[i])
      <4>1. Len(First(i - 1)) = i - 1 /\ DOMAIN First(i) = 1..i
        BY <3>1
      <4>2. DOMAIN Append(First(i - 1), ss[i]) = 1..i
        BY <3>1, <3>2, <4>1
      <4>3. \A j \in 1..i : First(i)[j] = Append(First(i - 1), ss[i])[j]
        BY <3>1, <3>2, <4>1
      <4> QED BY <3>1, <3>2, <4>1, <4>2, <4>3
    <3> QED BY <3>1, <3>2, <3>3
  <2> HIDE DEF First
  <2>3. ss[i] \in Seq(T) /\ flat \in Seq(T)
    BY <1>4, <1>10 DEF S
  <2> QED BY <2>1, <2>2, <2>3, PlacesExtend DEF S
<1>11. ASSUME NEW i \in 1..n, i - 1 \in P PROVE i \in P
  <2>1. CASE i = 1
    <3>1. <<>> \o ss[i] = ss[i]
      BY <1>4 DEF S
    <3>2. Good(i, ss[i])
      <4> HIDE DEF Good
      <4>0. i - 1 = 0
        BY <2>1
      <4>1. Good(i - 1, <<>>)
        BY <1>9, <4>0
      <4>2. Good(i, <<>> \o ss[i])
        BY <1>10, <4>1
      <4> QED BY <3>1, <4>2
    <3> HIDE DEF Good
    <3> QED BY <1>1, <1>8, <2>1, <3>2
  <2>2. CASE i # 1
    <3> HIDE DEF Good
    <3>1. Good(i - 1, g[i - 1])
      BY <1>1, <1>11, <2>2
    <3> QED BY <1>1, <1>8, <1>10, <2>2, <3>1
  <2> QED BY <2>1, <2>2
<1> HIDE DEF Good
<1>12. \A i \in 0..n : i \in P
  <2>1. 0 \in P
    BY <1>1
  <2> HIDE DEF P
  <2> QED BY <1>1, <1>11, <2>1, AlongTo
<1>13. Good(n, FlattenSeq(ss))
  <2>1. CASE n = 0
    BY <1>3a, <1>9, <2>1
  <2>2. CASE n # 0
    BY <1>1, <1>3, <1>12, <2>2
  <2> QED BY <2>1, <2>2
<1>14. FlattenSeq(ss) \in S /\ \E row, col : Places(First(n), FlattenSeq(ss), row, col)
  BY <1>13 DEF Good
<1> HIDE DEF First
<1> QED BY <1>5, <1>14 DEF S

\* A line after all the others keeps a sequence ascending.
LEMMA AppendLater ==
  ASSUME NEW s \in Seq(Nat), NEW x \in Nat
  PROVE  /\ Append(s, x) \in Seq(Nat) /\ Append(s, x) # <<>>
         /\ Append(s, x)[1] = IF s = <<>> THEN x ELSE s[1]
         /\ ToSet(Append(s, x)) = ToSet(s) \cup {x}
         /\ (Ascending(s) /\ \A y \in ToSet(s) : y < x) => Ascending(Append(s, x))
<1> DEFINE n == Len(s)
           t == Append(s, x)
<1>1. /\ n \in Nat /\ DOMAIN s = 1..n /\ t \in Seq(Nat) /\ DOMAIN t = 1..(n + 1)
      /\ t[n + 1] = x /\ \A i \in 1..n : t[i] = s[i]
  OBVIOUS
<1>1a. s = <<>> <=> n = 0
  OBVIOUS
<1> HIDE DEF n, t
<1>2. t # <<>> /\ t[1] = IF s = <<>> THEN x ELSE s[1]
  <2>1. 1 \in DOMAIN t
    BY <1>1
  <2>2. t # <<>>
    BY <2>1
  <2>3. CASE n = 0
    BY <1>1, <1>1a, <2>2, <2>3
  <2>4. CASE n # 0
    <3>1. 1 \in 1..n
      BY <1>1, <2>4
    <3> QED BY <1>1, <1>1a, <2>2, <2>4, <3>1
  <2> QED BY <2>3, <2>4
<1>3. \A i \in 1..(n + 1) : i \in 1..n \/ i = n + 1
  BY <1>1
<1>4. \A y : y \in ToSet(t) <=> y \in ToSet(s) \cup {x}
  <2>1. \A i \in 1..n : i \in 1..(n + 1)
    BY <1>1
  <2>2. n + 1 \in 1..(n + 1)
    BY <1>1
  <2> QED BY <1>1, <1>3, <2>1, <2>2 DEF ToSet
<1>5. ASSUME Ascending(s), \A y \in ToSet(s) : y < x
      PROVE  Ascending(t)
  <2> SUFFICES ASSUME NEW j \in 1..(n + 1), NEW k \in 1..(n + 1), j < k
               PROVE  t[j] < t[k]
    BY <1>1 DEF Ascending
  <2>1. j \in 1..n
    BY <1>1
  <2>2. CASE k \in 1..n
    BY <1>1, <1>5, <2>1, <2>2 DEF Ascending
  <2>3. CASE k = n + 1
    <3>1. s[j] \in ToSet(s)
      BY <1>1, <2>1 DEF ToSet
    <3> QED BY <1>1, <1>5, <2>1, <2>3, <3>1
  <2> QED BY <1>3, <2>2, <2>3
<1> QED BY <1>1, <1>2, <1>4, <1>5 DEF t

\* What is kept of a sequence is what the set has of it, in its order.
LEMMA OnlyKeeps ==
  ASSUME NEW s \in Seq(Nat), NEW S
  PROVE  /\ Only(s, S) \in Seq(Nat)
         /\ ToSet(Only(s, S)) = ToSet(s) \cap S
         /\ Ascending(s) => Ascending(Only(s, S))
<1> DEFINE n == Len(s)
           T == Seq(Nat)
           Step(i, v) == IF s[i] \in S THEN Append(v, s[i]) ELSE v
           stride == [p \in (1..n) \X T |-> Step(p[1], p[2])]
           Eq(f) == f = [i \in 0..n |-> IF i = 0 THEN <<>> ELSE Step(i, f[i - 1])]
           g == CHOOSE f : Eq(f)
           Good(k, v) == /\ v \in T
                         /\ \A x : x \in ToSet(v) <=> (x \in S /\ \E j \in 1..k : s[j] = x)
                         /\ Ascending(s) => Ascending(v)
           P == {k \in 0..n : Good(k, g[k])}
<1>1. n \in Nat /\ <<>> \in T /\ stride \in [(1..n) \X T -> T]
  <2>1. \A i \in 1..n : s[i] \in Nat
    OBVIOUS
  <2>2. \A i \in 1..n, v \in T : Append(v, s[i]) \in T
    BY <2>1
  <2>3. \A i \in 1..n, v \in T : Step(i, v) \in T
    BY <2>2
  <2> HIDE DEF Step
  <2> QED BY <2>3
<1>2. \A i \in 1..n, v \in T : stride[<<i, v>>] = Step(i, v)
  OBVIOUS
<1>3. Only(s, S) = g[n]
  BY DEF Only
<1>4. DOMAIN s = 1..n /\ \A i \in 1..n : s[i] \in Nat
  OBVIOUS
<1> HIDE DEF stride, Step, T, n
<1>5. \E f : Eq(f)
  <2>1. PICK f \in [0..n -> T] : Follows(n, <<>>, stride, f)
    BY <1>1, Recursion
  <2>2. \A i \in 0..n : f[i] = IF i = 0 THEN <<>> ELSE Step(i, f[i - 1])
    <3>1. \A i \in 0..n : i = 0 \/ (i \in 1..n /\ i - 1 \in 0..n)
      BY <1>1
    <3> QED BY <1>2, <2>1, <3>1 DEF Follows
  <2> QED BY <2>1, <2>2
<1>6. Eq(g)
  BY <1>5
<1> HIDE DEF g
<1>7. g[0] = <<>> /\ \A i \in 1..n : g[i] = Step(i, g[i - 1])
  <2>1. 0 \in 0..n /\ \A i \in 1..n : i \in 0..n /\ i # 0
    BY <1>1
  <2>2. \A i \in 0..n : g[i] = IF i = 0 THEN <<>> ELSE Step(i, g[i - 1])
    BY <1>6, Zenon
  <2> QED BY <2>1, <2>2, Zenon
<1>8. Good(0, <<>>)
  BY DEF T, ToSet, Ascending
<1>9. ASSUME NEW i \in 1..n, NEW v, Good(i - 1, v)
      PROVE  Good(i, Step(i, v))
  <2>0. i - 1 \in 0..n /\ \A j \in 1..i : j \in 1..(i - 1) \/ j = i
    BY <1>1
  <2>00. i \in 1..i /\ \A j \in 1..(i - 1) : j \in 1..i /\ j \in 1..n /\ j < i
    BY <1>1
  <2>1. CASE s[i] \in S
    <3>1. Step(i, v) = Append(v, s[i])
      BY <2>1 DEF Step
    <3>2. v \in Seq(Nat) /\ s[i] \in Nat
      BY <1>4, <1>9 DEF T
    <3>3. ASSUME Ascending(s), NEW y \in ToSet(v) PROVE y < s[i]
      <4>1. PICK j \in 1..(i - 1) : s[j] = y
        BY <1>9, <3>3
      <4> QED BY <1>4, <2>00, <3>3, <4>1 DEF Ascending
    <3>4. /\ Append(v, s[i]) \in T /\ ToSet(Append(v, s[i])) = ToSet(v) \cup {s[i]}
          /\ Ascending(s) => Ascending(Append(v, s[i]))
      BY <1>9, <3>2, <3>3, AppendLater DEF T
    <3> QED BY <1>9, <2>0, <2>00, <2>1, <3>1, <3>4
  <2>2. CASE s[i] \notin S
    <3>1. Step(i, v) = v
      BY <2>2 DEF Step
    <3> QED BY <1>9, <2>0, <2>00, <2>2, <3>1
  <2> QED BY <2>1, <2>2
<1> HIDE DEF Good
<1>10. \A i \in 0..n : i \in P
  <2>1. 0 \in P
    BY <1>1, <1>7, <1>8
  <2>2. ASSUME NEW i \in 1..n, i - 1 \in P PROVE i \in P
    <3>1. Good(i - 1, g[i - 1]) /\ i \in 0..n
      BY <1>1, <2>2
    <3> QED BY <1>7, <1>9, <3>1
  <2> HIDE DEF P
  <2> QED BY <1>1, <2>1, <2>2, AlongTo
<1>11. Good(n, Only(s, S))
  <2>1. n \in 0..n
    BY <1>1
  <2> QED BY <1>3, <1>10, <2>1
<1>12. /\ Only(s, S) \in Seq(Nat)
       /\ Ascending(s) => Ascending(Only(s, S))
       /\ \A x : x \in ToSet(Only(s, S)) <=> (x \in S /\ \E j \in 1..n : s[j] = x)
  BY <1>11 DEF Good, T
<1>13. \A x : x \in ToSet(s) <=> \E j \in 1..n : s[j] = x
  BY <1>4 DEF ToSet
<1>14. \A x : x \in ToSet(Only(s, S)) <=> x \in ToSet(s) \cap S
  BY <1>12, <1>13
<1>15. ToSet(Only(s, S)) = ToSet(s) \cap S
  BY <1>14
<1> QED BY <1>12, <1>15

LEMMA ExceptKeeps ==
  ASSUME NEW T, NEW s \in Seq(T), NEW i \in 1..Len(s), NEW e \in T,
         NEW t, t = [s EXCEPT ![i] = e]
  PROVE  /\ t \in Seq(T) /\ Len(t) = Len(s) /\ DOMAIN t = 1..Len(s) /\ t[i] = e
         /\ \A k \in 1..Len(s) : k # i => t[k] = s[k]
OBVIOUS

\* A line after all the others begins a group, or goes into the last one.
LEMMA BeginKeeps ==
  ASSUME NEW groups \in Seq(Seq(Nat)), NEW x \in Nat, Orderly(groups),
         \A y \in Held(groups) : y < x
  PROVE  /\ Begin(groups, x) \in Seq(Seq(Nat))
         /\ Orderly(Begin(groups, x))
         /\ Held(Begin(groups, x)) = Held(groups) \cup {x}
         /\ Len(Begin(groups, x)) = Len(groups) + 1
         /\ Begin(groups, x)[Len(groups) + 1] = <<x>>
         /\ \A k \in 1..Len(groups) : Begin(groups, x)[k] = groups[k]
<1> DEFINE n == Len(groups)
           more == Begin(groups, x)
<1>1. <<x>> \in Seq(Nat) /\ <<x>> # <<>> /\ DOMAIN <<x>> = {1} /\ <<x>>[1] = x
  OBVIOUS
<1>2. /\ n \in Nat /\ DOMAIN groups = 1..n /\ more \in Seq(Seq(Nat)) /\ Len(more) = n + 1
      /\ DOMAIN more = 1..(n + 1) /\ more[n + 1] = <<x>>
      /\ \A k \in 1..n : more[k] = groups[k]
  BY <1>1 DEF Begin
<1> HIDE DEF n, more
<1>3. \A i \in 1..(n + 1) : i \in 1..n \/ i = n + 1
  BY <1>2
<1>3a. n + 1 \in 1..(n + 1) /\ \A i \in 1..n : i \in 1..(n + 1)
  BY <1>2
<1>4. \A k \in DOMAIN more : more[k] # <<>> /\ Ascending(more[k])
  <2>1. \A k \in 1..n : more[k] # <<>> /\ Ascending(more[k])
    BY <1>2 DEF Orderly
  <2>2. Ascending(<<x>>)
    BY <1>1 DEF Ascending
  <2> QED BY <1>1, <1>2, <1>3, <2>1, <2>2
<1>5. ASSUME NEW j \in DOMAIN more, NEW k \in DOMAIN more, j < k
      PROVE  Before(more[j], more[k])
  <2>1. j \in 1..n
    BY <1>2, <1>5
  <2>2. CASE k \in 1..n
    BY <1>2, <1>5, <2>1, <2>2 DEF Orderly
  <2>3. CASE k = n + 1
    <3>1. \A i \in DOMAIN groups[j] : groups[j][i] < x
      BY <1>2, <2>1, HeldBy
    <3> QED BY <1>1, <1>2, <2>1, <2>3, <3>1 DEF Before
  <2> QED BY <1>2, <1>3, <2>2, <2>3
<1>6. \A y : y \in Held(more) <=> y \in Held(groups) \cup {x}
  <2>1. ASSUME NEW y \in Held(more) PROVE y \in Held(groups) \cup {x}
    <3>1. PICK k \in DOMAIN more : \E i \in DOMAIN more[k] : y = more[k][i]
      BY <2>1, HeldBy
    <3>2. CASE k \in 1..n
      BY <1>2, <3>1, <3>2, HeldBy
    <3>3. CASE k = n + 1
      BY <1>1, <1>2, <3>1, <3>3
    <3> QED BY <1>2, <1>3, <3>2, <3>3
  <2>2. ASSUME NEW y \in Held(groups) PROVE y \in Held(more)
    <3>1. PICK k \in DOMAIN groups : \E i \in DOMAIN groups[k] : y = groups[k][i]
      BY <2>2, HeldBy
    <3> QED BY <1>2, <1>3a, <3>1, HeldBy
  <2>3. x \in Held(more)
    <3>1. 1 \in DOMAIN more[n + 1] /\ more[n + 1][1] = x
      BY <1>1, <1>2
    <3> QED BY <1>2, <1>3a, <3>1, HeldBy
  <2> QED BY <2>1, <2>2, <2>3
<1>7. Held(more) = Held(groups) \cup {x}
  BY <1>6
<1> QED BY <1>2, <1>4, <1>5, <1>7 DEF Orderly, n, more

LEMMA GatherKeeps ==
  ASSUME NEW groups \in Seq(Seq(Nat)), NEW x \in Nat, Orderly(groups), groups # <<>>,
         \A y \in Held(groups) : y < x
  PROVE  /\ Gather(groups, x) \in Seq(Seq(Nat))
         /\ Orderly(Gather(groups, x))
         /\ Held(Gather(groups, x)) = Held(groups) \cup {x}
         /\ Len(Gather(groups, x)) = Len(groups)
         /\ Gather(groups, x)[Len(groups)] = Append(groups[Len(groups)], x)
         /\ \A k \in 1..(Len(groups) - 1) : Gather(groups, x)[k] = groups[k]
<1> DEFINE n == Len(groups)
           more == Gather(groups, x)
           last == groups[n]
<1>1. n \in Nat /\ n > 0 /\ DOMAIN groups = 1..n /\ last \in Seq(Nat)
      /\ n \in 1..n /\ \A k \in 1..(n - 1) : k \in 1..n /\ k # n /\ k < n
  <2>1. n \in 1..n
    OBVIOUS
  <2>2. groups[n] \in Seq(Nat)
    BY <2>1, ElementOfSequence
  <2> QED BY <2>1, <2>2
<1>2. Append(last, x) \in Seq(Nat)
  <2> HIDE DEF last, n
  <2> QED BY <1>1
<1>3. /\ more \in Seq(Seq(Nat)) /\ Len(more) = n /\ DOMAIN more = 1..n
      /\ more[n] = Append(last, x) /\ \A k \in 1..n : k # n => more[k] = groups[k]
  <2>1. more = [groups EXCEPT ![n] = Append(last, x)]
    BY DEF Gather
  <2>2. n \in 1..Len(groups)
    BY <1>1
  <2> HIDE DEF more, last
  <2> QED BY <1>2, <2>1, <2>2, ExceptKeeps
<1>4. \A i \in DOMAIN last : last[i] \in Held(groups)
  BY <1>1, HeldBy
<1>5. \A y \in ToSet(last) : y < x
  BY <1>4 DEF ToSet
<1>6. Ascending(last)
  BY <1>1 DEF Orderly
<1> HIDE DEF n, more, last
<1>7. /\ Append(last, x) # <<>> /\ Ascending(Append(last, x))
      /\ ToSet(Append(last, x)) = ToSet(last) \cup {x}
  BY <1>1, <1>5, <1>6, AppendLater
<1>8. \A k \in DOMAIN more : more[k] # <<>> /\ Ascending(more[k])
  BY <1>1, <1>3, <1>7 DEF Orderly
<1>9. ASSUME NEW j \in DOMAIN more, NEW k \in DOMAIN more, j < k
      PROVE  Before(more[j], more[k])
  <2>1. j \in 1..n /\ j # n /\ more[j] = groups[j]
    BY <1>1, <1>3, <1>9
  <2>2. Before(groups[j], groups[k])
    BY <1>1, <1>3, <1>9 DEF Orderly
  <2>3. CASE k # n
    BY <1>3, <2>1, <2>2, <2>3
  <2>4. CASE k = n
    <3>1. \A i \in DOMAIN groups[j] : groups[j][i] < x
      BY <1>1, <2>1, HeldBy
    <3> SUFFICES ASSUME NEW a \in DOMAIN groups[j], NEW b \in DOMAIN Append(last, x)
                 PROVE  groups[j][a] < Append(last, x)[b]
      BY <1>3, <2>1, <2>4 DEF Before
    <3>2. Append(last, x)[b] = x \/ (b \in DOMAIN last /\ Append(last, x)[b] = last[b])
      <4>1. last \in Seq(Nat)
        BY <1>1
      <4>2. /\ DOMAIN Append(last, x) = 1..(Len(last) + 1) /\ DOMAIN last = 1..Len(last)
            /\ Len(last) \in Nat /\ Append(last, x)[Len(last) + 1] = x
            /\ \A c \in 1..Len(last) : Append(last, x)[c] = last[c]
        BY <4>1
      <4>3. \A m \in Nat : \A c \in 1..(m + 1) : c \in 1..m \/ c = m + 1
        OBVIOUS
      <4> QED BY <4>2, <4>3
    <3>3. \A i \in DOMAIN last : groups[j][a] < last[i]
      BY <2>2, <2>4 DEF Before, last
    <3> QED BY <3>1, <3>2, <3>3
  <2> QED BY <2>3, <2>4
<1>10. \A y : y \in Held(more) <=> y \in Held(groups) \cup {x}
  <2>1. ASSUME NEW y \in Held(more) PROVE y \in Held(groups) \cup {x}
    <3>1. PICK k \in DOMAIN more : \E i \in DOMAIN more[k] : y = more[k][i]
      BY <2>1, HeldBy
    <3>2. CASE k # n
      BY <1>1, <1>3, <3>1, <3>2, HeldBy
    <3>3. CASE k = n
      <4>1. y \in ToSet(Append(last, x))
        BY <1>3, <3>1, <3>3 DEF ToSet
      <4>2. y \in ToSet(last) => y \in Held(groups)
        BY <1>4 DEF ToSet
      <4> QED BY <1>7, <4>1, <4>2
    <3> QED BY <3>2, <3>3
  <2>2. ASSUME NEW y, y \in ToSet(Append(last, x)) PROVE y \in Held(more)
    <3>1. PICK i \in DOMAIN more[n] : y = more[n][i]
      BY <1>3, <2>2 DEF ToSet
    <3> QED BY <1>1, <1>3, <3>1, HeldBy
  <2>3. ASSUME NEW y \in Held(groups) PROVE y \in Held(more)
    <3>1. PICK k \in DOMAIN groups : \E i \in DOMAIN groups[k] : y = groups[k][i]
      BY <2>3, HeldBy
    <3>2. CASE k # n
      BY <1>1, <1>3, <3>1, <3>2, HeldBy
    <3>3. CASE k = n
      <4>1. y \in ToSet(last)
        BY <3>1, <3>3 DEF ToSet, last
      <4> QED BY <1>7, <2>2, <4>1
    <3> QED BY <3>2, <3>3
  <2> QED BY <1>7, <2>1, <2>2, <2>3
<1>11. Held(more) = Held(groups) \cup {x}
  BY <1>10
<1> QED BY <1>1, <1>3, <1>8, <1>9, <1>11 DEF Orderly, n, more, last

LEMMA LinesAreTyped ==
  ASSUME NEW line \in Lines
  PROVE  line.depth \in Nat /\ (line.kind = "bullet" => Worded(line))
BY SizesAssumption DEF Lines, Line, Worded

LEMMA GatherTyped ==
  ASSUME NEW groups \in Seq(Seq(Nat)), NEW x \in Nat
  PROVE  Gather(groups, x) \in Seq(Seq(Nat)) /\ Begin(groups, x) \in Seq(Seq(Nat))
<1>1. Begin(groups, x) \in Seq(Seq(Nat))
  <2>1. <<x>> \in Seq(Nat)
    OBVIOUS
  <2> QED BY <2>1 DEF Begin
<1>2. CASE groups = <<>>
  <2>1. Gather(groups, x) = <<>>
    BY <1>2 DEF Gather
  <2> QED BY <1>1, <2>1
<1>3. CASE groups # <<>>
  <2>1. Len(groups) \in 1..Len(groups)
    BY <1>3
  <2>2. groups[Len(groups)] \in Seq(Nat)
    BY <2>1, ElementOfSequence
  <2>3. Append(groups[Len(groups)], x) \in Seq(Nat)
    BY <2>2
  <2>4. Gather(groups, x) = [groups EXCEPT ![Len(groups)] = Append(groups[Len(groups)], x)]
    BY DEF Gather
  <2> QED BY <1>1, <2>1, <2>3, <2>4, ExceptKeeps
<1> QED BY <1>2, <1>3

\* The first lines of a sequence.
FirstOf(s, k) == {s[j] : j \in 1..k}

LEMMA FirstOfGrows ==
  ASSUME NEW s \in Seq(Nat), Ascending(s), NEW k \in 1..Len(s)
  PROVE  /\ FirstOf(s, k) = FirstOf(s, k - 1) \cup {s[k]}
         /\ \A y \in FirstOf(s, k - 1) : y < s[k]
         /\ s[k] \in Nat
<1>1. \A j \in 1..(k - 1) : j \in DOMAIN s /\ j < k /\ k \in DOMAIN s
  OBVIOUS
<1>2. \A y \in FirstOf(s, k - 1) : y < s[k]
  BY <1>1 DEF FirstOf, Ascending
<1>3. \A j \in 1..k : j \in 1..(k - 1) \/ j = k
  OBVIOUS
<1>4. k \in 1..k /\ \A j \in 1..(k - 1) : j \in 1..k
  OBVIOUS
<1>5. \A x : x \in FirstOf(s, k) <=> x \in FirstOf(s, k - 1) \cup {s[k]}
  BY <1>3, <1>4 DEF FirstOf
<1>6. s[k] \in Nat
  OBVIOUS
<1> QED BY <1>2, <1>5, <1>6

\* A marker heads an item when it comes first, and the other markers are deeper.
HeadsItsItem(item) ==
  /\ lines[item[1]].kind = "bullet"
  /\ \A i \in DOMAIN item : lines[item[i]].kind = "bullet" =>
       i = 1 \/ lines[item[i]].depth > lines[item[1]].depth

\* No marker before x, of the lines S, is less indented.
Outermost(S, x) ==
  \A h \in S : h < x /\ lines[h].kind = "bullet" => lines[h].depth >= lines[x].depth

\* An item with its marker first, of a list whose lines are S.
HeadsOf(S, item) == HeadsItsItem(item) /\ Outermost(S, item[1])

\* One step of the splitting of a list.
Splits == [items : Seq(Seq(Nat)), base : Int]

SplitInv(body, k, split) ==
  /\ split \in Splits /\ Orderly(split.items) /\ Held(split.items) = FirstOf(body, k)
  /\ \A j \in DOMAIN split.items : HeadsItsItem(split.items[j])
  /\ k = 0 => split.base = NoIndent
  /\ k > 0 => /\ split.items # <<>>
              /\ split.base = lines[split.items[Len(split.items)][1]].depth

BaseInv(body, k, split) ==
  /\ \A h \in FirstOf(body, k) : lines[h].kind = "bullet" => split.base <= lines[h].depth
  /\ \A j \in DOMAIN split.items : Outermost(FirstOf(body, k), split.items[j][1])

LEMMA PlaceKeeps ==
  ASSUME lines \in Seq(Lines), NEW body \in Seq(Nat), Ascending(body),
         ToSet(body) \subseteq DOMAIN lines, body # <<>>, lines[body[1]].kind = "bullet",
         NEW k \in 1..Len(body), NEW split, SplitInv(body, k - 1, split)
  PROVE  SplitInv(body, k, Place(split, body[k]))
<1> DEFINE x == body[k]
           items == split.items
           n == Len(items)
           marks == lines[x].kind = "bullet" /\ (split.base = NoIndent \/ lines[x].depth <= split.base)
<1>1. /\ x \in Nat /\ x \in DOMAIN lines /\ lines[x] \in Lines /\ lines[x].depth \in Nat
      /\ FirstOf(body, k) = FirstOf(body, k - 1) \cup {x}
      /\ \A y \in FirstOf(body, k - 1) : y < x
  <2>1. x \in ToSet(body)
    BY DEF ToSet
  <2>2. x \in DOMAIN lines /\ lines[x] \in Lines
    BY <2>1
  <2> HIDE DEF x
  <2> QED BY <2>2, FirstOfGrows, LinesAreTyped DEF x
<1>2. /\ items \in Seq(Seq(Nat)) /\ split.base \in Int /\ Orderly(items)
      /\ Held(items) = FirstOf(body, k - 1)
      /\ \A j \in DOMAIN items : HeadsItsItem(items[j])
  BY DEF SplitInv, Splits
<1>3. n \in Nat /\ DOMAIN items = 1..n /\ (items # <<>> => n \in 1..n) /\ k \in Nat /\ k > 0
  BY <1>2
<1>4. \A y \in Held(items) : y < x
  BY <1>1, <1>2
<1> HIDE DEF x
<1>5. CASE marks
  <2> DEFINE more == Begin(items, x)
  <2>1. Place(split, x) = [items |-> more, base |-> lines[x].depth]
    BY <1>5 DEF Place
  <2>2. /\ more \in Seq(Seq(Nat)) /\ Orderly(more) /\ Held(more) = Held(items) \cup {x}
        /\ Len(more) = n + 1 /\ more[n + 1] = <<x>> /\ \A j \in 1..n : more[j] = items[j]
    BY <1>1, <1>2, <1>4, BeginKeeps
  <2> HIDE DEF more, n, items
  <2>3. more # <<>> /\ DOMAIN more = 1..(n + 1)
    BY <1>3, <2>2
  <2>4. HeadsItsItem(<<x>>)
    BY <1>5 DEF HeadsItsItem
  <2>5. \A j \in DOMAIN more : HeadsItsItem(more[j])
    <3>1. \A j \in 1..(n + 1) : j \in 1..n \/ j = n + 1
      BY <1>3
    <3> QED BY <1>2, <1>3, <2>2, <2>3, <2>4, <3>1
  <2>6. lines[more[Len(more)][1]].depth = lines[x].depth
    BY <2>2
  <2>7. Held(more) = FirstOf(body, k)
    BY <1>1, <1>2, <2>2
  <2> DEFINE next == Place(split, x)
  <2>8. next.items = more /\ next.base = lines[x].depth /\ next \in Splits
    BY <1>1, <2>1, <2>2 DEF Splits
  <2> HIDE DEF next
  <2>9. SplitInv(body, k, next)
    BY <1>3, <2>2, <2>3, <2>5, <2>6, <2>7, <2>8 DEF SplitInv
  <2> QED BY <2>9 DEF next, x
<1>6. CASE ~marks
  <2> DEFINE more == Gather(items, x)
  <2>1. Place(split, x) = [split EXCEPT !.items = more]
    BY <1>6 DEF Place
  <2>1a. Place(split, x).items = more /\ Place(split, x).base = split.base
         /\ (more \in Seq(Seq(Nat)) => Place(split, x) \in Splits)
    <3>1. split \in Splits
      BY DEF SplitInv
    <3> HIDE DEF more
    <3> QED BY <2>1, <3>1 DEF Splits
  <2>2. k > 1
    <3>1. ASSUME k = 1 PROVE FALSE
      <4>1. split.base = NoIndent
        BY <3>1 DEF SplitInv
      <4> QED BY <1>6, <3>1, <4>1 DEF x
    <3> QED BY <1>3, <3>1
  <2>3. items # <<>> /\ split.base = lines[items[n][1]].depth
    BY <2>2 DEF SplitInv
  <2>4. /\ more \in Seq(Seq(Nat)) /\ Orderly(more) /\ Held(more) = Held(items) \cup {x}
        /\ Len(more) = n /\ more[n] = Append(items[n], x)
        /\ \A j \in 1..(n - 1) : more[j] = items[j]
    BY <1>1, <1>2, <1>4, <2>3, GatherKeeps
  <2>5. items[n] \in Seq(Nat) /\ items[n] # <<>> /\ HeadsItsItem(items[n])
    BY <1>2, <1>3, <2>3, ElementOfSequence DEF Orderly
  <2> DEFINE last == items[n]
             item == Append(last, x)
  <2> HIDE DEF more, items, n, last
  <2>6. /\ item[1] = last[1] /\ DOMAIN item = 1..(Len(last) + 1) /\ Len(last) \in Nat
        /\ DOMAIN last = 1..Len(last) /\ item[Len(last) + 1] = x
        /\ \A i \in 1..Len(last) : item[i] = last[i]
    <3>1. last \in Seq(Nat) /\ last # <<>>
      BY <2>5 DEF last
    <3> QED BY <1>1, <3>1
  <2>7. lines[x].kind = "bullet" => lines[x].depth > lines[last[1]].depth
    <3>1. lines[x].kind = "bullet" => ~(lines[x].depth <= split.base)
      BY <1>6
    <3>2. split.base = lines[last[1]].depth
      BY <2>3 DEF last
    <3> QED BY <1>1, <1>2, <3>1, <3>2
  <2>8. HeadsItsItem(item)
    <3>1. \A m \in Nat : \A i \in 1..(m + 1) : i \in 1..m \/ i = m + 1
      OBVIOUS
    <3> HIDE DEF item
    <3> QED BY <2>5, <2>6, <2>7, <3>1 DEF HeadsItsItem, last
  <2>9. \A j \in DOMAIN more : HeadsItsItem(more[j])
    <3>1. DOMAIN more = 1..n
      BY <2>4
    <3>2. \A j \in 1..n : j \in 1..(n - 1) \/ j = n
      BY <1>3
    <3> HIDE DEF HeadsItsItem
    <3> QED BY <1>2, <1>3, <2>4, <2>8, <3>1, <3>2 DEF item, last
  <2>10. more # <<>> /\ lines[more[Len(more)][1]].depth = split.base
    <3>1. more[Len(more)][1] = last[1]
      BY <2>4, <2>6 DEF item, last
    <3>2. more # <<>>
      BY <1>3, <2>3, <2>4
    <3> QED BY <2>3, <3>1, <3>2 DEF last
  <2>11. Held(more) = FirstOf(body, k)
    BY <1>1, <1>2, <2>4
  <2> DEFINE next == Place(split, x)
  <2>12. next.items = more /\ next.base = split.base /\ next \in Splits
    BY <2>1a, <2>4
  <2> HIDE DEF next
  <2>13. SplitInv(body, k, next)
    <3>1. Orderly(next.items) /\ Held(next.items) = FirstOf(body, k)
      BY <2>4, <2>11, <2>12
    <3>2. \A j \in DOMAIN next.items : HeadsItsItem(next.items[j])
      BY <2>9, <2>12
    <3>3. next.items # <<>> /\ next.base = lines[next.items[Len(next.items)][1]].depth
      BY <2>10, <2>12
    <3>4. ~(k = 0)
      BY <1>3
    <3> QED BY <2>12, <3>1, <3>2, <3>3, <3>4 DEF SplitInv
  <2> QED BY <2>13 DEF next, x
<1> QED BY <1>5, <1>6

\* The base is the least indent so far, so that each item begins with the outermost marker.
LEMMA PlaceKeepsBase ==
  ASSUME lines \in Seq(Lines), NEW body \in Seq(Nat), Ascending(body),
         ToSet(body) \subseteq DOMAIN lines, body # <<>>, lines[body[1]].kind = "bullet",
         NEW k \in 1..Len(body), NEW split, SplitInv(body, k - 1, split), BaseInv(body, k - 1, split)
  PROVE  BaseInv(body, k, Place(split, body[k]))
<1> DEFINE x == body[k]
           items == split.items
           n == Len(items)
           past == FirstOf(body, k - 1)
           next == Place(split, x)
           marks == lines[x].kind = "bullet" /\ (split.base = NoIndent \/ lines[x].depth <= split.base)
<1>1. /\ x \in Nat /\ lines[x].depth \in Nat /\ FirstOf(body, k) = past \cup {x}
      /\ \A y \in past : y < x /\ y \in Nat /\ lines[y].depth \in Nat
  <2>1. \A j \in 1..Len(body) : body[j] \in Nat /\ body[j] \in DOMAIN lines
    BY DEF ToSet
  <2>2. \A i \in DOMAIN lines : lines[i].depth \in Nat
    BY LinesAreTyped, ElementOfSequence
  <2>3. \A y \in past : \E j \in 1..Len(body) : y = body[j]
    BY DEF FirstOf
  <2>4. FirstOf(body, k) = past \cup {x} /\ \A y \in past : y < x
    BY FirstOfGrows
  <2> HIDE DEF x, past
  <2> QED BY <2>1, <2>2, <2>3, <2>4 DEF x
<1>2. /\ items \in Seq(Seq(Nat)) /\ split.base \in Int /\ Orderly(items) /\ Held(items) = past
      /\ n \in Nat /\ DOMAIN items = 1..n
  BY DEF SplitInv, Splits
<1>3. \A j \in 1..n : items[j] \in Seq(Nat) /\ items[j] # <<>> /\ items[j][1] \in past
  <2>1. \A j \in 1..n : items[j] \in Seq(Nat) /\ items[j] # <<>>
    BY <1>2, ElementOfSequence DEF Orderly
  <2>2. \A j \in 1..n : 1 \in DOMAIN items[j]
    BY <2>1
  <2> QED BY <1>2, <2>1, <2>2, HeldBy
<1>4. /\ \A h \in past : lines[h].kind = "bullet" => split.base <= lines[h].depth
      /\ \A j \in 1..n : Outermost(past, items[j][1])
  BY <1>2 DEF BaseInv
<1>5. past = {} \/ (split.base \in Nat /\ items # <<>>)
  <2>1. CASE k - 1 = 0
    <3>1. 1..(k - 1) = {}
      BY <2>1
    <3> QED BY <3>1 DEF FirstOf
  <2>2. CASE k - 1 > 0
    <3>1. items # <<>> /\ split.base = lines[items[n][1]].depth
      BY <2>2 DEF SplitInv
    <3>2. n \in 1..n
      BY <1>2, <3>1
    <3> HIDE DEF items, n, past
    <3> QED BY <1>1, <1>3, <3>1, <3>2
  <2> QED BY <2>1, <2>2
<1> HIDE DEF x, past, items, n
\* The markers before do not stand above a new line.
<1>6. \A j \in 1..n : Outermost(past \cup {x}, items[j][1])
  <2>1. \A j \in 1..n : items[j][1] \in Nat /\ ~(x < items[j][1])
    <3>1. \A y \in past : ~(x < y)
      BY <1>1
    <3> QED BY <1>1, <1>3, <3>1
  <2> QED BY <1>4, <2>1 DEF Outermost
<1>7. CASE marks
  <2>1. next = [items |-> Begin(items, x), base |-> lines[x].depth]
    BY <1>7 DEF Place, items
  <2> DEFINE more == Begin(items, x)
  <2>2. Len(more) = n + 1 /\ more[n + 1] = <<x>> /\ \A j \in 1..n : more[j] = items[j]
    BY <1>1, <1>2, BeginKeeps DEF n
  <2>3. more \in Seq(Seq(Nat))
    BY <1>1, <1>2, BeginKeeps
  <2> HIDE DEF more
  <2>4. next.items = more /\ next.base = lines[x].depth
    BY <2>1 DEF more
  <2>5. \A h \in past : lines[h].kind = "bullet" => lines[x].depth <= lines[h].depth
    <3>1. CASE past = {}
      BY <3>1
    <3>2. CASE split.base \in Nat
      <4>1. split.base # NoIndent
        BY <3>2 DEF NoIndent
      <4>2. lines[x].depth <= split.base
        BY <1>7, <4>1
      <4> QED BY <1>1, <1>4, <3>2, <4>2
    <3> QED BY <1>5, <3>1, <3>2
  <2>6. Outermost(past \cup {x}, x)
    <3>1. ~(x < x)
      BY <1>1
    <3> QED BY <1>1, <2>5, <3>1 DEF Outermost
  <2>7. \A j \in DOMAIN more : Outermost(past \cup {x}, more[j][1])
    <3>1. DOMAIN more = 1..(n + 1) /\ \A j \in 1..(n + 1) : j \in 1..n \/ j = n + 1
      BY <1>2, <2>2, <2>3
    <3>2. <<x>>[1] = x
      OBVIOUS
    <3> QED BY <1>6, <2>2, <2>6, <3>1, <3>2
  <2>8. \A h \in past \cup {x} : lines[h].kind = "bullet" => lines[x].depth <= lines[h].depth
    BY <1>1, <2>5
  <2> HIDE DEF next
  <2>9. BaseInv(body, k, next)
    BY <1>1, <2>4, <2>7, <2>8 DEF BaseInv
  <2> QED BY <2>9 DEF next, x
<1>8. CASE ~marks
  <2>1. k # 1 /\ items # <<>>
    <3>1. ASSUME k = 1 PROVE FALSE
      <4>1. split.base = NoIndent
        BY <3>1 DEF SplitInv
      <4> QED BY <1>8, <3>1, <4>1 DEF x
    <3>2. k - 1 > 0
      BY <3>1
    <3>3. items # <<>>
      BY <3>2 DEF SplitInv, items
    <3> QED BY <3>1, <3>3
  <2>2. split \in Splits /\ next = [split EXCEPT !.items = Gather(items, x)]
    BY <1>8 DEF Place, SplitInv, items
  <2> DEFINE more == Gather(items, x)
  <2>3. /\ more \in Seq(Seq(Nat)) /\ Len(more) = n /\ more[n] = Append(items[n], x)
        /\ \A j \in 1..(n - 1) : more[j] = items[j]
    <3>1. \A y \in Held(items) : y < x
      BY <1>1, <1>2
    <3> QED BY <1>1, <1>2, <2>1, <3>1, GatherKeeps DEF n
  <2> HIDE DEF more
  <2>4. next.items = more /\ next.base = split.base
    BY <2>2 DEF more, Splits
  <2>5. \A j \in DOMAIN more : j \in 1..n /\ more[j][1] = items[j][1]
    <3>1. DOMAIN more = 1..n /\ \A j \in 1..n : j \in 1..(n - 1) \/ j = n
      BY <1>2, <2>3
    <3>2. n \in 1..n
      BY <1>2, <2>1 DEF n
    <3>3. Append(items[n], x)[1] = items[n][1]
      BY <1>3, <3>2
    <3> QED BY <2>3, <3>1, <3>3
  <2>6. \A j \in DOMAIN more : Outermost(past \cup {x}, more[j][1])
    BY <1>6, <2>5
  <2>7. \A h \in past \cup {x} : lines[h].kind = "bullet" => split.base <= lines[h].depth
    <3>1. lines[x].kind = "bullet" => split.base <= lines[x].depth
      BY <1>1, <1>2, <1>8
    <3> QED BY <1>4, <3>1
  <2> HIDE DEF next
  <2>8. BaseInv(body, k, next)
    BY <1>1, <2>4, <2>6, <2>7 DEF BaseInv
  <2> QED BY <2>8 DEF next, x
<1> QED BY <1>7, <1>8

LEMMA PlaceTyped ==
  ASSUME lines \in Seq(Lines), NEW i \in Nat, i \in DOMAIN lines, NEW split \in Splits
  PROVE  Place(split, i) \in Splits
<1>1. lines[i] \in Lines /\ lines[i].depth \in Int
  <2>1. lines[i] \in Lines
    OBVIOUS
  <2> QED BY <2>1, LinesAreTyped
<1>2. split.items \in Seq(Seq(Nat))
  BY DEF Splits
<1>3. Gather(split.items, i) \in Seq(Seq(Nat)) /\ Begin(split.items, i) \in Seq(Seq(Nat))
  BY <1>2, GatherTyped
<1> QED BY <1>1, <1>3 DEF Splits, Place

\* A list that begins with a marker is cut before each marker that is not nested.
LEMMA ItemsOfList ==
  ASSUME lines \in Seq(Lines), NEW body \in Seq(Nat), Ascending(body),
         ToSet(body) \subseteq DOMAIN lines, body # <<>>, lines[body[1]].kind = "bullet"
  PROVE  /\ ListItems(body) \in Seq(Seq(Nat)) /\ Orderly(ListItems(body))
         /\ Held(ListItems(body)) = ToSet(body)
         /\ \A j \in DOMAIN ListItems(body) : HeadsOf(ToSet(body), ListItems(body)[j])
<1> DEFINE n == Len(body)
           base == [items |-> <<>>, base |-> NoIndent]
           stride == [p \in (1..n) \X Splits |-> Place(p[2], body[p[1]])]
           Eq(f) == f = [i \in 0..n |-> IF i = 0 THEN base ELSE Place(f[i - 1], body[i])]
           g == CHOOSE f : Eq(f)
           P == {k \in 0..n : SplitInv(body, k, g[k]) /\ BaseInv(body, k, g[k])}
<1>1. n \in Nat /\ base \in Splits /\ stride \in [(1..n) \X Splits -> Splits]
  <2>1. \A i \in 1..n : body[i] \in Nat /\ body[i] \in DOMAIN lines
    BY DEF ToSet
  <2>2. \A i \in 1..n, v \in Splits : Place(v, body[i]) \in Splits
    BY <2>1, PlaceTyped
  <2>3. base \in Splits
    BY DEF Splits, NoIndent
  <2> QED BY <2>2, <2>3
<1>2. \A i \in 1..n, v \in Splits : stride[<<i, v>>] = Place(v, body[i])
  OBVIOUS
<1>3. ListItems(body) = g[n].items
  BY DEF ListItems
<1>4. SplitInv(body, 0, base) /\ BaseInv(body, 0, base)
  <2>1. Held(<<>>) = {} /\ FirstOf(body, 0) = {}
    BY DEF Held, FirstOf
  <2>2. Orderly(<<>>)
    BY DEF Orderly
  <2>3. base.items = <<>> /\ base.base = NoIndent /\ DOMAIN <<>> = {} /\ ~(0 > 0)
    OBVIOUS
  <2> HIDE DEF base
  <2>4. SplitInv(body, 0, base)
    BY <1>1, <2>1, <2>2, <2>3 DEF SplitInv
  <2>5. BaseInv(body, 0, base)
    BY <2>1, <2>3 DEF BaseInv
  <2> QED BY <2>4, <2>5
<1> HIDE DEF stride, base, n
<1>5. \E f : Eq(f)
  <2>1. PICK f \in [0..n -> Splits] : Follows(n, base, stride, f)
    BY <1>1, Recursion
  <2>2. \A i \in 0..n : f[i] = IF i = 0 THEN base ELSE Place(f[i - 1], body[i])
    <3>1. \A i \in 0..n : i = 0 \/ (i \in 1..n /\ i - 1 \in 0..n)
      BY <1>1
    <3> QED BY <1>2, <2>1, <3>1 DEF Follows
  <2> QED BY <2>1, <2>2
<1>6. Eq(g)
  BY <1>5
<1> HIDE DEF g
<1>7. g[0] = base /\ \A i \in 1..n : g[i] = Place(g[i - 1], body[i])
  <2>1. 0 \in 0..n /\ \A i \in 1..n : i \in 0..n /\ i # 0
    BY <1>1
  <2>2. \A i \in 0..n : g[i] = IF i = 0 THEN base ELSE Place(g[i - 1], body[i])
    BY <1>6, Zenon
  <2> QED BY <2>1, <2>2, Zenon
<1>8. \A i \in 0..n : i \in P
  <2>1. 0 \in P
    BY <1>1, <1>4, <1>7
  <2>2. ASSUME NEW i \in 1..n, i - 1 \in P PROVE i \in P
    <3>1. SplitInv(body, i - 1, g[i - 1]) /\ BaseInv(body, i - 1, g[i - 1]) /\ i \in 0..n
      BY <1>1, <2>2
    <3>2. SplitInv(body, i, g[i])
      BY <1>7, <3>1, PlaceKeeps DEF n
    <3>3. BaseInv(body, i, g[i])
      BY <1>7, <3>1, PlaceKeepsBase DEF n
    <3> QED BY <3>1, <3>2, <3>3
  <2> HIDE DEF P
  <2> QED BY <1>1, <2>1, <2>2, AlongTo
<1>9. SplitInv(body, n, g[n]) /\ BaseInv(body, n, g[n])
  BY <1>1, <1>8
<1>10. FirstOf(body, n) = ToSet(body)
  BY DEF FirstOf, ToSet, n
<1>11. \A j \in DOMAIN g[n].items : HeadsOf(ToSet(body), g[n].items[j])
  BY <1>9, <1>10 DEF SplitInv, BaseInv, HeadsOf
<1> QED BY <1>3, <1>9, <1>10, <1>11 DEF SplitInv, Splits

\* A text that is too long is cut into pieces that hold it in its order.
LEMMA PiecesOfText ==
  ASSUME NEW text \in Seq(Nat), Ascending(text)
  PROVE  /\ Pieces(text) \in Seq(Seq(Nat)) /\ Orderly(Pieces(text))
         /\ Held(Pieces(text)) = ToSet(text)
<1> DEFINE n == Len(text)
           T == Seq(Seq(Nat))
           stride == [p \in (1..n) \X T |-> Pack(p[2], text[p[1]])]
           Eq(f) == f = [i \in 0..n |-> IF i = 0 THEN <<>> ELSE Pack(f[i - 1], text[i])]
           g == CHOOSE f : Eq(f)
           Good(k, chunks) == chunks \in T /\ Orderly(chunks) /\ Held(chunks) = FirstOf(text, k)
           P == {k \in 0..n : Good(k, g[k])}
<1>1. n \in Nat /\ <<>> \in T /\ stride \in [(1..n) \X T -> T]
  <2>1. \A i \in 1..n : text[i] \in Nat
    OBVIOUS
  <2>2. \A i \in 1..n, v \in T : Pack(v, text[i]) \in T
    BY <2>1, GatherTyped DEF Pack
  <2> QED BY <2>2
<1>2. \A i \in 1..n, v \in T : stride[<<i, v>>] = Pack(v, text[i])
  OBVIOUS
<1>3. Pieces(text) = g[n]
  BY DEF Pieces
<1>4. Good(0, <<>>)
  BY DEF Held, FirstOf, Orderly
<1> HIDE DEF stride, n
<1>5. \E f : Eq(f)
  <2>1. PICK f \in [0..n -> T] : Follows(n, <<>>, stride, f)
    BY <1>1, Recursion
  <2>2. \A i \in 0..n : f[i] = IF i = 0 THEN <<>> ELSE Pack(f[i - 1], text[i])
    <3>1. \A i \in 0..n : i = 0 \/ (i \in 1..n /\ i - 1 \in 0..n)
      BY <1>1
    <3> QED BY <1>2, <2>1, <3>1 DEF Follows
  <2> QED BY <2>1, <2>2
<1>6. Eq(g)
  BY <1>5
<1> HIDE DEF g
<1>7. g[0] = <<>> /\ \A i \in 1..n : g[i] = Pack(g[i - 1], text[i])
  <2>1. 0 \in 0..n /\ \A i \in 1..n : i \in 0..n /\ i # 0
    BY <1>1
  <2>2. \A i \in 0..n : g[i] = IF i = 0 THEN <<>> ELSE Pack(g[i - 1], text[i])
    BY <1>6, Zenon
  <2> QED BY <2>1, <2>2, Zenon
<1>8. ASSUME NEW i \in 1..n, NEW chunks, Good(i - 1, chunks)
      PROVE  Good(i, Pack(chunks, text[i]))
  <2>1. /\ FirstOf(text, i) = FirstOf(text, i - 1) \cup {text[i]}
        /\ \A y \in FirstOf(text, i - 1) : y < text[i]
        /\ text[i] \in Nat
    BY FirstOfGrows DEF n
  <2>2. \A y \in Held(chunks) : y < text[i]
    BY <1>8, <2>1
  <2>3. /\ Begin(chunks, text[i]) \in T /\ Orderly(Begin(chunks, text[i]))
        /\ Held(Begin(chunks, text[i])) = FirstOf(text, i)
    BY <1>8, <2>1, <2>2, BeginKeeps
  <2>4. ASSUME chunks # <<>>
        PROVE  /\ Gather(chunks, text[i]) \in T /\ Orderly(Gather(chunks, text[i]))
               /\ Held(Gather(chunks, text[i])) = FirstOf(text, i)
    BY <1>8, <2>1, <2>2, <2>4, GatherKeeps
  <2> QED BY <2>3, <2>4 DEF Pack
<1> HIDE DEF Good
<1>9. \A i \in 0..n : i \in P
  <2>1. 0 \in P
    BY <1>1, <1>4, <1>7
  <2>2. ASSUME NEW i \in 1..n, i - 1 \in P PROVE i \in P
    BY <1>1, <1>7, <1>8, <2>2
  <2> HIDE DEF P
  <2> QED BY <1>1, <2>1, <2>2, AlongTo
<1>10. Good(n, g[n])
  BY <1>1, <1>9
<1>11. FirstOf(text, n) = ToSet(text)
  BY DEF FirstOf, ToSet, n
<1> QED BY <1>3, <1>10, <1>11 DEF Good

SegmentKinds == {"list_item", "table", "paragraph", "split"}

Segs == [words : Seq(Nat), path : Seq(Nat), kind : SegmentKinds]

WordsIn(ss) == [k \in DOMAIN ss |-> ss[k].words]

LEMMA HeldWords ==
  ASSUME NEW ss, NEW x
  PROVE  x \in Held(WordsIn(ss)) <=>
           \E k \in DOMAIN ss : \E i \in DOMAIN ss[k].words : x = ss[k].words[i]
BY HeldBy DEF WordsIn

\* Segments in order, joined: in order, and what they held before.
LEMMA JoinedSegments ==
  ASSUME NEW ss \in Seq(Seq(Segs)),
         \A k \in DOMAIN ss : Orderly(WordsIn(ss[k])),
         \A j, k \in DOMAIN ss : j < k =>
           \A x \in Held(WordsIn(ss[j])), y \in Held(WordsIn(ss[k])) : x < y
  PROVE  /\ FlattenSeq(ss) \in Seq(Segs)
         /\ Orderly(WordsIn(FlattenSeq(ss)))
         /\ \A x : x \in Held(WordsIn(FlattenSeq(ss))) <=>
              \E k \in DOMAIN ss : x \in Held(WordsIn(ss[k]))
         /\ \A p \in DOMAIN FlattenSeq(ss) :
              \E k \in DOMAIN ss : \E i \in DOMAIN ss[k] : FlattenSeq(ss)[p] = ss[k][i]
<1> DEFINE flat == FlattenSeq(ss)
<1>1. PICK row, col : flat \in Seq(Segs) /\ Places(ss, flat, row, col)
  BY Flattened
<1> HIDE DEF flat
<1>2. \A p \in DOMAIN flat : /\ row[p] \in DOMAIN ss /\ col[p] \in DOMAIN ss[row[p]]
                             /\ flat[p] = ss[row[p]][col[p]] /\ row[p] \in Nat /\ col[p] \in Nat
  <2>1. \A k \in DOMAIN ss : k \in Nat
    OBVIOUS
  <2> QED BY <1>1, <2>1 DEF Places
<1>3. \A k \in DOMAIN ss : \A i \in DOMAIN ss[k] : WordsIn(ss[k])[i] = ss[k][i].words
  BY DEF WordsIn
<1>4. \A p \in DOMAIN flat : WordsIn(flat)[p] = WordsIn(ss[row[p]])[col[p]]
  BY <1>2, <1>3 DEF WordsIn
<1>5. DOMAIN WordsIn(flat) = DOMAIN flat
      /\ \A k \in DOMAIN ss : DOMAIN WordsIn(ss[k]) = DOMAIN ss[k]
  BY DEF WordsIn
<1>6. \A p \in DOMAIN flat : WordsIn(flat)[p] # <<>> /\ Ascending(WordsIn(flat)[p])
  <2>1. \A k \in DOMAIN ss : \A i \in DOMAIN ss[k] :
          WordsIn(ss[k])[i] # <<>> /\ Ascending(WordsIn(ss[k])[i])
    BY <1>5 DEF Orderly
  <2> QED BY <1>2, <1>4, <2>1
<1>7. ASSUME NEW p \in DOMAIN flat, NEW q \in DOMAIN flat, p < q
      PROVE  Before(WordsIn(flat)[p], WordsIn(flat)[q])
  <2>1. CASE row[p] < row[q]
    <3> SUFFICES ASSUME NEW i \in DOMAIN WordsIn(flat)[p], NEW j \in DOMAIN WordsIn(flat)[q]
                 PROVE  WordsIn(flat)[p][i] < WordsIn(flat)[q][j]
      BY DEF Before
    <3>1. WordsIn(flat)[p][i] \in Held(WordsIn(ss[row[p]]))
      BY <1>2, <1>4, <1>5, HeldBy
    <3>2. WordsIn(flat)[q][j] \in Held(WordsIn(ss[row[q]]))
      BY <1>2, <1>4, <1>5, HeldBy
    <3> QED BY <1>2, <2>1, <3>1, <3>2
  <2>2. CASE row[p] = row[q] /\ col[p] < col[q]
    <3>1. Before(WordsIn(ss[row[p]])[col[p]], WordsIn(ss[row[p]])[col[q]])
      BY <1>2, <1>5, <2>2 DEF Orderly
    <3> QED BY <1>4, <2>2, <3>1
  <2> QED BY <1>1, <1>7, <2>1, <2>2 DEF Places
<1>8. Orderly(WordsIn(flat))
  BY <1>5, <1>6, <1>7 DEF Orderly
<1>9. ASSUME NEW x, x \in Held(WordsIn(flat))
      PROVE  \E k \in DOMAIN ss : x \in Held(WordsIn(ss[k]))
  <2>1. PICK p \in DOMAIN flat : \E i \in DOMAIN WordsIn(flat)[p] : x = WordsIn(flat)[p][i]
    BY <1>5, <1>9, HeldBy
  <2>2. x \in Held(WordsIn(ss[row[p]]))
    BY <1>2, <1>4, <1>5, <2>1, HeldBy
  <2> QED BY <1>2, <2>2
<1>10. ASSUME NEW x, NEW k \in DOMAIN ss, x \in Held(WordsIn(ss[k]))
       PROVE  x \in Held(WordsIn(flat))
  <2>1. PICK i \in DOMAIN ss[k] : \E j \in DOMAIN WordsIn(ss[k])[i] : x = WordsIn(ss[k])[i][j]
    BY <1>5, <1>10, HeldBy
  <2>2. PICK p \in DOMAIN flat : row[p] = k /\ col[p] = i
    BY <1>1 DEF Places
  <2>3. WordsIn(flat)[p] = WordsIn(ss[k])[i]
    BY <1>4, <2>2
  <2> QED BY <1>5, <2>1, <2>3, HeldBy
<1>11. \A p \in DOMAIN flat : \E k \in DOMAIN ss : \E i \in DOMAIN ss[k] : flat[p] = ss[k][i]
  BY <1>2
<1> QED BY <1>1, <1>8, <1>9, <1>10, <1>11 DEF flat

\* A text becomes clauses that hold it, in its order; only when it is not cut may one be
\* an item of a list.
LEMMA CutOfText ==
  ASSUME NEW t \in Seq(Nat), Ascending(t), NEW path \in Seq(Nat), NEW kind \in SegmentKinds
  PROVE  /\ Cut(t, path, kind) \in Seq(Segs)
         /\ Orderly(WordsIn(Cut(t, path, kind)))
         /\ Held(WordsIn(Cut(t, path, kind))) = ToSet(t)
         /\ \A i \in DOMAIN Cut(t, path, kind) :
              /\ Cut(t, path, kind)[i].path = path
              /\ Cut(t, path, kind)[i].kind = "list_item" =>
                   kind = "list_item" /\ Cut(t, path, kind)[i].words = t
<1> DEFINE cut == Cut(t, path, kind)
<1>1. CASE t = <<>>
  <2>1. cut = <<>>
    BY <1>1 DEF Cut
  <2>2. Orderly(WordsIn(<<>>)) /\ Held(WordsIn(<<>>)) = {} /\ ToSet(<<>>) = {}
    BY DEF Orderly, WordsIn, Held, ToSet
  <2>3. <<>> \in Seq(Segs) /\ DOMAIN <<>> = {}
    OBVIOUS
  <2> QED BY <1>1, <2>1, <2>2, <2>3
<1>2. CASE t # <<>> /\ Len(t) <= MaxClauseTokens
  <2> DEFINE s == Segment(t, path, kind)
  <2>1. cut = <<s>>
    BY <1>2 DEF Cut
  <2>2. s \in Segs /\ s.words = t /\ s.path = path /\ s.kind = kind
    BY DEF Segs, Segment
  <2> HIDE DEF s
  <2>3. DOMAIN <<s>> = {1} /\ <<s>>[1] = s /\ <<s>> \in Seq(Segs)
    BY <2>2
  <2>4. DOMAIN WordsIn(<<s>>) = {1} /\ WordsIn(<<s>>)[1] = t
    BY <2>2, <2>3 DEF WordsIn
  <2>5. Orderly(WordsIn(<<s>>))
    BY <1>2, <2>4 DEF Orderly
  <2>6. Held(WordsIn(<<s>>)) = ToSet(t)
    BY <2>4 DEF Held
  <2> QED BY <2>1, <2>2, <2>3, <2>5, <2>6
<1>3. CASE t # <<>> /\ ~(Len(t) <= MaxClauseTokens)
  <2> DEFINE pieces == Pieces(t)
             parts == [k \in DOMAIN pieces |-> Segment(pieces[k], path, "split")]
  <2>1. cut = parts
    BY <1>3 DEF Cut
  <2>2. pieces \in Seq(Seq(Nat)) /\ Orderly(pieces) /\ Held(pieces) = ToSet(t)
    BY PiecesOfText
  <2> HIDE DEF pieces
  <2>3. \A k \in DOMAIN pieces : pieces[k] \in Seq(Nat)
    BY <2>2, ElementOfSequence
  <2>4. \A k \in DOMAIN pieces : /\ parts[k] \in Segs /\ parts[k].words = pieces[k]
                                 /\ parts[k].path = path /\ parts[k].kind = "split"
    BY <2>3 DEF Segs, Segment, SegmentKinds
  <2>5. DOMAIN parts = DOMAIN pieces /\ DOMAIN pieces = 1..Len(pieces) /\ Len(pieces) \in Nat
    BY <2>2
  <2>6. parts \in Seq(Segs)
    <3>1. parts \in [1..Len(pieces) -> Segs]
      BY <2>4, <2>5
    <3> HIDE DEF parts
    <3> QED BY <2>5, <3>1
  <2>7. WordsIn(parts) = pieces
    <3>1. WordsIn(parts) = [k \in DOMAIN pieces |-> pieces[k]]
      BY <2>4, <2>5 DEF WordsIn
    <3> QED BY <2>2, <3>1
  <2> HIDE DEF parts
  <2> QED BY <2>1, <2>2, <2>4, <2>5, <2>6, <2>7
<1> QED BY <1>1, <1>2, <1>3

\* The marker of an item is still the first of its words.
LEMMA WordsOfItem ==
  ASSUME lines \in Seq(Lines), NEW item \in Seq(Nat), item # <<>>, Ascending(item),
         ToSet(item) \subseteq DOMAIN lines, NEW list, HeadsOf(list, item)
  PROVE  HeadsOf(list, Words(item))
<1> DEFINE w == Words(item)
           S == {i \in DOMAIN lines : Worded(lines[i])}
<1>1. w \in Seq(Nat) /\ ToSet(w) = ToSet(item) \cap S /\ Ascending(w)
  BY OnlyKeeps DEF Words
<1>1a. HeadsItsItem(item)
  BY DEF HeadsOf
<1> HIDE DEF w
<1>2. 1 \in DOMAIN item /\ \A i \in DOMAIN item : i \in Nat /\ item[i] \in Nat /\ (i = 1 \/ 1 < i)
  OBVIOUS
<1>3. item[1] \in ToSet(item) /\ item[1] \in S
  <2>1. item[1] \in ToSet(item)
    BY <1>2 DEF ToSet
  <2>2. item[1] \in DOMAIN lines /\ lines[item[1]] \in Lines
    BY <2>1
  <2> QED BY <1>1a, <2>1, <2>2, LinesAreTyped DEF HeadsItsItem
<1>4. PICK m \in DOMAIN w : w[m] = item[1]
  BY <1>1, <1>3 DEF ToSet
<1>5. \A x \in ToSet(item) : x = item[1] \/ item[1] < x
  BY <1>2 DEF ToSet, Ascending
<1>6. 1 \in DOMAIN w /\ \A i \in DOMAIN w : i \in Nat /\ w[i] \in Nat /\ (i = 1 \/ 1 < i)
  BY <1>1, <1>4
<1>7. w[1] = item[1]
  <2>1. w[1] \in ToSet(w)
    BY <1>6 DEF ToSet
  <2>2. w[1] = item[1] \/ item[1] < w[1]
    BY <1>1, <1>5, <2>1
  <2>3. m = 1 \/ w[1] < w[m]
    BY <1>1, <1>4, <1>6 DEF Ascending
  <2> QED BY <1>2, <1>4, <1>6, <2>2, <2>3
<1>8. ASSUME NEW i \in DOMAIN w, lines[w[i]].kind = "bullet"
      PROVE  i = 1 \/ lines[w[i]].depth > lines[w[1]].depth
  <2>1. PICK j \in DOMAIN item : item[j] = w[i]
    <3>1. w[i] \in ToSet(item)
      BY <1>1 DEF ToSet
    <3> QED BY <3>1 DEF ToSet
  <2>2. CASE j = 1
    <3>1. i = 1 \/ w[1] < w[i]
      BY <1>1, <1>6 DEF Ascending
    <3> QED BY <1>6, <1>7, <2>1, <2>2, <3>1
  <2>3. CASE j # 1
    BY <1>1a, <1>7, <1>8, <2>1, <2>3 DEF HeadsItsItem
  <2> QED BY <2>2, <2>3
<1>9. HeadsItsItem(w)
  BY <1>1a, <1>7, <1>8 DEF HeadsItsItem
<1>10. Outermost(list, w[1])
  BY <1>7 DEF HeadsOf
<1> QED BY <1>9, <1>10 DEF HeadsOf, w

\* What one block makes: its worded lines in their order, each under its path.
LEMMA CandidatesOfBody ==
  ASSUME lines \in Seq(Lines), NEW body \in Seq(Nat), Ascending(body),
         ToSet(body) \subseteq DOMAIN lines
  PROVE  /\ Candidates(body) \in Seq(Seq(Nat))
         /\ \A k \in DOMAIN Candidates(body) :
              /\ Ascending(Candidates(body)[k])
              /\ Kind(body) = "list_item" =>
                   Candidates(body)[k] # <<>> /\ HeadsOf(ToSet(body), Candidates(body)[k])
         /\ \A j, k \in DOMAIN Candidates(body) :
              j < k => Before(Candidates(body)[j], Candidates(body)[k])
         /\ Held(Candidates(body)) = ToSet(body)
<1>1. CASE Kind(body) = "list_item"
  <2>1. body # <<>> /\ lines[body[1]].kind = "bullet"
    BY <1>1 DEF Kind
  <2>2. Candidates(body) = ListItems(body)
    BY <1>1 DEF Candidates
  <2> QED BY <2>1, <2>2, ItemsOfList DEF Orderly
<1>2. CASE Kind(body) # "list_item"
  <2>1. Candidates(body) = <<body>>
    BY <1>2 DEF Candidates
  <2>2. <<body>> \in Seq(Seq(Nat)) /\ DOMAIN <<body>> = {1} /\ <<body>>[1] = body
    OBVIOUS
  <2>3. Held(<<body>>) = ToSet(body)
    BY <2>2 DEF Held
  <2>4. ~(1 < 1)
    OBVIOUS
  <2> QED BY <1>2, <2>1, <2>2, <2>3, <2>4
<1> QED BY <1>1, <1>2

LEMMA SegmentsOfBlock ==
  ASSUME lines \in Seq(Lines), NEW block, block.lines \in Seq(Nat), block.path \in Seq(Nat),
         Ascending(block.lines), ToSet(block.lines) \subseteq DOMAIN lines
  PROVE  /\ SegmentsOf(block) \in Seq(Segs)
         /\ Orderly(WordsIn(SegmentsOf(block)))
         /\ Held(WordsIn(SegmentsOf(block))) = {i \in ToSet(block.lines) : Worded(lines[i])}
         /\ \A p \in DOMAIN SegmentsOf(block) :
              /\ SegmentsOf(block)[p].path = block.path
              /\ SegmentsOf(block)[p].kind = "list_item" =>
                   HeadsOf(ToSet(block.lines), SegmentsOf(block)[p].words)
<1> DEFINE body == Body(block)
           S == {i \in DOMAIN lines : Worded(lines[i])}
           cs == Candidates(body)
           kind == Kind(body)
           ss == [k \in DOMAIN cs |-> Cut(Words(cs[k]), block.path, kind)]
<1>1. /\ body \in Seq(Nat) /\ Ascending(body)
      /\ ToSet(body) = ToSet(block.lines) \cap {i \in DOMAIN lines : lines[i].kind # "blank"}
  BY OnlyKeeps DEF Body
<1>2. kind \in SegmentKinds
  BY DEF Kind, SegmentKinds
<1>3. SegmentsOf(block) = FlattenSeq(ss)
  BY DEF SegmentsOf
<1> HIDE DEF body, kind
<1>4. /\ cs \in Seq(Seq(Nat)) /\ Held(cs) = ToSet(body)
      /\ \A k \in DOMAIN cs : /\ Ascending(cs[k])
                              /\ kind = "list_item" => cs[k] # <<>> /\ HeadsOf(ToSet(body), cs[k])
      /\ \A j, k \in DOMAIN cs : j < k => Before(cs[j], cs[k])
  BY <1>1, CandidatesOfBody DEF kind
<1> HIDE DEF cs
<1>5. \A k \in DOMAIN cs : cs[k] \in Seq(Nat) /\ ToSet(cs[k]) \subseteq ToSet(body)
  BY <1>4, ElementOfSequence DEF Held
<1>6. ASSUME NEW k \in DOMAIN cs
      PROVE  /\ ss[k] \in Seq(Segs) /\ Orderly(WordsIn(ss[k]))
             /\ Held(WordsIn(ss[k])) = ToSet(cs[k]) \cap S
             /\ \A i \in DOMAIN ss[k] :
                  /\ ss[k][i].path = block.path
                  /\ ss[k][i].kind = "list_item" => HeadsOf(ToSet(block.lines), ss[k][i].words)
  <2>1. /\ Words(cs[k]) \in Seq(Nat) /\ ToSet(Words(cs[k])) = ToSet(cs[k]) \cap S
        /\ Ascending(Words(cs[k]))
    BY <1>4, <1>5, OnlyKeeps DEF Words
  <2>2. ss[k] = Cut(Words(cs[k]), block.path, kind)
    OBVIOUS
  <2>3. kind = "list_item" => HeadsOf(ToSet(block.lines), Words(cs[k]))
    <3>1. ToSet(cs[k]) \subseteq DOMAIN lines
      BY <1>1, <1>5
    <3>2. kind = "list_item" => HeadsOf(ToSet(body), Words(cs[k]))
      BY <1>4, <1>5, <3>1, WordsOfItem
    <3>3. \A h \in ToSet(block.lines) : lines[h].kind = "bullet" => h \in ToSet(body)
      BY <1>1
    <3> QED BY <3>2, <3>3 DEF HeadsOf, Outermost
  <2> DEFINE t == Words(cs[k])
             path == block.path
  <2> HIDE DEF ss, S, t, path
  <2>4. path \in Seq(Nat) /\ t \in Seq(Nat) /\ Ascending(t)
    BY <2>1 DEF t, path
  <2>5. /\ Cut(t, path, kind) \in Seq(Segs)
        /\ Orderly(WordsIn(Cut(t, path, kind)))
        /\ Held(WordsIn(Cut(t, path, kind))) = ToSet(t)
        /\ \A i \in DOMAIN Cut(t, path, kind) :
             /\ Cut(t, path, kind)[i].path = path
             /\ Cut(t, path, kind)[i].kind = "list_item" =>
                  kind = "list_item" /\ Cut(t, path, kind)[i].words = t
    BY <1>2, <2>4, CutOfText
  <2> QED BY <2>1, <2>2, <2>3, <2>5 DEF t, path
<1>7. ss \in Seq(Seq(Segs)) /\ DOMAIN ss = DOMAIN cs
  <2>1. DOMAIN cs = 1..Len(cs) /\ Len(cs) \in Nat
    BY <1>4
  <2>2. DOMAIN ss = DOMAIN cs
    OBVIOUS
  <2>3. ss \in [1..Len(cs) -> Seq(Segs)]
    BY <1>6, <2>1
  <2> HIDE DEF ss
  <2> QED BY <2>1, <2>2, <2>3
<1>8. \A j, k \in DOMAIN ss : j < k =>
        \A x \in Held(WordsIn(ss[j])), y \in Held(WordsIn(ss[k])) : x < y
  <2> SUFFICES ASSUME NEW j \in DOMAIN cs, NEW k \in DOMAIN cs, j < k,
                      NEW x \in ToSet(cs[j]), NEW y \in ToSet(cs[k])
               PROVE  x < y
    <3> HIDE DEF ss, S
    <3> QED BY <1>6, <1>7
  <2>1. Before(cs[j], cs[k])
    BY <1>4
  <2> QED BY <2>1 DEF Before, ToSet
<1> DEFINE flat == FlattenSeq(ss)
<1> HIDE DEF ss, S
<1>9. /\ flat \in Seq(Segs) /\ Orderly(WordsIn(flat))
      /\ \A x : x \in Held(WordsIn(flat)) <=> \E k \in DOMAIN ss : x \in Held(WordsIn(ss[k]))
      /\ \A p \in DOMAIN flat : \E k \in DOMAIN ss : \E i \in DOMAIN ss[k] : flat[p] = ss[k][i]
  <2>1. \A k \in DOMAIN ss : Orderly(WordsIn(ss[k]))
    BY <1>6, <1>7
  <2> QED BY <1>7, <1>8, <2>1, JoinedSegments
<1> HIDE DEF flat
<1>10. \A x : x \in Held(WordsIn(flat)) <=> x \in ToSet(block.lines) /\ Worded(lines[x])
  <2>1. \A x : x \in Held(WordsIn(flat)) <=> \E k \in DOMAIN cs : x \in ToSet(cs[k]) /\ x \in S
    BY <1>6, <1>7, <1>9
  <2>2. \A x : x \in ToSet(body) <=> \E k \in DOMAIN cs : x \in ToSet(cs[k])
    BY <1>4 DEF Held
  <2>3. \A x \in DOMAIN lines : Worded(lines[x]) => lines[x].kind # "blank"
    BY DEF Worded
  <2> QED BY <1>1, <2>1, <2>2, <2>3 DEF S
<1>11. Held(WordsIn(flat)) = {i \in ToSet(block.lines) : Worded(lines[i])}
  BY <1>10
<1>12. \A p \in DOMAIN flat : /\ flat[p].path = block.path
                              /\ flat[p].kind = "list_item" => HeadsOf(ToSet(block.lines), flat[p].words)
  BY <1>6, <1>7, <1>9
<1> QED BY <1>3, <1>9, <1>11, <1>12 DEF flat

(***************************************************************************)
(* The walk. The operators of the properties, for any text.                *)
(***************************************************************************)
FencedIn(ls, i) == Cardinality({j \in 1..(i - 1) : ls[j].kind = "fence"}) % 2 = 1

OpensIn(ls, i) == ls[i].kind = "heading" /\ ~FencedIn(ls, i)

TextIn(ls, i) == Worded(ls[i]) /\ ~OpensIn(ls, i)

OpenIn(ls, i) ==
  {h \in 1..(i - 1) :
     /\ OpensIn(ls, h)
     /\ \A j \in (h + 1)..(i - 1) : OpensIn(ls, j) => ls[j].depth > ls[h].depth}

EndsIn(ls, i) == ls[i].kind \in {"heading", "rule", "blank"} /\ ~FencedIn(ls, i)

TogetherIn(ls, h, i) == \A j \in (h + 1)..(i - 1) : ~EndsIn(ls, j)

\* The markers above line i, in its list.
MarksIn(ls, i) == {h \in 1..(i - 1) : ls[h].kind = "bullet" /\ TogetherIn(ls, h, i)}

\* Lines that stand with line i, all the markers that do among them.
GatheredIn(ls, s, i) ==
  /\ MarksIn(ls, i) \subseteq ToSet(s)
  /\ \A h \in ToSet(s) : h < i => TogetherIn(ls, h, i)

Blocks == [lines : Seq(Nat), path : Seq(Nat)]

Walks == [stack : Seq(Nat), blocks : Seq(Blocks), current : Seq(Nat), path : Seq(Nat),
          in_fence : BOOLEAN]

\* Lines of the text under the headings that are open there, none of which opens one,
\* and with them the markers of their list.
Under(ls, s, path) ==
  /\ Ascending(s) /\ ToSet(s) \subseteq 1..Len(ls)
  /\ \A i \in ToSet(s) : /\ ~OpensIn(ls, i) /\ OpenIn(ls, i) = ToSet(path)
                         /\ GatheredIn(ls, s, i)

BlocksInv(ls, w) ==
  /\ w \in Walks /\ w.path = w.stack /\ Ascending(w.stack)
  /\ Under(ls, w.current, w.path)
  /\ \A k \in DOMAIN w.blocks :
       /\ Under(ls, w.blocks[k].lines, w.blocks[k].path) /\ Ascending(w.blocks[k].path)
       /\ Before(w.blocks[k].lines, w.current)
  /\ \A j, k \in DOMAIN w.blocks : j < k => Before(w.blocks[j].lines, w.blocks[k].lines)

\* A line is in the walk when it is in a block or in the current one.
Walked(w, i) ==
  i \in ToSet(w.current) \/ \E k \in DOMAIN w.blocks : i \in ToSet(w.blocks[k].lines)

\* The walk over a text: what it has open, and all its text in blocks.
WalkInv(ls, w) ==
  /\ BlocksInv(ls, w)
  /\ w.in_fence = FencedIn(ls, Len(ls) + 1)
  /\ ToSet(w.stack) = OpenIn(ls, Len(ls) + 1)
  /\ \A i \in 1..Len(ls) : TextIn(ls, i) => Walked(w, i)

HeadsIn(ls, item) ==
  /\ ls[item[1]].kind = "bullet"
  /\ \A i \in DOMAIN item : ls[item[i]].kind = "bullet" =>
       i = 1 \/ ls[item[i]].depth > ls[item[1]].depth

\* An item begins with the outermost marker of those above it, and stands with it.
ListedIn(ls, item) ==
  /\ \A h \in MarksIn(ls, item[1]) : ls[h].depth >= ls[item[1]].depth
  /\ \A i \in DOMAIN item : i # 1 => item[1] \in MarksIn(ls, item[i])

SegmentsInv(ls, ss) ==
  /\ ss \in Seq(Segs) /\ Orderly(WordsIn(ss))
  /\ Held(WordsIn(ss)) = {i \in 1..Len(ls) : TextIn(ls, i)}
  /\ \A k \in DOMAIN ss :
       /\ Ascending(ss[k].path) /\ ToSet(ss[k].path) = OpenIn(ls, ss[k].words[1])
       /\ ss[k].kind = "list_item" => HeadsIn(ls, ss[k].words) /\ ListedIn(ls, ss[k].words)

SegmenterInv ==
  /\ lines \in Seq(Lines) /\ phase \in {"reading", "segmented"}
  /\ phase = "reading" => /\ WalkInv(lines, walk) /\ segments = <<>>
                          /\ GatheredIn(lines, walk.current, Len(lines) + 1)
  /\ phase = "segmented" => SegmentsInv(lines, segments)

\* What one more line changes, n lines before it: nothing of those.
LineChanges(ls, line, ls2, n) ==
  /\ n \in Nat /\ ls2 \in Seq(Lines) /\ Len(ls2) = n + 1 /\ ls2[n + 1] = line
  /\ \A i \in 1..n : ls2[i] = ls[i]
  /\ FencedIn(ls2, n + 2) <=> (FencedIn(ls, n + 1) <=> line.kind # "fence")
  /\ \A i \in 1..n : OpensIn(ls2, i) <=> OpensIn(ls, i)
  /\ \A i \in 1..n : TextIn(ls2, i) <=> TextIn(ls, i)
  /\ \A i \in 1..(n + 1) : OpenIn(ls2, i) = OpenIn(ls, i)
  /\ OpensIn(ls2, n + 1) <=> line.kind = "heading" /\ ~FencedIn(ls, n + 1)
  /\ OpensIn(ls2, n + 1) =>
       OpenIn(ls2, n + 2) = {h \in OpenIn(ls, n + 1) : ls[h].depth < line.depth} \cup {n + 1}
  /\ ~OpensIn(ls2, n + 1) => OpenIn(ls2, n + 2) = OpenIn(ls, n + 1)
  /\ EndsIn(ls2, n + 1) <=> line.kind \in {"heading", "rule", "blank"} /\ ~FencedIn(ls, n + 1)
  /\ \A i \in 1..(n + 1) : MarksIn(ls2, i) = MarksIn(ls, i)
  /\ \A h \in 1..n, i \in 1..(n + 1) : TogetherIn(ls2, h, i) <=> TogetherIn(ls, h, i)
  /\ \A h \in 1..n : TogetherIn(ls2, h, n + 2) <=> TogetherIn(ls, h, n + 1) /\ ~EndsIn(ls2, n + 1)
  /\ TogetherIn(ls2, n + 1, n + 2)

LEMMA LineAdded ==
  ASSUME NEW ls \in Seq(Lines), NEW line \in Lines, NEW ls2, ls2 = Append(ls, line),
         NEW n, n = Len(ls)
  PROVE  LineChanges(ls, line, ls2, n)
<1>1. /\ n \in Nat /\ ls2 \in Seq(Lines) /\ Len(ls2) = n + 1 /\ ls2[n + 1] = line
      /\ \A i \in 1..n : ls2[i] = ls[i]
  OBVIOUS
<1> DEFINE Fences(i) == {j \in 1..(i - 1) : ls[j].kind = "fence"}
           Fences2(i) == {j \in 1..(i - 1) : ls2[j].kind = "fence"}
<1>2. \A i \in 1..(n + 1) : Fences2(i) = Fences(i)
  <2>1. \A i \in 1..(n + 1) : \A j \in 1..(i - 1) : j \in 1..n
    BY <1>1
  <2> QED BY <1>1, <2>1
<1>3. \A i \in 1..(n + 1) : FencedIn(ls2, i) <=> FencedIn(ls, i)
  BY <1>2 DEF FencedIn
<1>4. FencedIn(ls2, n + 2) <=> (FencedIn(ls, n + 1) <=> line.kind # "fence")
  <2> DEFINE F == {j \in 1..n : ls[j].kind = "fence"}
             F2 == {j \in 1..(n + 1) : ls2[j].kind = "fence"}
  <2>1. IsFiniteSet(F) /\ n + 1 \notin F
    <3>1. 1 \in Int /\ n \in Int
      BY <1>1
    <3>2. IsFiniteSet(1..n)
      BY <3>1, FS_Interval
    <3>3. F \subseteq 1..n /\ n + 1 \notin 1..n
      BY <1>1
    <3> QED BY <3>2, <3>3, FS_Subset
  <2>2. Cardinality(F) \in Nat /\ Cardinality(F \cup {n + 1}) = Cardinality(F) + 1
    BY <2>1, FS_AddElement, FS_CardinalityType
  <2>3. F2 = IF line.kind = "fence" THEN F \cup {n + 1} ELSE F
    <3>1. \A j \in 1..(n + 1) : j \in 1..n \/ j = n + 1
      BY <1>1
    <3>2. n + 1 \in 1..(n + 1) /\ \A j \in 1..n : j \in 1..(n + 1) /\ j # n + 1
      BY <1>1
    <3>3. \A j : j \in F2 <=> j \in F \/ (j = n + 1 /\ line.kind = "fence")
      BY <1>1, <3>1, <3>2
    <3> QED BY <3>3
  <2>4. (n + 1) - 1 = n /\ (n + 2) - 1 = n + 1
    BY <1>1
  <2>5. FencedIn(ls, n + 1) <=> Cardinality(F) % 2 = 1
    BY <2>4 DEF FencedIn
  <2>6. FencedIn(ls2, n + 2) <=> Cardinality(F2) % 2 = 1
    BY <2>4 DEF FencedIn
  <2> HIDE DEF F, F2
  <2>7. (Cardinality(F) + 1) % 2 = 1 <=> ~(Cardinality(F) % 2 = 1)
    BY <2>2
  <2> QED BY <2>2, <2>3, <2>5, <2>6, <2>7
<1>5. \A i \in 1..n : i \in 1..(n + 1)
  BY <1>1
<1>6. \A i \in 1..n : OpensIn(ls2, i) <=> OpensIn(ls, i)
  BY <1>1, <1>3, <1>5 DEF OpensIn
<1>7. \A i \in 1..n : TextIn(ls2, i) <=> TextIn(ls, i)
  BY <1>1, <1>6 DEF TextIn
<1>8. OpensIn(ls2, n + 1) <=> line.kind = "heading" /\ ~FencedIn(ls, n + 1)
  <2>1. n + 1 \in 1..(n + 1)
    BY <1>1
  <2> QED BY <1>1, <1>3, <2>1 DEF OpensIn
<1>9. \A i \in 1..(n + 1) : OpenIn(ls2, i) = OpenIn(ls, i)
  <2> SUFFICES ASSUME NEW i \in 1..(n + 1) PROVE OpenIn(ls2, i) = OpenIn(ls, i)
    OBVIOUS
  <2>1. \A h \in 1..(i - 1) : h \in 1..n /\ \A j \in (h + 1)..(i - 1) : j \in 1..n
    BY <1>1
  <2> HIDE DEF Fences, Fences2
  <2> QED BY <1>1, <1>6, <2>1 DEF OpenIn
<1> DEFINE Still(h) == \A j \in (h + 1)..n : OpensIn(ls, j) => ls[j].depth > ls[h].depth
           Still2(h) == \A j \in (h + 1)..(n + 1) : OpensIn(ls2, j) => ls2[j].depth > ls2[h].depth
<1>10. (n + 1) - 1 = n /\ (n + 2) - 1 = n + 1
  BY <1>1
<1>11. OpenIn(ls, n + 1) = {h \in 1..n : OpensIn(ls, h) /\ Still(h)}
  BY <1>10 DEF OpenIn
<1>12. OpenIn(ls2, n + 2) = {h \in 1..(n + 1) : OpensIn(ls2, h) /\ Still2(h)}
  BY <1>10 DEF OpenIn
<1>13. \A h \in 1..n : Still2(h) <=>
         Still(h) /\ (OpensIn(ls2, n + 1) => line.depth > ls[h].depth)
  <2> SUFFICES ASSUME NEW h \in 1..n
               PROVE  Still2(h) <=> Still(h) /\ (OpensIn(ls2, n + 1) => line.depth > ls[h].depth)
    OBVIOUS
  <2>1. \A j \in (h + 1)..(n + 1) : j \in (h + 1)..n \/ j = n + 1
    BY <1>1
  <2>2. n + 1 \in (h + 1)..(n + 1) /\ \A j \in (h + 1)..n : j \in (h + 1)..(n + 1) /\ j \in 1..n
    BY <1>1
  <2> QED BY <1>1, <1>6, <2>1, <2>2
<1>14. Still2(n + 1)
  BY <1>1
<1> HIDE DEF Still, Still2, Fences, Fences2
<1>15. \A h \in 1..(n + 1) : h \in 1..n \/ h = n + 1
  BY <1>1
<1>16. n + 1 \in 1..(n + 1) /\ n + 1 \notin 1..n
  BY <1>1
<1>17. ASSUME ~OpensIn(ls2, n + 1)
       PROVE  OpenIn(ls2, n + 2) = OpenIn(ls, n + 1)
  <2>1. \A h : h \in OpenIn(ls2, n + 2) <=> h \in OpenIn(ls, n + 1)
    BY <1>5, <1>6, <1>11, <1>12, <1>13, <1>15, <1>17
  <2> QED BY <2>1
<1>18. ASSUME OpensIn(ls2, n + 1)
       PROVE  OpenIn(ls2, n + 2) = {h \in OpenIn(ls, n + 1) : ls[h].depth < line.depth} \cup {n + 1}
  <2>1. \A h \in 1..n : line.depth > ls[h].depth <=> ls[h].depth < line.depth
    <3>1. \A h \in 1..n : ls[h].depth \in Nat /\ line.depth \in Nat
      BY LinesAreTyped, ElementOfSequence
    <3> QED BY <3>1
  <2>2. \A h \in 1..n : h \in OpenIn(ls2, n + 2) <=> h \in OpenIn(ls, n + 1) /\ ls[h].depth < line.depth
    BY <1>5, <1>6, <1>11, <1>12, <1>13, <1>18, <2>1
  <2>3. n + 1 \in OpenIn(ls2, n + 2)
    BY <1>12, <1>14, <1>16, <1>18
  <2>4. \A h : h \in OpenIn(ls2, n + 2) <=>
          h \in {g \in OpenIn(ls, n + 1) : ls[g].depth < line.depth} \cup {n + 1}
    BY <1>11, <1>12, <1>15, <2>2, <2>3
  <2> QED BY <2>4
<1>19. \A i \in 1..n : EndsIn(ls2, i) <=> EndsIn(ls, i)
  BY <1>1, <1>3, <1>5 DEF EndsIn
<1>20. EndsIn(ls2, n + 1) <=> line.kind \in {"heading", "rule", "blank"} /\ ~FencedIn(ls, n + 1)
  BY <1>1, <1>3, <1>16 DEF EndsIn
<1>21. \A h \in 1..n, i \in 1..(n + 1) : TogetherIn(ls2, h, i) <=> TogetherIn(ls, h, i)
  <2>1. \A h \in 1..n, i \in 1..(n + 1) : \A j \in (h + 1)..(i - 1) : j \in 1..n
    BY <1>1
  <2> QED BY <1>19, <2>1 DEF TogetherIn
<1>22. \A i \in 1..(n + 1) : MarksIn(ls2, i) = MarksIn(ls, i)
  <2>1. \A i \in 1..(n + 1) : \A h \in 1..(i - 1) : h \in 1..n
    BY <1>1
  <2>2. ASSUME NEW i \in 1..(n + 1) PROVE MarksIn(ls2, i) = MarksIn(ls, i)
    BY <1>1, <1>21, <2>1 DEF MarksIn
  <2> QED BY <2>2
<1>23. \A h \in 1..n : TogetherIn(ls2, h, n + 2) <=> TogetherIn(ls, h, n + 1) /\ ~EndsIn(ls2, n + 1)
  <2> SUFFICES ASSUME NEW h \in 1..n
               PROVE  TogetherIn(ls2, h, n + 2) <=> TogetherIn(ls, h, n + 1) /\ ~EndsIn(ls2, n + 1)
    OBVIOUS
  <2>1. \A j \in (h + 1)..(n + 1) : j \in (h + 1)..n \/ j = n + 1
    BY <1>1
  <2>2. n + 1 \in (h + 1)..(n + 1) /\ \A j \in (h + 1)..n : j \in (h + 1)..(n + 1) /\ j \in 1..n
    BY <1>1
  <2>3. TogetherIn(ls2, h, n + 2) <=> \A j \in (h + 1)..(n + 1) : ~EndsIn(ls2, j)
    BY <1>10 DEF TogetherIn
  <2>4. TogetherIn(ls, h, n + 1) <=> \A j \in (h + 1)..n : ~EndsIn(ls, j)
    BY <1>10 DEF TogetherIn
  <2> QED BY <1>19, <2>1, <2>2, <2>3, <2>4
<1>24. TogetherIn(ls2, n + 1, n + 2)
  <2>1. ((n + 1) + 1)..((n + 2) - 1) = {}
    BY <1>1
  <2> QED BY <2>1 DEF TogetherIn
<1> QED BY <1>1, <1>4, <1>6, <1>7, <1>8, <1>9, <1>17, <1>18, <1>20, <1>21, <1>22, <1>23, <1>24 DEF LineChanges

\* The greatest of some positions, or 0.
LEMMA GreatestOf ==
  ASSUME NEW n \in Nat, NEW S, S \subseteq 1..n, NEW m, m = Max(S \cup {0})
  PROVE  m \in S \cup {0} /\ \A y \in S : y <= m
<1> DEFINE Above == {k \in 1..(n + 1) : \A y \in S : y < k}
           M == S \cup {0}
<1>1. n + 1 \in Above
  OBVIOUS
<1>2. PICK k \in Above : \A j \in 1..(k - 1) : j \notin Above
  <2>1. Above \subseteq 1..(n + 1) /\ n + 1 \in Nat
    OBVIOUS
  <2> HIDE DEF Above
  <2>2. Above # {}
    BY <1>1
  <2> QED BY <2>1, <2>2, LeastOf
<1>3. k \in 1..(n + 1) /\ \A y \in S : y < k /\ y \in Int
  BY <1>2
<1>4. k - 1 \in M
  <2>1. CASE k = 1
    BY <2>1
  <2>2. CASE k # 1
    <3>1. k - 1 \in 1..(k - 1) /\ k - 1 \in 1..(n + 1)
      BY <1>3, <2>2
    <3>2. PICK y \in S : ~(y < k - 1)
      BY <1>2, <3>1
    <3>3. y = k - 1
      BY <1>3, <3>2
    <3> QED BY <3>2, <3>3
  <2> QED BY <2>1, <2>2
<1>5. \A y \in M : k - 1 >= y
  BY <1>3
<1>6. m \in M /\ \A y \in M : m >= y
  <2> HIDE DEF M
  <2>1. \E x \in M : \A y \in M : x >= y
    BY <1>4, <1>5
  <2>2. m = CHOOSE x \in M : \A y \in M : x >= y
    BY DEF Max, M
  <2> QED BY <2>1, <2>2
<1>7. m \in Int
  BY <1>6
<1> QED BY <1>3, <1>6, <1>7

LEMMA GreatestIn ==
  ASSUME NEW n \in Nat, NEW S, S \subseteq 1..n, S # {}, NEW y \in S
  PROVE  Max(S) \in S /\ y <= Max(S)
<1>1. PICK m : m = Max(S \cup {0})
  OBVIOUS
<1>2. m \in S \cup {0} /\ \A x \in S : x <= m
  BY <1>1, GreatestOf
<1>3. m \in S
  <2>1. y \in 1..n /\ y <= m
    BY <1>2
  <2> QED BY <1>2, <2>1
<1>4. m \in Int /\ \A x \in S : x \in Int /\ m >= x
  BY <1>2, <1>3
<1>5. \E x \in S : \A z \in S : x >= z
  BY <1>3, <1>4
<1>6. Max(S) = CHOOSE x \in S : \A z \in S : x >= z
  BY DEF Max
<1>7. Max(S) \in S /\ \A z \in S : Max(S) >= z
  BY <1>5, <1>6
<1>8. Max(S) \in Int /\ y \in Int
  BY <1>4, <1>7
<1> QED BY <1>7, <1>8

LEMMA PrefixOf ==
  ASSUME NEW s \in Seq(Nat), NEW m \in 0..Len(s)
  PROVE  /\ SubSeq(s, 1, m) \in Seq(Nat) /\ DOMAIN SubSeq(s, 1, m) = 1..m
         /\ \A i \in 1..m : SubSeq(s, 1, m)[i] = s[i]
OBVIOUS

\* The stack ascends in depth as in the text, so popping it leaves the headings above the
\* new one.
LEMMA PoppedStack ==
  ASSUME lines \in Seq(Lines), NEW stack \in Seq(Nat), Ascending(stack), NEW level \in Nat,
         ToSet(stack) = OpenIn(lines, Len(lines) + 1),
         NEW top, top = SubSeq(stack, 1, Max({k \in DOMAIN stack : lines[stack[k]].depth < level} \cup {0}))
  PROVE  /\ top \in Seq(Nat) /\ Ascending(top)
         /\ ToSet(top) = {h \in OpenIn(lines, Len(lines) + 1) : lines[h].depth < level}
<1> DEFINE n == Len(stack)
           S == {k \in DOMAIN stack : lines[stack[k]].depth < level}
           m == Max(S \cup {0})
<1>1. n \in Nat /\ DOMAIN stack = 1..n /\ S \subseteq 1..n
  OBVIOUS
<1>2. \A k \in 1..n : stack[k] \in Nat /\ stack[k] \in 1..Len(lines) /\ OpensIn(lines, stack[k])
                      /\ lines[stack[k]].depth \in Nat
  <2> SUFFICES ASSUME NEW k \in 1..n
               PROVE  stack[k] \in Nat /\ stack[k] \in 1..Len(lines) /\ OpensIn(lines, stack[k])
                      /\ lines[stack[k]].depth \in Nat
    OBVIOUS
  <2>1. stack[k] \in OpenIn(lines, Len(lines) + 1)
    BY DEF ToSet
  <2>2. (Len(lines) + 1) - 1 = Len(lines)
    OBVIOUS
  <2>3. stack[k] \in 1..Len(lines) /\ OpensIn(lines, stack[k])
    BY <2>1, <2>2 DEF OpenIn
  <2>4. lines[stack[k]] \in Lines
    BY <2>3, ElementOfSequence
  <2> QED BY <2>3, <2>4, LinesAreTyped
<1>3. \A j, k \in 1..n : j < k => lines[stack[j]].depth < lines[stack[k]].depth
  <2> SUFFICES ASSUME NEW j \in 1..n, NEW k \in 1..n, j < k
               PROVE  lines[stack[j]].depth < lines[stack[k]].depth
    OBVIOUS
  <2>1. stack[j] < stack[k] /\ stack[j] \in OpenIn(lines, Len(lines) + 1)
    BY <1>1 DEF Ascending, ToSet
  <2>2. stack[k] \in (stack[j] + 1)..((Len(lines) + 1) - 1)
    BY <1>2, <2>1
  <2>3. lines[stack[k]].depth > lines[stack[j]].depth
    BY <1>2, <2>1, <2>2 DEF OpenIn
  <2> QED BY <1>2, <2>3
<1>4. m \in S \cup {0} /\ \A y \in S : y <= m
  <2> DEFINE mm == m
  <2> HIDE DEF S
  <2> QED BY <1>1, GreatestOf
<1>5. m \in 0..n
  <2> HIDE DEF n, S, m
  <2> QED BY <1>1, <1>4
<1>6. \A k \in 1..n : lines[stack[k]].depth < level <=> k <= m
  <2> SUFFICES ASSUME NEW k \in 1..n PROVE lines[stack[k]].depth < level <=> k <= m
    OBVIOUS
  <2>1. ASSUME lines[stack[k]].depth < level PROVE k <= m
    <3>1. k \in S
      BY <1>1, <2>1
    <3> QED BY <1>4, <3>1
  <2>2. ASSUME k <= m PROVE lines[stack[k]].depth < level
    <3>1. m \in S /\ m \in 1..n /\ lines[stack[m]].depth < level
      <4>1. m # 0 /\ m \in 1..n
        <5> HIDE DEF m
        <5> QED BY <1>5, <2>2
      <4>2. m \in S
        <5> HIDE DEF m, S
        <5> QED BY <1>4, <4>1
      <4> QED BY <4>1, <4>2
    <3>2. k = m \/ lines[stack[k]].depth < lines[stack[m]].depth
      <4>1. k = m \/ k < m
        BY <1>5, <2>2
      <4> QED BY <1>3, <3>1, <4>1
    <3> HIDE DEF m
    <3> QED BY <1>2, <3>1, <3>2
  <2> QED BY <2>1, <2>2
<1>7. top = SubSeq(stack, 1, m)
  OBVIOUS
<1> HIDE DEF m, S
<1>8. /\ top \in Seq(Nat) /\ DOMAIN top = 1..m /\ \A i \in 1..m : top[i] = stack[i]
  BY <1>5, <1>7, PrefixOf DEF n
<1>9. \A i \in 1..m : i \in 1..n
  BY <1>5
<1>10. Ascending(top)
  BY <1>1, <1>8, <1>9 DEF Ascending
<1>11. \A h : h \in ToSet(top) <=> h \in OpenIn(lines, Len(lines) + 1) /\ lines[h].depth < level
  <2>1. \A h : h \in ToSet(top) <=> \E i \in 1..m : h = stack[i]
    BY <1>8 DEF ToSet
  <2>2. \A h : h \in OpenIn(lines, Len(lines) + 1) <=> \E i \in 1..n : h = stack[i]
    BY <1>1 DEF ToSet
  <2>3. \A i \in 1..n : i <= m <=> i \in 1..m
    BY <1>5
  <2> QED BY <1>6, <1>9, <2>1, <2>2, <2>3
<1>12. ToSet(top) = {h \in OpenIn(lines, Len(lines) + 1) : lines[h].depth < level}
  BY <1>11
<1> QED BY <1>8, <1>10, <1>12

\* Closing a block keeps the walk over the same lines: what it drops says nothing.
LEMMA CloseKeeps ==
  ASSUME lines \in Seq(Lines), NEW w, WalkInv(lines, w), NEW c, c = CloseBlock(w)
  PROVE  /\ WalkInv(lines, c)
         /\ c.current = <<>> /\ c.stack = w.stack /\ c.in_fence = w.in_fence
<1> DEFINE n == Len(w.blocks)
           worded == \E i \in DOMAIN w.current : lines[w.current[i]].kind # "blank"
           block == [lines |-> w.current, path |-> w.path]
<1>1. /\ w \in Walks /\ w.path = w.stack /\ Ascending(w.stack)
      /\ Under(lines, w.current, w.path)
      /\ \A k \in DOMAIN w.blocks :
           /\ Under(lines, w.blocks[k].lines, w.blocks[k].path) /\ Ascending(w.blocks[k].path)
           /\ Before(w.blocks[k].lines, w.current)
      /\ \A j, k \in DOMAIN w.blocks : j < k => Before(w.blocks[j].lines, w.blocks[k].lines)
  BY DEF WalkInv, BlocksInv
<1>2. /\ w.blocks \in Seq(Blocks) /\ w.current \in Seq(Nat) /\ w.path \in Seq(Nat)
      /\ w.stack \in Seq(Nat) /\ w.in_fence \in BOOLEAN
      /\ n \in Nat /\ DOMAIN w.blocks = 1..n
  BY <1>1 DEF Walks
<1>3. block \in Blocks /\ block.lines = w.current /\ block.path = w.path
  BY <1>2 DEF Blocks
<1>4. /\ c.current = <<>> /\ c.stack = w.stack /\ c.path = w.stack /\ c.in_fence = w.in_fence
      /\ c.blocks = IF worded THEN Append(w.blocks, block) ELSE w.blocks
      /\ c.blocks \in Seq(Blocks) => c \in Walks
  <2>1. c = [w EXCEPT !.blocks = IF worded THEN Append(w.blocks, block) ELSE w.blocks,
                      !.current = <<>>, !.path = w.stack]
    BY DEF CloseBlock
  <2>2. <<>> \in Seq(Nat)
    OBVIOUS
  <2> HIDE DEF worded, block
  <2> QED BY <1>1, <1>2, <2>1, <2>2 DEF Walks
<1> HIDE DEF block, n
<1>5. /\ c.blocks \in Seq(Blocks) /\ \A k \in 1..n : k \in DOMAIN c.blocks /\ c.blocks[k] = w.blocks[k]
      /\ \A k \in DOMAIN c.blocks : k \in 1..n \/ (k = n + 1 /\ worded /\ c.blocks[k] = block)
      /\ worded => n + 1 \in DOMAIN c.blocks /\ c.blocks[n + 1] = block
  <2>1. CASE worded
    <3>1. c.blocks = Append(w.blocks, block)
      BY <1>4, <2>1
    <3>2. /\ Append(w.blocks, block) \in Seq(Blocks)
          /\ DOMAIN Append(w.blocks, block) = 1..(n + 1)
          /\ Append(w.blocks, block)[n + 1] = block
          /\ \A k \in 1..n : Append(w.blocks, block)[k] = w.blocks[k]
      BY <1>2, <1>3 DEF n
    <3>3. /\ n + 1 \in 1..(n + 1) /\ \A k \in 1..n : k \in 1..(n + 1)
          /\ \A k \in 1..(n + 1) : k \in 1..n \/ k = n + 1
      BY <1>2
    <3> QED BY <2>1, <3>1, <3>2, <3>3
  <2>2. CASE ~worded
    BY <1>2, <1>4, <2>2
  <2> QED BY <2>1, <2>2
<1> HIDE DEF worded
<1>6. BlocksInv(lines, c)
  <2>1. Under(lines, <<>>, c.path)
    BY DEF Under, Ascending, ToSet
  <2>2. ASSUME NEW k \in DOMAIN c.blocks
        PROVE  /\ Under(lines, c.blocks[k].lines, c.blocks[k].path) /\ Ascending(c.blocks[k].path)
               /\ Before(c.blocks[k].lines, c.current)
    <3>1. Before(c.blocks[k].lines, <<>>)
      BY DEF Before
    <3>2. CASE k \in 1..n
      BY <1>1, <1>2, <1>4, <1>5, <3>1, <3>2
    <3>3. CASE k = n + 1 /\ c.blocks[k] = block
      BY <1>1, <1>3, <1>4, <3>1, <3>3
    <3> QED BY <1>5, <3>2, <3>3
  <2>3. ASSUME NEW j \in DOMAIN c.blocks, NEW k \in DOMAIN c.blocks, j < k
        PROVE  Before(c.blocks[j].lines, c.blocks[k].lines)
    <3>1. j \in 1..n
      <4>1. j \in 1..n \/ j = n + 1
        BY <1>5
      <4>2. k \in 1..n \/ k = n + 1
        BY <1>5
      <4> QED BY <1>2, <2>3, <4>1, <4>2
    <3>2. CASE k \in 1..n
      BY <1>1, <1>2, <1>5, <2>3, <3>1, <3>2
    <3>3. CASE k = n + 1 /\ c.blocks[k] = block
      BY <1>1, <1>2, <1>3, <1>5, <3>1, <3>3
    <3> QED BY <1>5, <3>2, <3>3
  <2>4. c \in Walks /\ c.path = c.stack /\ Ascending(c.stack)
    BY <1>1, <1>4, <1>5
  <2> QED BY <1>4, <2>1, <2>2, <2>3, <2>4 DEF BlocksInv
<1>7. ASSUME NEW i \in 1..Len(lines), TextIn(lines, i)
      PROVE  Walked(c, i)
  <2>1. Walked(w, i)
    BY <1>7 DEF WalkInv
  <2>2. CASE i \in ToSet(w.current)
    <3>1. worded
      <4>1. PICK a \in DOMAIN w.current : w.current[a] = i
        BY <2>2 DEF ToSet
      <4>2. lines[i].kind # "blank"
        BY <1>7 DEF TextIn, Worded
      <4> QED BY <4>1, <4>2 DEF worded
    <3>2. i \in ToSet(block.lines)
      BY <1>3, <2>2
    <3> QED BY <1>5, <3>1, <3>2 DEF Walked
  <2>3. CASE \E k \in DOMAIN w.blocks : i \in ToSet(w.blocks[k].lines)
    BY <1>2, <1>5, <2>3 DEF Walked
  <2> QED BY <2>1, <2>2, <2>3 DEF Walked
<1> QED BY <1>4, <1>6, <1>7 DEF WalkInv

\* One more line leaves what has been walked as it is.
LEMMA WalkedStays ==
  ASSUME NEW ls \in Seq(Lines), NEW line \in Lines, NEW ls2, ls2 = Append(ls, line),
         NEW w, WalkInv(ls, w)
  PROVE  /\ BlocksInv(ls2, w)
         /\ \A i \in 1..Len(ls) : TextIn(ls2, i) => Walked(w, i)
<1> DEFINE n == Len(ls)
<1>1. /\ n \in Nat /\ Len(ls2) = n + 1
      /\ \A i \in 1..n : OpensIn(ls2, i) <=> OpensIn(ls, i)
      /\ \A i \in 1..n : TextIn(ls2, i) <=> TextIn(ls, i)
      /\ \A i \in 1..(n + 1) : OpenIn(ls2, i) = OpenIn(ls, i)
      /\ \A i \in 1..(n + 1) : MarksIn(ls2, i) = MarksIn(ls, i)
      /\ \A h \in 1..n, i \in 1..(n + 1) : TogetherIn(ls2, h, i) <=> TogetherIn(ls, h, i)
  <2>1. n = Len(ls)
    OBVIOUS
  <2> HIDE DEF n
  <2>2. LineChanges(ls, line, ls2, n)
    BY <2>1, LineAdded
  <2> QED BY <2>2 DEF LineChanges
<1> HIDE DEF n
<1>2. \A i \in 1..n : i \in 1..(n + 1)
  BY <1>1
<1>3. ASSUME NEW s, NEW path, Under(ls, s, path) PROVE Under(ls2, s, path)
  <2>1. /\ Ascending(s) /\ ToSet(s) \subseteq 1..n
        /\ \A i \in ToSet(s) : ~OpensIn(ls, i) /\ OpenIn(ls, i) = ToSet(path) /\ GatheredIn(ls, s, i)
    BY <1>3 DEF Under, n
  <2>2. \A i \in ToSet(s) : GatheredIn(ls2, s, i)
    BY <1>1, <1>2, <2>1 DEF GatheredIn
  <2>3. ToSet(s) \subseteq 1..Len(ls2)
    BY <1>1, <1>2, <2>1
  <2>4. \A i \in ToSet(s) : ~OpensIn(ls2, i) /\ OpenIn(ls2, i) = ToSet(path)
    BY <1>1, <1>2, <2>1
  <2> QED BY <2>1, <2>2, <2>3, <2>4 DEF Under
<1>4. BlocksInv(ls2, w)
  BY <1>3 DEF WalkInv, BlocksInv
<1>5. \A i \in 1..n : TextIn(ls2, i) => Walked(w, i)
  BY <1>1 DEF WalkInv, n
<1> QED BY <1>4, <1>5 DEF n

\* The walk keeps its invariant along a line of each kind.
LEMMA FeedKeeps ==
  ASSUME lines \in Seq(Lines), NEW w, WalkInv(lines, w), NEW line \in Lines,
         GatheredIn(lines, w.current, Len(lines) + 1), NEW ls2, ls2 = Append(lines, line)
  PROVE  WalkInv(ls2, Feed(w, Len(lines) + 1, line))
<1> DEFINE n == Len(lines)
           next == Feed(w, n + 1, line)
<1>1. /\ n \in Nat /\ ls2 \in Seq(Lines) /\ Len(ls2) = n + 1 /\ ls2[n + 1] = line
      /\ \A i \in 1..n : ls2[i] = lines[i]
      /\ FencedIn(ls2, n + 2) <=> (FencedIn(lines, n + 1) <=> line.kind # "fence")
      /\ \A i \in 1..n : OpensIn(ls2, i) <=> OpensIn(lines, i)
      /\ \A i \in 1..n : TextIn(ls2, i) <=> TextIn(lines, i)
      /\ \A i \in 1..(n + 1) : OpenIn(ls2, i) = OpenIn(lines, i)
      /\ OpensIn(ls2, n + 1) <=> line.kind = "heading" /\ ~FencedIn(lines, n + 1)
      /\ OpensIn(ls2, n + 1) =>
           OpenIn(ls2, n + 2) = {h \in OpenIn(lines, n + 1) : lines[h].depth < line.depth} \cup {n + 1}
      /\ ~OpensIn(ls2, n + 1) => OpenIn(ls2, n + 2) = OpenIn(lines, n + 1)
      /\ \A i \in 1..(n + 1) : MarksIn(ls2, i) = MarksIn(lines, i)
      /\ \A h \in 1..n, i \in 1..(n + 1) : TogetherIn(ls2, h, i) <=> TogetherIn(lines, h, i)
  <2>1. n = Len(lines)
    OBVIOUS
  <2> HIDE DEF n
  <2>2. LineChanges(lines, line, ls2, n)
    BY <2>1, LineAdded
  <2> QED BY <2>2 DEF LineChanges
<1>1a. Len(ls2) + 1 = n + 2 /\ n + 1 \in Nat /\ n + 1 \in 1..(n + 1)
       /\ (\A i \in 1..(n + 1) : i \in 1..n \/ i = n + 1) /\ \A i \in 1..n : i < n + 1 /\ i \in 1..(n + 1)
  BY <1>1
<1>2. /\ w \in Walks /\ w.in_fence = FencedIn(lines, n + 1) /\ w.path = w.stack
      /\ ToSet(w.stack) = OpenIn(lines, n + 1) /\ Under(lines, w.current, w.path)
      /\ \A k \in DOMAIN w.blocks : Under(lines, w.blocks[k].lines, w.blocks[k].path)
  BY DEF WalkInv, BlocksInv
<1>3. BlocksInv(ls2, w) /\ \A i \in 1..n : TextIn(ls2, i) => Walked(w, i)
  BY WalkedStays
<1> HIDE DEF n
<1>4. ASSUME line.kind = "fence" PROVE WalkInv(ls2, next)
  <2>1. next = [w EXCEPT !.in_fence = ~w.in_fence]
    BY <1>4 DEF Feed
  <2> HIDE DEF next
  <2>2. /\ next.stack = w.stack /\ next.blocks = w.blocks /\ next.current = w.current
        /\ next.path = w.path /\ next.in_fence = ~w.in_fence /\ next \in Walks
    BY <1>2, <2>1 DEF Walks
  <2>3. BlocksInv(ls2, next)
    BY <1>3, <2>2 DEF BlocksInv
  <2>4. next.in_fence = FencedIn(ls2, n + 2)
    <3>1. next.in_fence \in BOOLEAN /\ FencedIn(ls2, n + 2) \in BOOLEAN /\ w.in_fence \in BOOLEAN
      BY <1>2, <2>2 DEF Walks, FencedIn
    <3>2. FencedIn(ls2, n + 2) <=> ~FencedIn(lines, n + 1)
      BY <1>1, <1>4
    <3> QED BY <1>2, <2>2, <3>1, <3>2
  <2>5. ToSet(next.stack) = OpenIn(ls2, n + 2)
    BY <1>1, <1>2, <1>4, <2>2
  <2>6. \A i \in 1..(n + 1) : TextIn(ls2, i) => Walked(next, i)
    <3>1. ~TextIn(ls2, n + 1)
      BY <1>1, <1>4 DEF TextIn, Worded
    <3>2. \A i : Walked(w, i) => Walked(next, i)
      BY <2>2 DEF Walked
    <3> QED BY <1>1a, <1>3, <3>1, <3>2
  <2> QED BY <1>1, <1>1a, <2>3, <2>4, <2>5, <2>6 DEF WalkInv
<1>5. ASSUME line.kind # "fence", w.in_fence \/ line.kind \notin {"heading", "rule", "blank"}
      PROVE  WalkInv(ls2, next)
  <2>1. next = [w EXCEPT !.current = Append(w.current, n + 1)]
    BY <1>5 DEF Feed, Extend
  <2>2. ~OpensIn(ls2, n + 1)
    BY <1>1, <1>2, <1>5
  <2> HIDE DEF next
  <2>3. w.current \in Seq(Nat) /\ w.in_fence \in BOOLEAN
    BY <1>2 DEF Walks
  <2>4. /\ Append(w.current, n + 1) \in Seq(Nat)
        /\ ToSet(Append(w.current, n + 1)) = ToSet(w.current) \cup {n + 1}
        /\ Ascending(Append(w.current, n + 1))
    <3>1. Ascending(w.current) /\ \A y \in ToSet(w.current) : y < n + 1
      BY <1>1a, <1>2 DEF Under, n
    <3> QED BY <1>1a, <2>3, <3>1, AppendLater
  <2>5. /\ next.stack = w.stack /\ next.blocks = w.blocks /\ next.path = w.path
        /\ next.current = Append(w.current, n + 1) /\ next.in_fence = w.in_fence /\ next \in Walks
    BY <1>2, <2>1, <2>4 DEF Walks
  <2>6. BlocksInv(ls2, next)
    <3>1. Under(ls2, next.current, next.path)
      <4>1. Under(ls2, w.current, w.path)
        BY <1>3 DEF BlocksInv
      <4>2. OpenIn(ls2, n + 1) = ToSet(w.path)
        BY <1>1, <1>1a, <1>2
      <4>3. /\ ToSet(w.current) \subseteq 1..n /\ \A i \in ToSet(w.current) : i < n + 1 /\ ~(n + 1 < i)
        BY <1>1, <1>1a, <1>2 DEF Under, n
      <4>4. GatheredIn(ls2, w.current, n + 1)
        BY <1>1, <1>1a, <4>3 DEF GatheredIn, n
      <4>5. GatheredIn(ls2, next.current, n + 1)
        <5>1. ~(n + 1 < n + 1)
          BY <1>1
        <5> QED BY <2>4, <2>5, <4>4, <5>1 DEF GatheredIn
      <4>6. \A i \in ToSet(w.current) : GatheredIn(ls2, next.current, i)
        <5>1. \A i \in ToSet(w.current) : GatheredIn(ls2, w.current, i)
          BY <4>1 DEF Under
        <5> QED BY <2>4, <2>5, <4>3, <5>1 DEF GatheredIn
      <4>7. ToSet(next.current) \subseteq 1..Len(ls2) /\ Ascending(next.current)
        BY <1>1, <1>1a, <2>4, <2>5, <4>3
      <4>8. \A i \in ToSet(w.current) : ~OpensIn(ls2, i) /\ OpenIn(ls2, i) = ToSet(w.path)
        BY <4>1 DEF Under
      <4> QED BY <2>2, <2>4, <2>5, <4>2, <4>5, <4>6, <4>7, <4>8 DEF Under
    <3>2. ASSUME NEW k \in DOMAIN w.blocks PROVE Before(w.blocks[k].lines, next.current)
      <4> SUFFICES ASSUME NEW i \in DOMAIN w.blocks[k].lines, NEW j \in DOMAIN next.current
                   PROVE  w.blocks[k].lines[i] < next.current[j]
        BY DEF Before
      <4>1. w.blocks[k].lines[i] \in 1..n
        BY <1>2 DEF Under, ToSet, n
      <4>2. next.current[j] \in ToSet(w.current) \cup {n + 1}
        BY <2>4, <2>5 DEF ToSet
      <4>3. Before(w.blocks[k].lines, w.current)
        BY <1>3 DEF BlocksInv
      <4>4. \A x \in ToSet(w.current) : w.blocks[k].lines[i] < x
        BY <4>3 DEF Before, ToSet
      <4> QED BY <1>1a, <4>1, <4>2, <4>4
    <3> QED BY <1>3, <2>5, <3>1, <3>2 DEF BlocksInv
  <2>7. next.in_fence = FencedIn(ls2, n + 2)
    <3>1. FencedIn(ls2, n + 2) \in BOOLEAN /\ FencedIn(lines, n + 1) \in BOOLEAN
      BY DEF FencedIn
    <3> QED BY <1>1, <1>2, <1>5, <2>5, <3>1
  <2>8. ToSet(next.stack) = OpenIn(ls2, n + 2)
    BY <1>1, <1>2, <2>2, <2>5
  <2>9. \A i \in 1..(n + 1) : TextIn(ls2, i) => Walked(next, i)
    <3>1. Walked(next, n + 1)
      BY <2>4, <2>5 DEF Walked
    <3>2. \A i : Walked(w, i) => Walked(next, i)
      BY <2>4, <2>5 DEF Walked
    <3> QED BY <1>1a, <1>3, <3>1, <3>2
  <2> QED BY <1>1, <1>1a, <2>6, <2>7, <2>8, <2>9 DEF WalkInv
<1> DEFINE c == CloseBlock(w)
<1>6. /\ WalkInv(lines, c) /\ c.current = <<>> /\ c.stack = w.stack /\ c.in_fence = w.in_fence
      /\ BlocksInv(ls2, c) /\ \A i \in 1..n : TextIn(ls2, i) => Walked(c, i)
  <2>1. WalkInv(lines, c) /\ c.current = <<>> /\ c.stack = w.stack /\ c.in_fence = w.in_fence
    BY CloseKeeps
  <2> HIDE DEF c
  <2> QED BY <2>1, WalkedStays DEF n
<1> HIDE DEF c
<1>6a. c.in_fence = FencedIn(lines, n + 1) /\ ToSet(c.stack) = OpenIn(lines, n + 1) /\ c \in Walks
  BY <1>6 DEF WalkInv, BlocksInv, n
<1>7. ASSUME line.kind \in {"rule", "blank"}, ~w.in_fence
      PROVE  WalkInv(ls2, next)
  <2>1. next = c
    BY <1>7 DEF Feed, c
  <2>2. c.in_fence = FencedIn(ls2, n + 2)
    <3>1. FencedIn(ls2, n + 2) \in BOOLEAN /\ FencedIn(lines, n + 1) \in BOOLEAN
      BY DEF FencedIn
    <3> QED BY <1>1, <1>6a, <1>7, <3>1
  <2>3. ToSet(c.stack) = OpenIn(ls2, n + 2)
    BY <1>1, <1>6a, <1>7
  <2>4. \A i \in 1..(n + 1) : TextIn(ls2, i) => Walked(c, i)
    <3>1. ~TextIn(ls2, n + 1)
      BY <1>1, <1>7 DEF TextIn, Worded
    <3> QED BY <1>1a, <1>6, <3>1
  <2> HIDE DEF next
  <2>5. WalkInv(ls2, c)
    BY <1>1, <1>1a, <1>6, <2>2, <2>3, <2>4 DEF WalkInv
  <2> QED BY <2>1, <2>5
<1>8. ASSUME line.kind = "heading", ~w.in_fence
      PROVE  WalkInv(ls2, next)
  <2> DEFINE top == SubSeq(w.stack, 1, Max({k \in DOMAIN w.stack : lines[w.stack[k]].depth < line.depth} \cup {0}))
             open == Append(top, n + 1)
  <2>1. next = [c EXCEPT !.stack = open, !.path = open]
    BY <1>8 DEF Feed, OpenHeading, c
  <2>2. OpensIn(ls2, n + 1)
    BY <1>1, <1>2, <1>8
  <2>3. /\ top \in Seq(Nat) /\ Ascending(top)
        /\ ToSet(top) = {h \in OpenIn(lines, n + 1) : lines[h].depth < line.depth}
    <3>1. w.stack \in Seq(Nat) /\ Ascending(w.stack) /\ line.depth \in Nat
      BY LinesAreTyped DEF WalkInv, BlocksInv, Walks
    <3> QED BY <1>2, <3>1, PoppedStack DEF n
  <2> HIDE DEF next, top
  <2>4. /\ open \in Seq(Nat) /\ Ascending(open) /\ ToSet(open) = OpenIn(ls2, n + 2)
    <3>1. \A y \in ToSet(top) : y < n + 1
      <4>1. \A h \in OpenIn(lines, n + 1) : h \in 1..n
        BY <1>1 DEF OpenIn
      <4> QED BY <1>1a, <2>3, <4>1
    <3>2. /\ open \in Seq(Nat) /\ Ascending(open) /\ ToSet(open) = ToSet(top) \cup {n + 1}
      BY <1>1a, <2>3, <3>1, AppendLater
    <3> QED BY <1>1, <2>2, <2>3, <3>2
  <2> HIDE DEF open
  <2>5. /\ next.stack = open /\ next.path = open /\ next.blocks = c.blocks
        /\ next.current = <<>> /\ next.in_fence = c.in_fence /\ next \in Walks
    BY <1>6, <1>6a, <2>1, <2>4 DEF Walks
  <2>6. BlocksInv(ls2, next)
    <3>1. Under(ls2, <<>>, open)
      BY DEF Under, Ascending, ToSet
    <3> QED BY <1>6, <2>4, <2>5, <3>1 DEF BlocksInv
  <2>7. next.in_fence = FencedIn(ls2, n + 2)
    <3>1. FencedIn(ls2, n + 2) \in BOOLEAN /\ FencedIn(lines, n + 1) \in BOOLEAN
      BY DEF FencedIn
    <3> QED BY <1>1, <1>6a, <1>8, <2>5, <3>1
  <2>8. \A i \in 1..(n + 1) : TextIn(ls2, i) => Walked(next, i)
    <3>1. ~TextIn(ls2, n + 1)
      BY <2>2 DEF TextIn
    <3>2. \A i : Walked(c, i) => Walked(next, i)
      BY <1>6, <2>5 DEF Walked
    <3> QED BY <1>1a, <1>6, <3>1, <3>2
  <2> QED BY <1>1, <1>1a, <2>4, <2>5, <2>6, <2>7, <2>8 DEF WalkInv
<1>9. w.in_fence \in BOOLEAN
  BY <1>2 DEF Walks
<1> HIDE DEF next
<1>10. WalkInv(ls2, next)
  BY <1>4, <1>5, <1>7, <1>8, <1>9
<1> QED BY <1>10 DEF next, n

\* What a block is made of stands together, and a line that ends a list begins a new block.
LEMMA ListGoesOn ==
  ASSUME lines \in Seq(Lines), NEW w, WalkInv(lines, w), NEW line \in Lines,
         GatheredIn(lines, w.current, Len(lines) + 1), NEW ls2, ls2 = Append(lines, line)
  PROVE  GatheredIn(ls2, Feed(w, Len(lines) + 1, line).current, Len(lines) + 2)
<1> DEFINE n == Len(lines)
           next == Feed(w, n + 1, line)
<1>1. /\ n \in Nat /\ Len(ls2) = n + 1 /\ ls2[n + 1] = line /\ \A i \in 1..n : ls2[i] = lines[i]
      /\ EndsIn(ls2, n + 1) <=> line.kind \in {"heading", "rule", "blank"} /\ ~FencedIn(lines, n + 1)
      /\ \A h \in 1..n : TogetherIn(ls2, h, n + 2) <=> TogetherIn(lines, h, n + 1) /\ ~EndsIn(ls2, n + 1)
      /\ TogetherIn(ls2, n + 1, n + 2)
  <2>1. n = Len(lines)
    OBVIOUS
  <2> HIDE DEF n
  <2>2. LineChanges(lines, line, ls2, n)
    BY <2>1, LineAdded
  <2> QED BY <2>2 DEF LineChanges
<1>2. /\ w \in Walks /\ w.in_fence = FencedIn(lines, n + 1) /\ ToSet(w.current) \subseteq 1..n
      /\ \A h \in ToSet(w.current) : h < n + 1
      /\ w.current \in Seq(Nat) /\ w.in_fence \in BOOLEAN
  BY <1>1 DEF WalkInv, BlocksInv, Under, Walks
<1>3. /\ MarksIn(lines, n + 1) \subseteq ToSet(w.current)
      /\ \A h \in ToSet(w.current) : TogetherIn(lines, h, n + 1)
  BY <1>2 DEF GatheredIn
<1> HIDE DEF n
<1>4. MarksIn(ls2, n + 2) = {h \in 1..(n + 1) : ls2[h].kind = "bullet" /\ TogetherIn(ls2, h, n + 2)}
  <2>1. (n + 2) - 1 = n + 1
    BY <1>1
  <2> QED BY <2>1 DEF MarksIn
<1>5. MarksIn(lines, n + 1) = {h \in 1..n : lines[h].kind = "bullet" /\ TogetherIn(lines, h, n + 1)}
  <2>1. (n + 1) - 1 = n
    BY <1>1
  <2> QED BY <2>1 DEF MarksIn
<1>6. \A h \in 1..(n + 1) : h \in 1..n \/ h = n + 1
  BY <1>1
\* The markers that stand with the next line are those that stood with this one, and this.
<1>7. \A h \in MarksIn(ls2, n + 2) :
        \/ h = n + 1 /\ line.kind = "bullet"
        \/ h \in ToSet(w.current) /\ ~EndsIn(ls2, n + 1)
  BY <1>1, <1>3, <1>4, <1>5, <1>6
<1>8. CASE line.kind = "fence"
  <2>1. next.current = w.current
    BY <1>2, <1>8 DEF Feed, Walks
  <2>2. ~EndsIn(ls2, n + 1)
    BY <1>1, <1>8
  <2> HIDE DEF next
  <2>3. GatheredIn(ls2, next.current, n + 2)
    BY <1>1, <1>2, <1>3, <1>7, <1>8, <2>1, <2>2 DEF GatheredIn
  <2> QED BY <2>3 DEF next, n
<1>9. CASE line.kind # "fence" /\ (w.in_fence \/ line.kind \notin {"heading", "rule", "blank"})
  <2>1. next.current = Append(w.current, n + 1)
    BY <1>2, <1>9 DEF Feed, Extend, Walks
  <2>2. ~EndsIn(ls2, n + 1)
    BY <1>1, <1>2, <1>9
  <2>3. ToSet(Append(w.current, n + 1)) = ToSet(w.current) \cup {n + 1}
    <3>1. Ascending(w.current) /\ n + 1 \in Nat
      BY <1>1 DEF WalkInv, BlocksInv, Under
    <3> QED BY <1>2, <3>1, AppendLater
  <2> HIDE DEF next
  <2>4. GatheredIn(ls2, next.current, n + 2)
    BY <1>1, <1>2, <1>3, <1>7, <2>1, <2>2, <2>3 DEF GatheredIn
  <2> QED BY <2>4 DEF next, n
<1>10. CASE ~w.in_fence /\ line.kind \in {"heading", "rule", "blank"}
  <2>1. next.current = <<>>
    <3>1. CloseBlock(w).current = <<>> /\ CloseBlock(w) \in Walks
      BY CloseKeeps DEF WalkInv, BlocksInv
    <3> DEFINE c == CloseBlock(w)
    <3> HIDE DEF c
    <3>2. \A open : [c EXCEPT !.stack = open, !.path = open].current = c.current
      BY <3>1 DEF Walks, c
    <3>3. CASE line.kind = "heading"
      BY <1>10, <3>1, <3>2, <3>3 DEF Feed, OpenHeading, c
    <3>4. CASE line.kind \in {"rule", "blank"}
      BY <1>10, <3>1, <3>4 DEF Feed
    <3> QED BY <1>10, <3>3, <3>4
  <2>2. EndsIn(ls2, n + 1)
    BY <1>1, <1>2, <1>10
  <2>3. ToSet(<<>>) = {}
    BY DEF ToSet
  <2> HIDE DEF next
  <2>4. GatheredIn(ls2, next.current, n + 2)
    BY <1>7, <1>10, <2>1, <2>2, <2>3 DEF GatheredIn
  <2> QED BY <2>4 DEF next, n
<1> QED BY <1>2, <1>8, <1>9, <1>10

\* Groups in order, joined, ascend.
LEMMA JoinedAscends ==
  ASSUME NEW groups \in Seq(Seq(Nat)), Orderly(groups)
  PROVE  Ascending(FlattenSeq(groups)) /\ ToSet(FlattenSeq(groups)) = Held(groups)
<1> DEFINE flat == FlattenSeq(groups)
<1>1. PICK row, col : flat \in Seq(Nat) /\ Places(groups, flat, row, col)
  BY Flattened
<1> HIDE DEF flat
<1>2. \A p \in DOMAIN flat : /\ row[p] \in DOMAIN groups /\ col[p] \in DOMAIN groups[row[p]]
                             /\ flat[p] = groups[row[p]][col[p]]
  BY <1>1 DEF Places
<1>3. ASSUME NEW p \in DOMAIN flat, NEW q \in DOMAIN flat, p < q
      PROVE  flat[p] < flat[q]
  <2>1. CASE row[p] < row[q]
    BY <1>2, <2>1 DEF Orderly, Before
  <2>2. CASE row[p] = row[q] /\ col[p] < col[q]
    <3>1. Ascending(groups[row[p]])
      BY <1>2 DEF Orderly
    <3> QED BY <1>2, <2>2, <3>1 DEF Ascending
  <2> QED BY <1>1, <1>3, <2>1, <2>2 DEF Places
<1>4. \A x : x \in ToSet(flat) <=> x \in Held(groups)
  <2>1. ASSUME NEW x \in ToSet(flat) PROVE x \in Held(groups)
    <3>1. PICK p \in DOMAIN flat : x = flat[p]
      BY <2>1 DEF ToSet
    <3> QED BY <1>2, <3>1, HeldBy
  <2>2. ASSUME NEW x \in Held(groups) PROVE x \in ToSet(flat)
    <3>1. PICK k \in DOMAIN groups : \E i \in DOMAIN groups[k] : x = groups[k][i]
      BY <2>2, HeldBy
    <3>2. PICK i \in DOMAIN groups[k] : x = groups[k][i]
      BY <3>1
    <3>3. PICK p \in DOMAIN flat : row[p] = k /\ col[p] = i
      BY <1>1 DEF Places
    <3> QED BY <1>2, <3>2, <3>3 DEF ToSet
  <2> QED BY <2>1, <2>2
<1> QED BY <1>3, <1>4 DEF Ascending, flat

LEMMA HeadsIsHeads ==
  ASSUME NEW item
  PROVE  HeadsItsItem(item) <=> HeadsIn(lines, item)
BY DEF HeadsItsItem, HeadsIn

\* What the walk leaves behind becomes the clauses of the text.
LEMMA WalkBecomesSegments ==
  ASSUME lines \in Seq(Lines), NEW c, WalkInv(lines, c), c.current = <<>>,
         NEW ss, ss = FlattenSeq([k \in DOMAIN c.blocks |-> SegmentsOf(c.blocks[k])])
  PROVE  SegmentsInv(lines, ss)
<1> DEFINE bs == c.blocks
           parts == [k \in DOMAIN bs |-> SegmentsOf(bs[k])]
           WordedOf(k) == {i \in ToSet(bs[k].lines) : Worded(lines[i])}
           Well(k, part) ==
             /\ part \in Seq(Segs) /\ Orderly(WordsIn(part)) /\ Held(WordsIn(part)) = WordedOf(k)
             /\ \A p \in DOMAIN part :
                  /\ part[p].path = bs[k].path
                  /\ part[p].kind = "list_item" => HeadsOf(ToSet(bs[k].lines), part[p].words)
<1>1. /\ bs \in Seq(Blocks)
      /\ \A k \in DOMAIN bs : Under(lines, bs[k].lines, bs[k].path) /\ Ascending(bs[k].path)
      /\ \A j, k \in DOMAIN bs : j < k => Before(bs[j].lines, bs[k].lines)
  BY DEF WalkInv, BlocksInv, Walks
<1>2. \A i \in 1..Len(lines) : TextIn(lines, i) => \E k \in DOMAIN bs : i \in ToSet(bs[k].lines)
  <2>1. ToSet(<<>>) = {}
    BY DEF ToSet
  <2> QED BY <2>1 DEF WalkInv, Walked
<1>3. ss = FlattenSeq(parts)
  OBVIOUS
<1> HIDE DEF bs
<1>4. ASSUME NEW k \in DOMAIN bs PROVE Well(k, parts[k])
  <2>1. bs[k] \in Blocks
    BY <1>1, ElementOfSequence
  <2>2. bs[k].lines \in Seq(Nat) /\ bs[k].path \in Seq(Nat)
    BY <2>1 DEF Blocks
  <2>3. Ascending(bs[k].lines) /\ ToSet(bs[k].lines) \subseteq DOMAIN lines
    <3>1. Ascending(bs[k].lines) /\ ToSet(bs[k].lines) \subseteq 1..Len(lines)
      BY <1>1 DEF Under
    <3>2. DOMAIN lines = 1..Len(lines)
      OBVIOUS
    <3> QED BY <3>1, <3>2
  <2> DEFINE b == bs[k]
             part == SegmentsOf(b)
  <2>4. /\ part \in Seq(Segs) /\ Orderly(WordsIn(part))
        /\ Held(WordsIn(part)) = {i \in ToSet(b.lines) : Worded(lines[i])}
        /\ \A p \in DOMAIN part :
             /\ part[p].path = b.path
             /\ part[p].kind = "list_item" => HeadsOf(ToSet(b.lines), part[p].words)
    <3> HIDE DEF b
    <3> QED BY <2>2, <2>3, SegmentsOfBlock DEF b
  <2>5. parts[k] = part
    OBVIOUS
  <2> HIDE DEF part, parts
  <2> QED BY <2>4, <2>5
<1>5. /\ parts \in Seq(Seq(Segs)) /\ DOMAIN parts = DOMAIN bs
      /\ \A k \in DOMAIN bs : bs[k].lines \in Seq(Nat)
  <2>1. DOMAIN bs = 1..Len(bs) /\ Len(bs) \in Nat
    BY <1>1
  <2>2. parts \in [1..Len(bs) -> Seq(Segs)]
    BY <1>4, <2>1
  <2>3. DOMAIN parts = DOMAIN bs
    OBVIOUS
  <2>4. \A k \in DOMAIN bs : bs[k].lines \in Seq(Nat)
    <3>1. \A k \in DOMAIN bs : bs[k] \in Blocks
      BY <1>1, ElementOfSequence
    <3> QED BY <3>1 DEF Blocks
  <2> HIDE DEF parts
  <2> QED BY <2>1, <2>2, <2>3, <2>4
<1> HIDE DEF parts
<1>6. \A j, k \in DOMAIN parts : j < k =>
        \A x \in Held(WordsIn(parts[j])), y \in Held(WordsIn(parts[k])) : x < y
  <2> SUFFICES ASSUME NEW j \in DOMAIN bs, NEW k \in DOMAIN bs, j < k,
                      NEW x \in WordedOf(j), NEW y \in WordedOf(k)
               PROVE  x < y
    BY <1>4, <1>5
  <2>1. Before(bs[j].lines, bs[k].lines)
    BY <1>1
  <2> QED BY <2>1 DEF Before, ToSet
<1>7. /\ ss \in Seq(Segs) /\ Orderly(WordsIn(ss))
      /\ \A x : x \in Held(WordsIn(ss)) <=> \E k \in DOMAIN parts : x \in Held(WordsIn(parts[k]))
      /\ \A p \in DOMAIN ss : \E k \in DOMAIN parts : \E i \in DOMAIN parts[k] : ss[p] = parts[k][i]
  <2>1. \A k \in DOMAIN parts : Orderly(WordsIn(parts[k]))
    BY <1>4, <1>5
  <2> HIDE DEF WordedOf, Well
  <2> DEFINE flat == FlattenSeq(parts)
  <2>2. /\ flat \in Seq(Segs) /\ Orderly(WordsIn(flat))
        /\ \A x : x \in Held(WordsIn(flat)) <=> \E k \in DOMAIN parts : x \in Held(WordsIn(parts[k]))
        /\ \A p \in DOMAIN flat : \E k \in DOMAIN parts : \E i \in DOMAIN parts[k] : flat[p] = parts[k][i]
    BY <1>5, <1>6, <2>1, JoinedSegments
  <2>3. ss = flat
    BY <1>3
  <2> HIDE DEF flat
  <2> QED BY <2>2, <2>3
<1>8. Held(WordsIn(ss)) = {i \in 1..Len(lines) : TextIn(lines, i)}
  <2>1. \A x : x \in Held(WordsIn(ss)) <=> \E k \in DOMAIN bs : x \in WordedOf(k)
    <3>1. \A k \in DOMAIN bs : Held(WordsIn(parts[k])) = WordedOf(k)
      BY <1>4
    <3> HIDE DEF WordedOf, Well
    <3>2. DOMAIN parts = DOMAIN bs
      BY <1>5
    <3>3. \A x : x \in Held(WordsIn(ss)) <=> \E k \in DOMAIN bs : x \in Held(WordsIn(parts[k]))
      BY <1>7, <3>2
    <3> QED BY <3>1, <3>3
  <2>2. \A k \in DOMAIN bs : \A x \in ToSet(bs[k].lines) : x \in 1..Len(lines) /\ ~OpensIn(lines, x)
    BY <1>1 DEF Under
  <2>3. \A x : (\E k \in DOMAIN bs : x \in WordedOf(k)) <=> x \in 1..Len(lines) /\ TextIn(lines, x)
    BY <1>2, <2>2 DEF TextIn
  <2> QED BY <2>1, <2>3
<1>9. ASSUME NEW p \in DOMAIN ss
      PROVE  /\ Ascending(ss[p].path) /\ ToSet(ss[p].path) = OpenIn(lines, ss[p].words[1])
             /\ ss[p].kind = "list_item" => HeadsIn(lines, ss[p].words) /\ ListedIn(lines, ss[p].words)
  <2>1. PICK k \in DOMAIN bs : \E i \in DOMAIN parts[k] : ss[p] = parts[k][i]
    BY <1>5, <1>7
  <2>2. PICK i \in DOMAIN parts[k] : ss[p] = parts[k][i]
    BY <2>1
  <2>3. Well(k, parts[k])
    BY <1>4
  <2>4. /\ ss[p].path = bs[k].path
        /\ ss[p].kind = "list_item" => HeadsOf(ToSet(bs[k].lines), ss[p].words)
    BY <2>2, <2>3
  <2>5. ss[p].words \in Seq(Nat) /\ ss[p].words # <<>> /\ Ascending(ss[p].words)
    <3>1. ss[p] \in Segs
      BY <1>7, ElementOfSequence
    <3>2. WordsIn(ss)[p] = ss[p].words /\ p \in DOMAIN WordsIn(ss)
      BY DEF WordsIn
    <3> QED BY <1>7, <3>1, <3>2 DEF Segs, Orderly
  <2>6. 1 \in DOMAIN ss[p].words
    BY <2>5
  <2>7. ss[p].words[1] \in Held(WordsIn(parts[k]))
    BY <2>2, <2>6, HeldWords
  <2>8. ss[p].words[1] \in ToSet(bs[k].lines)
    BY <2>3, <2>7
  <2>9. OpenIn(lines, ss[p].words[1]) = ToSet(bs[k].path) /\ Ascending(bs[k].path)
    BY <1>1, <2>8 DEF Under
  <2>10. ASSUME ss[p].kind = "list_item" PROVE ListedIn(lines, ss[p].words)
    <3> DEFINE item == ss[p].words
               list == ToSet(bs[k].lines)
    <3>1. HeadsItsItem(item) /\ Outermost(list, item[1])
      BY <2>4, <2>10 DEF HeadsOf
    <3>2. \A x \in list : GatheredIn(lines, bs[k].lines, x)
      BY <1>1 DEF Under
    <3>3. \A r \in DOMAIN item : item[r] \in list /\ item[r] \in Nat /\ item[r] # 0
      <4>1. \A r \in DOMAIN item : item[r] \in Held(WordsIn(parts[k]))
        BY <2>2, HeldWords
      <4>2. \A r \in DOMAIN item : item[r] \in list
        BY <2>3, <4>1
      <4>3. \A x \in list : x \in 1..Len(lines)
        BY <1>1 DEF Under
      <4>4. \A x \in 1..Len(lines) : x \in Nat /\ x # 0
        OBVIOUS
      <4> HIDE DEF item, list
      <4> QED BY <4>2, <4>3, <4>4
    <3>4. \A r \in DOMAIN item : r # 1 => item[1] < item[r]
      <4>1. \A r \in DOMAIN item : r # 1 => 1 < r
        BY <2>5
      <4> QED BY <2>5, <2>6, <4>1 DEF Ascending
    <3>5. 1 \in DOMAIN item
      BY <2>6
    <3> HIDE DEF item, list
    <3>6. ASSUME NEW h \in MarksIn(lines, item[1])
          PROVE  lines[h].depth >= lines[item[1]].depth
      <4>1. h \in 1..(item[1] - 1) /\ lines[h].kind = "bullet"
        BY DEF MarksIn
      <4>2. h < item[1]
        BY <3>3, <3>5, <4>1
      <4>3. h \in list
        BY <3>2, <3>3, <3>5 DEF GatheredIn, list
      <4> QED BY <3>1, <4>1, <4>2, <4>3 DEF Outermost
    <3>7. ASSUME NEW r \in DOMAIN item, r # 1
          PROVE  item[1] \in MarksIn(lines, item[r])
      <4>1. item[1] < item[r]
        BY <3>4, <3>7
      <4>2. item[1] \in 1..(item[r] - 1)
        BY <3>3, <3>5, <4>1
      <4>3. TogetherIn(lines, item[1], item[r])
        BY <3>2, <3>3, <3>5, <4>1 DEF GatheredIn, list
      <4> QED BY <3>1, <4>2, <4>3 DEF MarksIn, HeadsItsItem
    <3> QED BY <3>6, <3>7 DEF ListedIn, item
  <2> QED BY <2>4, <2>9, <2>10, HeadsIsHeads DEF HeadsOf
<1> QED BY <1>7, <1>8, <1>9 DEF SegmentsInv

LEMMA SegmenterInitially == SegmenterInit => SegmenterInv
<1> SUFFICES ASSUME SegmenterInit PROVE SegmenterInv
  OBVIOUS
<1>1. lines = <<>> /\ walk = NoWalk /\ segments = <<>> /\ phase = "reading"
  BY DEF SegmenterInit
<1>2. lines \in Seq(Lines) /\ Len(lines) = 0
  BY <1>1
<1>3. /\ NoWalk.stack = <<>> /\ NoWalk.path = <<>> /\ NoWalk.current = <<>> /\ NoWalk.blocks = <<>>
      /\ NoWalk.in_fence = FALSE /\ NoWalk \in Walks
  BY DEF NoWalk, Walks
<1>4. ToSet(<<>>) = {} /\ DOMAIN <<>> = {} /\ Ascending(<<>>)
  BY DEF ToSet, Ascending
<1>5. BlocksInv(lines, NoWalk)
  BY <1>3, <1>4 DEF BlocksInv, Under
<1>6. OpenIn(lines, 0 + 1) = {}
  <2>1. 1..((0 + 1) - 1) = {}
    OBVIOUS
  <2> QED BY <2>1 DEF OpenIn
<1>7. FencedIn(lines, 0 + 1) = FALSE
  <2>1. {j \in 1..((0 + 1) - 1) : lines[j].kind = "fence"} = {}
    OBVIOUS
  <2>2. Cardinality({}) = 0 /\ 0 % 2 = 0
    BY FS_EmptySet
  <2> QED BY <2>1, <2>2 DEF FencedIn
<1>8. WalkInv(lines, NoWalk)
  <2>1. \A i \in 1..0 : FALSE
    OBVIOUS
  <2> QED BY <1>2, <1>3, <1>4, <1>5, <1>6, <1>7, <2>1 DEF WalkInv
<1>9. GatheredIn(lines, NoWalk.current, Len(lines) + 1)
  <2>1. 1..((0 + 1) - 1) = {}
    OBVIOUS
  <2> QED BY <1>2, <1>3, <1>4, <2>1 DEF GatheredIn, MarksIn
<1> QED BY <1>1, <1>2, <1>8, <1>9 DEF SegmenterInv

LEMMA SegmenterInductive ==
  SegmenterInv /\ [SegmenterNext]_segmenterVars => SegmenterInv'
<1> SUFFICES ASSUME SegmenterInv, [SegmenterNext]_segmenterVars
             PROVE  SegmenterInv'
  OBVIOUS
<1>1. CASE ReadLine
  <2>1. PICK line \in Lines : /\ lines' = Append(lines, line)
                              /\ walk' = Feed(walk, Len(lines) + 1, line)
    BY <1>1 DEF ReadLine
  <2>2. phase = "reading" /\ phase' = phase /\ segments' = segments
    BY <1>1 DEF ReadLine
  <2>3. /\ lines \in Seq(Lines) /\ WalkInv(lines, walk) /\ segments = <<>>
        /\ GatheredIn(lines, walk.current, Len(lines) + 1)
    BY <2>2 DEF SegmenterInv
  <2> DEFINE w == walk
             ls2 == Append(lines, line)
             w2 == Feed(walk, Len(lines) + 1, line)
  <2>4. WalkInv(ls2, w2) /\ GatheredIn(ls2, w2.current, Len(lines) + 2)
    <3>1. WalkInv(lines, w) /\ GatheredIn(lines, w.current, Len(lines) + 1)
      BY <2>3
    <3> HIDE DEF w, ls2
    <3>2. WalkInv(ls2, Feed(w, Len(lines) + 1, line))
      BY <2>3, <3>1, FeedKeeps DEF ls2
    <3>3. GatheredIn(ls2, Feed(w, Len(lines) + 1, line).current, Len(lines) + 2)
      BY <2>3, <3>1, ListGoesOn DEF ls2
    <3> QED BY <3>2, <3>3 DEF w
  <2>5. ls2 \in Seq(Lines) /\ Len(ls2) + 1 = Len(lines) + 2
    BY <2>3
  <2> HIDE DEF ls2, w2
  <2>6. lines' = ls2 /\ walk' = w2
    BY <2>1 DEF ls2, w2
  <2>7. WalkInv(lines', walk') /\ GatheredIn(lines', walk'.current, Len(lines') + 1)
    BY <2>4, <2>5, <2>6
  <2> QED BY <2>2, <2>3, <2>5, <2>6, <2>7 DEF SegmenterInv
<1>2. CASE EndOfText
  <2>1. /\ phase = "reading" /\ walk' = CloseBlock(walk) /\ phase' = "segmented" /\ lines' = lines
        /\ segments' = FlattenSeq([k \in DOMAIN walk'.blocks |-> SegmentsOf(walk'.blocks[k])])
    BY <1>2 DEF EndOfText
  <2>2. lines \in Seq(Lines) /\ WalkInv(lines, walk)
    BY <2>1 DEF SegmenterInv
  <2>3. PICK w : w = walk
    OBVIOUS
  <2>4. PICK c : c = CloseBlock(w)
    OBVIOUS
  <2>5. WalkInv(lines, c) /\ c.current = <<>>
    BY <2>2, <2>3, <2>4, CloseKeeps
  <2>6. PICK ss : ss = FlattenSeq([k \in DOMAIN c.blocks |-> SegmentsOf(c.blocks[k])])
    OBVIOUS
  <2>7. SegmentsInv(lines, ss)
    BY <2>2, <2>5, <2>6, WalkBecomesSegments
  <2>8. walk' = c
    BY <2>1, <2>3, <2>4
  <2>9. segments' = ss
    BY <2>1, <2>6, <2>8
  <2>10. SegmentsInv(lines', segments')
    BY <2>1, <2>7, <2>9
  <2> QED BY <2>1, <2>2, <2>10 DEF SegmenterInv
<1>3. CASE UNCHANGED segmenterVars
  BY <1>3 DEF segmenterVars, SegmenterInv
<1> QED BY <1>1, <1>2, <1>3 DEF SegmenterNext

\* The walk of the Segmenter, for every text: what it has open, and the lines of each
\* block in their order and under the headings that are open above them
\* (segmenter.py:266-319), and once it has ended the clauses made of the blocks
\* (segmenter.py:321-361).
THEOREM SegmenterInvariant == SegmenterSpec => []SegmenterInv
<1> QED BY SegmenterInitially, SegmenterInductive, PTL DEF SegmenterSpec

\* For every text each worded line is in one clause, and the clauses are in its order
\* (segmenter.py:122-125).
THEOREM NoWordIsLost == SegmenterSpec => []EveryWordIsInOneClause
<1>1. SegmenterInv => EveryWordIsInOneClause
  <2> SUFFICES ASSUME SegmenterInv, phase = "segmented"
               PROVE  LET all == FlattenSeq([k \in DOMAIN segments |-> segments[k].words])
                      IN Ascending(all) /\ ToSet(all) = {i \in DOMAIN lines : IsText(i)}
    BY DEF EveryWordIsInOneClause
  <2>1. lines \in Seq(Lines) /\ SegmentsInv(lines, segments)
    BY DEF SegmenterInv
  <2> DEFINE words == [k \in DOMAIN segments |-> segments[k].words]
  <2>2. words = WordsIn(segments)
    BY DEF WordsIn
  <2>3. words \in Seq(Seq(Nat))
    <3>1. segments \in Seq(Segs)
      BY <2>1 DEF SegmentsInv
    <3>2. \A k \in DOMAIN segments : segments[k].words \in Seq(Nat)
      <4>1. \A k \in DOMAIN segments : segments[k] \in Segs
        BY <3>1, ElementOfSequence
      <4> QED BY <4>1 DEF Segs
    <3>3. DOMAIN segments = 1..Len(segments) /\ Len(segments) \in Nat
      BY <3>1
    <3>4. words \in [1..Len(segments) -> Seq(Nat)]
      BY <3>2, <3>3
    <3> HIDE DEF words
    <3> QED BY <3>3, <3>4
  <2>4. Orderly(words) /\ Held(words) = {i \in 1..Len(lines) : TextIn(lines, i)}
    BY <2>1, <2>2 DEF SegmentsInv
  <2> HIDE DEF words
  <2>5. Ascending(FlattenSeq(words)) /\ ToSet(FlattenSeq(words)) = Held(words)
    BY <2>3, <2>4, JoinedAscends
  <2>6. DOMAIN lines = 1..Len(lines)
    BY <2>1
  <2>7. \A i : IsText(i) <=> TextIn(lines, i)
    BY DEF IsText, TextIn, OpensSection, OpensIn, Fenced, FencedIn
  <2>8. {i \in DOMAIN lines : IsText(i)} = {i \in 1..Len(lines) : TextIn(lines, i)}
    BY <2>6, <2>7
  <2> QED BY <2>4, <2>5, <2>8 DEF words
<1> QED BY <1>1, SegmenterInvariant, PTL

\* For every text a clause is under the headings that are open above it, whatever
\* fences, rules and lists stand between (segmenter.py:290-298).
THEOREM PathsAreOpen == SegmenterSpec => []PathIsTheOpenHeadings
<1>1. SegmenterInv => PathIsTheOpenHeadings
  <2> SUFFICES ASSUME SegmenterInv, NEW k \in DOMAIN segments
               PROVE  /\ Ascending(segments[k].path)
                      /\ ToSet(segments[k].path) = OpenAbove(segments[k].words[1])
    BY DEF PathIsTheOpenHeadings
  <2>1. phase = "segmented"
    <3>1. DOMAIN <<>> = {}
      OBVIOUS
    <3> QED BY <3>1 DEF SegmenterInv
  <2>2. \A i : OpenAbove(i) = OpenIn(lines, i)
    BY DEF OpenAbove, OpenIn, OpensSection, OpensIn, Fenced, FencedIn
  <2> QED BY <2>1, <2>2 DEF SegmenterInv, SegmentsInv
<1> QED BY <1>1, SegmenterInvariant, PTL

\* Of groups in order, what lies between two lines of one is of that one.
LEMMA BetweenIsWithin ==
  ASSUME NEW groups, Orderly(groups), \A g \in DOMAIN groups : groups[g] \in Seq(Nat),
         DOMAIN groups \subseteq Nat, NEW k \in DOMAIN groups,
         NEW a \in ToSet(groups[k]), NEW b \in ToSet(groups[k]),
         NEW m \in Held(groups), a <= m, m < b
  PROVE  m \in ToSet(groups[k])
<1>1. PICK g \in DOMAIN groups : m \in ToSet(groups[g])
  BY DEF Held
<1>2. a \in Nat /\ b \in Nat /\ m \in Nat /\ g \in Nat /\ k \in Nat
  <2>1. \A j \in DOMAIN groups : \A x \in ToSet(groups[j]) : x \in Nat
    BY DEF ToSet
  <2> QED BY <1>1, <2>1
<1>3. ~(g < k)
  <2>1. g < k => m < a
    BY <1>1 DEF Orderly, Before, ToSet
  <2> QED BY <1>2, <2>1
<1>4. ~(k < g)
  <2>1. k < g => b < m
    BY <1>1 DEF Orderly, Before, ToSet
  <2> QED BY <1>2, <2>1
<1> QED BY <1>1, <1>2, <1>3, <1>4

\* For every text a marker stands in the clause of the nearest less indented marker above
\* it in its list, and one with none above it begins a clause (segmenter.py:217-235).
THEOREM SubItemsStay == SegmenterSpec => []SubItemsStayWithTheirItem
<1>1. SegmenterInv => SubItemsStayWithTheirItem
  <2> SUFFICES ASSUME SegmenterInv, NEW k \in DOMAIN segments, segments[k].kind = "list_item",
                      NEW i \in ToSet(segments[k].words), lines[i].kind = "bullet"
               PROVE  IF ShallowerAbove(i) = {} THEN i = segments[k].words[1]
                      ELSE Max(ShallowerAbove(i)) \in ToSet(segments[k].words)
    BY DEF SubItemsStayWithTheirItem
  <2> DEFINE words == segments[k].words
             first == words[1]
             above == ShallowerAbove(i)
             m == Max(above)
  <2>1. phase = "segmented"
    <3>1. DOMAIN <<>> = {}
      OBVIOUS
    <3> QED BY <3>1 DEF SegmenterInv
  <2>2. lines \in Seq(Lines) /\ SegmentsInv(lines, segments)
    BY <2>1 DEF SegmenterInv
  <2>3. /\ HeadsIn(lines, words) /\ ListedIn(lines, words)
        /\ Orderly(WordsIn(segments)) /\ Held(WordsIn(segments)) = {j \in 1..Len(lines) : TextIn(lines, j)}
    BY <2>2 DEF SegmentsInv
  <2>4. /\ DOMAIN WordsIn(segments) \subseteq Nat /\ k \in DOMAIN WordsIn(segments)
        /\ WordsIn(segments)[k] = words
        /\ \A g \in DOMAIN WordsIn(segments) : WordsIn(segments)[g] \in Seq(Nat)
    <3>1. segments \in Seq(Segs)
      BY <2>2 DEF SegmentsInv
    <3>2. DOMAIN segments \subseteq Nat
      BY <3>1
    <3>3. \A g \in DOMAIN segments : segments[g] \in Segs
      BY <3>1, ElementOfSequence
    <3>4. \A g \in DOMAIN segments : segments[g].words \in Seq(Nat)
      BY <3>3 DEF Segs
    <3> QED BY <3>2, <3>4 DEF WordsIn
  <2>5. words \in Seq(Nat) /\ words # <<>>
    BY <2>3, <2>4 DEF Orderly
  <2>6. 1 \in DOMAIN words /\ first \in ToSet(words)
    BY <2>5 DEF ToSet
  <2>7. PICK p \in DOMAIN words : words[p] = i
    BY DEF ToSet
  <2>8. \A x \in ToSet(words) : x \in 1..Len(lines)
    <3>1. \A x \in ToSet(words) : x \in Held(WordsIn(segments))
      BY <2>4 DEF Held
    <3> QED BY <2>3, <3>1
  <2>9. above = {h \in MarksIn(lines, i) : lines[h].depth < lines[i].depth}
    BY DEF ShallowerAbove, MarksIn, TogetherIn, EndsIn, EndsList, Fenced, FencedIn
  <2>10. Len(lines) \in Nat /\ i \in 1..Len(lines)
    BY <2>2, <2>8
  <2>11. \A h \in 1..Len(lines) : lines[h].depth \in Nat
    BY <2>2, LinesAreTyped, ElementOfSequence
  <2>12. \A h \in MarksIn(lines, i) : h \in 1..Len(lines) /\ h < i /\ lines[h].kind = "bullet"
    BY <2>10 DEF MarksIn
  <2> HIDE DEF words, first, above, m
  <2>13. CASE p = 1
    <3>1. i = first
      BY <2>7, <2>13 DEF first
    <3>2. \A h \in MarksIn(lines, i) : ~(lines[h].depth < lines[i].depth)
      <4>1. \A h \in MarksIn(lines, i) : lines[h].depth >= lines[i].depth
        BY <2>3, <3>1 DEF ListedIn, first
      <4> QED BY <2>10, <2>11, <2>12, <4>1
    <3>3. above = {}
      BY <2>9, <3>2
    <3> QED BY <3>1, <3>3 DEF above, first, words
  <2>14. CASE p # 1
    <3>1. first \in MarksIn(lines, i)
      BY <2>3, <2>7, <2>14 DEF ListedIn, first
    <3>2. lines[i].depth > lines[first].depth
      BY <2>3, <2>7, <2>14 DEF HeadsIn, first
    <3>3. first \in above
      <4>1. lines[first].depth < lines[i].depth
        BY <2>10, <2>11, <2>12, <3>1, <3>2
      <4> QED BY <2>9, <3>1, <4>1
    <3>4. m \in above /\ first <= m
      <4>1. above \subseteq 1..Len(lines) /\ above # {}
        BY <2>9, <2>12, <3>3
      <4> QED BY <2>10, <3>3, <4>1, GreatestIn DEF m
    <3>5. m \in MarksIn(lines, i)
      BY <2>9, <3>4
    <3>6. m \in Held(WordsIn(segments))
      <4>1. TextIn(lines, m)
        BY <2>12, <3>5 DEF TextIn, Worded, OpensIn
      <4> QED BY <2>3, <2>12, <3>5, <4>1
    <3>7. m \in ToSet(words)
      <4>1. m < i
        BY <2>12, <3>5
      <4>2. i \in ToSet(words)
        BY DEF words
      <4> QED BY <2>3, <2>4, <2>6, <3>4, <3>6, <4>1, <4>2, BetweenIsWithin
    <3>8. above # {}
      BY <3>3
    <3> QED BY <3>7, <3>8 DEF above, m, words
  <2> QED BY <2>13, <2>14
<1> QED BY <1>1, SegmenterInvariant, PTL
===============================================================================
