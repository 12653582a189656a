------------------------- MODULE PolicyIngestProofs -------------------------
(***************************************************************************)
(* Five more parts of what becomes of a policy: the cutting of it into     *)
(* chunks, the check of what was retrieved of them, the dates of its text, *)
(* the comparison of its clauses with the committed baseline, and the      *)
(* extraction of rules from them with its comparison. What the recursive   *)
(* functions compute is proved with the lemmas SegmenterProofs begins with.*)
(***************************************************************************)
EXTENDS AutRetrieval, PolicySource, PolicyManifest, Extraction, SegmenterProofs

(***************************************************************************)
(* The chunks. For every text and all numbers of WindowAssumption, a       *)
(* passage no longer than the overlap plus one survives the cutting whole. *)
(* The induction is on the windows: what starts before the cursor is       *)
(* already whole in one.                                                   *)
(***************************************************************************)
Passage(lo, hi) == lo < hi /\ hi - lo <= OverlapChars + 1 /\ ~Blank(lo, hi)

\* A text of some length, a cursor in the integers from 0, and windows of two offsets.
Offsets ==
  /\ text.length \in Nat
  /\ cursor \in Nat
  /\ windows \in Seq([start : Nat, end : Nat])
  /\ chunked \in BOOLEAN

\* What the loop has gone past is whole.
Behind ==
  \A lo, hi \in 0..text.length : Passage(lo, hi) /\ (lo < cursor \/ chunked) => Whole(lo, hi)

ChunkInv == Offsets /\ Behind

\* Where a window that starts at the cursor may end: at the end of the text, or far enough
\* from the cursor for the overlap to lie ahead of it.
LEMMA WindowEnds ==
  ASSUME Offsets, cursor < text.length,
         NEW end \in SnapBack(Smaller(cursor + ChunkChars, text.length))
  PROVE  /\ end \in Nat /\ cursor < end /\ end <= text.length
         /\ end = text.length \/ cursor + OverlapChars < end
<1> DEFINE full == Smaller(cursor + ChunkChars, text.length)
           stops == {i \in Greater(cursor + 1, full - SnapWindow)..(full - 1) : i \in text.blanks}
<1>0. /\ ChunkChars \in Nat /\ OverlapChars \in Nat /\ SnapWindow \in Nat
      /\ OverlapChars + SnapWindow < ChunkChars /\ cursor \in Nat
  BY WindowAssumption DEF Offsets
<1>1. /\ full \in Nat /\ cursor < full /\ full <= text.length
      /\ full = text.length \/ full = cursor + ChunkChars
  BY WindowAssumption DEF Offsets, Smaller
<1>2. Greater(cursor + 1, full - SnapWindow) \in Int
      /\ Greater(cursor + 1, full - SnapWindow) >= cursor + 1
      /\ Greater(cursor + 1, full - SnapWindow) >= full - SnapWindow
  BY <1>1, WindowAssumption DEF Offsets, Greater
<1>3. CASE full = text.length
  <2>1. end = full
    BY <1>3 DEF SnapBack
  <2> QED
    BY <1>1, <1>3, <2>1
<1>4. CASE full # text.length
  <2>1. end = full \/ end \in stops
    BY <1>4 DEF SnapBack
  <2>2. full = cursor + ChunkChars
    BY <1>1, <1>4
  <2>3. CASE end = full
    BY <1>1, <2>2, <2>3, WindowAssumption DEF Offsets
  <2>4. CASE end \in stops
    <3> HIDE DEF full
    <3>1. /\ end \in Int /\ end >= Greater(cursor + 1, full - SnapWindow) /\ end <= full - 1
      BY <2>4, <1>1, <1>2
    <3>2. end >= cursor + 1 /\ end >= full - SnapWindow
      BY <3>1, <1>0, <1>1, <1>2
    <3>3. cursor + OverlapChars < end
      BY <3>1, <3>2, <2>2, <1>0
    <3>4. end \in Nat /\ cursor < end /\ end <= text.length
      BY <3>1, <3>2, <1>0, <1>1 DEF Offsets
    <3> QED
      BY <3>3, <3>4
  <2> QED
    BY <2>1, <2>3, <2>4
<1> QED
  BY <1>3, <1>4

\* Windows are added at the end and never taken away.
LEMMA KeepExtends ==
  ASSUME Offsets, NEW s \in Nat, NEW e \in Nat
  PROVE  /\ Keep(s, e) \in Seq([start : Nat, end : Nat])
         /\ DOMAIN windows \subseteq DOMAIN Keep(s, e)
         /\ \A k \in DOMAIN windows : Keep(s, e)[k] = windows[k]
         /\ ~Blank(s, e) => \E k \in DOMAIN Keep(s, e) :
                              Keep(s, e)[k] = [start |-> s, end |-> e]
<1> DEFINE w == [start |-> s, end |-> e]
<1>1. w \in [start : Nat, end : Nat]
  OBVIOUS
<1>2. windows \in Seq([start : Nat, end : Nat])
  BY DEF Offsets
<1>3. CASE \A i \in s..(e - 1) : i \in text.blanks
  BY <1>2, <1>3 DEF Keep, Blank
<1>4. CASE ~(\A i \in s..(e - 1) : i \in text.blanks)
  <2>1. Keep(s, e) = Append(windows, w)
    BY <1>4 DEF Keep
  <2> HIDE DEF w
  <2>2. /\ Append(windows, w) \in Seq([start : Nat, end : Nat])
        /\ Len(Append(windows, w)) = Len(windows) + 1
        /\ \A k \in 1..Len(windows) : Append(windows, w)[k] = windows[k]
        /\ Append(windows, w)[Len(windows) + 1] = w
    BY <1>1, <1>2
  <2>3. /\ DOMAIN windows = 1..Len(windows) /\ Len(windows) \in Nat
        /\ DOMAIN Append(windows, w) = 1..(Len(windows) + 1)
    BY <1>2, <2>2
  <2>4. Len(windows) + 1 \in DOMAIN Append(windows, w)
    BY <2>3
  <2>5. \E k \in DOMAIN Append(windows, w) : Append(windows, w)[k] = w
    BY <2>2, <2>4
  <2> QED
    BY <2>1, <2>2, <2>3, <2>5 DEF w
<1> QED
  BY <1>3, <1>4

\* Nothing is behind the first cursor.
LEMMA ChunkInitially == ChunkInit => ChunkInv
<1> SUFFICES ASSUME ChunkInit PROVE ChunkInv
  OBVIOUS
<1>1. text.length \in Nat
  BY WindowAssumption DEF ChunkInit, Corpora
<1>2. Offsets
  <2>1. cursor \in Nat /\ chunked \in BOOLEAN
    BY DEF ChunkInit
  <2>2. windows \in Seq([start : Nat, end : Nat])
    BY DEF ChunkInit
  <2> QED
    BY <1>1, <2>1, <2>2 DEF Offsets
<1>3. Behind
  BY <1>1 DEF ChunkInit, Behind
<1> QED
  BY <1>2, <1>3 DEF ChunkInv

\* A window that starts at the cursor holds what lies between it and the next.
LEMMA WindowKeepsChunkInv == ChunkInv /\ Window => ChunkInv'
<1> SUFFICES ASSUME ChunkInv, Window PROVE ChunkInv'
  OBVIOUS
<1>1. PICK end \in SnapBack(Smaller(cursor + ChunkChars, text.length)) :
        /\ windows' = Keep(cursor, end)
        /\ IF end >= text.length
           THEN chunked' = TRUE /\ UNCHANGED cursor
           ELSE cursor' = Advance(end) /\ UNCHANGED chunked
  BY DEF Window
<1>2. Offsets /\ Behind /\ cursor < text.length /\ ~chunked /\ text' = text
  BY DEF ChunkInv, Window
<1>3. /\ end \in Nat /\ cursor < end /\ end <= text.length
      /\ end = text.length \/ cursor + OverlapChars < end
  BY <1>2, WindowEnds
<1>4. /\ windows' \in Seq([start : Nat, end : Nat])
      /\ DOMAIN windows \subseteq DOMAIN windows'
      /\ \A k \in DOMAIN windows : windows'[k] = windows[k]
      /\ ~Blank(cursor, end) => \E k \in DOMAIN windows' :
                                  windows'[k] = [start |-> cursor, end |-> end]
  <2>1. cursor \in Nat
    BY <1>2 DEF Offsets
  <2> QED
    BY <1>1, <1>2, <1>3, <2>1, KeepExtends
<1>5. /\ end = text.length => chunked' = TRUE /\ cursor' = cursor
      /\ end # text.length => chunked' = chunked /\ cursor' = end - OverlapChars
  BY <1>1, <1>2, <1>3, WindowAssumption DEF Offsets, Advance, Greater
<1>6. Offsets'
  <2>1. cursor' \in Nat
    BY <1>2, <1>3, <1>5, WindowAssumption DEF Offsets
  <2>2. chunked' \in BOOLEAN
    BY <1>2, <1>5 DEF Offsets
  <2>3. text'.length \in Nat
    BY <1>2 DEF Offsets
  <2> QED
    BY <1>4, <2>1, <2>2, <2>3 DEF Offsets
<1>7. Behind'
  <2> SUFFICES ASSUME NEW lo \in 0..text.length, NEW hi \in 0..text.length,
                      Passage(lo, hi), lo < cursor' \/ chunked'
               PROVE  Whole(lo, hi)'
    BY <1>2 DEF Behind, Passage, Blank
  <2>1. CASE lo < cursor
    <3>1. PICK k \in DOMAIN windows : Holds(windows[k], lo, hi)
      BY <1>2, <2>1 DEF Behind, Whole
    <3>2. k \in DOMAIN windows' /\ windows'[k] = windows[k]
      BY <1>4
    <3> QED
      BY <3>1, <3>2 DEF Whole, Holds
  <2>2. CASE ~(lo < cursor)
    <3>1. cursor <= lo /\ hi <= end
      BY <1>2, <1>3, <1>5, <2>2, WindowAssumption DEF Offsets, Passage
    <3>2. ~Blank(cursor, end)
      <4>1. PICK i \in lo..(hi - 1) : i \notin text.blanks
        BY DEF Passage, Blank
      <4>2. cursor \in Nat /\ end \in Nat /\ lo \in Nat /\ hi \in Nat
        BY <1>2, <1>3 DEF Offsets
      <4>3. i \in cursor..(end - 1)
        BY <3>1, <4>2
      <4> QED
        BY <4>1, <4>3 DEF Blank
    <3>3. PICK k \in DOMAIN windows' : windows'[k] = [start |-> cursor, end |-> end]
      BY <1>4, <3>2
    <3> QED
      BY <3>1, <3>3 DEF Whole, Holds
  <2> QED
    BY <2>1, <2>2
<1> QED
  BY <1>6, <1>7 DEF ChunkInv

LEMMA NoTextKeepsChunkInv == ChunkInv /\ NoText => ChunkInv'
<1> SUFFICES ASSUME ChunkInv, NoText PROVE ChunkInv'
  OBVIOUS
<1>1. Offsets'
  BY DEF ChunkInv, Offsets, NoText
<1>2. Behind'
  <2> SUFFICES ASSUME NEW lo \in 0..text.length, NEW hi \in 0..text.length, Passage(lo, hi)
               PROVE  Whole(lo, hi)'
    BY DEF NoText, Behind, Passage, Blank
  <2>1. lo < cursor
    BY DEF ChunkInv, Offsets, NoText, Passage
  <2>2. Whole(lo, hi)
    BY <2>1 DEF ChunkInv, Behind
  <2> QED
    BY <2>2 DEF NoText, Whole, Holds
<1> QED
  BY <1>1, <1>2 DEF ChunkInv

LEMMA ChunkInductive == ChunkInv /\ [ChunkNext]_chunkVars => ChunkInv'
<1>1. ASSUME ChunkInv, UNCHANGED chunkVars PROVE ChunkInv'
  <2>1. UNCHANGED <<text, cursor, windows, chunked>>
    BY <1>1 DEF chunkVars
  <2>2. Offsets'
    BY <1>1, <2>1 DEF ChunkInv, Offsets
  <2>3. \A lo, hi : (Passage(lo, hi)' <=> Passage(lo, hi)) /\ (Whole(lo, hi)' <=> Whole(lo, hi))
    BY <2>1 DEF Passage, Blank, Whole, Holds
  <2>4. Behind'
    BY <1>1, <2>1, <2>3 DEF ChunkInv, Behind
  <2> QED BY <2>2, <2>4 DEF ChunkInv
<1> QED
  BY <1>1, WindowKeepsChunkInv, NoTextKeepsChunkInv DEF ChunkNext

\* What starts before the cursor is whole, at every step of the cutting.
THEOREM CuttingInvariant == ChunkSpec => []ChunkInv
<1> QED
  BY ChunkInitially, ChunkInductive, PTL DEF ChunkSpec

\* Whatever the text and the two agents' numbers, a passage no longer than the overlap
\* plus one is whole in a chunk (aut-strong/chunker.py:116-121).
THEOREM PassagesSurvive == ChunkSpec => []SpansSurvive
<1>1. ChunkInv => SpansSurvive
  BY DEF ChunkInv, Behind, SpansSurvive, Passage
<1> QED
  BY <1>1, CuttingInvariant, PTL

(***************************************************************************)
(* The check of retrieval. It is of windows that no longer change, so what *)
(* the cutting guarantees of a passage is what the check can rely on.      *)
(***************************************************************************)
\* A query comes after the cutting, and a finding after a query.
Asked ==
  /\ dense # <<>> => chunked
  /\ finding # "none" => dense # <<>> /\ key \in Keys /\ finding = Finding(key)

RetrievalInv == ChunkInv /\ Asked

LEMMA RetrievalInductive == RetrievalInv /\ [RetrievalNext]_retrievalVars => RetrievalInv'
<1> SUFFICES ASSUME RetrievalInv, [RetrievalNext]_retrievalVars PROVE RetrievalInv'
  OBVIOUS
<1>1. CASE ChunkNext /\ UNCHANGED <<dense, reranked, key, finding>>
  <2>1. ChunkInv'
    BY <1>1, ChunkInductive DEF RetrievalInv
  <2>2. ~chunked
    BY <1>1 DEF ChunkNext, Window, NoText
  <2> QED BY <1>1, <2>1, <2>2 DEF RetrievalInv, Asked
<1>2. ASSUME UNCHANGED chunkVars PROVE ChunkInv'
  BY <1>2, ChunkInductive DEF RetrievalInv
<1>3. CASE Search
  <2>1. ChunkInv'
    BY <1>2, <1>3 DEF Search
  <2>2. chunked /\ UNCHANGED <<chunked, finding>> /\ finding = "none"
    BY <1>3 DEF Search, RetrievalInv, Asked, chunkVars
  <2> QED BY <2>1, <2>2 DEF RetrievalInv, Asked
<1>4. ASSUME UNCHANGED <<chunkVars, dense, reranked>>, key' \in Keys, finding' = Finding(key')
      PROVE  key' \in Keys' /\ finding' = Finding(key)'
  BY <1>4 DEF chunkVars, Keys, Finding, Holders, Chunks, Holds
<1>5. CASE Check
  <2>1. ChunkInv'
    BY <1>2, <1>5 DEF Check
  <2>2. dense # <<>> /\ UNCHANGED <<chunked, dense>>
    BY <1>5 DEF Check, chunkVars
  <2>3. key' \in Keys' /\ finding' = Finding(key)'
    BY <1>4, <1>5 DEF Check
  <2> QED BY <2>1, <2>2, <2>3 DEF RetrievalInv, Asked
<1>6. CASE UNCHANGED retrievalVars
  <2>1. UNCHANGED <<chunkVars, dense, reranked, key, finding>>
    BY <1>6 DEF retrievalVars
  <2>2. ChunkInv'
    BY <1>2, <2>1
  <2>3. Keys' = Keys /\ Finding(key)' = Finding(key) /\ chunked' = chunked
    BY <2>1 DEF chunkVars, Keys, Finding, Holders, Chunks, Holds
  <2> QED BY <2>1, <2>2, <2>3 DEF RetrievalInv, Asked
<1> QED BY <1>1, <1>3, <1>5, <1>6 DEF RetrievalNext

\* What the check of retrieval says of a passage is so, for every corpus, ranking and
\* depth (check_aut_retrieval.py:373-432).
THEOREM FindingsAreTrue == RetrievalSpec => []FindingIsTrue
<1>1. RetrievalInit => RetrievalInv
  BY ChunkInitially DEF RetrievalInit, RetrievalInv, Asked
<1>2. ASSUME RetrievalInv, finding # "none", key.target, ~Fails
      PROVE  \E c \in ToSet(reranked) : \A i \in key.lo..(key.hi - 1) :
               windows[c].start <= i /\ i < windows[c].end
  <2>1. finding = "reached" /\ finding = Finding(key) /\ key \in Keys
    BY <1>2 DEF Fails, RetrievalInv, Asked
  <2>2. PICK c \in ToSet(reranked) : c \in Holders(key)
    BY <2>1 DEF Finding
  <2>3. /\ windows[c].start \in Nat /\ windows[c].end \in Nat
        /\ windows[c].start <= key.lo /\ key.hi <= windows[c].end
    <3>1. c \in DOMAIN windows /\ windows \in Seq([start : Nat, end : Nat])
      BY <1>2, <2>2 DEF Holders, Chunks, RetrievalInv, ChunkInv, Offsets
    <3>2. windows[c] \in [start : Nat, end : Nat]
      <4>1. DOMAIN windows = 1..Len(windows)
        BY <3>1
      <4> QED BY <3>1, <4>1, ElementOfSequence
    <3> QED BY <2>2, <3>2 DEF Holders, Holds
  <2>4. key.lo \in Int /\ key.hi \in Int
    BY <2>1 DEF Keys
  <2> QED BY <2>2, <2>3, <2>4
<1>3. ASSUME RetrievalInv, finding # "none",
             key.hi - key.lo <= OverlapChars + 1, ~Blank(key.lo, key.hi)
      PROVE  /\ finding # "split"
             /\ finding = "dropped" =>
                  \E c \in ToSet(dense) \ ToSet(reranked) : Holds(windows[c], key.lo, key.hi)
  <2>1. finding = Finding(key) /\ key \in Keys /\ chunked /\ Behind
    BY <1>3 DEF RetrievalInv, Asked, ChunkInv
  <2>2. key.lo \in 0..text.length /\ key.hi \in 0..text.length /\ key.lo < key.hi
    BY <2>1 DEF Keys
  <2>3. Whole(key.lo, key.hi)
    BY <1>3, <2>1, <2>2 DEF Behind, Passage
  <2>4. Holders(key) # {}
    BY <2>3 DEF Whole, Holders, Chunks
  <2>5. finding # "split"
    BY <2>1, <2>4 DEF Finding
  <2>6. ASSUME finding = "dropped"
        PROVE  \E c \in ToSet(dense) \ ToSet(reranked) : Holds(windows[c], key.lo, key.hi)
    <3>1. Holders(key) \cap ToSet(reranked) = {} /\ Holders(key) \cap ToSet(dense) # {}
      BY <2>1, <2>6 DEF Finding
    <3> QED BY <3>1 DEF Holders
  <2> QED BY <2>5, <2>6
<1>4. RetrievalInv => FindingIsTrue
  BY <1>2, <1>3 DEF FindingIsTrue, PassMeansReached, CauseIsTheCause
<1> QED BY <1>1, <1>4, RetrievalInductive, PTL DEF RetrievalSpec

(***************************************************************************)
(* The source of the text. A page says what it said for ever, so a text    *)
(* that was kept with a date stays the text of that date: the invariant    *)
(* says it of every place a text is kept, the cache included.              *)
(***************************************************************************)
Pages == Texts \cup {Broken}

\* A text some page had at a time in the past.
Dated(url, said, at) == at \in 1..Now /\ SaidAt(url, said, at)

Served == served \in Seq([Urls -> Pages]) /\ Now # 0

KeptWell(name) == cached[name] # NoFile => Dated(name, cached[name].text, cached[name].at)

Recorded(url) == lock[url] # NoRow => Dated(url, lock[url].hash, lock[url].at)

LoadedWell == loaded # NoLoad => loaded.url \in Urls /\ Dated(loaded.url, loaded.text, loaded.at)

\* Every text that is kept anywhere was said by its page when it says so.
SourceInv ==
  /\ Served
  /\ DOMAIN cached = Urls /\ \A name \in Urls : KeptWell(name)
  /\ \A url \in Urls : Recorded(url)
  /\ LoadedWell

\* A text is its words and its terminators, so the canonical one is its words.
LEMMA CanonicalWords ==
  /\ \A page \in Pages : Canonical(page) = Text(page.words, "lf")
  /\ \A said, url, at : SaidAt(url, said, at) => Canonical(said) = said
<1>1. ASSUME NEW words, NEW eol PROVE Canonical(Text(words, eol)) = Text(words, "lf")
  BY DEF Canonical, Text
<1>2. ASSUME NEW page \in Pages PROVE Canonical(page) = Text(page.words, "lf")
  <2>1. page = Text(page.words, page.eol)
    BY TextsAssumption DEF Pages, Broken, Text
  <2> QED BY <1>1, <2>1
<1>3. ASSUME NEW said, NEW url, NEW at, SaidAt(url, said, at) PROVE Canonical(said) = said
  BY <1>1, <1>3 DEF SaidAt, Torn
<1> QED BY <1>2, <1>3

\* What a page says now, as a fetch takes it.
LEMMA FetchIsDated ==
  ASSUME Served, NEW url \in Urls, Page(url) # Broken
  PROVE  Dated(url, Canonical(Page(url)), Now)
<1>1. Now \in Nat /\ Now \in 1..Now
  BY DEF Served, Now
<1>2. served[Now] \in [Urls -> Pages]
  BY <1>1 DEF Served, Now
<1>3. Page(url) \in Pages
  BY <1>2 DEF Page
<1> QED BY <1>1, <1>3, CanonicalWords DEF Dated, SaidAt, Page

\* A load is dated, whether it came from the cache or from the page.
LEMMA LoadIsDated ==
  ASSUME SourceInv, NEW url \in Urls, NEW refresh \in BOOLEAN, ~Raises(url, refresh)
  PROVE  /\ LoadedSource(url, refresh).url = url
         /\ Dated(url, LoadedSource(url, refresh).text, LoadedSource(url, refresh).at)
<1>1. CASE Hit(url, refresh)
  <2>1. Dated(url, cached[url].text, cached[url].at)
    BY <1>1 DEF SourceInv, KeptWell, Hit, CacheName
  <2>2. Canonical(cached[url].text) = cached[url].text
    BY <2>1, CanonicalWords DEF Dated
  <2> QED BY <1>1, <2>1, <2>2 DEF LoadedSource, CacheName
<1>2. CASE ~Hit(url, refresh)
  <2>1. Dated(url, Canonical(Page(url)), Now)
    BY <1>2, FetchIsDated DEF SourceInv, Raises
  <2> QED BY <1>2, <2>1 DEF LoadedSource
<1> QED BY <1>1, <1>2

\* A cache file holds what its own page says.
LEMMA CacheIsDated ==
  ASSUME SourceInv, NEW urls \in SUBSET Urls, NEW refresh \in BOOLEAN,
         cached' = CacheAfter(urls, refresh), served' = served
  PROVE  DOMAIN cached' = Urls /\ \A name \in Urls : KeptWell(name)'
<1>1. DOMAIN cached' = Urls
  BY DEF CacheAfter
<1>2. ASSUME NEW name \in Urls PROVE KeptWell(name)'
  <2> DEFINE writers == {u \in urls : CacheName(u) = name /\ Writes(u, refresh)}
  <2>1. cached'[name] = IF writers = {} THEN cached[name]
                        ELSE [text |-> Canonical(Page(CHOOSE u \in writers : TRUE)), at |-> Now]
    BY DEF CacheAfter
  <2>2. Now' = Now /\ \A said, at : SaidAt(name, said, at)' <=> SaidAt(name, said, at)
    BY DEF Now, SaidAt
  <2>3. CASE writers = {}
    BY <2>1, <2>2, <2>3 DEF SourceInv, KeptWell, Dated
  <2>4. CASE writers # {}
    <3>1. (CHOOSE u \in writers : TRUE) = name /\ Writes(name, refresh)
      BY <2>4 DEF CacheName
    <3>2. Dated(name, Canonical(Page(name)), Now)
      BY <3>1, FetchIsDated DEF SourceInv, Writes, Raises
    <3> HIDE DEF writers
    <3>3. cached'[name] = [text |-> Canonical(Page(name)), at |-> Now]
      BY <2>1, <2>4, <3>1
    <3>4. Dated(name, cached'[name].text, cached'[name].at)
      BY <3>2, <3>3
    <3> QED BY <2>2, <3>4 DEF KeptWell, Dated
  <2> QED BY <2>3, <2>4
<1> QED BY <1>1, <1>2

\* What was said is not unsaid.
LEMMA PublishKeepsDates ==
  ASSUME Served, Publish
  PROVE  /\ Served'
         /\ \A url, said, at : Dated(url, said, at) => Dated(url, said, at)'
<1>1. PICK url \in Urls, said \in Pages :
        served' = Append(served, [served[Now] EXCEPT ![url] = said])
  BY DEF Publish, Pages
<1>2. Now \in Nat /\ served[Now] \in [Urls -> Pages]
  BY DEF Served, Now
<1> DEFINE page == [served[Now] EXCEPT ![url] = said]
<1>3. page \in [Urls -> Pages]
  BY <1>2
<1> HIDE DEF page
<1>4. /\ served' \in Seq([Urls -> Pages]) /\ Now' = Now + 1
      /\ \A at \in 1..Now : served'[at] = served[at]
  BY <1>1, <1>3 DEF Served, Now, page
<1>5. 1..Now \subseteq 1..Now' /\ Now' # 0
  BY <1>2, <1>4
<1> QED BY <1>4, <1>5 DEF Served, Dated, SaidAt

\* Nothing is kept before the first load.
LEMMA SourceInitially == SourceInit => SourceInv
<1> SUFFICES ASSUME SourceInit PROVE SourceInv
  OBVIOUS
<1>1. PICK said \in Texts : served = <<[u \in Urls |-> said]>>
  BY DEF SourceInit
<1>2. Served
  <2>1. [u \in Urls |-> said] \in [Urls -> Pages]
    BY DEF Pages
  <2> QED BY <1>1, <2>1 DEF Served, Now
<1> QED BY <1>2 DEF SourceInit, SourceInv, KeptWell, Recorded, LoadedWell

\* Every step leaves every text with a date it was said at.
LEMMA SourceInductive == SourceInv /\ [SourceNext]_sourceVars => SourceInv'
<1> SUFFICES ASSUME SourceInv, [SourceNext]_sourceVars PROVE SourceInv'
  OBVIOUS
<1>1. CASE Publish
  <2>1. UNCHANGED <<cached, lock, loaded>>
    BY <1>1 DEF Publish
  <2>2. Served' /\ \A url, said, at : Dated(url, said, at) => Dated(url, said, at)'
    BY <1>1, PublishKeepsDates DEF SourceInv
  <2> QED BY <2>1, <2>2 DEF SourceInv, KeptWell, Recorded, LoadedWell
<1>2. ASSUME served' = served
      PROVE  Served' /\ \A url, said, at : Dated(url, said, at) => Dated(url, said, at)'
  BY <1>2 DEF SourceInv, Served, Dated, SaidAt, Now
<1>3. CASE LoadForIngest
  <2>1. served' = served /\ lock' = lock
    BY <1>3 DEF LoadForIngest
  <2>2. PICK url \in Urls :
          /\ ~Raises(url, FALSE)
          /\ loaded' = LoadedSource(url, FALSE)
          /\ cached' = CacheAfter({url}, FALSE)
    BY <1>3 DEF LoadForIngest
  <2>3. /\ loaded'.url = url
        /\ Dated(url, loaded'.text, loaded'.at)
    BY <2>2, LoadIsDated
  <2>4. LoadedWell'
    BY <1>2, <2>1, <2>3 DEF LoadedWell
  <2>5. DOMAIN cached' = Urls /\ \A name \in Urls : KeptWell(name)'
    BY <2>1, <2>2, CacheIsDated
  <2> QED BY <1>2, <2>1, <2>4, <2>5 DEF SourceInv, Recorded
<1>4. CASE FetchPolicies
  <2>1. served' = served /\ loaded' = loaded
    BY <1>4 DEF FetchPolicies
  <2>2. PICK urls \in SUBSET Urls, refresh \in BOOLEAN :
          /\ lock' = [u \in Urls |->
                        IF u \in urls /\ ~Raises(u, refresh)
                        THEN Record(LoadedSource(u, refresh), lock[u]) ELSE lock[u]]
          /\ cached' = CacheAfter(urls, refresh)
    BY <1>4 DEF FetchPolicies
  <2>3. ASSUME NEW url \in Urls PROVE Recorded(url)'
    <3>1. CASE url \in urls /\ ~Raises(url, refresh)
      <4> DEFINE load == LoadedSource(url, refresh)
      <4>1. Dated(url, load.text, load.at)
        BY <3>1, LoadIsDated
      <4>2. lock'[url] = Record(load, lock[url])
        BY <2>2, <3>1
      <4> HIDE DEF load
      <4>3. Dated(url, lock'[url].hash, lock'[url].at)
        <5>1. CASE lock[url] = NoRow \/ lock[url].hash # load.text
          BY <4>1, <4>2, <5>1 DEF Record
        <5>2. CASE ~(lock[url] = NoRow \/ lock[url].hash # load.text)
          BY <4>2, <5>2 DEF Record, SourceInv, Recorded
        <5> QED BY <5>1, <5>2
      <4> QED BY <1>2, <2>1, <4>3 DEF Recorded
    <3>2. CASE ~(url \in urls /\ ~Raises(url, refresh))
      <4>1. lock'[url] = lock[url]
        BY <2>2, <3>2
      <4> QED BY <1>2, <2>1, <4>1 DEF SourceInv, Recorded
    <3> QED BY <3>1, <3>2
  <2>4. DOMAIN cached' = Urls /\ \A name \in Urls : KeptWell(name)'
    BY <2>1, <2>2, CacheIsDated
  <2> QED BY <1>2, <2>1, <2>3, <2>4 DEF SourceInv, LoadedWell
<1>5. CASE Killed
  <2>1. UNCHANGED <<served, lock, loaded>>
    BY <1>5 DEF Killed
  <2>2. PICK url \in Urls : cached' = [cached EXCEPT ![url] = [text |-> Torn, at |-> Now]]
    BY <1>5 DEF Killed, CacheName
  <2>3. Dated(url, Torn, Now)
    BY DEF SourceInv, Served, Dated, SaidAt, Now
  <2>4. DOMAIN cached' = Urls /\ \A name \in Urls : KeptWell(name)'
    BY <1>2, <2>1, <2>2, <2>3 DEF SourceInv, KeptWell
  <2> QED BY <1>2, <2>1, <2>4 DEF SourceInv, Recorded, LoadedWell
<1>6. CASE DeleteCache
  BY <1>2, <1>6 DEF DeleteCache, SourceInv, KeptWell, Recorded, LoadedWell
<1>7. CASE UNCHANGED sourceVars
  <2>1. UNCHANGED <<served, cached, lock, loaded>>
    BY <1>7 DEF sourceVars
  <2> QED BY <1>2, <2>1 DEF SourceInv, KeptWell, Recorded, LoadedWell
<1> QED BY <1>1, <1>3, <1>4, <1>5, <1>6, <1>7 DEF SourceNext

\* Whichever way a text came, and whatever its page does, a hash and a date name words
\* that this URL served then (loaders.py:206-208).
THEOREM HashesAreOfTheirDates == SourceSpec => []HashIsOfItsDate
<1>1. SourceInv => HashIsOfItsDate
  BY DEF SourceInv, LoadedWell, Recorded, Dated, HashIsOfItsDate
<1> QED BY <1>1, SourceInitially, SourceInductive, PTL DEF SourceSpec

(***************************************************************************)
(* The baseline. The second pass of a diff is a greedy matching of the     *)
(* clauses left over, hash by hash: it is one to one, and it leaves a      *)
(* clause unmatched only when the baseline has none of its hash left. That *)
(* is proved along the ordinals, by the least one at which it would fail.  *)
(***************************************************************************)
\* A document is a sequence.
LEMMA DocumentsAreSequences ==
  ASSUME NEW d \in Documents
  PROVE  d \in Seq(Hashes) /\ Len(d) \in Nat /\ DOMAIN d = 1..Len(d)
<1>1. PICK n \in 0..MaxClauses : d \in [1..n -> Hashes]
  BY DEF Documents
<1>2. n \in Nat
  BY ManifestAssumption
<1> QED BY <1>1, <1>2

ClaimStep(prev, cur, moves, i) ==
  IF i \in Unchanged(prev, cur) THEN moves ELSE ClaimMove(prev, cur, moves, i)

Claims(prev, cur, n, f) ==
  f = [i \in 0..n |-> IF i = 0 THEN {} ELSE ClaimStep(prev, cur, f[i - 1], i)]

\* A clause claims a baseline clause of its hash that is still free, or there is none.
LEMMA ClaimMoveChoices ==
  ASSUME NEW prev \in Documents, NEW cur \in Documents, NEW moves, NEW i
  PROVE  LET free == {o \in DOMAIN prev : /\ prev[o] = cur[i]
                                          /\ o \notin Unchanged(prev, cur)
                                          /\ \A m \in moves : m.old # o}
         IN \/ free = {} /\ ClaimMove(prev, cur, moves, i) = moves
            \/ \E o \in free :
                 ClaimMove(prev, cur, moves, i) = moves \cup {[old |-> o, new |-> i]}
<1> DEFINE free == {o \in DOMAIN prev : /\ prev[o] = cur[i]
                                        /\ o \notin Unchanged(prev, cur)
                                        /\ \A m \in moves : m.old # o}
<1>1. CASE free = {}
  BY <1>1 DEF ClaimMove
<1>2. CASE free # {}
  <2>1. Len(prev) \in Nat /\ DOMAIN prev = 1..Len(prev)
    BY DocumentsAreSequences
  <2>2. free \subseteq 1..Len(prev)
    BY <2>1
  <2> DEFINE least == CHOOSE o \in free : \A q \in free : o <= q
  <2>3. least \in free
    <3>1. ClaimMove(prev, cur, moves, i) =
            IF free = {} THEN moves ELSE moves \cup {[old |-> least, new |-> i]}
      BY DEF ClaimMove
    <3> HIDE DEF free
    <3>2. PICK m \in free : \A k \in 1..(m - 1) : k \notin free
      BY <1>2, <2>1, <2>2, LeastOf
    <3>3. \A q \in free : m <= q
      BY <2>1, <2>2, <3>2
    <3> QED BY <3>3
  <2>4. ClaimMove(prev, cur, moves, i) = moves \cup {[old |-> least, new |-> i]}
    BY <1>2 DEF ClaimMove
  <2> HIDE DEF least
  <2> QED BY <2>3, <2>4
<1> QED BY <1>1, <1>2

\* The claims are made one after another, and the second pass is the last of them.
LEMMA MovedIsClaimed ==
  ASSUME NEW prev \in Documents, NEW cur \in Documents
  PROVE  \E f : Claims(prev, cur, Len(cur), f) /\ Moved(prev, cur) = f[Len(cur)]
<1> DEFINE n == Len(cur)
           S == SUBSET [old : DOMAIN prev, new : 1..n]
           stride == [p \in (1..n) \X S |-> ClaimStep(prev, cur, p[2], p[1])]
           g == CHOOSE f : Claims(prev, cur, n, f)
<1>1. n \in Nat /\ {} \in S /\ stride \in [(1..n) \X S -> S]
  <2>1. ASSUME NEW i \in 1..n, NEW moves \in S
        PROVE  ClaimStep(prev, cur, moves, i) \in S
    <3>1. CASE i \in Unchanged(prev, cur)
      BY <3>1 DEF ClaimStep
    <3>2. CASE i \notin Unchanged(prev, cur)
      <4>1. ClaimMove(prev, cur, moves, i) \in S
        BY ClaimMoveChoices
      <4> QED BY <3>2, <4>1 DEF ClaimStep
    <3> QED BY <3>1, <3>2
  <2> HIDE DEF S
  <2>2. stride \in [(1..n) \X S -> S]
    BY <2>1
  <2> QED BY <2>2, DocumentsAreSequences DEF S
<1>2. \A i \in 1..n, s \in S : stride[<<i, s>>] = ClaimStep(prev, cur, s, i)
  OBVIOUS
<1>3. Moved(prev, cur) = g[n]
  BY DEF Moved, Claims, ClaimStep
<1> HIDE DEF stride, S, n
<1>4. \E f : Claims(prev, cur, n, f)
  <2>1. PICK f \in [0..n -> S] : Follows(n, {}, stride, f)
    BY <1>1, Recursion
  <2>2. \A i \in 0..n : f[i] = IF i = 0 THEN {} ELSE ClaimStep(prev, cur, f[i - 1], i)
    <3>1. \A i \in 0..n : i = 0 \/ (i \in 1..n /\ i - 1 \in 0..n)
      BY <1>1
    <3> QED BY <1>2, <2>1, <3>1 DEF Follows
  <2> QED BY <2>1, <2>2 DEF Claims
<1> QED BY <1>3, <1>4 DEF n

\* What the claims of the first i clauses keep to.
ClaimsWell(prev, cur, moves, i) ==
  /\ \A m \in moves : /\ m.old \in DOMAIN prev \ Unchanged(prev, cur)
                      /\ m.new \in (1..i) \ Unchanged(prev, cur)
                      /\ prev[m.old] = cur[m.new]
  /\ \A m, k \in moves : m.old = k.old \/ m.new = k.new => m = k
  /\ \A j \in (1..i) \ Unchanged(prev, cur) :
       \/ \E m \in moves : m.new = j
       \/ \A o \in DOMAIN prev \ Unchanged(prev, cur) :
            prev[o] = cur[j] => \E m \in moves : m.old = o

\* The next clause keeps them so.
LEMMA ClaimStepWell ==
  ASSUME NEW prev \in Documents, NEW cur \in Documents, NEW moves,
         NEW i \in Nat \ {0}, ClaimsWell(prev, cur, moves, i - 1)
  PROVE  ClaimsWell(prev, cur, ClaimStep(prev, cur, moves, i), i)
<1> DEFINE same == Unchanged(prev, cur)
           free == {o \in DOMAIN prev : /\ prev[o] = cur[i]
                                        /\ o \notin Unchanged(prev, cur)
                                        /\ \A m \in moves : m.old # o}
<1>1. 1..i = (1..(i - 1)) \cup {i} /\ i \notin 1..(i - 1)
  OBVIOUS
<1>2. CASE i \in same
  <2>1. ClaimStep(prev, cur, moves, i) = moves
    BY <1>2 DEF ClaimStep
  <2>2. (1..i) \ same = (1..(i - 1)) \ same
    BY <1>1, <1>2
  <2> QED BY <2>1, <2>2 DEF ClaimsWell
<1>3. CASE i \notin same /\ free = {} /\ ClaimMove(prev, cur, moves, i) = moves
  <2>1. ClaimStep(prev, cur, moves, i) = moves
    BY <1>3 DEF ClaimStep
  <2>2. \A o \in DOMAIN prev \ same : prev[o] = cur[i] => \E m \in moves : m.old = o
    BY <1>3
  <2> QED BY <1>1, <2>1, <2>2 DEF ClaimsWell
<1>4. ASSUME i \notin same, NEW o \in free,
             ClaimMove(prev, cur, moves, i) = moves \cup {[old |-> o, new |-> i]}
      PROVE  ClaimsWell(prev, cur, ClaimStep(prev, cur, moves, i), i)
  <2> DEFINE claim == [old |-> o, new |-> i]
             all   == moves \cup {claim}
  <2>1. ClaimStep(prev, cur, moves, i) = all
    BY <1>4 DEF ClaimStep
  <2>2. /\ claim.old = o /\ claim.new = i /\ claim \in all /\ moves \subseteq all
        /\ \A m \in all : m \in moves \/ m = claim
        /\ o \in DOMAIN prev \ same /\ prev[o] = cur[i] /\ \A m \in moves : m.old # o
    OBVIOUS
  <2> HIDE DEF claim, all, free
  <2>3. \A m \in all : /\ m.old \in DOMAIN prev \ same /\ m.new \in (1..i) \ same
                       /\ prev[m.old] = cur[m.new]
    BY <1>1, <1>4, <2>2 DEF ClaimsWell
  <2>4. \A m \in moves : m.old # o /\ m.new # i
    BY <1>1, <2>2 DEF ClaimsWell
  <2>5. \A m, k \in all : m.old = k.old \/ m.new = k.new => m = k
    BY <2>2, <2>4 DEF ClaimsWell
  <2>6. \A j \in (1..i) \ same :
          \/ \E m \in all : m.new = j
          \/ \A q \in DOMAIN prev \ same : prev[q] = cur[j] => \E m \in all : m.old = q
    BY <1>1, <2>2 DEF ClaimsWell
  <2> QED BY <2>1, <2>3, <2>5, <2>6 DEF ClaimsWell
<1> QED BY <1>2, <1>3, <1>4, ClaimMoveChoices

\* So the moves are one to one, and no clause of a hash still free goes unmatched.
LEMMA MovedWell ==
  ASSUME NEW prev \in Documents, NEW cur \in Documents
  PROVE  ClaimsWell(prev, cur, Moved(prev, cur), Len(cur))
<1> DEFINE n == Len(cur)
<1>1. PICK f : Claims(prev, cur, n, f) /\ Moved(prev, cur) = f[n]
  BY MovedIsClaimed
<1>2. n \in Nat
  BY DocumentsAreSequences
<1>3. \A i \in 0..n : f[i] = IF i = 0 THEN {} ELSE ClaimStep(prev, cur, f[i - 1], i)
  BY <1>1 DEF Claims
<1>4. f[0] = {} /\ ClaimsWell(prev, cur, f[0], 0)
  BY <1>2, <1>3 DEF ClaimsWell
<1> DEFINE S == {i \in 1..n : ~ClaimsWell(prev, cur, f[i], i)}
<1> HIDE DEF n
<1>5. ASSUME S # {} PROVE FALSE
  <2>1. PICK m \in S : \A k \in 1..(m - 1) : k \notin S
    <3>1. S \subseteq 1..n
      OBVIOUS
    <3> HIDE DEF S
    <3> QED BY <1>2, <1>5, <3>1, LeastOf
  <2>2. m \in 1..n /\ m - 1 \in 0..n /\ m \in Nat \ {0}
    BY <1>2
  <2>3. ClaimsWell(prev, cur, f[m - 1], m - 1)
    <3>1. CASE m = 1
      BY <1>4, <3>1
    <3>2. CASE m # 1
      <4>1. m - 1 \in 1..(m - 1) /\ m - 1 \in 1..n
        BY <1>2, <2>2, <3>2
      <4> QED BY <2>1, <4>1
    <3> QED BY <3>1, <3>2
  <2>4. f[m] = ClaimStep(prev, cur, f[m - 1], m)
    BY <1>2, <1>3, <2>2
  <2>5. ClaimsWell(prev, cur, f[m], m)
    BY <2>2, <2>3, <2>4, ClaimStepWell
  <2> QED BY <2>1, <2>5
<1>6. CASE n = 0
  BY <1>1, <1>4, <1>6 DEF n
<1>7. CASE n # 0
  <2>1. n \in 1..n
    BY <1>2, <1>7
  <2>2. ClaimsWell(prev, cur, f[n], n)
    BY <1>5, <2>1
  <2> QED BY <1>1, <2>2 DEF n
<1> QED BY <1>6, <1>7

\* Which clauses the extractor is sent, and when a diff says nothing.
LEMMA DiffOf ==
  ASSUME NEW prev \in Documents, NEW cur \in Documents
  PROVE  LET d    == Diff(prev, cur)
             same == Unchanged(prev, cur)
             left == (DOMAIN cur \ same) \ {m.new : m \in Moved(prev, cur)}
         IN /\ NeedsExtraction(d) = left
            /\ d.moved = Moved(prev, cur)
            /\ IsClean(d) <=> /\ left = {}
                              /\ DOMAIN prev \subseteq
                                   same \cup {m.old : m \in Moved(prev, cur)}
  BY DEF Diff, NeedsExtraction, IsClean

\* The second pass pairs as many baseline clauses with as many new ones.
LEMMA MovedPairs ==
  ASSUME NEW M, IsFiniteSet({m.new : m \in M}),
         \A m, k \in M : m.old = k.old \/ m.new = k.new => m = k
  PROVE  /\ IsFiniteSet({m.old : m \in M})
         /\ Cardinality({m.old : m \in M}) = Cardinality({m.new : m \in M})
<1> DEFINE News  == {m.new : m \in M}
           Olds  == {m.old : m \in M}
           claim == [j \in News |-> CHOOSE m \in M : m.new = j]
           f     == [j \in News |-> claim[j].old]
<1>1. \A j \in News : claim[j] \in M /\ claim[j].new = j
  OBVIOUS
<1>2. \A m \in M : m.new \in News /\ m.old \in Olds
  OBVIOUS
<1>3. \A o \in Olds : \E m \in M : m.old = o
  OBVIOUS
<1> HIDE DEF claim, News, Olds
<1>4. f \in [News -> Olds]
  BY <1>1, <1>2
<1>5. \A i, j \in News : f[i] = f[j] => i = j
  BY <1>1
<1>6. \A o \in Olds : \E j \in News : f[j] = o
  <2> SUFFICES ASSUME NEW o \in Olds PROVE \E j \in News : f[j] = o
    OBVIOUS
  <2>1. PICK m \in M : m.old = o
    BY <1>3
  <2>2. m.new \in News /\ claim[m.new] = m
    BY <1>1, <1>2
  <2> QED BY <2>1, <2>2
<1> HIDE DEF f
<1>7. f \in Bijection(News, Olds)
  <2>1. f \in Injection(News, Olds)
    BY <1>4, <1>5 DEF Injection, IsInjective
  <2>2. f \in Surjection(News, Olds)
    BY <1>4, <1>6 DEF Surjection
  <2> QED BY <2>1, <2>2 DEF Bijection
<1>8. ExistsBijection(News, Olds)
  BY <1>7 DEF ExistsBijection
<1>9. IsFiniteSet(News)
  BY DEF News
<1>10. IsFiniteSet(Olds) /\ Cardinality(Olds) = Cardinality(News)
  BY <1>8, <1>9, FS_Bijection
<1> QED BY <1>10 DEF News, Olds

\* So what is left to extract, counted hash by hash, is what the baseline lacks.
LEMMA LeftIsWhatIsLacking ==
  ASSUME NEW prev \in Documents, NEW cur \in Documents, NEW h \in Hashes
  PROVE  LET more == CountAll(cur, h) - CountAll(prev, h)
         IN Count(cur, NeedsExtraction(Diff(prev, cur)), h) = IF more > 0 THEN more ELSE 0
<1> DEFINE same  == Unchanged(prev, cur)
           moves == Moved(prev, cur)
           M     == {m \in moves : cur[m.new] = h}
           News  == {m.new : m \in M}
           Olds  == {m.old : m \in M}
           P     == {i \in DOMAIN cur \ same : cur[i] = h}
           Q     == {o \in DOMAIN prev \ same : prev[o] = h}
           Same  == {i \in same : cur[i] = h}
           left  == {i \in NeedsExtraction(Diff(prev, cur)) : cur[i] = h}
<1>1. /\ Len(cur) \in Nat /\ DOMAIN cur = 1..Len(cur)
      /\ Len(prev) \in Nat /\ DOMAIN prev = 1..Len(prev)
  BY DocumentsAreSequences
<1>2. IsFiniteSet(DOMAIN cur) /\ IsFiniteSet(DOMAIN prev)
  <2>1. 1 \in Int /\ Len(cur) \in Int /\ Len(prev) \in Int
    BY <1>1
  <2> QED BY <1>1, <2>1, FS_Interval
<1>3. /\ {i \in DOMAIN cur : cur[i] = h} = P \cup Same
      /\ {i \in DOMAIN prev : prev[i] = h} = Q \cup Same
      /\ P \cap Same = {} /\ Q \cap Same = {}
      /\ P \subseteq DOMAIN cur /\ Same \subseteq DOMAIN cur /\ Q \subseteq DOMAIN prev
  BY DEF Unchanged
<1>4. ClaimsWell(prev, cur, moves, Len(cur))
  BY MovedWell
<1>5. \A m \in moves : /\ m.old \in DOMAIN prev \ same /\ m.new \in DOMAIN cur \ same
                       /\ prev[m.old] = cur[m.new]
  BY <1>1, <1>4 DEF ClaimsWell
<1>6. \A m, k \in M : m.old = k.old \/ m.new = k.new => m = k
  BY <1>4 DEF ClaimsWell
<1>7. \A j \in DOMAIN cur \ same :
        \/ \E m \in moves : m.new = j
        \/ \A o \in DOMAIN prev \ same : prev[o] = cur[j] => \E m \in moves : m.old = o
  BY <1>1, <1>4 DEF ClaimsWell
<1>8. News \subseteq P /\ Olds \subseteq Q
  BY <1>5
<1>9. left = P \ News
  <2>1. NeedsExtraction(Diff(prev, cur)) = (DOMAIN cur \ same) \ {m.new : m \in moves}
    BY DiffOf
  <2> QED BY <2>1
<1>10. News = P \/ Olds = Q
  <2> SUFFICES ASSUME NEW j \in P, j \notin News, NEW o \in Q PROVE o \in Olds
    BY <1>8
  <2>1. \A m \in moves : m.new # j
    OBVIOUS
  <2>2. PICK m \in moves : m.old = o
    BY <1>7, <2>1
  <2>3. m \in M
    BY <1>5, <2>2
  <2> QED BY <2>2, <2>3
<1> HIDE DEF P, Q, Same, News, Olds, left
<1>11. IsFiniteSet(P) /\ IsFiniteSet(Q) /\ IsFiniteSet(Same) /\ IsFiniteSet(News)
  <2>1. IsFiniteSet(P) /\ IsFiniteSet(Q) /\ IsFiniteSet(Same)
    BY <1>2, <1>3, FS_Subset
  <2> QED BY <1>8, <2>1, FS_Subset
<1>12. IsFiniteSet(Olds) /\ Cardinality(Olds) = Cardinality(News)
  <2>1. IsFiniteSet({m.new : m \in M})
    BY <1>11 DEF News
  <2> HIDE DEF M
  <2> QED BY <1>6, <2>1, MovedPairs DEF News, Olds
<1>13. /\ Cardinality(P) \in Nat /\ Cardinality(Q) \in Nat
       /\ Cardinality(Same) \in Nat /\ Cardinality(News) \in Nat
  BY <1>11, FS_CardinalityType
<1>14. /\ CountAll(cur, h) = Cardinality(P) + Cardinality(Same)
       /\ CountAll(prev, h) = Cardinality(Q) + Cardinality(Same)
  <2>1. /\ Cardinality(P \cup Same) = Cardinality(P) + Cardinality(Same) - Cardinality({})
        /\ Cardinality(Q \cup Same) = Cardinality(Q) + Cardinality(Same) - Cardinality({})
    BY <1>3, <1>11, FS_Union
  <2>2. Cardinality({}) = 0
    BY FS_EmptySet
  <2>3. /\ Cardinality(P \cup Same) = Cardinality(P) + Cardinality(Same)
        /\ Cardinality(Q \cup Same) = Cardinality(Q) + Cardinality(Same)
    BY <1>13, <2>1, <2>2
  <2> QED BY <1>3, <2>3 DEF CountAll, Count
<1>15. Count(cur, NeedsExtraction(Diff(prev, cur)), h) = Cardinality(P) - Cardinality(News)
  <2>1. P \cap News = News
    BY <1>8
  <2>2. Cardinality(P \ News) = Cardinality(P) - Cardinality(News)
    BY <1>11, <2>1, FS_Difference
  <2> QED BY <1>9, <2>2 DEF Count, left
<1>16. Cardinality(News) <= Cardinality(P) /\ Cardinality(News) <= Cardinality(Q)
  <2>1. Cardinality(News) <= Cardinality(P)
    BY <1>8, <1>11, FS_Subset
  <2>2. Cardinality(Olds) <= Cardinality(Q)
    BY <1>8, <1>11, FS_Subset
  <2> QED BY <1>12, <2>1, <2>2
<1>17. Cardinality(News) = Cardinality(P) \/ Cardinality(News) = Cardinality(Q)
  BY <1>10, <1>12
<1> QED BY <1>13, <1>14, <1>15, <1>16, <1>17

\* An unchanged policy is what a clean diff without moves says, and it says nothing else.
LEMMA SilentDiff ==
  ASSUME NEW prev \in Documents, NEW cur \in Documents
  PROVE  IsClean(Diff(prev, cur)) /\ Diff(prev, cur).moved = {} <=> cur = prev
<1> DEFINE same  == Unchanged(prev, cur)
           moves == Moved(prev, cur)
<1>1. /\ Len(cur) \in Nat /\ DOMAIN cur = 1..Len(cur) /\ cur \in Seq(Hashes)
      /\ Len(prev) \in Nat /\ DOMAIN prev = 1..Len(prev) /\ prev \in Seq(Hashes)
  BY DocumentsAreSequences
<1>2. IsClean(Diff(prev, cur)) /\ Diff(prev, cur).moved = {}
        <=> /\ moves = {}
            /\ (DOMAIN cur \ same) \ {m.new : m \in moves} = {}
            /\ DOMAIN prev \subseteq same \cup {m.old : m \in moves}
  <2> HIDE DEF same, moves
  <2> QED BY DiffOf DEF same, moves
<1>3. ASSUME moves = {}, DOMAIN cur \subseteq same, DOMAIN prev \subseteq same
      PROVE  cur = prev
  <2>1. DOMAIN cur = DOMAIN prev /\ \A i \in DOMAIN cur : cur[i] = prev[i]
    BY <1>3 DEF Unchanged
  <2>2. /\ cur = [i \in DOMAIN cur |-> cur[i]]
        /\ prev = [i \in DOMAIN prev |-> prev[i]]
    BY <1>1
  <2> QED BY <2>1, <2>2
<1>4. ASSUME cur = prev
      PROVE  moves = {} /\ DOMAIN cur = same /\ DOMAIN prev = same
  <2>1. DOMAIN cur = same /\ DOMAIN prev = same
    BY <1>4 DEF Unchanged
  <2>2. \A m \in moves : m.new \in DOMAIN cur \ same
    BY <1>1, MovedWell DEF ClaimsWell
  <2> QED BY <2>1, <2>2
<1> HIDE DEF same, moves
<1>5. ASSUME moves = {}
      PROVE  {m.new : m \in moves} = {} /\ {m.old : m \in moves} = {}
  BY <1>5
<1> QED BY <1>2, <1>3, <1>4, <1>5

ManifestInv ==
  /\ doc \in Documents /\ ingested \in Documents
  /\ baseline \in [clauses : Documents, fetched_at : Nat]
  /\ clock \in Nat
  /\ pc = "diffed" => diff = Diff(baseline.clauses, ingested)

LEMMA ManifestInitially == Init => ManifestInv
<1>1. <<>> \in Documents
  <2>1. 0 \in 0..MaxClauses
    BY ManifestAssumption
  <2>2. <<>> \in [1..0 -> Hashes]
    OBVIOUS
  <2> QED BY <2>1, <2>2 DEF Documents
<1> QED BY <1>1 DEF Init, ManifestInv, NoEntry

LEMMA ManifestInductive == ManifestInv /\ [Next]_vars => ManifestInv'
<1> USE DEF ManifestInv
<1> SUFFICES ASSUME ManifestInv, [Next]_vars PROVE ManifestInv'
  OBVIOUS
<1>1. CASE Edit
  BY <1>1 DEF Edit
<1>2. CASE Ingest
  BY <1>2 DEF Ingest
<1>3. CASE Compare
  BY <1>3 DEF Compare
<1>4. CASE WriteBaseline
  <2>1. (IF KeepsDate THEN baseline.fetched_at ELSE clock) \in Nat
    OBVIOUS
  <2> QED BY <1>4, <2>1 DEF WriteBaseline
<1>5. CASE Report
  BY <1>5 DEF Report
<1>6. CASE UNCHANGED vars
  BY <1>6 DEF vars
<1> QED BY <1>1, <1>2, <1>3, <1>4, <1>5, <1>6 DEF Next

\* The extractor is sent what the baseline lacks, whatever the documents and however
\* often a clause is repeated in them (manifest.py:93-98).
THEOREM OnlyEditsAreExtracted == Spec => []EditsAreExtracted
<1>1. ManifestInv => EditsAreExtracted
  BY LeftIsWhatIsLacking DEF ManifestInv, EditsAreExtracted
<1> QED BY <1>1, ManifestInitially, ManifestInductive, PTL DEF Spec

\* The committed baseline changes only when the clauses do, and then takes the date of
\* the ingest that saw them (manifest.py:288-295).
THEOREM BaselineFollowsContent == Spec => OnlyContentChangesTheBaseline
<1> DEFINE OnContent == Known => /\ baseline'.clauses # baseline.clauses
                                 /\ baseline'.fetched_at = clock
<1>1. ManifestInv /\ [Next]_vars => [OnContent]_baseline
  <2> SUFFICES ASSUME ManifestInv, [Next]_vars, baseline' # baseline, Known
               PROVE  /\ baseline'.clauses # baseline.clauses
                      /\ baseline'.fetched_at = clock
    OBVIOUS
  <2>1. WriteBaseline
    BY DEF Next, Edit, Ingest, Compare, Report, vars
  <2>2. /\ diff = Diff(baseline.clauses, ingested)
        /\ baseline.clauses \in Documents /\ ingested \in Documents
    BY <2>1 DEF WriteBaseline, ManifestInv
  <2>3. KeepsDate <=> ingested = baseline.clauses
    BY <2>2, SilentDiff DEF KeepsDate
  <2>4. /\ baseline'.clauses = ingested
        /\ baseline'.fetched_at = IF KeepsDate THEN baseline.fetched_at ELSE clock
        /\ baseline' = [clauses |-> baseline'.clauses, fetched_at |-> baseline'.fetched_at]
    BY <2>1 DEF WriteBaseline
  <2>5. baseline = [clauses |-> baseline.clauses, fetched_at |-> baseline.fetched_at]
    BY DEF ManifestInv
  <2>6. ~KeepsDate
    BY <2>3, <2>4, <2>5
  <2> QED BY <2>3, <2>4, <2>6
<1> QED BY <1>1, ManifestInitially, ManifestInductive, PTL
        DEF Spec, OnlyContentChangesTheBaseline

(***************************************************************************)
(* Extraction. Whatever the responses, batches and failures, the file holds*)
(* no node that quotes what is not there without saying so.                *)
(***************************************************************************)
TreeType == Seq(NodeType)

\* The filter keeps a list of trees, and walk_all makes one of nodes.
LEMMA KeptIsTyped ==
  ASSUME NEW response \in Seq(TreeType)
  PROVE  Kept(response) \in Seq(TreeType)
<1> DEFINE n == Len(response)
           S == Seq(TreeType)
           Step(i, s) == IF response[i][1].clause_ids \cap Batch # {}
                         THEN Append(s, response[i]) ELSE s
           stride == [p \in (1..n) \X S |-> Step(p[1], p[2])]
           Eq(f) == f = [i \in 0..n |-> IF i = 0 THEN <<>> ELSE Step(i, f[i - 1])]
           g == CHOOSE f : Eq(f)
<1>1. n \in Nat /\ <<>> \in S /\ stride \in [(1..n) \X S -> S]
  <2>1. \A i \in 1..n : response[i] \in TreeType
    BY ElementOfSequence
  <2>2. \A i \in 1..n, s \in S : Append(s, response[i]) \in S
    BY <2>1
  <2>3. \A i \in 1..n, s \in S : Step(i, s) \in S
    BY <2>2
  <2> HIDE DEF Step
  <2> QED BY <2>3
<1>2. \A i \in 1..n, s \in S : stride[<<i, s>>] = Step(i, s)
  OBVIOUS
<1>3. Kept(response) = g[n]
  BY DEF Kept
<1> HIDE DEF stride, Step, S, n
<1>4. \E f : Eq(f)
  <2>1. PICK f \in [0..n -> S] : Follows(n, <<>>, stride, f)
    BY <1>1, Recursion
  <2>2. \A i \in 0..n : f[i] = IF i = 0 THEN <<>> ELSE Step(i, f[i - 1])
    <3>1. \A i \in 0..n : i = 0 \/ (i \in 1..n /\ i - 1 \in 0..n)
      BY <1>1
    <3> QED BY <1>2, <2>1, <3>1 DEF Follows
  <2> QED BY <2>1, <2>2
<1>5. Eq(g)
  BY <1>4
<1> HIDE DEF g
<1>6. g[0] = <<>> /\ \A i \in 1..n : g[i] = Step(i, g[i - 1])
  BY <1>1, <1>5
<1>7. \A i \in 0..n : g[i] \in S
  <2>1. \A i \in 1..n : g[i - 1] \in S => g[i] = stride[<<i, g[i - 1]>>]
    BY <1>2, <1>6
  <2>2. FollowsIn(n, S, <<>>, stride, g)
    BY <1>6, <2>1 DEF FollowsIn
  <2> QED BY <1>1, <2>2, Recursion
<1> QED BY <1>1, <1>3, <1>7 DEF S

LEMMA NodesAreTyped ==
  ASSUME NEW trees \in Seq(TreeType)
  PROVE  Nodes(trees) \in TreeType
<1> DEFINE n == Len(trees)
           stride == [p \in (1..n) \X TreeType |-> p[2] \o trees[p[1]]]
           Eq(f) == f = [i \in 0..n |-> IF i = 0 THEN <<>> ELSE f[i - 1] \o trees[i]]
           g == CHOOSE f : Eq(f)
<1>1. n \in Nat /\ <<>> \in TreeType /\ stride \in [(1..n) \X TreeType -> TreeType]
  <2>1. \A i \in 1..n : trees[i] \in TreeType
    BY ElementOfSequence
  <2>2. \A i \in 1..n, s \in TreeType : s \o trees[i] \in TreeType
    BY <2>1 DEF TreeType
  <2> QED BY <2>2 DEF TreeType
<1>2. \A i \in 1..n, s \in TreeType : stride[<<i, s>>] = s \o trees[i]
  OBVIOUS
<1>3. Nodes(trees) = g[n]
  BY DEF Nodes
<1> HIDE DEF stride, n
<1>4. \E f : Eq(f)
  <2>1. PICK f \in [0..n -> TreeType] : Follows(n, <<>>, stride, f)
    BY <1>1, Recursion
  <2>2. \A i \in 0..n : f[i] = IF i = 0 THEN <<>> ELSE f[i - 1] \o trees[i]
    <3>1. \A i \in 0..n : i = 0 \/ (i \in 1..n /\ i - 1 \in 0..n)
      BY <1>1
    <3> QED BY <1>2, <2>1, <3>1 DEF Follows
  <2> QED BY <2>1, <2>2
<1>5. Eq(g)
  BY <1>4
<1> HIDE DEF g
<1>6. g[0] = <<>> /\ \A i \in 1..n : g[i] = g[i - 1] \o trees[i]
  <2>1. 0 \in 0..n /\ \A i \in 1..n : i \in 0..n /\ i # 0
    BY <1>1
  <2>2. \A i \in 0..n : g[i] = IF i = 0 THEN <<>> ELSE g[i - 1] \o trees[i]
    BY <1>5, Zenon
  <2> QED BY <2>1, <2>2, Zenon
<1>7. \A i \in 0..n : g[i] \in TreeType
  <2>1. \A i \in 1..n : g[i - 1] \in TreeType => g[i] = stride[<<i, g[i - 1]>>]
    BY <1>2, <1>6
  <2>2. FollowsIn(n, TreeType, <<>>, stride, g)
    BY <1>6, <2>1 DEF FollowsIn
  <2> QED BY <1>1, <2>2, Recursion
<1> QED BY <1>1, <1>3, <1>7

\* What flagging leaves does not refuse, and what is put together of two lists that do
\* not refuse does not either.
LEMMA FlaggedIsTold ==
  ASSUME NEW trees \in Seq(TreeType)
  PROVE  Flag(trees) \in Seq(TreeType) /\ Refused(Flag(trees)) = {}
<1> DEFINE violated == {node.rule_id : node \in Ungrounded(trees)}
           Told(node) == IF node.rule_id \in violated
                         THEN [node EXCEPT !.needs_human_review = TRUE] ELSE node
           flagged == Flag(trees)
<1>1. /\ Len(trees) \in Nat /\ DOMAIN trees = 1..Len(trees)
      /\ \A t \in DOMAIN trees : /\ trees[t] \in TreeType /\ Len(trees[t]) \in Nat
                                 /\ DOMAIN trees[t] = 1..Len(trees[t])
  <2>1. \A t \in DOMAIN trees : trees[t] \in TreeType
    BY ElementOfSequence
  <2> QED BY <2>1 DEF TreeType
<1>2. \A t \in DOMAIN trees : \A i \in DOMAIN trees[t] : trees[t][i] \in NodeType
  BY <1>1, ElementOfSequence DEF TreeType
<1>3. flagged = [t \in DOMAIN trees |-> [i \in DOMAIN trees[t] |-> Told(trees[t][i])]]
  BY DEF Flag
<1>4. \A node \in NodeType : /\ Told(node) \in NodeType
                             /\ Grounded(Told(node)) <=> Grounded(node)
                             /\ node.rule_id \in violated => Told(node).needs_human_review
  BY DEF NodeType, Grounded
<1>5. \A t \in DOMAIN trees : \A i \in DOMAIN trees[t] :
        ~Grounded(trees[t][i]) => trees[t][i].rule_id \in violated
  <2>1. \A t \in DOMAIN trees : \A i \in DOMAIN trees[t] :
          trees[t][i] \in UNION {ToSet(tree) : tree \in ToSet(trees)}
    BY DEF ToSet
  <2> QED BY <2>1 DEF Ungrounded
<1> HIDE DEF violated, Told, flagged
<1>6. flagged \in Seq(TreeType)
  <2>1. \A t \in DOMAIN trees :
          [i \in DOMAIN trees[t] |-> Told(trees[t][i])] \in TreeType
    <3> SUFFICES ASSUME NEW t \in DOMAIN trees
                 PROVE  [i \in DOMAIN trees[t] |-> Told(trees[t][i])] \in TreeType
      OBVIOUS
    <3>1. \A i \in 1..Len(trees[t]) : Told(trees[t][i]) \in NodeType
      BY <1>1, <1>2, <1>4
    <3>2. PICK n \in Nat : n = Len(trees[t]) /\ DOMAIN trees[t] = 1..n
      BY <1>1
    <3>3. [i \in 1..n |-> Told(trees[t][i])] \in Seq(NodeType)
      BY <3>1, <3>2
    <3> QED BY <3>2, <3>3 DEF TreeType
  <2> QED BY <1>1, <1>3, <2>1
<1>7. \A tree \in ToSet(flagged) : \A node \in ToSet(tree) :
        Grounded(node) \/ node.needs_human_review
  <2>1. \A t \in DOMAIN flagged : t \in DOMAIN trees
    BY <1>3
  <2>2. \A t \in DOMAIN trees :
          flagged[t] = [i \in DOMAIN trees[t] |-> Told(trees[t][i])]
    BY <1>3
  <2>3. \A t \in DOMAIN trees : \A i \in DOMAIN flagged[t] :
          i \in DOMAIN trees[t] /\ flagged[t][i] = Told(trees[t][i])
    BY <2>2
  <2>4. \A t \in DOMAIN trees : \A i \in DOMAIN trees[t] :
          Grounded(Told(trees[t][i])) \/ Told(trees[t][i]).needs_human_review
    BY <1>2, <1>4, <1>5
  <2> QED BY <2>1, <2>3, <2>4 DEF ToSet
<1>8. Refused(flagged) = {}
  BY <1>7 DEF Refused, Ungrounded
<1> QED BY <1>6, <1>8 DEF flagged

LEMMA RefusedTogether ==
  ASSUME NEW s \in Seq(TreeType), NEW t \in Seq(TreeType),
         Refused(s) = {}, Refused(t) = {}
  PROVE  s \o t \in Seq(TreeType) /\ Refused(s \o t) = {}
<1>1. /\ Len(s) \in Nat /\ Len(t) \in Nat /\ DOMAIN s = 1..Len(s) /\ DOMAIN t = 1..Len(t)
      /\ DOMAIN (s \o t) = 1..(Len(s) + Len(t))
      /\ \A i \in 1..(Len(s) + Len(t)) :
           (s \o t)[i] = IF i <= Len(s) THEN s[i] ELSE t[i - Len(s)]
  OBVIOUS
<1>2. ToSet(s \o t) \subseteq ToSet(s) \cup ToSet(t)
  <2> SUFFICES ASSUME NEW i \in 1..(Len(s) + Len(t))
               PROVE  (s \o t)[i] \in ToSet(s) \cup ToSet(t)
    BY <1>1 DEF ToSet
  <2>1. \/ i \in DOMAIN s /\ (s \o t)[i] = s[i]
        \/ i - Len(s) \in DOMAIN t /\ (s \o t)[i] = t[i - Len(s)]
    BY <1>1
  <2> QED BY <2>1, Zenon DEF ToSet
<1>3. s \o t \in Seq(TreeType)
  OBVIOUS
<1> QED BY <1>2, <1>3 DEF Refused, Ungrounded

ExtractionInv ==
  /\ found \in Seq(TreeType) /\ file \in Seq(TreeType)
  /\ Refused(found) = {} /\ Refused(file) = {}
  /\ step = "done" => hand \in TreeType /\ rows = Comparison(file, hand)

LEMMA ExtractionInitially == ExtractionInit => ExtractionInv
<1>1. <<>> \in Seq(TreeType) /\ Refused(<<>>) = {}
  BY DEF Refused, Ungrounded, ToSet
<1> QED BY <1>1 DEF ExtractionInit, ExtractionInv

\* A batch adds what refuses nothing: a response that did not, or the flagged retry.
LEMMA BatchKeeps ==
  ASSUME ExtractionInv, NEW trees \in Seq(TreeType), Refused(trees) = {},
         NextBatch(trees), UNCHANGED <<file, hand, rows>>
  PROVE  ExtractionInv'
<1>1. found' = found \o trees
  BY DEF NextBatch
<1>2. found \o trees \in Seq(TreeType) /\ Refused(found \o trees) = {}
  BY RefusedTogether DEF ExtractionInv
<1>3. found' \in Seq(TreeType)
  BY <1>1, <1>2
<1>4. Refused(found)' = {}
  BY <1>1, <1>2 DEF Refused, Ungrounded, Grounded
<1>5. file' = file /\ Refused(file)' = {}
  BY DEF ExtractionInv, Refused, Ungrounded, Grounded
<1>6. step' # "done"
  BY DEF NextBatch
<1> QED BY <1>3, <1>4, <1>5, <1>6 DEF ExtractionInv

LEMMA ResponsesAreTyped ==
  ASSUME NEW response \in Responses
  PROVE  response \in Seq(TreeType)
<1>1. PICK n \in 0..MaxTrees : response \in [1..n -> Trees]
  BY DEF Responses
<1>2. n \in Nat /\ Trees \subseteq TreeType
  BY TreesAssumption DEF TreeType
<1> QED BY <1>1, <1>2

LEMMA ExtractionInductive == ExtractionInv /\ [ExtractionNext]_extractionVars => ExtractionInv'
<1> SUFFICES ASSUME ExtractionInv, [ExtractionNext]_extractionVars PROVE ExtractionInv'
  OBVIOUS
<1>1. CASE Pull
  <2>1. PICK response \in Responses :
          IF Refused(Kept(response)) = {} THEN NextBatch(Kept(response))
          ELSE step' = "retry" /\ UNCHANGED <<batchVars, found>>
    BY <1>1 DEF Pull
  <2>2. UNCHANGED <<file, hand, rows>>
    BY <1>1 DEF Pull
  <2>3. PICK trees : trees = Kept(response)
    OBVIOUS
  <2>4. trees \in Seq(TreeType)
    BY <2>3, ResponsesAreTyped, KeptIsTyped
  <2>5. CASE Refused(trees) = {} /\ NextBatch(trees)
    BY <2>2, <2>4, <2>5, BatchKeeps
  <2>6. CASE step' = "retry" /\ UNCHANGED <<batchVars, found>>
    BY <2>2, <2>6 DEF ExtractionInv, Refused, Ungrounded, Grounded
  <2> QED BY <2>1, <2>3, <2>5, <2>6
<1>2. CASE Retry
  <2>1. PICK response \in Responses :
          NextBatch(IF Refused(Kept(response)) = {} THEN Kept(response) ELSE Flag(Kept(response)))
    BY <1>2 DEF Retry
  <2>2. UNCHANGED <<file, hand, rows>>
    BY <1>2 DEF Retry
  <2>3. PICK kept : kept = Kept(response)
    OBVIOUS
  <2>4. PICK trees : trees = IF Refused(kept) = {} THEN kept ELSE Flag(kept)
    OBVIOUS
  <2>5. kept \in Seq(TreeType)
    BY <2>3, ResponsesAreTyped, KeptIsTyped
  <2>6. trees \in Seq(TreeType) /\ Refused(trees) = {}
    BY <2>4, <2>5, FlaggedIsTold
  <2>7. NextBatch(trees)
    BY <2>1, <2>3, <2>4
  <2> QED BY <2>2, <2>6, <2>7, BatchKeeps
<1>3. CASE CallFails
  BY <1>3 DEF CallFails, ExtractionInv, Refused, Ungrounded, Grounded
<1>4. CASE SanitiseRaises
  BY <1>4 DEF SanitiseRaises, ExtractionInv, Refused, Ungrounded, Grounded
<1>5. CASE WriteExtracted
  BY <1>5 DEF WriteExtracted, ExtractionInv, Refused, Ungrounded, Grounded
<1>6. CASE Measure
  <2>1. PICK n \in 0..MaxHand : hand' \in [1..n -> HandRules]
    BY <1>6 DEF Measure
  <2>2. hand' \in TreeType
    <3>1. n \in Nat /\ HandRules \subseteq NodeType
      BY TreesAssumption
    <3> QED BY <2>1, <3>1 DEF TreeType
  <2>3. rows' = Comparison(file, hand') /\ file' = file /\ found' = found
    BY <1>6 DEF Measure
  <2>4. rows' = Comparison(file', hand')
    BY <2>3
  <2>5. rows' = Comparison(file, hand)'
    BY <2>4
  <2> QED BY <2>2, <2>3, <2>5 DEF ExtractionInv, Refused, Ungrounded, Grounded
<1>7. CASE UNCHANGED extractionVars
  BY <1>7 DEF extractionVars, batchVars, ExtractionInv, Refused, Ungrounded, Grounded
<1> QED BY <1>1, <1>2, <1>3, <1>4, <1>5, <1>6, <1>7 DEF ExtractionNext

\* No node of the file, at any depth, quotes what is not there without saying so
\* (extractor.py:20), whatever the batches, retries and failures.
THEOREM UngroundedIsSaid == ExtractionSpec => []UngroundedIsFlagged
<1>1. ExtractionInv => UngroundedIsFlagged
  BY DEF ExtractionInv, UngroundedIsFlagged
<1> QED BY <1>1, ExtractionInitially, ExtractionInductive, PTL DEF ExtractionSpec

(***************************************************************************)
(* The comparison with the rules written by hand: a greedy matching again, *)
(* cell by cell, along the rows.                                           *)
(***************************************************************************)
RowType ==
  [cell : {node.cell : node \in TreeNodes \cup HandRules},
   status : {"equivalent", "different", "missed"},
   extracted : SUBSET {node.rule_id : node \in TreeNodes \cup HandRules}]

\* The candidates left for h.
Free(nodes, done, h) ==
  {i \in DOMAIN nodes : nodes[i].cell = h.cell /\ nodes[i].rule_id \notin Claimed(done)}

\* A rule written by hand is paired with a free candidate of its cell, or there is none.
LEMMA ClaimChoices ==
  ASSUME NEW trees \in Seq(TreeType), NEW done, NEW h
  PROVE  \/ /\ Free(Nodes(trees), done, h) = {}
            /\ Claim(trees, done, h) = Pairing(h, "missed", {})
         \/ \E i \in Free(Nodes(trees), done, h) : \E status \in {"equivalent", "different"} :
              Claim(trees, done, h) = Pairing(h, status, {Nodes(trees)[i].rule_id})
<1> DEFINE nodes == Nodes(trees)
           free  == Free(nodes, done, h)
           exact == {i \in free : Tests(nodes[i]) = Tests(h)}
<1>1. Claim(trees, done, h) =
        IF exact # {} THEN Pairing(h, "equivalent", {nodes[Min(exact)].rule_id})
        ELSE IF free # {} THEN Pairing(h, "different", {nodes[Min(free)].rule_id})
        ELSE Pairing(h, "missed", {})
  BY DEF Claim, Free
<1>2. Len(nodes) \in Nat /\ free \subseteq 1..Len(nodes) /\ exact \subseteq free
  BY NodesAreTyped DEF TreeType, Free
<1> HIDE DEF exact, free, nodes
<1>3. ASSUME NEW S, S \subseteq free, S # {}
      PROVE  Min(S) \in S
  <2>1. PICK m \in S : \A k \in 1..(m - 1) : k \notin S
    BY <1>2, <1>3, LeastOf
  <2>2. \A q \in S : m <= q
    BY <1>2, <1>3, <2>1
  <2> QED BY <2>2 DEF Min
<1>4. CASE exact # {}
  <2>1. Min(exact) \in free
    BY <1>2, <1>3, <1>4
  <2> QED BY <1>1, <1>4, <2>1 DEF free, nodes
<1>5. CASE exact = {} /\ free # {}
  <2>1. Min(free) \in free
    BY <1>3, <1>5
  <2> QED BY <1>1, <1>5, <2>1 DEF free, nodes
<1>6. CASE exact = {} /\ free = {}
  BY <1>1, <1>6 DEF free, nodes
<1> QED BY <1>4, <1>5, <1>6

LEMMA ClaimIsTyped ==
  ASSUME NEW trees \in Seq(TreeType), NEW done, NEW h \in NodeType
  PROVE  Claim(trees, done, h) \in RowType
<1> DEFINE nodes == Nodes(trees)
<1>1. \A i \in DOMAIN nodes : nodes[i] \in NodeType
  BY NodesAreTyped, ElementOfSequence DEF TreeType
<1>2. \A i \in DOMAIN nodes :
        {nodes[i].rule_id} \subseteq {node.rule_id : node \in TreeNodes \cup HandRules}
  BY <1>1 DEF NodeType
<1>3. h.cell \in {node.cell : node \in TreeNodes \cup HandRules}
  BY DEF NodeType
<1> HIDE DEF nodes
<1>4. \/ Claim(trees, done, h) = Pairing(h, "missed", {})
      \/ \E i \in DOMAIN nodes : \E status \in {"equivalent", "different"} :
           Claim(trees, done, h) = Pairing(h, status, {nodes[i].rule_id})
  <2>1. Free(nodes, done, h) \subseteq DOMAIN nodes
    BY DEF Free
  <2> QED BY <2>1, ClaimChoices DEF nodes
<1> QED BY <1>2, <1>3, <1>4 DEF Pairing, RowType

\* What has been claimed.
LEMMA ClaimedByRows ==
  ASSUME NEW done \in Seq(RowType), NEW id
  PROVE  id \in Claimed(done) <=> \E i \in 1..Len(done) : id \in done[i].extracted
BY DEF Claimed, ToSet

\* The comparison of n rules, nodes being those extracted.
RowsWell(nodes, ours, done, n) ==
  /\ done \in Seq(RowType) /\ Len(done) = n
  /\ \A i \in 1..n :
       /\ done[i].cell = ours[i].cell
       /\ IF done[i].status = "missed"
          THEN /\ done[i].extracted = {}
               /\ \A k \in InCell(nodes, ours[i].cell) : nodes[k].rule_id \in Claimed(done)
          ELSE \E k \in InCell(nodes, ours[i].cell) : done[i].extracted = {nodes[k].rule_id}
  /\ \A i, j \in 1..n : i # j => done[i].extracted \cap done[j].extracted = {}

LEMMA ClaimKeepsRows ==
  ASSUME NEW trees \in Seq(TreeType), NEW ours \in TreeType, NEW done,
         NEW n \in 1..Len(ours), RowsWell(Nodes(trees), ours, done, n - 1)
  PROVE  RowsWell(Nodes(trees), ours, Append(done, Claim(trees, done, ours[n])), n)
<1> DEFINE nodes == Nodes(trees)
           row   == Claim(trees, done, ours[n])
           all   == Append(done, row)
<1>1. n \in Nat /\ n - 1 \in Nat /\ ours[n] \in NodeType
  BY ElementOfSequence DEF TreeType
<1>2. done \in Seq(RowType) /\ Len(done) = n - 1 /\ row \in RowType
  BY <1>1, ClaimIsTyped DEF RowsWell
<1> HIDE DEF row
<1>3. /\ all \in Seq(RowType) /\ Len(all) = n /\ all[n] = row
      /\ \A i \in 1..(n - 1) : all[i] = done[i]
  BY <1>1, <1>2
<1>4. 1..n = (1..(n - 1)) \cup {n} /\ n \notin 1..(n - 1)
  BY <1>1
<1> HIDE DEF all, nodes
<1>5. \A id : id \in Claimed(all) <=> id \in Claimed(done) \/ id \in row.extracted
  <2> TAKE id
  <2>1. id \in Claimed(all) <=> \E i \in 1..n : id \in all[i].extracted
    BY <1>3, ClaimedByRows
  <2>2. id \in Claimed(done) <=> \E i \in 1..(n - 1) : id \in done[i].extracted
    BY <1>2, ClaimedByRows
  <2> QED BY <1>3, <1>4, <2>1, <2>2
<1>6. /\ row.cell = ours[n].cell
      /\ \/ /\ row.status = "missed" /\ row.extracted = {}
            /\ \A k \in InCell(nodes, ours[n].cell) : nodes[k].rule_id \in Claimed(done)
         \/ /\ row.status # "missed"
            /\ \E k \in InCell(nodes, ours[n].cell) :
                 row.extracted = {nodes[k].rule_id} /\ nodes[k].rule_id \notin Claimed(done)
  <2> DEFINE free == Free(nodes, done, ours[n])
  <2>1. \/ free = {} /\ row = Pairing(ours[n], "missed", {})
        \/ \E i \in free : \E status \in {"equivalent", "different"} :
             row = Pairing(ours[n], status, {nodes[i].rule_id})
    BY ClaimChoices DEF row, nodes
  <2>2. CASE free = {} /\ row = Pairing(ours[n], "missed", {})
    BY <2>2 DEF Pairing, InCell, Free
  <2>3. CASE \E i \in free : \E status \in {"equivalent", "different"} :
               row = Pairing(ours[n], status, {nodes[i].rule_id})
    BY <2>3 DEF Pairing, InCell, Free
  <2> QED BY <2>1, <2>2, <2>3
<1>7. row.extracted \cap Claimed(done) = {}
  BY <1>6
<1>8. \A i \in 1..(n - 1) : done[i].extracted \subseteq Claimed(done)
  BY <1>2, ClaimedByRows
<1>9. RowsWell(nodes, ours, done, n - 1)
  BY DEF nodes
<1>10. \A i \in 1..n :
         /\ all[i].cell = ours[i].cell
         /\ IF all[i].status = "missed"
            THEN /\ all[i].extracted = {}
                 /\ \A k \in InCell(nodes, ours[i].cell) : nodes[k].rule_id \in Claimed(all)
            ELSE \E k \in InCell(nodes, ours[i].cell) : all[i].extracted = {nodes[k].rule_id}
  <2>1. ASSUME NEW i \in 1..(n - 1)
        PROVE  /\ all[i].cell = ours[i].cell
               /\ IF all[i].status = "missed"
                  THEN /\ all[i].extracted = {}
                       /\ \A k \in InCell(nodes, ours[i].cell) :
                            nodes[k].rule_id \in Claimed(all)
                  ELSE \E k \in InCell(nodes, ours[i].cell) :
                         all[i].extracted = {nodes[k].rule_id}
    <3>1. /\ done[i].cell = ours[i].cell
          /\ IF done[i].status = "missed"
             THEN /\ done[i].extracted = {}
                  /\ \A k \in InCell(nodes, ours[i].cell) : nodes[k].rule_id \in Claimed(done)
             ELSE \E k \in InCell(nodes, ours[i].cell) : done[i].extracted = {nodes[k].rule_id}
      BY <1>9 DEF RowsWell
    <3>2. all[i] = done[i]
      BY <1>3
    <3> QED BY <1>5, <3>1, <3>2
  <2> QED BY <1>3, <1>4, <1>5, <1>6, <2>1
<1>11. \A i, j \in 1..n : i # j => all[i].extracted \cap all[j].extracted = {}
  <2>1. \A i, j \in 1..(n - 1) : i # j => all[i].extracted \cap all[j].extracted = {}
    BY <1>3, <1>9 DEF RowsWell
  <2>2. \A i \in 1..(n - 1) : all[i].extracted \cap all[n].extracted = {}
    BY <1>3, <1>7, <1>8
  <2> QED BY <1>4, <2>1, <2>2
<1>12. RowsWell(nodes, ours, all, n)
  BY <1>3, <1>10, <1>11 DEF RowsWell
<1> QED BY <1>12 DEF all, row, nodes

LEMMA ComparisonIsWell ==
  ASSUME NEW trees \in Seq(TreeType), NEW ours \in TreeType
  PROVE  RowsWell(Nodes(trees), ours, Comparison(trees, ours), Len(ours))
<1> DEFINE n == Len(ours)
           S == Seq(RowType)
           Step(i, s) == Append(s, Claim(trees, s, ours[i]))
           stride == [p \in (1..n) \X S |-> Step(p[1], p[2])]
           Eq(f) == f = [i \in 0..n |-> IF i = 0 THEN <<>> ELSE Step(i, f[i - 1])]
           g == CHOOSE f : Eq(f)
<1>1. n \in Nat /\ <<>> \in S /\ stride \in [(1..n) \X S -> S]
  <2>1. \A i \in 1..n : ours[i] \in NodeType
    BY ElementOfSequence DEF TreeType
  <2>2. \A i \in 1..n, s \in S : Step(i, s) \in S
    BY <2>1, ClaimIsTyped
  <2> HIDE DEF Step
  <2> QED BY <2>2 DEF TreeType
<1>2. \A i \in 1..n, s \in S : stride[<<i, s>>] = Step(i, s)
  OBVIOUS
<1>3. Comparison(trees, ours) = g[n]
  BY DEF Comparison
<1> HIDE DEF stride, Step, S, n
<1>4. \E f : Eq(f)
  <2>1. PICK f \in [0..n -> S] : Follows(n, <<>>, stride, f)
    BY <1>1, Recursion
  <2>2. \A i \in 0..n : f[i] = IF i = 0 THEN <<>> ELSE Step(i, f[i - 1])
    <3>1. \A i \in 0..n : i = 0 \/ (i \in 1..n /\ i - 1 \in 0..n)
      BY <1>1
    <3> QED BY <1>2, <2>1, <3>1 DEF Follows
  <2> QED BY <2>1, <2>2
<1>5. Eq(g)
  BY <1>4
<1> HIDE DEF g
<1>6. g[0] = <<>> /\ \A i \in 1..n : g[i] = Step(i, g[i - 1])
  BY <1>1, <1>5
<1> DEFINE Bad == {i \in 1..n : ~RowsWell(Nodes(trees), ours, g[i], i)}
<1>7. RowsWell(Nodes(trees), ours, g[0], 0)
  BY <1>6 DEF RowsWell
<1>8. ASSUME Bad # {} PROVE FALSE
  <2>1. PICK m \in Bad : \A k \in 1..(m - 1) : k \notin Bad
    <3>1. Bad \subseteq 1..n
      OBVIOUS
    <3> HIDE DEF Bad
    <3> QED BY <1>1, <1>8, <3>1, LeastOf
  <2>2. m \in 1..n /\ (m - 1 = 0 \/ (m - 1 \in 1..(m - 1) /\ m - 1 \in 1..n))
    BY <1>1
  <2>3. RowsWell(Nodes(trees), ours, g[m - 1], m - 1)
    BY <1>7, <2>1, <2>2
  <2>4. RowsWell(Nodes(trees), ours, g[m], m)
    <3>1. m \in 1..Len(ours)
      BY <2>2 DEF n
    <3>2. g[m] = Append(g[m - 1], Claim(trees, g[m - 1], ours[m]))
      BY <1>6, <2>2 DEF Step
    <3> QED BY <2>3, <3>1, <3>2, ClaimKeepsRows
  <2> QED BY <2>1, <2>4
<1>9. n = 0 \/ n \in 1..n
  BY <1>1
<1>10. RowsWell(Nodes(trees), ours, g[n], n)
  BY <1>7, <1>8, <1>9
<1> QED BY <1>3, <1>10 DEF n

\* An injection makes the image as large as what is mapped.
LEMMA ImageOfInjection ==
  ASSUME NEW A, IsFiniteSet(A), NEW f, DOMAIN f = A,
         \A x, y \in A : f[x] = f[y] => x = y
  PROVE  Cardinality({f[x] : x \in A}) = Cardinality(A)
<1> DEFINE Image == {f[x] : x \in A}
           g == [x \in A |-> f[x]]
<1>1. g \in Bijection(A, Image)
  <2>1. g \in [A -> Image] /\ \A x, y \in A : g[x] = g[y] => x = y
    OBVIOUS
  <2>2. \A y \in Image : \E x \in A : g[x] = y
    OBVIOUS
  <2> HIDE DEF g, Image
  <2>3. g \in Injection(A, Image)
    BY <2>1 DEF Injection, IsInjective
  <2>4. g \in Surjection(A, Image)
    BY <2>1, <2>2 DEF Surjection
  <2> QED BY <2>3, <2>4 DEF Bijection
<1> HIDE DEF g
<1>2. ExistsBijection(A, Image)
  BY <1>1 DEF ExistsBijection
<1> HIDE DEF Image
<1>3. Cardinality(Image) = Cardinality(A)
  BY <1>2, FS_Bijection
<1> QED BY <1>3 DEF Image

\* Within one cell as many are paired as the shorter side has.
LEMMA PairedInCell ==
  ASSUME NEW nodes \in TreeType, NEW ours \in TreeType, NEW done,
         RowsWell(nodes, ours, done, Len(ours)), UniqueIds(nodes), NEW cell
  PROVE  LET paired == {i \in DOMAIN done : done[i].cell = cell /\ done[i].status # "missed"}
         IN Cardinality(paired) =
              Min({Cardinality(InCell(ours, cell)), Cardinality(InCell(nodes, cell))})
<1> DEFINE mine   == InCell(ours, cell)
           theirs == InCell(nodes, cell)
           paired == {i \in DOMAIN done : done[i].cell = cell /\ done[i].status # "missed"}
           f      == [i \in paired |-> CHOOSE k \in theirs : done[i].extracted = {nodes[k].rule_id}]
<1>1. /\ Len(ours) \in Nat /\ DOMAIN ours = 1..Len(ours) /\ DOMAIN done = 1..Len(ours)
      /\ Len(nodes) \in Nat /\ DOMAIN nodes = 1..Len(nodes) /\ done \in Seq(RowType)
  BY DEF TreeType, RowsWell
<1>2. /\ \A i \in DOMAIN done : done[i].cell = ours[i].cell
      /\ \A i \in DOMAIN done : done[i].status = "missed" =>
           /\ done[i].extracted = {}
           /\ \A k \in InCell(nodes, ours[i].cell) : nodes[k].rule_id \in Claimed(done)
      /\ \A i \in DOMAIN done : done[i].status # "missed" =>
           \E k \in InCell(nodes, ours[i].cell) : done[i].extracted = {nodes[k].rule_id}
      /\ \A i, j \in DOMAIN done : i # j => done[i].extracted \cap done[j].extracted = {}
  BY <1>1 DEF RowsWell
<1>3. paired \subseteq mine /\ mine \subseteq 1..Len(ours) /\ theirs \subseteq 1..Len(nodes)
  BY <1>1, <1>2 DEF InCell
<1>4. \A k, l \in theirs : nodes[k].rule_id = nodes[l].rule_id => k = l
  BY DEF UniqueIds, InCell
<1>5. \A i \in paired : \E k \in theirs : done[i].extracted = {nodes[k].rule_id}
  BY <1>2
<1>6. ASSUME NEW i \in mine \ paired, NEW k \in theirs
      PROVE  \E j \in paired : done[j].extracted = {nodes[k].rule_id}
  <2>1. i \in DOMAIN done /\ done[i].status = "missed" /\ ours[i].cell = cell
    BY <1>1, <1>2, <1>6 DEF InCell
  <2>2. nodes[k].rule_id \in Claimed(done)
    BY <1>2, <2>1
  <2>3. PICK j \in 1..Len(done) : nodes[k].rule_id \in done[j].extracted
    BY <1>1, <2>2, ClaimedByRows
  <2>4. j \in DOMAIN done
    BY <1>1, <2>3
  <2>5. PICK l \in InCell(nodes, ours[j].cell) : done[j].extracted = {nodes[l].rule_id}
    BY <1>2, <2>3, <2>4
  <2>6. l = k
    BY <2>3, <2>5 DEF UniqueIds, InCell
  <2>7. done[j].cell = cell
    BY <1>2, <2>4, <2>5, <2>6 DEF InCell
  <2> QED BY <1>2, <2>3, <2>4, <2>5, <2>6, <2>7
<1>7. /\ \A i, j \in paired : i # j => done[i].extracted \cap done[j].extracted = {}
  BY <1>2
<1>8. IsFiniteSet(mine) /\ IsFiniteSet(theirs)
  <2>1. 1 \in Int /\ Len(ours) \in Int /\ Len(nodes) \in Int
    BY <1>1
  <2>2. IsFiniteSet(1..Len(ours)) /\ IsFiniteSet(1..Len(nodes))
    BY <2>1, FS_Interval
  <2> QED BY <1>3, <2>2, FS_Subset
<1> HIDE DEF mine, theirs, paired
<1>9. \A i \in paired : f[i] \in theirs /\ done[i].extracted = {nodes[f[i]].rule_id}
  BY <1>5
<1>10. DOMAIN f = paired
  OBVIOUS
<1> HIDE DEF f
<1>11. \A i, j \in paired : f[i] = f[j] => i = j
  BY <1>7, <1>9
<1>12. IsFiniteSet(paired)
  BY <1>3, <1>8, FS_Subset
<1>13. Cardinality({f[i] : i \in paired}) = Cardinality(paired)
  BY <1>10, <1>11, <1>12, ImageOfInjection
<1>14. {f[i] : i \in paired} \subseteq theirs
  BY <1>9
<1>15. paired = mine \/ {f[i] : i \in paired} = theirs
  <2> SUFFICES ASSUME NEW i \in mine \ paired, NEW k \in theirs
               PROVE  \E j \in paired : f[j] = k
    BY <1>3, <1>14
  <2>1. PICK j \in paired : done[j].extracted = {nodes[k].rule_id}
    BY <1>6
  <2>2. nodes[f[j]].rule_id = nodes[k].rule_id /\ f[j] \in theirs
    BY <1>9, <2>1
  <2> QED BY <1>4, <2>2
<1>16. /\ Cardinality(paired) <= Cardinality(mine)
       /\ Cardinality(paired) <= Cardinality(theirs)
       /\ Cardinality(paired) = Cardinality(mine) \/ Cardinality(paired) = Cardinality(theirs)
  <2>1. Cardinality(paired) <= Cardinality(mine)
    BY <1>3, <1>8, FS_Subset
  <2>2. Cardinality({f[i] : i \in paired}) <= Cardinality(theirs)
    BY <1>8, <1>14, FS_Subset
  <2> QED BY <1>13, <1>15, <2>1, <2>2
<1>17. Cardinality(paired) \in Nat /\ Cardinality(mine) \in Nat /\ Cardinality(theirs) \in Nat
  BY <1>8, <1>12, FS_CardinalityType
<1>18. Cardinality(paired) = Min({Cardinality(mine), Cardinality(theirs)})
  <2>1. PICK p, m, t : p = Cardinality(paired) /\ m = Cardinality(mine) /\ t = Cardinality(theirs)
    OBVIOUS
  <2>2. p \in {m, t} /\ \A y \in {m, t} : p <= y
    BY <1>16, <2>1
  <2>3. \A x \in {m, t} : (\A y \in {m, t} : x <= y) => x = p
    BY <1>17, <2>1, <2>2
  <2>4. p = Min({m, t})
    BY <2>2, <2>3 DEF Min
  <2> QED BY <2>1, <2>4
<1> QED BY <1>18 DEF paired, mine, theirs

\* Where ids are unique a missed rule is a shortage of candidates, never an artefact of
\* the order they are claimed in, and no invention is paired (compare.py:180-233).
THEOREM MissesAreOfShortages == ExtractionSpec => []MissesAreShortages
<1>1. ExtractionInv => MissesAreShortages
  <2> SUFFICES ASSUME ExtractionInv, step = "done", UniqueIds(Nodes(file))
               PROVE  /\ \A node \in Inventions(file, hand) : node.rule_id \notin Claimed(rows)
                      /\ \A cell : LET paired == {i \in DOMAIN rows : /\ rows[i].cell = cell
                                                                      /\ rows[i].status # "missed"}
                                   IN /\ Cardinality(paired) =
                                           Min({Cardinality(InCell(hand, cell)),
                                                Cardinality(InCell(Nodes(file), cell))})
                                      /\ \A i, j \in paired : i # j =>
                                           rows[i].extracted \cap rows[j].extracted = {}
    BY DEF MissesAreShortages
  <2>1. file \in Seq(TreeType) /\ hand \in TreeType /\ rows = Comparison(file, hand)
    BY DEF ExtractionInv
  <2>2. RowsWell(Nodes(file), hand, rows, Len(hand)) /\ Nodes(file) \in TreeType
    BY <2>1, ComparisonIsWell, NodesAreTyped
  <2>3. PICK nodes, ours, done :
          nodes = Nodes(file) /\ ours = hand /\ done = rows
    OBVIOUS
  <2>4. /\ nodes \in TreeType /\ ours \in TreeType /\ UniqueIds(nodes)
        /\ RowsWell(nodes, ours, done, Len(ours))
    BY <2>1, <2>2, <2>3
  <2>5. DOMAIN done = 1..Len(ours) /\ done \in Seq(RowType) /\ DOMAIN ours = 1..Len(ours)
    BY <2>4 DEF RowsWell, TreeType
  <2>6. ASSUME NEW k \in DOMAIN nodes, nodes[k].rule_id \in Claimed(done)
        PROVE  \E i \in DOMAIN ours : ours[i].cell = nodes[k].cell
    <3>1. PICK i \in 1..Len(done) : nodes[k].rule_id \in done[i].extracted
      BY <2>5, <2>6, ClaimedByRows
    <3>2. i \in 1..Len(ours)
      BY <2>5, <3>1
    <3>3. PICK l \in InCell(nodes, ours[i].cell) : done[i].extracted = {nodes[l].rule_id}
      BY <2>4, <3>1, <3>2 DEF RowsWell
    <3>4. l = k
      BY <2>4, <3>1, <3>3 DEF UniqueIds, InCell
    <3> QED BY <2>5, <3>2, <3>3, <3>4 DEF InCell
  <2>7. \A node \in Inventions(file, hand) : node.rule_id \notin Claimed(rows)
    <3> SUFFICES ASSUME NEW node \in Inventions(file, hand), node.rule_id \in Claimed(rows)
                 PROVE  FALSE
      OBVIOUS
    <3>1. /\ node \in ToSet(nodes) /\ \A i \in DOMAIN ours : ours[i].cell # node.cell
          /\ node.rule_id \in Claimed(done)
      BY <2>3 DEF Inventions
    <3>2. PICK k \in DOMAIN nodes : node = nodes[k]
      BY <3>1 DEF ToSet
    <3> QED BY <2>6, <3>1, <3>2
  <2>8. ASSUME NEW cell
        PROVE  LET paired == {i \in DOMAIN done : done[i].cell = cell /\ done[i].status # "missed"}
               IN /\ Cardinality(paired) =
                       Min({Cardinality(InCell(ours, cell)), Cardinality(InCell(nodes, cell))})
                  /\ \A i, j \in paired : i # j => done[i].extracted \cap done[j].extracted = {}
    <3>1. \A i, j \in DOMAIN done : i # j => done[i].extracted \cap done[j].extracted = {}
      BY <2>4, <2>5 DEF RowsWell
    <3> QED BY <2>4, <3>1, PairedInCell
  <2> QED BY <2>3, <2>7, <2>8
<1> QED BY <1>1, ExtractionInitially, ExtractionInductive, PTL DEF ExtractionSpec
===============================================================================
