----------------------------- MODULE PolicySource -----------------------------
(***************************************************************************)
(* Where the text of a policy comes from (harness/ingest/loaders.py), and  *)
(* the lockfile that says which text it was (scripts/fetch_policies.py): a *)
(* page changes upstream, a load takes it from the cache or fetches it,    *)
(* and a fetch run records the hash and the date of what it loaded.        *)
(*                                                                         *)
(* Time is the number of versions the pages have gone through. A text is   *)
(* its words and its line terminators; a hash stands for the text it is of.*)
(***************************************************************************)
EXTENDS Integers, Sequences, FiniteSets, SequencesExt

CONSTANTS
  Urls,        \* pages
  Texts,       \* texts a page may have
  MaxVersions  \* bound on the versions

Text(words, eol) == [words |-> words, eol |-> eol]

ASSUME TextsAssumption ==
  (\A t \in Texts : t = Text(t.words, t.eol)) /\ MaxVersions \in Nat

\* No answer, an error status, or a page without main text: the load raises.
Broken == Text("broken", "")

\* A file whose writer was killed after open("w") is empty, and that is what it reads as.
Torn == Text("", "lf")

VARIABLES
  served,   \* what the pages said at each time
  cached,   \* policies/.cache: a file per name, or NoFile
  lock,     \* policies/fetch.lock.json: a row per URL, or NoRow
  loaded    \* the LoadedSource of the last ingest, or NoLoad

sourceVars == <<served, cached, lock, loaded>>

NoFile == [text |-> Broken, at |-> 0]
NoRow  == [hash |-> Broken, at |-> 0]
NoLoad == [url |-> "none", text |-> Broken, at |-> 0]

Now == Len(served)
Page(url) == served[Now][url]

(***************************************************************************)
(* load_url.                                                               *)
(***************************************************************************)
\* canonical_text: CRLF and CR become LF.
Canonical(text) == [text EXCEPT !.eol = "lf"]

\* The name of a cache file is the hash of the URL, so no two URLs share one.
CacheName(url) == url

Hit(url, refresh) == ~refresh /\ cached[CacheName(url)] # NoFile

Raises(url, refresh) == ~Hit(url, refresh) /\ Page(url) = Broken

\* A hit is dated by its file, a fetch by the clock.
LoadedSource(url, refresh) ==
  IF Hit(url, refresh)
  THEN [url |-> url, text |-> Canonical(cached[CacheName(url)].text),
        at |-> cached[CacheName(url)].at]
  ELSE [url |-> url, text |-> Canonical(Page(url)), at |-> Now]

\* The file a load leaves in the cache; a refresh neither reads one nor writes one.
Writes(url, refresh) == ~refresh /\ ~Hit(url, refresh) /\ ~Raises(url, refresh)

CacheAfter(urls, refresh) ==
  [name \in Urls |->
     LET writers == {u \in urls : CacheName(u) = name /\ Writes(u, refresh)}
     IN IF writers = {} THEN cached[name]
        ELSE [text |-> Canonical(Page(CHOOSE u \in writers : TRUE)), at |-> Now]]

(***************************************************************************)
(* Steps.                                                                  *)
(***************************************************************************)
\* A page is edited, re-served with other terminators, goes down or comes back.
Publish ==
  /\ Now < MaxVersions
  /\ \E url \in Urls : \E text \in (Texts \cup {Broken}) \ {Page(url)} :
       served' = Append(served, [served[Now] EXCEPT ![url] = text])
  /\ UNCHANGED <<cached, lock, loaded>>

\* ingest(url), which has no way to ask for a refresh.
LoadForIngest ==
  /\ \E url \in Urls :
       /\ ~Raises(url, FALSE)
       /\ loaded' = LoadedSource(url, FALSE)
       /\ cached' = CacheAfter({url}, FALSE)
  /\ UNCHANGED <<served, lock>>

\* Wrong variant: the date of a row is that of its first fetch.
RecordFirstDate(load, prior) ==
  [hash |-> load.text, at |-> IF prior = NoRow THEN load.at ELSE prior.at]

\* record: the date moves when the hash does.
Record(load, prior) ==
  [hash |-> load.text,
   at   |-> IF prior = NoRow \/ prior.hash # load.text THEN load.at ELSE prior.at]

\* fetch_policies.main: a dead URL keeps the row it had, and the lock is written once.
FetchPolicies ==
  /\ \E urls \in SUBSET Urls, refresh \in BOOLEAN :
       /\ urls # {}
       /\ lock' = [u \in Urls |->
                     IF u \in urls /\ ~Raises(u, refresh)
                     THEN Record(LoadedSource(u, refresh), lock[u]) ELSE lock[u]]
       /\ cached' = CacheAfter(urls, refresh)
  /\ UNCHANGED <<served, loaded>>

\* A load is killed between the opening of its cache file and the writing.
Killed ==
  /\ \E url \in Urls :
       /\ Writes(url, FALSE)
       /\ cached' = [cached EXCEPT ![CacheName(url)] = [text |-> Torn, at |-> Now]]
  /\ UNCHANGED <<served, lock, loaded>>

\* The directory is ignored by git and may be deleted at any time.
DeleteCache ==
  /\ cached' = [name \in Urls |-> NoFile]
  /\ UNCHANGED <<served, lock, loaded>>

SourceInit ==
  /\ served \in {<<[u \in Urls |-> text]>> : text \in Texts}
  /\ cached = [name \in Urls |-> NoFile]
  /\ lock = [u \in Urls |-> NoRow]
  /\ loaded = NoLoad

SourceNext == Publish \/ LoadForIngest \/ FetchPolicies \/ Killed \/ DeleteCache

SourceSpec == SourceInit /\ [][SourceNext]_sourceVars

(***************************************************************************)
(* Properties.                                                             *)
(***************************************************************************)
SaidAt(url, text, at) ==
  text = Torn \/ (served[at][url] # Broken /\ text = Text(served[at][url].words, "lf"))

\* A hash and a date say what one page said then: whichever way the text came, by a
\* fetch, from the cache, after an edit, a change of terminators, a dead page or a
\* refresh, an ingest and a row of the lockfile name words that this URL served at the
\* time they name. Only a file torn by a kill is no page's (loaders.py:206-208).
HashIsOfItsDate ==
  /\ loaded # NoLoad => SaidAt(loaded.url, loaded.text, loaded.at)
  /\ \A u \in Urls : lock[u] # NoRow => SaidAt(u, lock[u].hash, lock[u].at)

\* "Never read as a source of truth: it is a bandwidth and politeness optimisation, and
\* deleting it must change nothing but runtime" (loaders.py:43-45): the text an ingest
\* would take from the cache is the one it would fetch.
CacheChangesNothing ==
  \A url \in Urls : Hit(url, FALSE) /\ ~Raises(url, TRUE) =>
    LoadedSource(url, FALSE).text = LoadedSource(url, TRUE).text
===============================================================================
