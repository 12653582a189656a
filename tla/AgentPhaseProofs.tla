--------------------------- MODULE AgentPhaseProofs ---------------------------
(***************************************************************************)
(* Proofs about the agent phase and the agents' sessions, for any number   *)
(* of probes, turns, attempts and threads, any size of the table and of    *)
(* the history, and any number of timeouts, lost responses and restarts:   *)
(*   - no conversation sees another probe's messages: an induction on who  *)
(*     owns a list, and on the lists sessions and threads hold;            *)
(*   - what phase 1 returns is complete: an induction on the replies kept; *)
(*   - the table keeps near its cap, and a conversation its history, while *)
(*     every thread at work serves a request a task waits for.             *)
(***************************************************************************)
EXTENDS AgentPhase, FiniteSetTheorems, TLAPS

MessagesOf(p) ==
  {m \in [probe : Probes, turn : 1..MaxTurns, role : {"user", "assistant"}] : m.probe = p}

ListsOf(p) == {q \in Requests : q.probe = p}

Lists == Requests \cup {NoReq}

\* A session of one of the run's probes holds a list of that probe.
Entries ==
  {e \in [id : Probes \cup Range(OldSessions), list : Lists] :
     e.id \in Probes => e.list \in ListsOf(e.id)}

Places == {"none", "touch", "room", "evict", "insert", "get", "search", "generate", "answer", "ended"}

Threads(M) == [pc : Places, list : Lists, prompt : Seq(M)]

ThreadOf(r) ==
  {t \in Threads(MessagesOf(r.probe)) :
     t.pc \in {"search", "generate", "answer"} => t.list \in ListsOf(r.probe)}

\* A thread that moves or reads a history is a thread.
LEMMA ThreadMoves ==
  ASSUME NEW M, NEW t \in Threads(M), NEW pc \in Places,
         NEW u, u = [t EXCEPT !.pc = pc]
  PROVE  u \in Threads(M) /\ u.pc = pc /\ u.list = t.list
<1> DEFINE H == Seq(M)
<1> HIDE DEF H
<1>1. t \in [pc : Places, list : Lists, prompt : H]
  BY DEF Threads, H
<1>2. u \in [pc : Places, list : Lists, prompt : H]
  BY <1>1
<1> QED
  BY <1>1, <1>2 DEF Threads, H

LEMMA ThreadReads ==
  ASSUME NEW M, NEW t \in Threads(M), NEW h \in Seq(M),
         NEW u, u = [t EXCEPT !.pc = "generate", !.prompt = h]
  PROVE  u \in Threads(M) /\ u.list = t.list
<1> DEFINE H == Seq(M)
<1> HIDE DEF H
<1>1. t \in [pc : Places, list : Lists, prompt : H] /\ h \in H
  BY DEF Threads, H
<1>2. u \in [pc : Places, list : Lists, prompt : H]
  BY <1>1 DEF Places
<1> QED
  BY <1>1, <1>2 DEF Threads, H

Owned ==
  /\ sessions \in Seq(Entries)
  /\ DOMAIN list = Requests /\ \A q \in Requests : list[q] \in Seq(MessagesOf(q.probe))
  /\ DOMAIN thread = Requests /\ \A q \in Requests : thread[q] \in ThreadOf(q)

\* The last messages of a conversation are messages of it.
LEMMA LastOfIsOfIt ==
  ASSUME NEW S, NEW s \in Seq(S), NEW n \in Nat
  PROVE  LastOf(s, n) \in Seq(S)
<1>1. Len(s) \in Nat /\ s \in [1..Len(s) -> S]
  OBVIOUS
<1>2. CASE Len(s) > n
  <2>1. LastOf(s, n) = SubSeq(s, Len(s) - n + 1, Len(s))
    BY <1>2 DEF LastOf
  <2> QED
    BY <1>1, <1>2, <2>1
<1>3. CASE ~(Len(s) > n)
  <2>1. LastOf(s, n) = SubSeq(s, 1, Len(s))
    BY <1>3 DEF LastOf
  <2> QED
    BY <1>1, <2>1
<1> QED
  BY <1>2, <1>3

LEMMA RemoveAtIsOfIt ==
  ASSUME NEW S, NEW s \in Seq(S), NEW i \in DOMAIN s
  PROVE  RemoveAt(s, i) \in Seq(S)
<1>1. i \in 1..Len(s) /\ Len(s) \in Nat
  OBVIOUS
<1>2. SubSeq(s, 1, i - 1) \in Seq(S) /\ SubSeq(s, i + 1, Len(s)) \in Seq(S)
  BY <1>1
<1> QED
  BY <1>2 DEF RemoveAt

\* The thread of a request ends, or goes on where it was.
LEMMA EndKeepsOwned ==
  ASSUME Owned, NEW r \in Requests, NEW status, End(r, status)
  PROVE  DOMAIN thread' = Requests /\ \A q \in Requests : thread'[q] \in ThreadOf(q)
<1>1. Ended \in ThreadOf(r)
  <2> DEFINE M == MessagesOf(r.probe)
  <2> HIDE DEF M
  <2>0. <<>> \in Seq(M)
    OBVIOUS
  <2>1. Ended \in Threads(M)
    BY <2>0 DEF Ended, Threads, Lists, Places
  <2>2. Ended.pc = "ended"
    BY DEF Ended
  <2> QED
    BY <2>1, <2>2 DEF ThreadOf, M
<1> QED
  BY <1>1 DEF End, Owned

LEMMA GoKeepsOwned ==
  ASSUME Owned, NEW r \in Requests,
         \/ \E pc \in {"touch", "room", "evict", "insert", "get"} : Go(r, pc)
         \/ Go(r, "answer") /\ thread[r].pc = "generate"
  PROVE  DOMAIN thread' = Requests /\ \A q \in Requests : thread'[q] \in ThreadOf(q)
<1>1. thread[r] \in ThreadOf(r)
  BY DEF Owned
<1>2. PICK pc \in {"touch", "room", "evict", "insert", "get", "answer"} :
        Go(r, pc) /\ (pc = "answer" => thread[r].pc = "generate")
  OBVIOUS
<1> DEFINE t == [thread[r] EXCEPT !.pc = pc]
<1>3. thread' = [thread EXCEPT ![r] = t]
  BY <1>2 DEF Go
<1>4. /\ t \in Threads(MessagesOf(r.probe))
      /\ t.pc = pc /\ t.list = thread[r].list
  <2>1. thread[r] \in Threads(MessagesOf(r.probe)) /\ pc \in Places
    BY <1>1 DEF ThreadOf, Places
  <2> QED
    BY <2>1, ThreadMoves
<1>5. t \in ThreadOf(r)
  BY <1>1, <1>2, <1>4 DEF ThreadOf
<1> HIDE DEF t
<1> QED
  BY <1>3, <1>5 DEF Owned

LEMMA SessionsAreOfTheirProbes ==
  ASSUME Owned, NEW r \in Requests, Known(SessionOf(r))
  PROVE  Held(SessionOf(r)) \in ListsOf(r.probe)
<1>1. PICK i \in Index(SessionOf(r)) : Held(SessionOf(r)) = sessions[i].list
  BY DEF Known, Held
<1>2. i \in DOMAIN sessions /\ sessions[i].id = r.probe /\ sessions[i] \in Entries
  BY <1>1 DEF Index, SessionOf, Owned
<1>3. r.probe \in Probes
  BY DEF Requests
<1> QED
  BY <1>1, <1>2, <1>3 DEF Entries

\* The history part of chat: the table changes hands, and lists are made.
LEMMA HistoryKeepsOwned ==
  ASSUME Owned, NEW r \in Requests,
         Unready(r) \/ Lookup(r) \/ Touch(r) \/ Room(r) \/ Evict(r) \/ Insert(r) \/ Get(r)
  PROVE  Owned'
<1>1. CASE Unready(r)
  BY <1>1, EndKeepsOwned DEF Unready, Owned
<1>2. CASE Lookup(r)
  <2>1. DOMAIN thread' = Requests /\ \A q \in Requests : thread'[q] \in ThreadOf(q)
    BY <1>2, GoKeepsOwned DEF Lookup
  <2> QED
    BY <1>2, <2>1 DEF Lookup, Owned
<1>3. CASE Touch(r)
  <2>1. DOMAIN thread' = Requests /\ \A q \in Requests : thread'[q] \in ThreadOf(q)
    BY <1>3, EndKeepsOwned, GoKeepsOwned DEF Touch
  <2>2. sessions' \in Seq(Entries)
    <3>1. CASE UNCHANGED sessions
      BY <3>1 DEF Owned
    <3>2. CASE \E i \in Index(SessionOf(r)) : sessions' = Append(RemoveAt(sessions, i), sessions[i])
      <4>1. PICK i \in DOMAIN sessions : sessions' = Append(RemoveAt(sessions, i), sessions[i])
        BY <3>2 DEF Index
      <4>2. RemoveAt(sessions, i) \in Seq(Entries) /\ sessions[i] \in Entries
        BY RemoveAtIsOfIt DEF Owned
      <4> QED
        BY <4>1, <4>2
    <3> QED
      BY <1>3, <3>1, <3>2 DEF Touch
  <2> QED
    BY <1>3, <2>1, <2>2 DEF Touch, Owned
<1>4. CASE Room(r)
  <2>1. DOMAIN thread' = Requests /\ \A q \in Requests : thread'[q] \in ThreadOf(q)
    BY <1>4, GoKeepsOwned DEF Room
  <2> QED
    BY <1>4, <2>1 DEF Room, Owned
<1>5. CASE Evict(r)
  <2>1. DOMAIN thread' = Requests /\ \A q \in Requests : thread'[q] \in ThreadOf(q)
    BY <1>5, EndKeepsOwned, GoKeepsOwned DEF Evict
  <2>2. sessions' \in Seq(Entries)
    BY <1>5 DEF Evict, Owned
  <2> QED
    BY <1>5, <2>1, <2>2 DEF Evict, Owned
<1>6. CASE Insert(r)
  <2> DEFINE e == [id |-> r.probe, list |-> r]
  <2>1. DOMAIN thread' = Requests /\ \A q \in Requests : thread'[q] \in ThreadOf(q)
    BY <1>6, GoKeepsOwned DEF Insert
  <2>2. e \in Entries
    BY DEF Entries, ListsOf, Lists, Requests
  <2>3. sessions' \in Seq(Entries)
    <3>1. CASE sessions' = Append(sessions, e)
      BY <2>2, <3>1 DEF Owned
    <3>2. CASE sessions' = [i \in DOMAIN sessions |-> IF i \in Index(r.probe) THEN e ELSE sessions[i]]
      <4>1. sessions \in Seq(Entries) /\ DOMAIN sessions = 1..Len(sessions) /\ Len(sessions) \in Nat
        BY DEF Owned
      <4>2. \A i \in 1..Len(sessions) : sessions'[i] \in Entries
        BY <2>2, <3>2, <4>1
      <4>3. sessions' \in [1..Len(sessions) -> Entries]
        BY <3>2, <4>1, <4>2
      <4> QED
        BY <4>1, <4>3
    <3> QED
      BY <1>6, <3>1, <3>2 DEF Insert, SessionOf
  <2>4. DOMAIN list' = Requests /\ \A q \in Requests : list'[q] \in Seq(MessagesOf(q.probe))
    <3>1. <<>> \in Seq(MessagesOf(r.probe))
      OBVIOUS
    <3> QED
      BY <1>6, <3>1 DEF Insert, Owned
  <2> QED
    BY <2>1, <2>3, <2>4 DEF Owned
<1>7. CASE Get(r)
  <2>1. CASE Known(SessionOf(r))
    <3> DEFINE t == [thread[r] EXCEPT !.pc = "search", !.list = Held(SessionOf(r))]
    <3>1. thread' = [thread EXCEPT ![r] = t]
      BY <1>7, <2>1 DEF Get
    <3>2. Held(SessionOf(r)) \in ListsOf(r.probe)
      BY <2>1, SessionsAreOfTheirProbes
    <3>3. thread[r] \in ThreadOf(r)
      BY DEF Owned
    <3>4. t \in ThreadOf(r)
      <4>0. /\ thread[r] \in Threads(MessagesOf(r.probe)) /\ "search" \in Places
            /\ Held(SessionOf(r)) \in Lists
        BY <3>2, <3>3 DEF ThreadOf, ListsOf, Places, Lists
      <4>1. t \in Threads(MessagesOf(r.probe)) /\ t.list = Held(SessionOf(r))
        <5> DEFINE w == thread[r]
                   v == Held(SessionOf(r))
                   H == Seq(MessagesOf(r.probe))
        <5>1. /\ w \in [pc : Places, list : Lists, prompt : H] /\ "search" \in Places
              /\ v \in Lists /\ t = [w EXCEPT !.pc = "search", !.list = v]
          BY <4>0 DEF Threads
        <5> HIDE DEF t, w, v, H
        <5>2. t \in [pc : Places, list : Lists, prompt : H] /\ t.list = v
          BY <5>1
        <5> QED
          BY <5>2 DEF v, H, Threads
      <4> QED
        BY <3>2, <4>1 DEF ThreadOf
    <3> HIDE DEF t
    <3>5. DOMAIN thread' = Requests /\ \A q \in Requests : thread'[q] \in ThreadOf(q)
      BY <3>1, <3>4 DEF Owned
    <3> QED
      BY <1>7, <3>5 DEF Get, Owned
  <2>2. CASE ~Known(SessionOf(r))
    <3>1. DOMAIN thread' = Requests /\ \A q \in Requests : thread'[q] \in ThreadOf(q)
      BY <1>7, <2>2, EndKeepsOwned DEF Get
    <3> QED
      BY <1>7, <3>1 DEF Get, Owned
  <2> QED
    BY <2>1, <2>2
<1> QED
  BY <1>1, <1>2, <1>3, <1>4, <1>5, <1>6, <1>7

\* The chat part: a list is read and appended to by requests of its probe only.
LEMMA ChatKeepsOwned ==
  ASSUME Owned, NEW r \in Requests,
         Prompt(r) \/ BackendFails(r) \/ AppendUser(r) \/ AppendReply(r)
  PROVE  Owned'
<1> DEFINE l == thread[r].list
           M == MessagesOf(r.probe)
<1>1. thread[r] \in ThreadOf(r)
  BY DEF Owned
<1>2. thread[r].pc \in {"search", "generate", "answer"} => l \in Requests /\ l.probe = r.probe
  BY <1>1 DEF ThreadOf, ListsOf
<1>3. \A role \in {"user", "assistant"} : Message(r, role) \in M
  BY DEF Message, MessagesOf, Requests
<1>4. CASE Prompt(r)
  <2> DEFINE h == History(r)
             t == [thread[r] EXCEPT !.pc = "generate", !.prompt = h]
  <2>1. thread' = [thread EXCEPT ![r] = t] /\ At(r, "search")
    BY <1>4 DEF Prompt
  <2>2. h \in Seq(M)
    BY <1>2, <2>1 DEF History, Owned, At
  <2>3. thread[r] \in Threads(M) /\ "generate" \in Places
    BY <1>1 DEF ThreadOf, Places
  <2>4. t \in Threads(M) /\ t.list = l
    <3> DEFINE w == thread[r]
    <3>1. w \in Threads(M) /\ h \in Seq(M) /\ t = [w EXCEPT !.pc = "generate", !.prompt = h]
      BY <2>2, <2>3
    <3> HIDE DEF t, h, w, l, M
    <3>2. t \in Threads(M) /\ t.list = w.list
      BY <3>1, ThreadReads
    <3> QED
      BY <3>2 DEF w, l
  <2>5. t \in ThreadOf(r)
    BY <1>1, <2>1, <2>4 DEF ThreadOf, At
  <2> HIDE DEF t
  <2>6. DOMAIN thread' = Requests /\ \A q \in Requests : thread'[q] \in ThreadOf(q)
    BY <2>1, <2>5 DEF Owned
  <2> QED
    BY <1>4, <2>6 DEF Prompt, Owned
<1>5. CASE BackendFails(r)
  BY <1>5, EndKeepsOwned DEF BackendFails, Owned
<1>6. CASE AppendUser(r)
  <2>1. list' = [list EXCEPT ![l] = Append(list[l], Message(r, "user"))]
    BY <1>6 DEF AppendUser
  <2>2. l \in Requests /\ l.probe = r.probe
    BY <1>2, <1>6 DEF AppendUser, At
  <2>3. Append(list[l], Message(r, "user")) \in Seq(M)
    <3>1. list[l] \in Seq(M) /\ Message(r, "user") \in M
      BY <1>3, <2>2 DEF Owned
    <3> HIDE DEF M
    <3> QED
      BY <3>1
  <2>4. DOMAIN list' = Requests /\ \A q \in Requests : list'[q] \in Seq(MessagesOf(q.probe))
    BY <2>1, <2>2, <2>3 DEF Owned
  <2>5. DOMAIN thread' = Requests /\ \A q \in Requests : thread'[q] \in ThreadOf(q)
    BY <1>6, GoKeepsOwned DEF AppendUser, At
  <2> QED
    BY <1>6, <2>4, <2>5 DEF AppendUser, Owned
<1>7. CASE AppendReply(r)
  <2> DEFINE h == LastOf(Append(list[l], Message(r, "assistant")), MaxHistory)
  <2>1. list' = [list EXCEPT ![l] = h]
    BY <1>7 DEF AppendReply
  <2>2. l \in Requests /\ l.probe = r.probe
    BY <1>2, <1>7 DEF AppendReply, At
  <2>3. h \in Seq(M)
    <3>1. list[l] \in Seq(M) /\ Message(r, "assistant") \in M
      BY <1>3, <2>2 DEF Owned
    <3> HIDE DEF M
    <3>2. Append(list[l], Message(r, "assistant")) \in Seq(M)
      BY <3>1
    <3>3. MaxHistory \in Nat
      BY ServiceAssumption
    <3> QED
      BY <3>2, <3>3, LastOfIsOfIt
  <2> HIDE DEF h
  <2>4. DOMAIN list' = Requests /\ \A q \in Requests : list'[q] \in Seq(MessagesOf(q.probe))
    BY <2>1, <2>2, <2>3 DEF Owned
  <2>5. DOMAIN thread' = Requests /\ \A q \in Requests : thread'[q] \in ThreadOf(q)
    BY <1>7, EndKeepsOwned DEF AppendReply
  <2> QED
    BY <1>7, <2>4, <2>5 DEF AppendReply, Owned
<1> QED
  BY <1>4, <1>5, <1>6, <1>7

\* No thread holds a list at its start or at its end.
LEMMA NoListIsOwned ==
  ASSUME NEW r \in Requests
  PROVE  Idle \in ThreadOf(r) /\ Ended \in ThreadOf(r)
<1> DEFINE M == MessagesOf(r.probe)
<1> HIDE DEF M
<1>1. <<>> \in Seq(M)
  OBVIOUS
<1>2. Idle \in Threads(M) /\ Ended \in Threads(M)
  BY <1>1 DEF Idle, Ended, Threads, Lists, Places
<1>3. Idle.pc = "none" /\ Ended.pc = "ended"
  BY DEF Idle, Ended
<1> QED
  BY <1>2, <1>3 DEF ThreadOf, M

LEMMA OwnedAtFirst ==
  ASSUME Init
  PROVE  Owned
<1>1. sessions \in Seq(Entries)
  <2>1. Len(OldSessions) \in Nat /\ DOMAIN OldSessions = 1..Len(OldSessions)
    BY ServiceAssumption
  <2>2. \A i \in 1..Len(OldSessions) : [id |-> OldSessions[i], list |-> NoReq] \in Entries
    <3> TAKE i \in 1..Len(OldSessions)
    <3>1. OldSessions[i] \in Range(OldSessions) /\ OldSessions[i] \notin Probes
      BY <2>1, ServiceAssumption DEF Range
    <3> QED
      BY <3>1 DEF Entries, Lists
  <2>3. sessions \in [1..Len(OldSessions) -> Entries]
    BY <2>1, <2>2 DEF Init, InitService
  <2> QED
    BY <2>1, <2>3
<1>2. DOMAIN list = Requests /\ \A q \in Requests : list[q] \in Seq(MessagesOf(q.probe))
  <2>1. \A M : <<>> \in Seq(M)
    OBVIOUS
  <2> QED
    BY <2>1 DEF Init, InitService
<1>3. DOMAIN thread = Requests /\ \A q \in Requests : thread[q] \in ThreadOf(q)
  BY NoListIsOwned DEF Init, InitService
<1> QED
  BY <1>1, <1>2, <1>3 DEF Owned

\* A restart leaves no session and no thread with a list.
LEMMA RestartKeepsOwned ==
  ASSUME Owned, Restart
  PROVE  Owned'
<1>1. sessions' \in Seq(Entries)
  BY DEF Restart
<1>2. DOMAIN thread' = Requests /\ \A q \in Requests : thread'[q] \in ThreadOf(q)
  BY NoListIsOwned DEF Restart
<1> QED
  BY <1>1, <1>2 DEF Restart, Owned

\* The client touches the wire only.
LEMMA HarnessKeepsOwned ==
  ASSUME Owned, Harness
  PROVE  Owned'
<1>1. UNCHANGED <<sessions, list, thread>>
  BY DEF Harness, Health, HealthFails, Raise, Return, Begin, Mismatch, KeepReply, Retry,
         Unavailable, GiveUp, Cancel, Fail, autVars
<1> QED
  BY <1>1 DEF Owned

LEMMA OwnedIsKept ==
  ASSUME Owned, [Next]_vars
  PROVE  Owned'
<1>1. CASE Harness
  BY <1>1, HarnessKeepsOwned
<1>2. CASE Service
  <2>1. PICK r \in Requests : Handle(r)
    BY <1>2 DEF Service
  <2> QED
    BY <2>1, HistoryKeepsOwned, ChatKeepsOwned DEF Handle
<1>3. CASE Restart
  BY <1>3, RestartKeepsOwned
<1>4. CASE UNCHANGED vars
  BY <1>4 DEF vars, autVars, Owned
<1> QED
  BY <1>1, <1>2, <1>3, <1>4 DEF Next

\* The inductive invariant: a list, and a thread that holds one, are of one probe.
THEOREM ListsAreOwned == Spec => []Owned
<1>1. Init => Owned
  BY OwnedAtFirst
<1>2. Owned /\ [Next]_vars => Owned'
  BY OwnedIsKept
<1> QED
  BY <1>1, <1>2, PTL DEF Spec

\* What is put before the model for a probe holds messages of that probe only:
\* no eviction, retry, timeout or restart makes _history hand out another's list.
THEOREM NothingLeaks == Spec => []NoLeak
<1>1. Owned => NoLeak
  <2> SUFFICES ASSUME Owned, NEW r \in Requests, NEW i \in DOMAIN thread[r].prompt
               PROVE  thread[r].prompt[i].probe = r.probe
    BY DEF NoLeak
  <2>1. thread[r].prompt \in Seq(MessagesOf(r.probe))
    BY DEF Owned, ThreadOf, Threads
  <2>2. thread[r].prompt[i] \in MessagesOf(r.probe)
    BY <2>1
  <2> QED
    BY <2>2 DEF MessagesOf
<1> QED
  BY <1>1, ListsAreOwned, PTL

(***************************************************************************)
(* What phase 1 returns. The client's half: the request a probe waits for  *)
(* is the one after the replies it kept, and the wire does not change      *)
(* under a reply that was kept.                                            *)
(***************************************************************************)
Statuses == {"unsent", "sent", "reply", "error"}

ClientTypes ==
  /\ build \in Builds
  /\ wire \in [Requests -> [status : Statuses, build : Builds \cup {NoBuild}]]
  /\ task \in [Probes -> {"waiting", "awaiting", "done", "failed", "cancelled"}]
  /\ request \in [Probes -> Requests \cup {NoReq}]
  /\ replies \in [Probes -> Seq(Requests)]

\* Where a probe is in its conversation.
TurnsInOrder ==
  \A p \in Probes :
    /\ task[p] = "waiting" => request[p] = NoReq /\ replies[p] = <<>>
    /\ task[p] = "awaiting" =>
         /\ request[p] \in Requests /\ request[p].probe = p
         /\ request[p].turn <= Turns[p]
         /\ Len(replies[p]) = request[p].turn - 1
    /\ task[p] = "done" => Len(replies[p]) = Turns[p]

Kept(p, t) ==
  /\ replies[p][t].probe = p /\ replies[p][t].turn = t
  /\ wire[replies[p][t]].status = "reply"
  /\ expect # NoBuild => wire[replies[p][t]].build = expect

RepliesKept == \A p \in Probes : \A t \in 1..Len(replies[p]) : Kept(p, t)

PhaseInOrder ==
  /\ phase = "health" => \A p \in Probes : task[p] = "waiting"
  /\ phase = "returned" => \A p \in Probes : task[p] = "done"

ClientInv == ClientTypes /\ TurnsInOrder /\ RepliesKept /\ PhaseInOrder

\* A request is a probe, a turn and an attempt; none is the absent one.
LEMMA RequestsAre ==
  ASSUME NEW p \in Probes, NEW t \in 1..MaxTurns, NEW a \in 1..AgentAttempts
  PROVE  [probe |-> p, turn |-> t, attempt |-> a] \in Requests
BY DEF Requests

\* What the agent, or its restart, does to the wire: a request that is not under
\* way is left alone, and one that is may be answered.
WireMoves ==
  /\ wire' \in [Requests -> [status : Statuses, build : Builds \cup {NoBuild}]]
  /\ \A r \in Requests : wire[r].status # "sent" => wire'[r] = wire[r]
  /\ build' \in Builds

LEMMA ServiceMovesTheWire ==
  ASSUME ClientTypes, Service \/ Restart
  PROVE  WireMoves
<1>1. ASSUME NEW r \in Requests, NEW status \in {"reply", "error"}, End(r, status)
      PROVE  /\ wire' \in [Requests -> [status : Statuses, build : Builds \cup {NoBuild}]]
             /\ \A q \in Requests : wire[q].status # "sent" => wire'[q] = wire[q]
  <2>1. [status |-> status, build |-> build] \in [status : Statuses, build : Builds \cup {NoBuild}]
    BY <1>1 DEF ClientTypes, Statuses
  <2>2. QED
    BY <1>1, <2>1 DEF End, ClientTypes
<1>2. ASSUME NEW r \in Requests, Handle(r)
      PROVE  /\ build' = build
             /\ wire' = wire \/ \E status \in {"reply", "error"} : End(r, status)
  BY <1>2 DEF Handle, Unready, Lookup, Touch, Room, Evict, Insert, Get, Prompt, BackendFails,
              AppendUser, AppendReply
<1>3. CASE Service
  BY <1>1, <1>2, <1>3 DEF Service, WireMoves, ClientTypes
<1>4. CASE Restart
  <2>1. /\ build' \in Builds
        /\ wire' = [r \in Requests |-> IF wire[r].status = "sent"
                                       THEN [status |-> "error", build |-> NoBuild] ELSE wire[r]]
    BY <1>4 DEF Restart
  <2>2. [status |-> "error", build |-> NoBuild] \in [status : Statuses, build : Builds \cup {NoBuild}]
    BY DEF Statuses
  <2>3. QED
    BY <2>1, <2>2 DEF WireMoves, ClientTypes
<1>5. QED
  BY <1>3, <1>4

\* The agent's moves leave the client as it was: what was kept has been answered.
LEMMA ClientKeptByService ==
  ASSUME ClientInv, WireMoves, UNCHANGED phaseVars
  PROVE  ClientInv'
<1> USE DEF ClientInv, phaseVars
<1>1. ClientTypes'
  BY DEF ClientTypes, WireMoves
<1>2. TurnsInOrder' /\ PhaseInOrder'
  BY DEF TurnsInOrder, PhaseInOrder
<1>3. RepliesKept'
  <2>1. ASSUME NEW p \in Probes, NEW t \in 1..Len(replies[p])
        PROVE  Kept(p, t)'
    <3>1. Kept(p, t) /\ replies[p][t] \in Requests
      BY DEF RepliesKept, ClientTypes
    <3>2. wire'[replies[p][t]] = wire[replies[p][t]]
      BY <3>1 DEF Kept, WireMoves
    <3>3. QED
      BY <3>1, <3>2 DEF Kept
  <2>2. QED
    BY <2>1 DEF RepliesKept
<1>4. QED
  BY <1>1, <1>2, <1>3

\* The client marks the wire of a request it has not kept a reply to.
LEMMA MarksNothingKept ==
  ASSUME ClientTypes, RepliesKept, NEW p \in Probes, NEW r \in Requests, NEW status \in Statuses,
         r.probe = p, r.turn > Len(replies[p]),
         wire' = [wire EXCEPT ![r].status = status]
  PROVE  /\ wire' \in [Requests -> [status : Statuses, build : Builds \cup {NoBuild}]]
         /\ \A q \in Probes : \A t \in 1..Len(replies[q]) :
              replies[q][t] \in Requests /\ wire'[replies[q][t]] = wire[replies[q][t]]
<1>1. wire' \in [Requests -> [status : Statuses, build : Builds \cup {NoBuild}]]
  <2>1. wire[r] \in [status : Statuses, build : Builds \cup {NoBuild}]
    BY DEF ClientTypes
  <2>2. [wire[r] EXCEPT !.status = status] \in [status : Statuses, build : Builds \cup {NoBuild}]
    BY <2>1
  <2>3. QED
    BY <2>2 DEF ClientTypes
<1>2. ASSUME NEW q \in Probes, NEW t \in 1..Len(replies[q])
      PROVE  replies[q][t] \in Requests /\ wire'[replies[q][t]] = wire[replies[q][t]]
  <2>1. replies[q] \in Seq(Requests)
    BY DEF ClientTypes
  <2>2. replies[q][t] \in Requests /\ t \in Nat /\ Len(replies[q]) \in Nat /\ t <= Len(replies[q])
    BY <2>1
  <2>3. replies[q][t].probe = q /\ replies[q][t].turn = t
    BY DEF RepliesKept, Kept
  <2>4. replies[q][t] # r
    BY <2>2, <2>3
  <2>5. QED
    BY <2>2, <2>4 DEF ClientTypes
<1>3. QED
  BY <1>1, <1>2

\* The first message, the next one, and another attempt at one.
LEMMA BeginKeepsClient ==
  ASSUME ClientInv, NEW p \in Probes, Begin(p)
  PROVE  ClientInv'
<1> USE DEF ClientInv
<1> DEFINE r == [probe |-> p, turn |-> 1, attempt |-> 1]
<1>1. /\ UNCHANGED <<build, phase, expect, replies>>
      /\ task[p] = "waiting" /\ task' = [task EXCEPT ![p] = "awaiting"] /\ phase = "fanout"
      /\ request' = [request EXCEPT ![p] = r] /\ wire' = [wire EXCEPT ![r].status = "sent"]
  BY DEF Begin, Send
<1>2. r \in Requests /\ r.probe = p /\ r.turn = 1 /\ Turns[p] \in 1..MaxTurns
  BY ServiceAssumption, PhaseAssumption, RequestsAre
<1>3. replies[p] = <<>>
  BY <1>1 DEF TurnsInOrder
<1> HIDE DEF r
<1>4. /\ wire' \in [Requests -> [status : Statuses, build : Builds \cup {NoBuild}]]
      /\ \A q \in Probes : \A t \in 1..Len(replies[q]) :
           replies[q][t] \in Requests /\ wire'[replies[q][t]] = wire[replies[q][t]]
  <2>1. r.turn > Len(replies[p]) /\ "sent" \in Statuses
    BY <1>2, <1>3 DEF Statuses
  <2>2. QED
    BY <1>1, <1>2, <2>1, MarksNothingKept
<1>5. ClientTypes'
  BY <1>1, <1>2, <1>4 DEF ClientTypes
<1>6. TurnsInOrder' /\ PhaseInOrder'
  BY <1>1, <1>2, <1>3 DEF TurnsInOrder, PhaseInOrder, ClientTypes
<1>7. RepliesKept'
  BY <1>1, <1>4 DEF RepliesKept, Kept
<1>8. QED
  BY <1>5, <1>6, <1>7

LEMMA RetryKeepsClient ==
  ASSUME ClientInv, NEW p \in Probes, Retry(p)
  PROVE  ClientInv'
<1> USE DEF ClientInv
<1> DEFINE r == [probe |-> p, turn |-> request[p].turn, attempt |-> request[p].attempt + 1]
<1>1. /\ UNCHANGED <<build, phase, expect, replies, task>>
      /\ task[p] = "awaiting" /\ request[p].attempt < AgentAttempts
      /\ request' = [request EXCEPT ![p] = r] /\ wire' = [wire EXCEPT ![r].status = "sent"]
  BY DEF Retry, Send, Awaiting
<1>2. /\ request[p] \in Requests /\ request[p].turn <= Turns[p]
      /\ Len(replies[p]) = request[p].turn - 1
  BY <1>1 DEF TurnsInOrder
<1>3. request[p].turn \in 1..MaxTurns /\ request[p].attempt \in 1..AgentAttempts
  BY <1>2 DEF Requests
<1>4. r \in Requests /\ r.probe = p /\ r.turn = request[p].turn
  <2>1. AgentAttempts \in Nat
    BY ServiceAssumption
  <2>2. request[p].attempt + 1 \in 1..AgentAttempts
    BY <1>1, <1>3, <2>1
  <2>3. QED
    BY <1>3, <2>2, RequestsAre
<1> HIDE DEF r
<1>5. /\ wire' \in [Requests -> [status : Statuses, build : Builds \cup {NoBuild}]]
      /\ \A q \in Probes : \A t \in 1..Len(replies[q]) :
           replies[q][t] \in Requests /\ wire'[replies[q][t]] = wire[replies[q][t]]
  <2>1. request[p].turn > request[p].turn - 1
    BY <1>3
  <2>2. r.turn > Len(replies[p]) /\ "sent" \in Statuses
    BY <1>2, <1>4, <2>1 DEF Statuses
  <2>3. QED
    BY <1>1, <1>4, <2>2, MarksNothingKept
<1>6. ClientTypes'
  BY <1>1, <1>4, <1>5 DEF ClientTypes
<1>7. TurnsInOrder' /\ PhaseInOrder'
  BY <1>1, <1>2, <1>4 DEF TurnsInOrder, PhaseInOrder, ClientTypes
<1>8. RepliesKept'
  BY <1>1, <1>5 DEF RepliesKept, Kept
<1>9. QED
  BY <1>6, <1>7, <1>8

LEMMA KeepKeepsClient ==
  ASSUME ClientInv, NEW p \in Probes, KeepReply(p)
  PROVE  ClientInv'
<1> USE DEF ClientInv
<1> DEFINE n == [probe |-> p, turn |-> request[p].turn + 1, attempt |-> 1]
           q == request[p]
<1>1. /\ UNCHANGED <<build, phase, expect>>
      /\ task[p] = "awaiting" /\ wire[q].status = "reply" /\ ~Wrong(p)
      /\ phase \in {"fanout", "cancelling"}
      /\ replies' = [replies EXCEPT ![p] = Append(replies[p], q)]
  BY DEF KeepReply, Awaiting
<1>2. /\ q \in Requests /\ q.probe = p /\ q.turn <= Turns[p] /\ q.turn \in 1..MaxTurns
      /\ Len(replies[p]) = q.turn - 1 /\ Turns[p] \in 1..MaxTurns
      /\ replies[p] \in Seq(Requests)
  BY <1>1, PhaseAssumption DEF TurnsInOrder, ClientTypes, Requests
<1>3. /\ Append(replies[p], q) \in Seq(Requests)
      /\ Len(Append(replies[p], q)) = q.turn
      /\ \A t \in 1..q.turn : Append(replies[p], q)[t] = IF t = q.turn THEN q ELSE replies[p][t]
  <2> HIDE DEF q
  <2>1. QED
    BY <1>2, ServiceAssumption
<1>4. /\ replies' \in [Probes -> Seq(Requests)]
      /\ \A s \in Probes : s # p => replies'[s] = replies[s]
      /\ replies'[p] = Append(replies[p], q)
  BY <1>1, <1>3 DEF ClientTypes
<1>5. expect # NoBuild => wire[q].build = expect
  BY <1>1 DEF Wrong
<1>6. \A s \in Probes : \A t \in 1..Len(replies'[s]) :
        /\ replies'[s][t] \in Requests /\ replies'[s][t].probe = s /\ replies'[s][t].turn = t
        /\ wire[replies'[s][t]].status = "reply"
        /\ expect # NoBuild => wire[replies'[s][t]].build = expect
  <2>1. TAKE s \in Probes
  <2>2. TAKE t \in 1..Len(replies'[s])
  <2>3. CASE s # p
    BY <1>4, <2>3 DEF RepliesKept, Kept, ClientTypes
  <2>4. CASE s = p /\ t = q.turn
    <3>1. replies'[s][t] = q
      BY <1>2, <1>3, <1>4, <2>4
    <3>2. QED
      BY <1>1, <1>2, <1>5, <2>4, <3>1
  <2>5. CASE s = p /\ t # q.turn
    <3>1. t \in 1..Len(replies[p]) /\ replies'[s][t] = replies[p][t]
      BY <1>2, <1>3, <1>4, <2>2, <2>5
    <3>2. Kept(p, t) /\ replies[p][t] \in Requests
      BY <1>2, <3>1 DEF RepliesKept
    <3>3. QED
      BY <2>5, <3>1, <3>2 DEF Kept
  <2>6. QED
    BY <2>3, <2>4, <2>5
<1>7. CASE q.turn = Turns[p]
  <2>1. task' = [task EXCEPT ![p] = "done"] /\ UNCHANGED <<request, wire>>
    BY <1>7 DEF KeepReply
  <2>2. ClientTypes'
    BY <1>1, <1>4, <2>1 DEF ClientTypes
  <2>3. TurnsInOrder' /\ PhaseInOrder'
    BY <1>1, <1>3, <1>4, <1>7, <2>1 DEF TurnsInOrder, PhaseInOrder, ClientTypes
  <2>4. RepliesKept'
    BY <1>1, <1>6, <2>1 DEF RepliesKept, Kept
  <2>5. QED
    BY <2>2, <2>3, <2>4
<1>8. CASE q.turn # Turns[p]
  <2>1. /\ request' = [request EXCEPT ![p] = n] /\ wire' = [wire EXCEPT ![n].status = "sent"]
        /\ task' = task
    BY <1>8 DEF KeepReply, Send
  <2>2. n \in Requests /\ n.probe = p /\ n.turn = q.turn + 1 /\ n.turn <= Turns[p]
    <3>1. q.turn + 1 \in 1..MaxTurns /\ q.turn + 1 <= Turns[p]
      <4> HIDE DEF q
      <4>1. QED
        BY <1>2, <1>8, ServiceAssumption
    <3>2. QED
      BY <3>1, ServiceAssumption, RequestsAre
  <2> HIDE DEF n
  <2>3. /\ wire' \in [Requests -> [status : Statuses, build : Builds \cup {NoBuild}]]
        /\ \A s \in Requests : s # n => wire'[s] = wire[s]
    <3>1. [wire[n] EXCEPT !.status = "sent"] \in [status : Statuses, build : Builds \cup {NoBuild}]
      <4>1. wire[n] \in [status : Statuses, build : Builds \cup {NoBuild}]
        BY <2>2 DEF ClientTypes
      <4>2. QED
        BY <4>1 DEF Statuses
    <3>2. QED
      BY <2>1, <3>1 DEF ClientTypes
  <2>4. \A s \in Probes : \A t \in 1..Len(replies'[s]) : replies'[s][t] # n
    <3>1. TAKE s \in Probes
    <3>2. TAKE t \in 1..Len(replies'[s])
    <3>3. CASE s # p
      BY <1>6, <2>2, <3>3
    <3>4. CASE s = p
      <4>1. t <= q.turn /\ t \in Nat /\ q.turn \in Nat
        BY <1>2, <1>3, <1>4, <3>2, <3>4
      <4>2. replies'[s][t].turn = t
        BY <1>6
      <4>3. QED
        BY <2>2, <4>1, <4>2
    <3>5. QED
      BY <3>3, <3>4
  <2>5. ClientTypes'
    BY <1>1, <1>4, <2>1, <2>2, <2>3 DEF ClientTypes
  <2>6. TurnsInOrder'
    BY <1>1, <1>2, <1>3, <1>4, <2>1, <2>2 DEF TurnsInOrder, ClientTypes
  <2>7. PhaseInOrder'
    BY <1>1, <2>1 DEF PhaseInOrder
  <2>8. RepliesKept'
    BY <1>1, <1>6, <2>3, <2>4 DEF RepliesKept, Kept
  <2>9. QED
    BY <2>5, <2>6, <2>7, <2>8
<1>9. QED
  BY <1>7, <1>8

\* The client gives up on a request: no reply to it was kept.
LEMMA GiveUpKeepsClient ==
  ASSUME ClientInv, NEW p \in Probes, GiveUp(p)
  PROVE  ClientInv'
<1> USE DEF ClientInv
<1>1. /\ UNCHANGED <<build, phase, expect, replies, task, request>>
      /\ task[p] = "awaiting" /\ wire' = [wire EXCEPT ![request[p]].status = "error"]
  BY DEF GiveUp, Awaiting
<1>2. /\ request[p] \in Requests /\ request[p].probe = p
      /\ Len(replies[p]) = request[p].turn - 1 /\ request[p].turn \in 1..MaxTurns
  BY <1>1 DEF TurnsInOrder, Requests
<1>3. /\ wire' \in [Requests -> [status : Statuses, build : Builds \cup {NoBuild}]]
      /\ \A q \in Probes : \A t \in 1..Len(replies[q]) :
           replies[q][t] \in Requests /\ wire'[replies[q][t]] = wire[replies[q][t]]
  <2>1. request[p].turn > request[p].turn - 1
    BY <1>2
  <2>2. request[p].turn > Len(replies[p]) /\ "error" \in Statuses
    BY <1>2, <2>1 DEF Statuses
  <2>3. QED
    BY <1>1, <1>2, <2>2, MarksNothingKept
<1>4. ClientTypes'
  BY <1>1, <1>3 DEF ClientTypes
<1>5. TurnsInOrder' /\ PhaseInOrder'
  BY <1>1 DEF TurnsInOrder, PhaseInOrder
<1>6. RepliesKept'
  BY <1>1, <1>3 DEF RepliesKept, Kept
<1>7. QED
  BY <1>4, <1>5, <1>6

\* Every step of the client, or of the agent, keeps the invariant.
LEMMA ClientIsKept ==
  ASSUME ClientInv, [Next]_vars
  PROVE  ClientInv'
<1>1. CASE \E p \in Probes : Begin(p) \/ Retry(p) \/ KeepReply(p) \/ GiveUp(p)
  BY <1>1, BeginKeepsClient, RetryKeepsClient, KeepKeepsClient, GiveUpKeepsClient
<1>2. CASE Health \/ HealthFails \/ Raise \/ Return
  <2>1. UNCHANGED <<autVars, task, request, replies>>
    BY <1>2 DEF Health, HealthFails, Raise, Return
  <2>2. phase = "health" => \A p \in Probes : replies[p] = <<>>
    BY DEF ClientInv, PhaseInOrder, TurnsInOrder
  <2>3. phase = "health" \/ expect' = expect
    BY <1>2 DEF Health, HealthFails, Raise, Return
  <2>4. RepliesKept'
    <3>1. CASE phase = "health"
      BY <2>1, <2>2, <3>1 DEF RepliesKept
    <3>2. CASE phase # "health"
      BY <2>1, <2>3, <3>2 DEF ClientInv, RepliesKept, Kept, autVars
    <3>3. QED
      BY <3>1, <3>2
  <2>5. PhaseInOrder'
    BY <1>2, <2>1 DEF Health, HealthFails, Raise, Return, PhaseInOrder
  <2>6. QED
    BY <2>1, <2>4, <2>5 DEF ClientInv, ClientTypes, TurnsInOrder, autVars
<1>3. CASE \E p \in Probes : Mismatch(p) \/ Unavailable(p) \/ Cancel(p)
  <2>1. PICK p \in Probes : Mismatch(p) \/ Unavailable(p) \/ Cancel(p)
    BY <1>3
  <2>2. /\ UNCHANGED <<autVars, expect, request, replies>>
        /\ task' = [task EXCEPT ![p] = "failed"] \/ task' = [task EXCEPT ![p] = "cancelled"]
        /\ phase' = "cancelling"
    BY <2>1 DEF Mismatch, Unavailable, Cancel, Fail
  <2>3. ClientTypes'
    BY <2>2 DEF ClientInv, ClientTypes, autVars
  <2>4. TurnsInOrder' /\ PhaseInOrder'
    BY <2>2 DEF ClientInv, ClientTypes, TurnsInOrder, PhaseInOrder
  <2>5. RepliesKept'
    BY <2>2 DEF ClientInv, RepliesKept, Kept, autVars
  <2>6. QED
    BY <2>3, <2>4, <2>5 DEF ClientInv
<1>4. CASE (Service \/ Restart) /\ UNCHANGED phaseVars
  BY <1>4, ServiceMovesTheWire, ClientKeptByService DEF ClientInv
<1>5. CASE UNCHANGED vars
  BY <1>5 DEF vars, autVars, phaseVars, ClientInv, ClientTypes, TurnsInOrder, RepliesKept, Kept,
              PhaseInOrder
<1>6. QED
  BY <1>1, <1>2, <1>3, <1>4, <1>5 DEF Next, Harness, Service

\* The client's invariant holds in every state of every behaviour.
LEMMA ClientAlways == Spec => []ClientInv
<1>1. Init => ClientInv
  <2>1. ASSUME Init
        PROVE  ClientTypes
    <3>1. [status |-> "unsent", build |-> NoBuild] \in [status : Statuses, build : Builds \cup {NoBuild}]
      BY DEF Statuses
    <3>2. QED
      BY <2>1, <3>1 DEF Init, InitService, ClientTypes
  <2>2. QED
    BY <2>1 DEF Init, ClientInv, TurnsInOrder, RepliesKept, PhaseInOrder
<1>2. ClientInv /\ [Next]_vars => ClientInv'
  BY ClientIsKept
<1>3. QED
  BY <1>1, <1>2, PTL DEF Spec

\* What phase 1 hands on is complete and in order, and of one build when the agent
\* is frozen, through every retry, timeout, lost response and restart.
THEOREM ReturnedRepliesAreComplete == Spec => []ReturnedIsComplete
<1>1. ClientInv => ReturnedIsComplete
  BY DEF ClientInv, PhaseInOrder, TurnsInOrder, RepliesKept, Kept, ReturnedIsComplete
<1>2. QED
  BY <1>1, ClientAlways, PTL

(***************************************************************************)
(* The cap on the table. The size check and the insertion are two steps of *)
(* a thread, so what bounds the table is how many threads there are: while *)
(* no client gives up, a thread at work serves a request a task is waiting *)
(* for, or was waiting for when it was cancelled.                          *)
(***************************************************************************)
SentIsAwaited ==
  \A r \in Requests : wire[r].status = "sent" =>
    request[r.probe] = r /\ task[r.probe] \in {"awaiting", "cancelled"}

ThreadsAreAwaited ==
  gaveUp = 0 => \A r \in Requests :
    \/ thread[r].pc = "none" /\ wire[r].status \in {"unsent", "sent"}
    \/ thread[r].pc = "ended"
    \/ wire[r].status = "sent"

TasksOfThePhase ==
  /\ gaveUp \in Nat
  /\ phase = "fanout" => \A p \in Probes : task[p] # "cancelled"
  /\ phase = "health" => \A p \in Probes : task[p] = "waiting"

\* The probes whose last request may still be served.
Out == {p \in Probes : request[p] \in Requests /\ task[p] \in {"awaiting", "cancelled"}}

OutIsBounded == IsFiniteSet(Out) /\ Cardinality(Out) <= Concurrency

AwaitedInv == SentIsAwaited /\ ThreadsAreAwaited /\ TasksOfThePhase /\ OutIsBounded

LEMMA NoReqIsNone == NoReq \notin Requests
BY DEF NoReq, Requests

\* Fewer requests out are no more.
LEMMA FewerOut ==
  ASSUME OutIsBounded, Out' \subseteq Out
  PROVE  OutIsBounded'
<1>1. IsFiniteSet(Out) /\ Cardinality(Out) \in Nat /\ Concurrency \in Nat
  BY FS_CardinalityType, PhaseAssumption DEF OutIsBounded
<1>2. IsFiniteSet(Out') /\ Cardinality(Out') <= Cardinality(Out) /\ Cardinality(Out') \in Nat
  BY <1>1, FS_Subset, FS_CardinalityType
<1>3. QED
  BY <1>1, <1>2 DEF OutIsBounded

\* What a step of a thread does to the threads and to the wire.
LEMMA HandleMoves ==
  ASSUME Owned, NEW r \in Requests, Handle(r)
  PROVE  /\ \A q \in Requests : q # r => thread'[q] = thread[q]
         /\ \/ /\ wire' = wire /\ thread'[r].pc \notin {"none", "ended"}
               /\ thread[r].pc # "ended"
               /\ thread[r].pc = "none" => wire[r].status # "unsent"
            \/ /\ thread'[r].pc = "ended"
               /\ \E status \in {"error", "reply"} :
                    wire' = IF wire[r].status = "sent"
                            THEN [wire EXCEPT ![r] = [status |-> status, build |-> build]]
                            ELSE wire
<1>1. thread[r] \in [pc : Places, list : Lists, prompt : Seq(MessagesOf(r.probe))] /\ DOMAIN thread = Requests
  BY DEF Owned, ThreadOf, Threads
<1>2. ASSUME NEW pc, Go(r, pc)
      PROVE  /\ thread'[r].pc = pc
             /\ \A q \in Requests : q # r => thread'[q] = thread[q]
  BY <1>1, <1>2 DEF Go
<1>3. ASSUME NEW status \in {"error", "reply"}, End(r, status)
      PROVE  /\ thread'[r].pc = "ended"
             /\ \A q \in Requests : q # r => thread'[q] = thread[q]
             /\ wire' = IF wire[r].status = "sent"
                        THEN [wire EXCEPT ![r] = [status |-> status, build |-> build]]
                        ELSE wire
  BY <1>1, <1>3 DEF End, Ended
<1>4. CASE Unready(r) \/ BackendFails(r) \/ AppendReply(r)
  BY <1>3, <1>4 DEF Unready, BackendFails, AppendReply
<1>5. CASE Lookup(r) \/ Room(r) \/ Insert(r) \/ AppendUser(r)
  BY <1>2, <1>5 DEF Lookup, Room, Insert, AppendUser, At
<1>6. CASE Touch(r) \/ Evict(r)
  BY <1>2, <1>3, <1>6 DEF Touch, Evict, At
<1>7. CASE Get(r)
  <2>1. CASE Known(SessionOf(r))
    BY <1>1, <1>7, <2>1 DEF Get, At
  <2>2. CASE ~Known(SessionOf(r))
    BY <1>3, <1>7, <2>2 DEF Get
  <2>3. QED
    BY <2>1, <2>2
<1>8. CASE Prompt(r)
  BY <1>1, <1>8 DEF Prompt, At
<1>9. QED
  BY <1>4, <1>5, <1>6, <1>7, <1>8 DEF Handle

LEMMA AwaitedKeptByService ==
  ASSUME Owned, ClientInv, AwaitedInv, Service \/ Restart, UNCHANGED phaseVars
  PROVE  AwaitedInv'
<1> USE DEF AwaitedInv
<1>1. TasksOfThePhase' /\ OutIsBounded'
  BY DEF TasksOfThePhase, OutIsBounded, Out, phaseVars
<1>2. CASE Restart
  <2>1. \A q \in Requests : /\ wire'[q].status # "sent"
                            /\ thread'[q].pc = "ended" \/ (thread'[q].pc = "none" /\ wire'[q].status = "unsent")
    BY <1>2 DEF Restart, Idle, Ended
  <2>2. QED
    BY <1>1, <2>1 DEF SentIsAwaited, ThreadsAreAwaited
<1>3. CASE Service
  <2>1. PICK r \in Requests : Handle(r)
    BY <1>3 DEF Service
  <2>2. \A q \in Requests : q # r => thread'[q] = thread[q] /\ wire'[q] = wire[q]
    BY <2>1, HandleMoves DEF ClientInv, ClientTypes
  <2>3. wire'[r].status = "sent" => wire' = wire
    BY <2>1, HandleMoves DEF ClientInv, ClientTypes
  <2>4. SentIsAwaited'
    BY <2>2, <2>3 DEF SentIsAwaited, phaseVars
  <2>5. ASSUME gaveUp' = 0
        PROVE  thread'[r].pc = "ended" \/ wire'[r].status = "sent"
    <3>1. \/ thread[r].pc = "none" /\ wire[r].status \in {"unsent", "sent"}
          \/ thread[r].pc = "ended"
          \/ wire[r].status = "sent"
      BY <2>5 DEF ThreadsAreAwaited, phaseVars
    <3>2. QED
      BY <2>1, <3>1, HandleMoves
  <2>6. ThreadsAreAwaited'
    BY <2>2, <2>5 DEF ThreadsAreAwaited, phaseVars
  <2>7. QED
    BY <1>1, <2>4, <2>6
<1>4. QED
  BY <1>2, <1>3

\* A message sent is the only one of its probe under way.
LEMMA AwaitedKeptBySending ==
  ASSUME Owned, ClientInv, AwaitedInv, NEW p \in Probes, NEW t \in 1..MaxTurns, NEW a \in 1..AgentAttempts,
         Send(p, t, a), request[p] \in Requests => wire[request[p]].status # "sent",
         task'[p] = "awaiting", \A q \in Probes : q # p => task'[q] = task[q],
         UNCHANGED <<thread, gaveUp>>
  PROVE  SentIsAwaited' /\ ThreadsAreAwaited'
<1> DEFINE r == [probe |-> p, turn |-> t, attempt |-> a]
<1>1. r \in Requests /\ r.probe = p
  BY RequestsAre
<1>2. request' = [request EXCEPT ![p] = r] /\ wire' = [wire EXCEPT ![r].status = "sent"]
  BY DEF Send
<1> HIDE DEF r
<1>3. /\ wire'[r].status = "sent" /\ request'[p] = r
      /\ \A q \in Requests : q # r => wire'[q] = wire[q]
      /\ \A q \in Probes : q # p => request'[q] = request[q]
  BY <1>1, <1>2 DEF ClientInv, ClientTypes
<1>4. \A q \in Requests : q.probe = p => wire[q].status # "sent"
  BY DEF AwaitedInv, SentIsAwaited
<1>5. SentIsAwaited'
  <2>1. SUFFICES ASSUME NEW q \in Requests, wire'[q].status = "sent"
                 PROVE  request'[q.probe] = q /\ task'[q.probe] \in {"awaiting", "cancelled"}
    BY DEF SentIsAwaited
  <2>2. q.probe \in Probes
    BY DEF Requests
  <2>3. CASE q = r
    BY <1>1, <1>3, <2>3
  <2>4. CASE q # r
    BY <1>3, <1>4, <2>1, <2>2, <2>4 DEF AwaitedInv, SentIsAwaited
  <2>5. QED
    BY <2>3, <2>4
<1>6. ThreadsAreAwaited'
  BY <1>3 DEF AwaitedInv, ThreadsAreAwaited
<1>7. QED
  BY <1>5, <1>6

\* The client's steps: a task that stops waiting either has its answer, or was
\* cancelled with the request under way, and then no task begins any more.
LEMMA AwaitedKeptByHarness ==
  ASSUME Owned, ClientInv, AwaitedInv, Harness
  PROVE  AwaitedInv'
<1> USE DEF ClientInv, AwaitedInv
<1>0. /\ task \in [Probes -> {"waiting", "awaiting", "done", "failed", "cancelled"}]
      /\ request \in [Probes -> Requests \cup {NoReq}]
      /\ wire \in [Requests -> [status : Statuses, build : Builds \cup {NoBuild}]]
      /\ \A p \in Probes : task[p] = "awaiting" =>
           request[p] \in Requests /\ request[p].probe = p /\ request[p].turn \in 1..MaxTurns
           /\ request[p].attempt \in 1..AgentAttempts /\ request[p].turn <= Turns[p]
           /\ Turns[p] \in 1..MaxTurns
  BY PhaseAssumption DEF ClientTypes, TurnsInOrder, Requests
<1>1. ASSUME NEW p \in Probes, Begin(p)
      PROVE  AwaitedInv'
  <2>1. /\ phase = "fanout" /\ phase' = phase /\ task[p] = "waiting"
        /\ task' = [task EXCEPT ![p] = "awaiting"] /\ Send(p, 1, 1)
        /\ UNCHANGED <<thread, gaveUp>> /\ Cardinality(Active) < Concurrency
    BY <1>1 DEF Begin
  <2>2. request[p] = NoReq /\ 1 \in 1..MaxTurns /\ 1 \in 1..AgentAttempts
    BY <2>1, ServiceAssumption DEF TurnsInOrder
  <2>3. SentIsAwaited' /\ ThreadsAreAwaited'
    <3>1. request[p] \notin Requests
      BY <2>2, NoReqIsNone
    <3>2. task'[p] = "awaiting" /\ \A q \in Probes : q # p => task'[q] = task[q]
      BY <1>0, <2>1
    <3>3. QED
      BY <2>1, <2>2, <3>1, <3>2, AwaitedKeptBySending
  <2>4. TasksOfThePhase'
    BY <1>0, <2>1 DEF TasksOfThePhase
  <2>5. OutIsBounded'
    <3>1. Out = Active
      BY <1>0, <2>1 DEF Out, Active, TasksOfThePhase
    <3>2. Out' = Out \cup {p}
      <4>1. [probe |-> p, turn |-> 1, attempt |-> 1] \in Requests
        BY <2>2, RequestsAre
      <4>2. request' = [request EXCEPT ![p] = [probe |-> p, turn |-> 1, attempt |-> 1]]
        BY <2>1 DEF Send
      <4>3. \A q \in Probes : q # p => task'[q] = task[q] /\ request'[q] = request[q]
        BY <1>0, <2>1, <4>2
      <4>4. task'[p] = "awaiting" /\ request'[p] \in Requests
        BY <1>0, <2>1, <4>1, <4>2
      <4>5. QED
        BY <4>3, <4>4 DEF Out
    <3>3. IsFiniteSet(Out) /\ Cardinality(Out) < Concurrency /\ Concurrency \in Nat
      BY <2>1, <3>1, PhaseAssumption DEF OutIsBounded
    <3>4. /\ IsFiniteSet(Out \cup {p}) /\ Cardinality(Out) \in Nat
          /\ Cardinality(Out \cup {p}) <= Cardinality(Out) + 1
          /\ Cardinality(Out \cup {p}) \in Nat
      <4>1. /\ IsFiniteSet(Out \cup {p}) /\ Cardinality(Out) \in Nat
            /\ Cardinality(Out \cup {p}) = IF p \in Out THEN Cardinality(Out) ELSE Cardinality(Out) + 1
        BY <3>3, FS_AddElement, FS_CardinalityType
      <4>2. QED
        BY <4>1
    <3>5. QED
      BY <3>2, <3>3, <3>4 DEF OutIsBounded
  <2>6. QED
    BY <2>3, <2>4, <2>5
<1>2. ASSUME NEW p \in Probes, Retry(p)
      PROVE  AwaitedInv'
  <2>1. /\ task[p] = "awaiting" /\ wire[request[p]].status = "error" /\ phase' = phase
        /\ request[p].attempt < AgentAttempts
        /\ Send(p, request[p].turn, request[p].attempt + 1)
        /\ UNCHANGED <<thread, gaveUp, task>>
    BY <1>2 DEF Retry, Awaiting
  <2>2. request[p].attempt + 1 \in 1..AgentAttempts /\ request[p].turn \in 1..MaxTurns
    <3>1. AgentAttempts \in Nat
      BY ServiceAssumption
    <3>2. QED
      BY <1>0, <2>1, <3>1
  <2>3. SentIsAwaited' /\ ThreadsAreAwaited'
    BY <2>1, <2>2, AwaitedKeptBySending
  <2>4. Out' \subseteq Out
    <3>1. \A q \in Probes : q # p => request'[q] = request[q]
      BY <1>0, <2>1 DEF Send
    <3>2. QED
      BY <1>0, <2>1, <3>1 DEF Out
  <2>5. QED
    BY <2>1, <2>3, <2>4, FewerOut DEF TasksOfThePhase
<1>3. ASSUME NEW p \in Probes, KeepReply(p)
      PROVE  AwaitedInv'
  <2>1. /\ task[p] = "awaiting" /\ wire[request[p]].status = "reply" /\ phase' = phase
        /\ UNCHANGED <<thread, gaveUp>>
    BY <1>3 DEF KeepReply, Awaiting
  <2>2. CASE request[p].turn = Turns[p]
    <3>1. task' = [task EXCEPT ![p] = "done"] /\ UNCHANGED <<request, wire>>
      BY <1>3, <2>2 DEF KeepReply
    <3>2. \A q \in Requests : wire[q].status = "sent" => q.probe # p
      BY <2>1 DEF SentIsAwaited
    <3>3. SentIsAwaited' /\ ThreadsAreAwaited' /\ TasksOfThePhase'
      BY <1>0, <2>1, <3>1, <3>2 DEF SentIsAwaited, ThreadsAreAwaited, TasksOfThePhase, Requests
    <3>4. Out' \subseteq Out
      BY <1>0, <3>1 DEF Out
    <3>5. QED
      BY <3>3, <3>4, FewerOut
  <2>3. CASE request[p].turn # Turns[p]
    <3>1. task' = task /\ Send(p, request[p].turn + 1, 1)
      BY <1>3, <2>3 DEF KeepReply
    <3>2. request[p].turn + 1 \in 1..MaxTurns /\ 1 \in 1..AgentAttempts
      <4>1. MaxTurns \in Nat /\ AgentAttempts \in Nat \ {0}
        BY ServiceAssumption
      <4>2. PICK x \in 1..MaxTurns, y \in 1..MaxTurns :
              x = request[p].turn /\ y = Turns[p] /\ x <= y /\ x # y
        BY <1>0, <2>1, <2>3
      <4>3. QED
        BY <4>1, <4>2
    <3>3. SentIsAwaited' /\ ThreadsAreAwaited'
      BY <2>1, <3>1, <3>2, AwaitedKeptBySending
    <3>4. Out' \subseteq Out
      <4>1. \A q \in Probes : q # p => request'[q] = request[q]
        BY <1>0, <3>1 DEF Send
      <4>2. QED
        BY <1>0, <2>1, <3>1, <4>1 DEF Out
    <3>5. QED
      BY <2>1, <3>1, <3>3, <3>4, FewerOut DEF TasksOfThePhase
  <2>4. QED
    BY <2>2, <2>3
<1>4. ASSUME NEW p \in Probes, Mismatch(p) \/ Unavailable(p)
      PROVE  AwaitedInv'
  <2>1. /\ task[p] = "awaiting" /\ wire[request[p]].status \in {"reply", "error"}
        /\ task' = [task EXCEPT ![p] = "failed"] /\ phase' = "cancelling"
        /\ UNCHANGED <<autVars, request, gaveUp>>
    BY <1>4 DEF Mismatch, Unavailable, Awaiting, Fail
  <2>2. \A q \in Requests : wire[q].status = "sent" => q.probe # p
    BY <2>1 DEF SentIsAwaited
  <2>3. SentIsAwaited' /\ ThreadsAreAwaited' /\ TasksOfThePhase'
    BY <1>0, <2>1, <2>2 DEF SentIsAwaited, ThreadsAreAwaited, TasksOfThePhase, Requests, autVars
  <2>4. Out' \subseteq Out
    BY <1>0, <2>1 DEF Out
  <2>5. QED
    BY <2>3, <2>4, FewerOut
<1>5. ASSUME NEW p \in Probes, Cancel(p)
      PROVE  AwaitedInv'
  <2>1. /\ task[p] \in {"waiting", "awaiting"} /\ phase = "cancelling" /\ phase' = phase
        /\ task' = [task EXCEPT ![p] = "cancelled"]
        /\ UNCHANGED <<autVars, request, gaveUp>>
    BY <1>5 DEF Cancel
  <2>2. SentIsAwaited' /\ ThreadsAreAwaited' /\ TasksOfThePhase'
    BY <1>0, <2>1 DEF SentIsAwaited, ThreadsAreAwaited, TasksOfThePhase, autVars
  <2>3. Out' \subseteq Out
    <3>1. task[p] = "waiting" => request[p] \notin Requests
      BY NoReqIsNone DEF TurnsInOrder
    <3>2. QED
      BY <1>0, <2>1, <3>1 DEF Out
  <2>4. QED
    BY <2>2, <2>3, FewerOut
<1>6. ASSUME NEW p \in Probes, GiveUp(p)
      PROVE  AwaitedInv'
  <2>1. /\ task[p] = "awaiting" /\ wire' = [wire EXCEPT ![request[p]].status = "error"]
        /\ gaveUp' = gaveUp + 1 /\ UNCHANGED <<thread, phase, task, request>>
    BY <1>6 DEF GiveUp, Awaiting
  <2>2. gaveUp \in Nat
    BY DEF TasksOfThePhase
  <2>3. SentIsAwaited'
    BY <1>0, <2>1 DEF SentIsAwaited
  <2>4. ThreadsAreAwaited' /\ TasksOfThePhase' /\ OutIsBounded'
    BY <2>1, <2>2 DEF ThreadsAreAwaited, TasksOfThePhase, OutIsBounded, Out
  <2>5. QED
    BY <2>3, <2>4
<1>7. CASE Health \/ HealthFails \/ Raise \/ Return
  <2>1. UNCHANGED <<autVars, task, request, gaveUp>>
    BY <1>7 DEF Health, HealthFails, Raise, Return
  <2>2. TasksOfThePhase'
    BY <1>7, <2>1 DEF Health, HealthFails, Raise, Return, TasksOfThePhase
  <2>3. SentIsAwaited' /\ ThreadsAreAwaited' /\ OutIsBounded'
    BY <2>1 DEF SentIsAwaited, ThreadsAreAwaited, OutIsBounded, Out, autVars
  <2>4. QED
    BY <2>2, <2>3
<1>8. QED
  BY <1>1, <1>2, <1>3, <1>4, <1>5, <1>6, <1>7 DEF Harness

\* The threads that have found room and not yet inserted their session.
Inserting == {r \in Requests : thread[r].pc = "insert"}

\* They serve requests that are out, one of each probe.
InsertersAreFew ==
  Owned /\ ClientInv /\ AwaitedInv /\ gaveUp = 0 =>
    IsFiniteSet(Inserting) /\ Cardinality(Inserting) \in Nat /\ Cardinality(Inserting) <= Concurrency

LEMMA InsertersAreOut == InsertersAreFew
<1> SUFFICES ASSUME Owned, ClientInv, AwaitedInv, gaveUp = 0
             PROVE  /\ IsFiniteSet(Inserting) /\ Cardinality(Inserting) \in Nat
                    /\ Cardinality(Inserting) <= Concurrency
  BY DEF InsertersAreFew
<1> DEFINE probeOf == [r \in Inserting |-> r.probe]
<1>1. \A r \in Inserting : /\ r \in Requests /\ wire[r].status = "sent"
                           /\ r.probe \in Out /\ request[r.probe] = r
  <2>1. \A r \in Inserting : r \in Requests /\ wire[r].status = "sent"
    BY DEF Inserting, AwaitedInv, ThreadsAreAwaited
  <2>2. QED
    BY <2>1 DEF AwaitedInv, SentIsAwaited, Out, Requests
<1>2. probeOf \in Injection(Inserting, Out)
  <2>1. probeOf \in [Inserting -> Out]
    BY <1>1
  <2>2. \A q, r \in Inserting : probeOf[q] = probeOf[r] => q = r
    BY <1>1
  <2> HIDE DEF probeOf
  <2>3. QED
    BY <2>1, <2>2 DEF Injection, IsInjective
<1>3. IsFiniteSet(Out) /\ Cardinality(Out) <= Concurrency /\ Cardinality(Out) \in Nat
  BY FS_CardinalityType DEF AwaitedInv, OutIsBounded
<1>4. IsFiniteSet(Inserting) /\ Cardinality(Inserting) <= Cardinality(Out)
  <2> HIDE DEF probeOf
  <2>1. QED
    BY <1>2, <1>3, FS_Injection
<1>5. Cardinality(Inserting) \in Nat
  BY <1>4, FS_CardinalityType
<1>6. QED
  BY <1>3, <1>4, <1>5, PhaseAssumption

TableBound == MaxSessions + Concurrency - 1

TableInv == gaveUp = 0 => Len(sessions) + Cardinality(Inserting) <= TableBound

\* What a step of a thread does to the size of the table.
LEMMA TableMoves ==
  ASSUME Owned, NEW r \in Requests, Handle(r)
  PROVE  \/ /\ sessions' = sessions /\ Len(sessions) < MaxSessions
         \/ /\ thread[r].pc = "insert" /\ thread'[r].pc # "insert"
            /\ Len(sessions') <= Len(sessions) + 1
         \/ /\ thread[r].pc # "insert" /\ thread'[r].pc # "insert"
            /\ Len(sessions') <= Len(sessions)
<1>0. /\ sessions \in Seq(Entries) /\ Len(sessions) \in Nat
      /\ thread[r] \in [pc : Places, list : Lists, prompt : Seq(MessagesOf(r.probe))]
      /\ DOMAIN thread = Requests
  BY DEF Owned, ThreadOf, Threads
<1>1. ASSUME NEW pc, Go(r, pc)
      PROVE  thread'[r].pc = pc
  BY <1>0, <1>1 DEF Go
<1>2. ASSUME NEW status, End(r, status)
      PROVE  thread'[r].pc = "ended"
  BY <1>0, <1>2 DEF End, Ended
<1>3. CASE Unready(r) \/ BackendFails(r) \/ AppendReply(r)
  BY <1>0, <1>2, <1>3 DEF Unready, BackendFails, AppendReply, At
<1>4. CASE Lookup(r) \/ AppendUser(r)
  BY <1>0, <1>1, <1>4 DEF Lookup, AppendUser, At
<1>5. CASE Room(r)
  <2>1. sessions' = sessions /\ thread[r].pc = "room"
    BY <1>5 DEF Room, At
  <2>2. CASE Len(sessions) >= MaxSessions
    BY <1>0, <1>1, <1>5, <2>1, <2>2 DEF Room
  <2>3. CASE ~(Len(sessions) >= MaxSessions)
    BY <1>0, <2>1, <2>3, ServiceAssumption
  <2>4. QED
    BY <2>2, <2>3
<1>6. CASE Insert(r)
  <2>1. thread[r].pc = "insert" /\ thread'[r].pc = "get"
    BY <1>1, <1>6 DEF Insert, At
  <2> DEFINE e == [id |-> SessionOf(r), list |-> r]
             s == sessions
  <2>2. CASE sessions' = Append(s, e)
    <3> HIDE DEF e
    <3>1. QED
      BY <1>0, <2>1, <2>2
  <2>3. CASE sessions' = [i \in DOMAIN s |-> IF i \in Index(SessionOf(r)) THEN e ELSE s[i]]
    <3>1. DOMAIN sessions' = 1..Len(s)
      BY <1>0, <2>3
    <3>2. Len(sessions') = Len(s)
      BY <1>0, <3>1
    <3>3. QED
      BY <1>0, <2>1, <3>2
  <2>4. QED
    BY <1>6, <2>2, <2>3 DEF Insert
<1>7. CASE Get(r)
  <2>1. sessions' = sessions /\ thread[r].pc = "get"
    BY <1>7 DEF Get, At
  <2>2. thread'[r].pc # "insert"
    BY <1>0, <1>2, <1>7 DEF Get
  <2>3. QED
    BY <1>0, <2>1, <2>2
<1>8. CASE Prompt(r)
  <2>1. sessions' = sessions /\ thread[r].pc = "search" /\ thread'[r].pc = "generate"
    BY <1>0, <1>8 DEF Prompt, At
  <2>2. QED
    BY <1>0, <2>1
<1>9. CASE Touch(r)
  <2>1. thread[r].pc = "touch" /\ thread'[r].pc # "insert"
    BY <1>1, <1>2, <1>9 DEF Touch, At
  <2>2. CASE sessions' = sessions
    BY <1>0, <2>1, <2>2
  <2>3. ASSUME NEW i \in Index(SessionOf(r)), sessions' = Append(RemoveAt(sessions, i), sessions[i])
        PROVE  Len(sessions') <= Len(sessions)
    <3>1. i \in 1..Len(sessions)
      BY <1>0 DEF Index
    <3>2. SubSeq(sessions, 1, i - 1) \in Seq(Entries) /\ SubSeq(sessions, i + 1, Len(sessions)) \in Seq(Entries)
      BY <1>0, <3>1
    <3>3. Len(SubSeq(sessions, 1, i - 1)) = i - 1 /\ Len(SubSeq(sessions, i + 1, Len(sessions))) = Len(sessions) - i
      BY <1>0, <3>1
    <3>4. RemoveAt(sessions, i) \in Seq(Entries) /\ Len(RemoveAt(sessions, i)) = Len(sessions) - 1
      <4>1. PICK u \in Seq(Entries), v \in Seq(Entries) :
              /\ u = SubSeq(sessions, 1, i - 1) /\ v = SubSeq(sessions, i + 1, Len(sessions))
              /\ Len(u) = i - 1 /\ Len(v) = Len(sessions) - i
        BY <3>2, <3>3
      <4>2. RemoveAt(sessions, i) = u \o v
        BY <4>1 DEF RemoveAt
      <4>3. u \o v \in Seq(Entries) /\ Len(u \o v) = Len(u) + Len(v)
        BY <4>1
      <4>4. (i - 1) + (Len(sessions) - i) = Len(sessions) - 1
        BY <1>0, <3>1
      <4>5. Len(u) + Len(v) = Len(sessions) - 1
        BY <4>1, <4>4
      <4> HIDE DEF RemoveAt
      <4>6. QED
        BY <4>2, <4>3, <4>5
    <3>5. QED
      BY <1>0, <2>3, <3>4
  <2>4. QED
    BY <1>9, <2>1, <2>2, <2>3 DEF Touch
<1>10. CASE Evict(r)
  <2>1. thread[r].pc = "evict" /\ thread'[r].pc # "insert"
    BY <1>1, <1>2, <1>10 DEF Evict, At
  <2>2. CASE sessions = <<>>
    BY <1>0, <1>10, <2>1, <2>2 DEF Evict
  <2>3. CASE sessions # <<>>
    BY <1>0, <1>10, <2>1, <2>3 DEF Evict
  <2>4. QED
    BY <2>2, <2>3
<1>11. QED
  BY <1>3, <1>4, <1>5, <1>6, <1>7, <1>8, <1>9, <1>10 DEF Handle

\* A step keeps the table within its bound: a thread that has found room leaves
\* one place for each of the others.
LEMMA TableIsKept ==
  ASSUME Owned, Owned', ClientInv, ClientInv', AwaitedInv, AwaitedInv', TableInv, [Next]_vars
  PROVE  TableInv'
<1>0. /\ Len(sessions) \in Nat /\ Len(sessions') \in Nat
      /\ MaxSessions \in Nat \ {0} /\ Concurrency \in Nat \ {0}
  BY ServiceAssumption, PhaseAssumption DEF Owned
<1>1. SUFFICES ASSUME gaveUp' = 0
               PROVE  Len(sessions') + Cardinality(Inserting') <= TableBound
  BY DEF TableInv
<1>2. gaveUp = 0
  <2>1. gaveUp \in Nat
    BY DEF AwaitedInv, TasksOfThePhase
  <2>2. gaveUp' = gaveUp \/ gaveUp' = gaveUp + 1
    BY DEF Next, Harness, Health, HealthFails, Raise, Return, Begin, Mismatch, KeepReply, Retry,
           Unavailable, GiveUp, Cancel, Fail, Service, phaseVars, vars
  <2>3. QED
    BY <1>1, <2>1, <2>2
<1>3. /\ IsFiniteSet(Inserting) /\ Cardinality(Inserting) \in Nat
      /\ Len(sessions) + Cardinality(Inserting) <= TableBound
  BY <1>2, InsertersAreOut DEF InsertersAreFew, TableInv
<1>4. Cardinality(Inserting') \in Nat /\ Cardinality(Inserting') <= Concurrency
  <2>1. InsertersAreFew'
    BY InsertersAreOut, PTL
  <2>2. QED
    BY <1>1, <2>1 DEF InsertersAreFew
<1>5. CASE UNCHANGED <<sessions, thread>>
  BY <1>3, <1>5 DEF Inserting
<1>6. CASE Harness
  BY <1>5, <1>6 DEF Harness, Health, HealthFails, Raise, Return, Begin, Mismatch, KeepReply, Retry,
         Unavailable, GiveUp, Cancel, Fail, autVars
<1>7. CASE Restart
  <2>1. sessions' = <<>> /\ \A q \in Requests : thread'[q].pc # "insert"
    BY <1>7 DEF Restart, Idle, Ended
  <2>2. Inserting' = {} /\ Len(sessions') = 0
    BY <2>1 DEF Inserting
  <2>3. Cardinality(Inserting') = 0
    BY <2>2, FS_EmptySet
  <2>4. QED
    BY <1>0, <2>2, <2>3 DEF TableBound
<1>8. CASE Service
  <2>1. PICK r \in Requests : Handle(r)
    BY <1>8 DEF Service
  <2>2. \A q \in Requests : q # r => thread'[q] = thread[q]
    BY <2>1, HandleMoves
  <2>3. CASE Len(sessions') = Len(sessions) /\ Len(sessions) < MaxSessions
    BY <1>0, <1>4, <2>3 DEF TableBound
  <2>4. CASE /\ thread[r].pc = "insert" /\ thread'[r].pc # "insert"
             /\ Len(sessions') <= Len(sessions) + 1
    <3>1. Inserting' = Inserting \ {r} /\ r \in Inserting
      BY <2>2, <2>4 DEF Inserting
    <3>2. Cardinality(Inserting') = Cardinality(Inserting) - 1
      BY <1>3, <3>1, FS_RemoveElement
    <3>3. QED
      BY <1>0, <1>3, <2>4, <3>2, ServiceAssumption DEF TableBound
  <2>5. CASE /\ thread[r].pc # "insert" /\ thread'[r].pc # "insert"
             /\ Len(sessions') <= Len(sessions)
    <3>1. Inserting' = Inserting
      BY <2>2, <2>5 DEF Inserting
    <3>2. QED
      BY <1>0, <1>3, <2>5, <3>1 DEF TableBound
  <2>6. QED
    BY <2>1, <2>3, <2>4, <2>5, TableMoves
<1>9. QED
  BY <1>5, <1>6, <1>7, <1>8 DEF Next, vars, autVars

\* A thread at work serves a request its probe waits for, and few are out.
LEMMA AwaitedAlways == Spec => []AwaitedInv
<1>1. Init => AwaitedInv
  <2>1. ASSUME Init
        PROVE  AwaitedInv
    <3>1. /\ \A r \in Requests : wire[r].status = "unsent" /\ thread[r].pc = "none"
          /\ \A p \in Probes : task[p] = "waiting"
          /\ phase = "health" /\ gaveUp = 0
      BY <2>1 DEF Init, InitService, Idle
    <3>2. Out = {}
      BY <3>1 DEF Out
    <3>3. OutIsBounded
      BY <3>2, FS_EmptySet, PhaseAssumption DEF OutIsBounded
    <3>4. QED
      BY <3>1, <3>3 DEF AwaitedInv, SentIsAwaited, ThreadsAreAwaited, TasksOfThePhase
  <2>2. QED
    BY <2>1
<1>2. Owned /\ ClientInv /\ AwaitedInv /\ [Next]_vars => AwaitedInv'
  <2>1. ASSUME AwaitedInv, UNCHANGED vars
        PROVE  AwaitedInv'
    BY <2>1 DEF AwaitedInv, SentIsAwaited, ThreadsAreAwaited, TasksOfThePhase, OutIsBounded, Out,
                vars, autVars, phaseVars
  <2>2. QED
    BY <2>1, AwaitedKeptByHarness, AwaitedKeptByService DEF Next, Service
<1>3. QED
  BY <1>1, <1>2, ClientAlways, ListsAreOwned, PTL DEF Spec

\* The table of an agent does not pass its cap by more than the requests a client
\* has at work at a time less one, in spite of the check and the insertion being
\* two steps, if it did not when the client came.
THEOREM SessionsStayBounded ==
  ASSUME Len(OldSessions) <= TableBound
  PROVE  Spec => []SessionsBounded
<1>1. Init => TableInv
  <2>1. ASSUME Init
        PROVE  TableInv
    <3>1. /\ \A r \in Requests : thread[r].pc = "none"
          /\ sessions = [i \in DOMAIN OldSessions |-> [id |-> OldSessions[i], list |-> NoReq]]
      BY <2>1 DEF Init, InitService, Idle
    <3>2. Inserting = {}
      BY <3>1 DEF Inserting
    <3>3. Cardinality(Inserting) = 0
      BY <3>2, FS_EmptySet
    <3>4. Len(sessions) = Len(OldSessions)
      <4>1. OldSessions \in Seq(Range(OldSessions))
        BY ServiceAssumption
      <4>2. DOMAIN sessions = 1..Len(OldSessions) /\ Len(OldSessions) \in Nat
        BY <3>1, <4>1
      <4>3. QED
        BY <4>2
    <3>5. Len(OldSessions) \in Nat
      BY ServiceAssumption
    <3>6. QED
      BY <3>3, <3>4, <3>5 DEF TableInv
  <2>2. QED
    BY <2>1
<1>2. TableInv /\ Owned /\ ClientInv /\ AwaitedInv => SessionsBounded
  <2>1. ASSUME TableInv, Owned, ClientInv, AwaitedInv, gaveUp = 0
        PROVE  Len(sessions) <= MaxSessions + Concurrency - 1
    <3>1. Cardinality(Inserting) \in Nat /\ Len(sessions) \in Nat
      BY <2>1, InsertersAreOut DEF InsertersAreFew, Owned
    <3>2. QED
      BY <2>1, <3>1, ServiceAssumption, PhaseAssumption DEF TableInv, TableBound
  <2>2. QED
    BY <2>1 DEF SessionsBounded
<1>3. Owned /\ ClientInv /\ AwaitedInv /\ [Next]_vars /\ TableInv /\ (Owned /\ ClientInv /\ AwaitedInv)' => TableInv'
  BY TableIsKept
<1>4. QED
  BY <1>1, <1>2, <1>3, ClientAlways, AwaitedAlways, ListsAreOwned, PTL DEF Spec

(***************************************************************************)
(* The history of a conversation. While nobody gives up and nothing        *)
(* restarts, a probe has one thread at work, so its session is inserted    *)
(* once; the sessions of earlier clients are evicted before those of the   *)
(* run, and there are enough of them for the threads that evict.           *)
(***************************************************************************)
\* The first k sessions are of earlier clients, the others of the run's probes.
Shape(s, k) ==
  /\ k \in 0..Len(s)
  /\ \A i \in 1..Len(s) : (s[i].id \in Probes) <=> (i > k)

OneEach(s) == \A i, j \in 1..Len(s) : s[i].id \in Probes /\ s[i].id = s[j].id => i = j

HoldsIn(s, p, l) == \E i \in 1..Len(s) : s[i].id = p /\ s[i].list = l

Absent(s, p) == \A i \in 1..Len(s) : s[i].id # p

\* Two tables agree on a probe's session.
SameFor(s, t, p) ==
  /\ Absent(s, p) <=> Absent(t, p)
  /\ \A l : HoldsIn(s, p, l) <=> HoldsIn(t, p, l)

\* The entry at i has moved to the end.
MovedLast(s, i, t) ==
  /\ Len(t) = Len(s) /\ t[Len(s)] = s[i]
  /\ \A j \in 1..(Len(s) - 1) : t[j] = IF j < i THEN s[j] ELSE s[j + 1]

LEMMA MovedToTheEnd ==
  ASSUME NEW S, NEW s \in Seq(S), NEW i \in 1..Len(s), NEW t, t = Append(RemoveAt(s, i), s[i])
  PROVE  MovedLast(s, i, t)
<1>1. Len(s) \in Nat /\ i \in Nat
  OBVIOUS
<1> DEFINE a == SubSeq(s, 1, i - 1)
           b == SubSeq(s, i + 1, Len(s))
<1>2. /\ a \in Seq(S) /\ Len(a) = i - 1 /\ \A j \in 1..(i - 1) : a[j] = s[j]
  BY <1>1
<1>3. /\ b \in Seq(S) /\ Len(b) = Len(s) - i /\ \A j \in 1..(Len(s) - i) : b[j] = s[j + i]
  BY <1>1
<1>4. t = Append(a \o b, s[i])
  BY DEF RemoveAt
<1> HIDE DEF a, b
<1>5. /\ a \o b \in Seq(S) /\ Len(a \o b) = Len(s) - 1
      /\ \A j \in 1..(Len(s) - 1) : (a \o b)[j] = IF j <= Len(a) THEN a[j] ELSE b[j - Len(a)]
  <2>1. /\ a \o b \in Seq(S) /\ Len(a \o b) = Len(a) + Len(b)
        /\ \A j \in 1..(Len(a) + Len(b)) : (a \o b)[j] = IF j <= Len(a) THEN a[j] ELSE b[j - Len(a)]
    <3>1. a \in Seq(S) /\ b \in Seq(S)
      BY <1>2, <1>3
    <3>2. a \o b \in Seq(S)
      BY <3>1
    <3>3. Len(a \o b) = Len(a) + Len(b)
      BY <3>1
    <3>4. \A j \in 1..(Len(a) + Len(b)) : (a \o b)[j] = IF j <= Len(a) THEN a[j] ELSE b[j - Len(a)]
      BY <3>1
    <3> QED
      BY <3>2, <3>3, <3>4
  <2>2. Len(a) + Len(b) = Len(s) - 1
    BY <1>1, <1>2, <1>3
  <2> QED
    BY <2>1, <2>2
<1>6. \A j \in 1..(Len(s) - 1) : (a \o b)[j] = IF j < i THEN s[j] ELSE s[j + 1]
  <2> TAKE j \in 1..(Len(s) - 1)
  <2>1. CASE j < i
    BY <1>1, <1>2, <1>5, <2>1
  <2>2. CASE ~(j < i)
    <3>1. (a \o b)[j] = b[j - (i - 1)] /\ j - (i - 1) \in 1..(Len(s) - i)
      BY <1>1, <1>2, <1>5, <2>2
    <3>2. b[j - (i - 1)] = s[(j - (i - 1)) + i]
      BY <1>3, <3>1
    <3>3. (j - (i - 1)) + i = j + 1
      BY <1>1
    <3> QED
      BY <2>2, <3>1, <3>2, <3>3
  <2> QED
    BY <2>1, <2>2
<1>7. s[i] \in S
  BY <1>1
<1> DEFINE c == a \o b
<1>8. c \in Seq(S) /\ Len(c) = Len(s) - 1 /\ t = Append(c, s[i])
  BY <1>4, <1>5
<1>9. \A j \in 1..(Len(s) - 1) : c[j] = IF j < i THEN s[j] ELSE s[j + 1]
  BY <1>6
<1> HIDE DEF c
<1>10. t \in Seq(S) /\ Len(t) = Len(s) /\ t[Len(s)] = s[i] /\ \A j \in 1..(Len(s) - 1) : t[j] = c[j]
  BY <1>1, <1>7, <1>8
<1> QED
  BY <1>9, <1>10 DEF MovedLast

Within(t, s) == \A j \in 1..Len(t) : \E i \in 1..Len(s) : t[j] = s[i]

\* Tables with the same entries agree on every session.
LEMMA SameEntries ==
  ASSUME NEW s, NEW t, Within(s, t), Within(t, s)
  PROVE  \A p : SameFor(s, t, p)
<1> SUFFICES ASSUME NEW p
             PROVE  SameFor(s, t, p)
  OBVIOUS
<1>1. Absent(s, p) <=> Absent(t, p)
  BY DEF Absent, Within
<1>2. \A l : HoldsIn(s, p, l) <=> HoldsIn(t, p, l)
  BY DEF HoldsIn, Within
<1> QED
  BY <1>1, <1>2 DEF SameFor

\* The table keeps its order of clients and its sessions when one of a probe is touched,
LEMMA TouchedTable ==
  ASSUME NEW S, NEW s \in Seq(S), NEW k, Shape(s, k), OneEach(s),
         NEW i \in 1..Len(s), s[i].id \in Probes, NEW t, t = Append(RemoveAt(s, i), s[i])
  PROVE  Shape(t, k) /\ OneEach(t) /\ \A p : SameFor(s, t, p)
<1>0. Len(s) \in Nat /\ i \in Nat /\ k \in Nat /\ i > k
  BY DEF Shape
<1> DEFINE n == Len(s)
           of(j) == IF j = n THEN i ELSE IF j < i THEN j ELSE j + 1
           to(j) == IF j = i THEN n ELSE IF j < i THEN j ELSE j - 1
<1>1. Len(t) = n /\ \A j \in 1..n : of(j) \in 1..n /\ t[j] = s[of(j)]
  <2>1. MovedLast(s, i, t)
    BY MovedToTheEnd
  <2> QED
    BY <1>0, <2>1 DEF MovedLast
<1>2. \A j \in 1..n : to(j) \in 1..n /\ of(to(j)) = j
  BY <1>0
<1>3. \A j, m \in 1..n : of(j) = of(m) => j = m
  BY <1>0
<1>4. \A j \in 1..n : of(j) > k <=> j > k
  BY <1>0
<1>5. \A j \in 1..n : to(j) \in 1..n /\ t[to(j)] = s[j]
  BY <1>1, <1>2
<1> HIDE DEF of, to
<1>6. Shape(t, k)
  BY <1>1, <1>4 DEF Shape
<1>7. OneEach(t)
  <2> SUFFICES ASSUME NEW j \in 1..n, NEW m \in 1..n, t[j].id \in Probes, t[j].id = t[m].id
               PROVE  j = m
    BY <1>1 DEF OneEach
  <2>1. of(j) \in 1..n /\ of(m) \in 1..n /\ t[j] = s[of(j)] /\ t[m] = s[of(m)]
    BY <1>1
  <2>2. of(j) = of(m)
    BY <2>1 DEF OneEach
  <2> QED
    BY <1>3, <2>2
<1>8. \A p : SameFor(s, t, p)
  <2>1. Within(t, s)
    BY <1>1 DEF Within
  <2>2. Within(s, t)
    BY <1>1, <1>5 DEF Within
  <2> QED
    BY <2>1, <2>2, SameEntries
<1> QED
  BY <1>6, <1>7, <1>8

\* when the oldest is evicted and is not of a probe,
LEMMA EvictedTable ==
  ASSUME NEW S, NEW s \in Seq(S), NEW k, Shape(s, k), k > 0, OneEach(s)
  PROVE  /\ s # <<>> /\ Shape(Tail(s), k - 1) /\ OneEach(Tail(s))
         /\ \A p \in Probes : SameFor(s, Tail(s), p)
<1>0. Len(s) \in Nat /\ k \in 1..Len(s) /\ s # <<>>
  BY DEF Shape
<1> DEFINE t == Tail(s)
<1>1. Len(t) = Len(s) - 1 /\ \A j \in 1..(Len(s) - 1) : t[j] = s[j + 1]
  BY <1>0
<1> HIDE DEF t
<1>2. \A j \in 1..Len(t) : j + 1 \in 1..Len(s) /\ t[j] = s[j + 1]
  BY <1>0, <1>1
<1>3. \A j \in 1..Len(s) : j # 1 => j - 1 \in 1..Len(t) /\ t[j - 1] = s[j]
  BY <1>0, <1>1
<1>4. s[1].id \notin Probes
  BY <1>0 DEF Shape
<1>5. Shape(t, k - 1)
  BY <1>0, <1>1, <1>2 DEF Shape
<1>6. OneEach(t)
  BY <1>0, <1>1, <1>2 DEF OneEach
<1>7. \A p \in Probes : SameFor(s, t, p)
  <2> TAKE p \in Probes
  <2>1. \A j \in 1..Len(s) : s[j].id = p => \E m \in 1..Len(t) : t[m] = s[j]
    BY <1>3, <1>4
  <2>2. \A j \in 1..Len(t) : \E m \in 1..Len(s) : t[j] = s[m]
    BY <1>2
  <2> QED
    BY <2>1, <2>2 DEF SameFor, Absent, HoldsIn
<1> QED
  BY <1>0, <1>5, <1>6, <1>7 DEF t

\* and when a probe's first session is added.
LEMMA ExtendedTable ==
  ASSUME NEW S, NEW s \in Seq(S), NEW k, Shape(s, k), OneEach(s),
         NEW e \in S, e.id \in Probes, Absent(s, e.id), NEW t, t = Append(s, e)
  PROVE  /\ Shape(t, k) /\ OneEach(t) /\ \A p : p # e.id => SameFor(s, t, p)
         /\ ~Absent(t, e.id) /\ \A l : HoldsIn(t, e.id, l) <=> l = e.list
<1>0. /\ Len(s) \in Nat /\ k \in 0..Len(s) /\ Len(t) = Len(s) + 1 /\ t[Len(s) + 1] = e
      /\ \A j \in 1..Len(s) : t[j] = s[j]
  BY DEF Shape
<1>1. \A j \in 1..Len(t) : (j \in 1..Len(s) /\ t[j] = s[j]) \/ (j = Len(s) + 1 /\ t[j] = e)
  BY <1>0
<1>2. \A j \in 1..Len(s) : j \in 1..Len(t) /\ t[j] = s[j]
  BY <1>0
<1>3. Len(s) + 1 \in 1..Len(t)
  BY <1>0
<1>4. Shape(t, k)
  BY <1>0, <1>1 DEF Shape
<1>5. OneEach(t)
  BY <1>0, <1>1 DEF OneEach, Absent
<1>6. \A p : p # e.id => SameFor(s, t, p)
  BY <1>1, <1>2 DEF SameFor, Absent, HoldsIn
<1>7. ~Absent(t, e.id) /\ \A l : HoldsIn(t, e.id, l) <=> l = e.list
  BY <1>0, <1>1, <1>3 DEF Absent, HoldsIn
<1> QED
  BY <1>4, <1>5, <1>6, <1>7

(***************************************************************************)
(* What a list remembers.                                                  *)
(***************************************************************************)
\* m is the last n entries of s.
AreLast(m, s, n) ==
  /\ Len(s) <= n => m = s
  /\ Len(s) > n => Len(m) = n /\ \A i \in 1..n : m[i] = s[Len(s) - n + i]

LEMMA LastEntries ==
  ASSUME NEW S, NEW s \in Seq(S), NEW n \in Nat
  PROVE  LastOf(s, n) \in Seq(S) /\ AreLast(LastOf(s, n), s, n)
<1>1. LastOf(s, n) \in Seq(S) /\ Len(s) \in Nat
  <2>1. LastOf(s, n) \in Seq(S)
    BY LastOfIsOfIt
  <2>2. Len(s) \in Nat
    OBVIOUS
  <2> QED
    BY <2>1, <2>2
<1>2. CASE Len(s) <= n
  <2>0. ~(Len(s) > n)
    BY <1>1, <1>2
  <2>1. LastOf(s, n) = SubSeq(s, 1, Len(s))
    BY <2>0 DEF LastOf
  <2>2. SubSeq(s, 1, Len(s)) = s
    BY <1>1
  <2> QED
    BY <1>1, <2>0, <2>1, <2>2 DEF AreLast
<1>3. CASE Len(s) > n
  <2>1. LastOf(s, n) = SubSeq(s, Len(s) - n + 1, Len(s))
    BY <1>3 DEF LastOf
  <2> DEFINE u == SubSeq(s, Len(s) - n + 1, Len(s))
  <2>2. Len(u) = n
    BY <1>1, <1>3
  <2>3. \A i \in 1..n : u[i] = s[Len(s) - n + i]
    BY <1>1, <1>3
  <2> HIDE DEF u
  <2>4. ~(Len(s) <= n)
    BY <1>1, <1>3
  <2>5. AreLast(u, s, n)
    BY <2>2, <2>3, <2>4 DEF AreLast
  <2> QED
    BY <1>1, <2>1, <2>5 DEF u
<1>4. Len(s) <= n \/ Len(s) > n
  BY <1>1
<1> QED
  BY <1>2, <1>3, <1>4

\* Forgetting first makes no difference to what is kept.
LEMMA ForgettingFirst ==
  ASSUME NEW S, NEW s \in Seq(S), NEW u \in S, NEW a \in S, NEW n \in Nat \ {0}
  PROVE  LastOf(Append(Append(LastOf(s, n), u), a), n) = LastOf(Append(Append(s, u), a), n)
<1> DEFINE m == LastOf(s, n)
           v == Append(Append(m, u), a)
           w == Append(Append(s, u), a)
<1>1. /\ m \in Seq(S) /\ Len(m) \in Nat /\ Len(s) \in Nat
      /\ Len(s) <= n => m = s
      /\ Len(s) > n => Len(m) = n /\ \A i \in 1..n : m[i] = s[Len(s) - n + i]
  <2>1. n \in Nat
    OBVIOUS
  <2>2. m \in Seq(S) /\ AreLast(m, s, n)
    BY <2>1, LastEntries
  <2> QED
    BY <2>2 DEF AreLast
<1>2. CASE Len(s) <= n
  BY <1>1, <1>2
<1>3. CASE Len(s) > n
  <2> HIDE DEF m
  <2>1. /\ v \in Seq(S) /\ Len(v) = n + 2 /\ v[n + 2] = a /\ v[n + 1] = u
        /\ \A i \in 1..n : v[i] = s[Len(s) - n + i]
    BY <1>1, <1>3
  <2>2. /\ w \in Seq(S) /\ Len(w) = Len(s) + 2 /\ w[Len(s) + 2] = a /\ w[Len(s) + 1] = u
        /\ \A i \in 1..Len(s) : w[i] = s[i]
    BY <1>1, <1>3
  <2> HIDE DEF v, w
  <2>0. n \in Nat
    OBVIOUS
  <2>3. /\ LastOf(v, n) \in Seq(S) /\ Len(LastOf(v, n)) = n
        /\ \A i \in 1..n : LastOf(v, n)[i] = v[Len(v) - n + i]
    <3>1. LastOf(v, n) \in Seq(S) /\ AreLast(LastOf(v, n), v, n)
      BY <2>0, <2>1, LastEntries
    <3>2. Len(v) > n
      BY <2>0, <2>1
    <3> QED
      BY <3>1, <3>2 DEF AreLast
  <2>4. /\ LastOf(w, n) \in Seq(S) /\ Len(LastOf(w, n)) = n
        /\ \A i \in 1..n : LastOf(w, n)[i] = w[Len(w) - n + i]
    <3>1. LastOf(w, n) \in Seq(S) /\ AreLast(LastOf(w, n), w, n)
      BY <2>0, <2>2, LastEntries
    <3>2. Len(w) > n
      BY <1>1, <1>3, <2>0, <2>2
    <3> QED
      BY <3>1, <3>2 DEF AreLast
  <2>5. ASSUME NEW i \in 1..n
        PROVE  v[Len(v) - n + i] = w[Len(w) - n + i]
    <3>1. Len(v) - n + i = i + 2 /\ Len(w) - n + i = Len(s) - n + i + 2
      BY <1>1, <2>1, <2>2
    <3>2. CASE i + 2 <= n
      <4>1. v[i + 2] = s[Len(s) - n + (i + 2)]
        BY <2>1, <3>2
      <4>2. w[Len(s) - n + i + 2] = s[Len(s) - n + i + 2]
        <5>1. Len(s) - n + i + 2 \in 1..Len(s)
          BY <1>1, <1>3, <3>2
        <5> QED
          BY <2>2, <5>1
      <4>3. Len(s) - n + (i + 2) = Len(s) - n + i + 2
        BY <1>1
      <4> QED
        BY <3>1, <4>1, <4>2, <4>3
    <3>3. CASE i + 2 = n + 1
      <4>1. Len(s) - n + i + 2 = Len(s) + 1
        BY <1>1, <3>3
      <4> QED
        BY <2>1, <2>2, <3>1, <3>3, <4>1
    <3>4. CASE i + 2 = n + 2
      <4>1. Len(s) - n + i + 2 = Len(s) + 2
        BY <1>1, <3>4
      <4> QED
        BY <2>1, <2>2, <3>1, <3>4, <4>1
    <3>5. i + 2 <= n \/ i + 2 = n + 1 \/ i + 2 = n + 2
      OBVIOUS
    <3> QED
      BY <3>2, <3>3, <3>4, <3>5
  <2>6. \A i \in 1..n : LastOf(v, n)[i] = LastOf(w, n)[i]
    BY <2>3, <2>4, <2>5
  <2>7. LastOf(v, n) = LastOf(w, n)
    BY <2>3, <2>4, <2>6
  <2> QED
    BY <2>7 DEF v, w, m
<1> QED
  BY <1>1, <1>2, <1>3

Said(p, t, role) == [probe |-> p, turn |-> t, role |-> role]

\* A turn adds the message of the probe and the reply.
LEMMA ConversationGrows ==
  ASSUME NEW p \in Probes, NEW t \in Nat \ {0}
  PROVE  /\ Conversation(p, t - 1) \in Seq([probe : Probes, turn : Nat, role : {"user", "assistant"}])
         /\ Conversation(p, t) =
              Append(Append(Conversation(p, t - 1), Said(p, t, "user")), Said(p, t, "assistant"))
<1> DEFINE M == [probe : Probes, turn : Nat, role : {"user", "assistant"}]
           m(i) == [probe |-> p, turn |-> (i + 1) \div 2,
                    role |-> IF i % 2 = 1 THEN "user" ELSE "assistant"]
           c == Conversation(p, t - 1)
           d == Conversation(p, t)
           u == Said(p, t, "user")
           a == Said(p, t, "assistant")
<1>1. 2 * (t - 1) \in Nat /\ 2 * t \in Nat /\ 2 * t = 2 * (t - 1) + 2
  OBVIOUS
<1>2. c = [i \in 1..(2 * (t - 1)) |-> m(i)] /\ d = [i \in 1..(2 * t) |-> m(i)]
  BY DEF Conversation
<1>3. \A i \in Nat : m(i) \in M
  <2> TAKE i \in Nat
  <2>1. (i + 1) \div 2 \in Nat
    OBVIOUS
  <2> QED
    BY <2>1
<1>4. m(2 * (t - 1) + 1) = u /\ m(2 * t) = a
  <2>1. (2 * (t - 1) + 1 + 1) \div 2 = t /\ (2 * (t - 1) + 1) % 2 = 1
    OBVIOUS
  <2>2. (2 * t + 1) \div 2 = t /\ (2 * t) % 2 = 0
    OBVIOUS
  <2> QED
    BY <2>1, <2>2 DEF Said
<1>5. u \in M /\ a \in M
  BY DEF Said
<1> HIDE DEF M, m, u, a
<1>6. c \in Seq(M) /\ d \in Seq(M) /\ Len(c) = 2 * (t - 1) /\ Len(d) = 2 * t
  BY <1>1, <1>2, <1>3
<1>7. /\ \A i \in 1..(2 * (t - 1)) : c[i] = m(i)
      /\ \A i \in 1..(2 * t) : d[i] = m(i)
  BY <1>2
<1> HIDE DEF c, d
<1> DEFINE e == Append(Append(c, u), a)
<1>8. e \in Seq(M) /\ Len(e) = 2 * t
  BY <1>1, <1>5, <1>6
<1>9. ASSUME NEW i \in 1..(2 * t)
      PROVE  e[i] = d[i]
  <2>1. i \in 1..(2 * (t - 1)) \/ i = 2 * (t - 1) + 1 \/ i = 2 * t
    BY <1>1
  <2>2. CASE i \in 1..(2 * (t - 1))
    BY <1>1, <1>5, <1>6, <1>7, <2>2
  <2>3. CASE i = 2 * (t - 1) + 1
    BY <1>1, <1>4, <1>5, <1>6, <1>7, <2>3
  <2>4. CASE i = 2 * t
    BY <1>1, <1>4, <1>5, <1>6, <1>7, <2>4
  <2> QED
    BY <2>1, <2>2, <2>3, <2>4
<1> HIDE DEF e
<1>10. e = d
  BY <1>6, <1>8, <1>9
<1> QED
  BY <1>6, <1>10 DEF c, d, e, u, a, M

\* What is remembered of t turns, and of none.
Recent(p, t) == LastOf(Conversation(p, t), MaxHistory)

LEMMA RecentGrows ==
  ASSUME NEW p \in Probes, NEW t \in Nat \ {0}
  PROVE  Recent(p, t) =
           LastOf(Append(Append(Recent(p, t - 1), Said(p, t, "user")), Said(p, t, "assistant")), MaxHistory)
<1> DEFINE M == [probe : Probes, turn : Nat, role : {"user", "assistant"}]
           c == Conversation(p, t - 1)
           d == Conversation(p, t)
           u == Said(p, t, "user")
           a == Said(p, t, "assistant")
<1>1. c \in Seq(M) /\ d = Append(Append(c, u), a)
  BY ConversationGrows
<1>2. u \in M /\ a \in M
  BY DEF Said
<1>3. MaxHistory \in Nat \ {0}
  BY ServiceAssumption
<1> HIDE DEF M, c, d, u, a
<1>4. LastOf(Append(Append(LastOf(c, MaxHistory), u), a), MaxHistory) = LastOf(d, MaxHistory)
  BY <1>1, <1>2, <1>3, ForgettingFirst
<1> QED
  BY <1>4 DEF Recent, c, d, u, a

LEMMA NothingRecent ==
  ASSUME NEW p
  PROVE  Recent(p, 0) = <<>>
<1>1. Conversation(p, 0) = <<>>
  <2>1. 2 * 0 = 0 /\ 1..0 = {}
    OBVIOUS
  <2> QED
    BY <2>1 DEF Conversation
<1>2. MaxHistory \in Nat
  BY ServiceAssumption
<1>3. LastOf(<<>>, MaxHistory) = <<>>
  <2> DEFINE s == <<>>
  <2>1. s \in Seq({}) /\ Len(s) = 0
    OBVIOUS
  <2> HIDE DEF s
  <2>2. AreLast(LastOf(s, MaxHistory), s, MaxHistory)
    BY <1>2, <2>1, LastEntries
  <2>3. LastOf(s, MaxHistory) = s
    BY <1>2, <2>1, <2>2 DEF AreLast
  <2> QED
    BY <2>3 DEF s
<1> QED
  BY <1>1, <1>3 DEF Recent

(***************************************************************************)
(* There is room. A thread that evicts serves a probe without a session,   *)
(* so when the table is full of the sessions of at most MaxSessions probes *)
(* and of earlier clients, the latter are as many as the former lack.      *)
(***************************************************************************)
LEMMA OldOnesSuffice ==
  ASSUME IsFiniteSet(Probes), Cardinality(Probes) <= MaxSessions,
         NEW S, NEW s \in Seq(S), NEW k, Shape(s, k), OneEach(s), Len(s) >= MaxSessions,
         NEW E \in SUBSET Requests,
         \A q \in E : Absent(s, q.probe),
         \A q, r \in E : q.probe = r.probe => q = r
  PROVE  IsFiniteSet(E) /\ Cardinality(E) <= k
<1> DEFINE I == (k + 1)..Len(s)
           B == {s[i].id : i \in I}
           idOf == [i \in I |-> s[i].id]
           probeOf == [q \in E |-> q.probe]
<1>0. Len(s) \in Nat /\ k \in 0..Len(s) /\ I \subseteq 1..Len(s) /\ MaxSessions \in Nat
  BY ServiceAssumption DEF Shape
<1>1. B \subseteq Probes
  BY <1>0 DEF Shape
<1>2. /\ IsFiniteSet(B) /\ IsFiniteSet(Probes \ B)
      /\ Cardinality(B) \in Nat /\ Cardinality(Probes \ B) \in Nat /\ Cardinality(Probes) \in Nat
  <2> HIDE DEF B
  <2> QED
    BY <1>1, FS_Subset, FS_CardinalityType
<1>3. Cardinality(Probes) = Cardinality(B) + Cardinality(Probes \ B)
  <2> HIDE DEF B
  <2> DEFINE R == Probes \ B
  <2>1. B \cup R = Probes /\ B \cap R = {}
    BY <1>1
  <2>2. IsFiniteSet(R) /\ Cardinality(R) \in Nat
    BY <1>2
  <2> HIDE DEF R
  <2>3. Cardinality(B \cup R) = Cardinality(B) + Cardinality(R) - Cardinality(B \cap R)
    BY <1>2, <2>2, FS_Union
  <2>4. Cardinality(B \cap R) = 0
    BY <2>1, FS_EmptySet
  <2>5. Cardinality(B \cup R) = Cardinality(Probes)
    BY <2>1
  <2>6. Cardinality(Probes) = Cardinality(B) + Cardinality(R)
    BY <1>2, <2>2, <2>3, <2>4, <2>5
  <2> QED
    BY <2>6 DEF R
<1>4. Cardinality(B) = Len(s) - k
  <2>1. idOf \in [I -> B] /\ \A b \in B : \E i \in I : idOf[i] = b
    OBVIOUS
  <2>2. \A i, j \in I : idOf[i] = idOf[j] => i = j
    BY <1>0, <1>1 DEF OneEach
  <2>3. IsFiniteSet(I) /\ Cardinality(I) = Len(s) - k
    <3>1. k + 1 \in Int /\ Len(s) \in Int /\ (k + 1 > Len(s) => Len(s) - k = 0)
      BY <1>0
    <3>2. /\ IsFiniteSet((k + 1)..Len(s))
          /\ Cardinality((k + 1)..Len(s)) = IF k + 1 > Len(s) THEN 0 ELSE Len(s) - (k + 1) + 1
      BY <3>1, FS_Interval
    <3> QED
      BY <1>0, <3>1, <3>2
  <2> HIDE DEF idOf, I, B
  <2>4. idOf \in Injection(I, B) /\ idOf \in Surjection(I, B)
    BY <2>1, <2>2 DEF Injection, IsInjective, Surjection
  <2>5. Cardinality(I) = Cardinality(B)
    BY <1>2, <2>4, FS_Injection
  <2> QED
    BY <2>3, <2>5
<1>5. IsFiniteSet(E) /\ Cardinality(E) <= Cardinality(Probes \ B)
  <2>1. \A q \in E : q.probe \in Probes \ B
    <3>1. \A q \in E : q.probe \in Probes
      BY DEF Requests
    <3> QED
      BY <1>0, <3>1 DEF Absent
  <2>2. probeOf \in [E -> Probes \ B] /\ \A q, r \in E : probeOf[q] = probeOf[r] => q = r
    BY <2>1
  <2> HIDE DEF probeOf, B
  <2>3. probeOf \in Injection(E, Probes \ B)
    BY <2>2 DEF Injection, IsInjective
  <2> QED
    BY <1>2, <2>3, FS_Injection
<1>6. Cardinality(E) \in Nat
  BY <1>5, FS_CardinalityType
<1> HIDE DEF B
<1>7. Cardinality(E) <= Cardinality(Probes) - (Len(s) - k)
  BY <1>2, <1>3, <1>4, <1>5, <1>6
<1> QED
  BY <1>0, <1>2, <1>5, <1>6, <1>7

(***************************************************************************)
(* The invariant. One thread at most serves a probe, so what a probe's     *)
(* list remembers follows from how many of its turns are answered.         *)
(***************************************************************************)
Quiet == gaveUp = 0 /\ restarts = 0 /\ Cardinality(Probes) <= MaxSessions

Evicting == {r \in Requests : thread[r].pc = "evict"}

\* There are as many sessions of earlier clients, all first in line, as threads that evict.
RoomForAll ==
  /\ IsFiniteSet(Evicting)
  /\ \E k \in 0..Len(sessions) : Shape(sessions, k) /\ Cardinality(Evicting) <= k

\* The turns of a probe the agent has answered, and what its list then holds.
Answered(p) ==
  IF request[p] \notin Requests THEN 0
  ELSE IF wire[request[p]].status = "reply" THEN request[p].turn ELSE request[p].turn - 1

Answering(p) == request[p] \in Requests /\ thread[request[p]].pc = "answer"

Remembered(p) ==
  IF Answering(p) THEN Append(Recent(p, Answered(p)), Said(p, request[p].turn, "user"))
  ELSE Recent(p, Answered(p))

ListsRemember(p) ==
  /\ \A l \in Requests : HoldsIn(sessions, p, l) => list[l] = Remembered(p)
  /\ Absent(sessions, p) => Answered(p) = 0

ThreadInOrder(p) ==
  request[p] \in Requests =>
    LET t == thread[request[p]] IN
    /\ t.pc \in {"room", "evict", "insert"} => Absent(sessions, p)
    /\ t.pc \in {"search", "generate", "answer"} => HoldsIn(sessions, p, t.list)
    /\ t.pc \in {"generate", "answer"} => t.prompt = Recent(p, request[p].turn - 1)

OwnRequests == \A p \in Probes : request[p] \in Requests => request[p].probe = p

HistoryInv ==
  /\ restarts \in Nat /\ OwnRequests
  /\ Quiet => /\ RoomForAll /\ OneEach(sessions)
              /\ \A p \in Probes : ListsRemember(p) /\ ThreadInOrder(p)

(***************************************************************************)
(* The steps of a thread.                                                  *)
(***************************************************************************)
LEMMA GoMoves ==
  ASSUME Owned, NEW r \in Requests, NEW pc, Go(r, pc)
  PROVE  /\ thread'[r].pc = pc /\ thread'[r].list = thread[r].list
         /\ thread'[r].prompt = thread[r].prompt
         /\ \A q \in Requests : q # r => thread'[q] = thread[q]
<1>1. thread[r] \in [pc : Places, list : Lists, prompt : Seq(MessagesOf(r.probe))] /\ DOMAIN thread = Requests
  BY DEF Owned, ThreadOf, Threads
<1> QED
  BY <1>1 DEF Go

LEMMA EndMoves ==
  ASSUME Owned, ClientTypes, NEW r \in Requests, NEW status, End(r, status), wire[r].status = "sent"
  PROVE  /\ thread'[r].pc = "ended" /\ wire'[r].status = status
         /\ \A q \in Requests : q # r => thread'[q] = thread[q] /\ wire'[q] = wire[q]
<1>1. DOMAIN thread = Requests /\ DOMAIN wire = Requests
  BY DEF Owned, ClientTypes
<1> QED
  BY <1>1 DEF End, Ended

\* A thread at work serves the request its probe waits for,
LEMMA WorkingIsAwaited ==
  ASSUME AwaitedInv, gaveUp = 0, NEW q \in Requests, thread[q].pc \notin {"none", "ended"}
  PROVE  wire[q].status = "sent" /\ request[q.probe] = q
BY DEF AwaitedInv, ThreadsAreAwaited, SentIsAwaited

\* and so does one that starts.
LEMMA HandledIsAwaited ==
  ASSUME AwaitedInv, gaveUp = 0, NEW r \in Requests, Handle(r)
  PROVE  wire[r].status = "sent" /\ request[r.probe] = r /\ r.probe \in Probes
<1>1. \/ thread[r].pc = "none" /\ wire[r].status # "unsent"
      \/ thread[r].pc \in {"touch", "room", "evict", "insert", "get", "search", "generate", "answer"}
  BY DEF Handle, At, Unready, Lookup, Touch, Room, Evict, Insert, Get, Prompt, BackendFails,
         AppendUser, AppendReply
<1>2. wire[r].status = "sent"
  BY <1>1 DEF AwaitedInv, ThreadsAreAwaited
<1> QED
  BY <1>2 DEF AwaitedInv, SentIsAwaited, Requests

\* A step that is not an eviction, nor the decision to evict, does not change who evicts.
LEMMA SameEvicting ==
  ASSUME NEW r \in Requests, \A q \in Requests : q # r => thread'[q] = thread[q],
         (thread[r].pc = "evict") <=> (thread'[r].pc = "evict")
  PROVE  Evicting' = Evicting
BY DEF Evicting

\* What a step of r's thread may do to the table.
TableOf(r) ==
  \/ SameFor(sessions, sessions', r.probe) /\ thread[r].pc # "insert"
  \/ /\ Insert(r) /\ Absent(sessions, r.probe) /\ ~Absent(sessions', r.probe)
     /\ \A l : HoldsIn(sessions', r.probe, l) <=> l = r

TableMoved(r) ==
  /\ RoomForAll' /\ OneEach(sessions')
  /\ \A p \in Probes : p # r.probe => SameFor(sessions, sessions', p)
  /\ TableOf(r)

LEMMA SameTable ==
  ASSUME NEW s, NEW p
  PROVE  SameFor(s, s, p)
BY DEF SameFor

\* The table is left alone, and nobody comes to evict.
LEMMA TableLeftAlone ==
  ASSUME RoomForAll, OneEach(sessions), NEW r \in Requests, thread[r].pc # "insert",
         sessions' = sessions, Evicting' = Evicting
  PROVE  TableMoved(r)
<1>1. RoomForAll'
  BY DEF RoomForAll, Shape
<1> QED
  BY <1>1, SameTable DEF TableMoved, TableOf

LEMMA TouchMovesTable ==
  ASSUME Owned, RoomForAll, OneEach(sessions), NEW r \in Requests, r.probe \in Probes,
         Touch(r), Known(SessionOf(r))
  PROVE  TableMoved(r)
<1>1. PICK i \in Index(SessionOf(r)) : sessions' = Append(RemoveAt(sessions, i), sessions[i])
  BY DEF Touch
<1>2. i \in 1..Len(sessions) /\ sessions[i].id = r.probe /\ sessions \in Seq(Entries)
  BY <1>1 DEF Index, SessionOf, Owned
<1>3. PICK k \in 0..Len(sessions) : Shape(sessions, k) /\ Cardinality(Evicting) <= k
  BY DEF RoomForAll
<1>4. Shape(sessions', k) /\ OneEach(sessions') /\ \A p : SameFor(sessions, sessions', p)
  BY <1>1, <1>2, <1>3, TouchedTable
<1>5. thread[r].pc = "touch" /\ Go(r, "get")
  BY DEF Touch, At
<1>6. Evicting' = Evicting
  BY <1>5, GoMoves, SameEvicting
<1>7. RoomForAll'
  BY <1>3, <1>4, <1>6 DEF RoomForAll, Shape
<1> QED
  BY <1>4, <1>5, <1>7 DEF TableMoved, TableOf

LEMMA EvictMovesTable ==
  ASSUME Owned, RoomForAll, OneEach(sessions), NEW r \in Requests, r.probe \in Probes, Evict(r)
  PROVE  TableMoved(r) /\ Go(r, "room") /\ UNCHANGED wire
<1>1. PICK k \in 0..Len(sessions) : Shape(sessions, k) /\ Cardinality(Evicting) <= k
  BY DEF RoomForAll
<1>2. sessions \in Seq(Entries) /\ Len(sessions) \in Nat
  BY DEF Owned
<1>3. r \in Evicting /\ IsFiniteSet(Evicting) /\ Cardinality(Evicting) \in Nat
  BY FS_CardinalityType DEF Evict, At, Evicting, RoomForAll
<1>4. Cardinality(Evicting \ {r}) = Cardinality(Evicting) - 1 /\ IsFiniteSet(Evicting \ {r})
  BY <1>3, FS_RemoveElement
<1>5. Cardinality(Evicting \ {r}) \in Nat
  BY <1>4, FS_CardinalityType
<1>6. k > 0
  BY <1>1, <1>2, <1>3, <1>4, <1>5
<1>7. /\ sessions # <<>> /\ Shape(Tail(sessions), k - 1) /\ OneEach(Tail(sessions))
      /\ \A p \in Probes : SameFor(sessions, Tail(sessions), p)
  BY <1>1, <1>2, <1>6, EvictedTable
<1>8. sessions' = Tail(sessions) /\ Go(r, "room") /\ UNCHANGED wire /\ thread[r].pc = "evict"
  BY <1>7 DEF Evict, At
<1>9. Evicting' = Evicting \ {r}
  <2>1. thread'[r].pc = "room" /\ \A q \in Requests : q # r => thread'[q] = thread[q]
    BY <1>8, GoMoves
  <2> QED
    BY <2>1 DEF Evicting
<1>10. RoomForAll'
  <2>1. Cardinality(Evicting') <= k - 1 /\ IsFiniteSet(Evicting')
    BY <1>1, <1>3, <1>4, <1>5, <1>9
  <2>2. k - 1 \in 0..Len(sessions') /\ Shape(sessions', k - 1)
    BY <1>7, <1>8 DEF Shape
  <2> QED
    BY <2>1, <2>2 DEF RoomForAll, Shape
<1> QED
  BY <1>7, <1>8, <1>10 DEF TableMoved, TableOf

LEMMA InsertMovesTable ==
  ASSUME Owned, RoomForAll, OneEach(sessions), NEW r \in Requests, r.probe \in Probes,
         Absent(sessions, r.probe), Insert(r)
  PROVE  TableMoved(r)
<1> DEFINE e == [id |-> r.probe, list |-> r]
<1>1. PICK k \in 0..Len(sessions) : Shape(sessions, k) /\ Cardinality(Evicting) <= k
  BY DEF RoomForAll
<1>2. sessions \in Seq(Entries) /\ e \in Entries /\ e.id = r.probe /\ e.list = r
  BY DEF Owned, Entries, ListsOf, Lists
<1>3. ~Known(SessionOf(r))
  BY <1>2 DEF Known, Index, SessionOf, Absent
<1>4. sessions' = Append(sessions, e) /\ thread[r].pc = "insert" /\ Go(r, "get")
  BY <1>3 DEF Insert, SessionOf, At
<1> HIDE DEF e
<1>5. /\ Shape(sessions', k) /\ OneEach(sessions') /\ \A p : p # e.id => SameFor(sessions, sessions', p)
      /\ ~Absent(sessions', e.id) /\ \A l : HoldsIn(sessions', e.id, l) <=> l = e.list
  BY <1>1, <1>2, <1>4, ExtendedTable
<1>6. Evicting' = Evicting
  BY <1>4, GoMoves, SameEvicting
<1>7. RoomForAll'
  BY <1>1, <1>5, <1>6 DEF RoomForAll, Shape
<1> QED
  BY <1>2, <1>5, <1>7 DEF TableMoved, TableOf

LEMMA RoomMovesTable ==
  ASSUME IsFiniteSet(Probes), Cardinality(Probes) <= MaxSessions, AwaitedInv, gaveUp = 0,
         Owned, RoomForAll, OneEach(sessions), \A p \in Probes : ThreadInOrder(p),
         NEW r \in Requests, Room(r)
  PROVE  TableMoved(r)
<1>0. sessions' = sessions /\ thread[r].pc = "room"
  BY DEF Room, At
<1>1. CASE Len(sessions) >= MaxSessions
  <2>1. Go(r, "evict")
    BY <1>1 DEF Room
  <2>2. thread'[r].pc = "evict" /\ \A q \in Requests : q # r => thread'[q] = thread[q]
    BY <2>1, GoMoves
  <2>3. \A q \in Evicting' : q \in Requests /\ (q = r \/ thread[q].pc = "evict")
    BY <2>2 DEF Evicting
  <2>4. \A q \in Evicting' : /\ q \in Requests /\ q.probe \in Probes
                             /\ thread[q].pc \in {"room", "evict"} /\ request[q.probe] = q
    BY <1>0, <2>3, WorkingIsAwaited DEF Requests
  <2>5. \A q \in Evicting' : Absent(sessions, q.probe)
    BY <2>4 DEF ThreadInOrder
  <2>6. PICK k \in 0..Len(sessions) : Shape(sessions, k)
    BY DEF RoomForAll
  <2> DEFINE E == Evicting'
  <2>7. E \in SUBSET Requests /\ \A q \in E : Absent(sessions, q.probe)
    BY <2>4, <2>5
  <2>8. \A q, t \in E : q.probe = t.probe => q = t
    BY <2>4
  <2> HIDE DEF E
  <2>9. IsFiniteSet(E) /\ Cardinality(E) <= k
    BY <1>1, <2>6, <2>7, <2>8, OldOnesSuffice DEF Owned
  <2>10. RoomForAll'
    BY <1>0, <2>6, <2>9 DEF RoomForAll, E, Shape
  <2> QED
    BY <1>0, <2>10, SameTable DEF TableMoved, TableOf
<1>2. CASE ~(Len(sessions) >= MaxSessions)
  <2>1. Go(r, "insert")
    BY <1>2 DEF Room
  <2>2. Evicting' = Evicting
    BY <1>0, <2>1, GoMoves, SameEvicting
  <2> QED
    BY <1>0, <2>2, TableLeftAlone
<1> QED
  BY <1>1, <1>2

\* What holds of a thread that can move.
Moving(r) ==
  /\ Handle(r) /\ UNCHANGED phaseVars
  /\ wire[r].status = "sent" /\ request[r.probe] = r /\ r.probe \in Probes

LEMMA HandleMovesTable ==
  ASSUME IsFiniteSet(Probes), Cardinality(Probes) <= MaxSessions, AwaitedInv, ClientTypes, gaveUp = 0,
         Owned, RoomForAll, OneEach(sessions), \A p \in Probes : ThreadInOrder(p),
         NEW r \in Requests, Moving(r)
  PROVE  TableMoved(r)
<1>0. wire[r].status = "sent" /\ request[r.probe] = r /\ r.probe \in Probes /\ Handle(r)
  BY DEF Moving
<1>1. ASSUME NEW status, End(r, status), sessions' = sessions, thread[r].pc \notin {"insert", "evict"}
      PROVE  TableMoved(r)
  <2>1. thread'[r].pc = "ended" /\ \A q \in Requests : q # r => thread'[q] = thread[q]
    BY <1>0, <1>1, EndMoves
  <2>2. Evicting' = Evicting
    BY <1>1, <2>1, SameEvicting
  <2> QED
    BY <1>1, <2>2, TableLeftAlone
<1>2. ASSUME NEW pc, Go(r, pc), pc # "evict", sessions' = sessions, thread[r].pc \notin {"insert", "evict"}
      PROVE  TableMoved(r)
  <2>1. Evicting' = Evicting
    BY <1>2, GoMoves, SameEvicting
  <2> QED
    BY <1>2, <2>1, TableLeftAlone
<1>3. CASE Unready(r) \/ BackendFails(r)
  BY <1>1, <1>3 DEF Unready, BackendFails, At
<1>4. CASE Lookup(r)
  BY <1>2, <1>4 DEF Lookup, At
<1>5. CASE Touch(r)
  BY <1>0, <1>1, <1>5, TouchMovesTable DEF Touch, At
<1>6. CASE Room(r)
  BY <1>6, RoomMovesTable
<1>7. CASE Evict(r)
  BY <1>0, <1>7, EvictMovesTable
<1>8. CASE Insert(r)
  <2>1. Absent(sessions, r.probe)
    BY <1>0, <1>8 DEF ThreadInOrder, Insert, At
  <2> QED
    BY <1>0, <1>8, <2>1, InsertMovesTable
<1>9. ASSUME sessions' = sessions, thread[r].pc \notin {"insert", "evict"}, thread'[r].pc # "evict",
             \A q \in Requests : q # r => thread'[q] = thread[q]
      PROVE  TableMoved(r)
  <2>1. Evicting' = Evicting
    BY <1>9, SameEvicting
  <2> QED
    BY <1>9, <2>1, TableLeftAlone
<1>10. CASE Get(r) /\ ~Known(SessionOf(r))
  BY <1>1, <1>10 DEF Get, At
<1>11. thread[r] \in [pc : Places, list : Lists, prompt : Seq(MessagesOf(r.probe))] /\ DOMAIN thread = Requests
  BY DEF Owned, ThreadOf, Threads
<1>12. CASE Get(r) /\ Known(SessionOf(r))
  BY <1>9, <1>11, <1>12 DEF Get, At
<1>13. CASE Prompt(r)
  BY <1>9, <1>11, <1>13 DEF Prompt, At
<1>14. CASE AppendUser(r)
  BY <1>2, <1>14 DEF AppendUser, At
<1>15. CASE AppendReply(r)
  BY <1>1, <1>15 DEF AppendReply, At
<1> QED
  BY <1>0, <1>3, <1>4, <1>5, <1>6, <1>7, <1>8, <1>10, <1>12, <1>13, <1>14, <1>15 DEF Handle

\* A thread writes to lists of its probe only.
LEMMA ListsOfOthers ==
  ASSUME Owned, NEW r \in Requests, Handle(r), NEW l \in Requests, l.probe # r.probe
  PROVE  list'[l] = list[l]
<1>1. /\ DOMAIN list = Requests
      /\ thread[r].pc \in {"search", "generate", "answer"} => thread[r].list \in Requests /\ thread[r].list.probe = r.probe
  BY DEF Owned, ThreadOf, ListsOf
<1>2. CASE UNCHANGED list
  BY <1>2
<1>3. CASE Insert(r)
  BY <1>1, <1>3 DEF Insert
<1>4. CASE AppendUser(r)
  BY <1>1, <1>4 DEF AppendUser, At
<1>5. CASE AppendReply(r)
  BY <1>1, <1>5 DEF AppendReply, At
<1> QED
  BY <1>2, <1>3, <1>4, <1>5 DEF Handle, Unready, Lookup, Touch, Room, Evict, Get, Prompt, BackendFails

\* The session of a probe holds a list of the probe.
LEMMA HeldIsOwn ==
  ASSUME Owned, NEW p \in Probes, NEW l, HoldsIn(sessions, p, l)
  PROVE  l \in Requests /\ l.probe = p
<1>1. PICK i \in 1..Len(sessions) : sessions[i].id = p /\ sessions[i].list = l
  BY DEF HoldsIn
<1>2. sessions[i] \in Entries
  BY <1>1 DEF Owned
<1> QED
  BY <1>1, <1>2 DEF Entries, ListsOf

\* The other probes notice nothing,
LEMMA OthersRemember ==
  ASSUME Owned, ClientTypes, OwnRequests, NEW r \in Requests, Moving(r), TableMoved(r),
         NEW p \in Probes, p # r.probe, ListsRemember(p), ThreadInOrder(p)
  PROVE  ListsRemember(p)' /\ ThreadInOrder(p)'
<1>1. SameFor(sessions, sessions', p) /\ Handle(r) /\ request' = request /\ wire[r].status = "sent"
  BY DEF TableMoved, Moving, phaseVars
<1>2. request[p] \in Requests => request[p] # r
  BY DEF OwnRequests
<1>3. /\ \A q \in Requests : q # r => thread'[q] = thread[q]
      /\ wire' = wire \/ \E status : End(r, status)
  BY <1>1, HandleMoves DEF Handle, Unready, Lookup, Touch, Room, Evict, Insert, Get, Prompt, BackendFails,
         AppendUser, AppendReply
<1>4. \A q \in Requests : q # r => wire'[q] = wire[q]
  <2>1. CASE wire' = wire
    BY <2>1
  <2>2. CASE \E status : End(r, status)
    BY <1>1, <2>2, EndMoves
  <2> QED
    BY <1>3, <2>1, <2>2
<1>5. Answered(p)' = Answered(p) /\ Answering(p)' = Answering(p) /\ Remembered(p)' = Remembered(p)
  <2>1. request[p] \in Requests =>
          thread'[request[p]] = thread[request[p]] /\ wire'[request[p]] = wire[request[p]]
    BY <1>2, <1>3, <1>4
  <2>2. Answered(p)' = Answered(p)
    BY <1>1, <2>1 DEF Answered
  <2>3. Answering(p)' = Answering(p)
    BY <1>1, <2>1 DEF Answering
  <2> QED
    BY <1>1, <2>2, <2>3 DEF Remembered, Recent, Conversation
<1>6. \A l \in Requests : HoldsIn(sessions, p, l) => list'[l] = list[l]
  BY <1>1, HeldIsOwn, ListsOfOthers
<1>7. ListsRemember(p)'
  BY <1>1, <1>5, <1>6 DEF ListsRemember, SameFor
<1>8. ThreadInOrder(p)'
  BY <1>1, <1>2, <1>3 DEF ThreadInOrder, SameFor, Recent, Conversation
<1> QED
  BY <1>7, <1>8

\* its own remembers the same while the thread neither starts to answer nor has answered,
LEMMA OwnRemembers ==
  ASSUME NEW r \in Requests, Moving(r), SameFor(sessions, sessions', r.probe), list' = list,
         thread[r].pc # "answer", thread'[r].pc # "answer", wire'[r].status # "reply",
         ListsRemember(r.probe)
  PROVE  ListsRemember(r.probe)'
<1> DEFINE p == r.probe
<1>1. request[p] = r /\ request' = request /\ wire[r].status # "reply"
  BY DEF Moving, phaseVars
<1>2. Answered(p)' = Answered(p) /\ ~Answering(p) /\ ~Answering(p)'
  BY <1>1 DEF Answered, Answering
<1>3. Remembered(p)' = Remembered(p)
  BY <1>2 DEF Remembered, Recent, Conversation
<1> QED
  BY <1>2, <1>3 DEF ListsRemember, SameFor

\* nothing of a request that fails,
LEMMA FailureForgets ==
  ASSUME Owned, ClientTypes, NEW r \in Requests, Moving(r), End(r, "error"),
         sessions' = sessions, list' = list, thread[r].pc # "answer", ListsRemember(r.probe)
  PROVE  ListsRemember(r.probe)' /\ ThreadInOrder(r.probe)'
<1>1. thread'[r].pc = "ended" /\ wire'[r].status = "error" /\ request'[r.probe] = r
  BY EndMoves DEF Moving, phaseVars
<1>2. ListsRemember(r.probe)'
  BY <1>1, OwnRemembers, SameTable
<1> QED
  BY <1>1, <1>2 DEF ThreadInOrder

\* and both messages of one that is answered.
LEMMA MovesRemember ==
  ASSUME Owned, ClientTypes, NEW r \in Requests, Moving(r), TableMoved(r),
         ListsRemember(r.probe), ThreadInOrder(r.probe),
         Unready(r) \/ Lookup(r) \/ Touch(r) \/ Room(r) \/ Get(r) \/ BackendFails(r)
  PROVE  ListsRemember(r.probe)' /\ ThreadInOrder(r.probe)'
<1> DEFINE p == r.probe
<1>1. /\ request'[p] = r /\ request[p] = r /\ p \in Probes
      /\ wire[r].status = "sent" /\ list' = list /\ thread[r].pc \notin {"insert", "answer"}
  BY DEF Moving, phaseVars, Unready, Lookup, Touch, Room, Get, BackendFails, At
<1>2. SameFor(sessions, sessions', p)
  BY <1>1 DEF TableMoved, TableOf, Insert, At
<1>3. ASSUME End(r, "error"), sessions' = sessions
      PROVE  ListsRemember(p)' /\ ThreadInOrder(p)'
  BY <1>1, <1>3, FailureForgets
<1>4. ASSUME NEW pc \in {"touch", "room", "evict", "insert", "get"}, Go(r, pc), UNCHANGED wire,
             pc \in {"touch", "get"} \/ Absent(sessions, p)
      PROVE  ListsRemember(p)' /\ ThreadInOrder(p)'
  <2>1. thread'[r].pc = pc /\ wire'[r].status = "sent"
    BY <1>1, <1>4, GoMoves
  <2>2. ListsRemember(p)'
    BY <1>1, <1>2, <1>4, <2>1, OwnRemembers
  <2>3. Absent(sessions, p) <=> Absent(sessions', p)
    BY <1>2 DEF SameFor
  <2> QED
    BY <1>1, <1>4, <2>1, <2>2, <2>3 DEF ThreadInOrder
<1>5. CASE Unready(r) \/ BackendFails(r)
  BY <1>3, <1>5 DEF Unready, BackendFails
<1>6. CASE Lookup(r)
  <2>1. ~Known(SessionOf(r)) => Absent(sessions, p)
    BY DEF Known, Index, SessionOf, Absent, Owned
  <2>2. Go(r, "touch") \/ (Go(r, "room") /\ Absent(sessions, p))
    BY <1>6, <2>1 DEF Lookup
  <2>3. UNCHANGED wire
    BY <1>6 DEF Lookup
  <2>4. CASE Go(r, "touch")
    BY <1>4, <2>3, <2>4
  <2>5. CASE Go(r, "room") /\ Absent(sessions, p)
    BY <1>4, <2>3, <2>5
  <2> QED
    BY <2>2, <2>4, <2>5
<1>7. CASE Touch(r)
  <2>1. (Go(r, "get") /\ UNCHANGED wire) \/ (End(r, "error") /\ sessions' = sessions)
    BY <1>7 DEF Touch
  <2>2. CASE Go(r, "get") /\ UNCHANGED wire
    BY <1>4, <2>2
  <2>3. CASE End(r, "error") /\ sessions' = sessions
    BY <1>3, <2>3
  <2> QED
    BY <2>1, <2>2, <2>3
<1>8. CASE Room(r)
  <2>1. Absent(sessions, p)
    BY <1>1, <1>8 DEF Room, At, ThreadInOrder
  <2> QED
    BY <1>4, <1>8, <2>1 DEF Room
<1>9. CASE Get(r) /\ ~Known(SessionOf(r))
  BY <1>3, <1>9 DEF Get
<1>10. CASE Get(r) /\ Known(SessionOf(r))
  <2>1. thread[r] \in [pc : Places, list : Lists, prompt : Seq(MessagesOf(r.probe))] /\ DOMAIN thread = Requests
    BY DEF Owned, ThreadOf, Threads
  <2>2. /\ thread' = [thread EXCEPT ![r] = [@ EXCEPT !.pc = "search", !.list = Held(SessionOf(r))]]
        /\ UNCHANGED <<wire, sessions>>
    BY <1>10 DEF Get
  <2>3. thread'[r].pc = "search" /\ thread'[r].list = Held(SessionOf(r))
    BY <2>1, <2>2
  <2>4. HoldsIn(sessions, p, Held(SessionOf(r)))
    <3>1. PICK i \in Index(SessionOf(r)) : Held(SessionOf(r)) = sessions[i].list
      BY <1>10 DEF Known, Held
    <3> QED
      BY <3>1 DEF Index, SessionOf, HoldsIn, Owned
  <2>5. ListsRemember(p)'
    BY <1>1, <1>2, <2>2, <2>3, OwnRemembers
  <2> QED
    BY <1>1, <2>2, <2>3, <2>4, <2>5 DEF ThreadInOrder
<1> QED
  BY <1>5, <1>6, <1>7, <1>8, <1>9, <1>10

LEMMA EvictionRemembers ==
  ASSUME Owned, RoomForAll, OneEach(sessions), NEW r \in Requests, Moving(r), TableMoved(r), Evict(r),
         ListsRemember(r.probe), ThreadInOrder(r.probe)
  PROVE  ListsRemember(r.probe)' /\ ThreadInOrder(r.probe)'
<1>1. /\ request'[r.probe] = r /\ request[r.probe] = r /\ r.probe \in Probes
      /\ wire[r].status = "sent" /\ list' = list /\ thread[r].pc = "evict"
  BY DEF Moving, phaseVars, Evict, At
<1>2. SameFor(sessions, sessions', r.probe)
  BY <1>1 DEF TableMoved, TableOf, Insert, At
<1>3. thread'[r].pc = "room" /\ wire' = wire
  BY <1>1, EvictMovesTable, GoMoves
<1>4. ListsRemember(r.probe)'
  BY <1>1, <1>2, <1>3, OwnRemembers
<1>5. Absent(sessions', r.probe)
  BY <1>1, <1>2 DEF ThreadInOrder, SameFor
<1> QED
  BY <1>1, <1>3, <1>4, <1>5 DEF ThreadInOrder

\* A new list is empty, and the probe without a session has no answered turn.
LEMMA InsertionRemembers ==
  ASSUME Owned, NEW r \in Requests, Moving(r), TableMoved(r), Insert(r), ListsRemember(r.probe)
  PROVE  ListsRemember(r.probe)' /\ ThreadInOrder(r.probe)'
<1> DEFINE p == r.probe
<1>1. /\ request'[p] = r /\ request[p] = r /\ wire' = wire /\ wire[r].status = "sent"
      /\ thread[r].pc = "insert" /\ Go(r, "get") /\ list' = [list EXCEPT ![r] = <<>>]
  BY DEF Moving, phaseVars, Insert, At
<1>2. /\ Absent(sessions, p) /\ ~Absent(sessions', p)
      /\ \A l : HoldsIn(sessions', p, l) <=> l = r
  <2>1. ~SameFor(sessions, sessions', p) \/ thread[r].pc = "insert"
    BY <1>1
  <2> QED
    BY <1>1, <2>1 DEF TableMoved, TableOf
<1>3. thread'[r].pc = "get"
  BY <1>1, GoMoves
<1>4. Answered(p) = 0
  BY <1>2 DEF ListsRemember
<1>5. Remembered(p)' = <<>>
  <2>1. Answered(p)' = 0
    BY <1>1, <1>4 DEF Answered
  <2>2. ~Answering(p)'
    BY <1>1, <1>3 DEF Answering
  <2> QED
    BY <2>1, <2>2, NothingRecent DEF Remembered, Recent, Conversation
<1>6. list'[r] = <<>>
  BY <1>1 DEF Owned
<1>7. ListsRemember(p)'
  BY <1>2, <1>5, <1>6 DEF ListsRemember
<1> QED
  BY <1>1, <1>3, <1>7 DEF ThreadInOrder

\* The history before the model is the list, which holds the turns before this one.
LEMMA PromptIsRecent ==
  ASSUME Owned, NEW r \in Requests, Moving(r), TableMoved(r), Prompt(r),
         ListsRemember(r.probe), ThreadInOrder(r.probe)
  PROVE  ListsRemember(r.probe)' /\ ThreadInOrder(r.probe)'
<1> DEFINE p == r.probe
           l == thread[r].list
<1>1. /\ request'[p] = r /\ request[p] = r /\ wire[r].status = "sent" /\ p \in Probes
      /\ thread[r].pc = "search" /\ UNCHANGED <<sessions, list, wire>>
  BY DEF Moving, phaseVars, Prompt, At
<1>2. thread[r] \in [pc : Places, list : Lists, prompt : Seq(MessagesOf(r.probe))] /\ DOMAIN thread = Requests
  BY DEF Owned, ThreadOf, Threads
<1>3. thread'[r].pc = "generate" /\ thread'[r].list = l /\ thread'[r].prompt = list[l]
  BY <1>2 DEF Prompt, History
<1>4. HoldsIn(sessions, p, l) /\ l \in Requests
  BY <1>1, HeldIsOwn DEF ThreadInOrder
<1>5. Answered(p) = r.turn - 1 /\ ~Answering(p)
  BY <1>1 DEF Answered, Answering
<1>6. list[l] = Recent(p, r.turn - 1)
  BY <1>4, <1>5 DEF ListsRemember, Remembered
<1>7. ListsRemember(p)'
  BY <1>1, <1>3, OwnRemembers, SameTable
<1> QED
  BY <1>1, <1>3, <1>4, <1>6, <1>7 DEF ThreadInOrder, Recent, Conversation

\* A probe has one list.
LEMMA OneList ==
  ASSUME OneEach(sessions), NEW p \in Probes, NEW l, NEW m,
         HoldsIn(sessions, p, l), HoldsIn(sessions, p, m)
  PROVE  l = m
BY DEF OneEach, HoldsIn

LEMMA UserIsRemembered ==
  ASSUME Owned, OneEach(sessions), NEW r \in Requests, Moving(r), AppendUser(r),
         ListsRemember(r.probe), ThreadInOrder(r.probe)
  PROVE  ListsRemember(r.probe)' /\ ThreadInOrder(r.probe)'
<1> DEFINE p == r.probe
           l == thread[r].list
           u == Said(p, r.turn, "user")
<1>1. /\ request'[p] = r /\ request[p] = r /\ wire[r].status = "sent" /\ p \in Probes
      /\ thread[r].pc = "generate" /\ UNCHANGED <<sessions, wire>> /\ Go(r, "answer")
  BY DEF Moving, phaseVars, AppendUser, At
<1>2. /\ thread'[r].pc = "answer" /\ thread'[r].list = l /\ thread'[r].prompt = thread[r].prompt
  BY <1>1, GoMoves
<1>3. HoldsIn(sessions, p, l) /\ l \in Requests /\ thread[r].prompt = Recent(p, r.turn - 1)
  BY <1>1, HeldIsOwn DEF ThreadInOrder
<1>4. /\ Answered(p) = r.turn - 1 /\ ~Answering(p)
      /\ Answered(p)' = r.turn - 1 /\ Answering(p)'
  BY <1>1, <1>2 DEF Answered, Answering
<1>5. list[l] = Recent(p, r.turn - 1)
  BY <1>3, <1>4 DEF ListsRemember, Remembered
<1>6. list'[l] = Append(list[l], u)
  BY <1>3 DEF AppendUser, Message, Said, Owned
<1>7. Remembered(p)' = Append(Recent(p, r.turn - 1), u)
  BY <1>1, <1>4 DEF Remembered, Recent, Conversation, Said
<1>8. ListsRemember(p)'
  <2>1. \A m \in Requests : HoldsIn(sessions', p, m) => list'[m] = Remembered(p)'
    BY <1>1, <1>3, <1>5, <1>6, <1>7, OneList
  <2>2. ~Absent(sessions', p)
    BY <1>1, <1>3 DEF HoldsIn, Absent
  <2> QED
    BY <2>1, <2>2 DEF ListsRemember
<1> QED
  BY <1>1, <1>2, <1>3, <1>8 DEF ThreadInOrder, Recent, Conversation

LEMMA ReplyIsRemembered ==
  ASSUME Owned, ClientTypes, OneEach(sessions), NEW r \in Requests, Moving(r), AppendReply(r),
         ListsRemember(r.probe), ThreadInOrder(r.probe)
  PROVE  ListsRemember(r.probe)' /\ ThreadInOrder(r.probe)'
<1> DEFINE p == r.probe
           l == thread[r].list
           u == Said(p, r.turn, "user")
           a == Said(p, r.turn, "assistant")
<1>1. /\ request'[p] = r /\ request[p] = r /\ wire[r].status = "sent" /\ p \in Probes
      /\ thread[r].pc = "answer" /\ UNCHANGED sessions /\ End(r, "reply")
  BY DEF Moving, phaseVars, AppendReply, At
<1>2. thread'[r].pc = "ended" /\ wire'[r].status = "reply"
  BY <1>1, EndMoves
<1>3. HoldsIn(sessions, p, l) /\ l \in Requests /\ r.turn \in Nat \ {0}
  BY <1>1, HeldIsOwn, ServiceAssumption DEF ThreadInOrder, Requests
<1>4. /\ Answered(p) = r.turn - 1 /\ Answering(p)
      /\ Answered(p)' = r.turn /\ ~Answering(p)'
  BY <1>1, <1>2 DEF Answered, Answering
<1>5. list[l] = Append(Recent(p, r.turn - 1), u)
  BY <1>1, <1>3, <1>4 DEF ListsRemember, Remembered
<1>6. list'[l] = LastOf(Append(list[l], a), MaxHistory)
  BY <1>3 DEF AppendReply, Message, Said, Owned
<1>7. Remembered(p)' = Recent(p, r.turn)
  BY <1>4 DEF Remembered, Recent, Conversation
<1>8. Recent(p, r.turn) = LastOf(Append(Append(Recent(p, r.turn - 1), u), a), MaxHistory)
  BY <1>1, <1>3, RecentGrows
<1>9. list'[l] = Remembered(p)'
  BY <1>5, <1>6, <1>7, <1>8
<1>10. ListsRemember(p)'
  <2>1. \A m \in Requests : HoldsIn(sessions', p, m) => list'[m] = Remembered(p)'
    BY <1>1, <1>3, <1>9, OneList
  <2>2. ~Absent(sessions', p)
    BY <1>1, <1>3 DEF HoldsIn, Absent
  <2> QED
    BY <2>1, <2>2 DEF ListsRemember
<1> QED
  BY <1>1, <1>2, <1>10 DEF ThreadInOrder

LEMMA ServiceRemembers ==
  ASSUME IsFiniteSet(Probes), Owned, ClientInv, AwaitedInv, HistoryInv, Service
  PROVE  HistoryInv'
<1>1. PICK r \in Requests : Handle(r) /\ UNCHANGED phaseVars
  BY DEF Service
<1>2. restarts' = restarts /\ gaveUp' = gaveUp /\ request' = request
  BY <1>1 DEF phaseVars, Handle, Unready, Lookup, Touch, Room, Evict, Insert, Get, Prompt, BackendFails,
         AppendUser, AppendReply
<1>3. SUFFICES ASSUME Quiet
               PROVE  /\ RoomForAll' /\ OneEach(sessions')
                      /\ \A p \in Probes : ListsRemember(p)' /\ ThreadInOrder(p)'
  <2>1. restarts' \in Nat /\ OwnRequests' /\ (Quiet' => Quiet)
    BY <1>2 DEF HistoryInv, OwnRequests, Quiet
  <2>2. OneEach(sessions') <=> OneEach(sessions)'
    BY DEF OneEach
  <2> QED
    BY <2>1, <2>2 DEF HistoryInv
<1>4. gaveUp = 0 /\ Cardinality(Probes) <= MaxSessions /\ ClientTypes
  BY <1>3 DEF Quiet, ClientInv
<1>5. /\ OwnRequests /\ RoomForAll /\ OneEach(sessions)
      /\ \A p \in Probes : ListsRemember(p) /\ ThreadInOrder(p)
  BY <1>3 DEF HistoryInv
<1>6. Moving(r)
  BY <1>1, <1>4, HandledIsAwaited DEF Moving
<1>7. TableMoved(r)
  BY <1>4, <1>5, <1>6, HandleMovesTable
<1>8. ListsRemember(r.probe)' /\ ThreadInOrder(r.probe)'
  <2>1. ListsRemember(r.probe) /\ ThreadInOrder(r.probe)
    BY <1>5, <1>6 DEF Moving
  <2>2. CASE Unready(r) \/ Lookup(r) \/ Touch(r) \/ Room(r) \/ Get(r) \/ BackendFails(r)
    BY <1>4, <1>6, <1>7, <2>1, <2>2, MovesRemember
  <2>3. CASE Evict(r)
    BY <1>5, <1>6, <1>7, <2>1, <2>3, EvictionRemembers
  <2>4. CASE Insert(r)
    BY <1>6, <1>7, <2>1, <2>4, InsertionRemembers
  <2>5. CASE Prompt(r)
    BY <1>6, <1>7, <2>1, <2>5, PromptIsRecent
  <2>6. CASE AppendUser(r)
    BY <1>5, <1>6, <2>1, <2>6, UserIsRemembered
  <2>7. CASE AppendReply(r)
    BY <1>4, <1>5, <1>6, <2>1, <2>7, ReplyIsRemembered
  <2> QED
    BY <1>1, <2>2, <2>3, <2>4, <2>5, <2>6, <2>7 DEF Handle
<1>9. ASSUME NEW p \in Probes, p # r.probe
      PROVE  ListsRemember(p)' /\ ThreadInOrder(p)'
  BY <1>4, <1>5, <1>6, <1>7, <1>9, OthersRemember
<1>10. RoomForAll' /\ OneEach(sessions')
  BY <1>7 DEF TableMoved
<1> QED
  BY <1>8, <1>9, <1>10

(***************************************************************************)
(* The steps of the client: a request is sent when the one before has been *)
(* answered or has failed, and no thread serves it yet.                    *)
(***************************************************************************)
LEMMA SendingRemembers ==
  ASSUME ClientInv, AwaitedInv, gaveUp = 0, OwnRequests, NEW p \in Probes, NEW t, NEW a, Send(p, t, a),
         NEW r \in Requests, r = [probe |-> p, turn |-> t, attempt |-> a], request[p] # r,
         request[p] \in Requests => wire[request[p]].status # "sent",
         Answered(p) = t - 1, UNCHANGED <<sessions, list, thread>>,
         \A q \in Probes : ListsRemember(q) /\ ThreadInOrder(q)
  PROVE  OwnRequests' /\ \A q \in Probes : ListsRemember(q)' /\ ThreadInOrder(q)'
<1>1. /\ request' = [request EXCEPT ![p] = r] /\ wire' = [wire EXCEPT ![r].status = "sent"]
      /\ r.probe = p /\ r.turn = t
  BY DEF Send
<1>2. /\ wire \in [Requests -> [status : Statuses, build : Builds \cup {NoBuild}]]
      /\ request \in [Probes -> Requests \cup {NoReq}]
  BY DEF ClientInv, ClientTypes
<1>3. /\ request'[p] = r /\ wire'[r].status = "sent"
      /\ \A q \in Probes : q # p => request'[q] = request[q]
      /\ \A q \in Requests : q # r => wire'[q] = wire[q]
  BY <1>1, <1>2
<1>4. OwnRequests'
  BY <1>1, <1>3 DEF OwnRequests
<1>5. thread[r].pc \in {"none", "ended"}
  BY <1>1, WorkingIsAwaited
<1>6. ~Answering(p)
  BY WorkingIsAwaited DEF Answering
<1>7. Answered(p)' = t - 1 /\ ~Answering(p)'
  BY <1>1, <1>3, <1>5 DEF Answered, Answering
<1>8. ListsRemember(p)' /\ ThreadInOrder(p)'
  <2>1. Remembered(p)' = Remembered(p) /\ Answered(p)' = Answered(p)
    BY <1>6, <1>7 DEF Remembered, Recent, Conversation
  <2> QED
    BY <1>3, <1>5, <2>1 DEF ListsRemember, ThreadInOrder
<1>9. ASSUME NEW q \in Probes, q # p
      PROVE  ListsRemember(q)' /\ ThreadInOrder(q)'
  <2>1. /\ request'[q] = request[q]
        /\ request[q] \in Requests => wire'[request[q]] = wire[request[q]]
    BY <1>1, <1>3, <1>9 DEF OwnRequests
  <2>2. Answered(q)' = Answered(q) /\ Answering(q)' = Answering(q)
    BY <2>1 DEF Answered, Answering
  <2>3. Remembered(q)' = Remembered(q)
    BY <2>1, <2>2 DEF Remembered, Recent, Conversation
  <2> QED
    BY <1>9, <2>1, <2>2, <2>3 DEF ListsRemember, ThreadInOrder, Recent, Conversation
<1> QED
  BY <1>4, <1>8, <1>9

LEMMA HarnessRemembers ==
  ASSUME ClientInv, AwaitedInv, HistoryInv, Harness
  PROVE  HistoryInv'
<1>1. /\ UNCHANGED <<sessions, list, thread, restarts>>
      /\ UNCHANGED <<request, wire, gaveUp>> \/ \E p \in Probes : Begin(p) \/ KeepReply(p) \/ Retry(p) \/ GiveUp(p)
  BY DEF Harness, Health, HealthFails, Raise, Return, Begin, Mismatch, KeepReply, Retry,
         Unavailable, GiveUp, Cancel, Fail, autVars
<1>2. /\ RoomForAll' <=> RoomForAll
      /\ OneEach(sessions)' <=> OneEach(sessions)
  BY <1>1 DEF RoomForAll, Evicting, Shape, OneEach
<1>3. CASE UNCHANGED <<request, wire, gaveUp>>
  <2>1. \A p \in Probes : Answered(p)' = Answered(p) /\ Answering(p)' = Answering(p)
    BY <1>1, <1>3 DEF Answered, Answering
  <2>2. \A p \in Probes : Remembered(p)' = Remembered(p)
    BY <1>3, <2>1 DEF Remembered, Recent, Conversation
  <2>3. \A p \in Probes : /\ ListsRemember(p) => ListsRemember(p)'
                          /\ ThreadInOrder(p) => ThreadInOrder(p)'
    BY <1>1, <1>3, <2>1, <2>2 DEF ListsRemember, ThreadInOrder, Recent, Conversation
  <2>4. OwnRequests' /\ restarts' \in Nat /\ (Quiet' => Quiet)
    BY <1>1, <1>3 DEF HistoryInv, OwnRequests, Quiet
  <2> QED
    BY <1>2, <2>3, <2>4 DEF HistoryInv
<1>4. ASSUME NEW p \in Probes, NEW t \in Nat, NEW a, Send(p, t, a), UNCHANGED gaveUp,
             [probe |-> p, turn |-> t, attempt |-> a] \in Requests,
             request[p] # [probe |-> p, turn |-> t, attempt |-> a],
             request[p] \in Requests => wire[request[p]].status # "sent",
             Answered(p) = t - 1
      PROVE  HistoryInv'
  <2> DEFINE r == [probe |-> p, turn |-> t, attempt |-> a]
  <2>0. OwnRequests' /\ restarts' \in Nat
    <3>1. restarts' \in Nat /\ OwnRequests /\ request \in [Probes -> Requests \cup {NoReq}]
      BY <1>1 DEF HistoryInv, ClientInv, ClientTypes
    <3>2. request' = [request EXCEPT ![p] = r] /\ r.probe = p
      BY <1>4 DEF Send
    <3> QED
      BY <3>1, <3>2 DEF OwnRequests
  <2>1. SUFFICES ASSUME Quiet
                 PROVE  \A q \in Probes : ListsRemember(q)' /\ ThreadInOrder(q)'
    <3>1. Quiet' => Quiet
      BY <1>1, <1>4 DEF Quiet
    <3> QED
      BY <1>2, <2>0, <3>1 DEF HistoryInv
  <2>2. /\ gaveUp = 0 /\ OwnRequests /\ \A q \in Probes : ListsRemember(q) /\ ThreadInOrder(q)
    BY <2>1 DEF HistoryInv, Quiet
  <2>3. r \in Requests /\ request[p] # r
    BY <1>4
  <2> HIDE DEF r
  <2> QED
    BY <1>1, <1>4, <2>2, <2>3, SendingRemembers DEF r
<1>5. ASSUME NEW p \in Probes, Begin(p)
      PROVE  HistoryInv'
  <2>1. task[p] = "waiting" /\ Send(p, 1, 1) /\ UNCHANGED gaveUp
    BY <1>5 DEF Begin
  <2>2. request[p] \notin Requests /\ [probe |-> p, turn |-> 1, attempt |-> 1] \in Requests
    BY <2>1, NoReqIsNone, RequestsAre, ServiceAssumption DEF ClientInv, TurnsInOrder
  <2>3. Answered(p) = 1 - 1
    BY <2>2 DEF Answered
  <2> QED
    BY <1>4, <2>1, <2>2, <2>3
<1>6. ASSUME NEW p \in Probes, Retry(p)
      PROVE  HistoryInv'
  <2> DEFINE q == request[p]
  <2>1. /\ task[p] = "awaiting" /\ wire[q].status = "error" /\ q.attempt < AgentAttempts
        /\ Send(p, q.turn, q.attempt + 1) /\ UNCHANGED gaveUp
    BY <1>6 DEF Retry, Awaiting
  <2>2. q \in Requests /\ q.turn \in 1..MaxTurns /\ q.attempt \in 1..AgentAttempts
    BY <2>1 DEF ClientInv, TurnsInOrder, Requests
  <2>3. q.attempt + 1 \in 1..AgentAttempts /\ q.attempt + 1 # q.attempt /\ q.turn \in Nat
    BY <2>1, <2>2, ServiceAssumption
  <2>4. [probe |-> p, turn |-> q.turn, attempt |-> q.attempt + 1] \in Requests
    BY <2>2, <2>3, RequestsAre
  <2>5. q # [probe |-> p, turn |-> q.turn, attempt |-> q.attempt + 1]
    BY <2>3
  <2>6. Answered(p) = q.turn - 1
    BY <2>1, <2>2 DEF Answered
  <2> QED
    BY <1>4, <2>1, <2>3, <2>4, <2>5, <2>6
<1>7. ASSUME NEW p \in Probes, KeepReply(p)
      PROVE  HistoryInv'
  <2> DEFINE q == request[p]
  <2>1. /\ task[p] = "awaiting" /\ wire[q].status = "reply" /\ UNCHANGED gaveUp
        /\ UNCHANGED <<request, wire>> \/ (q.turn # Turns[p] /\ Send(p, q.turn + 1, 1))
    BY <1>7 DEF KeepReply, Awaiting
  <2>2. CASE UNCHANGED <<request, wire>>
    BY <1>3, <2>1, <2>2
  <2>3. CASE q.turn # Turns[p] /\ Send(p, q.turn + 1, 1)
    <3>1. /\ q \in Requests /\ q.turn \in 1..MaxTurns /\ q.turn <= Turns[p]
          /\ Turns[p] \in 1..MaxTurns /\ MaxTurns \in Nat /\ 1 \in 1..AgentAttempts
      BY <2>1, PhaseAssumption, ServiceAssumption DEF ClientInv, TurnsInOrder, Requests
    <3>2. q.turn + 1 \in 1..MaxTurns /\ q.turn + 1 # q.turn /\ q.turn + 1 \in Nat /\ (q.turn + 1) - 1 = q.turn
      BY <2>3, <3>1
    <3>3. [probe |-> p, turn |-> q.turn + 1, attempt |-> 1] \in Requests
      BY <3>1, <3>2, RequestsAre
    <3>4. q # [probe |-> p, turn |-> q.turn + 1, attempt |-> 1]
      BY <3>2
    <3>5. Answered(p) = (q.turn + 1) - 1
      BY <2>1, <3>1, <3>2 DEF Answered
    <3> QED
      BY <1>4, <2>1, <2>3, <3>2, <3>3, <3>4, <3>5
  <2> QED
    BY <2>1, <2>2, <2>3
<1>8. ASSUME NEW p \in Probes, GiveUp(p)
      PROVE  HistoryInv'
  <2>1. gaveUp' = gaveUp + 1 /\ gaveUp \in Nat /\ request' = request
    BY <1>8 DEF GiveUp, AwaitedInv, TasksOfThePhase
  <2>2. gaveUp' # 0
    BY <2>1
  <2> QED
    BY <1>1, <2>1, <2>2 DEF HistoryInv, Quiet, OwnRequests
<1> QED
  BY <1>1, <1>3, <1>5, <1>6, <1>7, <1>8

LEMMA HistoryIsKept ==
  ASSUME IsFiniteSet(Probes), Owned, ClientInv, AwaitedInv, HistoryInv, [Next]_vars
  PROVE  HistoryInv'
<1>1. CASE Harness
  BY <1>1, HarnessRemembers
<1>2. CASE Service
  BY <1>2, ServiceRemembers
<1>3. CASE Restart /\ UNCHANGED phaseVars
  <2>1. restarts' = restarts + 1 /\ request' = request /\ restarts \in Nat
    BY <1>3 DEF Restart, phaseVars, HistoryInv
  <2>2. restarts' # 0 /\ restarts' \in Nat
    BY <2>1
  <2> QED
    BY <2>1, <2>2 DEF HistoryInv, Quiet, OwnRequests
<1>4. CASE UNCHANGED vars
  <2>1. UNCHANGED <<restarts, sessions, list, thread, wire, request, gaveUp>>
    BY <1>4 DEF vars, autVars, phaseVars
  <2>2. \A p : Answered(p)' = Answered(p) /\ Answering(p)' = Answering(p)
    BY <2>1 DEF Answered, Answering
  <2>3. \A p : Remembered(p)' = Remembered(p)
    BY <2>1, <2>2 DEF Remembered, Recent, Conversation
  <2>4. \A p : /\ ListsRemember(p) => ListsRemember(p)'
               /\ ThreadInOrder(p) => ThreadInOrder(p)'
    BY <2>1, <2>2, <2>3 DEF ListsRemember, ThreadInOrder, Recent, Conversation
  <2>5. (RoomForAll => RoomForAll') /\ (OneEach(sessions) => OneEach(sessions)')
    BY <2>1 DEF RoomForAll, Evicting, Shape, OneEach
  <2> QED
    BY <2>1, <2>4, <2>5 DEF HistoryInv, OwnRequests, Quiet
<1> QED
  BY <1>1, <1>2, <1>3, <1>4 DEF Next

LEMMA NothingToRemember ==
  ASSUME Init
  PROVE  HistoryInv
<1>1. /\ restarts = 0 /\ request = [p \in Probes |-> NoReq] /\ \A r \in Requests : thread[r].pc = "none"
      /\ sessions = [i \in DOMAIN OldSessions |-> [id |-> OldSessions[i], list |-> NoReq]]
  BY DEF Init, InitService, Idle
<1>2. OldSessions \in Seq(Range(OldSessions)) /\ \A i \in 1..Len(OldSessions) : OldSessions[i] \notin Probes
  BY ServiceAssumption
<1>3. DOMAIN sessions = 1..Len(OldSessions) /\ Len(OldSessions) \in Nat
  BY <1>1, <1>2
<1>4. Len(sessions) = Len(OldSessions) /\ \A i \in 1..Len(sessions) : sessions[i].id \notin Probes
  BY <1>1, <1>2, <1>3
<1>5. RoomForAll
  <2>1. IsFiniteSet(Evicting) /\ Cardinality(Evicting) = 0
    <3>1. Evicting = {}
      BY <1>1 DEF Evicting
    <3> QED
      BY <3>1, FS_EmptySet
  <2>2. Len(sessions) \in 0..Len(sessions) /\ Shape(sessions, Len(sessions))
    BY <1>3, <1>4 DEF Shape
  <2>3. Cardinality(Evicting) <= Len(sessions)
    BY <1>3, <1>4, <2>1
  <2> QED
    BY <2>1, <2>2, <2>3 DEF RoomForAll
<1>6. OneEach(sessions)
  BY <1>4 DEF OneEach
<1>7. \A p \in Probes : request[p] \notin Requests
  BY <1>1, NoReqIsNone
<1>8. \A p \in Probes : ListsRemember(p) /\ ThreadInOrder(p)
  BY <1>4, <1>7 DEF ListsRemember, ThreadInOrder, HoldsIn, Answered
<1> QED
  BY <1>1, <1>5, <1>6, <1>7, <1>8 DEF HistoryInv, OwnRequests

\* While no client gives up and the container stays, what is put before the model
\* of an agent is the conversation so far, or its last messages: an attempt that
\* failed leaves no trace in it, no message is lost or doubled, and neither older
\* sessions nor the run's own evict a conversation in progress (_history and chat).
THEOREM HistoriesAreExact ==
  ASSUME IsFiniteSet(Probes)
  PROVE  Spec => []HistoryExact
<1>1. Init => HistoryInv
  BY NothingToRemember
<1>2. Owned /\ ClientInv /\ AwaitedInv /\ HistoryInv /\ [Next]_vars => HistoryInv'
  BY HistoryIsKept
<1>3. Owned /\ ClientInv /\ AwaitedInv /\ HistoryInv => HistoryExact
  <2> SUFFICES ASSUME Owned, AwaitedInv, HistoryInv, Quiet,
                      NEW r \in Requests, thread[r].pc \in {"generate", "answer"}
               PROVE  thread[r].prompt = LastOf(Conversation(r.probe, r.turn - 1), MaxHistory)
    BY DEF HistoryExact, Quiet
  <2>1. request[r.probe] = r /\ r.probe \in Probes
    BY WorkingIsAwaited DEF Quiet, Requests
  <2>2. ThreadInOrder(r.probe)
    BY <2>1 DEF HistoryInv
  <2> QED
    BY <2>1, <2>2 DEF ThreadInOrder, Recent
<1> QED
  BY <1>1, <1>2, <1>3, ClientAlways, AwaitedAlways, ListsAreOwned, PTL DEF Spec
===============================================================================
