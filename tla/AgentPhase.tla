------------------------------ MODULE AgentPhase ------------------------------
(***************************************************************************)
(* Phase 1 of a run (harness/execution/runner.py, agent_phase): read        *)
(* /health, then send every probe to the agent under test, Concurrency at  *)
(* a time, one conversation per probe, one retry per turn. The first       *)
(* failure cancels the rest and nothing is returned.                       *)
(*                                                                         *)
(* A client that gives up on a request - its timeout, a lost response -    *)
(* does not stop the thread that serves it.                                *)
(***************************************************************************)
EXTENDS AutService, FiniteSets

CONSTANTS
  Turns,          \* Turns[p]: how many messages probe p has
  Concurrency,    \* --concurrency
  RequireFrozen,  \* --require-frozen
  Unfrozen,       \* the build that says it was never frozen
  MaxGiveUps      \* bound on requests that time out or lose their response

ASSUME PhaseAssumption ==
  /\ Turns \in [Probes -> 1..MaxTurns]
  /\ Concurrency \in Nat \ {0}
  /\ RequireFrozen \in BOOLEAN /\ MaxGiveUps \in Nat

VARIABLES
  phase,    \* "health", "fanout", "cancelling", "returned" or "raised"
  expect,   \* the aut_commit_sha every reply must carry, NoBuild if unfrozen
  task,     \* where run_one is for each probe
  request,  \* the request it last sent
  replies,  \* the requests whose replies it kept
  gaveUp    \* how often a client gave up on a request the agent had accepted

phaseVars == <<phase, expect, task, request, replies, gaveUp>>
vars == <<autVars, phaseVars>>

Active == {p \in Probes : task[p] = "awaiting"}

\* A Send is the client's half of a request.
Send(p, turn, attempt) ==
  LET r == [probe |-> p, turn |-> turn, attempt |-> attempt] IN
  /\ request' = [request EXCEPT ![p] = r]
  /\ wire' = [wire EXCEPT ![r].status = "sent"]

\* /health, and the refusal of an unfrozen build.
Health ==
  /\ phase = "health"
  /\ IF build = Unfrozen
     THEN expect' = NoBuild /\ phase' = IF RequireFrozen THEN "raised" ELSE "fanout"
     ELSE expect' = build /\ phase' = "fanout"
  /\ UNCHANGED <<autVars, task, request, replies, gaveUp>>

HealthFails ==
  /\ phase = "health"
  /\ phase' = "raised"
  /\ UNCHANGED <<autVars, expect, task, request, replies, gaveUp>>

\* async with limiter: the first message of the probe.
Begin(p) ==
  /\ phase = "fanout" /\ task[p] = "waiting"
  /\ Cardinality(Active) < Concurrency
  /\ task' = [task EXCEPT ![p] = "awaiting"]
  /\ Send(p, 1, 1)
  /\ UNCHANGED <<build, restarts, sessions, list, thread, phase, expect, replies, gaveUp>>

Awaiting(p, status) == task[p] = "awaiting" /\ wire[request[p]].status = status

\* The exception leaves run_one: the task group cancels the siblings.
Fail(p) ==
  /\ task' = [task EXCEPT ![p] = "failed"]
  /\ phase' = "cancelling"
  /\ UNCHANGED <<autVars, expect, request, replies, gaveUp>>

Wrong(p) == expect # NoBuild /\ wire[request[p]].build # expect

Mismatch(p) ==
  /\ phase \in {"fanout", "cancelling"}
  /\ Awaiting(p, "reply") /\ Wrong(p)
  /\ Fail(p)

KeepReplyOfAnyBuild(p) ==
  /\ phase \in {"fanout", "cancelling"}
  /\ Awaiting(p, "reply")
  /\ replies' = [replies EXCEPT ![p] = Append(@, request[p])]
  /\ IF request[p].turn = Turns[p]
     THEN task' = [task EXCEPT ![p] = "done"] /\ UNCHANGED <<request, wire>>
     ELSE phase = "fanout" /\ Send(p, request[p].turn + 1, 1) /\ UNCHANGED task
  /\ UNCHANGED <<build, restarts, sessions, list, thread, phase, expect, gaveUp>>

\* The next turn, unless the task has been cancelled meanwhile.
KeepReply(p) ==
  /\ phase \in {"fanout", "cancelling"}
  /\ Awaiting(p, "reply") /\ ~Wrong(p)
  /\ replies' = [replies EXCEPT ![p] = Append(@, request[p])]
  /\ IF request[p].turn = Turns[p]
     THEN task' = [task EXCEPT ![p] = "done"] /\ UNCHANGED <<request, wire>>
     ELSE phase = "fanout" /\ Send(p, request[p].turn + 1, 1) /\ UNCHANGED task
  /\ UNCHANGED <<build, restarts, sessions, list, thread, phase, expect, gaveUp>>

\* Wrong variant: the loop does not count.
RetryForever(p) ==
  /\ phase = "fanout"
  /\ Awaiting(p, "error")
  /\ wire' = [wire EXCEPT ![request[p]].status = "sent"]
  /\ thread' = [thread EXCEPT ![request[p]] = Idle]
  /\ UNCHANGED <<build, restarts, sessions, list, phase, expect, task, request, replies, gaveUp>>

Retry(p) ==
  /\ phase = "fanout"
  /\ Awaiting(p, "error")
  /\ request[p].attempt < AgentAttempts
  /\ Send(p, request[p].turn, request[p].attempt + 1)
  /\ UNCHANGED <<build, restarts, sessions, list, thread, phase, expect, task, replies, gaveUp>>

Unavailable(p) ==
  /\ phase \in {"fanout", "cancelling"}
  /\ Awaiting(p, "error")
  /\ request[p].attempt = AgentAttempts
  /\ Fail(p)

\* The client's timeout, or a response lost on the way: an exception like any
\* other, though the agent may be at work on the request or have answered it.
GiveUp(p) ==
  /\ gaveUp < MaxGiveUps
  /\ \E s \in {"sent", "reply"} : Awaiting(p, s)
  /\ wire' = [wire EXCEPT ![request[p]].status = "error"]
  /\ gaveUp' = gaveUp + 1
  /\ UNCHANGED <<build, restarts, sessions, list, thread, phase, expect, task, request, replies>>

Cancel(p) ==
  /\ phase = "cancelling"
  /\ task[p] \in {"waiting", "awaiting"}
  /\ task' = [task EXCEPT ![p] = "cancelled"]
  /\ UNCHANGED <<autVars, phase, expect, request, replies, gaveUp>>

Raise ==
  /\ phase = "cancelling"
  /\ \A p \in Probes : task[p] \notin {"waiting", "awaiting"}
  /\ phase' = "raised"
  /\ UNCHANGED <<autVars, expect, task, request, replies, gaveUp>>

Return ==
  /\ phase = "fanout"
  /\ \A p \in Probes : task[p] = "done"
  /\ phase' = "returned"
  /\ UNCHANGED <<autVars, expect, task, request, replies, gaveUp>>

(***************************************************************************)
(* The specification.                                                      *)
(***************************************************************************)
Init ==
  /\ InitService
  /\ phase = "health"
  /\ expect = NoBuild
  /\ task = [p \in Probes |-> "waiting"]
  /\ request = [p \in Probes |-> NoReq]
  /\ replies = [p \in Probes |-> <<>>]
  /\ gaveUp = 0

Harness ==
  \/ Health \/ HealthFails \/ Raise \/ Return
  \/ \E p \in Probes : \/ Begin(p) \/ Mismatch(p) \/ KeepReply(p) \/ Retry(p)
                       \/ Unavailable(p) \/ GiveUp(p) \/ Cancel(p)

Service == \E r \in Requests : Handle(r) /\ UNCHANGED phaseVars

Next == Harness \/ Service \/ (Restart /\ UNCHANGED phaseVars)

\* The event loop keeps going, and so does every thread of the server: the
\* generator's own timeouts make BackendError of a model that hangs.
Spec == Init /\ [][Next]_vars /\ WF_vars(Harness) /\ WF_vars(Service)

(***************************************************************************)
(* Properties.                                                             *)
(***************************************************************************)
\* A conversation never sees another probe's messages, whatever the threads,
\* evictions, retries and restarts do (new_session_id).
NoLeak ==
  \A r \in Requests : \A i \in DOMAIN thread[r].prompt : thread[r].prompt[i].probe = r.probe

Conversation(p, turns) ==
  [i \in 1..(2 * turns) |-> [probe |-> p, turn |-> (i + 1) \div 2,
                             role |-> IF i % 2 = 1 THEN "user" ELSE "assistant"]]

\* While no client gives up and no container restarts, and the table has room for
\* the run's sessions, a turn is answered with the turns before it as history,
\* each once: a failed attempt leaves no trace, and concurrent requests and old
\* sessions do not evict a conversation in progress.
HistoryExact ==
  gaveUp = 0 /\ restarts = 0 /\ Cardinality(Probes) <= MaxSessions =>
    \A r \in Requests : thread[r].pc \in {"generate", "answer"} =>
      thread[r].prompt = LastOf(Conversation(r.probe, r.turn - 1), MaxHistory)

\* What phase 1 hands on is complete - a reply to every turn of every probe, in
\* order - and, for a frozen agent, comes from the one build /health named.
ReturnedIsComplete ==
  phase = "returned" => \A p \in Probes :
    /\ Len(replies[p]) = Turns[p]
    /\ \A t \in 1..Len(replies[p]) :
         /\ replies[p][t].probe = p /\ replies[p][t].turn = t
         /\ expect # NoBuild => wire[replies[p][t]].build = expect

\* The table can pass its cap only by the requests that are past the size check at
\* the same time: with no thread left behind by a client that gave up, one less than
\* the client's concurrency.
SessionsBounded == gaveUp = 0 => Len(sessions) <= MaxSessions + Concurrency - 1

\* The phase ends, whatever the agent does.
PhaseEnds == <>(phase \in {"returned", "raised"})
===============================================================================
