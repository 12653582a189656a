------------------------------ MODULE AutService ------------------------------
(***************************************************************************)
(* An agent under test (aut-naive/app.py and aut-strong/app.py): POST /chat *)
(* with a conversation history per session, kept in an OrderedDict used as *)
(* an LRU. The handlers are synchronous, so the web server runs each       *)
(* request on a thread of its pool and their steps interleave; each        *)
(* dictionary or list operation is atomic.                                 *)
(***************************************************************************)
EXTENDS Integers, Sequences, SequencesExt

CONSTANTS
  Probes,         \* the client opens one session per probe
  MaxTurns,       \* turns of the longest probe
  AgentAttempts,  \* AGENT_ATTEMPTS: requests a client sends for one turn
  Builds,         \* aut_commit_sha values a container may have been built with
  MaxSessions,    \* MAX_SESSIONS, 2000 in the code
  MaxHistory,     \* MAX_HISTORY_MESSAGES, 12 in the code
  OldSessions,    \* sessions of earlier clients, oldest first
  MaxRestarts     \* bound on container restarts

ASSUME ServiceAssumption ==
  /\ {MaxTurns, AgentAttempts, MaxSessions, MaxHistory} \subseteq Nat \ {0}
  /\ MaxRestarts \in Nat
  /\ OldSessions \in Seq(Range(OldSessions))
  /\ \A i \in 1..Len(OldSessions) : OldSessions[i] \notin Probes

Requests == [probe : Probes, turn : 1..MaxTurns, attempt : 1..AgentAttempts]
NoBuild  == "no build"

VARIABLES
  build,     \* the build answering now
  restarts,
  sessions,  \* _sessions: [id, list] in LRU order; a list is named by who made it
  list,      \* the messages of the list each request made
  thread,    \* of each request: where it is, the list it holds, the history it
             \* put before the model
  wire       \* what the client can see: [status, build] of each request

autVars == <<build, restarts, sessions, list, thread, wire>>

NoReq == [probe |-> "none"]
Idle  == [pc |-> "none", list |-> NoReq, prompt |-> <<>>]
Ended == [pc |-> "ended", list |-> NoReq, prompt |-> <<>>]

\* Wrong variant: a session id that does not name the probe.
SessionOfShared(r) == "shared"

\* new_session_id: a session of its own for every probe of every run.
SessionOf(r) == r.probe

Index(s) == {i \in DOMAIN sessions : sessions[i].id = s}
Known(s) == Index(s) # {}
Held(s)  == sessions[CHOOSE i \in Index(s) : TRUE].list

At(r, pc) == thread[r].pc = pc
Go(r, pc) == thread' = [thread EXCEPT ![r].pc = pc]

\* The thread ends with status and the client sees it, if it still waits.
End(r, status) ==
  /\ thread' = [thread EXCEPT ![r] = Ended]
  /\ wire' = IF wire[r].status = "sent"
             THEN [wire EXCEPT ![r] = [status |-> status, build |-> build]]
             ELSE wire

\* The retriever or the generator cannot be built: 503 before the handler runs.
Unready(r) ==
  /\ At(r, "none") /\ wire[r].status # "unsent"
  /\ End(r, "error")
  /\ UNCHANGED <<build, restarts, sessions, list>>

(***************************************************************************)
(* _history(session_id)                                                    *)
(***************************************************************************)
Lookup(r) ==
  /\ At(r, "none") /\ wire[r].status # "unsent"
  /\ Go(r, IF Known(SessionOf(r)) THEN "touch" ELSE "room")
  /\ UNCHANGED <<build, restarts, sessions, list, wire>>

\* move_to_end raises KeyError, a 500, when the session has just been evicted.
Touch(r) ==
  /\ At(r, "touch")
  /\ IF Known(SessionOf(r))
     THEN /\ \E i \in Index(SessionOf(r)) :
               sessions' = Append(RemoveAt(sessions, i), sessions[i])
          /\ Go(r, "get") /\ UNCHANGED wire
     ELSE End(r, "error") /\ UNCHANGED sessions
  /\ UNCHANGED <<build, restarts, list>>

\* Wrong variant: no loop, so nothing is evicted.
RoomUnchecked(r) ==
  /\ At(r, "room")
  /\ Go(r, "insert")
  /\ UNCHANGED <<build, restarts, sessions, list, wire>>

\* while len(_sessions) >= MAX_SESSIONS: ...
Room(r) ==
  /\ At(r, "room")
  /\ Go(r, IF Len(sessions) >= MaxSessions THEN "evict" ELSE "insert")
  /\ UNCHANGED <<build, restarts, sessions, list, wire>>

\* ... popitem(last=False), which raises KeyError on an empty dictionary.
Evict(r) ==
  /\ At(r, "evict")
  /\ IF sessions = <<>>
     THEN End(r, "error") /\ UNCHANGED sessions
     ELSE sessions' = Tail(sessions) /\ Go(r, "room") /\ UNCHANGED wire
  /\ UNCHANGED <<build, restarts, list>>

\* _sessions[session_id] = []: a new list, in place if the key is there by now.
Insert(r) ==
  /\ At(r, "insert")
  /\ LET s == SessionOf(r) IN
     sessions' = IF Known(s)
                 THEN [i \in DOMAIN sessions |->
                         IF i \in Index(s) THEN [id |-> s, list |-> r] ELSE sessions[i]]
                 ELSE Append(sessions, [id |-> s, list |-> r])
  /\ list' = [list EXCEPT ![r] = <<>>]
  /\ Go(r, "get")
  /\ UNCHANGED <<build, restarts, wire>>

\* return _sessions[session_id]
Get(r) ==
  /\ At(r, "get")
  /\ IF Known(SessionOf(r))
     THEN /\ thread' = [thread EXCEPT ![r] = [@ EXCEPT !.pc = "search", !.list = Held(SessionOf(r))]]
          /\ UNCHANGED wire
     ELSE End(r, "error")
  /\ UNCHANGED <<build, restarts, sessions, list>>

(***************************************************************************)
(* chat                                                                    *)
(***************************************************************************)
Message(r, role) == [probe |-> r.probe, turn |-> r.turn, role |-> role]
History(r) == list[thread[r].list]

\* Wrong variant: the message is in the history before the model has answered.
PromptFirst(r) ==
  /\ At(r, "search")
  /\ thread' = [thread EXCEPT ![r] = [@ EXCEPT !.pc = "generate", !.prompt = History(r)]]
  /\ list' = [list EXCEPT ![thread[r].list] = Append(@, Message(r, "user"))]
  /\ UNCHANGED <<build, restarts, sessions, wire>>

\* Retrieval, then build_messages reads the history.
Prompt(r) ==
  /\ At(r, "search")
  /\ thread' = [thread EXCEPT ![r] = [@ EXCEPT !.pc = "generate", !.prompt = History(r)]]
  /\ UNCHANGED <<build, restarts, sessions, list, wire>>

\* BackendError or a blank reply: 502, and nothing is appended.
BackendFails(r) ==
  /\ At(r, "generate")
  /\ End(r, "error")
  /\ UNCHANGED <<build, restarts, sessions, list>>

AppendUser(r) ==
  /\ At(r, "generate")
  /\ list' = [list EXCEPT ![thread[r].list] = Append(@, Message(r, "user"))]
  /\ Go(r, "answer")
  /\ UNCHANGED <<build, restarts, sessions, wire>>

LastOf(s, n) == SubSeq(s, IF Len(s) > n THEN Len(s) - n + 1 ELSE 1, Len(s))

\* The reply, del history[:-MAX_HISTORY_MESSAGES], and the response, which
\* repeats the build.
AppendReply(r) ==
  /\ At(r, "answer")
  /\ list' = [list EXCEPT ![thread[r].list] =
                LastOf(Append(@, Message(r, "assistant")), MaxHistory)]
  /\ End(r, "reply")
  /\ UNCHANGED <<build, restarts, sessions>>

\* The container restarts, perhaps on another build: the sessions are gone and
\* every thread with them.
Restart ==
  /\ restarts < MaxRestarts
  /\ restarts' = restarts + 1
  /\ build' \in Builds
  /\ sessions' = <<>>
  /\ thread' = [r \in Requests |->
                  IF wire[r].status = "unsent" THEN Idle ELSE Ended]
  /\ wire' = [r \in Requests |->
                IF wire[r].status = "sent" THEN [status |-> "error", build |-> NoBuild] ELSE wire[r]]
  /\ UNCHANGED list

InitService ==
  /\ build \in Builds
  /\ restarts = 0
  /\ sessions = [i \in DOMAIN OldSessions |-> [id |-> OldSessions[i], list |-> NoReq]]
  /\ list = [r \in Requests |-> <<>>]
  /\ thread = [r \in Requests |-> Idle]
  /\ wire = [r \in Requests |-> [status |-> "unsent", build |-> NoBuild]]

Handle(r) ==
  \/ Unready(r) \/ Lookup(r) \/ Touch(r) \/ Room(r) \/ Evict(r) \/ Insert(r) \/ Get(r)
  \/ Prompt(r) \/ BackendFails(r) \/ AppendUser(r) \/ AppendReply(r)
===============================================================================
