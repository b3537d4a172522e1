---------------------------- MODULE RobotService ----------------------------
(***************************************************************************)
(* The Robosuite simulator service and the wire to it.  One HTTP thread    *)
(* serves the requests in the order their connections were accepted;       *)
(* SimulatorState keeps at most one backend, which owns one Robosuite      *)
(* environment.  A client blocks on each request for a limited time; what  *)
(* it no longer waits for is served all the same.                          *)
(***************************************************************************)
EXTENDS Integers, Sequences, FiniteSets

CONSTANTS
  Clients,       \* processes that hold a RobosuiteSimClient
  Configs,       \* the BackendConfig values that are asked for
  Faults,        \* library calls that may raise: "make", "reset", "step", "render", "close"
  MaxReference,  \* bound: robot steps of one reference run
  MaxRequests    \* bound: requests ever sent

ASSUME ServiceAssumption ==
  /\ Faults \subseteq {"make", "reset", "step", "render", "close"}
  /\ MaxReference \in Nat
  /\ MaxRequests \in Nat

VARIABLES
  queue,    \* connections accepted by the service, in order
  backend,  \* SimulatorState._backend
  config,   \* SimulatorState._config
  live,     \* environments made and not closed, each named by the request that made it
  moves,    \* history: the requests that stepped the robot, per reset request
  sent,     \* requests sent so far; a request is named by its number
  call,     \* the request each client waits for, or 0
  answer    \* what its wait ended with

simVars  == <<backend, config, live, moves>>
wireVars == <<sent, call>>
serviceVars == <<queue, backend, config, live, moves, sent, call, answer>>

NoBackend == [env |-> 0]
NoConfig  == "none"
Error     == [ok |-> FALSE]
NoAnswer  == [pending |-> TRUE]
NoView    == [ep |-> 0, n |-> 0]

(* RobosuiteBackend.__init__.  An episode is named by the reset request     *)
(* that began it: ep is the one the environment really is in, seed, raw and *)
(* trace are what the backend remembers of it.                              *)
NewBackend(id) == [env |-> id, ep |-> id, seed |-> 0, raw |-> NoView, trace |-> <<>>]

Episodes == 1..MaxRequests

(* Where the robot is: the episode, and the steps it made in it.            *)
World(b) == [ep |-> b.ep, n |-> Len(moves[b.ep])]

(* An answer with an observation; `now` is not part of it: it records when  *)
(* the observation was taken.                                               *)
View(b, cfg) == [ok |-> TRUE, config |-> cfg, seed |-> b.seed, obs |-> b.raw,
                 trace |-> b.trace, now |-> World(b)]

-----------------------------------------------------------------------------
(* The client: RobosuiteSimClient._request.  The request takes the number   *)
(* after n.                                                                 *)
SendAfter(n, c, op, cfg) ==
  /\ n < MaxRequests
  /\ sent' = n + 1
  /\ call' = [call EXCEPT ![c] = n + 1]
  /\ answer' = [answer EXCEPT ![c] = NoAnswer]
  /\ queue' = Append(queue, [id |-> n + 1, from |-> c, op |-> op, config |-> cfg])

Send(c, op, cfg) == SendAfter(sent, c, op, cfg)

Answered(c) == call[c] # 0 /\ answer[c] # NoAnswer

BuggyCallFails(c) ==   \* a call that timed out is repeated
  /\ call[c] # 0
  /\ answer[c] = NoAnswer
  /\ \E i \in 1..Len(queue) : queue[i].id = call[c] /\ queue' = Append(queue, queue[i])
  /\ UNCHANGED <<simVars, sent, call, answer>>

(* The wait ends without an answer: the time is over, or the connection is  *)
(* gone.  The request itself stays where it is.                             *)
CallFails(c) ==
  /\ call[c] # 0
  /\ answer[c] = NoAnswer
  /\ answer' = [answer EXCEPT ![c] = Error]
  /\ UNCHANGED <<queue, simVars, wireVars>>

(* _send: an answer nobody waits for is written to a closed connection.     *)
Reply(r, a) ==
  answer' = IF call[r.from] = r.id /\ answer[r.from] = NoAnswer
            THEN [answer EXCEPT ![r.from] = a] ELSE answer

-----------------------------------------------------------------------------
(* The handlers.  An exception becomes status 500, which is an Error for    *)
(* the client; what was changed before it stays changed.                    *)
BackendUsable == backend # NoBackend /\ backend.env \in live

Refused(r) == Reply(r, Error) /\ UNCHANGED simVars

(* _public_observation may raise on what it renders.                        *)
Observed(r, a) == \/ Reply(r, a)
                  \/ "render" \in Faults /\ Reply(r, Error)

BuggyBegun(b, id) ==   \* the trace of the last episode is kept
  [b EXCEPT !.ep = id, !.seed = id, !.raw = [ep |-> id, n |-> 0]]

Begun(b, id) == [b EXCEPT !.ep = id, !.seed = id, !.raw = [ep |-> id, n |-> 0], !.trace = <<>>]

(* RobosuiteBackend.reset on backend b, while the environments in L are     *)
(* alive: env.reset() rebuilds the simulation and may raise before or after *)
(* the new episode took the old one's place; seed, last observation and     *)
(* trace follow only when it returned.                                      *)
EnvReset(r, b, cfg, L) ==
  \/ /\ "reset" \in Faults
     /\ backend' \in {b, [b EXCEPT !.ep = r.id]}
     /\ live' \in {L, L \ {b.env}}
     /\ Reply(r, Error)
  \/ /\ backend' = Begun(b, r.id)
     /\ live' = L \cup {b.env}
     /\ Observed(r, [View(Begun(b, r.id), cfg) EXCEPT !.now = [ep |-> r.id, n |-> 0]])

BuggyClosed == live   \* the old backend is only forgotten

(* _close_unlocked closes the environment of the backend, if there is one.  *)
Closed == live \ {backend.env}

(* _close_unlocked when backend.close() raises: the backend stays in place, *)
(* its environment may be gone or not.                                      *)
CloseRaises(r) ==
  /\ backend # NoBackend
  /\ "close" \in Faults
  /\ live' \in {live, Closed}
  /\ Reply(r, Error)
  /\ UNCHANGED <<backend, config, moves>>

(* SimulatorState.reset: a backend of the same configuration is kept, any   *)
(* other is closed and a new one is made.                                   *)
ServeReset(r) ==
  \/ /\ backend # NoBackend /\ config = r.config
     /\ EnvReset(r, backend, config, live)
     /\ UNCHANGED <<config, moves>>
  \/ /\ config # r.config
     /\ \/ CloseRaises(r)
        \/ /\ "make" \in Faults
           /\ backend' = NoBackend /\ config' = NoConfig
           /\ live' = Closed
           /\ Reply(r, Error)
           /\ UNCHANGED moves
        \/ /\ config' = r.config
           /\ EnvReset(r, NewBackend(r.id), r.config, Closed \cup {r.id})
           /\ UNCHANGED moves

Moved(id, k) == [moves EXCEPT ![backend.ep] = @ \o [i \in 1..k |-> id]]

(* The backend after k complete steps for request id.                       *)
Stepped(id, k) ==
  IF k = 0 THEN backend
  ELSE [backend EXCEPT !.raw = [ep |-> backend.ep, n |-> Len(moves[backend.ep]) + k],
                       !.trace = @ \o [i \in 1..k |-> id]]

(* RobosuiteBackend.step raises after k complete steps: env.step() before   *)
(* or after it moved the robot, or the observation of a step that was made. *)
StepRaises(r, k) ==
  LET now == Stepped(r.id, k) IN
  \/ /\ "step" \in Faults
     /\ backend' = now
     /\ moves' \in {Moved(r.id, k), Moved(r.id, k + 1)}
  \/ /\ "render" \in Faults
     /\ backend' = [now EXCEPT !.raw = Stepped(r.id, k + 1).raw]
     /\ moves' = Moved(r.id, k + 1)

ServeStep(r) ==
  \/ ~BackendUsable /\ Refused(r)
  \/ /\ BackendUsable
     /\ \/ StepRaises(r, 0) /\ Reply(r, Error)
        \/ /\ backend' = Stepped(r.id, 1)
           /\ moves' = Moved(r.id, 1)
           /\ Reply(r, [View(backend', config) EXCEPT
                          !.now = [ep |-> backend.ep, n |-> Len(moves'[backend.ep])]])
     /\ UNCHANGED <<config, live>>

(* run_reference_policy makes its steps one after the other; the deadline   *)
(* or a failing step ends it in between, and the steps made stay made.      *)
ServeReference(r) ==
  \/ ~BackendUsable /\ Refused(r)
  \/ /\ BackendUsable
     /\ \E k \in 0..MaxReference :
          \/ StepRaises(r, k) /\ Reply(r, Error)
          \/ /\ backend' = Stepped(r.id, k)
             /\ moves' = Moved(r.id, k)
             /\ \/ Reply(r, Error)
                \/ backend'.raw # NoView /\ Observed(r, [View(backend', config) EXCEPT
                                  !.now = [ep |-> backend.ep, n |-> Len(moves'[backend.ep])]])
     /\ UNCHANGED <<config, live>>

(* session (attach) and observe answer what the last reset or step left.    *)
ServeObserve(r) ==
  \/ ~(BackendUsable /\ backend.raw # NoView) /\ Refused(r)
  \/ /\ BackendUsable /\ backend.raw # NoView
     /\ Observed(r, View(backend, config))
     /\ UNCHANGED simVars

(* native_success asks the environment itself.                              *)
ServeSuccess(r) ==
  /\ Reply(r, IF BackendUsable THEN View(backend, config) ELSE Error)
  /\ UNCHANGED simVars

ServeClose(r) ==
  \/ CloseRaises(r)
  \/ /\ backend' = NoBackend /\ config' = NoConfig
     /\ live' = Closed
     /\ Reply(r, [ok |-> TRUE])
     /\ UNCHANGED moves

Handle(r) ==
  \/ r.op = "reset"     /\ ServeReset(r)
  \/ r.op = "step"      /\ ServeStep(r)
  \/ r.op = "reference" /\ ServeReference(r)
  \/ r.op \in {"session", "observation"} /\ ServeObserve(r)
  \/ r.op = "success"   /\ ServeSuccess(r)
  \/ r.op = "close"     /\ ServeClose(r)

BuggyNextRequest == 1..Len(queue)   \* a thread per connection

(* create_server: HTTPServer, one thread.                                   *)
NextRequest == {1}

Serve ==
  /\ queue # <<>>
  /\ \E i \in NextRequest :
       /\ Handle(queue[i])
       /\ queue' = SubSeq(queue, 1, i - 1) \o SubSeq(queue, i + 1, Len(queue))
  /\ UNCHANGED wireVars

ServiceInit ==
  /\ queue = <<>>
  /\ backend = NoBackend /\ config = NoConfig
  /\ live = {}
  /\ moves = [e \in Episodes |-> <<>>]
  /\ sent = 0
  /\ call = [c \in Clients |-> 0]
  /\ answer = [c \in Clients |-> NoAnswer]

-----------------------------------------------------------------------------
(* The service holds one environment at most, whatever raised on the way,   *)
(* and when it holds one, its backend owns it (backend.py:51).              *)
OneLiveEnvironment ==
  \A e \in live : backend.env = e

=============================================================================
