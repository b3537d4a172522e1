-------------------------- MODULE AttentionRuntime --------------------------
(***************************************************************************)
(* The requests of one run in core/runtime.py over core/store.py.  Every   *)
(* transaction of the store is one action; between two of them another     *)
(* caller may act, and a caller may crash.  The call to the advisor takes  *)
(* its time and may raise; AdvisorTokens has its reply cache and tokens.   *)
(***************************************************************************)
EXTENDS Integers, FiniteSets

CONSTANTS
  Requests,   \* the requests of one run
  Limit,      \* budget.assistance_credits
  Callers,    \* threads or processes that use the runtime
  Reopens     \* may a request be opened more than once

ASSUME RuntimeAssumption ==
  /\ IsFiniteSet(Requests) /\ Limit \in Nat
  /\ Reopens \in BOOLEAN

VARIABLES
  live,         \* the requests in live-human-first mode
  late,         \* the requests whose deadline is over
  opened,       \* the requests that somebody began to open
  reservation,  \* table budget_reservations: the status of each request's credit
  request,      \* table requests: the state of each
  response,     \* table responses: who answered each request
  events,       \* table events: the keys of the transitions that were made
  call,         \* what each caller does, where it is, and with which request
  crashed       \* history: has a caller crashed

tables == <<reservation, request, response, events>>
vars == <<live, late, opened, tables, call, crashed>>

Idle == [op |-> "none", pc |-> "idle", req |-> "none"]

-----------------------------------------------------------------------------
REQUEST_TRANSITIONS ==
  [none      |-> {},
   pending   |-> {"answered", "cancelled", "fallback"},
   fallback  |-> {"answered", "cancelled"},
   answered  |-> {},
   cancelled |-> {}]

Key(what, r) == <<what, r>>

Goes(c, pc)   == call' = [call EXCEPT ![c].pc = pc]
Returns(c)    == call' = [call EXCEPT ![c] = Idle]   \* or raises

(* transition_request.  A key that was used before answers with the old     *)
(* record, whatever the request is now; a transition that is not allowed    *)
(* raises.                                                                  *)
Transition(c, state, key, who, next) ==
  LET r == call[c].req IN
  IF key \in events
  THEN Goes(c, next) /\ UNCHANGED tables
  ELSE IF state \in REQUEST_TRANSITIONS[request[r]]
  THEN /\ request' = [request EXCEPT ![r] = state]
       /\ response' = IF who = "none" THEN response ELSE [response EXCEPT ![r] = who]
       /\ events' = events \cup {key}
       /\ Goes(c, next)
       /\ UNCHANGED reservation
  ELSE Returns(c) /\ UNCHANGED tables

(* settle_assistance: a reservation that is settled the other way raises.   *)
Settled(r, target) ==
  reservation' = IF reservation[r] = "reserved" THEN [reservation EXCEPT ![r] = target]
                 ELSE reservation

Charged == {r \in Requests : reservation[r] \in {"reserved", "committed"}}

-----------------------------------------------------------------------------
(* A call begins with what it reads without a transaction.                  *)
Begin(c, op, pc, r) ==
  /\ call[c] = Idle
  /\ call' = [call EXCEPT ![c] = [op |-> op, pc |-> pc, req |-> r]]
  /\ UNCHANGED <<live, late, tables, crashed>>

(* open_request: reserve_assistance ...                                     *)
Open(c) ==
  \E r \in Requests :
    /\ Reopens \/ r \notin opened
    /\ opened' = opened \cup {r}
    /\ Begin(c, "open", "reserve", r)

BuggyFits == Cardinality({r \in Requests : reservation[r] = "committed"}) < Limit

Fits == Cardinality(Charged) < Limit

Reserve(c) ==
  LET r == call[c].req IN
  /\ call[c].pc = "reserve"
  /\ \/ reservation[r] # "none" /\ Goes(c, "create") /\ UNCHANGED reservation
     \/ /\ reservation[r] = "none" /\ Fits
        /\ reservation' = [reservation EXCEPT ![r] = "reserved"]
        /\ Goes(c, "create")
     \/ reservation[r] = "none" /\ ~Fits /\ Returns(c) /\ UNCHANGED reservation
  /\ UNCHANGED <<live, late, opened, request, response, events, crashed>>

(* ... create_request, which raises if the trace is not there or the        *)
(* request is stored with another content ...                               *)
Create(c) ==
  LET r == call[c].req IN
  /\ call[c].pc = "create"
  /\ \/ /\ request[r] \in {"none", "pending"}
        /\ request' = [request EXCEPT ![r] = "pending"]
        /\ Returns(c)
     \/ Goes(c, "release") /\ UNCHANGED request
  /\ UNCHANGED <<live, late, opened, reservation, response, events, crashed>>

(* ... and the credit goes back if that raised.                             *)
Release(c) ==
  /\ call[c].pc = "release"
  /\ Settled(call[c].req, "released")
  /\ Returns(c)
  /\ UNCHANGED <<live, late, opened, request, response, events, crashed>>

(* submit_human_response, refused when the deadline is over.                *)
SubmitHuman(c) ==
  \E r \in live \ late :
    /\ request[r] # "none"
    /\ Begin(c, "human", "answer", r)
    /\ UNCHANGED opened

HumanAnswers(c) ==
  /\ call[c].op = "human" /\ call[c].pc = "answer"
  /\ Transition(c, "answered", Key("human-answer", call[c].req), "human", "commit")
  /\ UNCHANGED <<live, late, opened, crashed>>

(* handle_deadline.                                                         *)
HandleDeadline(c) ==
  \E r \in live \cap late :
    /\ \/ request[r] = "pending" /\ Begin(c, "deadline", "fallback", r)
       \/ request[r] = "fallback" /\ Begin(c, "deadline", "ask", r)
    /\ UNCHANGED opened

FallsBack(c) ==
  /\ call[c].pc = "fallback"
  /\ Transition(c, "fallback", Key("human-deadline", call[c].req), "none", "ask")
  /\ UNCHANGED <<live, late, opened, crashed>>

(* resolve_benchmark_proxy.  A request that is answered is returned as it   *)
(* is, without a look at its credit.                                        *)
ResolveProxy(c) ==
  \E r \in Requests \ live :
    /\ request[r] = "pending"
    /\ Begin(c, "proxy", "ask", r)
    /\ UNCHANGED opened

(* The advisor is asked, or fails; the request then stays as it is.         *)
Ask(c) ==
  /\ call[c].pc = "ask"
  /\ \/ Goes(c, "answer")
     \/ Returns(c)
  /\ UNCHANGED <<live, late, opened, tables, crashed>>

BuggyAfterAnswer(op) == IF op = "deadline" THEN "idle" ELSE "commit"

AfterAnswer(op) == "commit"

ProxyAnswers(c) ==
  /\ call[c].op \in {"proxy", "deadline"} /\ call[c].pc = "answer"
  /\ Transition(c, "answered", Key("proxy-answer", call[c].req), "proxy", AfterAnswer(call[c].op))
  /\ UNCHANGED <<live, late, opened, crashed>>

(* The credit of an answer is spent in a transaction of its own.            *)
Commit(c) ==
  /\ call[c].pc = "commit"
  /\ Settled(call[c].req, "committed")
  /\ Returns(c)
  /\ UNCHANGED <<live, late, opened, request, response, events, crashed>>

(* cancel.                                                                  *)
Cancel(c) ==
  \E r \in Requests :
    /\ request[r] # "none"
    /\ Begin(c, "cancel", "cancel", r)
    /\ UNCHANGED opened

BuggyCancels(c) ==   \* the credit goes back whether or not the request was cancelled
  /\ call[c].pc = "cancel"
  /\ Goes(c, "release") /\ UNCHANGED tables
  /\ UNCHANGED <<live, late, opened, crashed>>

Cancels(c) ==
  /\ call[c].pc = "cancel"
  /\ Transition(c, "cancelled", Key("cancel", call[c].req), "none", "release")
  /\ UNCHANGED <<live, late, opened, crashed>>

(* The process of a caller ends between two transactions.                   *)
Crash(c) ==
  /\ call[c] # Idle
  /\ Returns(c)
  /\ crashed' = TRUE
  /\ UNCHANGED <<live, late, opened, tables>>

Deadline(r) ==
  /\ r \in live \ late /\ request[r] # "none"
  /\ late' = late \cup {r}
  /\ UNCHANGED <<live, opened, tables, call, crashed>>

-----------------------------------------------------------------------------
Init ==
  /\ live \in SUBSET Requests
  /\ late = {} /\ opened = {}
  /\ reservation = [r \in Requests |-> "none"]
  /\ request = [r \in Requests |-> "none"]
  /\ response = [r \in Requests |-> "none"]
  /\ events = {}
  /\ call = [c \in Callers |-> Idle]
  /\ crashed = FALSE

(* What a caller does once its call has begun.                              *)
Step(c) ==
  \/ Reserve(c) \/ Create(c) \/ Release(c)
  \/ HumanAnswers(c) \/ FallsBack(c) \/ Ask(c) \/ ProxyAnswers(c) \/ Commit(c) \/ Cancels(c)

Next ==
  \/ \E c \in Callers : Open(c) \/ SubmitHuman(c) \/ HandleDeadline(c) \/ ResolveProxy(c) \/ Cancel(c)
  \/ \E c \in Callers : Step(c) \/ Crash(c)
  \/ \E r \in Requests : Deadline(r)

Spec == Init /\ [][Next]_vars

(* A call that has begun goes on: SQLite waits for locks, and the advisor's *)
(* transport has a timeout.                                                 *)
FairSpec == Spec /\ \A c \in Callers : WF_vars(Step(c))

-----------------------------------------------------------------------------
(* The credit of a request as the budget counts it: an answer is paid for   *)
(* when it is given, the transaction that notes it may come later.          *)
Unanswered == [none |-> "none", reserved |-> "held", committed |-> "spent", released |-> "back"]

Credit ==
  [r \in Requests |-> IF request[r] = "answered" THEN "spent" ELSE Unanswered[reservation[r]]]

Budget == INSTANCE AttentionBudget WITH credit <- Credit, answer <- response

(* Whatever calls meet, and wherever they crash, a request that is opened   *)
(* once gets at most one answer, with a credit it holds, and never more     *)
(* than the run has (store.py:420-443, runtime.py:31-41).                   *)
ImplementsBudget == Budget!Spec

(* A credit is committed for an answer only, goes back for a request that   *)
(* was cancelled or never made, and never goes back from an answer          *)
(* (runtime.py:160-164).                                                    *)
CreditFollowsRequest ==
  \A r \in Requests :
    /\ reservation[r] = "committed" => request[r] = "answered"
    /\ reservation[r] = "released" => request[r] \in {"none", "cancelled"}
    /\ request[r] = "answered" => reservation[r] # "released"

(* Unless a caller crashes on the way, the credit of a request that is over *)
(* is settled in the end.                                                   *)
CreditSettles ==
  \A r \in Requests :
    request[r] \in {"answered", "cancelled"} ~> (crashed \/ reservation[r] \in {"committed", "released"})

=============================================================================
