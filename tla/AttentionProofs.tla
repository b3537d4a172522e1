--------------------------- MODULE AttentionProofs ---------------------------
(***************************************************************************)
(* Proofs about AttentionRuntime, for every set of requests and of callers *)
(* and every limit, when no request is opened twice: the types, the fate   *)
(* of a request's credit, and that the runtime implements AttentionBudget, *)
(* which keeps within the limit.                                           *)
(* And about AdvisorTokens, for all replies and token limits as well: it   *)
(* implements AttentionRuntime, a request is charged what the kept reply   *)
(* cost, one question gets one piece of advice, and the tokens of a run    *)
(* stay within its limit.                                                  *)
(***************************************************************************)
EXTENDS AdvisorTokens, FoldTheorems

Statuses == {"none", "reserved", "committed", "released"}
States   == {"none", "pending", "fallback", "answered", "cancelled"}
Calls    == [op  : {"none", "open", "human", "deadline", "proxy", "cancel"},
             pc  : {"idle", "reserve", "create", "release", "answer", "fallback", "ask",
                    "commit", "cancel"},
             req : Requests \cup {"none"}]

(* The inductive invariant, cut by what it is about.                        *)
TypesOK ==
  /\ live \subseteq Requests /\ opened \subseteq Requests
  /\ reservation \in [Requests -> Statuses]
  /\ request \in [Requests -> States]
  /\ response \in [Requests -> {"none", "human", "proxy"}]
  /\ call \in [Callers -> Calls]

(* What the tables say of one request.                                      *)
RequestsOK ==
  \A r \in Requests :
    /\ r \notin opened => reservation[r] = "none" /\ request[r] = "none"
    /\ request[r] = "none" => reservation[r] # "committed"
    /\ request[r] \in {"pending", "fallback"} => reservation[r] = "reserved"
    /\ request[r] = "answered" => reservation[r] \in {"reserved", "committed"}
    /\ request[r] = "cancelled" => reservation[r] \in {"reserved", "released"}

(* A key tells what became of its request: a transition that finds its key  *)
(* used goes on as if it had been made.                                     *)
EventsOK ==
  \A r \in Requests :
    /\ Key("human-answer", r) \in events => request[r] = "answered"
    /\ Key("proxy-answer", r) \in events => request[r] = "answered"
    /\ Key("cancel", r) \in events => request[r] = "cancelled"

(* Where a call is, it knows what the tables say of its request.            *)
CallOK(k) ==
  /\ k.pc = "idle" <=> k = Idle
  /\ k.pc # "idle" => k.req \in Requests
  /\ k.pc \in {"reserve", "create"} => k.op = "open"
  /\ k.pc = "release" => k.op \in {"open", "cancel"}
  /\ k.pc = "cancel" => k.op = "cancel"
  /\ k.op = "open" => k.pc \in {"reserve", "create", "release"} /\ k.req \in opened
  /\ k.pc = "reserve" => reservation[k.req] = "none" /\ request[k.req] = "none"
  /\ k.op = "open" /\ k.pc # "reserve" => reservation[k.req] = "reserved" /\ request[k.req] = "none"
  /\ k.op = "cancel" /\ k.pc = "release" => request[k.req] = "cancelled"
  /\ k.pc = "commit" => request[k.req] = "answered"

CallsOK == \A c \in Callers : CallOK(call[c])

OneOpener ==
  \A c, d \in Callers : call[c].op = "open" /\ call[d].op = "open" /\ call[c].req = call[d].req => c = d

IInv == TypesOK /\ RequestsOK /\ EventsOK /\ CallsOK /\ OneOpener

-----------------------------------------------------------------------------
LEMMA InitIInv == Init => IInv
BY DEF Init, IInv, TypesOK, RequestsOK, EventsOK, CallsOK, CallOK, OneOpener, Idle, Calls, Statuses,
       States, Key

(* A call that begins with an operation other than open.                    *)
LEMMA BeginKeeps ==
  ASSUME IInv, NEW c \in Callers, NEW r \in Requests,
         NEW op \in {"human", "deadline", "proxy", "cancel"},
         NEW pc \in {"answer", "fallback", "ask", "cancel"}, pc = "cancel" => op = "cancel",
         Begin(c, op, pc, r), UNCHANGED opened
  PROVE  IInv'
<1>1. TypesOK'
  BY DEF IInv, TypesOK, Begin, Calls, tables
<1>2. RequestsOK' /\ EventsOK'
  BY DEF IInv, RequestsOK, EventsOK, Begin, tables, Key
<1>3. CallsOK'
  BY DEF IInv, TypesOK, CallsOK, CallOK, Begin, tables, Calls, Idle
<1>4. OneOpener'
  BY DEF IInv, TypesOK, OneOpener, Begin, Calls
<1> QED
  BY <1>1, <1>2, <1>3, <1>4 DEF IInv

(* A transaction of transition_request by a call with operation op, when    *)
(* its key is one of those that EventsOK is about or human-deadline.        *)
LEMMA TransitionKeeps ==
  ASSUME IInv, NEW c \in Callers, NEW r \in Requests, call[c].req = r, call[c].pc # "idle",
         NEW state, NEW key, NEW who, NEW next, Transition(c, state, key, who, next),
         UNCHANGED <<live, opened>>,
         \/ /\ state = "answered" /\ who \in {"human", "proxy"} /\ next = "commit"
            /\ key \in {Key("human-answer", r), Key("proxy-answer", r)}
            /\ call[c].op # "open"
         \/ /\ state = "cancelled" /\ who = "none" /\ next = "release"
            /\ key = Key("cancel", r) /\ call[c].op = "cancel"
         \/ /\ state = "fallback" /\ who = "none" /\ next = "ask"
            /\ key = Key("human-deadline", r) /\ call[c].op # "open"
  PROVE  IInv'
<1> USE DEF IInv
<1>1. CASE key \in events
  <2>1. UNCHANGED tables /\ Goes(c, next)
    BY <1>1 DEF Transition
  <2>2. TypesOK'
    BY <2>1 DEF TypesOK, Goes, tables, Calls
  <2>3. RequestsOK' /\ EventsOK'
    BY <2>1 DEF RequestsOK, EventsOK, tables
  <2>4. CallsOK'
    BY <1>1, <2>1 DEF TypesOK, CallsOK, CallOK, EventsOK, Goes, tables, Calls, Idle
  <2>5. OneOpener'
    BY <2>1 DEF TypesOK, OneOpener, Goes, Calls
  <2> QED
    BY <2>2, <2>3, <2>4, <2>5
<1>2. CASE key \notin events /\ state \in REQUEST_TRANSITIONS[request[r]]
  <2>1. /\ request' = [request EXCEPT ![r] = state]
        /\ response' = IF who = "none" THEN response ELSE [response EXCEPT ![r] = who]
        /\ events' = events \cup {key}
        /\ Goes(c, next) /\ UNCHANGED reservation
    BY <1>2 DEF Transition
  <2>2. request[r] \in {"pending", "fallback"}
    BY <1>2 DEF TypesOK, States, REQUEST_TRANSITIONS
  <2>3. TypesOK'
    BY <2>1 DEF TypesOK, Goes, Calls, States
  <2>4. RequestsOK'
    BY <2>1, <2>2 DEF TypesOK, RequestsOK
  <2>5. EventsOK'
    <3>1. \A s \in Requests : request'[s] = IF s = r THEN state ELSE request[s]
      BY <2>1 DEF TypesOK
    <3>2. /\ Key("human-answer", r) \notin events /\ Key("proxy-answer", r) \notin events
          /\ Key("cancel", r) \notin events
      BY <2>2 DEF EventsOK
    <3>3. CASE key \in {Key("human-answer", r), Key("proxy-answer", r)} /\ state = "answered"
      <4>1. events' = events \cup {key} /\ request'[r] = "answered"
        BY <2>1, <3>1, <3>3
      <4>2. \A s \in Requests : Key("cancel", s) # key
        BY <3>3 DEF Key
      <4>3. \A s \in Requests \ {r} : key \notin {Key("human-answer", s), Key("proxy-answer", s)}
        BY <3>3 DEF Key
      <4> QED
        BY <3>1, <3>2, <4>1, <4>2, <4>3 DEF EventsOK
    <3>4. CASE key = Key("cancel", r) /\ state = "cancelled"
      BY <2>1, <3>1, <3>2, <3>4 DEF EventsOK, Key
    <3>5. CASE key = Key("human-deadline", r)
      BY <2>1, <3>1, <3>2, <3>5 DEF EventsOK, Key
    <3> QED
      BY <3>3, <3>4, <3>5
  <2>6. CallsOK'
    BY <2>1, <2>2 DEF TypesOK, CallsOK, CallOK, Goes, Calls, Idle
  <2>7. OneOpener'
    BY <2>1 DEF TypesOK, OneOpener, Goes, Calls
  <2> QED
    BY <2>3, <2>4, <2>5, <2>6, <2>7
<1>3. CASE key \notin events /\ state \notin REQUEST_TRANSITIONS[request[r]]
  <2>1. UNCHANGED tables /\ Returns(c)
    BY <1>3 DEF Transition
  <2> QED
    BY <2>1 DEF TypesOK, RequestsOK, EventsOK, CallsOK, CallOK, OneOpener, Returns, Idle, Calls, tables
<1> QED
  BY <1>1, <1>2, <1>3

-----------------------------------------------------------------------------
(* The steps of an opening; here it counts that no request is opened twice. *)
LEMMA OpenKeeps ==
  ASSUME ~Reopens, IInv, NEW c \in Callers, Open(c)
  PROVE  IInv'
<1> USE DEF IInv
<1>1. PICK r \in Requests : r \notin opened /\ opened' = opened \cup {r} /\ Begin(c, "open", "reserve", r)
  BY DEF Open
<1>2. TypesOK'
  BY <1>1 DEF TypesOK, Begin, Calls, tables
<1>3. RequestsOK' /\ EventsOK'
  BY <1>1 DEF RequestsOK, EventsOK, Begin, tables
<1>4. CallsOK'
  BY <1>1 DEF TypesOK, RequestsOK, CallsOK, CallOK, Begin, Calls, Idle, tables
<1>5. OneOpener'
  BY <1>1 DEF TypesOK, CallsOK, CallOK, OneOpener, Begin, Calls
<1> QED
  BY <1>2, <1>3, <1>4, <1>5

LEMMA ReserveKeeps ==
  ASSUME IInv, NEW c \in Callers, Reserve(c)
  PROVE  IInv'
<1> USE DEF IInv
<1> DEFINE r == call[c].req
<1>1. r \in Requests /\ reservation[r] = "none" /\ request[r] = "none" /\ call[c].op = "open" /\ r \in opened
  BY DEF Reserve, CallsOK, CallOK
<1>2. CASE Returns(c) /\ UNCHANGED reservation
  BY <1>2 DEF Reserve, TypesOK, RequestsOK, EventsOK, CallsOK, CallOK, OneOpener, Returns, Idle, Calls
<1>3. CASE reservation' = [reservation EXCEPT ![r] = "reserved"] /\ Goes(c, "create")
  <2>1. TypesOK' /\ RequestsOK' /\ EventsOK'
    BY <1>1, <1>3 DEF Reserve, TypesOK, RequestsOK, EventsOK, Goes, Calls, Statuses
  <2>2. CallsOK'
    BY <1>1, <1>3 DEF Reserve, TypesOK, CallsOK, CallOK, OneOpener, Goes, Calls, Idle
  <2>3. OneOpener'
    BY <1>3 DEF Reserve, TypesOK, OneOpener, Goes, Calls
  <2> QED
    BY <2>1, <2>2, <2>3
<1> QED
  BY <1>1, <1>2, <1>3 DEF Reserve

LEMMA CreateKeeps ==
  ASSUME IInv, NEW c \in Callers, Create(c)
  PROVE  IInv'
<1> USE DEF IInv
<1> DEFINE r == call[c].req
<1>1. /\ r \in Requests /\ reservation[r] = "reserved" /\ request[r] = "none"
      /\ call[c].op = "open" /\ r \in opened
  BY DEF Create, CallsOK, CallOK
<1>2. CASE Goes(c, "release") /\ UNCHANGED request
  <2>1. TypesOK' /\ RequestsOK' /\ EventsOK'
    BY <1>2 DEF Create, TypesOK, RequestsOK, EventsOK, Goes, Calls
  <2>2. CallsOK' /\ OneOpener'
    BY <1>1, <1>2 DEF Create, TypesOK, CallsOK, CallOK, OneOpener, Goes, Calls, Idle
  <2> QED
    BY <2>1, <2>2
<1>3. CASE request' = [request EXCEPT ![r] = "pending"] /\ Returns(c)
  <2>1. TypesOK' /\ RequestsOK'
    BY <1>1, <1>3 DEF Create, TypesOK, RequestsOK, Returns, Calls, States, Idle
  <2>2. EventsOK'
    BY <1>1, <1>3 DEF Create, TypesOK, EventsOK
  <2>3. CallsOK'
    BY <1>1, <1>3 DEF Create, TypesOK, CallsOK, CallOK, OneOpener, Returns, Calls, Idle
  <2>4. OneOpener'
    BY <1>3 DEF Create, TypesOK, OneOpener, Returns, Calls, Idle
  <2> QED
    BY <2>1, <2>2, <2>3, <2>4
<1> QED
  BY <1>2, <1>3 DEF Create

(* The two settlements.                                                     *)
LEMMA ReleaseKeeps ==
  ASSUME IInv, NEW c \in Callers, Release(c)
  PROVE  IInv'
<1> USE DEF IInv
<1> DEFINE r == call[c].req
<1>1. r \in Requests /\ r \in opened /\ (request[r] = "cancelled" \/ (request[r] = "none" /\ call[c].op = "open"))
  BY DEF Release, TypesOK, RequestsOK, CallsOK, CallOK
<1>2. TypesOK' /\ RequestsOK' /\ EventsOK'
  BY <1>1 DEF Release, Settled, TypesOK, RequestsOK, EventsOK, Returns, Idle, Calls, Statuses
<1>3. CallsOK'
  BY <1>1 DEF Release, Settled, TypesOK, CallsOK, CallOK, OneOpener, Returns, Idle, Calls
<1>4. OneOpener'
  BY DEF Release, TypesOK, OneOpener, Returns, Idle, Calls
<1> QED
  BY <1>2, <1>3, <1>4

LEMMA CommitKeeps ==
  ASSUME IInv, NEW c \in Callers, Commit(c)
  PROVE  IInv'
<1> USE DEF IInv
<1> DEFINE r == call[c].req
<1>1. r \in Requests /\ request[r] = "answered"
  BY DEF Commit, CallsOK, CallOK
<1>2. TypesOK' /\ RequestsOK' /\ EventsOK'
  BY <1>1 DEF Commit, Settled, TypesOK, RequestsOK, EventsOK, Returns, Idle, Calls, Statuses
<1>3. CallsOK' /\ OneOpener'
  BY <1>1 DEF Commit, Settled, TypesOK, CallsOK, CallOK, OneOpener, Returns, Idle, Calls
<1> QED
  BY <1>2, <1>3

LEMMA StepKeeps == ~Reopens /\ IInv /\ [Next]_vars => IInv'
<1> SUFFICES ASSUME ~Reopens, IInv, [Next]_vars PROVE IInv'
  OBVIOUS
<1>1. CASE \E c \in Callers : Open(c)
  BY <1>1, OpenKeeps
<1>2. CASE \E c \in Callers : SubmitHuman(c) \/ HandleDeadline(c) \/ ResolveProxy(c) \/ Cancel(c)
  <2>1. PICK c \in Callers : SubmitHuman(c) \/ HandleDeadline(c) \/ ResolveProxy(c) \/ Cancel(c)
    BY <1>2
  <2>2. /\ UNCHANGED opened
        /\ \E r \in Requests, op \in {"human", "deadline", "proxy", "cancel"},
              pc \in {"answer", "fallback", "ask", "cancel"} :
                (pc = "cancel" => op = "cancel") /\ Begin(c, op, pc, r)
    BY <2>1 DEF SubmitHuman, HandleDeadline, ResolveProxy, Cancel, IInv, TypesOK
  <2> QED
    BY <2>2, BeginKeeps
<1>3. CASE \E c \in Callers : Step(c)
  <2>1. PICK c \in Callers : Step(c)
    BY <1>3
  <2>2. CASE Reserve(c) \/ Create(c) \/ Release(c) \/ Commit(c)
    BY <2>2, ReserveKeeps, CreateKeeps, ReleaseKeeps, CommitKeeps
  <2>3. CASE HumanAnswers(c) \/ FallsBack(c) \/ ProxyAnswers(c) \/ Cancels(c)
    <3> DEFINE r == call[c].req
    <3>1. r \in Requests /\ call[c].pc # "idle"
      BY <2>3 DEF IInv, CallsOK, CallOK, HumanAnswers, FallsBack, ProxyAnswers, Cancels
    <3>2. CASE HumanAnswers(c)
      BY <3>1, <3>2, TransitionKeeps DEF HumanAnswers
    <3>3. CASE FallsBack(c)
      BY <3>1, <3>3, TransitionKeeps DEF FallsBack, IInv, CallsOK, CallOK
    <3>4. CASE ProxyAnswers(c)
      BY <3>1, <3>4, TransitionKeeps DEF ProxyAnswers, AfterAnswer
    <3>5. CASE Cancels(c)
      BY <3>1, <3>5, TransitionKeeps DEF Cancels, IInv, CallsOK, CallOK
    <3> QED
      BY <2>3, <3>2, <3>3, <3>4, <3>5
  <2>4. CASE Ask(c)
    <3>1. call[c].op # "open" /\ call[c].req \in Requests
      BY <2>4 DEF Ask, IInv, CallsOK, CallOK
    <3> QED
      BY <2>4, <3>1 DEF Ask, IInv, TypesOK, RequestsOK, EventsOK, CallsOK, CallOK, OneOpener, Goes,
                        Returns, Idle, Calls, tables
  <2> QED
    BY <2>1, <2>2, <2>3, <2>4 DEF Step
<1>4. CASE \E c \in Callers : Crash(c)
  BY <1>4 DEF Crash, IInv, TypesOK, RequestsOK, EventsOK, CallsOK, CallOK, OneOpener, Returns, Idle,
              Calls, tables
<1>5. CASE (\E r \in Requests : Deadline(r)) \/ UNCHANGED vars
  BY <1>5 DEF Deadline, vars, IInv, TypesOK, RequestsOK, EventsOK, CallsOK, CallOK, OneOpener, tables
<1> QED
  BY <1>1, <1>2, <1>3, <1>4, <1>5 DEF Next

-----------------------------------------------------------------------------
(* The invariant holds in every reachable state.                            *)
LEMMA Invariant ==
  ASSUME ~Reopens
  PROVE  Spec => []IInv
<1>1. Init => IInv
  BY InitIInv
<1>2. IInv /\ [Next]_vars => IInv'
  BY StepKeeps
<1> QED
  BY <1>1, <1>2, PTL DEF Spec

(* The tables and the calls keep their types, whatever meets or crashes     *)
(* (core/store.py, core/runtime.py).                                        *)
THEOREM TypesHold ==
  ASSUME ~Reopens
  PROVE  Spec => []TypesOK
<1>1. IInv => TypesOK
  BY DEF IInv
<1> QED
  BY Invariant, <1>1, PTL

(* A credit is committed for an answer only and never goes back from one    *)
(* (runtime.py:160-164), for every number of requests and callers.          *)
THEOREM CreditFollowsRequestHolds ==
  ASSUME ~Reopens
  PROVE  Spec => []CreditFollowsRequest
<1>1. IInv => CreditFollowsRequest
  BY DEF IInv, TypesOK, RequestsOK, CreditFollowsRequest, States
<1> QED
  BY Invariant, <1>1, PTL

-----------------------------------------------------------------------------
(* The abstract module counts as this one does.                             *)
LEMMA SameCardinality == \A S : Budget!Cardinality(S) = Cardinality(S)
BY DEF Cardinality, Budget!Cardinality

(* The refinement.  What the invariant says makes the credits that the      *)
(* budget counts those that the store counts.                               *)
LEMMA TakenIsCharged == IInv => Budget!Taken = Charged
<1> SUFFICES ASSUME IInv, NEW r \in Requests
             PROVE  Credit[r] \in {"held", "spent"} <=> reservation[r] \in {"reserved", "committed"}
  BY DEF Budget!Taken, Charged
<1>1. request[r] \in States /\ reservation[r] \in Statuses
  BY DEF IInv, TypesOK
<1>2. request[r] = "answered" => reservation[r] \in {"reserved", "committed"}
  BY DEF IInv, RequestsOK
<1> QED
  BY <1>1, <1>2 DEF Credit, Unanswered, Statuses

(* A step that leaves the two tables and the answers is a stutter.          *)
LEMMA TablesStutter ==
  UNCHANGED <<request, reservation, response>> => UNCHANGED Budget!budgetVars
BY DEF Budget!budgetVars, Credit, Unanswered

(* A transition of a request gives an answer and spends, or leaves both.    *)
LEMMA TransitionRefines ==
  ASSUME IInv, NEW c \in Callers, NEW r \in Requests, call[c].req = r,
         NEW state, NEW key, NEW who, NEW next, Transition(c, state, key, who, next),
         \/ state = "answered" /\ who \in {"human", "proxy"}
         \/ state \in {"cancelled", "fallback"} /\ who = "none"
  PROVE  [Budget!Next]_(Budget!budgetVars)
<1>1. CASE UNCHANGED tables
  BY <1>1, TablesStutter DEF tables
<1>2. CASE /\ state \in REQUEST_TRANSITIONS[request[r]]
           /\ request' = [request EXCEPT ![r] = state]
           /\ response' = IF who = "none" THEN response ELSE [response EXCEPT ![r] = who]
           /\ UNCHANGED reservation
  <2>1. request[r] \in {"pending", "fallback"} /\ reservation[r] = "reserved"
    BY <1>2 DEF IInv, TypesOK, RequestsOK, States, REQUEST_TRANSITIONS
  <2>2. Credit[r] = "held"
    BY <2>1 DEF Credit, Unanswered
  <2>3. \A s \in Requests : request'[s] = IF s = r THEN state ELSE request[s]
    BY <1>2 DEF IInv, TypesOK
  <2>4. CASE state = "answered" /\ who \in {"human", "proxy"}
    <3>1. Credit' = [Credit EXCEPT ![r] = "spent"]
      BY <1>2, <2>3, <2>4 DEF Credit, Unanswered
    <3>2. response' = [response EXCEPT ![r] = who]
      BY <1>2, <2>4
    <3>3. Budget!Spend(r, who)
      BY <2>2, <3>1, <3>2 DEF Budget!Spend
    <3> QED
      BY <2>4, <3>3 DEF Budget!Next, Budget!Responders
  <2>5. CASE state \in {"cancelled", "fallback"} /\ who = "none"
    <3>1. Credit' = Credit
      BY <1>2, <2>1, <2>3, <2>5 DEF Credit, Unanswered
    <3> QED
      BY <1>2, <2>5, <3>1 DEF Budget!budgetVars
  <2> QED
    BY <2>4, <2>5
<1> QED
  BY <1>1, <1>2 DEF Transition

(* The taking of a credit finds one free.                                   *)
LEMMA ReserveRefines ==
  ASSUME IInv, NEW c \in Callers, Reserve(c)
  PROVE  [Budget!Next]_(Budget!budgetVars)
<1> DEFINE r == call[c].req
<1>1. r \in Requests /\ request[r] = "none" /\ reservation[r] = "none"
  BY DEF Reserve, IInv, CallsOK, CallOK
<1>2. CASE UNCHANGED reservation
  BY <1>2, TablesStutter DEF Reserve
<1>3. CASE Fits /\ reservation' = [reservation EXCEPT ![r] = "reserved"]
  <2>1. Credit[r] = "none"
    BY <1>1 DEF Credit, Unanswered
  <2>2. Cardinality(Budget!Taken) < Limit
    BY <1>3, TakenIsCharged DEF Fits
  <2>3. Credit' = [Credit EXCEPT ![r] = "held"]
    BY <1>1, <1>3 DEF Reserve, Credit, Unanswered, IInv, TypesOK
  <2>4. Budget!Take(r)
    BY <2>1, <2>2, <2>3, SameCardinality DEF Reserve, Budget!Take
  <2> QED
    BY <1>1, <2>4 DEF Budget!Next
<1> QED
  BY <1>2, <1>3 DEF Reserve

(* The making of a request does not show.                                   *)
LEMMA CreateRefines ==
  ASSUME IInv, NEW c \in Callers, Create(c)
  PROVE  [Budget!Next]_(Budget!budgetVars)
<1> DEFINE r == call[c].req
<1>1. r \in Requests /\ request[r] = "none"
  BY DEF Create, IInv, CallsOK, CallOK
<1>2. CASE UNCHANGED request
  BY <1>2, TablesStutter DEF Create
<1>3. CASE request' = [request EXCEPT ![r] = "pending"]
  <2>1. Credit' = Credit
    BY <1>1, <1>3 DEF Create, Credit, Unanswered, IInv, TypesOK
  <2> QED
    BY <2>1 DEF Create, Budget!budgetVars
<1> QED
  BY <1>2, <1>3 DEF Create

(* The credit of a request without an answer goes back.                     *)
LEMMA ReleaseRefines ==
  ASSUME IInv, NEW c \in Callers, Release(c)
  PROVE  [Budget!Next]_(Budget!budgetVars)
<1> DEFINE r == call[c].req
<1>1. r \in Requests /\ request[r] \in {"none", "cancelled"}
  BY DEF Release, IInv, CallsOK, CallOK
<1>2. CASE UNCHANGED reservation
  BY <1>2, TablesStutter DEF Release
<1>3. CASE reservation[r] = "reserved" /\ reservation' = [reservation EXCEPT ![r] = "released"]
  <2>1. Credit[r] = "held"
    BY <1>1, <1>3 DEF Credit, Unanswered
  <2>2. Credit' = [Credit EXCEPT ![r] = "back"]
    BY <1>1, <1>3 DEF Release, Credit, Unanswered, IInv, TypesOK
  <2>3. Budget!GiveBack(r)
    BY <2>1, <2>2 DEF Release, Budget!GiveBack
  <2> QED
    BY <1>1, <2>3 DEF Budget!Next
<1> QED
  BY <1>2, <1>3 DEF Release, Settled

(* The credit of an answer counted as spent before.                         *)
LEMMA CommitRefines ==
  ASSUME IInv, NEW c \in Callers, Commit(c)
  PROVE  [Budget!Next]_(Budget!budgetVars)
<1> DEFINE r == call[c].req
<1>1. r \in Requests /\ request[r] = "answered"
  BY DEF Commit, IInv, CallsOK, CallOK
<1>2. Credit' = Credit
  BY <1>1 DEF Commit, Settled, Credit, Unanswered, IInv, TypesOK
<1> QED
  BY <1>2 DEF Commit, Budget!budgetVars

LEMMA NextRefines ==
  ASSUME IInv, [Next]_vars
  PROVE  [Budget!Next]_(Budget!budgetVars)
<1>1. CASE \E c \in Callers : Step(c)
  <2>1. PICK c \in Callers : Step(c)
    BY <1>1
  <2>2. CASE Reserve(c) \/ Create(c) \/ Release(c) \/ Commit(c)
    BY <2>2, ReserveRefines, CreateRefines, ReleaseRefines, CommitRefines
  <2>3. CASE HumanAnswers(c) \/ FallsBack(c) \/ ProxyAnswers(c) \/ Cancels(c)
    <3>1. call[c].req \in Requests
      BY <2>3 DEF IInv, CallsOK, CallOK, HumanAnswers, FallsBack, ProxyAnswers, Cancels
    <3>2. CASE HumanAnswers(c)
      BY <3>1, <3>2, TransitionRefines DEF HumanAnswers
    <3>3. CASE FallsBack(c)
      BY <3>1, <3>3, TransitionRefines DEF FallsBack
    <3>4. CASE ProxyAnswers(c)
      BY <3>1, <3>4, TransitionRefines DEF ProxyAnswers
    <3>5. CASE Cancels(c)
      BY <3>1, <3>5, TransitionRefines DEF Cancels
    <3> QED
      BY <2>3, <3>2, <3>3, <3>4, <3>5
  <2>4. CASE Ask(c)
    BY <2>4, TablesStutter DEF Ask, tables
  <2> QED
    BY <2>1, <2>2, <2>3, <2>4 DEF Step
<1>2. CASE UNCHANGED tables
  BY <1>2, TablesStutter DEF tables
<1>3. CASE \E c \in Callers : Open(c) \/ SubmitHuman(c) \/ HandleDeadline(c) \/ ResolveProxy(c) \/ Cancel(c)
  BY <1>2, <1>3 DEF Open, SubmitHuman, HandleDeadline, ResolveProxy, Cancel, Begin
<1>4. CASE (\E c \in Callers : Crash(c)) \/ (\E r \in Requests : Deadline(r)) \/ UNCHANGED vars
  BY <1>2, <1>4 DEF Crash, Deadline, vars
<1> QED
  BY <1>1, <1>3, <1>4 DEF Next

(* The runtime over the store implements the budget (store.py:406-461,      *)
(* runtime.py:31-177), for every number of requests, callers and credits.   *)
THEOREM ImplementsBudgetHolds ==
  ASSUME ~Reopens
  PROVE  Spec => ImplementsBudget
<1>1. Init => Budget!Init
  BY DEF Init, Budget!Init, Credit, Unanswered
<1>2. IInv /\ [Next]_vars => [Budget!Next]_(Budget!budgetVars)
  BY NextRefines
<1> QED
  BY Invariant, <1>1, <1>2, PTL DEF Spec, ImplementsBudget, Budget!Spec

-----------------------------------------------------------------------------
(* A step of the budget takes a credit only while one is free.              *)
LEMMA BudgetKeepsLimit ==
  ASSUME Credit \in [Requests -> {"none", "held", "spent", "back"}],
         Budget!WithinLimit, [Budget!Next]_(Budget!budgetVars)
  PROVE  Budget!WithinLimit'
<1> DEFINE Taken == Budget!Taken
           TakenNext == {r \in Requests : Credit'[r] \in {"held", "spent"}}
<1>1. IsFiniteSet(Taken) /\ Cardinality(Taken) \in Nat /\ Limit \in Nat /\ Taken' = TakenNext
  BY RuntimeAssumption, FS_Subset, FS_CardinalityType DEF Budget!Taken
<1>2. CASE \E r \in Requests : Budget!Take(r)
  <2>1. PICK r \in Requests : Budget!Take(r)
    BY <1>2
  <2>2. TakenNext = Taken \cup {r} /\ r \notin Taken
    BY <2>1 DEF Budget!Take, Budget!Taken
  <2>3. Cardinality(TakenNext) = Cardinality(Taken) + 1
    BY <1>1, <2>2, FS_AddElement
  <2> QED
    BY <1>1, <2>1, <2>3, SameCardinality DEF Budget!Take, Budget!WithinLimit
<1>3. CASE TakenNext \subseteq Taken
  <2>1. Cardinality(TakenNext) \in Nat /\ Cardinality(TakenNext) <= Cardinality(Taken)
    BY <1>1, <1>3, FS_Subset, FS_CardinalityType
  <2> QED
    BY <1>1, <2>1, SameCardinality DEF Budget!WithinLimit
<1>4. CASE \E r \in Requests : Budget!GiveBack(r) \/ \E who \in Budget!Responders : Budget!Spend(r, who)
  <2>1. TakenNext \subseteq Taken
    BY <1>4 DEF Budget!GiveBack, Budget!Spend, Budget!Taken
  <2> QED
    BY <1>3, <2>1
<1>5. CASE UNCHANGED Budget!budgetVars
  <2>1. TakenNext \subseteq Taken
    BY <1>5 DEF Budget!budgetVars, Budget!Taken
  <2> QED
    BY <1>3, <2>1
<1> QED
  BY <1>2, <1>4, <1>5 DEF Budget!Next

(* However many callers open requests at once, the credits that are         *)
(* reserved or committed are never more than the run has (store.py:432-440).*)
THEOREM WithinLimitHolds ==
  ASSUME ~Reopens
  PROVE  Spec => [](Cardinality(Charged) <= Limit)
<1>1. IInv => Credit \in [Requests -> {"none", "held", "spent", "back"}]
  BY DEF IInv, TypesOK, States, Statuses, Credit, Unanswered
<1>2. Init => Budget!WithinLimit
  <2> SUFFICES ASSUME Init PROVE Budget!WithinLimit
    OBVIOUS
  <2>1. Budget!Taken = {}
    BY DEF Init, Budget!Taken, Credit, Unanswered
  <2> QED
    BY <2>1, FS_EmptySet, RuntimeAssumption, SameCardinality DEF Budget!WithinLimit
<1>3. IInv /\ Budget!WithinLimit /\ [Next]_vars => Budget!WithinLimit'
  BY <1>1, NextRefines, BudgetKeepsLimit
<1>4. IInv /\ Budget!WithinLimit => Cardinality(Charged) <= Limit
  BY TakenIsCharged, SameCardinality DEF Budget!WithinLimit
<1> QED
  BY Invariant, <1>2, <1>3, <1>4, PTL DEF Spec


-----------------------------------------------------------------------------
(* What is added for AdvisorTokens: where a call with the advisor may be.   *)
Inner == {"provider", "keep", "charge"}

Ops == {"none", "open", "human", "deadline", "proxy", "cancel"}
Pcs == {"idle", "reserve", "create", "release", "fallback", "ask", "answer", "commit", "cancel"} \cup Inner
AdvisedCalls == [op : Ops, pc : Pcs, req : Requests \cup {"none"}]

Texts == {reply.text : reply \in Replies} \cup {"none"}

(* The tables and calls.                                                    *)
TablesOK ==
  /\ call \in [Callers -> AdvisedCalls]
  /\ held \in [Callers -> Replies \cup {NoReply} \cup [text : STRING, tokens : Nat]]
  /\ cache \in [Questions -> Replies \cup {NoReply}]
  /\ usage \in [Requests -> Nat]
  /\ response \in [Requests -> {"none", "human", "proxy"}]
  /\ advice \in [Requests -> Texts]
  /\ live \subseteq Requests

(* What a caller goes on with is a reply until it is kept, the kept reply   *)
(* when it is charged, and has the kept reply's text when it is given.      *)
HoldsKept(c) ==
  LET q == Question[call[c].req] IN
  /\ call[c].pc \in Inner \cup {"fallback", "ask", "answer"} => call[c].req \in Requests
  /\ call[c].pc = "keep" => held[c] \in Replies
  /\ call[c].pc = "charge" => held[c] = cache[q] /\ cache[q] \in Replies
  /\ call[c].pc = "answer" /\ call[c].op # "human"
       => cache[q] \in Replies /\ held[c].text = cache[q].text

HeldOK == \A c \in Callers : HoldsKept(c)

ChargesOK ==
  \A r \in Requests : usage[r] # 0 =>
    cache[Question[r]] \in Replies /\ usage[r] = cache[Question[r]].tokens

AdviceOK ==
  \A r \in Requests : response[r] = "proxy" =>
    cache[Question[r]] \in Replies /\ advice[r] = cache[Question[r]].text

TokenInv == TablesOK /\ HeldOK /\ ChargesOK /\ AdviceOK

-----------------------------------------------------------------------------
(* A reply that was kept stays.                                             *)
CacheStays == \A q \in Questions : cache[q] \in Replies => cache'[q] = cache[q]

(* A caller's view holds after a step of another caller.                    *)
LEMMA OthersHold ==
  ASSUME TokenInv, CacheStays, NEW d \in Callers,
         call'[d] = call[d], held'[d] = held[d]
  PROVE  HoldsKept(d)'
<1>1. call[d].req \in Requests => Question[call[d].req] \in Questions
  BY DEF Questions
<1> QED
  BY <1>1 DEF TokenInv, HeldOK, HoldsKept, CacheStays, Inner

(* The tables say the same of what they said before.                        *)
LEMMA TablesHold ==
  ASSUME TokenInv, CacheStays, usage' = usage, advice' = advice, response' = response
  PROVE  ChargesOK' /\ AdviceOK'
<1>1. \A r \in Requests : Question[r] \in Questions
  BY DEF Questions
<1> QED
  BY <1>1 DEF TokenInv, ChargesOK, AdviceOK, CacheStays

(* How a call moves.                                                        *)
LEMMA GoesCall ==
  ASSUME TokenInv, NEW c \in Callers, NEW pc \in Pcs, Goes(c, pc)
  PROVE  /\ call' \in [Callers -> AdvisedCalls]
         /\ call'[c].pc = pc /\ call'[c].op = call[c].op /\ call'[c].req = call[c].req
         /\ \A d \in Callers \ {c} : call'[d] = call[d]
BY DEF TokenInv, TablesOK, AdvisedCalls, Goes

LEMMA ReturnsCall ==
  ASSUME TokenInv, NEW c \in Callers, Returns(c)
  PROVE  /\ call' \in [Callers -> AdvisedCalls]
         /\ call'[c].pc = "idle"
         /\ \A d \in Callers \ {c} : call'[d] = call[d]
BY DEF TokenInv, TablesOK, AdvisedCalls, Ops, Pcs, Returns, Idle

LEMMA BeginCall ==
  ASSUME TokenInv, NEW c \in Callers, NEW op \in Ops, NEW pc \in Pcs,
         NEW r \in Requests, Begin(c, op, pc, r)
  PROVE  /\ call' \in [Callers -> AdvisedCalls] /\ UNCHANGED <<live, response>>
         /\ call'[c].pc = pc /\ call'[c].op = op /\ call'[c].req = r
         /\ \A d \in Callers \ {c} : call'[d] = call[d]
BY DEF TokenInv, TablesOK, AdvisedCalls, Begin, tables

LEMMA RuntimeCall ==
  ASSUME TokenInv, NEW c \in Callers, RuntimeStep(c)
  PROVE  /\ call' \in [Callers -> AdvisedCalls] /\ live' = live
         /\ \A d \in Callers \ {c} : call'[d] = call[d]
         /\ \/ call'[c].pc \notin Inner \cup {"fallback", "ask", "answer"}
            \/ call'[c].pc \in {"fallback", "ask"} /\ call'[c].req \in Requests
            \/ call'[c].pc = "answer" /\ call'[c].op = "human" /\ call'[c].req \in Requests
<1> USE DEF Inner, Ops, Pcs
<1>1. CASE Open(c) \/ SubmitHuman(c) \/ HandleDeadline(c) \/ ResolveProxy(c) \/ Cancel(c)
  <2>1. live \subseteq Requests
    BY DEF TokenInv, TablesOK
  <2>2. CASE Open(c)
    BY <2>2, BeginCall DEF Open
  <2>3. CASE SubmitHuman(c)
    BY <2>1, <2>3, BeginCall DEF SubmitHuman
  <2>4. CASE HandleDeadline(c)
    BY <2>1, <2>4, BeginCall DEF HandleDeadline
  <2>5. CASE ResolveProxy(c)
    BY <2>5, BeginCall DEF ResolveProxy
  <2>6. CASE Cancel(c)
    BY <2>6, BeginCall DEF Cancel
  <2> QED
    BY <1>1, <2>2, <2>3, <2>4, <2>5, <2>6
<1>2. CASE Reserve(c) \/ Create(c) \/ Release(c) \/ Commit(c)
  BY <1>2, GoesCall, ReturnsCall DEF Reserve, Create, Release, Commit
<1>3. CASE HumanAnswers(c) \/ Cancels(c)
  BY <1>3, GoesCall, ReturnsCall DEF HumanAnswers, Cancels, Transition
<1>4. CASE FallsBack(c)
  <2>1. call[c].req \in Requests
    BY <1>4 DEF FallsBack, TokenInv, HeldOK, HoldsKept
  <2> QED
    BY <1>4, <2>1, GoesCall, ReturnsCall DEF FallsBack, Transition
<1> QED
  BY <1>1, <1>2, <1>3, <1>4 DEF RuntimeStep

(* A step of the runtime alone gives no advice of the advisor.              *)
LEMMA RuntimeResponses ==
  ASSUME TokenInv, NEW c \in Callers, RuntimeStep(c)
  PROVE  /\ response' \in [Requests -> {"none", "human", "proxy"}]
         /\ \A r \in Requests : response'[r] = "proxy" => response[r] = "proxy"
<1> USE DEF TokenInv, TablesOK
<1>1. CASE UNCHANGED response
  BY <1>1
<1>2. CASE HumanAnswers(c)
  BY <1>2 DEF HumanAnswers, Transition, tables
<1>3. CASE FallsBack(c) \/ Cancels(c)
  BY <1>3 DEF FallsBack, Cancels, Transition, tables
<1>4. CASE Open(c) \/ SubmitHuman(c) \/ HandleDeadline(c) \/ ResolveProxy(c) \/ Cancel(c)
  BY <1>1, <1>4 DEF Open, SubmitHuman, HandleDeadline, ResolveProxy, Cancel, Begin, tables
<1>5. CASE Reserve(c) \/ Create(c) \/ Release(c) \/ Commit(c)
  BY <1>1, <1>5 DEF Reserve, Create, Release, Commit
<1> QED
  BY <1>2, <1>3, <1>4, <1>5 DEF RuntimeStep

LEMMA RuntimeKeepsInv ==
  ASSUME TokenInv, NEW c \in Callers, RuntimeStep(c)
  PROVE  TokenInv'
<1>1. UNCHANGED <<cache, usage, advice, held>>
  BY DEF RuntimeStep, tokenTables
<1>2. CacheStays
  BY <1>1 DEF CacheStays
<1>3. TablesOK'
  BY <1>1, RuntimeCall, RuntimeResponses DEF TokenInv, TablesOK
<1>4. HeldOK'
  <2>1. \A d \in Callers \ {c} : HoldsKept(d)'
    BY <1>1, <1>2, RuntimeCall, OthersHold
  <2>2. HoldsKept(c)'
    BY RuntimeCall DEF HoldsKept, Inner
  <2> QED
    BY <2>1, <2>2 DEF HeldOK
<1>5. ChargesOK' /\ AdviceOK'
  BY <1>1, RuntimeResponses DEF TokenInv, ChargesOK, AdviceOK
<1> QED
  BY <1>3, <1>4, <1>5 DEF TokenInv

-----------------------------------------------------------------------------
(* One caller's step with the advisor.                                      *)
LEMMA LookUpKeepsInv ==
  ASSUME TokenInv, NEW c \in Callers, LookUp(c)
  PROVE  TokenInv'
<1> DEFINE q == Question[call[c].req]
<1>1. call[c].req \in Requests /\ q \in Questions
  BY DEF LookUp, TokenInv, HeldOK, HoldsKept, Questions
<1>2. UNCHANGED <<cache, usage, advice, response>> /\ CacheStays
  BY DEF LookUp, tables, tokenTables, CacheStays
<1>3. /\ call' \in [Callers -> AdvisedCalls]
      /\ \A d \in Callers \ {c} : call'[d] = call[d] /\ held'[d] = held[d]
  BY GoesCall, ReturnsCall DEF LookUp, TokenInv, TablesOK, Raises, LetsGo, AfterHit, Pcs, Inner
<1>4. cache[q] \in Replies \cup {NoReply}
  BY <1>1 DEF TokenInv, TablesOK
<1>5. cache[q] # NoReply =>
        /\ Price(cache[q]) \in [text : STRING, tokens : Nat]
        /\ Price(cache[q]).text = cache[q].text
  BY <1>4, TokensAssumption DEF Price
<1>6. TablesOK'
  BY <1>2, <1>3, <1>5 DEF LookUp, TokenInv, TablesOK, Raises, LetsGo
<1>7. HoldsKept(c)'
  <2>1. CASE Goes(c, "provider")
    BY <1>1, <2>1, GoesCall DEF HoldsKept, Pcs, Inner
  <2>2. CASE cache[q] # NoReply /\ Goes(c, AfterHit) /\ held' = [held EXCEPT ![c] = Price(cache[q])]
    <3>1. call'[c].pc = "answer" /\ call'[c].req = call[c].req
      BY <2>2, GoesCall DEF AfterHit, Pcs
    <3>2. held'[c] = Price(cache[q])
      BY <2>2 DEF TokenInv, TablesOK
    <3> QED
      BY <1>1, <1>2, <1>4, <1>5, <2>2, <3>1, <3>2 DEF HoldsKept
  <2>3. CASE Raises(c)
    BY <2>3, ReturnsCall DEF HoldsKept, Raises, Inner
  <2> QED
    BY <2>1, <2>2, <2>3 DEF LookUp
<1>8. HeldOK'
  BY <1>2, <1>3, <1>7, OthersHold DEF HeldOK
<1> QED
  BY <1>2, <1>6, <1>8, TablesHold DEF TokenInv

LEMMA AskProviderKeepsInv ==
  ASSUME TokenInv, NEW c \in Callers, AskProvider(c)
  PROVE  TokenInv'
<1>1. UNCHANGED <<cache, usage, advice, response>> /\ CacheStays
  BY DEF AskProvider, tables, tokenTables, CacheStays
<1>2. /\ call' \in [Callers -> AdvisedCalls]
      /\ \A d \in Callers \ {c} : call'[d] = call[d] /\ held'[d] = held[d]
  BY GoesCall, ReturnsCall DEF AskProvider, TokenInv, TablesOK, Raises, LetsGo, Pcs, Inner
<1>3. TablesOK'
  BY <1>1, <1>2 DEF AskProvider, TokenInv, TablesOK, Raises, LetsGo
<1>4. HoldsKept(c)'
  <2>1. CASE Raises(c)
    BY <2>1, ReturnsCall DEF HoldsKept, Raises, Inner
  <2>2. CASE \E reply \in Replies : Goes(c, "keep") /\ held' = [held EXCEPT ![c] = reply]
    <3>1. call[c].req \in Requests
      BY DEF AskProvider, TokenInv, HeldOK, HoldsKept, Inner
    <3>2. call'[c].pc = "keep" /\ call'[c].req = call[c].req
      BY <2>2, GoesCall DEF Pcs, Inner
    <3>3. held'[c] \in Replies
      BY <2>2 DEF TokenInv, TablesOK
    <3> QED
      BY <3>1, <3>2, <3>3 DEF HoldsKept
  <2> QED
    BY <2>1, <2>2 DEF AskProvider
<1>5. HeldOK'
  BY <1>1, <1>2, <1>4, OthersHold DEF HeldOK
<1> QED
  BY <1>1, <1>3, <1>5, TablesHold DEF TokenInv

LEMMA KeepKeepsInv ==
  ASSUME TokenInv, NEW c \in Callers, Keep(c)
  PROVE  TokenInv'
<1> DEFINE q == Question[call[c].req]
<1>1. call[c].req \in Requests /\ q \in Questions /\ held[c] \in Replies
  BY DEF Keep, TokenInv, HeldOK, HoldsKept, Questions, Inner
<1>2. UNCHANGED <<usage, advice, response>>
  BY DEF Keep, tables
<1>3. /\ call' \in [Callers -> AdvisedCalls]
      /\ \A d \in Callers \ {c} : call'[d] = call[d] /\ held'[d] = held[d]
  <2> DEFINE next == IF held[c].tokens = 0 THEN "answer" ELSE "charge"
  <2>1. CASE Goes(c, next) /\ UNCHANGED held
    BY <2>1, GoesCall DEF Pcs, Inner
  <2>2. CASE Raises(c)
    BY <2>2, ReturnsCall DEF TokenInv, TablesOK, Raises, LetsGo
  <2> QED
    BY <2>1, <2>2 DEF Keep
<1>4. CacheStays /\ cache' \in [Questions -> Replies \cup {NoReply}]
  <2>1. NoReply \notin Replies
    BY TokensAssumption
  <2>2. CASE MayKeep(q, held[c]) /\ cache' = [cache EXCEPT ![q] = held[c]]
    BY <1>1, <2>1, <2>2 DEF TokenInv, TablesOK, MayKeep, CacheStays
  <2>3. CASE UNCHANGED cache
    BY <2>3 DEF TokenInv, TablesOK, CacheStays
  <2> QED
    BY <2>2, <2>3 DEF Keep
<1>5. TablesOK'
  BY <1>2, <1>3, <1>4 DEF Keep, TokenInv, TablesOK, Raises, LetsGo
<1>6. HoldsKept(c)'
  <2> DEFINE next == IF held[c].tokens = 0 THEN "answer" ELSE "charge"
  <2>1. CASE Raises(c)
    BY <2>1, ReturnsCall DEF HoldsKept, Raises, Inner
  <2>2. CASE cache' = [cache EXCEPT ![q] = held[c]] /\ Goes(c, next) /\ UNCHANGED held
    <3>1. cache'[q] = held[c] /\ held'[c] = held[c]
      BY <1>1, <2>2 DEF TokenInv, TablesOK
    <3>2. call'[c].pc \in {"answer", "charge"} /\ call'[c].req = call[c].req
      BY <2>2, GoesCall DEF Pcs, Inner
    <3> QED
      BY <1>1, <3>1, <3>2 DEF HoldsKept
  <2> QED
    BY <2>1, <2>2 DEF Keep
<1>7. HeldOK'
  BY <1>3, <1>4, <1>6, OthersHold DEF HeldOK
<1> QED
  BY <1>2, <1>4, <1>5, <1>7, TablesHold DEF TokenInv

LEMMA ChargeKeepsInv ==
  ASSUME TokenInv, NEW c \in Callers, Charge(c)
  PROVE  TokenInv'
<1> DEFINE r == call[c].req
<1>1. /\ r \in Requests /\ held[c] \in Replies
      /\ held[c] = cache[Question[r]] /\ held[c].tokens \in Nat
  BY TokensAssumption DEF Charge, TokenInv, HeldOK, HoldsKept, Inner
<1>2. UNCHANGED <<cache, advice, response>> /\ CacheStays
  BY DEF Charge, tables, CacheStays
<1>3. /\ call' \in [Callers -> AdvisedCalls]
      /\ \A d \in Callers \ {c} : call'[d] = call[d] /\ held'[d] = held[d]
  BY GoesCall, ReturnsCall DEF Charge, TokenInv, TablesOK, Raises, LetsGo, Pcs
<1>4. usage' = usage \/ usage' = [usage EXCEPT ![r] = held[c].tokens]
  BY DEF Charge
<1>5. TablesOK'
  BY <1>1, <1>2, <1>3, <1>4 DEF Charge, TokenInv, TablesOK, Raises, LetsGo
<1>6. HoldsKept(c)'
  <2>1. CASE Raises(c)
    BY <2>1, ReturnsCall DEF HoldsKept, Raises, Inner
  <2>2. CASE Goes(c, "answer") /\ UNCHANGED held
    BY <1>1, <1>2, <2>2, GoesCall DEF HoldsKept, Pcs
  <2> QED
    BY <2>1, <2>2 DEF Charge
<1>7. HeldOK'
  BY <1>2, <1>3, <1>6, OthersHold DEF HeldOK
<1>8. ChargesOK' /\ AdviceOK'
  BY <1>1, <1>2, <1>4 DEF TokenInv, TablesOK, ChargesOK, AdviceOK
<1> QED
  BY <1>5, <1>7, <1>8 DEF TokenInv

LEMMA AnswersWithKeepsInv ==
  ASSUME TokenInv, NEW c \in Callers, AnswersWith(c)
  PROVE  TokenInv'
<1> DEFINE r == call[c].req
<1>1. /\ r \in Requests
      /\ cache[Question[r]] \in Replies /\ held[c].text = cache[Question[r]].text
  BY DEF AnswersWith, ProxyAnswers, TokenInv, HeldOK, HoldsKept
<1>2. UNCHANGED <<cache, usage, live>> /\ CacheStays /\ LetsGo(c)
  BY DEF AnswersWith, ProxyAnswers, CacheStays
<1>3. /\ call' \in [Callers -> AdvisedCalls]
      /\ call'[c].pc \in {"commit", "idle"}
      /\ \A d \in Callers \ {c} : call'[d] = call[d] /\ held'[d] = held[d]
  BY GoesCall, ReturnsCall DEF AnswersWith, ProxyAnswers, Transition, AfterAnswer, TokenInv, TablesOK, LetsGo, Pcs
<1>4. \/ response' = response
      \/ response' = [response EXCEPT ![r] = "proxy"]
  BY DEF AnswersWith, ProxyAnswers, Transition, tables
<1>5. advice' = IF response'[r] # response[r] THEN [advice EXCEPT ![r] = held[c].text] ELSE advice
  BY DEF AnswersWith
<1>6. TablesOK'
  <2>1. held[c].text \in Texts
    BY <1>1 DEF Texts
  <2>2. advice' \in [Requests -> Texts]
    BY <1>1, <1>5, <2>1 DEF TokenInv, TablesOK
  <2>3. held' \in [Callers -> Replies \cup {NoReply} \cup [text : STRING, tokens : Nat]]
    BY <1>2 DEF TokenInv, TablesOK, LetsGo
  <2> QED
    BY <1>1, <1>2, <1>3, <1>4, <2>2, <2>3 DEF TokenInv, TablesOK
<1>7. HeldOK'
  <2>1. HoldsKept(c)'
    BY <1>3 DEF HoldsKept, Inner
  <2> QED
    BY <1>2, <1>3, <2>1, OthersHold DEF HeldOK
<1>8. ChargesOK'
  BY <1>2 DEF TokenInv, ChargesOK
<1>9. AdviceOK'
  <2> SUFFICES ASSUME NEW s \in Requests, response'[s] = "proxy"
               PROVE  cache[Question[s]] \in Replies /\ advice'[s] = cache[Question[s]].text
    BY <1>2 DEF AdviceOK
  <2>1. CASE s = r /\ response'[r] # response[r]
    BY <1>1, <1>5, <2>1 DEF TokenInv, TablesOK
  <2>2. CASE s # r \/ response'[r] = response[r]
    BY <1>1, <1>4, <1>5, <2>2 DEF TokenInv, TablesOK, AdviceOK
  <2> QED
    BY <2>1, <2>2
<1> QED
  BY <1>6, <1>7, <1>8, <1>9 DEF TokenInv

-----------------------------------------------------------------------------
LEMMA InitInv == TokenInit => TokenInv
<1> SUFFICES ASSUME TokenInit PROVE TokenInv
  OBVIOUS
<1> USE DEF TokenInit, Init
<1>1. TablesOK
  <2>1. call \in [Callers -> AdvisedCalls]
    BY DEF AdvisedCalls, Idle, Ops, Pcs
  <2>2. advice \in [Requests -> Texts]
    BY DEF Texts
  <2> QED
    BY <2>1, <2>2 DEF TablesOK
<1>2. HeldOK
  BY DEF HeldOK, HoldsKept, Idle, Inner
<1>3. ChargesOK /\ AdviceOK
  BY DEF ChargesOK, AdviceOK
<1> QED
  BY <1>1, <1>2, <1>3 DEF TokenInv

LEMMA NextInv == TokenInv /\ [TokenNext]_tokenVars => TokenInv'
<1> SUFFICES ASSUME TokenInv, [TokenNext]_tokenVars PROVE TokenInv'
  OBVIOUS
<1>1. CASE \E c \in Callers : Advises(c)
  BY <1>1, LookUpKeepsInv, AskProviderKeepsInv, KeepKeepsInv, ChargeKeepsInv, AnswersWithKeepsInv
  DEF Advises
<1>2. CASE \E c \in Callers : RuntimeStep(c)
  BY <1>2, RuntimeKeepsInv
<1>3. CASE \E c \in Callers : Crash(c) /\ LetsGo(c) /\ UNCHANGED tokenTables
  <2>1. PICK c \in Callers : Crash(c) /\ LetsGo(c) /\ UNCHANGED tokenTables
    BY <1>3
  <2>2. UNCHANGED <<cache, usage, advice, response, live>> /\ CacheStays
    BY <2>1 DEF Crash, tables, tokenTables, CacheStays
  <2>3. /\ call' \in [Callers -> AdvisedCalls] /\ call'[c].pc = "idle"
        /\ \A d \in Callers \ {c} : call'[d] = call[d] /\ held'[d] = held[d]
    BY <2>1, ReturnsCall DEF Crash, LetsGo, TokenInv, TablesOK
  <2>4. TablesOK'
    BY <2>1, <2>2, <2>3 DEF TokenInv, TablesOK, LetsGo
  <2>5. HoldsKept(c)'
    BY <2>3 DEF HoldsKept, Inner
  <2>6. HeldOK'
    BY <2>2, <2>3, <2>5, OthersHold DEF HeldOK
  <2> QED
    BY <2>2, <2>4, <2>6, TablesHold DEF TokenInv
<1>4. CASE UNCHANGED <<call, tokenTables, held, response, live>>
  <2>1. CacheStays
    BY <1>4 DEF tokenTables, CacheStays
  <2>2. HeldOK'
    BY <1>4, <2>1, OthersHold DEF HeldOK
  <2>3. TablesOK'
    BY <1>4 DEF TokenInv, TablesOK, tokenTables
  <2> QED
    BY <1>4, <2>1, <2>2, <2>3, TablesHold DEF TokenInv, tokenTables
<1>5. CASE \E r \in Requests : Deadline(r) /\ UNCHANGED <<tokenTables, held>>
  BY <1>4, <1>5 DEF Deadline, tables
<1>6. CASE UNCHANGED tokenVars
  BY <1>4, <1>6 DEF tokenVars, vars, tables
<1> QED
  BY <1>1, <1>2, <1>3, <1>5, <1>6 DEF TokenNext

LEMMA TokenInvariant == TokenSpec => []TokenInv
BY InitInv, NextInv, PTL DEF TokenSpec

(* What a request was charged is what the kept reply cost (advisor.py:      *)
(* 106-121), for all replies and however many callers ask at once.          *)
THEOREM ChargedAsKeptHolds == TokenSpec => []ChargedAsKept
<1>1. TokenInv => ChargedAsKept
  BY DEF TokenInv, ChargesOK, ChargedAsKept
<1> QED
  BY <1>1, TokenInvariant, PTL

(* Requests with the same question never get different advice (advisor.py:  *)
(* 104-126).                                                                *)
THEOREM SameAdviceHolds == TokenSpec => []SameAdvice
<1>1. TokenInv => SameAdvice
  BY DEF TokenInv, AdviceOK, SameAdvice
<1> QED
  BY <1>1, TokenInvariant, PTL
-----------------------------------------------------------------------------
(* The store's SUM over the rows, now and after a step.                     *)
LEMMA UsedIsSum == Used = SumOf(usage, Requests) /\ Used' = SumOf(usage', Requests)
BY DEF Used, SumOf, MapThenSumSet, MapThenFoldSet

(* Only charging changes the rows, and it adds one that fits.               *)
LEMMA UsageSteps ==
  ASSUME [TokenNext]_tokenVars
  PROVE  \/ UNCHANGED usage
         \/ \E c \in Callers : Charge(c) /\ usage[call[c].req] = 0
              /\ Affords(held[c].tokens) /\ usage' = [usage EXCEPT ![call[c].req] = held[c].tokens]
<1>1. CASE \E c \in Callers : Charge(c)
  BY <1>1 DEF Charge
<1>2. CASE UNCHANGED tokenVars
  BY <1>2 DEF tokenVars, tokenTables
<1>3. ASSUME NEW c \in Callers, LookUp(c) \/ AskProvider(c) \/ Keep(c) \/ AnswersWith(c) \/ RuntimeStep(c)
      PROVE  UNCHANGED usage
  BY <1>3 DEF LookUp, AskProvider, Keep, AnswersWith, RuntimeStep, tokenTables
<1> QED
  BY <1>1, <1>2, <1>3 DEF TokenNext, Advises, tokenTables

LEMMA ChargeFits ==
  ASSUME TokenInv, TokensWithinLimit, [TokenNext]_tokenVars
  PROVE  TokensWithinLimit'
<1>1. CASE UNCHANGED usage
  BY <1>1, UsedIsSum DEF TokensWithinLimit
<1>2. ASSUME NEW c \in Callers, Charge(c), usage[call[c].req] = 0, Affords(held[c].tokens),
             usage' = [usage EXCEPT ![call[c].req] = held[c].tokens]
      PROVE  TokensWithinLimit'
  <2> DEFINE r == call[c].req
             n == held[c].tokens
  <2>1. r \in Requests /\ n \in Nat
    BY <1>2, TokensAssumption DEF Charge, TokenInv, HeldOK, HoldsKept, Inner
  <2>2. usage \in [Requests -> Nat] /\ IsFiniteSet(Requests)
    BY RuntimeAssumption DEF TokenInv, TablesOK
  <2>3. n <= TokenLimit - SumOf(usage, Requests)
    BY <1>2, UsedIsSum DEF Affords
  <2> HIDE DEF r, n
  <2>4. /\ SumOf(usage, Requests) \in Nat /\ SumOf([usage EXCEPT ![r] = n], Requests) \in Nat
        /\ SumOf([usage EXCEPT ![r] = n], Requests) + usage[r] = SumOf(usage, Requests) + n
    BY <2>1, <2>2, SumOfChanged
  <2>5. usage' = [usage EXCEPT ![r] = n] /\ usage[r] = 0 /\ TokenLimit \in Nat
    BY <1>2, TokensAssumption DEF r, n
  <2>6. SumOf(usage', Requests) <= TokenLimit
    BY <2>1, <2>3, <2>4, <2>5
  <2> QED
    BY <2>6, UsedIsSum DEF TokensWithinLimit
<1> QED
  BY <1>1, <1>2, UsageSteps

(* However many callers charge at the same time, and whatever the replies   *)
(* cost, the tokens of a run's requests never exceed its limit              *)
(* (store.py:512-528).                                                      *)
THEOREM TokensWithinLimitHolds == TokenSpec => []TokensWithinLimit
<1>1. TokenInit => TokensWithinLimit
  <2> SUFFICES ASSUME TokenInit PROVE TokensWithinLimit
    OBVIOUS
  <2>1. SumOf([r \in Requests |-> 0], Requests) = 0
    BY RuntimeAssumption, SumOfZeros
  <2> QED
    BY <2>1, UsedIsSum, TokensAssumption DEF TokenInit, TokensWithinLimit
<1>2. TokenInv /\ TokensWithinLimit /\ [TokenNext]_tokenVars => TokensWithinLimit'
  BY ChargeFits
<1> QED
  BY TokenInvariant, <1>1, <1>2, PTL DEF TokenSpec

-----------------------------------------------------------------------------
(* The refinement.  The steps of AttentionRuntime do not see what Coarse    *)
(* hides.                                                                   *)
LEMMA RuntimeCardinality == \A S : Runtime!Cardinality(S) = Cardinality(S)
BY DEF Cardinality, Runtime!Cardinality

LEMMA CoarseCall ==
  ASSUME TokenInv, NEW c \in Callers
  PROVE  /\ Coarse[c].op = call[c].op /\ Coarse[c].req = call[c].req
         /\ call[c].pc \notin Inner => Coarse[c] = call[c]
         /\ call[c].pc \in Inner => Coarse[c].pc = "ask"
BY DEF TokenInv, TablesOK, AdvisedCalls, Coarse, Inner

LEMMA CoarseGoes ==
  ASSUME TokenInv, NEW c \in Callers, NEW pc \in Pcs \ Inner, Goes(c, pc)
  PROVE  Runtime!Goes(c, pc)
<1>1. call' = [call EXCEPT ![c].pc = pc]
  BY DEF Goes
<1>2. \A d \in Callers :
        Coarse'[d] = IF d = c THEN [Coarse[d] EXCEPT !.pc = pc] ELSE Coarse[d]
  <2> TAKE d \in Callers
  <2>1. CASE d # c
    BY <1>1, <2>1 DEF TokenInv, TablesOK, Coarse
  <2>2. CASE d = c
    <3>1. call'[d] = [call[d] EXCEPT !.pc = pc] /\ call'[d].pc = pc
      BY <2>2, <1>1 DEF TokenInv, TablesOK, AdvisedCalls
    <3>2. Coarse'[d] = [call[d] EXCEPT !.pc = pc]
      BY <3>1 DEF Coarse, Inner
    <3>3. [Coarse[d] EXCEPT !.pc = pc] = [call[d] EXCEPT !.pc = pc]
      BY DEF TokenInv, TablesOK, AdvisedCalls, Coarse
    <3> QED
      BY <2>2, <3>2, <3>3
  <2> QED
    BY <2>1, <2>2
<1>3. Coarse' = [Coarse EXCEPT ![c].pc = pc]
  BY <1>2 DEF Coarse
<1> QED
  BY <1>3 DEF Runtime!Goes

LEMMA CoarseStays ==
  ASSUME TokenInv, NEW c \in Callers, NEW pc \in Inner, Goes(c, pc),
         call[c].pc \in Inner \cup {"ask"}
  PROVE  Coarse' = Coarse
<1>1. \A d \in Callers \ {c} : Coarse'[d] = Coarse[d]
  BY GoesCall DEF Coarse, Pcs
<1>2. Coarse'[c] = Coarse[c]
  <2>1. call'[c] = [call[c] EXCEPT !.pc = pc]
    BY DEF TokenInv, TablesOK, Goes
  <2> QED
    BY <2>1 DEF TokenInv, TablesOK, AdvisedCalls, Coarse, Inner
<1> QED
  BY <1>1, <1>2 DEF Coarse

LEMMA CoarseReturns ==
  ASSUME TokenInv, NEW c \in Callers, Returns(c)
  PROVE  Runtime!Returns(c)
<1>1. \A d \in Callers \ {c} : Coarse'[d] = Coarse[d]
  BY ReturnsCall DEF Coarse
<1>2. Coarse'[c] = Idle
  BY DEF TokenInv, TablesOK, Returns, Coarse, Idle
<1> QED
  BY <1>1, <1>2 DEF Runtime!Returns, Coarse, Runtime!Idle, Idle

LEMMA CoarseBegins ==
  ASSUME TokenInv, NEW c \in Callers, NEW op \in Ops, NEW pc \in Pcs \ Inner,
         NEW r \in Requests, Begin(c, op, pc, r)
  PROVE  Runtime!Begin(c, op, pc, r)
<1>1. \A d \in Callers \ {c} : Coarse'[d] = Coarse[d]
  BY BeginCall DEF Coarse
<1>2. Coarse'[c] = [op |-> op, pc |-> pc, req |-> r]
  BY DEF TokenInv, TablesOK, Begin, Coarse, Inner
<1>3. Coarse[c] = Runtime!Idle
  BY DEF Begin, Idle, Runtime!Idle, Coarse
<1>4. Coarse' = [Coarse EXCEPT ![c] = [op |-> op, pc |-> pc, req |-> r]]
  BY <1>1, <1>2 DEF Coarse
<1> QED
  BY <1>3, <1>4 DEF Begin, Runtime!Begin, tables, Runtime!tables

LEMMA CoarseTransition ==
  ASSUME TokenInv, NEW c \in Callers, NEW state, NEW key, NEW who, NEW next \in Pcs \ Inner,
         Transition(c, state, key, who, next)
  PROVE  Runtime!Transition(c, state, key, who, next)
<1>1. Coarse[c].req = call[c].req
  BY CoarseCall
<1>2. Goes(c, next) => Runtime!Goes(c, next)
  BY CoarseGoes
<1>3. Returns(c) => Runtime!Returns(c)
  BY CoarseReturns
<1> QED
  BY <1>1, <1>2, <1>3
  DEF Transition, Runtime!Transition, tables, Runtime!tables, REQUEST_TRANSITIONS, Runtime!REQUEST_TRANSITIONS

(* The steps of the runtime alone.                                          *)
LEMMA RuntimeRefines ==
  ASSUME TokenInv, NEW c \in Callers, RuntimeStep(c)
  PROVE  Runtime!Next
<1> USE DEF Pcs, Ops, Inner
<1>0. /\ Coarse[c].op = call[c].op /\ Coarse[c].req = call[c].req
      /\ call[c].pc \notin Inner => Coarse[c].pc = call[c].pc
  BY CoarseCall
<1>1. CASE Open(c)
  BY <1>1, CoarseBegins DEF Open, Runtime!Open, Runtime!Next
<1>2. CASE SubmitHuman(c)
  <2>1. PICK r \in live \ late : request[r] # "none" /\ Begin(c, "human", "answer", r) /\ UNCHANGED opened
    BY <1>2 DEF SubmitHuman
  <2>2. Runtime!Begin(c, "human", "answer", r)
    BY <2>1, CoarseBegins DEF TokenInv, TablesOK
  <2> QED
    BY <2>1, <2>2 DEF Runtime!SubmitHuman, Runtime!Next
<1>3. CASE HandleDeadline(c)
  <2>1. PICK r \in live \cap late :
          /\ \/ request[r] = "pending" /\ Begin(c, "deadline", "fallback", r)
             \/ request[r] = "fallback" /\ Begin(c, "deadline", "ask", r)
          /\ UNCHANGED opened
    BY <1>3 DEF HandleDeadline
  <2>2. r \in Requests
    BY DEF TokenInv, TablesOK
  <2>3. /\ Begin(c, "deadline", "fallback", r) => Runtime!Begin(c, "deadline", "fallback", r)
        /\ Begin(c, "deadline", "ask", r) => Runtime!Begin(c, "deadline", "ask", r)
    BY <2>2, CoarseBegins
  <2> QED
    BY <2>1, <2>3 DEF Runtime!HandleDeadline, Runtime!Next
<1>4. CASE ResolveProxy(c)
  BY <1>4, CoarseBegins DEF ResolveProxy, Runtime!ResolveProxy, Runtime!Next
<1>5. CASE Cancel(c)
  BY <1>5, CoarseBegins DEF Cancel, Runtime!Cancel, Runtime!Next
<1>6. CASE Reserve(c)
  <2>1. Runtime!Fits <=> Fits
    BY RuntimeCardinality DEF Fits, Runtime!Fits, Charged, Runtime!Charged
  <2>2. /\ Goes(c, "create") => Runtime!Goes(c, "create")
        /\ Returns(c) => Runtime!Returns(c)
    BY CoarseGoes, CoarseReturns
  <2>3. Runtime!Reserve(c)
    BY <1>0, <1>6, <2>1, <2>2 DEF Reserve, Runtime!Reserve
  <2> QED
    BY <2>3 DEF Runtime!Step, Runtime!Next
<1>7. CASE Create(c)
  <2>1. /\ Goes(c, "release") => Runtime!Goes(c, "release")
        /\ Returns(c) => Runtime!Returns(c)
    BY CoarseGoes, CoarseReturns
  <2>2. Runtime!Create(c)
    BY <1>0, <1>7, <2>1 DEF Create, Runtime!Create
  <2> QED
    BY <2>2 DEF Runtime!Step, Runtime!Next
<1>8. CASE Release(c) \/ Commit(c)
  <2>1. Returns(c) => Runtime!Returns(c)
    BY CoarseReturns
  <2>2. Runtime!Release(c) \/ Runtime!Commit(c)
    BY <1>0, <1>8, <2>1 DEF Release, Runtime!Release, Commit, Runtime!Commit, Settled, Runtime!Settled
  <2> QED
    BY <2>2 DEF Runtime!Step, Runtime!Next
<1>9. CASE HumanAnswers(c)
  <2>1. Runtime!Transition(c, "answered", Key("human-answer", call[c].req), "human", "commit")
    BY <1>9, CoarseTransition DEF HumanAnswers
  <2>2. Runtime!HumanAnswers(c)
    BY <1>0, <1>9, <2>1 DEF HumanAnswers, Runtime!HumanAnswers, Key, Runtime!Key
  <2> QED
    BY <2>2 DEF Runtime!Step, Runtime!Next
<1>10. CASE FallsBack(c)
  <2>1. Runtime!Transition(c, "fallback", Key("human-deadline", call[c].req), "none", "ask")
    BY <1>10, CoarseTransition DEF FallsBack
  <2>2. Runtime!FallsBack(c)
    BY <1>0, <1>10, <2>1 DEF FallsBack, Runtime!FallsBack, Key, Runtime!Key
  <2> QED
    BY <2>2 DEF Runtime!Step, Runtime!Next
<1>11. CASE Cancels(c)
  <2>1. Runtime!Transition(c, "cancelled", Key("cancel", call[c].req), "none", "release")
    BY <1>11, CoarseTransition DEF Cancels
  <2>2. Runtime!Cancels(c)
    BY <1>0, <1>11, <2>1 DEF Cancels, Runtime!Cancels, Key, Runtime!Key
  <2> QED
    BY <2>2 DEF Runtime!Step, Runtime!Next
<1> QED
  BY <1>1, <1>2, <1>3, <1>4, <1>5, <1>6, <1>7, <1>8, <1>9, <1>10, <1>11 DEF RuntimeStep

(* Looking up, asking, keeping and charging: the advisor is still being     *)
(* asked, has been asked, or raised.                                        *)
LEMMA AskingRefines ==
  ASSUME TokenInv, NEW c \in Callers, call[c].pc \in Inner \cup {"ask"},
         UNCHANGED <<live, late, opened, tables, crashed>>,
         \/ \E pc \in Inner \cup {"answer"} : Goes(c, pc)
         \/ Returns(c)
  PROVE  [Runtime!Next]_(Runtime!vars)
<1>1. Coarse[c].pc = "ask"
  BY CoarseCall DEF Inner
<1>2. UNCHANGED <<live, late, opened, Runtime!tables, crashed>>
  BY DEF tables, Runtime!tables
<1>3. CASE \E pc \in Inner : Goes(c, pc)
  <2>1. Coarse' = Coarse
    BY <1>3, CoarseStays
  <2> QED
    BY <1>2, <2>1 DEF Runtime!vars
<1>4. CASE Goes(c, "answer") \/ Returns(c)
  <2>1. Runtime!Goes(c, "answer") \/ Runtime!Returns(c)
    BY <1>4, CoarseGoes, CoarseReturns DEF Pcs, Inner
  <2>2. Runtime!Ask(c)
    BY <1>1, <1>2, <2>1 DEF Runtime!Ask
  <2> QED
    BY <2>2 DEF Runtime!Step, Runtime!Next
<1> QED
  BY <1>3, <1>4

LEMMA TokenNextRefines ==
  ASSUME TokenInv, [TokenNext]_tokenVars
  PROVE  [Runtime!Next]_(Runtime!vars)
<1>1. CASE \E c \in Callers : LookUp(c) \/ AskProvider(c) \/ Keep(c) \/ Charge(c)
  <2>1. PICK c \in Callers : LookUp(c) \/ AskProvider(c) \/ Keep(c) \/ Charge(c)
    BY <1>1
  <2>2. /\ call[c].pc \in Inner \cup {"ask"}
        /\ UNCHANGED <<live, late, opened, tables, crashed>>
    BY <2>1 DEF LookUp, AskProvider, Keep, Charge, Inner
  <2>3. (\E pc \in Inner \cup {"answer"} : Goes(c, pc)) \/ Returns(c)
    BY <2>1 DEF LookUp, AskProvider, Keep, Charge, Raises, AfterHit, Inner
  <2> QED
    BY <2>2, <2>3, AskingRefines
<1>2. CASE \E c \in Callers : AnswersWith(c)
  <2>1. PICK c \in Callers : ProxyAnswers(c)
    BY <1>2 DEF AnswersWith
  <2>2. /\ Coarse[c].op = call[c].op /\ Coarse[c].req = call[c].req
        /\ Coarse[c].pc = "answer"
    BY <2>1, CoarseCall DEF ProxyAnswers, Inner
  <2>3. Runtime!Transition(c, "answered", Key("proxy-answer", call[c].req), "proxy", "commit")
    BY <2>1, CoarseTransition DEF ProxyAnswers, AfterAnswer, Pcs, Inner
  <2>4. Runtime!ProxyAnswers(c)
    BY <2>1, <2>2, <2>3 DEF ProxyAnswers, Runtime!ProxyAnswers, Key, Runtime!Key, Runtime!AfterAnswer
  <2> QED
    BY <2>4 DEF Runtime!Step, Runtime!Next
<1>3. CASE \E c \in Callers : RuntimeStep(c)
  BY <1>3, RuntimeRefines
<1>4. CASE \E c \in Callers : Crash(c)
  <2>1. PICK c \in Callers : Crash(c)
    BY <1>4
  <2>2. Coarse[c] # Runtime!Idle
    <3>1. CASE call[c].pc \in Inner
      BY <3>1, CoarseCall DEF Runtime!Idle
    <3>2. CASE call[c].pc \notin Inner
      BY <2>1, <3>2, CoarseCall DEF Crash, Idle, Runtime!Idle
    <3> QED
      BY <3>1, <3>2
  <2>3. Runtime!Returns(c)
    BY <2>1, CoarseReturns DEF Crash
  <2> QED
    BY <2>1, <2>2, <2>3 DEF Crash, Runtime!Crash, Runtime!Next, tables, Runtime!tables
<1>5. CASE \E r \in Requests : Deadline(r)
  <2>1. PICK r \in Requests : Deadline(r)
    BY <1>5
  <2>2. Coarse' = Coarse
    BY <2>1 DEF Deadline, Coarse
  <2> QED
    BY <2>1, <2>2 DEF Deadline, Runtime!Deadline, Runtime!Next, tables, Runtime!tables
<1>6. CASE UNCHANGED tokenVars
  BY <1>6 DEF tokenVars, vars, tables, Runtime!vars, Runtime!tables, Coarse
<1> QED
  BY <1>1, <1>2, <1>3, <1>4, <1>5, <1>6 DEF TokenNext, Advises

(* AdvisorTokens implements AttentionRuntime, so that what holds of the     *)
(* credits there holds with the advisor in full (runtime.py:126-138).       *)
THEOREM ImplementsRuntimeHolds == TokenSpec => ImplementsRuntime
<1>1. TokenInit => Runtime!Init
  BY DEF TokenInit, Init, Runtime!Init, Coarse, Idle, Runtime!Idle
<1>2. TokenInv /\ [TokenNext]_tokenVars => [Runtime!Next]_(Runtime!vars)
  BY TokenNextRefines
<1> QED
  BY TokenInvariant, <1>1, <1>2, PTL DEF TokenSpec, ImplementsRuntime, Runtime!Spec

=============================================================================
