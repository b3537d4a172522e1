---------------------------- MODULE AdvisorTokens ----------------------------
(***************************************************************************)
(* AttentionRuntime with the call to the advisor in full: AdvisorProxy     *)
(* (core/advisor.py) looks the question up in the reply cache, asks the    *)
(* provider, keeps the reply, and the runtime charges its tokens to the    *)
(* run.  Each of these is a transaction of its own.  A reply stands for    *)
(* the whole cached artifact; its wording and its latency are left out.    *)
(***************************************************************************)
EXTENDS AttentionRuntime, FiniteSetsExt

CONSTANTS
  Question,    \* the cache key of each request: what the advisor is asked
  Replies,     \* what the provider may answer: records with text and tokens
  TokenLimit   \* budget.token_limit

NoReply == [text |-> "none", tokens |-> 0]

ASSUME TokensAssumption ==   \* a reply is never empty
  /\ Requests = DOMAIN Question
  /\ Replies \subseteq [text : STRING, tokens : Nat] \ {NoReply}
  /\ TokenLimit \in Nat

VARIABLES
  cache,    \* table advisor_cache: the reply kept for each question
  usage,    \* table resource_usage: the tokens of each request, 0 if it has no row
  held,     \* the reply each caller goes on with
  advice    \* table responses: the text of the advisor's answer to each request

tokenTables == <<cache, usage, advice>>
tokenVars == <<vars, tokenTables, held>>

Questions == {Question[r] : r \in Requests}

LetsGo(c) == held' = [held EXCEPT ![c] = NoReply]
Raises(c) == Returns(c) /\ LetsGo(c)

-----------------------------------------------------------------------------
(* answer begins with cache_get.  A reply that was kept costs nothing, and  *)
(* what costs nothing is not charged.  Before that the trace is read, which *)
(* raises if it is not there or is of another request.                      *)
Price(reply) == [reply EXCEPT !.tokens = 0]

BuggyAfterHit == "commit"

AfterHit == "answer"

LookUp(c) ==
  LET kept == cache[Question[call[c].req]] IN
  /\ call[c].pc = "ask"
  /\ \/ kept = NoReply /\ Goes(c, "provider") /\ UNCHANGED held
     \/ kept # NoReply /\ Goes(c, AfterHit) /\ held' = [held EXCEPT ![c] = Price(kept)]
     \/ Raises(c)
  /\ UNCHANGED <<live, late, opened, tables, crashed, tokenTables>>

(* The provider replies, or raises.                                         *)
AskProvider(c) ==
  /\ call[c].pc = "provider"
  /\ \/ \E reply \in Replies : Goes(c, "keep") /\ held' = [held EXCEPT ![c] = reply]
     \/ Raises(c)
  /\ UNCHANGED <<live, late, opened, tables, crashed, tokenTables>>

(* cache_put: another reply that was kept meanwhile makes it raise.         *)
BuggyMayKeep(q, reply) == TRUE

MayKeep(q, reply) == cache[q] \in {NoReply, reply}

Keep(c) ==
  LET q == Question[call[c].req] IN
  /\ call[c].pc = "keep"
  /\ \/ /\ MayKeep(q, held[c])
        /\ cache' = [cache EXCEPT ![q] = held[c]]
        /\ Goes(c, IF held[c].tokens = 0 THEN "answer" ELSE "charge")
        /\ UNCHANGED held
     \/ ~MayKeep(q, held[c]) /\ Raises(c) /\ UNCHANGED cache
  /\ UNCHANGED <<live, late, opened, tables, crashed, usage, advice>>

(* consume_resources: one row per request, if the run can pay for it.       *)
Used == MapThenSumSet(LAMBDA r : usage[r], Requests)

BuggyAffords(tokens) == tokens <= TokenLimit

Affords(tokens) == tokens <= TokenLimit - Used

Charge(c) ==
  LET r == call[c].req IN
  /\ call[c].pc = "charge"
  /\ \/ usage[r] # 0 /\ Goes(c, "answer") /\ UNCHANGED <<usage, held>>
     \/ /\ usage[r] = 0 /\ Affords(held[c].tokens)
        /\ usage' = [usage EXCEPT ![r] = held[c].tokens]
        /\ Goes(c, "answer") /\ UNCHANGED held
     \/ usage[r] = 0 /\ ~Affords(held[c].tokens) /\ Raises(c) /\ UNCHANGED usage
  /\ UNCHANGED <<live, late, opened, tables, crashed, cache, advice>>

(* The response carries the text of the reply, if the request still waits.  *)
AnswersWith(c) ==
  LET r == call[c].req IN
  /\ ProxyAnswers(c)
  /\ advice' = IF response'[r] # response[r] THEN [advice EXCEPT ![r] = held[c].text]
               ELSE advice
  /\ LetsGo(c)
  /\ UNCHANGED <<cache, usage>>

-----------------------------------------------------------------------------
TokenInit ==
  /\ Init
  /\ cache = [q \in Questions |-> NoReply]
  /\ usage = [r \in Requests |-> 0]
  /\ held = [c \in Callers |-> NoReply]
  /\ advice = [r \in Requests |-> "none"]

Advises(c) == LookUp(c) \/ AskProvider(c) \/ Keep(c) \/ Charge(c) \/ AnswersWith(c)

(* The steps of AttentionRuntime that touch neither tokens nor replies.     *)
RuntimeStep(c) ==
  /\ \/ Open(c) \/ Reserve(c) \/ Create(c) \/ Release(c)
     \/ SubmitHuman(c) \/ HumanAnswers(c)
     \/ HandleDeadline(c) \/ FallsBack(c) \/ ResolveProxy(c) \/ Commit(c)
     \/ Cancel(c) \/ Cancels(c)
  /\ UNCHANGED <<tokenTables, held>>

TokenNext ==
  \/ \E c \in Callers : Advises(c) \/ RuntimeStep(c)
  \/ \E c \in Callers : Crash(c) /\ LetsGo(c) /\ UNCHANGED tokenTables
  \/ \E r \in Requests : Deadline(r) /\ UNCHANGED <<tokenTables, held>>

TokenSpec == TokenInit /\ [][TokenNext]_tokenVars

-----------------------------------------------------------------------------
(* For AttentionRuntime all this is the one step of asking.                 *)
Coarse ==
  [c \in Callers |->
     IF call[c].pc \in {"provider", "keep", "charge"} THEN [call[c] EXCEPT !.pc = "ask"]
     ELSE call[c]]

Runtime == INSTANCE AttentionRuntime WITH call <- Coarse

(* Looking up, asking, keeping and charging only take the place of the      *)
(* question to the advisor: whatever they meet, and wherever they crash,    *)
(* requests and credits go through the same steps (runtime.py:126-138).     *)
ImplementsRuntime == Runtime!Spec

(* The tokens of a run's requests never exceed its limit, whoever charges   *)
(* at the same time (store.py:512-528).                                     *)
TokensWithinLimit == Used <= TokenLimit

(* What a request was charged is what the reply its question is answered    *)
(* with cost, although two callers may have asked the provider for it and   *)
(* got two replies (advisor.py:106-121, store.py:617-636).                  *)
ChargedAsKept ==
  \A r \in Requests : usage[r] # 0 => usage[r] = cache[Question[r]].tokens

(* Two requests with the same question never get different advice, even if  *)
(* they are resolved at the same time (advisor.py:104-126).                 *)
SameAdvice ==
  \A r1, r2 \in Requests :
    /\ Question[r1] = Question[r2]
    /\ response[r1] = "proxy" /\ response[r2] = "proxy"
    => advice[r1] = advice[r2]

(* The provider's tokens behind the answers of a run are within its limit:  *)
(* a retry after an exhausted budget does not get the reply for nothing     *)
(* (runtime.py:160-164).                                                    *)
RetryKeepsBudget ==
  LET answered == {q \in Questions :
                     \E r \in Requests : Question[r] = q /\ response[r] = "proxy"}
  IN MapThenSumSet(LAMBDA q : cache[q].tokens, answered) <= TokenLimit

=============================================================================
