----------------------------- MODULE ModelCalls -----------------------------
(***************************************************************************)
(* The durable ledger of planning model calls: ModelCallCoordinator over   *)
(* the v1_model_calls, v1_model_attempts and v1_model_cost_* tables.       *)
(*                                                                         *)
(* A call is one logical request, identified by its idempotency key; it    *)
(* has up to MaxAttempts attempts, each with a reservation of tokens and   *)
(* of money made before anything is sent.  The provider executes (and      *)
(* bills) a request or not; what it did reaches the coordinator as a       *)
(* known failure, an unknown outcome or a response.  The Quest's state     *)
(* version moves on while calls are open, which makes their answers stale. *)
(*                                                                         *)
(* The process may die at any step.  Nothing in the application calls      *)
(* recover_model_calls, only the recovery tests do, on a store that was    *)
(* just reopened: it is an action of its own, which may follow a crash or  *)
(* never come.                                                             *)
(*                                                                         *)
(* One process: threads of callers that share the process-wide lock of     *)
(* the coordinator, and operators that retry a call through the storage    *)
(* interface without that lock.                                            *)
(***************************************************************************)
EXTENDS Integers, FiniteSets, FiniteSetsExt, Functions

CONSTANTS Callers,      \* threads that submit or retry calls
          Keys,         \* idempotency keys
          Inputs,       \* what may be submitted under a key
          Quotes,       \* reservations: tokens, estimated input, maximal output
          Usages,       \* usages a provider may report: input and output tokens
          InputRate, OutputRate, ReserveOutputRate,   \* the cost profile
          MaxCall, MaxTotal,                          \* cost limits of the account
          MaxTokens,    \* token budget of the Quest's contract
          MaxAttempts,  \* MODEL_MAX_ATTEMPTS
          MaxVersion,   \* bound: state versions of the Quest
          MaxCrashes,   \* bound: crashes
          MaxRuns       \* bound: submissions and retries

ASSUME ModelAssumption ==
    /\ IsFiniteSet(Keys)
    /\ {InputRate, OutputRate, ReserveOutputRate, MaxCall, MaxTotal, MaxTokens,
        MaxCrashes, MaxRuns} \subseteq Nat
    /\ {MaxAttempts, MaxVersion} \subseteq Nat \ {0}
    /\ Quotes \subseteq [tokens : Nat \ {0}, in : Nat, out : Nat]
    /\ Usages \subseteq [in : Nat, out : Nat]

VARIABLES version,   \* state version of the Quest
          call,      \* v1_model_calls, by key
          attempts,  \* v1_model_attempts with their cost reservations, by key and number
          breached,  \* the cost account's flag
          mutex,     \* _MODEL_CALL_LOCK: the caller that holds it, or None
          caller,    \* the callers
          billed,    \* history: what the provider charged for each attempt
          unusable,  \* history: billed answers settled at nothing, as known failures
          told,      \* history: the attempts callers were told are validated
          orphaned,  \* history: attempts a crash left open and nobody has recovered
          crashes, runs

vars == <<version, call, attempts, breached, mutex, caller, billed, unusable, told,
          orphaned, crashes, runs>>

None == "none"
Numbers == 1..MaxAttempts
Live == {"prepared", "dispatched"}
Nothing == [in |-> 0, out |-> 0]
Tokens(u) == u.in + u.out

NoQuote == [tokens |-> 0, in |-> 0, out |-> 0]
NoCall == [status |-> None, winner |-> 0, version |-> 0, input |-> None]
NoAttempt == [status |-> None, validation |-> None, quote |-> NoQuote, settled |-> 0,
              cost |-> None, money |-> 0]
Idle == [pc |-> "idle", key |-> None, input |-> None, quote |-> NoQuote,
         version |-> 0, number |-> 0]

CallStatuses == {None, "prepared", "dispatched", "failed", "succeeded", "unknown_outcome"}
Validations == {None, "pending", "validated_current", "conflict", "stale", "invalid",
                "cancelled_before_dispatch"}

Init ==
    /\ version = 1
    /\ call = [k \in Keys |-> NoCall]
    /\ attempts = [k \in Keys |-> [n \in Numbers |-> NoAttempt]]
    /\ breached = FALSE
    /\ mutex = None
    /\ caller = [c \in Callers |-> Idle]
    /\ billed = [k \in Keys |-> [n \in Numbers |-> Nothing]]
    /\ unusable = {} /\ told = {} /\ orphaned = {}
    /\ crashes = 0 /\ runs = 0

----------------------------------------------------------------------------
(* Budgets.                                                                *)

\* phase1c_cost_reservation and _settle_cost_locked: what a quote reserves and a usage costs.
ReservedCost(q) == q.in * InputRate + q.out * ReserveOutputRate
ActualCost(u) == u.in * InputRate + u.out * OutputRate

\* The sum of f over all attempts (f gives 0 for the ones that do not exist).
SumOver(f(_)) == SumFunction([kn \in Keys \X Numbers |-> f(attempts[kn[1]][kn[2]])])

\* _model_usage_locked: tokens stay held until the outcome is known.
HeldTokens(a) == IF a.status \in Live \cup {"unknown_outcome"} THEN a.quote.tokens ELSE 0
SettledTokens(a) == a.settled
TokenUsage == SumOver(LAMBDA a : SettledTokens(a) + HeldTokens(a))

\* _cost_usage_locked: money held by open and unknown reservations, and settled.
HeldMoney(a) == IF a.cost \in {"held", "unknown"} THEN ReservedCost(a.quote) ELSE 0
SettledMoney(a) == IF a.cost = "settled" THEN a.money ELSE 0
CostUsage == SumOver(LAMBDA a : SettledMoney(a) + HeldMoney(a))

\* _reserve_cost_locked: the account takes no reservation once a call cost more than it reserved.
CostAllowed(q) ==
    /\ ReservedCost(q) <= MaxCall
    /\ ~breached
    /\ CostUsage + ReservedCost(q) <= MaxTotal

\* Mutated: what other calls hold is forgotten.
TokensAllowedAlone(q) == q.tokens <= MaxTokens

TokensAllowed(q) == TokenUsage + q.tokens <= MaxTokens

Attempts(k) == {n \in Numbers : attempts[k][n].status # None}

\* _attempt_for_record: the winner, else the latest.
Shown(k) == IF call[k].winner # 0 THEN call[k].winner ELSE Max(Attempts(k))

\* The v1_model_attempts row and its cost reservation, inserted together.
Prepared(q) == [status |-> "prepared", validation |-> "pending", quote |-> q,
                settled |-> 0, cost |-> "held", money |-> 0]

Telling(k, n) ==
    IF attempts'[k][n].validation = "validated_current" THEN {<<k, n>>} ELSE {}

Leave(c) ==
    /\ caller' = [caller EXCEPT ![c] = Idle]
    /\ mutex' = IF mutex = c THEN None ELSE mutex

----------------------------------------------------------------------------
(* ModelCallCoordinator.run                                                *)

\* A caller read some version of the Quest, maybe an old one, and takes the lock.
Submit(c, k, i, q, v) ==
    /\ runs < MaxRuns
    /\ caller[c].pc = "idle" /\ mutex = None
    /\ v <= version
    /\ mutex' = c
    /\ caller' = [caller EXCEPT ![c] = [pc |-> "look", key |-> k, input |-> i, quote |-> q,
                                        version |-> v, number |-> 0]]
    /\ runs' = runs + 1
    /\ UNCHANGED <<version, call, attempts, breached, billed, unusable, told, orphaned, crashes>>

\* _matches_existing: the same submission as the one on record.
Matches(c) ==
    LET k == caller[c].key IN
    /\ call[k].input = caller[c].input
    /\ call[k].version = caller[c].version
    /\ attempts[k][Shown(k)].quote = caller[c].quote

\* A known key: its recorded result is replayed, or the submission conflicts with it.
Replay(c) ==
    LET k == caller[c].key IN
    /\ caller[c].pc = "look"
    /\ call[k] # NoCall
    /\ Leave(c)
    /\ told' = told \cup
               (IF Matches(c) /\ attempts[k][Shown(k)].validation = "validated_current"
                THEN {<<k, Shown(k)>>} ELSE {})
    /\ UNCHANGED <<version, call, attempts, breached, billed, unusable, orphaned, crashes, runs>>

\* prepare_model_call: the call is bound to the state version it was made for.
PrepareModelCall(c) ==
    LET k == caller[c].key
        q == caller[c].quote IN
    /\ caller[c].pc = "look"
    /\ call[k] = NoCall
    /\ caller[c].version = version
    /\ TokensAllowed(q)
    /\ CostAllowed(q)
    /\ call' = [call EXCEPT ![k] = [status |-> "prepared", winner |-> 0,
                                    version |-> version, input |-> caller[c].input]]
    /\ attempts' = [attempts EXCEPT ![k][1] = Prepared(q)]
    /\ caller' = [caller EXCEPT ![c].pc = "dispatch", ![c].number = 1]
    /\ UNCHANGED <<version, breached, mutex, billed, unusable, told, orphaned, crashes, runs>>

\* PREPARE_REJECTED for an old version, BUDGET_REJECTED for an exhausted budget.
PrepareRejected(c) ==
    /\ caller[c].pc = "look"
    /\ call[caller[c].key] = NoCall
    /\ \/ caller[c].version # version
       \/ ~TokensAllowed(caller[c].quote)
       \/ ~CostAllowed(caller[c].quote)
    /\ Leave(c)
    /\ UNCHANGED <<version, call, attempts, breached, billed, unusable, told, orphaned, crashes, runs>>

\* Mutated: an open call is retried.
RetriableAny(k) ==
    /\ call[k].winner = 0
    /\ call[k].status # None
    /\ call[k].version = version

\* retry_model_call: a new attempt of a call that failed or whose outcome is unknown.
Retriable(k) ==
    /\ call[k].winner = 0
    /\ call[k].status \in {"failed", "unknown_outcome"}
    /\ call[k].version = version

RetryModelCall(c, k, q) ==
    /\ runs < MaxRuns
    /\ caller[c].pc = "idle"
    /\ Retriable(k)
    /\ TokensAllowed(q)
    /\ CostAllowed(q)
    /\ Cardinality(Attempts(k)) < MaxAttempts
    /\ LET n == Max(Attempts(k)) + 1 IN
       /\ attempts' = [attempts EXCEPT ![k][n] = Prepared(q)]
       /\ caller' = [caller EXCEPT ![c] = [Idle EXCEPT !.pc = "dispatch", !.key = k,
                                           !.quote = q, !.number = n]]
    /\ call' = [call EXCEPT ![k].status = "prepared"]
    /\ runs' = runs + 1
    /\ UNCHANGED <<version, breached, mutex, billed, unusable, told, orphaned, crashes>>

\* mark_model_attempt_dispatched, in its own transaction before anything is sent.
MarkDispatched(c) ==
    LET k == caller[c].key
        n == caller[c].number IN
    /\ caller[c].pc = "dispatch"
    /\ attempts[k][n].status = "prepared"
    /\ attempts' = [attempts EXCEPT ![k][n].status = "dispatched"]
    /\ call' = [call EXCEPT ![k].status = "dispatched"]
    /\ caller' = [caller EXCEPT ![c].pc = "send"]
    /\ UNCHANGED <<version, breached, mutex, billed, unusable, told, orphaned, crashes, runs>>

\* create_planning_candidate: one request, no retry.  The provider executes and bills it or not.
CreatePlanningCandidate(c, u) ==
    /\ caller[c].pc = "send"
    /\ caller' = [caller EXCEPT ![c].pc = "settle"]
    /\ billed' = [billed EXCEPT ![caller[c].key][caller[c].number] = u]
    /\ UNCHANGED <<version, call, attempts, breached, mutex, unusable, told, orphaned, crashes, runs>>

----------------------------------------------------------------------------
(* What the adapters make of the provider's answer.                        *)

\* What comes back over the wire: the adapter rejects the request itself, the
\* provider refuses it (4xx), fails (5xx) or redirects, the connection or the time
\* runs out, the body is too long, or a body arrives.
Wires == {"unsent", "refused", "server_error", "redirect", "lost", "oversize", "body"}
Bodies == {"malformed", "failed", "nonterminal", "incomplete", "bad_candidate", "candidate"}

\* _summary_bound_to_request and the statuses that say that nothing was executed.
KnownWire == {"unsent", "refused"}

\* openai_adapter._parse_response: only a response that is still in progress is unknown.
OpenAIParse(body) ==
    CASE body = "candidate" -> "response"
      [] body = "nonterminal" -> "unknown"
      [] OTHER -> "known"

\* qwen_adapter._parse_response: whatever is not one finished message is malformed.
QwenParse(body) == IF body = "candidate" THEN "response" ELSE "known"

OpenAIOutcome(wire, body) ==
    IF wire = "body" THEN OpenAIParse(body)
    ELSE IF wire \in KnownWire THEN "known" ELSE "unknown"

QwenOutcome(wire, body) ==
    IF wire = "body" THEN QwenParse(body)
    ELSE IF wire \in KnownWire THEN "known" ELSE "unknown"

\* An adapter that returns the body's candidate as it is and leaves the judgement to
\* the coordinator, which expects nothing else of a ModelAdapter.
OtherOutcome(wire, body) ==
    IF wire = "body" THEN IF body = "candidate" THEN "response" ELSE "rejected"
    ELSE IF wire \in KnownWire THEN "known" ELSE "unknown"

\* The provider bills what it executes: never a refused request, always one it answers.
MayBill(wire, executed) ==
    /\ wire \in KnownWire => ~executed
    /\ wire = "body" => executed

\* The outcomes an adapter may raise or return for a request that was executed or not.
OutcomesWhen ==
    [executed \in BOOLEAN |->
        {o \in {"known", "unknown", "response", "rejected"} :
            \E w \in Wires, b \in Bodies :
                /\ MayBill(w, executed)
                /\ o \in {OpenAIOutcome(w, b), QwenOutcome(w, b), OtherOutcome(w, b)}}]
Outcomes(u) == OutcomesWhen[u # Nothing]

----------------------------------------------------------------------------
(* Settlement.                                                             *)

\* The statuses from which _settle_model_attempt accepts a success or a failure.
SettlesFrom(status) == IF status = "succeeded" THEN {"dispatched"} ELSE Live

\* Mutated: the version is not compared.
ValidationAnyVersion(k) ==
    IF \E n \in Numbers : attempts[k][n].validation = "validated_current" THEN "conflict"
    ELSE "validated_current"

\* validate_current: is the answer one for the Quest as it is now, and the first?
Validation(k) ==
    IF call[k].version # version THEN "stale"
    ELSE IF \E n \in Numbers : attempts[k][n].validation = "validated_current" THEN "conflict"
    ELSE "validated_current"

\* _settle_model_attempt with _settle_cost_locked.
Settle(k, n, status, validation, u) ==
    LET a == attempts[k][n]
        money == IF a.cost \in {"held", "unknown"} THEN ActualCost(u) ELSE a.money IN
    /\ attempts' = [attempts EXCEPT ![k][n] =
           [a EXCEPT !.status = status, !.validation = validation, !.settled = Tokens(u),
                     !.cost = "settled", !.money = money]]
    /\ breached' = (breached \/ (a.cost \in {"held", "unknown"} /\ money > ReservedCost(a.quote)))
    /\ call' = IF validation = "validated_current"
               THEN IF call[k].winner = 0
                    THEN [call EXCEPT ![k].status = status, ![k].winner = n]
                    ELSE call
               ELSE [call EXCEPT ![k].status = status]

\* Mutated: an unknown outcome frees its reservation.
MarkUnknownReleased(k, n) ==
    /\ attempts' = [attempts EXCEPT ![k][n] =
           [@ EXCEPT !.status = "failed", !.cost = "released"]]
    /\ call' = [call EXCEPT ![k].status = "unknown_outcome"]
    /\ UNCHANGED breached

\* Mutated: only the call and the reservation are marked.
MarkUnknownCall(k, n) ==
    /\ attempts' = [attempts EXCEPT ![k][n] = [@ EXCEPT !.cost = "unknown"]]
    /\ call' = [call EXCEPT ![k].status = "unknown_outcome"]
    /\ UNCHANGED breached

\* mark_model_attempt_unknown: the reservations stay.
MarkUnknown(k, n) ==
    LET a == attempts[k][n] IN
    /\ attempts' = [attempts EXCEPT ![k][n] =
           [a EXCEPT !.status = "unknown_outcome",
                     !.cost = IF a.cost = "held" THEN "unknown" ELSE a.cost]]
    /\ call' = [call EXCEPT ![k].status = "unknown_outcome"]
    /\ UNCHANGED breached

\* A settlement refused because the attempt is final; marking it unknown then
\* returns the unknown attempt as it is, or fails, and changes nothing either way.
SettlementRefused(k, n, status) == attempts[k][n].status \notin SettlesFrom(status)

\* An answer whose hashes and candidate are valid, and current or stale.
RecordSuccess(c, u) ==
    LET k == caller[c].key
        n == caller[c].number IN
    /\ caller[c].pc = "settle"
    /\ billed[k][n] = u
    /\ "response" \in Outcomes(u)
    /\ IF SettlementRefused(k, n, "succeeded")
       THEN UNCHANGED <<attempts, breached, call>>
       ELSE Settle(k, n, "succeeded", Validation(k), u)
    /\ told' = told \cup Telling(k, n)
    /\ Leave(c)
    /\ UNCHANGED <<version, billed, unusable, orphaned, crashes, runs>>

\* A response that is rejected: its usage if that can be read, else the whole reservation.
RecordRejected(c, readable) ==
    LET k == caller[c].key
        n == caller[c].number
        u == IF readable THEN billed[k][n]
             ELSE [in |-> caller[c].quote.tokens, out |-> 0] IN
    /\ caller[c].pc = "settle"
    /\ "rejected" \in Outcomes(billed[k][n])
    /\ IF SettlementRefused(k, n, "failed")
       THEN UNCHANGED <<attempts, breached, call>>
       ELSE Settle(k, n, "failed", "invalid", u)
    /\ Leave(c)
    /\ UNCHANGED <<version, billed, unusable, told, orphaned, crashes, runs>>

\* KnownModelFailure, settled at nothing: a request that was refused or never left,
\* and also an answer the provider executed and billed that the adapter finds
\* malformed, failed, incomplete or refused by the model.
RecordKnownFailure(c) ==
    LET k == caller[c].key
        n == caller[c].number IN
    /\ caller[c].pc = "settle"
    /\ "known" \in Outcomes(billed[k][n])
    /\ IF SettlementRefused(k, n, "failed")
       THEN UNCHANGED <<attempts, breached, call, unusable>>
       ELSE /\ Settle(k, n, "failed", "invalid", Nothing)
            /\ unusable' = IF billed[k][n] = Nothing THEN unusable
                           ELSE unusable \cup {<<k, n>>}
    /\ Leave(c)
    /\ UNCHANGED <<version, billed, told, orphaned, crashes, runs>>

\* UnknownModelOutcome, and any other exception after the dispatch.
RecordUnknown(c) ==
    LET k == caller[c].key
        n == caller[c].number IN
    /\ caller[c].pc = "settle"
    /\ "unknown" \in Outcomes(billed[k][n])
    /\ IF attempts[k][n].status = "dispatched"
       THEN MarkUnknown(k, n)
       ELSE UNCHANGED <<attempts, breached, call>>
    /\ Leave(c)
    /\ UNCHANGED <<version, billed, unusable, told, orphaned, crashes, runs>>

----------------------------------------------------------------------------
(* The Quest moves on; the process dies and is started again.              *)

Advance ==
    /\ version < MaxVersion
    /\ version' = version + 1
    /\ UNCHANGED <<call, attempts, breached, mutex, caller, billed, unusable, told, orphaned, crashes, runs>>

\* What recovery makes of an attempt.
Recovered(a) ==
    CASE a.status = "prepared" ->
           [a EXCEPT !.status = "failed", !.validation = "cancelled_before_dispatch",
                     !.cost = IF @ = "held" THEN "released" ELSE @]
      [] a.status = "dispatched" ->
           [a EXCEPT !.status = "unknown_outcome", !.cost = IF @ = "held" THEN "unknown" ELSE @]
      [] OTHER -> a

RecoveredCall(k) ==
    IF call[k].winner # 0 THEN call[k].status
    ELSE IF \E n \in Numbers : Recovered(attempts[k][n]).status = "unknown_outcome"
    THEN "unknown_outcome"
    ELSE IF \E n \in Numbers :
                Recovered(attempts[k][n]).validation = "cancelled_before_dispatch"
    THEN "failed"
    ELSE call[k].status

OpenAttempts == {kn \in Keys \X Numbers : attempts[kn[1]][kn[2]].status \in Live}

\* The process dies: what its callers had open stays as it is in the tables.
Crash ==
    /\ crashes < MaxCrashes
    /\ crashes' = crashes + 1
    /\ caller' = [c \in Callers |-> Idle]
    /\ mutex' = None
    /\ orphaned' = orphaned \cup OpenAttempts
    /\ UNCHANGED <<version, call, attempts, breached, billed, unusable, told, runs>>

\* recover_model_calls on a reopened store, before anybody calls.
RecoverModelCalls ==
    /\ \A c \in Callers : caller[c].pc = "idle"
    /\ attempts' = [k \in Keys |-> [n \in Numbers |-> Recovered(attempts[k][n])]]
    /\ call' = [k \in Keys |-> [call[k] EXCEPT !.status = RecoveredCall(k)]]
    /\ orphaned' = {}
    /\ UNCHANGED <<version, breached, mutex, caller, billed, unusable, told, crashes, runs>>

CallerStep(c) ==
    \/ Replay(c)
    \/ PrepareModelCall(c)
    \/ PrepareRejected(c)
    \/ MarkDispatched(c)
    \/ \E u \in Usages \cup {Nothing} : CreatePlanningCandidate(c, u)
    \/ \E u \in Usages : RecordSuccess(c, u)
    \/ \E readable \in BOOLEAN : RecordRejected(c, readable)
    \/ RecordKnownFailure(c)
    \/ RecordUnknown(c)

Next ==
    \/ \E c \in Callers : CallerStep(c)
    \/ \E c \in Callers, k \in Keys, i \in Inputs, q \in Quotes, v \in 1..MaxVersion :
          Submit(c, k, i, q, v)
    \/ \E c \in Callers, k \in Keys, q \in Quotes : RetryModelCall(c, k, q)
    \/ Advance
    \/ Crash
    \/ RecoverModelCalls

Spec == Init /\ [][Next]_vars

\* A caller's thread keeps running: the adapter's timeouts bound every request.
\* Nothing makes recover_model_calls run.
FairSpec == Spec /\ \A c \in Callers : WF_vars(CallerStep(c))

----------------------------------------------------------------------------
(* Properties.                                                             *)

CallerStates ==
    [pc : {"idle", "look", "dispatch", "send", "settle"}, key : Keys \cup {None},
     input : Inputs \cup {None}, quote : Quotes \cup {NoQuote}, version : 0..MaxVersion,
     number : 0..MaxAttempts]

\* Every row, caller and counter is of its kind.
TypeOK ==
    /\ version \in 1..MaxVersion
    /\ call \in [Keys -> [status : CallStatuses, winner : 0..MaxAttempts,
                          version : 0..MaxVersion, input : Inputs \cup {None}]]
    /\ attempts \in [Keys -> [Numbers -> [status : CallStatuses, validation : Validations,
                                          quote : Quotes \cup {NoQuote}, settled : Nat,
                                          cost : {None, "held", "unknown", "settled", "released"},
                                          money : Nat]]]
    /\ breached \in BOOLEAN
    /\ mutex \in Callers \cup {None}
    /\ caller \in [Callers -> CallerStates]
    /\ billed \in [Keys -> [Numbers -> Usages \cup {Nothing}]]
    /\ unusable \subseteq Keys \X Numbers
    /\ told \subseteq Keys \X Numbers /\ orphaned \subseteq Keys \X Numbers
    /\ crashes \in 0..MaxCrashes /\ runs \in 0..MaxRuns

\* What a provider reported beyond the reservation.
TokenOverrun(a) == IF a.status \in {"failed", "succeeded"} /\ a.settled > a.quote.tokens
                   THEN a.settled - a.quote.tokens ELSE 0
CostOverrun(a) == IF a.cost = "settled" /\ a.money > ReservedCost(a.quote)
                  THEN a.money - ReservedCost(a.quote) ELSE 0

\* Reserving before sending bounds what is spent: tokens and money held and settled
\* stay within the budget, but for what providers reported beyond their reservation;
\* the first such report closes the cost account.
BudgetHeld ==
    /\ TokenUsage <= MaxTokens + SumOver(TokenOverrun)
    /\ CostUsage <= MaxTotal + SumOver(CostOverrun)
    /\ SumOver(CostOverrun) > 0 => breached

\* However calls are retried, a call has at most one open attempt, its latest; at
\* most one answer is ever accepted, and everyone who is given an answer to a key is
\* given that one, bound to the version the call was made for.
OneAnswer ==
    \A k \in Keys :
        LET Valid == {n \in Numbers : attempts[k][n].validation = "validated_current"}
            Open == {n \in Numbers : attempts[k][n].status \in Live} IN
        /\ Valid = {call[k].winner} \ {0}
        /\ \A n \in Numbers : <<k, n>> \in told => n = call[k].winner
        /\ call[k].winner # 0 => call[k].status = "succeeded" /\ Open = {}
        /\ \A n \in Open : n = Max(Attempts(k)) /\ call[k].status = attempts[k][n].status

\* What the provider executed is forgotten in one case only: its answer arrived, the
\* adapter found it unusable and raised a KnownModelFailure, which settles the attempt
\* at nothing.  Whatever else happens (a lost answer, a stale, rejected or accepted one,
\* a settlement that is refused, a crash with or without a recovery) the tokens and the
\* money of an executed request are still held or were settled.
BilledIsCounted ==
    \A k \in Keys, n \in Numbers :
        billed[k][n] # Nothing /\ <<k, n>> \notin unusable =>
            /\ attempts[k][n].status \in {"dispatched", "unknown_outcome"} \/ attempts[k][n].settled > 0
            /\ attempts[k][n].cost \in {"held", "unknown", "settled"}

\* An answer is accepted only while the Quest is still where the call found it.
CurrentWhenAccepted ==
    [][\A k \in Keys : call'[k].winner # call[k].winner =>
          call[k].winner = 0 /\ call[k].version = version]_vars

\* Some caller is between the preparation and the settlement of this attempt.
Attended(k, n) ==
    \E c \in Callers : /\ caller[c].pc \in {"dispatch", "send", "settle"}
                       /\ caller[c].key = k /\ caller[c].number = n

\* An open attempt is one a caller is working on, or one a crash has left.
OpenIsAttended(k, n) ==
    attempts[k][n].status \in Live => Attended(k, n) \/ <<k, n>> \in orphaned

\* A call with such an attempt is shut: no retry, no settlement and no replay changes
\* its row or its attempts before a recovery does.
OrphansStay ==
    [][\A k \in Keys, n \in Numbers :
          <<k, n>> \in orphaned /\ <<k, n>> \in orphaned' =>
              attempts'[k] = attempts[k] /\ call'[k] = call[k]]_vars

\* No caller leaves an attempt open: it settles it or marks it unknown, whatever the
\* adapter makes of the answer and whatever others retried meanwhile.  Only a crash
\* leaves one, and that one stays open, with its reservations held and its call
\* neither answered nor retriable, until somebody calls recover_model_calls, which
\* the application never does.
AttemptsClose ==
    /\ [](\A k \in Keys, n \in Numbers : OpenIsAttended(k, n))
    /\ OrphansStay
    /\ \A k \in Keys, n \in Numbers :
          (attempts[k][n].status \in Live)
             ~> (attempts[k][n].status \notin Live \/ <<k, n>> \in orphaned)
=============================================================================
