--------------------------- MODULE LoopbackBridge ---------------------------
(***************************************************************************)
(* The v3 loopback bridge: a browser's request to apply, restore or        *)
(* reconcile one bound operation carries an idempotency key; an intent     *)
(* record is created before the controlled-write kernel is called and a    *)
(* result record after it.  Records are create-only files that survive the *)
(* process; its locks do not, and they hold within one process only.       *)
(*                                                                         *)
(* The kernel is the one of ControlledWrite; what a call of it may do is   *)
(* taken here as one step.  A request is what its digest covers: the       *)
(* operation, the action, and the binding it was confirmed for.            *)
(***************************************************************************)
EXTENDS Integers, FiniteSets

CONSTANTS BridgeProcs,    \* processes serving one work root
          WebOps,         \* bound operations
          MainAction,     \* per operation "apply" or "restore", by its authorization
          WebKeys,        \* idempotency keys
          MaxRecords,     \* _MAX_RECORDS
          MaxBridgeKills  \* bound on crashes

ASSUME BridgeAssumption ==
    /\ IsFiniteSet(BridgeProcs) /\ BridgeProcs # {}
    /\ MainAction \in [WebOps -> {"apply", "restore"}]
    /\ MaxRecords \in Nat /\ MaxBridgeKills \in Nat

VARIABLES intents,    \* per operation and key the action of the intent record, or "none"
          results,    \* per operation and key the result record's outcome, or "none"
          twoNames,   \* record files left under two names by a crash
          bridge,     \* per process the request it serves
          kernel,     \* per operation what its ledger says
          effects,    \* per operation how often the target was replaced
          calls,      \* per operation and key how often the kernel was called
          answers,    \* per operation and key the answers given with status 200
          bridgeKills

bridgeVars == <<intents, results, twoNames, bridge, kernel, effects, calls, answers, bridgeKills>>

Slots == WebOps \X WebKeys
Free == [pc |-> "free", slot |-> <<"none", "none">>, action |-> "none", outcome |-> "none"]

BridgeInit ==
    /\ intents = [s \in Slots |-> "none"] /\ results = [s \in Slots |-> "none"]
    /\ twoNames = {}
    /\ bridge = [p \in BridgeProcs |-> Free]
    /\ kernel = [o \in WebOps |-> "unopened"]
    /\ effects = [o \in WebOps |-> 0]
    /\ calls = [s \in Slots |-> 0] /\ answers = [s \in Slots |-> {}]
    /\ bridgeKills = 0

----------------------------------------------------------------------------
(* Records.                                                                *)

\* A record file, named by the step between its link and its unlink.
IntentFile(slot) == [kind |-> "intent linked", slot |-> slot]
ResultFile(slot) == [kind |-> "result linked", slot |-> slot]

\* load_record: a file with two names is refused.
Loads(file) ==
    /\ file \notin twoNames
    /\ \A p \in BridgeProcs :
           ~(bridge[p].pc = file.kind /\ bridge[p].slot = file.slot)

\* _idempotency
FindsRecords(slot) ==
    /\ Loads(IntentFile(slot))
    /\ results[slot] # "none" => Loads(ResultFile(slot))

\* _record_count
RecordCount ==
    Cardinality({s \in Slots : intents[s] # "none"}) + Cardinality({s \in Slots : results[s] # "none"})

\* Both records of a request must fit.
RoomForBoth == RecordCount + 2 <= MaxRecords

\* expected_mutations of a binding
Allowed(o) == {MainAction[o], "reconcile"}

----------------------------------------------------------------------------
(* The kernel.                                                             *)

Outcome(state, wrote, outcome) == [state |-> state, wrote |-> wrote, outcome |-> outcome]

\* What apply and restore may do.  Up to its intent an operation may be tried
\* again: it is completed, left open with its effect present or absent, or left as
\* it was.  From its intent on it is only ever refused.
WriteOutcomes(state) ==
    IF state \in {"unopened", "prepared"}
    THEN {Outcome("terminal", 1, "completed"), Outcome("terminal", 1, "attention"),
          Outcome("open", 1, "attention"), Outcome("open", 0, "attention"),
          Outcome("prepared", 0, "attention"), Outcome(state, 0, "rejected")}
    ELSE {Outcome(state, 0, "attention"), Outcome(state, 0, "rejected")}

\* reconcile settles an open operation by looking at the target, and returns the
\* receipt of one that is settled.
ReconcileOutcomes(state) ==
    {Outcome(state, 0, "attention")} \cup
        (IF state \in {"open", "terminal"} THEN {Outcome("terminal", 0, "completed")} ELSE {})

KernelOutcomes(action, state) ==
    IF action = "reconcile" THEN ReconcileOutcomes(state) ELSE WriteOutcomes(state)

----------------------------------------------------------------------------
(* mutate.                                                                 *)

In(p, pc) == bridge[p].pc = pc
Move(p, pc) == bridge' = [bridge EXCEPT ![p].pc = pc]
Done(p) == bridge' = [bridge EXCEPT ![p] = Free]

\* A request of a live session with the right confirmation takes the locks.
Request(p, slot, action) ==
    /\ In(p, "free") /\ action \in Allowed(slot[1])
    /\ bridge' = [bridge EXCEPT ![p] = [Free EXCEPT !.pc = "lookup", !.slot = slot, !.action = action]]
    /\ UNCHANGED <<intents, results, twoNames, kernel, effects, calls, answers, bridgeKills>>

\* A key that is known: its result is answered again when the request is the same
\* one; a lone intent, another request or an unreadable record is a 409.
Replay(p) ==
    LET slot == bridge[p].slot
    IN  /\ In(p, "lookup") /\ intents[slot] # "none"
        /\ answers' = (IF FindsRecords(slot) /\ intents[slot] = bridge[p].action
                          /\ results[slot] # "none"
                       THEN [answers EXCEPT ![slot] = @ \cup {results[slot]}] ELSE answers)
        /\ Done(p)
        /\ UNCHANGED <<intents, results, twoNames, kernel, effects, calls, bridgeKills>>

\* A new key: refused when the records would not fit.
Reserve(p) ==
    /\ In(p, "lookup") /\ intents[bridge[p].slot] = "none"
    /\ IF RoomForBoth THEN Move(p, "intent") ELSE Done(p)
    /\ UNCHANGED <<intents, results, twoNames, kernel, effects, calls, answers, bridgeKills>>

CreatesAnyway(slot) == slot \in Slots

\* publish_new_direct_child never replaces a file.
CreatesIntent(slot) == intents[slot] = "none"

\* The intent is linked into place; another process's intent ends the request.
PublishIntent(p) ==
    LET slot == bridge[p].slot
    IN  /\ In(p, "intent")
        /\ IF CreatesIntent(slot)
           THEN intents' = [intents EXCEPT ![slot] = bridge[p].action] /\ Move(p, "intent linked")
           ELSE Done(p) /\ UNCHANGED intents
        /\ UNCHANGED <<results, twoNames, kernel, effects, calls, answers, bridgeKills>>

\* Its temporary name is removed and it is read back.
SettleIntent(p) ==
    /\ In(p, "intent linked")
    /\ Move(p, "dispatch")
    /\ UNCHANGED <<intents, results, twoNames, kernel, effects, calls, answers, bridgeKills>>

\* _dispatch
Dispatch(p) ==
    LET slot == bridge[p].slot
        o == slot[1]
    IN  /\ In(p, "dispatch")
        /\ \E r \in KernelOutcomes(bridge[p].action, kernel[o]) :
               /\ kernel' = [kernel EXCEPT ![o] = r.state]
               /\ effects' = [effects EXCEPT ![o] = @ + r.wrote]
               /\ bridge' = [bridge EXCEPT ![p].pc = "result", ![p].outcome = r.outcome]
        /\ calls' = [calls EXCEPT ![slot] = @ + 1]
        /\ UNCHANGED <<intents, results, twoNames, answers, bridgeKills>>

\* The result is linked into place; one already there is left alone.
PublishResult(p) ==
    LET slot == bridge[p].slot
    IN  /\ In(p, "result")
        /\ IF results[slot] = "none"
           THEN results' = [results EXCEPT ![slot] = bridge[p].outcome] /\ Move(p, "result linked")
           ELSE Done(p) /\ UNCHANGED results
        /\ UNCHANGED <<intents, twoNames, kernel, effects, calls, answers, bridgeKills>>

\* The answer follows the record: _result_projection, with status 200.
Answer(p) ==
    LET slot == bridge[p].slot
    IN  /\ In(p, "result linked")
        /\ answers' = [answers EXCEPT ![slot] = @ \cup {bridge[p].outcome}]
        /\ Done(p)
        /\ UNCHANGED <<intents, results, twoNames, kernel, effects, calls, bridgeKills>>

\* The process dies.  A record being published keeps two names; a kernel call may
\* have come as far as its effect.
BridgeKill(p) ==
    LET slot == bridge[p].slot
        o == slot[1]
    IN  /\ ~In(p, "free") /\ bridgeKills < MaxBridgeKills
        /\ bridgeKills' = bridgeKills + 1
        /\ Done(p)
        /\ twoNames' = twoNames \cup
               {file \in {IntentFile(slot), ResultFile(slot)} : In(p, file.kind)}
        /\ IF In(p, "dispatch")
           THEN \E r \in KernelOutcomes(bridge[p].action, kernel[o]) \cup {Outcome(kernel[o], 0, "none")} :
                    /\ kernel' = [kernel EXCEPT ![o] = r.state]
                    /\ effects' = [effects EXCEPT ![o] = @ + r.wrote]
                    /\ calls' = [calls EXCEPT ![slot] = @ + 1]
           ELSE UNCHANGED <<kernel, effects, calls>>
        /\ UNCHANGED <<intents, results, answers>>

BridgeStep(p) ==
    \/ Replay(p) \/ Reserve(p) \/ PublishIntent(p) \/ SettleIntent(p) \/ Dispatch(p)
    \/ PublishResult(p) \/ Answer(p)

BridgeNext ==
    \E p \in BridgeProcs :
        \/ BridgeStep(p)
        \/ BridgeKill(p)
        \/ \E slot \in Slots, action \in {"apply", "restore", "reconcile"} : Request(p, slot, action)

BridgeSpec == BridgeInit /\ [][BridgeNext]_bridgeVars

----------------------------------------------------------------------------
(* Properties.                                                             *)

\* A key reaches the kernel at most once, whatever is retried, lost or served by
\* another process, and the target is replaced at most once per operation.  Whoever
\* was answered with status 200 was told what the result record says, so every
\* repetition of the request, also after a restart, is told the same.  The record
\* directory stays within _MAX_RECORDS; as the reservation is made under a lock of
\* one process, each further process may overshoot by one request.
DispatchedOnce ==
    /\ \A slot \in Slots : calls[slot] <= 1 /\ answers[slot] \subseteq {results[slot]}
    /\ \A o \in WebOps : effects[o] <= 1
    /\ RecordCount <= MaxRecords + 2 * (Cardinality(BridgeProcs) - 1)
=============================================================================
