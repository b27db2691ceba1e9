------------------------- MODULE LocalPlanes_proofs -------------------------
(***************************************************************************)
(* The v3 loopback bridge for any number of processes, operations and keys,*)
(* and the settings control plane for any number of processes, panels and  *)
(* keys and any writing of a person: what each promises by itself, and     *)
(* among the other surfaces of the application; then the safety halves of  *)
(* what browser sessions, MCP sessions and v0 Quests promise.              *)
(***************************************************************************)
EXTENDS LocalPlanes, FiniteSetTheorems, TLAPS

----------------------------------------------------------------------------
(* The bridge: types.                                                      *)

Acts == {"apply", "restore", "reconcile"}
Results == {"completed", "attention", "rejected"}
BridgePcs == {"free", "lookup", "intent", "intent linked", "dispatch", "result", "result linked"}
KernelStates == {"unopened", "prepared", "open", "terminal"}

BridgeRecords == [pc : BridgePcs, slot : Slots \cup {<<"none", "none">>},
                  action : Acts \cup {"none"}, outcome : Results \cup {"none"}]

BridgeType ==
    /\ intents \in [Slots -> Acts \cup {"none"}]
    /\ results \in [Slots -> Results \cup {"none"}]
    /\ bridge \in [BridgeProcs -> BridgeRecords]
    /\ \A p \in BridgeProcs : ~In(p, "free") => bridge[p].slot \in Slots /\ bridge[p].action \in Acts
    /\ kernel \in [WebOps -> KernelStates]
    /\ effects \in [WebOps -> Nat]
    /\ calls \in [Slots -> Nat]
    /\ answers \in [Slots -> SUBSET (Results \cup {"none"})]

(* What the kernel may do leaves its state a state, writes at most once per *)
(* call, and only to an operation that has not passed its intent.           *)
LEMMA KernelStep ==
    ASSUME NEW action \in Acts, NEW state \in KernelStates,
           NEW r \in KernelOutcomes(action, state) \cup {Outcome(state, 0, "none")}
    PROVE  /\ r.state \in KernelStates
           /\ r.wrote \in {0, 1}
           /\ r.outcome \in Results \cup {"none"}
           /\ r \in KernelOutcomes(action, state) => r.outcome \in Results
           /\ r.wrote = 1 => state \in {"unopened", "prepared"} /\ r.state \in {"open", "terminal"}
           /\ state \in {"open", "terminal"} => r.state \in {"open", "terminal"}
BY DEF KernelOutcomes, WriteOutcomes, ReconcileOutcomes, Outcome, KernelStates, Results

LEMMA SlotParts == \A slot \in Slots : slot[1] \in WebOps
BY DEF Slots

LEMMA FreeRecord == Free \in BridgeRecords /\ Free.pc = "free"
BY DEF Free, BridgeRecords, BridgePcs

LEMMA BridgeTypeInit == BridgeInit => BridgeType
BY FreeRecord DEF BridgeInit, BridgeType, KernelStates, In

(* A step of one request leaves the others alone.                           *)
Turns(p, pc, slot, action, outcome) ==
    /\ bridge' \in [BridgeProcs -> BridgeRecords]
    /\ bridge'[p].pc = pc /\ bridge'[p].slot = slot
    /\ bridge'[p].action = action /\ bridge'[p].outcome = outcome
    /\ \A q \in BridgeProcs \ {p} : bridge'[q] = bridge[q]

LEMMA MoveTurns ==
    ASSUME BridgeType, NEW p \in BridgeProcs, NEW pc \in BridgePcs, Move(p, pc)
    PROVE  Turns(p, pc, bridge[p].slot, bridge[p].action, bridge[p].outcome)
BY DEF BridgeType, Move, Turns, BridgeRecords

LEMMA DoneTurns ==
    ASSUME BridgeType, NEW p \in BridgeProcs, Done(p)
    PROVE  Turns(p, "free", <<"none", "none">>, "none", "none")
BY FreeRecord DEF BridgeType, Done, Turns, Free

LEMMA RequestTurns ==
    ASSUME BridgeType, NEW p \in BridgeProcs, NEW slot \in Slots, NEW action \in Acts,
           Request(p, slot, action)
    PROVE  Turns(p, "lookup", slot, action, "none")
<1>1. /\ [Free EXCEPT !.pc = "lookup", !.slot = slot, !.action = action] \in BridgeRecords
      /\ Free.outcome = "none"
  BY FreeRecord DEF BridgeRecords, BridgePcs, Free
<1> QED
  BY <1>1, FreeRecord DEF BridgeType, Request, Turns, BridgeRecords

LEMMA DispatchTurns ==
    ASSUME BridgeType, NEW p \in BridgeProcs, Dispatch(p)
    PROVE  \E r \in KernelOutcomes(bridge[p].action, kernel[bridge[p].slot[1]]) :
              /\ kernel' = [kernel EXCEPT ![bridge[p].slot[1]] = r.state]
              /\ effects' = [effects EXCEPT ![bridge[p].slot[1]] = @ + r.wrote]
              /\ Turns(p, "result", bridge[p].slot, bridge[p].action, r.outcome)
<1>1. bridge[p].action \in Acts /\ kernel[bridge[p].slot[1]] \in KernelStates
  BY SlotParts DEF BridgeType, Dispatch, In
<1>2. PICK r \in KernelOutcomes(bridge[p].action, kernel[bridge[p].slot[1]]) :
         /\ kernel' = [kernel EXCEPT ![bridge[p].slot[1]] = r.state]
         /\ effects' = [effects EXCEPT ![bridge[p].slot[1]] = @ + r.wrote]
         /\ bridge' = [bridge EXCEPT ![p].pc = "result", ![p].outcome = r.outcome]
  BY DEF Dispatch
<1>3. r.outcome \in Results
  BY <1>1, KernelStep
<1>4. Turns(p, "result", bridge[p].slot, bridge[p].action, r.outcome)
  BY <1>2, <1>3 DEF BridgeType, Turns, BridgeRecords, BridgePcs
<1> QED
  BY <1>2, <1>4

(* Whose request is where is all that the type of the table depends on.     *)
LEMMA TurnsType ==
    ASSUME BridgeType, NEW p \in BridgeProcs, NEW pc, NEW slot, NEW action, NEW outcome,
           Turns(p, pc, slot, action, outcome), pc # "free" => slot \in Slots /\ action \in Acts
    PROVE  \A q \in BridgeProcs : bridge'[q].pc # "free" => bridge'[q].slot \in Slots /\ bridge'[q].action \in Acts
BY DEF BridgeType, Turns, In

LEMMA BridgeTypeStep == BridgeType /\ [BridgeNext]_bridgeVars => BridgeType'
<1> SUFFICES ASSUME BridgeType, [BridgeNext]_bridgeVars PROVE BridgeType'
  OBVIOUS
<1>1. ASSUME NEW p \in BridgeProcs, NEW slot \in Slots, NEW action \in Acts, Request(p, slot, action)
      PROVE  BridgeType'
  <2>1. Turns(p, "lookup", slot, action, "none")
    BY <1>1, RequestTurns
  <2>2. \A q \in BridgeProcs : bridge'[q].pc # "free" => bridge'[q].slot \in Slots /\ bridge'[q].action \in Acts
    BY <2>1, TurnsType
  <2> QED
    BY <1>1, <2>1, <2>2 DEF Request, BridgeType, Turns, In
<1>2. ASSUME NEW p \in BridgeProcs, Replay(p) PROVE BridgeType'
  <2>1. answers' \in [Slots -> SUBSET (Results \cup {"none"})]
    BY <1>2 DEF Replay, BridgeType, In
  <2> QED
    BY <1>2, <2>1, DoneTurns, TurnsType DEF Replay, BridgeType, Turns, In
<1>3. ASSUME NEW p \in BridgeProcs, Reserve(p) PROVE BridgeType'
  BY <1>3, MoveTurns, DoneTurns, TurnsType DEF Reserve, BridgeType, Turns, In, BridgePcs
<1>4. ASSUME NEW p \in BridgeProcs, PublishIntent(p) PROVE BridgeType'
  <2>1. intents' \in [Slots -> Acts \cup {"none"}]
    BY <1>4 DEF PublishIntent, BridgeType, In
  <2> QED
    BY <1>4, <2>1, MoveTurns, DoneTurns, TurnsType, ZenonT(60) DEF PublishIntent, BridgeType, Turns, In, BridgePcs
<1>5. ASSUME NEW p \in BridgeProcs, SettleIntent(p) PROVE BridgeType'
  BY <1>5, MoveTurns, TurnsType DEF SettleIntent, BridgeType, Turns, In, BridgePcs
<1>6. ASSUME NEW p \in BridgeProcs, Dispatch(p) PROVE BridgeType'
  <2>1. bridge[p].action \in Acts /\ bridge[p].slot \in Slots /\ bridge[p].slot[1] \in WebOps
        /\ kernel[bridge[p].slot[1]] \in KernelStates
    BY <1>6, SlotParts DEF BridgeType, Dispatch, In
  <2>2. PICK r \in KernelOutcomes(bridge[p].action, kernel[bridge[p].slot[1]]) :
              /\ kernel' = [kernel EXCEPT ![bridge[p].slot[1]] = r.state]
              /\ effects' = [effects EXCEPT ![bridge[p].slot[1]] = @ + r.wrote]
              /\ Turns(p, "result", bridge[p].slot, bridge[p].action, r.outcome)
    BY <1>6, DispatchTurns
  <2>3. kernel' \in [WebOps -> KernelStates] /\ effects' \in [WebOps -> Nat]
    BY <2>1, <2>2, KernelStep DEF BridgeType
  <2>4. calls' \in [Slots -> Nat]
    BY <1>6, <2>1 DEF Dispatch, BridgeType
  <2> QED
    BY <1>6, <2>1, <2>2, <2>3, <2>4, TurnsType DEF Dispatch, BridgeType, Turns, In
<1>7. ASSUME NEW p \in BridgeProcs, PublishResult(p) PROVE BridgeType'
  <2>1. results' \in [Slots -> Results \cup {"none"}]
    BY <1>7 DEF PublishResult, BridgeType, In, BridgeRecords
  <2> QED
    BY <1>7, <2>1, MoveTurns, DoneTurns, TurnsType, ZenonT(60) DEF PublishResult, BridgeType, Turns, In, BridgePcs
<1>8. ASSUME NEW p \in BridgeProcs, Answer(p) PROVE BridgeType'
  <2>1. answers' \in [Slots -> SUBSET (Results \cup {"none"})]
    BY <1>8 DEF Answer, BridgeType, In, BridgeRecords
  <2> QED
    BY <1>8, <2>1, DoneTurns, TurnsType DEF Answer, BridgeType, Turns, In
<1>9. ASSUME NEW p \in BridgeProcs, BridgeKill(p) PROVE BridgeType'
  <2>1. bridge[p].action \in Acts /\ bridge[p].slot \in Slots /\ bridge[p].slot[1] \in WebOps
        /\ kernel[bridge[p].slot[1]] \in KernelStates
    BY <1>9, SlotParts DEF BridgeType, BridgeKill, In
  <2>2. /\ kernel' \in [WebOps -> KernelStates] /\ effects' \in [WebOps -> Nat]
        /\ calls' \in [Slots -> Nat]
    BY <1>9, <2>1, KernelStep DEF BridgeKill, BridgeType
  <2> QED
    BY <1>9, <2>2, DoneTurns, TurnsType DEF BridgeKill, BridgeType, Turns, In
<1>10. CASE UNCHANGED bridgeVars
  BY <1>10 DEF bridgeVars, BridgeType, In
<1> QED
  BY <1>1, <1>2, <1>3, <1>4, <1>5, <1>6, <1>7, <1>8, <1>9, <1>10 DEF BridgeNext, BridgeStep, Acts

----------------------------------------------------------------------------
(* The bridge: one request per key.                                        *)

Past(p) == bridge[p].pc \in {"intent linked", "dispatch", "result", "result linked"}

(* A request that has created its intent is the only one for its key.       *)
OneClaim ==
    /\ \A p \in BridgeProcs : Past(p) => intents[bridge[p].slot] # "none"
    /\ \A p, q \in BridgeProcs : Past(p) /\ Past(q) /\ bridge[p].slot = bridge[q].slot => p = q

(* The kernel is called by that request only, and once.                     *)
CalledOnce ==
    /\ \A slot \in Slots : calls[slot] <= 1 /\ (intents[slot] = "none" => calls[slot] = 0)
    /\ \A p \in BridgeProcs :
          bridge[p].pc \in {"intent linked", "dispatch"} => calls[bridge[p].slot] = 0

(* What is about to be answered is on record, and nothing was before that.  *)
ToldRecord ==
    /\ \A slot \in Slots :
          answers[slot] \subseteq {results[slot]} /\ (results[slot] = "none" => answers[slot] = {})
    /\ \A p \in BridgeProcs :
          /\ bridge[p].pc \in {"result", "result linked"} => bridge[p].outcome # "none"
          /\ bridge[p].pc = "result linked" => results[bridge[p].slot] = bridge[p].outcome

(* An operation that was written is past its intent.                        *)
WrittenOnce ==
    \A o \in WebOps : effects[o] <= 1 /\ (effects[o] = 1 => kernel[o] \in {"open", "terminal"})

KeyInv == OneClaim /\ CalledOnce /\ ToldRecord /\ WrittenOnce

LEMMA KeyInit == BridgeInit => KeyInv
<1> SUFFICES ASSUME BridgeInit PROVE KeyInv
  OBVIOUS
<1>1. \A p \in BridgeProcs : bridge[p].pc = "free"
  BY FreeRecord DEF BridgeInit
<1>2. OneClaim
  BY <1>1 DEF OneClaim, Past
<1>3. \A slot \in Slots : calls[slot] = 0
  BY DEF BridgeInit
<1>4. CalledOnce
  <2>1. \A slot \in Slots : calls[slot] <= 1 /\ (intents[slot] = "none" => calls[slot] = 0)
    BY <1>3
  <2> QED
    BY <1>1, <2>1 DEF CalledOnce
<1>5. ToldRecord
  BY <1>1 DEF BridgeInit, ToldRecord
<1>6. WrittenOnce
  BY DEF BridgeInit, WrittenOnce
<1> QED
  BY <1>2, <1>4, <1>5, <1>6 DEF KeyInv

(* No intent is withdrawn and no request but its own gets past it.          *)
LEMMA ClaimKept ==
    ASSUME OneClaim, NEW p \in BridgeProcs, NEW pc, NEW slot, NEW action, NEW outcome,
           Turns(p, pc, slot, action, outcome), UNCHANGED intents,
           pc \in {"free", "lookup", "intent"} \/ (Past(p) /\ slot = bridge[p].slot)
    PROVE  OneClaim'
<1>1. \A q \in BridgeProcs : Past(q)' => Past(q) /\ bridge'[q].slot = bridge[q].slot
  BY DEF Turns, Past
<1>2. \A q \in BridgeProcs : Past(q)' => intents'[bridge'[q].slot] # "none"
  BY <1>1 DEF OneClaim
<1>3. \A q, r \in BridgeProcs : Past(q)' /\ Past(r)' /\ bridge'[q].slot = bridge'[r].slot => q = r
  BY <1>1 DEF OneClaim
<1> QED
  BY <1>2, <1>3 DEF OneClaim

(* A request that has nothing to report yet changes nothing that was told.  *)
LEMMA ToldKept ==
    ASSUME ToldRecord, NEW p \in BridgeProcs, NEW pc, NEW slot, NEW action, NEW outcome,
           Turns(p, pc, slot, action, outcome), UNCHANGED <<results, answers>>,
           pc # "result linked", pc = "result" => outcome # "none"
    PROVE  ToldRecord'
<1>1. ASSUME NEW q \in BridgeProcs
      PROVE  /\ bridge'[q].pc \in {"result", "result linked"} => bridge'[q].outcome # "none"
             /\ bridge'[q].pc = "result linked" => results'[bridge'[q].slot] = bridge'[q].outcome
  <2>1. CASE q = p
    BY <2>1 DEF Turns
  <2>2. CASE q # p
    BY <2>2 DEF Turns, ToldRecord
  <2> QED
    BY <2>1, <2>2
<1> QED
  BY <1>1 DEF ToldRecord

(* Steps that change no record and no operation: a request that ends, waits *)
(* for its turn, or goes on from its intent to the kernel.                  *)
LEMMA QuietStep ==
    ASSUME KeyInv, NEW p \in BridgeProcs, NEW pc, NEW slot, NEW action, NEW outcome,
           Turns(p, pc, slot, action, outcome),
           UNCHANGED <<intents, results, kernel, effects, calls, answers>>,
           \/ pc \in {"free", "lookup", "intent"}
           \/ pc = "dispatch" /\ bridge[p].pc = "intent linked" /\ slot = bridge[p].slot
    PROVE  KeyInv'
<1>1. OneClaim'
  BY ClaimKept DEF KeyInv, Past
<1>2. CalledOnce'
  BY DEF KeyInv, CalledOnce, Turns
<1>3. ToldRecord'
  BY ToldKept DEF KeyInv
<1>4. WrittenOnce'
  BY DEF KeyInv, WrittenOnce
<1> QED
  BY <1>1, <1>2, <1>3, <1>4 DEF KeyInv

(* The kernel's outcome, whether it is reported or lost with the process.   *)
LEMMA KernelWrites ==
    ASSUME BridgeType, WrittenOnce, NEW o \in WebOps, NEW action \in Acts,
           NEW r \in KernelOutcomes(action, kernel[o]) \cup {Outcome(kernel[o], 0, "none")},
           kernel' = [kernel EXCEPT ![o] = r.state],
           effects' = [effects EXCEPT ![o] = @ + r.wrote]
    PROVE  WrittenOnce'
<1>1. kernel[o] \in KernelStates /\ effects[o] \in Nat
  BY DEF BridgeType
<1>2. /\ r.wrote \in {0, 1}
      /\ r.wrote = 1 => kernel[o] \in {"unopened", "prepared"} /\ r.state \in {"open", "terminal"}
      /\ kernel[o] \in {"open", "terminal"} => r.state \in {"open", "terminal"}
  BY <1>1, KernelStep
<1>3. effects'[o] = effects[o] + r.wrote /\ kernel'[o] = r.state
  BY DEF BridgeType
<1>4. \A x \in WebOps \ {o} : effects'[x] = effects[x] /\ kernel'[x] = kernel[x]
  BY DEF BridgeType
<1>5. effects'[o] <= 1 /\ (effects'[o] = 1 => kernel'[o] \in {"open", "terminal"})
  BY <1>1, <1>2, <1>3 DEF WrittenOnce
<1> QED
  BY <1>4, <1>5 DEF WrittenOnce

(* The call is counted, and its caller is no longer before it.              *)
LEMMA CallCounted ==
    ASSUME BridgeType, OneClaim, CalledOnce, NEW p \in BridgeProcs, bridge[p].pc = "dispatch",
           NEW pc, NEW slot, NEW action, NEW outcome, Turns(p, pc, slot, action, outcome),
           pc \in {"free", "result"}, UNCHANGED intents,
           calls' = [calls EXCEPT ![bridge[p].slot] = @ + 1]
    PROVE  CalledOnce'
<1>1. \A q \in BridgeProcs : bridge[q].pc # "free" => bridge[q].slot \in Slots
  BY DEF BridgeType, In
<1>2. bridge[p].slot \in Slots /\ calls[bridge[p].slot] = 0 /\ intents[bridge[p].slot] # "none"
  BY <1>1 DEF CalledOnce, OneClaim, Past
<1>3. calls'[bridge[p].slot] = 1 /\ \A x \in Slots \ {bridge[p].slot} : calls'[x] = calls[x]
  BY <1>2 DEF BridgeType
<1>4. ASSUME NEW x \in Slots PROVE calls'[x] <= 1 /\ (intents'[x] = "none" => calls'[x] = 0)
  <2>1. CASE x = bridge[p].slot
    BY <1>2, <1>3, <2>1
  <2>2. CASE x # bridge[p].slot
    BY <1>3, <2>2 DEF CalledOnce
  <2> QED
    BY <2>1, <2>2
<1>5. ASSUME NEW q \in BridgeProcs, bridge'[q].pc \in {"intent linked", "dispatch"}
      PROVE  calls'[bridge'[q].slot] = 0
  <2>1. q # p /\ bridge'[q] = bridge[q]
    BY <1>5 DEF Turns
  <2>2. bridge[q].slot \in Slots /\ bridge[q].slot # bridge[p].slot
    BY <1>1, <1>5, <2>1 DEF OneClaim, Past
  <2> QED
    BY <1>3, <1>5, <2>1, <2>2, ZenonT(60) DEF CalledOnce
<1> QED
  BY <1>4, <1>5 DEF CalledOnce

LEMMA KeyStep == BridgeType /\ KeyInv /\ [BridgeNext]_bridgeVars => KeyInv'
<1> SUFFICES ASSUME BridgeType, BridgeType', KeyInv, [BridgeNext]_bridgeVars PROVE KeyInv'
  BY BridgeTypeStep
<1>0. \A q \in BridgeProcs : bridge[q].pc # "free" => bridge[q].slot \in Slots
  BY DEF BridgeType, In
<1>1. ASSUME NEW p \in BridgeProcs, NEW slot \in Slots, NEW action \in Acts, Request(p, slot, action)
      PROVE  KeyInv'
  BY <1>1, RequestTurns, QuietStep DEF Request
<1>2. ASSUME NEW p \in BridgeProcs, Replay(p) PROVE KeyInv'
  <2>1. Turns(p, "free", <<"none", "none">>, "none", "none")
    BY <1>2, DoneTurns DEF Replay
  <2>2. UNCHANGED <<intents, results, kernel, effects, calls>> /\ bridge[p].slot \in Slots
    BY <1>0, <1>2 DEF Replay, In
  <2>3. \A slot \in Slots :
           \/ answers'[slot] = answers[slot]
           \/ results[slot] # "none" /\ answers'[slot] = answers[slot] \cup {results[slot]}
    BY <1>2, <2>2 DEF Replay, BridgeType
  <2>4. OneClaim'
    BY <2>1, <2>2, ClaimKept DEF KeyInv
  <2>5. CalledOnce'
    BY <2>1, <2>2 DEF KeyInv, CalledOnce, Turns
  <2>6. ToldRecord'
    BY <2>1, <2>2, <2>3 DEF KeyInv, ToldRecord, Turns
  <2>7. WrittenOnce'
    BY <2>2 DEF KeyInv, WrittenOnce
  <2> QED
    BY <2>4, <2>5, <2>6, <2>7 DEF KeyInv
<1>3. ASSUME NEW p \in BridgeProcs, Reserve(p) PROVE KeyInv'
  <2>1. \/ Turns(p, "free", <<"none", "none">>, "none", "none")
        \/ Turns(p, "intent", bridge[p].slot, bridge[p].action, bridge[p].outcome)
    BY <1>3, DoneTurns, MoveTurns DEF Reserve, BridgePcs
  <2> QED
    BY <1>3, <2>1, QuietStep DEF Reserve
<1>4. ASSUME NEW p \in BridgeProcs, PublishIntent(p) PROVE KeyInv'
  <2>1. UNCHANGED <<results, kernel, effects, calls, answers>>
    BY <1>4 DEF PublishIntent
  <2>2. bridge[p].slot \in Slots /\ bridge[p].action \in Acts
    BY <1>4 DEF PublishIntent, BridgeType, In
  <2>3. CASE ~CreatesIntent(bridge[p].slot)
    <3>1. Turns(p, "free", <<"none", "none">>, "none", "none") /\ UNCHANGED intents
      BY <1>4, <2>3, DoneTurns DEF PublishIntent
    <3> QED
      BY <2>1, <3>1, QuietStep
  <2>4. CASE CreatesIntent(bridge[p].slot)
    <3>1. Turns(p, "intent linked", bridge[p].slot, bridge[p].action, bridge[p].outcome)
      BY <1>4, <2>4, MoveTurns DEF PublishIntent, BridgePcs
    <3>2. /\ intents[bridge[p].slot] = "none" /\ intents'[bridge[p].slot] # "none"
          /\ \A slot \in Slots \ {bridge[p].slot} : intents'[slot] = intents[slot]
      BY <1>4, <2>2, <2>4 DEF PublishIntent, CreatesIntent, BridgeType, Acts
    <3>3. \A q \in BridgeProcs \ {p} : Past(q) => bridge[q].slot # bridge[p].slot
      BY <3>2 DEF KeyInv, OneClaim
    <3>4. \A q \in BridgeProcs \ {p} : Past(q)' => Past(q) /\ bridge'[q].slot = bridge[q].slot
      BY <3>1 DEF Past, Turns
    <3>5. ASSUME NEW q \in BridgeProcs, Past(q)' PROVE intents'[bridge'[q].slot] # "none"
      <4>1. CASE q = p
        BY <3>1, <3>2, <4>1 DEF Turns
      <4>2. CASE q # p
        <5>1. Past(q) /\ bridge'[q].slot = bridge[q].slot /\ bridge[q].slot # bridge[p].slot
          BY <3>3, <3>4, <3>5, <4>2
        <5>2. bridge[q].slot \in Slots /\ intents[bridge[q].slot] # "none"
          BY <1>0, <5>1 DEF KeyInv, OneClaim, Past
        <5> QED
          BY <3>2, <5>1, <5>2
      <4> QED
        BY <4>1, <4>2
    <3>6. \A q, r \in BridgeProcs : Past(q)' /\ Past(r)' /\ bridge'[q].slot = bridge'[r].slot => q = r
      BY <3>1, <3>3, <3>4, ZenonT(60) DEF KeyInv, OneClaim, Turns
    <3>7. CalledOnce'
      BY <2>1, <2>2, <3>1, <3>2 DEF KeyInv, CalledOnce, Turns
    <3>8. ToldRecord'
      BY <2>1, <3>1, ToldKept DEF KeyInv
    <3>9. WrittenOnce'
      BY <2>1 DEF KeyInv, WrittenOnce
    <3> QED
      BY <3>5, <3>6, <3>7, <3>8, <3>9 DEF KeyInv, OneClaim
  <2> QED
    BY <2>3, <2>4
<1>5. ASSUME NEW p \in BridgeProcs, SettleIntent(p) PROVE KeyInv'
  <2>1. Turns(p, "dispatch", bridge[p].slot, bridge[p].action, bridge[p].outcome)
    BY <1>5, MoveTurns DEF SettleIntent, BridgePcs
  <2> QED
    BY <1>5, <2>1, QuietStep DEF SettleIntent, In
<1>6. ASSUME NEW p \in BridgeProcs, Dispatch(p) PROVE KeyInv'
  <2>1. bridge[p].action \in Acts /\ bridge[p].slot \in Slots /\ bridge[p].slot[1] \in WebOps
        /\ kernel[bridge[p].slot[1]] \in KernelStates /\ bridge[p].pc = "dispatch"
    BY <1>6, SlotParts DEF BridgeType, Dispatch, In
  <2>2. PICK r \in KernelOutcomes(bridge[p].action, kernel[bridge[p].slot[1]]) :
              /\ kernel' = [kernel EXCEPT ![bridge[p].slot[1]] = r.state]
              /\ effects' = [effects EXCEPT ![bridge[p].slot[1]] = @ + r.wrote]
              /\ Turns(p, "result", bridge[p].slot, bridge[p].action, r.outcome)
    BY <1>6, DispatchTurns
  <2>3. WrittenOnce'
    BY <2>1, <2>2, KernelWrites DEF KeyInv
  <2>4. UNCHANGED <<intents, results, answers>> /\ r.outcome # "none"
        /\ calls' = [calls EXCEPT ![bridge[p].slot] = @ + 1]
    BY <1>6, <2>1, KernelStep DEF Dispatch, Results
  <2>5. OneClaim'
    BY <2>1, <2>2, <2>4, ClaimKept DEF KeyInv, Past
  <2>6. ToldRecord'
    BY <2>1, <2>2, <2>4, ToldKept DEF KeyInv
  <2>7. CalledOnce'
    BY <2>1, <2>2, <2>4, CallCounted DEF KeyInv
  <2> QED
    BY <2>3, <2>5, <2>6, <2>7 DEF KeyInv
<1>7. ASSUME NEW p \in BridgeProcs, PublishResult(p) PROVE KeyInv'
  <2>1. UNCHANGED <<intents, kernel, effects, calls, answers>> /\ bridge[p].pc = "result"
        /\ bridge[p].slot \in Slots
    BY <1>7 DEF PublishResult, BridgeType, In
  <2>2. CASE results[bridge[p].slot] # "none"
    <3>1. Turns(p, "free", <<"none", "none">>, "none", "none") /\ UNCHANGED results
      BY <1>7, <2>2, DoneTurns DEF PublishResult
    <3> QED
      BY <2>1, <3>1, QuietStep
  <2>3. CASE results[bridge[p].slot] = "none"
    <3>1. Turns(p, "result linked", bridge[p].slot, bridge[p].action, bridge[p].outcome)
      BY <1>7, <2>3, MoveTurns DEF PublishResult, BridgePcs
    <3>2. /\ results'[bridge[p].slot] = bridge[p].outcome
          /\ \A slot \in Slots \ {bridge[p].slot} : results'[slot] = results[slot]
      BY <1>7, <2>1, <2>3 DEF PublishResult, BridgeType
    <3>3. OneClaim'
      BY <2>1, <3>1, ClaimKept DEF KeyInv, Past
    <3>4. CalledOnce' /\ WrittenOnce'
      BY <2>1, <3>1 DEF KeyInv, CalledOnce, WrittenOnce, Turns
    <3>5. \A slot \in Slots : /\ answers'[slot] \subseteq {results'[slot]}
                              /\ results'[slot] = "none" => answers'[slot] = {}
      BY <2>1, <2>3, <3>2 DEF KeyInv, ToldRecord
    <3>6. ASSUME NEW q \in BridgeProcs, bridge'[q].pc \in {"result", "result linked"}
          PROVE  /\ bridge'[q].outcome # "none"
                 /\ bridge'[q].pc = "result linked" => results'[bridge'[q].slot] = bridge'[q].outcome
      <4>1. CASE q = p
        BY <2>1, <3>1, <3>2, <4>1 DEF KeyInv, ToldRecord, Turns
      <4>2. CASE q # p
        <5>1. bridge'[q] = bridge[q] /\ bridge[q].slot \in Slots /\ bridge[q].slot # bridge[p].slot
          BY <1>0, <2>1, <3>1, <3>6, <4>2 DEF KeyInv, OneClaim, Past, Turns
        <5>2. results'[bridge[q].slot] = results[bridge[q].slot]
          BY <3>2, <5>1
        <5>3. /\ bridge[q].outcome # "none"
              /\ bridge[q].pc = "result linked" => results[bridge[q].slot] = bridge[q].outcome
          BY <3>6, <5>1 DEF KeyInv, ToldRecord
        <5> QED
          BY <5>1, <5>2, <5>3
      <4> QED
        BY <4>1, <4>2
    <3> QED
      BY <3>3, <3>4, <3>5, <3>6 DEF KeyInv, ToldRecord
  <2> QED
    BY <2>2, <2>3
<1>8. ASSUME NEW p \in BridgeProcs, Answer(p) PROVE KeyInv'
  <2>1. Turns(p, "free", <<"none", "none">>, "none", "none")
    BY <1>8, DoneTurns DEF Answer
  <2>2. UNCHANGED <<intents, results, kernel, effects, calls>> /\ bridge[p].pc = "result linked"
        /\ bridge[p].slot \in Slots
    BY <1>8 DEF Answer, BridgeType, In
  <2>3. /\ answers'[bridge[p].slot] = answers[bridge[p].slot] \cup {bridge[p].outcome}
        /\ \A slot \in Slots \ {bridge[p].slot} : answers'[slot] = answers[slot]
    BY <1>8, <2>2 DEF Answer, BridgeType
  <2>4. OneClaim'
    BY <2>1, <2>2, ClaimKept DEF KeyInv
  <2>5. CalledOnce' /\ WrittenOnce'
    BY <2>1, <2>2 DEF KeyInv, CalledOnce, WrittenOnce, Turns
  <2>6. bridge[p].outcome = results[bridge[p].slot] /\ bridge[p].outcome # "none"
    BY <2>2 DEF KeyInv, ToldRecord
  <2>7. \A slot \in Slots : /\ answers'[slot] \subseteq {results'[slot]}
                            /\ results'[slot] = "none" => answers'[slot] = {}
    BY <2>2, <2>3, <2>6 DEF KeyInv, ToldRecord
  <2>8. ASSUME NEW q \in BridgeProcs
        PROVE  /\ bridge'[q].pc \in {"result", "result linked"} => bridge'[q].outcome # "none"
               /\ bridge'[q].pc = "result linked" => results'[bridge'[q].slot] = bridge'[q].outcome
    <3>1. CASE q = p
      BY <2>1, <3>1 DEF Turns
    <3>2. CASE q # p
      BY <2>1, <2>2, <3>2, ZenonT(60) DEF Turns, KeyInv, ToldRecord
    <3> QED
      BY <3>1, <3>2
  <2>9. ToldRecord'
    BY <2>7, <2>8 DEF ToldRecord
  <2> QED
    BY <2>4, <2>5, <2>9 DEF KeyInv
<1>9. ASSUME NEW p \in BridgeProcs, BridgeKill(p) PROVE KeyInv'
  <2>1. bridge[p].action \in Acts /\ bridge[p].slot \in Slots /\ bridge[p].slot[1] \in WebOps
        /\ kernel[bridge[p].slot[1]] \in KernelStates
    BY <1>9, SlotParts DEF BridgeType, BridgeKill, In
  <2>2. Turns(p, "free", <<"none", "none">>, "none", "none")
    BY <1>9, DoneTurns DEF BridgeKill
  <2>3. UNCHANGED <<intents, results, answers>>
    BY <1>9 DEF BridgeKill
  <2>4. CASE bridge[p].pc # "dispatch"
    BY <1>9, <2>2, <2>3, <2>4, QuietStep DEF BridgeKill, In
  <2>5. CASE bridge[p].pc = "dispatch"
    <3>1. PICK r \in KernelOutcomes(bridge[p].action, kernel[bridge[p].slot[1]])
                       \cup {Outcome(kernel[bridge[p].slot[1]], 0, "none")} :
              /\ kernel' = [kernel EXCEPT ![bridge[p].slot[1]] = r.state]
              /\ effects' = [effects EXCEPT ![bridge[p].slot[1]] = @ + r.wrote]
              /\ calls' = [calls EXCEPT ![bridge[p].slot] = @ + 1]
      BY <1>9, <2>5 DEF BridgeKill, In
    <3>2. OneClaim'
      BY <2>2, <2>3, ClaimKept DEF KeyInv
    <3>3. ToldRecord'
      BY <2>2, <2>3, ToldKept DEF KeyInv
    <3>4. WrittenOnce'
      BY <2>1, <3>1, KernelWrites DEF KeyInv
    <3>5. CalledOnce'
      BY <2>2, <2>3, <2>5, <3>1, CallCounted DEF KeyInv
    <3> QED
      BY <3>2, <3>3, <3>4, <3>5 DEF KeyInv
  <2> QED
    BY <2>4, <2>5
<1>10. CASE UNCHANGED bridgeVars
  BY <1>10 DEF bridgeVars, KeyInv, OneClaim, CalledOnce, ToldRecord, WrittenOnce, Past
<1> QED
  BY <1>1, <1>2, <1>3, <1>4, <1>5, <1>6, <1>7, <1>8, <1>9, <1>10 DEF BridgeNext, BridgeStep, Acts

----------------------------------------------------------------------------
(* The bridge: room for the records.                                       *)

WithIntent == {s \in Slots : intents[s] # "none"}
WithResult == {s \in Slots : results[s] # "none"}

(* The requests that still have both records to create, and those with one. *)
OwesTwo == {p \in BridgeProcs : bridge[p].pc = "intent"}
OwesOne == {p \in BridgeProcs : bridge[p].pc \in {"intent linked", "dispatch", "result"}}

(* Records present and promised fit in the directory, but for one request   *)
(* of every process other than the one that reserved last.                  *)
RoomHeld ==
    /\ IsFiniteSet(WithIntent) /\ IsFiniteSet(WithResult)
    /\ RecordCount + 2 * Cardinality(OwesTwo) + Cardinality(OwesOne)
           <= MaxRecords + 2 * (Cardinality(BridgeProcs) - 1)

One(x, S) == IF x \in S THEN 1 ELSE 0

(* Two finite sets that differ in one element at most.                      *)
LEMMA DifferInOne ==
    ASSUME NEW S, IsFiniteSet(S), NEW T, NEW x, S \ {x} = T \ {x}
    PROVE  /\ IsFiniteSet(T) /\ Cardinality(T) \in Nat /\ Cardinality(S) \in Nat
           /\ Cardinality(T) + One(x, S) = Cardinality(S) + One(x, T)
<1> DEFINE B == S \ {x}
<1>1. IsFiniteSet(B) /\ Cardinality(B) \in Nat
  BY FS_Subset, FS_CardinalityType
<1>2. IsFiniteSet(B \cup {x}) /\ Cardinality(B \cup {x}) = Cardinality(B) + 1
  BY <1>1, FS_AddElement
<1>3. S = (IF x \in S THEN B \cup {x} ELSE B) /\ T = (IF x \in T THEN B \cup {x} ELSE B)
  OBVIOUS
<1>4. Cardinality(S) = Cardinality(B) + One(x, S)
  <2>1. CASE x \in S
    BY <1>2, <1>3, <2>1 DEF One
  <2>2. CASE x \notin S
    BY <1>1, <1>3, <2>2 DEF One
  <2> QED
    BY <2>1, <2>2
<1>5. IsFiniteSet(T) /\ Cardinality(T) = Cardinality(B) + One(x, T)
  <2>1. CASE x \in T
    BY <1>2, <1>3, <2>1 DEF One
  <2>2. CASE x \notin T
    BY <1>1, <1>3, <2>2 DEF One
  <2> QED
    BY <2>1, <2>2
<1>6. One(x, S) \in {0, 1} /\ One(x, T) \in {0, 1}
  BY DEF One
<1> HIDE DEF B
<1> QED
  BY <1>1, <1>4, <1>5, <1>6

(* The two kinds of debtors are different processes.                        *)
DebtsFit ==
    /\ IsFiniteSet(OwesTwo) /\ IsFiniteSet(OwesOne)
    /\ Cardinality(OwesTwo) \in Nat /\ Cardinality(OwesOne) \in Nat /\ Cardinality(BridgeProcs) \in Nat
    /\ Cardinality(OwesTwo) + Cardinality(OwesOne) <= Cardinality(BridgeProcs)

LEMMA Debtors == DebtsFit
<1>1. OwesTwo \subseteq BridgeProcs /\ OwesOne \subseteq BridgeProcs /\ OwesTwo \cap OwesOne = {}
  BY DEF OwesTwo, OwesOne
<1>2. IsFiniteSet(OwesTwo) /\ IsFiniteSet(OwesOne) /\ IsFiniteSet(BridgeProcs)
  BY <1>1, FS_Subset, BridgeAssumption
<1>3. Cardinality(OwesTwo) \in Nat /\ Cardinality(OwesOne) \in Nat /\ Cardinality(BridgeProcs) \in Nat
  BY <1>2, FS_CardinalityType
<1>4. Cardinality(OwesTwo \cap OwesOne) = 0
  BY <1>1, FS_EmptySet
<1>5. Cardinality(OwesTwo \cup OwesOne) = Cardinality(OwesTwo) + Cardinality(OwesOne)
  <2>1. Cardinality(OwesTwo \cup OwesOne)
            = Cardinality(OwesTwo) + Cardinality(OwesOne) - Cardinality(OwesTwo \cap OwesOne)
    BY <1>2, FS_Union
  <2> QED
    BY <1>3, <1>4, <2>1
<1>6. Cardinality(OwesTwo \cup OwesOne) <= Cardinality(BridgeProcs)
  BY <1>1, <1>2, FS_Subset
<1> QED
  BY <1>2, <1>3, <1>5, <1>6 DEF DebtsFit

LEMMA DebtorsNext == DebtsFit'
BY Debtors, PTL

LEMMA RoomInit == BridgeInit => RoomHeld
<1> SUFFICES ASSUME BridgeInit PROVE RoomHeld
  OBVIOUS
<1>1. WithIntent = {} /\ WithResult = {}
  BY DEF BridgeInit, WithIntent, WithResult
<1>2. OwesTwo = {} /\ OwesOne = {}
  BY FreeRecord DEF BridgeInit, OwesTwo, OwesOne
<1>3. IsFiniteSet({}) /\ Cardinality({}) = 0
  BY FS_EmptySet
<1>4. RecordCount = 0
  BY <1>1, <1>3 DEF RecordCount, WithIntent, WithResult
<1>5. Cardinality(BridgeProcs) \in Nat /\ Cardinality(BridgeProcs) # 0
  BY FS_CardinalityType, FS_EmptySet, BridgeAssumption
<1>6. MaxRecords \in Nat
  BY BridgeAssumption
<1> QED
  BY <1>1, <1>2, <1>3, <1>4, <1>5, <1>6 DEF RoomHeld

(* What a turn of one request does to the debts.                            *)
LEMMA TurnsDebts ==
    ASSUME NEW p \in BridgeProcs, NEW pc \in BridgePcs, NEW slot, NEW action, NEW outcome,
           Turns(p, pc, slot, action, outcome)
    PROVE  /\ Cardinality(OwesTwo') + One(p, OwesTwo) = Cardinality(OwesTwo) + One(p, OwesTwo')
           /\ Cardinality(OwesOne') + One(p, OwesOne) = Cardinality(OwesOne) + One(p, OwesOne')
           /\ Cardinality(OwesTwo') \in Nat /\ Cardinality(OwesOne') \in Nat
           /\ p \in OwesTwo' <=> pc = "intent"
           /\ p \in OwesOne' <=> pc \in {"intent linked", "dispatch", "result"}
<1>1. OwesTwo \ {p} = OwesTwo' \ {p} /\ (p \in OwesTwo' <=> pc = "intent")
  BY DEF OwesTwo, Turns
<1>2. OwesOne \ {p} = OwesOne' \ {p} /\ (p \in OwesOne' <=> pc \in {"intent linked", "dispatch", "result"})
  BY DEF OwesOne, Turns
<1>3. /\ Cardinality(OwesTwo') \in Nat
      /\ Cardinality(OwesTwo') + One(p, OwesTwo) = Cardinality(OwesTwo) + One(p, OwesTwo')
  BY <1>1, Debtors, DifferInOne DEF DebtsFit
<1>4. /\ Cardinality(OwesOne') \in Nat
      /\ Cardinality(OwesOne') + One(p, OwesOne) = Cardinality(OwesOne) + One(p, OwesOne')
  BY <1>2, Debtors, DifferInOne DEF DebtsFit
<1> QED
  BY <1>1, <1>2, <1>3, <1>4

LEMMA RecordsType ==
    ASSUME RoomHeld
    PROVE  /\ RecordCount = Cardinality(WithIntent) + Cardinality(WithResult)
           /\ Cardinality(WithIntent) \in Nat /\ Cardinality(WithResult) \in Nat
BY FS_CardinalityType DEF RoomHeld, RecordCount, WithIntent, WithResult

(* A turn that creates no record and takes on no debt.                      *)
Light(p, pc) ==
    \/ pc \in {"free", "lookup"}
    \/ pc \in {"dispatch", "result"} /\ bridge[p].pc \in {"intent linked", "dispatch"}

LEMMA LightTurn ==
    ASSUME RoomHeld, NEW p \in BridgeProcs, NEW pc \in BridgePcs, NEW slot, NEW action, NEW outcome,
           Turns(p, pc, slot, action, outcome), UNCHANGED <<intents, results>>,
           Light(p, pc)
    PROVE  RoomHeld'
<1>1. WithIntent' = WithIntent /\ WithResult' = WithResult
  BY DEF WithIntent, WithResult
<1>2. RecordCount' = RecordCount
  BY DEF RecordCount
<1>3. /\ Cardinality(OwesTwo') + One(p, OwesTwo) = Cardinality(OwesTwo) + One(p, OwesTwo')
      /\ Cardinality(OwesOne') + One(p, OwesOne) = Cardinality(OwesOne) + One(p, OwesOne')
      /\ Cardinality(OwesTwo') \in Nat /\ Cardinality(OwesOne') \in Nat
  BY TurnsDebts
<1>4. p \notin OwesTwo' /\ (p \in OwesOne' => p \in OwesOne)
  BY TurnsDebts DEF Light, OwesOne
<1>5. /\ One(p, OwesTwo') = 0 /\ One(p, OwesTwo) \in {0, 1}
      /\ One(p, OwesOne') \in {0, 1} /\ One(p, OwesOne) \in {0, 1}
      /\ One(p, OwesOne') <= One(p, OwesOne)
  BY <1>4 DEF One
<1>6. Cardinality(OwesTwo') <= Cardinality(OwesTwo) /\ Cardinality(OwesOne') <= Cardinality(OwesOne)
  BY <1>3, <1>5, Debtors DEF DebtsFit
<1>7. RecordCount \in Nat /\ MaxRecords \in Nat
  <2>1. /\ RecordCount = Cardinality(WithIntent) + Cardinality(WithResult)
        /\ Cardinality(WithIntent) \in Nat /\ Cardinality(WithResult) \in Nat
    BY RecordsType
  <2> QED
    BY <2>1, BridgeAssumption
<1>8. RecordCount' + 2 * Cardinality(OwesTwo') + Cardinality(OwesOne')
          <= MaxRecords + 2 * (Cardinality(BridgeProcs) - 1)
  BY <1>2, <1>3, <1>6, <1>7, Debtors DEF RoomHeld, DebtsFit
<1> QED
  BY <1>1, <1>8 DEF RoomHeld

LEMMA RoomStep == BridgeType /\ RoomHeld /\ [BridgeNext]_bridgeVars => RoomHeld'
<1> SUFFICES ASSUME BridgeType, RoomHeld, [BridgeNext]_bridgeVars PROVE RoomHeld'
  OBVIOUS
<1>0. /\ MaxRecords \in Nat
      /\ RecordCount = Cardinality(WithIntent) + Cardinality(WithResult)
      /\ Cardinality(WithIntent) \in Nat /\ Cardinality(WithResult) \in Nat
  BY RecordsType, BridgeAssumption
<1>1. ASSUME NEW p \in BridgeProcs, NEW slot \in Slots, NEW action \in Acts, Request(p, slot, action)
      PROVE  RoomHeld'
  BY <1>1, RequestTurns, LightTurn DEF Light, Request, BridgePcs
<1>2. ASSUME NEW p \in BridgeProcs, Replay(p) PROVE RoomHeld'
  BY <1>2, DoneTurns, LightTurn DEF Light, Replay, BridgePcs
<1>3. ASSUME NEW p \in BridgeProcs, Reserve(p) PROVE RoomHeld'
  <2>1. CASE ~RoomForBoth
    BY <1>3, <2>1, DoneTurns, LightTurn DEF Light, Reserve, BridgePcs
  <2>2. CASE RoomForBoth
    <3>1. UNCHANGED <<intents, results>>
      BY <1>3 DEF Reserve
    <3>2. WithIntent' = WithIntent /\ WithResult' = WithResult /\ RecordCount' = RecordCount
      BY <3>1 DEF WithIntent, WithResult, RecordCount
    <3>3. /\ Cardinality(OwesTwo)' \in Nat /\ Cardinality(OwesOne)' \in Nat
          /\ Cardinality(OwesTwo)' + Cardinality(OwesOne)' <= Cardinality(BridgeProcs)
      BY DebtorsNext DEF DebtsFit
    <3>4. RecordCount + 2 <= MaxRecords
      BY <2>2 DEF RoomForBoth
    <3>5. RecordCount' + 2 * Cardinality(OwesTwo)' + Cardinality(OwesOne)'
              <= MaxRecords + 2 * (Cardinality(BridgeProcs) - 1)
      BY <1>0, <3>2, <3>3, <3>4, Debtors DEF DebtsFit
    <3> QED
      BY <3>2, <3>5 DEF RoomHeld
  <2> QED
    BY <2>1, <2>2
<1>4. ASSUME NEW p \in BridgeProcs, PublishIntent(p) PROVE RoomHeld'
  <2>1. CASE ~CreatesIntent(bridge[p].slot)
    BY <1>4, <2>1, DoneTurns, LightTurn DEF Light, PublishIntent, BridgePcs
  <2>2. CASE CreatesIntent(bridge[p].slot)
    <3>1. Turns(p, "intent linked", bridge[p].slot, bridge[p].action, bridge[p].outcome)
      BY <1>4, <2>2, MoveTurns DEF PublishIntent, BridgePcs
    <3>2. bridge[p].slot \in Slots /\ bridge[p].action \in Acts /\ bridge[p].pc = "intent"
      BY <1>4 DEF PublishIntent, BridgeType, In
    <3>3. /\ intents[bridge[p].slot] = "none" /\ intents'[bridge[p].slot] # "none"
          /\ \A slot \in Slots \ {bridge[p].slot} : intents'[slot] = intents[slot]
      BY <1>4, <2>2, <3>2 DEF PublishIntent, CreatesIntent, BridgeType, Acts
    <3>4. WithResult' = WithResult
      BY <1>4 DEF WithResult, PublishIntent
    <3>5. /\ WithIntent \ {bridge[p].slot} = WithIntent' \ {bridge[p].slot}
          /\ bridge[p].slot \notin WithIntent /\ bridge[p].slot \in WithIntent'
      BY <3>2, <3>3 DEF WithIntent
    <3>6. IsFiniteSet(WithIntent') /\ Cardinality(WithIntent') = Cardinality(WithIntent) + 1
      BY <1>0, <3>5, DifferInOne DEF RoomHeld, One
    <3>7. One(p, OwesTwo) = 1 /\ One(p, OwesOne) = 0
      BY <3>2 DEF One, OwesTwo, OwesOne
    <3>8. /\ Cardinality(OwesTwo') + 1 = Cardinality(OwesTwo)
          /\ Cardinality(OwesOne') = Cardinality(OwesOne) + 1
          /\ Cardinality(OwesTwo') \in Nat /\ Cardinality(OwesOne') \in Nat
      <4>1. /\ Cardinality(OwesTwo') + One(p, OwesTwo) = Cardinality(OwesTwo) + One(p, OwesTwo')
            /\ Cardinality(OwesOne') + One(p, OwesOne) = Cardinality(OwesOne) + One(p, OwesOne')
            /\ Cardinality(OwesTwo') \in Nat /\ Cardinality(OwesOne') \in Nat
        BY <3>1, TurnsDebts DEF BridgePcs
      <4>2. One(p, OwesTwo') = 0 /\ One(p, OwesOne') = 1
        BY <3>1, TurnsDebts DEF BridgePcs, One
      <4> QED
        BY <3>7, <4>1, <4>2, Debtors DEF DebtsFit
    <3>9. RecordCount' = RecordCount + 1
      <4>1. RecordCount' = Cardinality(WithIntent') + Cardinality(WithResult')
        BY DEF RecordCount, WithIntent, WithResult
      <4> QED
        BY <1>0, <3>4, <3>6, <4>1
    <3>10. RecordCount' + 2 * Cardinality(OwesTwo') + Cardinality(OwesOne')
              <= MaxRecords + 2 * (Cardinality(BridgeProcs) - 1)
      BY <1>0, <3>8, <3>9, Debtors DEF RoomHeld, DebtsFit
    <3> QED
      BY <3>4, <3>6, <3>10 DEF RoomHeld
  <2> QED
    BY <2>1, <2>2
<1>5. ASSUME NEW p \in BridgeProcs, SettleIntent(p) PROVE RoomHeld'
  BY <1>5, MoveTurns, LightTurn DEF Light, SettleIntent, BridgePcs, In
<1>6. ASSUME NEW p \in BridgeProcs, Dispatch(p) PROVE RoomHeld'
  <2>1. PICK r : Turns(p, "result", bridge[p].slot, bridge[p].action, r)
    BY <1>6, DispatchTurns
  <2> QED
    BY <1>6, <2>1, LightTurn DEF Light, Dispatch, BridgePcs, In
<1>7. ASSUME NEW p \in BridgeProcs, PublishResult(p) PROVE RoomHeld'
  <2>1. CASE results[bridge[p].slot] # "none"
    BY <1>7, <2>1, DoneTurns, LightTurn DEF Light, PublishResult, BridgePcs
  <2>2. CASE results[bridge[p].slot] = "none"
    <3>1. Turns(p, "result linked", bridge[p].slot, bridge[p].action, bridge[p].outcome)
      BY <1>7, <2>2, MoveTurns DEF PublishResult, BridgePcs
    <3>2. bridge[p].slot \in Slots /\ bridge[p].pc = "result"
      BY <1>7 DEF PublishResult, BridgeType, In
    <3>3. \A slot \in Slots \ {bridge[p].slot} : results'[slot] = results[slot]
      BY <1>7, <2>2, <3>2 DEF PublishResult, BridgeType
    <3>4. WithIntent' = WithIntent
      BY <1>7 DEF WithIntent, PublishResult
    <3>5. /\ WithResult \ {bridge[p].slot} = WithResult' \ {bridge[p].slot}
          /\ bridge[p].slot \notin WithResult
      BY <2>2, <3>2, <3>3 DEF WithResult
    <3>6. /\ IsFiniteSet(WithResult') /\ Cardinality(WithResult') \in Nat
          /\ Cardinality(WithResult') <= Cardinality(WithResult) + 1
      BY <1>0, <3>5, DifferInOne DEF RoomHeld, One
    <3>7. One(p, OwesTwo) = 0 /\ One(p, OwesOne) = 1
      BY <3>2 DEF One, OwesTwo, OwesOne
    <3>8. /\ Cardinality(OwesTwo') = Cardinality(OwesTwo)
          /\ Cardinality(OwesOne') + 1 = Cardinality(OwesOne)
          /\ Cardinality(OwesTwo') \in Nat /\ Cardinality(OwesOne') \in Nat
      <4>1. /\ Cardinality(OwesTwo') + One(p, OwesTwo) = Cardinality(OwesTwo) + One(p, OwesTwo')
            /\ Cardinality(OwesOne') + One(p, OwesOne) = Cardinality(OwesOne) + One(p, OwesOne')
            /\ Cardinality(OwesTwo') \in Nat /\ Cardinality(OwesOne') \in Nat
        BY <3>1, TurnsDebts DEF BridgePcs
      <4>2. One(p, OwesTwo') = 0 /\ One(p, OwesOne') = 0
        BY <3>1, TurnsDebts DEF BridgePcs, One
      <4> QED
        BY <3>7, <4>1, <4>2, Debtors DEF DebtsFit
    <3>9. RecordCount' <= RecordCount + 1 /\ RecordCount' \in Nat
      BY <1>0, <3>4, <3>6 DEF RecordCount, WithIntent, WithResult
    <3>10. RecordCount' + 2 * Cardinality(OwesTwo') + Cardinality(OwesOne')
              <= MaxRecords + 2 * (Cardinality(BridgeProcs) - 1)
      BY <1>0, <3>8, <3>9, Debtors DEF RoomHeld, DebtsFit
    <3> QED
      BY <3>4, <3>6, <3>10 DEF RoomHeld
  <2> QED
    BY <2>1, <2>2
<1>8. ASSUME NEW p \in BridgeProcs, Answer(p) PROVE RoomHeld'
  BY <1>8, DoneTurns, LightTurn DEF Light, Answer, BridgePcs
<1>9. ASSUME NEW p \in BridgeProcs, BridgeKill(p) PROVE RoomHeld'
  BY <1>9, DoneTurns, LightTurn DEF Light, BridgeKill, BridgePcs
<1>10. CASE UNCHANGED bridgeVars
  BY <1>10 DEF bridgeVars, RoomHeld, RecordCount, WithIntent, WithResult, OwesTwo, OwesOne
<1> QED
  BY <1>1, <1>2, <1>3, <1>4, <1>5, <1>6, <1>7, <1>8, <1>9, <1>10 DEF BridgeNext, BridgeStep, Acts

BridgeInv == BridgeType /\ KeyInv /\ RoomHeld

LEMMA BridgeInvGives == BridgeInv => DispatchedOnce
<1> SUFFICES ASSUME BridgeInv PROVE DispatchedOnce
  OBVIOUS
<1>1. \A slot \in Slots : calls[slot] <= 1 /\ answers[slot] \subseteq {results[slot]}
  BY DEF BridgeInv, KeyInv, CalledOnce, ToldRecord
<1>2. \A o \in WebOps : effects[o] <= 1
  BY DEF BridgeInv, KeyInv, WrittenOnce
<1>3. RecordCount \in Nat /\ MaxRecords \in Nat
  BY RecordsType, BridgeAssumption DEF BridgeInv
<1>4. RecordCount <= MaxRecords + 2 * (Cardinality(BridgeProcs) - 1)
  BY <1>3, Debtors DEF BridgeInv, RoomHeld, DebtsFit
<1> QED
  BY <1>1, <1>2, <1>4 DEF DispatchedOnce

(* mutate's promise to a retrying browser, for any number of processes,     *)
(* operations and keys: a key reaches the kernel at most once, a target is  *)
(* replaced at most once, every 200 repeats the result record, and the      *)
(* records stay within _MAX_RECORDS but for one request per further process.*)
THEOREM BridgeDispatchesOnce == BridgeSpec => []DispatchedOnce
<1>1. BridgeInit => BridgeInv
  BY BridgeTypeInit, KeyInit, RoomInit DEF BridgeInv
<1>2. BridgeInv /\ [BridgeNext]_bridgeVars => BridgeInv'
  BY BridgeTypeStep, KeyStep, RoomStep DEF BridgeInv
<1> QED
  BY <1>1, <1>2, BridgeInvGives, PTL DEF BridgeSpec

----------------------------------------------------------------------------
(* Local settings: types.                                                  *)

ServerPcs == {"off", "token", "write", "refresh", "up", "close", "unlink"}
PutSteps == {"idle", "staged", "checked", "replaced"}
Requests == [panel : Panels \cup {Nothing}, provider : Providers, base : FileStates,
             doc : Documents, raced : BOOLEAN]
ServerRecords == [pc : ServerPcs, token : Tokens \cup {Nothing}, seen : Revisions \cup {Nothing},
                  base : FileStates, step : PutSteps, request : Requests]
Views == [revision : Revisions \cup {Nothing}, base : FileStates]

SettingsType ==
    /\ mode \in {"native", "container"}
    /\ server \in [Servers -> ServerRecords]
    /\ flock \in Servers \cup {Nothing}
    /\ tokenFile \in Tokens \cup {"torn", Nothing}
    /\ provFile \in FileStates
    /\ view \in [Panels -> Views]
    /\ robbed \subseteq Servers

LEMMA EmptyIsDocument == EmptyDocument \in Documents
BY DEF EmptyDocument, Documents, Entries, Unset, Providers

LEMMA FilesType ==
    /\ NoFile \in FileStates /\ NoFile.doc \in Documents
    /\ \A doc \in Documents : Holding(doc) \in FileStates
    /\ \A f \in FileStates : f.doc \in Documents /\ Fingerprint(f) \in FileStates
    /\ \A f \in FileStates : Fingerprint(f).doc = f.doc
<1>1. NoFile.doc = EmptyDocument /\ Damaged.doc = EmptyDocument /\ \A doc \in Documents : Holding(doc).doc = doc
  BY DEF NoFile, Damaged, Holding
<1>2. \A f \in FileStates : f.doc \in Documents
  BY <1>1, EmptyIsDocument DEF FileStates
<1>3. \A doc \in Documents : Holding(doc) \in FileStates
  BY DEF FileStates
<1>4. \A f \in FileStates : Fingerprint(f) \in FileStates /\ Fingerprint(f).doc = f.doc
  BY <1>1, <1>2, <1>3 DEF Fingerprint
<1> QED
  BY <1>1, <1>2, <1>3, <1>4, EmptyIsDocument DEF FileStates

LEMMA OffType == Off \in ServerRecords /\ NoRequest \in Requests
<1>1. NoRequest \in Requests
  BY FilesType, EmptyIsDocument DEF NoRequest, Requests, Providers
<1> QED
  BY <1>1, FilesType DEF Off, ServerRecords, ServerPcs, PutSteps

(* There is always a token, and a revision, that nobody holds.              *)
LEMMA FreshExists ==
    ASSUME NEW pool, NEW used, IsFiniteSet(used), Cardinality(pool) > Cardinality(used)
    PROVE  Fresh(pool, used) \in pool /\ Fresh(pool, used) \notin used
<1>1. \E x \in pool : x \notin used
  <2> SUFFICES ASSUME pool \subseteq used PROVE FALSE
    OBVIOUS
  <2>1. IsFiniteSet(pool) /\ Cardinality(pool) <= Cardinality(used)
    BY FS_Subset
  <2>2. Cardinality(pool) \in Nat /\ Cardinality(used) \in Nat
    BY <2>1, FS_CardinalityType
  <2> QED
    BY <2>1, <2>2
<1> QED
  BY <1>1 DEF Fresh

LEMMA ImageBound ==
    ASSUME NEW S, IsFiniteSet(S), NEW g, DOMAIN g = S, g = [x \in S |-> g[x]]
    PROVE  IsFiniteSet({g[x] : x \in S}) /\ Cardinality({g[x] : x \in S}) <= Cardinality(S)
<1>1. g \in Surjection(S, {g[x] : x \in S})
  BY DEF Surjection
<1> QED
  BY <1>1, FS_Surjection

LEMMA NewTokenType == SettingsType => NewToken \in Tokens
<1> SUFFICES ASSUME SettingsType PROVE NewToken \in Tokens
  OBVIOUS
<1> DEFINE g == [s \in Servers |-> server[s].token]
           held == {g[s] : s \in Servers}
           used == held \cup {tokenFile}
<1>1. IsFiniteSet(held) /\ Cardinality(held) <= Cardinality(Servers)
  BY ImageBound, SettingsAssumption
<1>2. used = {tokenFile} \cup {server[s].token : s \in Servers}
  OBVIOUS
<1>3. /\ Cardinality(held) \in Nat /\ Cardinality(Servers) \in Nat /\ Cardinality(Tokens) \in Nat
      /\ Cardinality(Tokens) > Cardinality(Servers) + 1
  BY <1>1, FS_CardinalityType, SettingsAssumption
<1>4. IsFiniteSet(used) /\ (Cardinality(used) = Cardinality(held) \/ Cardinality(used) = Cardinality(held) + 1)
  BY <1>1, FS_AddElement
<1> HIDE DEF held, g, used
<1>5. Cardinality(Tokens) > Cardinality(used)
  BY <1>1, <1>3, <1>4
<1> QED
  BY <1>2, <1>4, <1>5, FreshExists DEF NewToken

LEMMA NewRevisionFresh ==
    SettingsType =>
        /\ NewRevision \in Revisions
        /\ \A s \in Servers : server[s].seen # NewRevision
        /\ \A c \in Panels : view[c].revision # NewRevision
<1> SUFFICES ASSUME SettingsType
             PROVE  /\ NewRevision \in Revisions
                    /\ \A s \in Servers : server[s].seen # NewRevision
                    /\ \A c \in Panels : view[c].revision # NewRevision
  OBVIOUS
<1> DEFINE g == [s \in Servers |-> server[s].seen]
           h == [c \in Panels |-> view[c].revision]
           seen == {g[s] : s \in Servers}
           shown == {h[c] : c \in Panels}
           used == seen \cup shown
<1>1. IsFiniteSet(seen) /\ Cardinality(seen) <= Cardinality(Servers)
  BY ImageBound, SettingsAssumption
<1>2. IsFiniteSet(shown) /\ Cardinality(shown) <= Cardinality(Panels)
  BY ImageBound, SettingsAssumption
<1>3. used = {server[s].seen : s \in Servers} \cup {view[c].revision : c \in Panels}
  OBVIOUS
<1>4. /\ Cardinality(seen) \in Nat /\ Cardinality(shown) \in Nat
      /\ Cardinality(Servers) \in Nat /\ Cardinality(Panels) \in Nat /\ Cardinality(Revisions) \in Nat
      /\ Cardinality(Revisions) > Cardinality(Servers) + Cardinality(Panels)
  BY <1>1, <1>2, FS_CardinalityType, SettingsAssumption
<1>5. IsFiniteSet(used) /\ Cardinality(used) = Cardinality(seen) + Cardinality(shown) - Cardinality(seen \cap shown)
  BY <1>1, <1>2, FS_Union
<1>6. Cardinality(seen \cap shown) \in Nat
  <2>1. seen \cap shown \in SUBSET seen
    OBVIOUS
  <2> QED
    BY <1>1, <2>1, FS_Subset, FS_CardinalityType
<1> HIDE DEF seen, shown, used, g, h
<1>7. Cardinality(Revisions) > Cardinality(used)
  BY <1>1, <1>2, <1>4, <1>5, <1>6
<1>8. NewRevision \in Revisions /\ NewRevision \notin used
  BY <1>3, <1>5, <1>7, FreshExists DEF NewRevision
<1> QED
  BY <1>3, <1>8

(* A step of one process leaves the others alone.                           *)
Shape(s, pc, token, seen, base, step, request) ==
    /\ server' \in [Servers -> ServerRecords]
    /\ server'[s].pc = pc /\ server'[s].token = token
    /\ server'[s].seen = seen /\ server'[s].base = base
    /\ server'[s].step = step /\ server'[s].request = request
    /\ \A t \in Servers \ {s} : server'[t] = server[t]

LEMMA RecordShape ==
    ASSUME SettingsType, NEW s \in Servers, NEW r \in ServerRecords, server' = [server EXCEPT ![s] = r]
    PROVE  Shape(s, r.pc, r.token, r.seen, r.base, r.step, r.request)
BY DEF SettingsType, Shape

LEMMA ServerRecord ==
    ASSUME SettingsType, NEW s \in Servers
    PROVE  /\ server[s] \in ServerRecords
           /\ server[s].pc \in ServerPcs /\ server[s].token \in Tokens \cup {Nothing}
           /\ server[s].seen \in Revisions \cup {Nothing} /\ server[s].base \in FileStates
           /\ server[s].step \in PutSteps /\ server[s].request \in Requests
<1>1. server[s] \in ServerRecords
  BY DEF SettingsType
<1> QED
  BY <1>1 DEF ServerRecords

LEMMA GotoShape ==
    ASSUME SettingsType, NEW s \in Servers, NEW pc \in ServerPcs, Goto(s, pc)
    PROVE  Shape(s, pc, server[s].token, server[s].seen, server[s].base,
                   server[s].step, server[s].request)
BY DEF SettingsType, Goto, Shape, ServerRecords

LEMMA TurnOffShape ==
    ASSUME SettingsType, NEW s \in Servers, TurnOff(s)
    PROVE  Shape(s, "off", Nothing, Nothing, NoFile, "idle", NoRequest)
<1>1. /\ Off.pc = "off" /\ Off.token = Nothing /\ Off.seen = Nothing /\ Off.base = NoFile
      /\ Off.step = "idle" /\ Off.request = NoRequest
  BY DEF Off
<1>2. Shape(s, Off.pc, Off.token, Off.seen, Off.base, Off.step, Off.request)
  BY OffType, RecordShape DEF TurnOff
<1> QED
  BY <1>1, <1>2

LEMMA RevisionNowType ==
    ASSUME SettingsType, NEW s \in Servers
    PROVE  RevisionNow(s) \in Revisions
BY ServerRecord, NewRevisionFresh DEF RevisionNow

LEMMA NotedType ==
    ASSUME SettingsType, NEW s \in Servers
    PROVE  /\ Noted(s) \in ServerRecords
           /\ Noted(s).pc = server[s].pc /\ Noted(s).token = server[s].token
           /\ Noted(s).seen = RevisionNow(s) /\ Noted(s).base = Fingerprint(provFile)
           /\ Noted(s).step = server[s].step /\ Noted(s).request = server[s].request
<1>1. RevisionNow(s) \in Revisions /\ Fingerprint(provFile) \in FileStates /\ server[s] \in ServerRecords
  BY RevisionNowType, ServerRecord, FilesType DEF SettingsType
<1> QED
  BY <1>1 DEF Noted, ServerRecords

(* The process that reads the file notes its revision.                      *)
LEMMA NotedShape ==
    ASSUME SettingsType, NEW s \in Servers, server' = [server EXCEPT ![s] = Noted(s)]
    PROVE  Shape(s, server[s].pc, server[s].token, RevisionNow(s), Fingerprint(provFile),
                   server[s].step, server[s].request)
<1>1. Shape(s, Noted(s).pc, Noted(s).token, Noted(s).seen, Noted(s).base, Noted(s).step, Noted(s).request)
  BY NotedType, RecordShape
<1> QED
  BY <1>1, NotedType

LEMMA UpShape ==
    ASSUME SettingsType, NEW s \in Servers,
           server' = [server EXCEPT ![s] = [Noted(s) EXCEPT !.pc = "up"]]
    PROVE  Shape(s, "up", server[s].token, RevisionNow(s), Fingerprint(provFile),
                   server[s].step, server[s].request)
<1> DEFINE r == [Noted(s) EXCEPT !.pc = "up"]
<1>1. /\ r \in ServerRecords /\ r.pc = "up" /\ r.token = server[s].token
      /\ r.seen = RevisionNow(s) /\ r.base = Fingerprint(provFile)
      /\ r.step = server[s].step /\ r.request = server[s].request
  BY NotedType DEF ServerRecords, ServerPcs
<1>2. server' = [server EXCEPT ![s] = r]
  OBVIOUS
<1> HIDE DEF r
<1>3. Shape(s, r.pc, r.token, r.seen, r.base, r.step, r.request)
  BY <1>1, <1>2, RecordShape
<1> QED
  BY <1>1, <1>3

LEMMA StagedShape ==
    ASSUME SettingsType, NEW s \in Servers, NEW request \in Requests,
           server' = [server EXCEPT ![s] = [Noted(s) EXCEPT !.step = "staged", !.request = request]]
    PROVE  Shape(s, server[s].pc, server[s].token, RevisionNow(s), Fingerprint(provFile),
                   "staged", request)
<1> DEFINE r == [Noted(s) EXCEPT !.step = "staged", !.request = request]
<1>1. /\ r \in ServerRecords /\ r.pc = server[s].pc /\ r.token = server[s].token
      /\ r.seen = RevisionNow(s) /\ r.base = Fingerprint(provFile)
      /\ r.step = "staged" /\ r.request = request
  BY NotedType DEF ServerRecords, PutSteps
<1>2. server' = [server EXCEPT ![s] = r]
  OBVIOUS
<1> HIDE DEF r
<1>3. Shape(s, r.pc, r.token, r.seen, r.base, r.step, r.request)
  BY <1>1, <1>2, RecordShape
<1> QED
  BY <1>1, <1>3

LEMMA StepShape ==
    ASSUME SettingsType, NEW s \in Servers, NEW step \in PutSteps,
           server' = [server EXCEPT ![s].step = step]
    PROVE  Shape(s, server[s].pc, server[s].token, server[s].seen, server[s].base,
                   step, server[s].request)
BY DEF SettingsType, Shape, ServerRecords

LEMMA TokenShape ==
    ASSUME SettingsType, NEW s \in Servers, NEW token \in Tokens,
           server' = [server EXCEPT ![s].token = token, ![s].pc = "refresh"]
    PROVE  Shape(s, "refresh", token, server[s].seen, server[s].base,
                   server[s].step, server[s].request)
BY DEF SettingsType, Shape, ServerRecords, ServerPcs

LEMMA AnswerShape ==
    ASSUME SettingsType, NEW s \in Servers, PutAnswer(s)
    PROVE  \E seen \in Revisions \cup {Nothing}, base \in FileStates :
              /\ Shape(s, server[s].pc, server[s].token, seen, base, "idle", NoRequest)
              /\ IF ReadableFile(provFile) THEN seen = RevisionNow(s) /\ base = Fingerprint(provFile)
                 ELSE seen = server[s].seen /\ base = server[s].base
<1> DEFINE read == IF ReadableFile(provFile) THEN Noted(s) ELSE server[s]
           r == [read EXCEPT !.step = "idle", !.request = NoRequest]
<1>1. read \in ServerRecords /\ read.pc = server[s].pc /\ read.token = server[s].token
  BY NotedType, ServerRecord
<1>2. IF ReadableFile(provFile) THEN read.seen = RevisionNow(s) /\ read.base = Fingerprint(provFile)
      ELSE read.seen = server[s].seen /\ read.base = server[s].base
  BY NotedType
<1>3. server' = [server EXCEPT ![s] = r]
  BY DEF PutAnswer
<1> HIDE DEF read
<1>4. /\ r \in ServerRecords /\ r.pc = read.pc /\ r.token = read.token
      /\ r.seen = read.seen /\ r.base = read.base /\ r.step = "idle" /\ r.request = NoRequest
      /\ read.seen \in Revisions \cup {Nothing} /\ read.base \in FileStates
  BY <1>1, OffType DEF ServerRecords, PutSteps
<1> HIDE DEF r
<1>5. Shape(s, r.pc, r.token, r.seen, r.base, r.step, r.request)
  BY <1>3, <1>4, RecordShape
<1>6. Shape(s, server[s].pc, server[s].token, read.seen, read.base, "idle", NoRequest)
  BY <1>1, <1>4, <1>5
<1> QED
  BY <1>2, <1>4, <1>6

(* An edit by hand only marks the requests that it overtakes.               *)
LEMMA EditShape ==
    ASSUME SettingsType, NEW content \in PersonWrites \cup {NoFile}, PersonEdits(content)
    PROVE  /\ server' \in [Servers -> ServerRecords]
           /\ \A s \in Servers :
                 /\ server'[s].pc = server[s].pc /\ server'[s].token = server[s].token
                 /\ server'[s].seen = server[s].seen /\ server'[s].base = server[s].base
                 /\ server'[s].step = server[s].step
                 /\ server'[s].request.panel = server[s].request.panel
                 /\ server'[s].request.provider = server[s].request.provider
                 /\ server'[s].request.base = server[s].request.base
                 /\ server'[s].request.doc = server[s].request.doc
                 /\ server[s].step = "checked" => server'[s].request.raced
                 /\ server[s].step # "checked" => server'[s].request = server[s].request
           /\ provFile' = content /\ content \in FileStates
<1> DEFINE marked(s) == [server[s] EXCEPT !.request.raced = TRUE]
<1>1. ASSUME NEW s \in Servers
      PROVE  /\ marked(s) \in ServerRecords
             /\ marked(s).pc = server[s].pc /\ marked(s).token = server[s].token
             /\ marked(s).seen = server[s].seen /\ marked(s).base = server[s].base
             /\ marked(s).step = server[s].step
             /\ marked(s).request = [server[s].request EXCEPT !.raced = TRUE]
  <2>1. [server[s].request EXCEPT !.raced = TRUE] \in Requests
    BY ServerRecord DEF Requests
  <2> QED
    BY <2>1, ServerRecord DEF ServerRecords
<1>2. ASSUME NEW s \in Servers
      PROVE  LET r == [server[s].request EXCEPT !.raced = TRUE] IN
             /\ r.panel = server[s].request.panel /\ r.provider = server[s].request.provider
             /\ r.base = server[s].request.base /\ r.doc = server[s].request.doc /\ r.raced
  BY ServerRecord DEF Requests
<1>3. server' = [s \in Servers |-> IF server[s].step = "checked" THEN marked(s) ELSE server[s]]
  BY DEF PersonEdits
<1> HIDE DEF marked
<1>4. server' \in [Servers -> ServerRecords]
  BY <1>1, <1>3, ServerRecord
<1>5. \A s \in Servers : server'[s] = IF server[s].step = "checked" THEN marked(s) ELSE server[s]
  BY <1>3
<1>6. provFile' = content /\ content \in FileStates
  BY FilesType, SettingsAssumption DEF PersonEdits
<1>7. ASSUME NEW s \in Servers
      PROVE  /\ server'[s].pc = server[s].pc /\ server'[s].token = server[s].token
             /\ server'[s].seen = server[s].seen /\ server'[s].base = server[s].base
             /\ server'[s].step = server[s].step
             /\ server'[s].request.panel = server[s].request.panel
             /\ server'[s].request.provider = server[s].request.provider
             /\ server'[s].request.base = server[s].request.base
             /\ server'[s].request.doc = server[s].request.doc
             /\ server[s].step = "checked" => server'[s].request.raced
             /\ server[s].step # "checked" => server'[s].request = server[s].request
  <2>1. CASE server[s].step = "checked"
    <3>1. server'[s] = marked(s)
      BY <1>5, <2>1
    <3>2. /\ server'[s].pc = server[s].pc /\ server'[s].token = server[s].token
          /\ server'[s].seen = server[s].seen /\ server'[s].base = server[s].base
          /\ server'[s].step = server[s].step
          /\ server'[s].request = [server[s].request EXCEPT !.raced = TRUE]
      BY <1>1, <3>1
    <3>3. /\ server'[s].request.panel = server[s].request.panel
          /\ server'[s].request.provider = server[s].request.provider
          /\ server'[s].request.base = server[s].request.base
          /\ server'[s].request.doc = server[s].request.doc
          /\ server'[s].request.raced
      BY <1>2, <3>2
    <3> QED
      BY <2>1, <3>2, <3>3
  <2>2. CASE server[s].step # "checked"
    BY <1>5, <2>2
  <2> QED
    BY <2>1, <2>2
<1> QED
  BY <1>4, <1>6, <1>7

(* A PUT that is accepted is one whose panel holds the file's revision.     *)
LEMMA PutBeginShape ==
    ASSUME SettingsType, NEW s \in Servers, NEW c \in Panels, NEW provider \in Providers,
           NEW dest \in {"ok", "bad"}, PutBegin(s, c, provider, dest)
    PROVE  \/ Shape(s, server[s].pc, server[s].token, RevisionNow(s), Fingerprint(provFile),
                    server[s].step, server[s].request)
           \/ \E request \in Requests :
                 /\ Shape(s, server[s].pc, server[s].token, RevisionNow(s), Fingerprint(provFile),
                          "staged", request)
                 /\ view[c].revision = RevisionNow(s) /\ ValidDocument(request.doc, provider)
                 /\ request.panel = c /\ request.provider = provider
                 /\ request.base = Fingerprint(provFile)
                 /\ \A other \in Providers \ {provider} : request.doc[other] = provFile.doc[other]
<1>1. PICK doc \in Edited(provFile.doc, provider, dest, Keys \cup {"", provFile.doc[provider].key}) :
         server' = [server EXCEPT ![s] =
             IF view[c].revision = RevisionNow(s) /\ ValidDocument(doc, provider)
             THEN [Noted(s) EXCEPT !.step = "staged",
                                   !.request = [panel |-> c, provider |-> provider,
                                                base |-> Fingerprint(provFile), doc |-> doc,
                                                raced |-> FALSE]]
             ELSE Noted(s)]
  BY DEF PutBegin
<1>2. provFile.doc \in [Providers -> Entries] /\ Fingerprint(provFile) \in FileStates
  BY FilesType DEF SettingsType, Documents
<1>3. doc \in Documents /\ \A other \in Providers \ {provider} : doc[other] = provFile.doc[other]
  <2>1. PICK key \in Keys \cup {"", provFile.doc[provider].key} :
           doc = [provFile.doc EXCEPT ![provider] = [dest |-> dest, key |-> key]]
    BY DEF Edited
  <2>2. [dest |-> dest, key |-> key] \in Entries
    BY <1>2 DEF Entries
  <2> QED
    BY <1>2, <2>1, <2>2 DEF Documents
<1>4. CASE ~(view[c].revision = RevisionNow(s) /\ ValidDocument(doc, provider))
  BY <1>1, <1>4, NotedShape
<1>5. CASE view[c].revision = RevisionNow(s) /\ ValidDocument(doc, provider)
  <2> DEFINE request == [panel |-> c, provider |-> provider, base |-> Fingerprint(provFile),
                         doc |-> doc, raced |-> FALSE]
  <2>1. /\ request \in Requests /\ request.panel = c /\ request.provider = provider
        /\ request.base = Fingerprint(provFile) /\ request.doc = doc
    BY <1>2, <1>3 DEF Requests
  <2>2. server' = [server EXCEPT ![s] = [Noted(s) EXCEPT !.step = "staged", !.request = request]]
    BY <1>1, <1>5
  <2> HIDE DEF request
  <2>3. Shape(s, server[s].pc, server[s].token, RevisionNow(s), Fingerprint(provFile), "staged", request)
    BY <2>1, <2>2, StagedShape
  <2> QED
    BY <1>3, <1>5, <2>1, <2>3
<1> QED
  BY <1>4, <1>5

LEMMA SettingsTypeInit == SettingsInit => SettingsType
<1> SUFFICES ASSUME SettingsInit PROVE SettingsType
  OBVIOUS
<1>1. provFile \in FileStates
  BY FilesType, SettingsAssumption DEF SettingsInit
<1>2. view \in [Panels -> Views]
  BY FilesType DEF SettingsInit, Views
<1> QED
  BY <1>1, <1>2, OffType DEF SettingsInit, SettingsType

(* What a step may do to a panel's view.                                    *)
LEMMA ViewType ==
    ASSUME SettingsType, NEW s \in Servers, NEW c,
           view' = [view EXCEPT ![c] = [revision |-> RevisionNow(s), base |-> Fingerprint(provFile)]]
    PROVE  view' \in [Panels -> Views]
<1>1. [revision |-> RevisionNow(s), base |-> Fingerprint(provFile)] \in Views
  BY RevisionNowType, FilesType DEF SettingsType, Views
<1> QED
  BY <1>1 DEF SettingsType

LEMMA SettingsTypeStep == SettingsType /\ [SettingsNext]_settingsVars => SettingsType'
<1> SUFFICES ASSUME SettingsType, [SettingsNext]_settingsVars PROVE SettingsType'
  OBVIOUS
<1>0. \A s \in Servers : Released(s) \in Servers \cup {Nothing}
  BY DEF Released, SettingsType
<1>1. ASSUME NEW s \in Servers, Start(s) PROVE SettingsType'
  BY <1>1, GotoShape DEF Start, SettingsType, Shape, ServerPcs
<1>2. ASSUME NEW s \in Servers, CreateToken(s) PROVE SettingsType'
  BY <1>2, GotoShape DEF CreateToken, SettingsType, Shape, ServerPcs
<1>3. ASSUME NEW s \in Servers, WriteToken(s) PROVE SettingsType'
  BY <1>3, TokenShape, NewTokenType DEF WriteToken, SettingsType, Shape
<1>4. ASSUME NEW s \in Servers, TokenRefused(s) PROVE SettingsType'
  BY <1>0, <1>4, TurnOffShape DEF TokenRefused, SettingsType, Shape
<1>5. ASSUME NEW s \in Servers, Refresh(s) PROVE SettingsType'
  <2>1. CASE ReadableFile(provFile)
    BY <1>5, <2>1, UpShape DEF Refresh, SettingsType, Shape
  <2>2. CASE ~ReadableFile(provFile)
    BY <1>0, <1>5, <2>2, GotoShape DEF Refresh, SettingsType, Shape, ServerPcs
  <2> QED
    BY <2>1, <2>2
<1>6. ASSUME NEW s \in Servers, Shutdown(s) PROVE SettingsType'
  BY <1>6, GotoShape DEF Shutdown, SettingsType, Shape, ServerPcs
<1>7. ASSUME NEW s \in Servers, CloseCompare(s) PROVE SettingsType'
  BY <1>0, <1>7, GotoShape, TurnOffShape DEF CloseCompare, SettingsType, Shape, ServerPcs
<1>8. ASSUME NEW s \in Servers, CloseUnlink(s) PROVE SettingsType'
  <2>1. robbed' \subseteq Servers
    BY <1>8 DEF CloseUnlink, SettingsType
  <2> QED
    BY <1>0, <1>8, <2>1, TurnOffShape DEF CloseUnlink, SettingsType, Shape
<1>9. ASSUME NEW s \in Servers, Kill(s) PROVE SettingsType'
  BY <1>0, <1>9, TurnOffShape DEF Kill, SettingsType, Shape
<1>10. ASSUME NEW s \in Servers, NEW c \in Panels, NEW provider \in Providers, Get(s, c, provider)
       PROVE  SettingsType'
  <2>1. view' \in [Panels -> Views]
    <3>1. CASE Answers(provFile, provider)
      BY <1>10, <3>1, ViewType DEF Get
    <3>2. CASE ~Answers(provFile, provider)
      BY <1>10, <3>2 DEF Get, SettingsType
    <3> QED
      BY <3>1, <3>2
  <2> QED
    BY <1>10, <2>1, NotedShape DEF Get, SettingsType, Shape
<1>11. ASSUME NEW s \in Servers, NEW c \in Panels, NEW provider \in Providers, NEW dest \in {"ok", "bad"},
              PutBegin(s, c, provider, dest)
       PROVE  SettingsType'
  <2>1. server' \in [Servers -> ServerRecords]
    BY <1>11, PutBeginShape DEF Shape
  <2> QED
    BY <1>11, <2>1 DEF PutBegin, SettingsType
<1>12. ASSUME NEW s \in Servers, PutCheck(s) PROVE SettingsType'
  BY <1>12, StepShape DEF PutCheck, SettingsType, Shape, PutSteps
<1>13. ASSUME NEW s \in Servers, PutReplace(s) PROVE SettingsType'
  <2>1. provFile' \in FileStates
    BY <1>13, ServerRecord, FilesType DEF PutReplace, Requests
  <2> QED
    BY <1>13, <2>1, StepShape DEF PutReplace, SettingsType, Shape, PutSteps
<1>14. ASSUME NEW s \in Servers, PutAnswer(s) PROVE SettingsType'
  <2>1. view' \in [Panels -> Views]
    <3>1. CASE Answers(provFile, server[s].request.provider)
      BY <1>14, <3>1, ViewType DEF PutAnswer
    <3>2. CASE ~Answers(provFile, server[s].request.provider)
      BY <1>14, <3>2 DEF PutAnswer, SettingsType
    <3> QED
      BY <3>1, <3>2
  <2> QED
    BY <1>14, <2>1, AnswerShape DEF PutAnswer, SettingsType, Shape
<1>15. ASSUME NEW content \in PersonWrites \cup {NoFile}, PersonEdits(content) PROVE SettingsType'
  BY <1>15, EditShape DEF PersonEdits, SettingsType
<1>16. ASSUME PersonRemovesToken PROVE SettingsType'
  BY <1>16 DEF PersonRemovesToken, SettingsType
<1>17. CASE UNCHANGED settingsVars
  BY <1>17 DEF settingsVars, SettingsType
<1> QED
  BY <1>1, <1>2, <1>3, <1>4, <1>5, <1>6, <1>7, <1>8, <1>9, <1>10, <1>11, <1>12, <1>13, <1>14,
     <1>15, <1>16, <1>17 DEF SettingsNext, ServerStep

----------------------------------------------------------------------------
(* Local settings: whose token is in the file.                             *)

Starting(s) == server[s].pc \in {"token", "write", "refresh", "up"}
Serving(s) == server[s].pc \in {"refresh", "up"}
Named(s) == server[s].pc \in {"refresh", "up", "close", "unlink"}
Active(s) == server[s].pc = "write" \/ Named(s)

(* A process that has written its token holds it.                           *)
TokenHeld == \A s \in Servers : Named(s) => server[s].token \in Tokens

(* Native mode: the exclusive creation of the token file is the lock.       *)
FileIsLock ==
    mode = "native" =>
        /\ \A s, t \in Servers : Active(s) /\ Active(t) => s = t
        /\ \A s \in Servers : server[s].pc = "write" => tokenFile = "torn"
        /\ \A s \in Servers : Named(s) => tokenFile = server[s].token

(* Container mode: flock is held from the start on, and given up by a start *)
(* that fails, whose token is removed later.                                *)
LockHeld ==
    mode = "container" =>
        /\ \A s \in Servers : Starting(s) => flock = s
        /\ \A s \in Servers : Serving(s) => tokenFile = server[s].token \/ s \in robbed

TokenInv == TokenHeld /\ FileIsLock /\ LockHeld

LEMMA TokenInit == SettingsInit => TokenInv
<1> SUFFICES ASSUME SettingsInit PROVE TokenInv
  OBVIOUS
<1>1. \A s \in Servers : server[s].pc = "off"
  BY DEF SettingsInit, Off
<1> QED
  BY <1>1 DEF TokenInv, TokenHeld, FileIsLock, LockHeld, Starting, Serving, Named, Active

(* Steps that change neither the token file, nor the lock, nor who is where *)
(* in its start.                                                            *)
LEMMA TokenQuiet ==
    ASSUME TokenInv, UNCHANGED <<mode, flock, tokenFile, robbed>>,
           \A s \in Servers : server'[s].pc = server[s].pc /\ server'[s].token = server[s].token
    PROVE  TokenInv'
<1>1. \A s \in Servers : (Starting(s)' <=> Starting(s)) /\ (Serving(s)' <=> Serving(s))
         /\ (Named(s)' <=> Named(s)) /\ (Active(s)' <=> Active(s))
  BY DEF Starting, Serving, Named, Active
<1>2. TokenHeld'
  BY <1>1 DEF TokenInv, TokenHeld
<1>3. FileIsLock'
  BY <1>1 DEF TokenInv, FileIsLock
<1>4. LockHeld'
  BY <1>1 DEF TokenInv, LockHeld
<1> QED
  BY <1>2, <1>3, <1>4 DEF TokenInv

(* A process that ends, or goes on towards its end, leaves the token file   *)
(* alone and gives up at most its own lock.                                 *)
LEMMA TokenLeaves ==
    ASSUME TokenInv, NEW s \in Servers, NEW pc \in {"off", "close", "unlink"}, NEW token, NEW seen,
           NEW base, NEW step, NEW request, Shape(s, pc, token, seen, base, step, request),
           pc # "off" => Named(s) /\ token = server[s].token,
           UNCHANGED <<mode, tokenFile, robbed>>, flock' \in {flock, Released(s)}
    PROVE  TokenInv'
<1>1. \A t \in Servers \ {s} : server'[t] = server[t]
  BY DEF Shape
<1>2. server'[s].pc = pc /\ server'[s].token = token
  BY DEF Shape
<1>3. ~Starting(s)' /\ ~Serving(s)' /\ (Named(s)' => Named(s) /\ server'[s].token = server[s].token)
      /\ (Active(s)' => Named(s)')
  BY <1>2 DEF Starting, Serving, Named, Active
<1>4. \A t \in Servers \ {s} : (Starting(t)' <=> Starting(t)) /\ (Serving(t)' <=> Serving(t))
         /\ (Named(t)' <=> Named(t)) /\ (Active(t)' <=> Active(t))
  BY <1>1 DEF Starting, Serving, Named, Active
<1>5. TokenHeld'
  BY <1>1, <1>3, <1>4 DEF TokenInv, TokenHeld
<1>6. \A t \in Servers : Named(t) => Active(t)
  BY DEF Active
<1>7. server'[s].pc # "write"
  BY <1>2
<1>8. FileIsLock'
  BY <1>1, <1>3, <1>4, <1>6, <1>7 DEF TokenInv, FileIsLock
<1>9. LockHeld'
  BY <1>1, <1>3, <1>4 DEF TokenInv, LockHeld, Released
<1> QED
  BY <1>5, <1>8, <1>9 DEF TokenInv

LEMMA TokenStep == SettingsType /\ TokenInv /\ [SettingsNext]_settingsVars => TokenInv'
<1> SUFFICES ASSUME SettingsType, TokenInv, [SettingsNext]_settingsVars PROVE TokenInv'
  OBVIOUS
<1>0. Nothing \notin Servers /\ Nothing \notin Tokens /\ "torn" \notin Tokens /\ Nothing # "torn"
  BY SettingsAssumption DEF Nothing
<1>1. ASSUME NEW s \in Servers, Start(s) PROVE TokenInv'
  <2>1. /\ \A t \in Servers \ {s} : server'[t] = server[t]
        /\ server'[s].pc = "token" /\ server'[s].token = server[s].token
    BY <1>1, GotoShape DEF Start, Shape, ServerPcs
  <2>2. UNCHANGED <<mode, tokenFile>> /\ robbed' = robbed \ {s}
        /\ flock' = IF mode = "container" THEN s ELSE flock
    BY <1>1 DEF Start
  <2>3. ~Serving(s)' /\ ~Named(s)' /\ ~Active(s)'
    BY <2>1 DEF Serving, Named, Active
  <2>4. \A t \in Servers \ {s} : (Starting(t)' <=> Starting(t)) /\ (Serving(t)' <=> Serving(t))
           /\ (Named(t)' <=> Named(t)) /\ (Active(t)' <=> Active(t)) /\ (Serving(t) => Starting(t))
    BY <2>1 DEF Starting, Serving, Named, Active
  <2>5. mode = "container" => \A t \in Servers \ {s} : ~Starting(t)
    BY <1>0, <1>1 DEF Start, LockFree, TokenInv, LockHeld
  <2>6. TokenHeld'
    BY <2>1, <2>3, <2>4 DEF TokenInv, TokenHeld
  <2>7. FileIsLock'
    BY <2>1, <2>2, <2>3, <2>4 DEF TokenInv, FileIsLock
  <2>8. LockHeld'
    BY <2>1, <2>2, <2>3, <2>4, <2>5 DEF LockHeld
  <2> QED
    BY <2>6, <2>7, <2>8 DEF TokenInv
<1>2. ASSUME NEW s \in Servers, CreateToken(s) PROVE TokenInv'
  <2>1. /\ \A t \in Servers \ {s} : server'[t] = server[t]
        /\ server'[s].pc = "write" /\ server'[s].token = server[s].token
    BY <1>2, GotoShape DEF CreateToken, Shape, ServerPcs
  <2>2. UNCHANGED <<mode, flock, robbed>> /\ tokenFile = Nothing /\ tokenFile' = "torn" /\ Starting(s)
    BY <1>2 DEF CreateToken, At, Starting
  <2>3. ~Serving(s)' /\ ~Named(s)'
    BY <2>1 DEF Serving, Named
  <2>4. \A t \in Servers \ {s} : (Starting(t)' <=> Starting(t)) /\ (Serving(t)' <=> Serving(t))
           /\ (Named(t)' <=> Named(t)) /\ (Active(t)' <=> Active(t)) /\ (Serving(t) => Starting(t))
    BY <2>1 DEF Starting, Serving, Named, Active
  <2>5. mode = "container" => \A t \in Servers \ {s} : ~Starting(t)
    BY <2>2 DEF TokenInv, LockHeld
  <2>6. mode = "native" => \A t \in Servers : ~Active(t)
    BY <1>0, <2>2 DEF TokenInv, FileIsLock, TokenHeld, Active
  <2>7. TokenHeld'
    BY <2>1, <2>3, <2>4 DEF TokenInv, TokenHeld
  <2>8. \A t \in Servers : Named(t) => Active(t)
    BY DEF Active
  <2>9. FileIsLock'
    BY <2>1, <2>2, <2>3, <2>4, <2>6, <2>8 DEF FileIsLock
  <2>10. LockHeld'
    BY <2>1, <2>2, <2>3, <2>4, <2>5 DEF TokenInv, LockHeld
  <2> QED
    BY <2>7, <2>9, <2>10 DEF TokenInv
<1>3. ASSUME NEW s \in Servers, WriteToken(s) PROVE TokenInv'
  <2>1. /\ \A t \in Servers \ {s} : server'[t] = server[t]
        /\ server'[s].pc = "refresh" /\ server'[s].token = NewToken /\ NewToken \in Tokens
    BY <1>3, NewTokenType, TokenShape DEF WriteToken, Shape
  <2>2. UNCHANGED <<mode, flock, robbed>> /\ tokenFile' = NewToken /\ Starting(s)
    BY <1>3 DEF WriteToken, At, Starting
  <2>3. \A t \in Servers \ {s} : (Starting(t)' <=> Starting(t)) /\ (Serving(t)' <=> Serving(t))
           /\ (Named(t)' <=> Named(t)) /\ (Active(t)' <=> Active(t)) /\ (Serving(t) => Starting(t))
    BY <2>1 DEF Starting, Serving, Named, Active
  <2>4. mode = "container" => \A t \in Servers \ {s} : ~Starting(t)
    BY <2>2 DEF TokenInv, LockHeld
  <2>5. mode = "native" => \A t \in Servers \ {s} : ~Active(t)
    <3>1. mode = "native" => Active(s)
      BY <1>3 DEF WriteToken, Rotates, Active, At
    <3> QED
      BY <3>1 DEF TokenInv, FileIsLock
  <2>6. TokenHeld'
    BY <2>1, <2>3 DEF TokenInv, TokenHeld
  <2>7. \A t \in Servers : Named(t)' => Active(t)'
    BY DEF Active
  <2>8. mode' = "native" => \A t \in Servers \ {s} : ~Active(t)' /\ ~Named(t)' /\ server'[t].pc # "write"
    BY <2>2, <2>3, <2>5, <2>7 DEF Active
  <2>9. FileIsLock'
    BY <2>1, <2>2, <2>8 DEF FileIsLock
  <2>10. LockHeld'
    BY <2>1, <2>2, <2>3, <2>4 DEF TokenInv, LockHeld
  <2> QED
    BY <2>6, <2>9, <2>10 DEF TokenInv
<1>4. ASSUME NEW s \in Servers, TokenRefused(s) PROVE TokenInv'
  BY <1>4, TurnOffShape, TokenLeaves DEF TokenRefused
<1>5. ASSUME NEW s \in Servers, Refresh(s) PROVE TokenInv'
  <2>1. CASE ReadableFile(provFile)
    <3>1. /\ \A t \in Servers \ {s} : server'[t] = server[t]
          /\ server'[s].pc = "up" /\ server'[s].token = server[s].token /\ server[s].pc = "refresh"
          /\ UNCHANGED <<mode, flock, tokenFile, robbed>>
      BY <1>5, <2>1, UpShape DEF Refresh, Shape, At
    <3>2. \A t \in Servers : /\ (Starting(t)' <=> Starting(t)) /\ (Serving(t)' <=> Serving(t))
                             /\ (Named(t)' <=> Named(t)) /\ (Active(t)' <=> Active(t))
                             /\ server'[t].token = server[t].token
                             /\ server'[t].pc = "write" => server[t].pc = "write"
      BY <3>1 DEF Starting, Serving, Named, Active
    <3>3. TokenHeld'
      BY <3>2 DEF TokenInv, TokenHeld
    <3>4. FileIsLock'
      BY <3>1, <3>2 DEF TokenInv, FileIsLock
    <3>5. LockHeld'
      BY <3>1, <3>2 DEF TokenInv, LockHeld
    <3> QED
      BY <3>3, <3>4, <3>5 DEF TokenInv
  <2>2. CASE ~ReadableFile(provFile)
    <3>1. /\ Shape(s, "close", server[s].token, server[s].seen, server[s].base,
                   server[s].step, server[s].request)
          /\ Named(s)
      BY <1>5, <2>2, GotoShape DEF Refresh, ServerPcs, Named, At
    <3> QED
      BY <1>5, <2>2, <3>1, TokenLeaves DEF Refresh
  <2> QED
    BY <2>1, <2>2
<1>6. ASSUME NEW s \in Servers, Shutdown(s) PROVE TokenInv'
  <2>1. /\ Shape(s, "close", server[s].token, server[s].seen, server[s].base,
                 server[s].step, server[s].request)
        /\ Named(s)
    BY <1>6, GotoShape DEF Shutdown, ServerPcs, Named, At
  <2> QED
    BY <1>6, <2>1, TokenLeaves DEF Shutdown
<1>7. ASSUME NEW s \in Servers, CloseCompare(s) PROVE TokenInv'
  <2>1. CASE tokenFile = server[s].token
    <3>1. /\ Shape(s, "unlink", server[s].token, server[s].seen, server[s].base,
                   server[s].step, server[s].request)
          /\ Named(s)
      BY <1>7, <2>1, GotoShape DEF CloseCompare, ServerPcs, Named, At
    <3> QED
      BY <1>7, <2>1, <3>1, TokenLeaves DEF CloseCompare
  <2>2. CASE tokenFile # server[s].token
    BY <1>7, <2>2, TurnOffShape, TokenLeaves DEF CloseCompare
  <2> QED
    BY <2>1, <2>2
<1>8. ASSUME NEW s \in Servers, CloseUnlink(s) PROVE TokenInv'
  <2>1. /\ \A t \in Servers \ {s} : server'[t] = server[t]
        /\ server'[s].pc = "off"
    BY <1>8, TurnOffShape DEF CloseUnlink, Shape
  <2>2. /\ mode' = mode /\ flock' = Released(s) /\ Named(s)
        /\ flock # s => \A t \in Servers \ {s} : server[t].token = tokenFile => t \in robbed'
        /\ robbed \subseteq robbed'
    BY <1>8 DEF CloseUnlink, Named, At
  <2>3. ~Starting(s)' /\ ~Serving(s)' /\ ~Named(s)' /\ ~Active(s)' /\ Active(s)
    BY <2>1, <2>2 DEF Starting, Serving, Named, Active
  <2>4. \A t \in Servers \ {s} : (Starting(t)' <=> Starting(t)) /\ (Serving(t)' <=> Serving(t))
           /\ (Named(t)' <=> Named(t)) /\ (Active(t)' <=> Active(t)) /\ (Serving(t) => Starting(t))
    BY <2>1 DEF Starting, Serving, Named, Active
  <2>5. TokenHeld'
    BY <2>1, <2>3, <2>4 DEF TokenInv, TokenHeld
  <2>6. mode = "native" => \A t \in Servers : ~Active(t)'
    BY <2>3, <2>4 DEF TokenInv, FileIsLock
  <2>7. FileIsLock'
    BY <2>2, <2>6 DEF FileIsLock, Active
  <2>8. ASSUME mode = "container", NEW t \in Servers, Starting(t)' PROVE t # s /\ flock = t /\ flock' = t
    BY <2>2, <2>3, <2>4, <2>8 DEF TokenInv, LockHeld, Released
  <2>9. ASSUME mode = "container", NEW t \in Servers, Serving(t)' PROVE t \in robbed'
    <3>1. t # s /\ Serving(t) /\ Starting(t)
      BY <2>3, <2>4, <2>9
    <3>2. flock # s /\ (tokenFile = server[t].token \/ t \in robbed)
      BY <2>9, <3>1 DEF TokenInv, LockHeld
    <3> QED
      BY <2>2, <3>1, <3>2
  <2>10. LockHeld'
    BY <2>2, <2>8, <2>9 DEF LockHeld
  <2> QED
    BY <2>5, <2>7, <2>10 DEF TokenInv
<1>9. ASSUME NEW s \in Servers, Kill(s) PROVE TokenInv'
  BY <1>9, TurnOffShape, TokenLeaves DEF Kill
<1>10. ASSUME NEW s \in Servers, NEW c \in Panels, NEW provider \in Providers, Get(s, c, provider)
       PROVE  TokenInv'
  BY <1>10, NotedShape, TokenQuiet DEF Get, Shape
<1>11. ASSUME NEW s \in Servers, NEW c \in Panels, NEW provider \in Providers, NEW dest \in {"ok", "bad"},
              PutBegin(s, c, provider, dest)
       PROVE  TokenInv'
  <2>1. \A t \in Servers : server'[t].pc = server[t].pc /\ server'[t].token = server[t].token
    BY <1>11, PutBeginShape DEF Shape
  <2> QED
    BY <1>11, <2>1, TokenQuiet DEF PutBegin
<1>12. ASSUME NEW s \in Servers, PutCheck(s) PROVE TokenInv'
  BY <1>12, StepShape, TokenQuiet DEF PutCheck, Shape, PutSteps
<1>13. ASSUME NEW s \in Servers, PutReplace(s) PROVE TokenInv'
  BY <1>13, StepShape, TokenQuiet DEF PutReplace, Shape, PutSteps
<1>14. ASSUME NEW s \in Servers, PutAnswer(s) PROVE TokenInv'
  <2>1. \A t \in Servers : server'[t].pc = server[t].pc /\ server'[t].token = server[t].token
    BY <1>14, AnswerShape DEF Shape
  <2> QED
    BY <1>14, <2>1, TokenQuiet DEF PutAnswer
<1>15. ASSUME NEW content \in PersonWrites \cup {NoFile}, PersonEdits(content) PROVE TokenInv'
  <2>1. \A t \in Servers : server'[t].pc = server[t].pc /\ server'[t].token = server[t].token
    BY <1>15, EditShape
  <2> QED
    BY <1>15, <2>1, TokenQuiet DEF PersonEdits
<1>16. ASSUME PersonRemovesToken PROVE TokenInv'
  <2>1. \A s \in Servers : server'[s].pc = "off"
    BY <1>16 DEF PersonRemovesToken, At
  <2> QED
    BY <2>1 DEF TokenInv, TokenHeld, FileIsLock, LockHeld, Starting, Serving, Named, Active
<1>17. CASE UNCHANGED settingsVars
  BY <1>17, TokenQuiet DEF settingsVars
<1> QED
  BY <1>1, <1>2, <1>3, <1>4, <1>5, <1>6, <1>7, <1>8, <1>9, <1>10, <1>11, <1>12, <1>13, <1>14,
     <1>15, <1>16, <1>17 DEF SettingsNext, ServerStep

LEMMA TokenInvGives ==
    SettingsType /\ TokenInv => TokenServesHolder /\ \A s, t \in Servers : At(s, "up") /\ At(t, "up") => s = t
<1> SUFFICES ASSUME SettingsType, TokenInv PROVE TokenServesHolder
  BY DEF TokenServesHolder
<1>1. \A s \in Servers : At(s, "up") => Starting(s) /\ Serving(s) /\ Named(s) /\ Active(s)
  BY DEF At, Starting, Serving, Named, Active
<1>2. CASE mode = "native"
  BY <1>1, <1>2 DEF TokenInv, FileIsLock, TokenServesHolder
<1>3. CASE mode = "container"
  BY <1>1, <1>3 DEF TokenInv, LockHeld, TokenServesHolder
<1> QED
  BY <1>2, <1>3 DEF SettingsType

(* LocalSettingsService.start and close keep at most one process serving,   *)
(* with its token in the file, whatever processes start, fail, close or die.*)
THEOREM TokenFileServesHolder == SettingsSpec => []TokenServesHolder
<1>1. SettingsInit => SettingsType /\ TokenInv
  BY SettingsTypeInit, TokenInit
<1>2. (SettingsType /\ TokenInv) /\ [SettingsNext]_settingsVars => (SettingsType /\ TokenInv)'
  BY SettingsTypeStep, TokenStep
<1>3. SettingsType /\ TokenInv => TokenServesHolder
  BY TokenInvGives
<1> QED
  BY <1>1, <1>2, <1>3, PTL DEF SettingsSpec

----------------------------------------------------------------------------
(* Local settings: documents.                                              *)

LEMMA DocumentEntries ==
    ASSUME NEW doc \in Documents, NEW n \in Providers
    PROVE  doc[n] \in Entries /\ doc[n].dest \in {"", "ok", "bad"} /\ doc[n].key \in Keys \cup {""}
BY DEF Documents, Entries

(* validate_provider_document through the editor's placeholders: the edited *)
(* provider has an allowed destination, the others one or nothing at all.   *)
LEMMA ValidMeans ==
    ASSUME NEW doc \in Documents, NEW provider \in Providers
    PROVE  ValidDocument(doc, provider) <=>
              /\ doc[provider].dest = "ok"
              /\ \A n \in Providers \ {provider} : doc[n] = Unset \/ doc[n].dest = "ok"
<1> DEFINE key == CHOOSE k \in Keys : TRUE
           shown(n) == EditorView(doc, provider)[n]
<1>1. key \in Keys /\ key # ""
  BY SettingsAssumption
<1> HIDE DEF key
<1>2. ASSUME NEW n \in Providers
      PROVE  shown(n) = IF n # provider /\ doc[n].key = "" /\ doc[n].dest # ""
                        THEN [doc[n] EXCEPT !.key = key] ELSE doc[n]
  BY DEF EditorView, key
<1>3. ASSUME NEW n \in Providers PROVE shown(n).dest = doc[n].dest
  BY <1>2, DocumentEntries DEF Entries
<1>4. ASSUME NEW n \in Providers, n # provider, doc[n].dest = "ok" PROVE shown(n).key # ""
  <2>1. CASE doc[n].key = ""
    <3>1. shown(n) = [doc[n] EXCEPT !.key = key]
      BY <1>2, <1>4, <2>1
    <3> QED
      BY <1>1, <3>1, DocumentEntries DEF Entries
  <2>2. CASE doc[n].key # ""
    BY <1>2, <2>2
  <2> QED
    BY <2>1, <2>2
<1>5. ASSUME NEW n \in Providers PROVE shown(n) = Unset <=> doc[n] = Unset
  <2>1. Unset.dest = "" /\ Unset.key = ""
    BY DEF Unset
  <2>2. CASE n # provider /\ doc[n].key = "" /\ doc[n].dest # ""
    <3>1. shown(n).dest # ""
      BY <1>3, <2>2
    <3> QED
      BY <2>1, <2>2, <3>1
  <2>3. CASE ~(n # provider /\ doc[n].key = "" /\ doc[n].dest # "")
    BY <1>2, <2>3
  <2> QED
    BY <2>2, <2>3
<1>6. ValidDocument(doc, provider) <=>
         \A n \in Providers :
            \/ n # provider /\ shown(n) = Unset
            \/ shown(n).dest = "ok" /\ ((TRUE /\ n = provider) \/ shown(n).key # "")
  BY DEF ValidDocument, ValidProviderDocument, DestinationAllowed, KeyAllowed
<1> HIDE DEF shown
<1> QED
  BY <1>3, <1>4, <1>5, <1>6

(* What a PUT leaves in the file.                                           *)
Reopens(doc) ==
    /\ \A provider \in Providers : Answers(Holding(doc), provider)
    /\ (\A name \in Providers : doc[name] # Unset => doc[name].key # "") =>
           \A name \in Providers : doc[name] # Unset => Resolves(Holding(doc), name)

LEMMA EditReopens ==
    ASSUME NEW base \in Documents, ValidDocument(base, "openai"),
           NEW doc \in Documents, NEW provider \in Providers, ValidDocument(doc, provider),
           \A other \in Providers \ {provider} : doc[other] = base[other]
    PROVE  Reopens(doc)
<1>0. Providers = {"openai", "qwen"} /\ Holding(doc).doc = doc /\ Holding(doc).kind = "document"
  BY DEF Providers, Holding
<1>1. base["openai"].dest = "ok"
  BY <1>0, ValidMeans
<1>2. /\ doc[provider].dest = "ok"
      /\ \A n \in Providers \ {provider} : doc[n] = Unset \/ doc[n].dest = "ok"
  BY ValidMeans
<1>3. doc["openai"].dest = "ok" /\ (doc["qwen"] = Unset \/ doc["qwen"].dest = "ok")
  <2>1. CASE provider = "openai"
    BY <1>0, <1>2, <2>1
  <2>2. CASE provider = "qwen"
    BY <1>0, <1>1, <1>2, <2>2
  <2> QED
    BY <1>0, <2>1, <2>2
<1>4. ValidDocument(doc, "openai")
  BY <1>0, <1>3, ValidMeans
<1>5. doc["qwen"] = Unset \/ ValidDocument(doc, "qwen")
  BY <1>0, <1>3, ValidMeans
<1>6. \A p \in Providers : Answers(Holding(doc), p)
  BY <1>0, <1>4, <1>5 DEF Answers, ReadableFile
<1>7. ASSUME \A name \in Providers : doc[name] # Unset => doc[name].key # "", NEW name \in Providers,
             doc[name] # Unset
      PROVE  Resolves(Holding(doc), name)
  BY <1>0, <1>3, <1>7 DEF Resolves, ValidProviderDocument, DestinationAllowed, KeyAllowed
<1> QED
  BY <1>6, <1>7 DEF Reopens

----------------------------------------------------------------------------
(* Local settings: revisions and the requests that hold them.              *)

(* A revision stands for one content, and only for one the editor can open. *)
RevisionInv ==
    /\ \A s, t \in Servers : server[s].seen = server[t].seen /\ server[s].seen # Nothing => s = t
    /\ \A s \in Servers, c \in Panels :
          server[s].seen # Nothing /\ view[c].revision = server[s].seen => view[c].base = server[s].base
    /\ \A c \in Panels : view[c].revision # Nothing => ValidDocument(view[c].base.doc, "openai")

(* A PUT under way edits what its panel saw, and from its last check on the *)
(* file holds that, unless it is overtaken by hand.                         *)
EditsSeen(s) ==
    /\ server[s].pc = "up" /\ server[s].request.panel \in Panels
    /\ server[s].step \in {"staged", "checked"} =>
          /\ view[server[s].request.panel].base = server[s].request.base
          /\ view[server[s].request.panel].revision # Nothing
          /\ ValidDocument(server[s].request.doc, server[s].request.provider)
          /\ \A other \in Providers \ {server[s].request.provider} :
                server[s].request.doc[other] = server[s].request.base.doc[other]
    /\ server[s].step = "checked" =>
          server[s].request.raced \/ Fingerprint(provFile) = server[s].request.base

PutInv == \A s \in Servers : server[s].step # "idle" => EditsSeen(s)

SavedInv == saved => provFile = Holding(provFile.doc) /\ Reopens(provFile.doc)

PlaneInv == SettingsType /\ TokenInv /\ RevisionInv /\ PutInv /\ SavedInv

(* The revision of an unchanged file is kept, any other is new to everyone. *)
LEMMA RevisionNowMeans ==
    ASSUME SettingsType, NEW s \in Servers
    PROVE  /\ RevisionNow(s) # Nothing
           /\ \/ RevisionNow(s) = server[s].seen /\ server[s].base = Fingerprint(provFile)
              \/ /\ \A t \in Servers : server[t].seen # RevisionNow(s)
                 /\ \A c \in Panels : view[c].revision # RevisionNow(s)
<1>1. RevisionNow(s) \in Revisions /\ Nothing \notin Revisions
  BY RevisionNowType, SettingsAssumption
<1> QED
  BY <1>1, NewRevisionFresh DEF RevisionNow

LEMMA SettingsStart == SettingsInit => RevisionInv /\ PutInv /\ SavedInv
<1> SUFFICES ASSUME SettingsInit PROVE RevisionInv /\ PutInv /\ SavedInv
  OBVIOUS
<1>1. \A s \in Servers : server[s].seen = Nothing /\ server[s].step = "idle"
  BY DEF SettingsInit, Off
<1>2. \A c \in Panels : view[c].revision = Nothing
  BY DEF SettingsInit
<1> QED
  BY <1>1, <1>2 DEF SettingsInit, RevisionInv, PutInv, SavedInv

(* What a process may come to know of the file.                             *)
Knows(s, seen, base) ==
    \/ seen = server[s].seen /\ base = server[s].base
    \/ seen = Nothing
    \/ seen = RevisionNow(s) /\ base = Fingerprint(provFile)

LEMMA RevisionKept ==
    ASSUME SettingsType, RevisionInv, NEW s \in Servers, NEW pc, NEW token, NEW seen, NEW base,
           NEW step, NEW request, Shape(s, pc, token, seen, base, step, request),
           Knows(s, seen, base), UNCHANGED view
    PROVE  RevisionInv'
<1>1. server'[s].seen = seen /\ server'[s].base = base /\ \A t \in Servers \ {s} : server'[t] = server[t]
  BY DEF Shape
<1>2. \/ seen = server[s].seen /\ base = server[s].base
      \/ seen = Nothing
      \/ /\ \A t \in Servers : server[t].seen # seen
         /\ \A c \in Panels : view[c].revision # seen
  BY RevisionNowMeans DEF Knows
<1>3. ASSUME NEW t \in Servers, NEW u \in Servers, server'[t].seen = server'[u].seen, server'[t].seen # Nothing
      PROVE  t = u
  BY <1>1, <1>2, <1>3 DEF RevisionInv
<1>4. ASSUME NEW t \in Servers, NEW c \in Panels, server'[t].seen # Nothing, view[c].revision = server'[t].seen
      PROVE  view[c].base = server'[t].base
  BY <1>1, <1>2, <1>4 DEF RevisionInv
<1> QED
  BY <1>3, <1>4 DEF RevisionInv

LEMMA RevisionShown ==
    ASSUME SettingsType, RevisionInv, NEW s \in Servers, NEW pc, NEW token, NEW step, NEW request,
           Shape(s, pc, token, RevisionNow(s), Fingerprint(provFile), step, request), NEW c \in Panels,
           ValidDocument(provFile.doc, "openai"),
           view' = [view EXCEPT ![c] = [revision |-> RevisionNow(s), base |-> Fingerprint(provFile)]]
    PROVE  RevisionInv'
<1> DEFINE seen == RevisionNow(s)
           base == Fingerprint(provFile)
<1>1. server'[s].seen = seen /\ server'[s].base = base /\ \A t \in Servers \ {s} : server'[t] = server[t]
  BY DEF Shape
<1>2. /\ view'[c].revision = seen /\ view'[c].base = base
      /\ \A d \in Panels \ {c} : view'[d] = view[d]
  BY DEF SettingsType, Views
<1>3. /\ seen # Nothing /\ base.doc = provFile.doc
      /\ \/ seen = server[s].seen /\ base = server[s].base
         \/ /\ \A t \in Servers : server[t].seen # seen
            /\ \A d \in Panels : view[d].revision # seen
  BY RevisionNowMeans, FilesType DEF SettingsType
<1> HIDE DEF seen, base
<1>4. ASSUME NEW t \in Servers, NEW u \in Servers, server'[t].seen = server'[u].seen, server'[t].seen # Nothing
      PROVE  t = u
  BY <1>1, <1>3, <1>4 DEF RevisionInv
<1>5. ASSUME NEW t \in Servers, NEW d \in Panels, server'[t].seen # Nothing, view'[d].revision = server'[t].seen
      PROVE  view'[d].base = server'[t].base
  <2>1. CASE d = c
    BY <1>1, <1>2, <1>4, <1>5, <2>1
  <2>2. CASE d # c
    BY <1>1, <1>2, <1>3, <1>5, <2>2 DEF RevisionInv
  <2> QED
    BY <2>1, <2>2
<1>6. ASSUME NEW d \in Panels, view'[d].revision # Nothing PROVE ValidDocument(view'[d].base.doc, "openai")
  BY <1>2, <1>3, <1>6 DEF RevisionInv
<1> QED
  BY <1>4, <1>5, <1>6 DEF RevisionInv

(* One process serves, so nobody else is in the middle of a PUT.            *)
LEMMA Alone ==
    ASSUME PlaneInv, NEW s \in Servers, server[s].pc = "up"
    PROVE  \A t \in Servers \ {s} : server[t].step = "idle"
BY TokenInvGives DEF PlaneInv, PutInv, EditsSeen, At

LEMMA PutEnds ==
    ASSUME PutInv, NEW s \in Servers, NEW pc, NEW token, NEW seen, NEW base, NEW request,
           Shape(s, pc, token, seen, base, "idle", request),
           UNCHANGED <<view, provFile>> \/ \A t \in Servers \ {s} : server[t].step = "idle"
    PROVE  PutInv'
<1>1. server'[s].step = "idle" /\ \A t \in Servers \ {s} : server'[t] = server[t]
  BY DEF Shape
<1>2. CASE UNCHANGED <<view, provFile>>
  <2>1. ASSUME NEW t \in Servers \ {s}, EditsSeen(t) PROVE EditsSeen(t)'
    BY <1>1, <1>2, <2>1 DEF EditsSeen
  <2> QED
    BY <1>1, <2>1 DEF PutInv
<1>3. CASE \A t \in Servers \ {s} : server[t].step = "idle"
  BY <1>1, <1>3 DEF PutInv
<1> QED
  BY <1>2, <1>3

(* A step of a process that is not in the middle of a PUT and leaves what   *)
(* the others see.                                                          *)
LEMMA SettingsQuiet ==
    ASSUME PlaneInv, NEW s \in Servers, NEW pc, NEW token, NEW seen, NEW base, NEW request,
           Shape(s, pc, token, seen, base, "idle", request), Knows(s, seen, base),
           UNCHANGED <<view, provFile, saved>>
    PROVE  RevisionInv' /\ PutInv' /\ SavedInv'
<1>1. RevisionInv'
  BY RevisionKept DEF PlaneInv
<1>2. PutInv'
  BY PutEnds DEF PlaneInv
<1>3. SavedInv'
  BY DEF PlaneInv, SavedInv
<1> QED
  BY <1>1, <1>2, <1>3

LEMMA SettingsInvStep == PlaneInv /\ [SettingsNext]_settingsVars => RevisionInv' /\ PutInv' /\ SavedInv'
<1> SUFFICES ASSUME PlaneInv, [SettingsNext]_settingsVars PROVE RevisionInv' /\ PutInv' /\ SavedInv'
  OBVIOUS
<1> DEFINE Goal == RevisionInv' /\ PutInv' /\ SavedInv'
<1>a. SettingsType
  BY DEF PlaneInv
<1>b. \A s \in Servers : server[s].pc # "up" => server[s].step = "idle"
  BY DEF PlaneInv, PutInv, EditsSeen
<1>1. ASSUME NEW s \in Servers, Start(s) PROVE Goal
  BY <1>a, <1>b, <1>1, GotoShape, SettingsQuiet DEF Start, At, ServerPcs, Knows
<1>2. ASSUME NEW s \in Servers, CreateToken(s) PROVE Goal
  BY <1>a, <1>b, <1>2, GotoShape, SettingsQuiet DEF CreateToken, At, ServerPcs, Knows
<1>3. ASSUME NEW s \in Servers, WriteToken(s) PROVE Goal
  <2>1. Shape(s, "refresh", NewToken, server[s].seen, server[s].base, server[s].step, server[s].request)
    BY <1>a, <1>3, TokenShape, NewTokenType DEF WriteToken
  <2>2. server[s].step = "idle" /\ UNCHANGED <<view, provFile, saved>>
    BY <1>b, <1>3 DEF WriteToken, At
  <2> QED
    BY <2>1, <2>2, SettingsQuiet DEF Knows
<1>4. ASSUME NEW s \in Servers, TokenRefused(s) PROVE Goal
  BY <1>a, <1>4, TurnOffShape, SettingsQuiet DEF TokenRefused, Knows
<1>5. ASSUME NEW s \in Servers, Refresh(s) PROVE Goal
  <2>1. CASE ReadableFile(provFile)
    BY <1>a, <1>b, <1>5, <2>1, UpShape, SettingsQuiet DEF Refresh, At, Knows
  <2>2. CASE ~ReadableFile(provFile)
    BY <1>a, <1>b, <1>5, <2>2, GotoShape, SettingsQuiet DEF Refresh, At, ServerPcs, Knows
  <2> QED
    BY <2>1, <2>2
<1>6. ASSUME NEW s \in Servers, Shutdown(s) PROVE Goal
  BY <1>a, <1>6, GotoShape, SettingsQuiet DEF Shutdown, ServerPcs, Knows
<1>7. ASSUME NEW s \in Servers, CloseCompare(s) PROVE Goal
  <2>1. CASE tokenFile = server[s].token
    BY <1>a, <1>b, <1>7, <2>1, GotoShape, SettingsQuiet DEF CloseCompare, At, ServerPcs, Knows
  <2>2. CASE tokenFile # server[s].token
    BY <1>a, <1>7, <2>2, TurnOffShape, SettingsQuiet DEF CloseCompare, Knows
  <2> QED
    BY <2>1, <2>2
<1>8. ASSUME NEW s \in Servers, CloseUnlink(s) PROVE Goal
  BY <1>a, <1>8, TurnOffShape, SettingsQuiet DEF CloseUnlink, Knows
<1>9. ASSUME NEW s \in Servers, Kill(s) PROVE Goal
  BY <1>a, <1>9, TurnOffShape, SettingsQuiet DEF Kill, Knows
<1>10. ASSUME NEW s \in Servers, NEW c \in Panels, NEW provider \in Providers, Get(s, c, provider)
       PROVE  Goal
  <2>1. /\ Shape(s, server[s].pc, server[s].token, RevisionNow(s), Fingerprint(provFile),
                 "idle", server[s].request)
        /\ server[s].pc = "up" /\ UNCHANGED <<provFile, saved>>
    BY <1>a, <1>10, NotedShape DEF Get, Admitted, At
  <2>2. PutInv'
    BY <2>1, Alone, PutEnds DEF PlaneInv
  <2>3. SavedInv'
    BY <2>1 DEF PlaneInv, SavedInv
  <2>4. CASE Answers(provFile, provider)
    <3>1. RevisionInv'
      BY <1>a, <1>10, <2>1, <2>4, RevisionShown DEF PlaneInv, Get, Answers
    <3> QED
      BY <2>2, <2>3, <3>1
  <2>5. CASE ~Answers(provFile, provider)
    <3>1. RevisionInv'
      BY <1>a, <1>10, <2>1, <2>5, RevisionKept DEF PlaneInv, Get, Knows
    <3> QED
      BY <2>2, <2>3, <3>1
  <2> QED
    BY <2>4, <2>5
<1>11. ASSUME NEW s \in Servers, NEW c \in Panels, NEW provider \in Providers, NEW dest \in {"ok", "bad"},
              PutBegin(s, c, provider, dest)
       PROVE  Goal
  <2>1. server[s].pc = "up" /\ server[s].step = "idle" /\ UNCHANGED <<view, provFile, saved>>
    BY <1>11 DEF PutBegin, Admitted, At
  <2>2. CASE Shape(s, server[s].pc, server[s].token, RevisionNow(s), Fingerprint(provFile),
                   server[s].step, server[s].request)
    BY <2>1, <2>2, SettingsQuiet DEF Knows
  <2>3. ASSUME NEW request \in Requests,
               Shape(s, server[s].pc, server[s].token, RevisionNow(s), Fingerprint(provFile), "staged", request),
               view[c].revision = RevisionNow(s), ValidDocument(request.doc, provider),
               request.panel = c, request.provider = provider, request.base = Fingerprint(provFile),
               \A other \in Providers \ {provider} : request.doc[other] = provFile.doc[other]
        PROVE  Goal
    <3>1. RevisionInv'
      BY <1>a, <2>1, <2>3, RevisionKept DEF PlaneInv, Knows
    <3>2. view[c].revision # Nothing /\ view[c].base = Fingerprint(provFile)
      BY <1>a, <2>3, RevisionNowMeans DEF PlaneInv, RevisionInv
    <3>3. provFile.doc = Fingerprint(provFile).doc
      BY <1>a, FilesType DEF SettingsType
    <3>4. /\ server'[s].pc = "up" /\ server'[s].step = "staged" /\ server'[s].request = request
          /\ \A t \in Servers \ {s} : server'[t] = server[t]
      BY <2>1, <2>3 DEF Shape
    <3>5. EditsSeen(s)'
      BY <2>1, <2>3, <3>2, <3>3, <3>4 DEF EditsSeen
    <3>6. \A t \in Servers \ {s} : server'[t].step = "idle"
      BY <2>1, <3>4, Alone
    <3>7. PutInv'
      BY <3>5, <3>6 DEF PutInv
    <3>8. SavedInv'
      BY <2>1 DEF PlaneInv, SavedInv
    <3> QED
      BY <3>1, <3>7, <3>8
  <2> QED
    BY <1>a, <1>11, <2>2, <2>3, PutBeginShape
<1>12. ASSUME NEW s \in Servers, PutCheck(s) PROVE Goal
  <2>1. server[s].pc = "up" /\ server[s].step = "staged" /\ UNCHANGED <<view, provFile, saved>>
    BY <1>12 DEF PutCheck, At
  <2>2. CASE ~StillBase(s)
    BY <1>a, <1>12, <2>1, <2>2, StepShape, SettingsQuiet DEF PutCheck, PutSteps, Knows
  <2>3. CASE StillBase(s)
    <3>1. Shape(s, server[s].pc, server[s].token, server[s].seen, server[s].base, "checked", server[s].request)
      BY <1>a, <1>12, <2>3, StepShape DEF PutCheck, PutSteps
    <3>2. RevisionInv'
      BY <1>a, <2>1, <3>1, RevisionKept DEF PlaneInv, Knows
    <3>3. /\ server'[s].pc = "up" /\ server'[s].step = "checked" /\ server'[s].request = server[s].request
          /\ \A t \in Servers \ {s} : server'[t] = server[t]
      BY <2>1, <3>1 DEF Shape
    <3>4. EditsSeen(s)
      BY <2>1 DEF PlaneInv, PutInv
    <3>5. EditsSeen(s)'
      BY <2>1, <2>3, <3>3, <3>4 DEF EditsSeen, StillBase
    <3>6. \A t \in Servers \ {s} : server'[t].step = "idle"
      BY <2>1, <3>3, Alone
    <3>7. PutInv'
      BY <3>5, <3>6 DEF PutInv
    <3>8. SavedInv'
      BY <2>1 DEF PlaneInv, SavedInv
    <3> QED
      BY <3>2, <3>7, <3>8
  <2> QED
    BY <2>2, <2>3
<1>13. ASSUME NEW s \in Servers, PutReplace(s) PROVE Goal
  <2>1. /\ server[s].pc = "up" /\ server[s].step = "checked" /\ UNCHANGED view
        /\ provFile' = Holding(server[s].request.doc)
    BY <1>13 DEF PutReplace, At
  <2>2. Shape(s, server[s].pc, server[s].token, server[s].seen, server[s].base, "replaced", server[s].request)
    BY <1>a, <1>13, StepShape DEF PutReplace, PutSteps
  <2>3. RevisionInv'
    BY <1>a, <2>1, <2>2, RevisionKept DEF PlaneInv, Knows
  <2>4. /\ server'[s].pc = "up" /\ server'[s].step = "replaced" /\ server'[s].request = server[s].request
        /\ \A t \in Servers \ {s} : server'[t] = server[t]
    BY <2>1, <2>2 DEF Shape
  <2>5. EditsSeen(s)
    BY <2>1 DEF PlaneInv, PutInv
  <2>6. EditsSeen(s)'
    BY <2>4, <2>5 DEF EditsSeen
  <2>7. \A t \in Servers \ {s} : server'[t].step = "idle"
    BY <2>1, <2>4, Alone
  <2>8. PutInv'
    BY <2>6, <2>7 DEF PutInv
  <2>9. /\ server[s].request.doc \in Documents /\ server[s].request.provider \in Providers
        /\ server[s].request.base.doc \in Documents
    BY <1>a, ServerRecord, FilesType DEF Requests
  <2>10. ValidDocument(server[s].request.base.doc, "openai")
    BY <2>1, <2>5 DEF EditsSeen, PlaneInv, RevisionInv
  <2>11. Reopens(server[s].request.doc)
    BY <2>1, <2>5, <2>9, <2>10, EditReopens DEF EditsSeen
  <2>12. provFile'.doc = server[s].request.doc
    BY <2>1 DEF Holding
  <2>13. SavedInv'
    BY <2>1, <2>11, <2>12 DEF SavedInv, Reopens, Answers, Resolves, ReadableFile
  <2> QED
    BY <2>3, <2>8, <2>13
<1>14. ASSUME NEW s \in Servers, PutAnswer(s) PROVE Goal
  <2>1. server[s].pc = "up" /\ server[s].step = "replaced" /\ UNCHANGED <<provFile, saved>>
    BY <1>14 DEF PutAnswer, At
  <2>2. PICK seen \in Revisions \cup {Nothing}, base \in FileStates :
              /\ Shape(s, server[s].pc, server[s].token, seen, base, "idle", NoRequest)
              /\ IF ReadableFile(provFile) THEN seen = RevisionNow(s) /\ base = Fingerprint(provFile)
                 ELSE seen = server[s].seen /\ base = server[s].base
    BY <1>a, <1>14, AnswerShape
  <2>3. PutInv'
    BY <2>1, <2>2, Alone, PutEnds DEF PlaneInv
  <2>4. SavedInv'
    BY <2>1 DEF PlaneInv, SavedInv
  <2>5. server[s].request.panel \in Panels
    BY <2>1 DEF PlaneInv, PutInv, EditsSeen
  <2>6. CASE Answers(provFile, server[s].request.provider)
    <3>1. ReadableFile(provFile) /\ ValidDocument(provFile.doc, "openai")
      BY <2>6 DEF Answers
    <3>2. Shape(s, server[s].pc, server[s].token, RevisionNow(s), Fingerprint(provFile), "idle", NoRequest)
      BY <2>2, <3>1
    <3>3. view' = [view EXCEPT ![server[s].request.panel] =
                      [revision |-> RevisionNow(s), base |-> Fingerprint(provFile)]]
      BY <1>14, <2>6 DEF PutAnswer
    <3>4. RevisionInv'
      BY <1>a, <2>5, <3>1, <3>2, <3>3, RevisionShown DEF PlaneInv
    <3> QED
      BY <2>3, <2>4, <3>4
  <2>7. CASE ~Answers(provFile, server[s].request.provider)
    <3>1. UNCHANGED view /\ Knows(s, seen, base)
      BY <1>14, <2>2, <2>7 DEF PutAnswer, Knows
    <3>2. RevisionInv'
      BY <1>a, <2>2, <3>1, RevisionKept DEF PlaneInv
    <3> QED
      BY <2>3, <2>4, <3>2
  <2> QED
    BY <2>6, <2>7
<1>15. ASSUME NEW content \in PersonWrites \cup {NoFile}, PersonEdits(content) PROVE Goal
  <2>1. UNCHANGED view /\ saved' = FALSE
    BY <1>15 DEF PersonEdits
  <2>2. RevisionInv'
    BY <1>a, <1>15, <2>1, EditShape DEF PlaneInv, RevisionInv
  <2>3. ASSUME NEW s \in Servers, server'[s].step # "idle" PROVE EditsSeen(s)'
    <3>1. EditsSeen(s)
      BY <1>a, <1>15, <2>3, EditShape DEF PlaneInv, PutInv
    <3>2. /\ server'[s].pc = server[s].pc /\ server'[s].step = server[s].step
          /\ server'[s].request.panel = server[s].request.panel
          /\ server'[s].request.provider = server[s].request.provider
          /\ server'[s].request.base = server[s].request.base
          /\ server'[s].request.doc = server[s].request.doc
          /\ server[s].step = "checked" => server'[s].request.raced
      BY <1>a, <1>15, EditShape
    <3> QED
      BY <2>1, <3>1, <3>2 DEF EditsSeen
  <2>4. PutInv' /\ SavedInv'
    BY <2>1, <2>3 DEF PutInv, SavedInv
  <2> QED
    BY <2>2, <2>4
<1>16. ASSUME PersonRemovesToken PROVE Goal
  BY <1>16 DEF PersonRemovesToken, PlaneInv, RevisionInv, PutInv, SavedInv, EditsSeen
<1>17. CASE UNCHANGED settingsVars
  BY <1>17 DEF settingsVars, PlaneInv, RevisionInv, PutInv, SavedInv, EditsSeen
<1> QED
  BY <1>1, <1>2, <1>3, <1>4, <1>5, <1>6, <1>7, <1>8, <1>9, <1>10, <1>11, <1>12, <1>13, <1>14,
     <1>15, <1>16, <1>17 DEF SettingsNext, ServerStep

LEMMA PlaneInvInit == SettingsInit => PlaneInv
BY SettingsTypeInit, TokenInit, SettingsStart DEF PlaneInv

LEMMA PlaneInvStep == PlaneInv /\ [SettingsNext]_settingsVars => PlaneInv'
BY SettingsTypeStep, TokenStep, SettingsInvStep DEF PlaneInv

LEMMA SavedReopens == PlaneInv => EditorReopens
<1> SUFFICES ASSUME PlaneInv, saved PROVE EditorReopens
  BY DEF EditorReopens
<1>1. provFile = Holding(provFile.doc) /\ Reopens(provFile.doc)
  BY DEF PlaneInv, SavedInv
<1> QED
  BY <1>1 DEF EditorReopens, Reopens

(* put and get agree: what a PUT saved opens again for every provider, and  *)
(* the runtime resolves it once no destination lacks its key.               *)
THEOREM SavedDocumentsReopen == SettingsSpec => []EditorReopens
BY PlaneInvInit, PlaneInvStep, SavedReopens, PTL DEF SettingsSpec

LEMMA ReplacesSeen ==
    ASSUME PlaneInv, [SettingsNext]_settingsVars, NEW s \in Servers,
           server[s].step = "checked", server'[s].step = "replaced", ~server[s].request.raced
    PROVE  /\ Fingerprint(provFile) = view[server[s].request.panel].base
           /\ \A other \in Providers \ {server[s].request.provider} :
                 provFile'.doc[other] = provFile.doc[other]
<1>a. SettingsType
  BY DEF PlaneInv
<1>1. EditsSeen(s)
  BY DEF PlaneInv, PutInv
<1>2. Fingerprint(provFile) = server[s].request.base /\ provFile.doc = Fingerprint(provFile).doc
  BY <1>a, <1>1, FilesType DEF EditsSeen, SettingsType
<1>3. PutReplace(s)
  <2>1. server'[s].step # server[s].step
    OBVIOUS
  <2>2. ASSUME NEW t \in Servers, NEW pc, NEW token, NEW seen, NEW base, NEW step, NEW request,
               Shape(t, pc, token, seen, base, step, request),
               t = s => step # "replaced"
        PROVE  FALSE
    BY <2>1, <2>2 DEF Shape
  <2>4. ASSUME NEW t \in Servers, Start(t) PROVE FALSE
    BY <1>a, <2>2, <2>4, GotoShape DEF Start, ServerPcs
  <2>5. ASSUME NEW t \in Servers, CreateToken(t) PROVE FALSE
    BY <1>a, <2>2, <2>5, GotoShape DEF CreateToken, ServerPcs
  <2>6. ASSUME NEW t \in Servers, WriteToken(t) PROVE FALSE
    <3>1. Shape(t, "refresh", NewToken, server[t].seen, server[t].base, server[t].step, server[t].request)
      BY <1>a, <2>6, TokenShape, NewTokenType DEF WriteToken
    <3> QED
      BY <2>2, <3>1
  <2>7. ASSUME NEW t \in Servers, TokenRefused(t) PROVE FALSE
    BY <1>a, <2>2, <2>7, TurnOffShape DEF TokenRefused
  <2>8. ASSUME NEW t \in Servers, Refresh(t) PROVE FALSE
    <3>1. CASE ReadableFile(provFile)
      BY <1>a, <2>2, <2>8, <3>1, UpShape DEF Refresh
    <3>2. CASE ~ReadableFile(provFile)
      BY <1>a, <2>2, <2>8, <3>2, GotoShape DEF Refresh, ServerPcs
    <3> QED
      BY <3>1, <3>2
  <2>9. ASSUME NEW t \in Servers, Shutdown(t) PROVE FALSE
    BY <1>a, <2>2, <2>9, GotoShape DEF Shutdown, ServerPcs
  <2>10. ASSUME NEW t \in Servers, CloseCompare(t) PROVE FALSE
    BY <1>a, <2>2, <2>10, GotoShape, TurnOffShape DEF CloseCompare, ServerPcs
  <2>11. ASSUME NEW t \in Servers, CloseUnlink(t) \/ Kill(t) PROVE FALSE
    BY <1>a, <2>2, <2>11, TurnOffShape DEF CloseUnlink, Kill
  <2>12. ASSUME NEW t \in Servers, NEW c \in Panels, NEW provider \in Providers, Get(t, c, provider)
         PROVE  FALSE
    <3>1. Shape(t, server[t].pc, server[t].token, RevisionNow(t), Fingerprint(provFile),
                server[t].step, server[t].request)
      BY <1>a, <2>12, NotedShape DEF Get
    <3> QED
      BY <2>2, <3>1
  <2>13. ASSUME NEW t \in Servers, NEW c \in Panels, NEW provider \in Providers, NEW dest \in {"ok", "bad"},
                PutBegin(t, c, provider, dest)
         PROVE  FALSE
    BY <1>a, <2>2, <2>13, PutBeginShape
  <2>14. ASSUME NEW t \in Servers, PutCheck(t) PROVE FALSE
    <3>1. CASE StillBase(t)
      BY <1>a, <2>2, <2>14, <3>1, StepShape DEF PutCheck, PutSteps
    <3>2. CASE ~StillBase(t)
      BY <1>a, <2>2, <2>14, <3>2, StepShape DEF PutCheck, PutSteps
    <3> QED
      BY <3>1, <3>2
  <2>15. ASSUME NEW t \in Servers, PutAnswer(t) PROVE FALSE
    BY <1>a, <2>2, <2>15, AnswerShape
  <2>16. ASSUME NEW content \in PersonWrites \cup {NoFile}, PersonEdits(content) PROVE FALSE
    BY <1>a, <2>1, <2>16, EditShape
  <2>17. ASSUME NEW t \in Servers, t # s, PutReplace(t) PROVE FALSE
    BY <1>a, <2>2, <2>17, StepShape DEF PutReplace, PutSteps
  <2>18. ASSUME PersonRemovesToken \/ UNCHANGED settingsVars PROVE FALSE
    BY <2>1, <2>18 DEF PersonRemovesToken, settingsVars
  <2> QED
    BY <2>4, <2>5, <2>6, <2>7, <2>8, <2>9, <2>10, <2>11, <2>12, <2>13, <2>14, <2>15, <2>16, <2>17, <2>18
       DEF SettingsNext, ServerStep
<1>4. provFile'.doc = server[s].request.doc
  BY <1>3 DEF PutReplace, Holding
<1> QED
  BY <1>1, <1>2, <1>4 DEF EditsSeen

(* _put_locked: a change the panel had not seen is never lost, except one   *)
(* made by hand between the last fingerprint and os.replace.                *)
THEOREM PutReplacesWhatWasSeen == SettingsSpec => SeenBeforeReplaced
<1>1. PlaneInv /\ [SettingsNext]_settingsVars =>
         [\A s \in Servers :
            LET request == server[s].request
            IN  server[s].step = "checked" /\ server'[s].step = "replaced" /\ ~request.raced =>
                    /\ Fingerprint(provFile) = view[request.panel].base
                    /\ \A other \in Providers \ {request.provider} :
                           provFile'.doc[other] = provFile.doc[other]]_settingsVars
  BY ReplacesSeen
<1> QED
  BY <1>1, PlaneInvInit, PlaneInvStep, PTL DEF SettingsSpec, SeenBeforeReplaced

----------------------------------------------------------------------------
(* The surfaces beside each other.                                         *)

LEMMA BridgeAmongOthers ==
    /\ Init => BridgeInit
    /\ [Next]_vars => [BridgeNext]_bridgeVars
BY DEF Init, Next, Settings, Bridge, Browser, Legacy, Writes, Mcp, vars

LEMMA SettingsAmongOthers ==
    /\ Init => SettingsInit
    /\ [Next]_vars => [SettingsNext]_settingsVars
BY DEF Init, Next, Settings, Bridge, Browser, Legacy, Writes, Mcp, vars

(* No step of another surface disturbs what the bridge and the settings     *)
(* control plane promise: one application runs them side by side.           *)
THEOREM SurfacesKeepPromises == Spec => [](DispatchedOnce /\ TokenServesHolder /\ EditorReopens)
<1>1. Spec => BridgeSpec
  BY BridgeAmongOthers, PTL DEF Spec, BridgeSpec
<1>2. Spec => SettingsSpec
  BY SettingsAmongOthers, PTL DEF Spec, SettingsSpec
<1> QED
  BY <1>1, <1>2, BridgeDispatchesOnce, TokenFileServesHolder, SavedDocumentsReopen, PTL

----------------------------------------------------------------------------
(* Browser sessions: the table has a limit.                                *)

TableInv == IsFiniteSet(sessions) /\ Cardinality(sessions) <= MaxSessions

\* What is left of a table, each session touched or not, is no larger.
LEMMA TableShrinks ==
    ASSUME TableInv, NEW S \in SUBSET sessions, NEW f, sessions' = {f[s] : s \in S}
    PROVE  TableInv'
<1>1. IsFiniteSet(S) /\ Cardinality(S) <= Cardinality(sessions)
  BY FS_Subset DEF TableInv
<1>2. IsFiniteSet(sessions') /\ Cardinality(sessions') <= Cardinality(S)
  <2> DEFINE g == [s \in S |-> f[s]]
  <2>1. g \in Surjection(S, sessions')
    BY DEF Surjection
  <2> QED
    BY <1>1, <2>1, FS_Surjection
<1>3. Cardinality(S) \in Nat /\ Cardinality(sessions) \in Nat /\ Cardinality(sessions') \in Nat
  BY <1>1, <1>2, FS_CardinalityType DEF TableInv
<1> QED
  BY <1>1, <1>2, <1>3, SessionsAssumption DEF TableInv

LEMMA TableInit == SessionInit => TableInv
BY FS_EmptySet, SessionsAssumption DEF SessionInit, TableInv

LEMMA TableStep == TableInv /\ [SessionNext]_sessionVars => TableInv'
<1> SUFFICES ASSUME TableInv, [SessionNext]_sessionVars PROVE TableInv'
  OBVIOUS
<1>0. Live \subseteq sessions
  BY DEF Live
<1>1. ASSUME NEW t \in Tabs, Bootstrap(t) PROVE TableInv'
  <2>1. IsFiniteSet(Live) /\ Cardinality(Live) <= Cardinality(sessions)
    BY <1>0, FS_Subset DEF TableInv
  <2>2. Cardinality(Live) \in Nat /\ Cardinality(sessions) \in Nat
    BY <2>1, FS_CardinalityType DEF TableInv
  <2>3. CASE Cardinality(Live) < MaxSessions
    <3>1. PICK x : sessions' = Live \cup {x}
      BY <1>1, <2>3 DEF Bootstrap
    <3>2. IsFiniteSet(sessions') /\ Cardinality(sessions') <= Cardinality(Live) + 1
      BY <2>1, <2>2, <3>1, FS_AddElement
    <3>3. Cardinality(sessions') \in Nat
      BY <3>2, FS_CardinalityType
    <3> QED
      BY <2>2, <2>3, <3>2, <3>3, SessionsAssumption DEF TableInv
  <2>4. CASE ~(Cardinality(Live) < MaxSessions)
    <3>1. sessions' = Live
      BY <1>1, <2>4 DEF Bootstrap
    <3> QED
      BY <2>1, <2>2, <3>1, SessionsAssumption DEF TableInv
  <2> QED
    BY <2>3, <2>4
<1>2. ASSUME NEW t \in Tabs, NEW surface, NEW mutation, NEW csrfMatches,
             Verify(t, surface, mutation, csrfMatches)
      PROVE  TableInv'
  <2> DEFINE mine == {s \in sessions : s.token = cookie[t]}
             accepted == CsrfChecked(surface, mutation) => csrfMatches
             S == sessions \ (mine \ Live)
             f == [s \in S |-> IF s \in mine /\ accepted THEN Touch(s) ELSE s]
  <2>1. sessions' = (sessions \ mine) \cup
               {IF accepted THEN Touch(s) ELSE s : s \in mine \cap Live}
    BY <1>2 DEF Verify
  <2>2. sessions' = {f[s] : s \in S}
    BY <1>0, <2>1
  <2>3. S \in SUBSET sessions
    OBVIOUS
  <2> HIDE DEF f, S
  <2> QED
    BY <2>2, <2>3, TableShrinks
<1>3. CASE Tick
  <2> DEFINE f == [s \in sessions |->
                     [s EXCEPT !.age = IF @ > AbsoluteLimit THEN @ ELSE @ + 1,
                               !.idle = IF @ > IdleLimit THEN @ ELSE @ + 1]]
  <2>1. sessions' = {f[s] : s \in sessions} /\ sessions \in SUBSET sessions
    BY <1>3 DEF Tick
  <2> HIDE DEF f
  <2> QED
    BY <2>1, TableShrinks
<1>4. CASE Restart
  BY <1>4, FS_EmptySet, SessionsAssumption DEF Restart, TableInv
<1>5. CASE UNCHANGED sessionVars
  BY <1>5 DEF sessionVars, TableInv
<1> QED
  BY <1>1, <1>2, <1>3, <1>4, <1>5 DEF SessionNext

LEMMA SessionsAmongOthers ==
    /\ Init => SessionInit
    /\ [Next]_vars => [SessionNext]_sessionVars
BY DEF Init, Next, Settings, Bridge, Browser, Legacy, Writes, Mcp, vars

(* The session table stays within its limit, whatever tabs ask for and      *)
(* however time passes: the half of TableFreesUp that bounds what bootstrap *)
(* may add.                                                                 *)
THEOREM SessionTableIsBounded == Spec => [](Cardinality(sessions) <= MaxSessions)
<1>1. TableInv => Cardinality(sessions) <= MaxSessions
  BY DEF TableInv
<1> QED
  BY <1>1, TableInit, TableStep, SessionsAmongOthers, PTL DEF Spec

----------------------------------------------------------------------------
(* MCP sessions: what a stopped application leaves, and what a call without *)
(* effect may have done.                                                    *)

Items == {"initialize", "call", "misfit", "stderr", "garbage", "end"}
Phases == {"install", "up", "cancelling", "draining", "stopped"}
CallPcs == {"away", "spawned", "initialize", "call", "wait", "close"}

SessionRecords == [pc : CallPcs, child : BOOLEAN, asked : {"none", "initialize", "call"},
                   pipe : Seq(Items), events : Seq(Items), ended : BOOLEAN, stderr : Nat,
                   close : {"open", "closed", "worker", "lifespan"},
                   outcome : {"none", "answered", "ambiguous", "invalid"},
                   ran : BOOLEAN, misfit : BOOLEAN]

McpType ==
    /\ session \in [Everyone -> SessionRecords]
    /\ listed \subseteq Everyone
    /\ phase \in Phases

\* One session: without a caller it has no process; an outcome ends its requests.
SessionOK(s) ==
    /\ s.pc = "away" => ~s.child
    /\ s.asked # "none" => s.outcome = "none"
    /\ s.pc \in {"spawned", "initialize", "call", "wait"} => s.outcome = "none"
    /\ s.outcome = "invalid" => ~s.ran \/ s.misfit

\* Who may be in a call in which phase; only a session in use is listed.
InPhase(c) ==
    /\ session[c].pc # "away" => IF c = Installer THEN phase = "install"
                                 ELSE phase \in {"up", "cancelling", "draining"}
    /\ c \in listed => session[c].pc # "away"

McpInv == McpType /\ \A c \in Everyone : SessionOK(session[c]) /\ InPhase(c)

LEMMA NoSessionOK == NoSession \in SessionRecords /\ SessionOK(NoSession)
<1>1. <<>> \in Seq(Items)
  OBVIOUS
<1> QED
  BY <1>1 DEF NoSession, SessionRecords, SessionOK, CallPcs

LEMMA McpStart == McpInit => McpInv
BY NoSessionOK DEF McpInit, McpInv, McpType, InPhase, NoSession, Phases

\* A step of one session, which stays in use, or leaves the list when it ends.
LEMMA OneSessionMoves ==
    ASSUME McpInv, NEW c \in Everyone, NEW s \in SessionRecords, SessionOK(s),
           session' = [session EXCEPT ![c] = s], phase' = phase,
           listed' \subseteq listed \cup {c},
           s.pc # "away" => session[c].pc # "away" \/ MayCall(c),
           s.pc = "away" => c \notin listed'
    PROVE  McpInv'
<1>1. session' \in [Everyone -> SessionRecords] /\ session'[c] = s
      /\ \A d \in Everyone : d # c => session'[d] = session[d]
  BY DEF McpInv, McpType
<1>2. McpType'
  BY <1>1 DEF McpInv, McpType
<1>3. ASSUME NEW d \in Everyone PROVE SessionOK(session[d])' /\ InPhase(d)'
  <2>1. CASE d = c
    <3>1. SessionOK(session[d])'
      BY <1>1, <2>1 DEF SessionOK
    <3>2. InPhase(c)
      BY DEF McpInv
    <3>3. InPhase(d)'
      BY <1>1, <2>1, <3>2 DEF InPhase, MayCall
    <3> QED
      BY <3>1, <3>3
  <2>2. CASE d # c
    <3>1. SessionOK(session[d]) /\ InPhase(d) /\ session'[d] = session[d]
      BY <1>1, <2>2 DEF McpInv
    <3>2. SessionOK(session[d])'
      BY <3>1 DEF SessionOK
    <3>3. InPhase(d)'
      BY <2>2, <3>1 DEF InPhase
    <3> QED
      BY <3>2, <3>3
  <2> QED
    BY <2>1, <2>2
<1> QED
  BY <1>2, <1>3 DEF McpInv

\* The same for a session that is in use and stays so.
LEMMA SessionGoesOn ==
    ASSUME McpInv, NEW c \in Everyone, session[c].pc # "away",
           NEW s \in SessionRecords, SessionOK(s), s.pc # "away",
           session' = [session EXCEPT ![c] = s], UNCHANGED <<listed, phase>>
    PROVE  McpInv'
BY OneSessionMoves

LEMMA FinishedOK ==
    ASSUME NEW s \in SessionRecords, NEW outcome \in {"answered", "ambiguous"}
    PROVE  /\ Finished(s, outcome) \in SessionRecords /\ SessionOK(Finished(s, outcome))
           /\ Finished(s, outcome).pc = "close"
<1>1. <<>> \in Seq(Items)
  OBVIOUS
<1> QED
  BY <1>1 DEF Finished, SessionRecords, SessionOK, CallPcs

\* An item of the queue leaves a session that is in use.
LEMMA ReceivedOK ==
    ASSUME NEW s \in SessionRecords, SessionOK(s), s.pc = "wait", NEW item \in Items
    PROVE  /\ Received(s, item) \in SessionRecords /\ SessionOK(Received(s, item))
           /\ Received(s, item).pc # "away"
<1>0. <<>> \in Seq(Items)
  OBVIOUS
<1>1. CASE item = "stderr" /\ StderrWithin(s)
  <2>1. PICK r : r = [s EXCEPT !.stderr = IF @ < StderrLimit THEN @ + 1 ELSE @]
    OBVIOUS
  <2>2. (IF s.stderr < StderrLimit THEN s.stderr + 1 ELSE s.stderr) \in Nat
    BY DEF SessionRecords
  <2>3. r \in SessionRecords
    BY <2>1, <2>2 DEF SessionRecords
  <2>4. SessionOK(r) /\ r.pc # "away"
    BY <2>1 DEF SessionRecords, SessionOK
  <2>5. Received(s, item) = r
    BY <1>1, <2>1 DEF Received
  <2> QED
    BY <2>3, <2>4, <2>5
<1>2. CASE item = s.asked /\ item = "initialize"
  <2>1. PICK r : r = [s EXCEPT !.pc = "call"]
    OBVIOUS
  <2>2. r \in SessionRecords /\ SessionOK(r) /\ r.pc # "away"
    BY <2>1 DEF SessionRecords, SessionOK, CallPcs
  <2>3. Received(s, item) = r
    BY <1>2, <2>1 DEF Received
  <2> QED
    BY <2>2, <2>3
<1>3. CASE item = s.asked /\ item = "call"
  <2>1. Received(s, item) = Finished(s, "answered")
    BY <1>3 DEF Received
  <2> QED
    BY <2>1, FinishedOK
<1>4. CASE item = "misfit" /\ s.asked = "call"
  <2>1. PICK r : r = [Finished(s, "invalid") EXCEPT !.misfit = TRUE]
    OBVIOUS
  <2>2. r \in SessionRecords /\ SessionOK(r) /\ r.pc # "away"
    BY <1>0, <2>1 DEF Finished, SessionRecords, SessionOK, CallPcs
  <2>3. Received(s, item) = r
    BY <1>4, <2>1 DEF Received
  <2> QED
    BY <2>2, <2>3
<1>5. CASE /\ ~(item = "stderr" /\ StderrWithin(s))
           /\ ~(item = s.asked /\ item \in {"initialize", "call"})
           /\ ~(item = "misfit" /\ s.asked = "call")
  <2>1. Received(s, item) = Failed(s)
    BY <1>5 DEF Received
  <2> QED
    BY <2>1, FinishedOK DEF Failed
<1> QED
  BY <1>1, <1>2, <1>3, <1>4, <1>5

LEMMA CallStepKeeps ==
    ASSUME McpInv, NEW c \in Everyone, CallStep(c)
    PROVE  McpInv'
<1>0. /\ session[c] \in SessionRecords /\ SessionOK(session[c])
      /\ <<>> \in Seq(Items) /\ session \in [Everyone -> SessionRecords]
  BY DEF McpInv, McpType
<1>1. CASE Register(c)
  <2>1. PICK s : s = [session[c] EXCEPT !.pc = "initialize"]
    OBVIOUS
  <2>2. s \in SessionRecords /\ SessionOK(s) /\ s.pc = "initialize" /\ session[c].pc = "spawned"
    BY <1>0, <1>1, <2>1 DEF Register, InStep, SessionRecords, SessionOK, CallPcs
  <2>3. session' = [session EXCEPT ![c] = s] /\ phase' = phase /\ listed' \subseteq listed \cup {c}
    BY <1>1, <2>1 DEF Register
  <2> QED
    BY <2>2, <2>3, OneSessionMoves
<1>2. CASE Ask(c)
  <2>1. CASE session[c].child /\ session[c].close = "open"
    <3>1. PICK s : s = [session[c] EXCEPT !.asked = session[c].pc, !.pc = "wait"]
      OBVIOUS
    <3>2. s \in SessionRecords /\ SessionOK(s) /\ s.pc = "wait" /\ session[c].pc # "away"
      BY <1>0, <1>2, <3>1 DEF Ask, SessionRecords, SessionOK, CallPcs
    <3>3. session' = [session EXCEPT ![c] = s] /\ UNCHANGED <<listed, phase>>
      BY <1>2, <2>1, <3>1 DEF Ask, Becomes
    <3> QED
      BY <3>2, <3>3, SessionGoesOn
  <2>2. CASE ~(session[c].child /\ session[c].close = "open")
    <3>1. PICK s : s = Failed(session[c])
      OBVIOUS
    <3>2. s \in SessionRecords /\ SessionOK(s) /\ s.pc # "away" /\ session[c].pc # "away"
      BY <1>0, <1>2, <3>1, FinishedOK DEF Ask, Failed
    <3>3. session' = [session EXCEPT ![c] = s] /\ UNCHANGED <<listed, phase>>
      BY <1>2, <2>2, <3>1 DEF Ask, Becomes
    <3> QED
      BY <3>2, <3>3, SessionGoesOn
  <2> QED
    BY <2>1, <2>2
<1>3. CASE TakeEvent(c)
  <2>1. PICK r : r = [session[c] EXCEPT !.events = Tail(@)]
    OBVIOUS
  <2>2. PICK item : item = Head(session[c].events)
    OBVIOUS
  <2>3. session[c].events \in Seq(Items) /\ session[c].events # <<>> /\ session[c].pc = "wait"
    BY <1>0, <1>3 DEF TakeEvent, SessionRecords
  <2>4. item \in Items /\ Tail(session[c].events) \in Seq(Items)
    BY <2>2, <2>3
  <2>5. r \in SessionRecords /\ SessionOK(r) /\ r.pc = "wait"
    BY <1>0, <2>1, <2>3, <2>4 DEF SessionRecords, SessionOK
  <2>6. PICK s : s = Received(r, item)
    OBVIOUS
  <2>7. s \in SessionRecords /\ SessionOK(s) /\ s.pc # "away"
    BY <2>4, <2>5, <2>6, ReceivedOK
  <2>8. session' = [session EXCEPT ![c] = s] /\ UNCHANGED <<listed, phase>>
    BY <1>3, <2>1, <2>2, <2>6 DEF TakeEvent, Becomes
  <2> QED
    BY <2>3, <2>7, <2>8, SessionGoesOn
<1>4. CASE Timeout(c)
  <2>1. PICK s : s = Failed(session[c])
    OBVIOUS
  <2>2. s \in SessionRecords /\ SessionOK(s) /\ s.pc # "away" /\ session[c].pc # "away"
    BY <1>0, <1>4, <2>1, FinishedOK DEF Timeout, InStep, Failed
  <2>3. session' = [session EXCEPT ![c] = s] /\ UNCHANGED <<listed, phase>>
    BY <1>4, <2>1 DEF Timeout, Becomes
  <2> QED
    BY <2>2, <2>3, SessionGoesOn
<1>5. CASE WorkerCloses(c)
  <2>1. PICK s : s = Closing(session[c], "worker")
    OBVIOUS
  <2>2. s \in SessionRecords /\ SessionOK(s) /\ s.pc # "away" /\ session[c].pc # "away"
    BY <1>0, <1>5, <2>1 DEF WorkerCloses, InStep, Closing, SessionRecords, SessionOK
  <2>3. session' = [session EXCEPT ![c] = s] /\ UNCHANGED <<listed, phase>>
    BY <1>5, <2>1 DEF WorkerCloses, Becomes
  <2> QED
    BY <2>2, <2>3, SessionGoesOn
<1>6. CASE WorkerLeaves(c)
  <2>1. PICK s : s = [NoSession EXCEPT !.outcome = session[c].outcome, !.ran = session[c].ran,
                                       !.misfit = session[c].misfit]
    OBVIOUS
  <2>2. s \in SessionRecords /\ SessionOK(s) /\ s.pc = "away"
    BY <1>0, <2>1, NoSessionOK, ZenonT(60) DEF NoSession, SessionRecords, SessionOK
  <2>3. session' = [session EXCEPT ![c] = s] /\ phase' = phase /\ listed' = listed \ {c}
    BY <1>6, <2>1 DEF WorkerLeaves, Becomes
  <2> QED
    BY <2>2, <2>3, OneSessionMoves
<1> QED
  BY <1>1, <1>2, <1>3, <1>4, <1>5, <1>6 DEF CallStep

LEMMA OthersKeep ==
    ASSUME McpInv, NEW c \in Everyone,
           \/ RefuseArguments(c) \/ (\E works \in BOOLEAN : Spawn(c, works))
           \/ Reader(c) \/ ReaderEnds(c) \/ ServerRuns(c) \/ ServerDies(c)
           \/ \E item \in {"initialize", "call", "misfit", "stderr", "garbage"} : ServerWrites(c, item)
    PROVE  McpInv'
<1>0. /\ session[c] \in SessionRecords /\ SessionOK(session[c]) /\ InPhase(c)
      /\ <<>> \in Seq(Items) /\ session \in [Everyone -> SessionRecords]
  BY DEF McpInv, McpType
<1>1. CASE RefuseArguments(c)
  <2>1. PICK s : s = [NoSession EXCEPT !.outcome = "invalid"]
    OBVIOUS
  <2>2. s \in SessionRecords /\ SessionOK(s) /\ s.pc = "away"
    BY <2>1, NoSessionOK DEF NoSession, SessionRecords, SessionOK
  <2>3. session' = [session EXCEPT ![c] = s] /\ phase' = phase /\ listed' = listed /\ c \notin listed
    BY <1>0, <1>1, <2>1 DEF RefuseArguments, Becomes, MayCall, InStep, InPhase
  <2> QED
    BY <2>2, <2>3, OneSessionMoves
<1>2. CASE \E works \in BOOLEAN : Spawn(c, works)
  <2>1. PICK works \in BOOLEAN : Spawn(c, works)
    BY <1>2
  <2>2. PICK s : s = IF works THEN [NoSession EXCEPT !.pc = "spawned", !.child = TRUE]
                     ELSE [NoSession EXCEPT !.outcome = "ambiguous"]
    OBVIOUS
  <2>3. s \in SessionRecords /\ SessionOK(s)
    BY <2>2, NoSessionOK DEF NoSession, SessionRecords, SessionOK, CallPcs
  <2>4. session' = [session EXCEPT ![c] = s] /\ phase' = phase /\ listed' = listed /\ MayCall(c)
    BY <2>1, <2>2 DEF Spawn, Becomes
  <2>5. c \notin listed
    BY <1>0, <2>4 DEF MayCall, InStep, InPhase
  <2> QED
    BY <2>3, <2>4, <2>5, OneSessionMoves
<1>3. CASE Reader(c)
  <2>1. PICK s : s = [session[c] EXCEPT !.events = @ \o session[c].pipe, !.pipe = <<>>]
    OBVIOUS
  <2>2. session[c].events \o session[c].pipe \in Seq(Items)
    BY <1>0 DEF SessionRecords
  <2>3. s \in SessionRecords /\ SessionOK(s) /\ s.pc # "away" /\ session[c].pc # "away"
    BY <1>0, <1>3, <2>1, <2>2 DEF Reader, Reading, SessionRecords, SessionOK
  <2>4. session' = [session EXCEPT ![c] = s] /\ UNCHANGED <<listed, phase>>
    BY <1>3, <2>1 DEF Reader
  <2> QED
    BY <2>3, <2>4, SessionGoesOn
<1>4. CASE ReaderEnds(c)
  <2>1. PICK s : s = [session[c] EXCEPT !.events = Append(@, "end"), !.ended = TRUE]
    OBVIOUS
  <2>2. Append(session[c].events, "end") \in Seq(Items)
    BY <1>0 DEF SessionRecords, Items
  <2>3. s \in SessionRecords /\ SessionOK(s) /\ s.pc # "away" /\ session[c].pc # "away"
    BY <1>0, <1>4, <2>1, <2>2 DEF ReaderEnds, Reading, SessionRecords, SessionOK
  <2>4. session' = [session EXCEPT ![c] = s] /\ UNCHANGED <<listed, phase>>
    BY <1>4, <2>1 DEF ReaderEnds
  <2> QED
    BY <2>3, <2>4, SessionGoesOn
<1>5. CASE ServerRuns(c)
  <2>1. PICK s : s = [session[c] EXCEPT !.ran = TRUE]
    OBVIOUS
  <2>2. s \in SessionRecords /\ SessionOK(s) /\ s.pc # "away" /\ session[c].pc # "away"
    BY <1>0, <1>5, <2>1 DEF ServerRuns, SessionRecords, SessionOK
  <2>3. session' = [session EXCEPT ![c] = s] /\ UNCHANGED <<listed, phase>>
    BY <1>5, <2>1 DEF ServerRuns
  <2> QED
    BY <2>2, <2>3, SessionGoesOn
<1>6. CASE ServerDies(c)
  <2>1. PICK s : s = [session[c] EXCEPT !.child = FALSE]
    OBVIOUS
  <2>2. s \in SessionRecords /\ SessionOK(s) /\ s.pc # "away" /\ session[c].pc # "away"
    BY <1>0, <1>6, <2>1 DEF ServerDies, SessionRecords, SessionOK
  <2>3. session' = [session EXCEPT ![c] = s] /\ UNCHANGED <<listed, phase>>
    BY <1>6, <2>1 DEF ServerDies
  <2> QED
    BY <2>2, <2>3, SessionGoesOn
<1>7. CASE \E item \in {"initialize", "call", "misfit", "stderr", "garbage"} : ServerWrites(c, item)
  <2>1. PICK item \in {"initialize", "call", "misfit", "stderr", "garbage"} : ServerWrites(c, item)
    BY <1>7
  <2>2. PICK s : s = [session[c] EXCEPT !.pipe = <<item>>]
    OBVIOUS
  <2>3. <<item>> \in Seq(Items)
    BY DEF Items
  <2>4. s \in SessionRecords /\ SessionOK(s) /\ s.pc # "away" /\ session[c].pc # "away"
    BY <1>0, <2>1, <2>2, <2>3 DEF ServerWrites, SessionRecords, SessionOK
  <2>5. session' = [session EXCEPT ![c] = s] /\ UNCHANGED <<listed, phase>>
    BY <2>1, <2>2 DEF ServerWrites
  <2> QED
    BY <2>4, <2>5, SessionGoesOn
<1> QED
  BY <1>1, <1>2, <1>3, <1>4, <1>5, <1>6, <1>7

\* The phase moves on, the sessions stay as they are.
LEMMA PhaseMoves ==
    ASSUME McpInv, UNCHANGED <<session, listed>>, phase' \in Phases,
           \A c \in Everyone : session[c].pc # "away" =>
               IF c = Installer THEN phase' = "install" ELSE phase' \in {"up", "cancelling", "draining"}
    PROVE  McpInv'
<1>1. McpType'
  BY DEF McpInv, McpType
<1>2. ASSUME NEW c \in Everyone PROVE SessionOK(session[c])' /\ InPhase(c)'
  <2>1. SessionOK(session[c]) /\ InPhase(c)
    BY DEF McpInv
  <2> QED
    BY <2>1 DEF SessionOK, InPhase
<1> QED
  BY <1>1, <1>2 DEF McpInv

LEMMA ApplicationKeeps ==
    ASSUME McpInv, Install \/ CancelAll \/ ShutdownStep \/ StartApplication
    PROVE  McpInv'
<1>0. \A c \in Everyone : InPhase(c) /\ SessionOK(session[c]) /\ session[c] \in SessionRecords
  BY DEF McpInv, McpType
<1>1. CASE Install
  BY <1>0, <1>1, PhaseMoves DEF Install, InStep, InPhase, Phases
<1>2. CASE CancelAll
  BY <1>0, <1>2, PhaseMoves DEF CancelAll, InPhase, Phases
<1>3. CASE Drain
  BY <1>0, <1>3, PhaseMoves DEF Drain, InPhase, Phases
<1>4. CASE Drained
  BY <1>0, <1>4, PhaseMoves, McpAssumption DEF Drained, InStep, InPhase, Phases, Everyone
<1>5. CASE StartApplication
  <2>1. listed = {}
    BY <1>0, <1>5 DEF StartApplication, InPhase, McpInv, McpType
  <2> QED
    BY <1>5, <2>1, NoSessionOK
       DEF StartApplication, McpInv, McpType, InPhase, NoSession, Phases
<1>6. ASSUME NEW c \in Callers, CancelOne(c) \/ CancelledOne(c) PROVE McpInv'
  <2>1. c \in Everyone /\ session \in [Everyone -> SessionRecords]
    BY DEF Everyone, McpInv, McpType
  <2>2. CASE CancelOne(c)
    <3>1. PICK s : s = Closing(session[c], "lifespan")
      OBVIOUS
    <3>2. s \in SessionRecords /\ SessionOK(s) /\ s.pc = session[c].pc
      BY <1>0, <2>1, <3>1, ZenonT(60) DEF Closing, SessionRecords, SessionOK
    <3>3. session' = [session EXCEPT ![c] = s] /\ phase' = phase /\ listed' = listed
      BY <2>2, <3>1 DEF CancelOne, Becomes
    <3>4. s.pc = "away" => c \notin listed
      BY <1>0, <2>1, <3>2 DEF InPhase
    <3> QED
      BY <2>1, <3>2, <3>3, <3>4, OneSessionMoves
  <2>3. CASE CancelledOne(c)
    <3>1. PICK s : s = [session[c] EXCEPT !.close = "closed"]
      OBVIOUS
    <3>2. s \in SessionRecords /\ SessionOK(s) /\ s.pc = session[c].pc
      BY <1>0, <2>1, <3>1, ZenonT(60) DEF SessionRecords, SessionOK
    <3>3. session' = [session EXCEPT ![c] = s] /\ phase' = phase /\ listed' = listed \ {c}
      BY <2>3, <3>1 DEF CancelledOne
    <3> QED
      BY <2>1, <3>2, <3>3, OneSessionMoves
  <2> QED
    BY <1>6, <2>2, <2>3
<1> QED
  BY <1>1, <1>2, <1>3, <1>4, <1>5, <1>6 DEF ShutdownStep

LEMMA McpStep == McpInv /\ [McpNext]_mcpVars => McpInv'
<1> SUFFICES ASSUME McpInv, [McpNext]_mcpVars PROVE McpInv'
  OBVIOUS
<1>1. CASE UNCHANGED mcpVars
  <2>1. UNCHANGED <<session, listed, phase>>
    BY <1>1 DEF mcpVars
  <2>2. phase \in Phases /\ \A c \in Everyone : InPhase(c)
    BY DEF McpInv, McpType
  <2> QED
    BY <2>1, <2>2, PhaseMoves DEF InPhase
<1>2. CASE McpNext
  BY <1>2, CallStepKeeps, OthersKeep, ApplicationKeeps DEF McpNext
<1> QED
  BY <1>1, <1>2

LEMMA McpAmongOthers ==
    /\ Init => McpInit
    /\ [Next]_vars => [McpNext]_mcpVars
BY DEF Init, Next, Settings, Bridge, Browser, Legacy, Writes, Mcp, vars

(* A stopped application has no server process and no listed session left,  *)
(* although a worker may call behind the back of cancel_all; a call that is *)
(* reported as without effect did not run its tool, but for a misfit.       *)
THEOREM McpSessionsLeaveNothing == Spec => []LeavesNothing
<1>1. McpInv => LeavesNothing
  <2> SUFFICES ASSUME McpInv PROVE LeavesNothing
    OBVIOUS
  <2>1. \A c \in Everyone : InPhase(c) /\ SessionOK(session[c]) /\ listed \subseteq Everyone
    BY DEF McpInv, McpType
  <2>2. ASSUME phase = "stopped" PROVE listed = {} /\ \A c \in Everyone : ~session[c].child
    <3>1. \A c \in Everyone : session[c].pc = "away"
      BY <2>1, <2>2 DEF InPhase
    <3>2. \A c \in Everyone : c \notin listed
      BY <2>1, <3>1 DEF InPhase
    <3>3. listed \subseteq Everyone
      BY DEF McpInv, McpType
    <3> QED
      BY <2>1, <3>1, <3>2, <3>3 DEF SessionOK
  <2>3. \A c \in Everyone : session[c].outcome = "invalid" => ~session[c].ran \/ session[c].misfit
    BY <2>1 DEF SessionOK
  <2> QED
    BY <2>2, <2>3 DEF LeavesNothing
<1> QED
  BY <1>1, McpStart, McpStep, McpAmongOthers, PTL DEF Spec

----------------------------------------------------------------------------
(* Legacy Quests: each tool runs once, in order.                           *)

LegacyErrors == {"none", "scheduling", "tool", "execution"}
StepStatuses == {"pending", "running", "completed", "failed"}
LegacyRecords == [status : {"absent", "planned", "running", "completed", "failed"},
                  error : LegacyErrors, steps : Seq(StepStatuses)]
Stepping == {"next", "tool", "succeeded", "raised"}
ThreadRecords == [pc : Stepping \cup {"none", "fail", "announce"}, at : Nat \ {0},
                  error : LegacyErrors]
RunCounts == [Positions -> Nat]

LegacyType ==
    /\ legacy \in [LegacyIds -> LegacyRecords]
    /\ thread \in [LegacyIds -> ThreadRecords]
    /\ toolRuns \in [LegacyIds -> RunCounts]
    /\ waiting \in Seq(LegacyIds)
    /\ starting \in [Starters -> LegacyIds \cup {NoStart}]

\* Nobody works on the Quest and no tool of it has run.
Unrun(t, r) == t.pc = "none" /\ \A i \in Positions : r[i] = 0

\* Tools ran once and in order, as far as the milestones l are completed.
Ordered(l, r) ==
    \A i \in Positions :
        /\ r[i] <= 1
        /\ r[i] = 1 => i <= Len(l.steps) /\ \A j \in 1..i - 1 : l.steps[j] = "completed"

\* A worker is at the first milestone that is not completed; its tool ran at most
\* just now, those after it did not.
AtWork(l, t, r) ==
    t.pc \in Stepping =>
        /\ l.status = "running"
        /\ t.at <= Len(l.steps) + 1
        /\ t.pc # "next" => t.at <= Len(l.steps)
        /\ \A j \in 1..t.at - 1 : l.steps[j] = "completed"
        /\ \A i \in Positions : i > t.at \/ (i = t.at /\ t.pc \in {"next", "tool"}) => r[i] = 0

Whole(l, short) ==
    l.status # "absent" => Len(l.steps) <= PlanLength /\ (Len(l.steps) = PlanLength \/ short)

AllDone(l) == l.status = "completed" => \A i \in 1..Len(l.steps) : l.steps[i] = "completed"

Sound(l, t, r, short) ==
    /\ Whole(l, short) /\ AllDone(l) /\ Ordered(l, r) /\ AtWork(l, t, r)
    /\ l.status \in {"absent", "planned"} => Unrun(t, r)

InLine(q) ==
    (\E i \in 1..Len(waiting) : waiting[i] = q) \/ (\E c \in Starters : starting[c] = q)

\* A claimed Quest is in line once, until its worker begins.
LineInv ==
    /\ \A i, j \in 1..Len(waiting) : waiting[i] = waiting[j] => i = j
    /\ \A c, d \in Starters : starting[c] = starting[d] /\ starting[c] # NoStart => c = d
    /\ \A c \in Starters, i \in 1..Len(waiting) : starting[c] # waiting[i]
    /\ \A q \in LegacyIds : InLine(q) => legacy[q].status = "running" /\ Unrun(thread[q], toolRuns[q])

SoundQuests == \A q \in LegacyIds : Sound(legacy[q], thread[q], toolRuns[q], q \in cut)

LegacyInv == LegacyType /\ LineInv /\ SoundQuests

LEMMA NoThreadSound ==
    /\ NoThread \in ThreadRecords
    /\ \A l, r, short, t : Sound(l, t, r, short) => Sound(l, NoThread, r, short)
<1>1. NoThread \in ThreadRecords
  BY DEF NoThread, ThreadRecords, Stepping, LegacyErrors
<1>2. ASSUME NEW l, NEW r, NEW short, NEW t, Sound(l, t, r, short) PROVE Sound(l, NoThread, r, short)
  BY <1>2 DEF NoThread, Sound, AtWork, Stepping, Unrun
<1> QED
  BY <1>1, <1>2

LEMMA PlannedRecord ==
    ASSUME NEW n \in 0..PlanLength
    PROVE  /\ Planned(n) \in LegacyRecords /\ Len(Planned(n).steps) = n
           /\ Planned(n).status = "planned"
<1>1. [i \in 1..n |-> "pending"] \in Seq(StepStatuses) /\ Len([i \in 1..n |-> "pending"]) = n
  BY DEF StepStatuses
<1> QED
  BY <1>1 DEF Planned, LegacyRecords, LegacyErrors

\* A Quest just created has run nothing.
LEMMA PlannedSound ==
    ASSUME NEW n \in 0..PlanLength, NEW t, NEW r, Unrun(t, r), NEW short \in BOOLEAN,
           n = PlanLength \/ short
    PROVE  Sound(Planned(n), t, r, short)
<1>1. Planned(n).status = "planned" /\ Len(Planned(n).steps) = n
  BY PlannedRecord
<1>2. Whole(Planned(n), short)
  BY <1>1, LegacyAssumption DEF Whole
<1>3. AllDone(Planned(n))
  BY <1>1 DEF AllDone
<1>4. Ordered(Planned(n), r) /\ AtWork(Planned(n), t, r)
  BY DEF Ordered, AtWork, Unrun, Stepping
<1> QED
  BY <1>2, <1>3, <1>4 DEF Sound

LEMMA LegacyStart == LegacyInit => LegacyInv
<1> SUFFICES ASSUME LegacyInit PROVE LegacyInv
  OBVIOUS
<1>1. <<>> \in Seq(StepStatuses) /\ <<>> \in Seq(LegacyIds) /\ Len(<<>>) = 0
  OBVIOUS
<1>2. NotCreated \in LegacyRecords
  BY <1>1 DEF NotCreated, LegacyRecords, LegacyErrors
<1>3. LegacyType
  BY <1>1, <1>2, NoThreadSound DEF LegacyInit, LegacyType, RunCounts
<1>4. LineInv
  BY <1>1, LegacyAssumption DEF LegacyInit, LineInv, InLine
<1>5. ASSUME NEW q \in LegacyIds PROVE Sound(legacy[q], thread[q], toolRuns[q], q \in cut)
  BY <1>1 DEF LegacyInit, Sound, Whole, AllDone, Ordered, AtWork, Unrun, NotCreated, NoThread, Stepping
<1> QED
  BY <1>3, <1>4, <1>5 DEF LegacyInv, SoundQuests

\* One Quest that is not in line moves.
LEMMA QuestMoves ==
    ASSUME LegacyInv, NEW q \in LegacyIds, ~InLine(q),
           NEW l \in LegacyRecords, NEW t \in ThreadRecords, NEW r \in RunCounts,
           Sound(l, t, r, q \in cut),
           legacy' = [legacy EXCEPT ![q] = l], thread' = [thread EXCEPT ![q] = t],
           toolRuns' = [toolRuns EXCEPT ![q] = r], UNCHANGED <<waiting, starting, cut>>
    PROVE  LegacyInv'
<1>1. LegacyType'
  BY DEF LegacyInv, LegacyType
<1>2. /\ legacy'[q] = l /\ thread'[q] = t /\ toolRuns'[q] = r
      /\ \A p \in LegacyIds : p # q => /\ legacy'[p] = legacy[p] /\ thread'[p] = thread[p]
                                       /\ toolRuns'[p] = toolRuns[p]
  BY DEF LegacyInv, LegacyType
<1>3. \A p : InLine(p)' <=> InLine(p)
  BY DEF InLine
<1>4. LineInv'
  BY <1>2, <1>3 DEF LegacyInv, LineInv
<1>5. SoundQuests'
  <2> SUFFICES ASSUME NEW p \in LegacyIds
               PROVE  Sound(legacy'[p], thread'[p], toolRuns'[p], p \in cut')
    BY DEF SoundQuests, Sound, Whole, AllDone, Ordered, AtWork, Unrun
  <2> QED
    BY <1>2 DEF LegacyInv, SoundQuests
<1> QED
  BY <1>1, <1>4, <1>5 DEF LegacyInv

\* A Quest with a worker is not in line.
LEMMA BusyNotInLine ==
    ASSUME LegacyInv, NEW q \in LegacyIds, thread[q].pc # "none"
    PROVE  /\ ~InLine(q) /\ legacy[q] \in LegacyRecords /\ thread[q] \in ThreadRecords
           /\ toolRuns[q] \in RunCounts
           /\ Sound(legacy[q], thread[q], toolRuns[q], q \in cut)
BY DEF LegacyInv, LegacyType, LineInv, Unrun, SoundQuests

LEMMA StepSet ==
    ASSUME NEW l \in LegacyRecords, NEW at \in 1..Len(l.steps), NEW status \in StepStatuses,
           NEW k, k = [l EXCEPT !.steps[at] = status]
    PROVE  /\ k \in LegacyRecords /\ k.status = l.status /\ Len(k.steps) = Len(l.steps)
           /\ k.steps[at] = status
           /\ \A j \in 1..Len(l.steps) : j # at => k.steps[j] = l.steps[j]
<1>1. l.steps \in Seq(StepStatuses)
  BY DEF LegacyRecords
<1>2. PICK s : s = [l.steps EXCEPT ![at] = status]
  OBVIOUS
<1>3. /\ s \in Seq(StepStatuses) /\ Len(s) = Len(l.steps) /\ s[at] = status
      /\ \A j \in 1..Len(l.steps) : j # at => s[j] = l.steps[j]
  BY <1>1, <1>2
<1>4. k = [l EXCEPT !.steps = s]
  BY <1>2
<1>5. k \in LegacyRecords /\ k.status = l.status /\ k.steps = s
  BY <1>3, <1>4 DEF LegacyRecords
<1> QED
  BY <1>3, <1>5

LEMMA NextStepKeeps == ASSUME LegacyInv, NEW q \in LegacyIds, NextStep(q) PROVE LegacyInv'
<1>1. PICK l \in LegacyRecords, t \in ThreadRecords, r \in RunCounts :
          l = legacy[q] /\ t = thread[q] /\ r = toolRuns[q]
  BY DEF LegacyInv, LegacyType
<1>2. ~InLine(q) /\ Sound(l, t, r, q \in cut) /\ t.pc = "next"
  BY <1>1, BusyNotInLine DEF NextStep
<1>3. DOMAIN l.steps = 1..Len(l.steps) /\ Len(l.steps) \in Nat
  BY DEF LegacyRecords
<1>4. t.at \in Nat \ {0}
  BY DEF ThreadRecords
<1>5. toolRuns' = [toolRuns EXCEPT ![q] = r] /\ UNCHANGED <<waiting, starting, cut>>
  BY <1>1, <1>2 DEF NextStep, SameRest, LegacyInv, LegacyType
<1>6. CASE t.at \in DOMAIN l.steps
  <2>1. PICK k : k = [l EXCEPT !.steps[t.at] = "running"]
    OBVIOUS
  <2>2. /\ k \in LegacyRecords /\ k.status = l.status /\ Len(k.steps) = Len(l.steps)
        /\ \A j \in 1..Len(l.steps) : j # t.at => k.steps[j] = l.steps[j]
    BY <1>3, <1>6, <2>1, StepSet DEF StepStatuses
  <2>3. PICK u : u = [t EXCEPT !.pc = "tool"]
    OBVIOUS
  <2>4. u \in ThreadRecords /\ u.pc = "tool" /\ u.at = t.at
    BY <2>3 DEF ThreadRecords, Stepping
  <2>5. legacy' = [legacy EXCEPT ![q] = k] /\ thread' = [thread EXCEPT ![q] = u]
    BY <1>1, <1>6, <2>1, <2>3 DEF NextStep, SetStep, Turn
  <2>6. AtWork(l, t, r) /\ Ordered(l, r) /\ Whole(l, q \in cut)
    BY <1>2 DEF Sound
  <2>7. l.status = "running" /\ (\A j \in 1..t.at - 1 : l.steps[j] = "completed")
        /\ \A i \in Positions : i >= t.at => r[i] = 0
    BY <1>2, <1>4, <2>6 DEF AtWork, Stepping, Positions
  <2>8. AtWork(k, u, r)
    BY <1>3, <1>4, <1>6, <2>2, <2>4, <2>7 DEF AtWork, Positions
  <2>9. Ordered(k, r)
    <3>1. ASSUME NEW i \in Positions, r[i] = 1 PROVE i < t.at /\ i <= Len(l.steps)
      BY <1>4, <2>6, <2>7, <3>1 DEF Ordered, Positions
    <3>2. ASSUME NEW i \in Positions, r[i] = 1, NEW j \in 1..i - 1 PROVE k.steps[j] = "completed"
      <4>1. j # t.at /\ j \in 1..Len(l.steps) /\ l.steps[j] = "completed"
        BY <1>3, <1>4, <2>6, <3>1, <3>2 DEF Ordered, Positions
      <4> QED
        BY <2>2, <4>1
    <3> QED
      BY <2>2, <2>6, <3>1, <3>2 DEF Ordered
  <2>10. Whole(k, q \in cut) /\ AllDone(k)
    BY <2>2, <2>6, <2>7 DEF Whole, AllDone
  <2>11. Sound(k, u, r, q \in cut)
    BY <2>2, <2>7, <2>8, <2>9, <2>10 DEF Sound
  <2> QED
    BY <1>2, <1>5, <2>2, <2>4, <2>5, <2>11, QuestMoves
<1>7. CASE t.at \notin DOMAIN l.steps
  <2>1. PICK k : k = [l EXCEPT !.status = "completed"]
    OBVIOUS
  <2>2. k \in LegacyRecords /\ k.status = "completed" /\ k.steps = l.steps
    BY <2>1 DEF LegacyRecords
  <2>3. PICK u : u = [t EXCEPT !.pc = "announce"]
    OBVIOUS
  <2>4. u \in ThreadRecords /\ u.pc = "announce"
    BY <2>3 DEF ThreadRecords
  <2>5. legacy' = [legacy EXCEPT ![q] = k] /\ thread' = [thread EXCEPT ![q] = u]
    BY <1>1, <1>7, <2>1, <2>3 DEF NextStep, Turn
  <2>6. AtWork(l, t, r) /\ Ordered(l, r) /\ Whole(l, q \in cut)
    BY <1>2 DEF Sound
  <2>7. t.at = Len(l.steps) + 1 /\ l.status = "running" /\ \A j \in 1..t.at - 1 : l.steps[j] = "completed"
    BY <1>2, <1>3, <1>4, <1>7, <2>6 DEF AtWork, Stepping
  <2>8. Whole(k, q \in cut) /\ Ordered(k, r)
    BY <2>2, <2>6, <2>7 DEF Whole, Ordered
  <2>9. AllDone(k)
    BY <1>3, <2>2, <2>7 DEF AllDone
  <2>10. AtWork(k, u, r)
    BY <2>4 DEF AtWork, Stepping
  <2>11. Sound(k, u, r, q \in cut)
    BY <2>2, <2>8, <2>9, <2>10 DEF Sound
  <2> QED
    BY <1>2, <1>5, <2>2, <2>4, <2>5, <2>11, QuestMoves
<1> QED
  BY <1>6, <1>7

LEMMA RunToolKeeps ==
    ASSUME LegacyInv, NEW q \in LegacyIds, NEW succeeds, RunTool(q, succeeds) PROVE LegacyInv'
<1>1. PICK l \in LegacyRecords, t \in ThreadRecords, r \in RunCounts :
          l = legacy[q] /\ t = thread[q] /\ r = toolRuns[q]
  BY DEF LegacyInv, LegacyType
<1>2. ~InLine(q) /\ Sound(l, t, r, q \in cut) /\ t.pc = "tool"
  BY <1>1, BusyNotInLine DEF RunTool
<1>3. /\ l.status = "running" /\ t.at \in 1..Len(l.steps) /\ Len(l.steps) \in Nat
      /\ t.at \in Positions /\ t.at \in Nat
      /\ \A j \in 1..t.at - 1 : l.steps[j] = "completed"
      /\ \A i \in Positions : i >= t.at => r[i] = 0
  <2>1. AtWork(l, t, r) /\ Whole(l, q \in cut) /\ Len(l.steps) \in Nat /\ t.at \in Nat \ {0}
    BY <1>2 DEF Sound, ThreadRecords, LegacyRecords
  <2>2. l.status = "running" /\ t.at \in 1..Len(l.steps)
        /\ (\A j \in 1..t.at - 1 : l.steps[j] = "completed")
        /\ \A i \in Positions : i > t.at \/ i = t.at => r[i] = 0
    BY <1>2, <2>1 DEF AtWork, Stepping
  <2>3. Len(l.steps) <= PlanLength
    BY <2>1, <2>2 DEF Whole
  <2> QED
    BY <2>1, <2>2, <2>3, LegacyAssumption DEF Positions
<1>4. PICK s : s = [r EXCEPT ![t.at] = @ + 1]
  OBVIOUS
<1>5. s \in RunCounts /\ s[t.at] = 1 /\ \A i \in Positions : i # t.at => s[i] = r[i]
  BY <1>3, <1>4 DEF RunCounts, Positions
<1>6. PICK u : u = [t EXCEPT !.pc = IF succeeds THEN "succeeded" ELSE "raised"]
  OBVIOUS
<1>7. u \in ThreadRecords /\ u.pc \in {"succeeded", "raised"} /\ u.at = t.at
  BY <1>6 DEF ThreadRecords, Stepping
<1>8. Ordered(l, s)
  <2>1. Ordered(l, r)
    BY <1>2 DEF Sound
  <2>2. ASSUME NEW i \in Positions
        PROVE  /\ s[i] <= 1
               /\ s[i] = 1 => i <= Len(l.steps) /\ \A j \in 1..i - 1 : l.steps[j] = "completed"
    <3>1. CASE i = t.at
      BY <1>3, <1>5, <3>1
    <3>2. CASE i # t.at
      BY <1>5, <2>1, <3>2 DEF Ordered
    <3> QED
      BY <3>1, <3>2
  <2> QED
    BY <2>2 DEF Ordered
<1>9. AtWork(l, u, s)
  BY <1>3, <1>5, <1>7 DEF AtWork, Stepping, Positions
<1>10. Sound(l, u, s, q \in cut)
  BY <1>2, <1>3, <1>8, <1>9 DEF Sound
<1>11. /\ legacy' = [legacy EXCEPT ![q] = l] /\ thread' = [thread EXCEPT ![q] = u]
       /\ toolRuns' = [toolRuns EXCEPT ![q] = s] /\ UNCHANGED <<waiting, starting, cut>>
  BY <1>1, <1>4, <1>6 DEF RunTool, Turn, LegacyInv, LegacyType
<1> QED
  BY <1>2, <1>5, <1>7, <1>10, <1>11, QuestMoves

LEMMA SettleStepKeeps ==
    ASSUME LegacyInv, NEW q \in LegacyIds, CompleteMilestone(q) \/ FailMilestone(q) PROVE LegacyInv'
<1>1. PICK l \in LegacyRecords, t \in ThreadRecords, r \in RunCounts :
          l = legacy[q] /\ t = thread[q] /\ r = toolRuns[q]
  BY DEF LegacyInv, LegacyType
<1>2. ~InLine(q) /\ Sound(l, t, r, q \in cut) /\ t.pc \in {"succeeded", "raised"}
  BY <1>1, BusyNotInLine DEF CompleteMilestone, FailMilestone
<1>3. /\ l.status = "running" /\ t.at \in 1..Len(l.steps) /\ Len(l.steps) \in Nat /\ t.at \in Nat
      /\ \A j \in 1..t.at - 1 : l.steps[j] = "completed"
      /\ \A i \in Positions : i > t.at => r[i] = 0
  <2>1. AtWork(l, t, r) /\ Len(l.steps) \in Nat /\ t.at \in Nat \ {0}
    BY <1>2 DEF Sound, ThreadRecords, LegacyRecords
  <2> QED
    BY <1>2, <2>1 DEF AtWork, Stepping
<1>4. PICK status \in {"completed", "failed"} :
          /\ status = IF CompleteMilestone(q) THEN "completed" ELSE "failed"
  OBVIOUS
<1>5. PICK k : k = [l EXCEPT !.steps[t.at] = status]
  OBVIOUS
<1>6. /\ k \in LegacyRecords /\ k.status = l.status /\ Len(k.steps) = Len(l.steps)
      /\ k.steps[t.at] = status
      /\ \A j \in 1..Len(l.steps) : j # t.at => k.steps[j] = l.steps[j]
  BY <1>3, <1>5, StepSet DEF StepStatuses
<1>7. Whole(k, q \in cut) /\ AllDone(k)
  BY <1>2, <1>3, <1>6 DEF Sound, Whole, AllDone
<1>8. Ordered(k, r)
  <2>1. Ordered(l, r)
    BY <1>2 DEF Sound
  <2>2. ASSUME NEW i \in Positions, r[i] = 1 PROVE i <= t.at /\ i <= Len(l.steps)
    BY <1>3, <2>1, <2>2 DEF Ordered, Positions
  <2>3. ASSUME NEW i \in Positions, r[i] = 1, NEW j \in 1..i - 1 PROVE k.steps[j] = "completed"
    <3>1. j # t.at /\ j \in 1..Len(l.steps) /\ l.steps[j] = "completed"
      BY <1>3, <2>1, <2>2, <2>3 DEF Ordered, Positions
    <3> QED
      BY <1>6, <3>1
  <2> QED
    BY <1>6, <2>1, <2>2, <2>3 DEF Ordered
<1>9. UNCHANGED <<waiting, starting, cut>> /\ toolRuns' = [toolRuns EXCEPT ![q] = r]
  BY <1>1 DEF CompleteMilestone, FailMilestone, SameRest, LegacyInv, LegacyType
<1>10. CASE CompleteMilestone(q)
  <2>1. PICK u : u = [t EXCEPT !.pc = "next", !.at = @ + 1]
    OBVIOUS
  <2>2. u \in ThreadRecords /\ u.pc = "next" /\ u.at = t.at + 1
    <3>1. PICK n \in Nat \ {0} : n = t.at + 1
      BY <1>3
    <3>2. u = [t EXCEPT !.pc = "next", !.at = n]
      BY <2>1, <3>1
    <3> QED
      BY <3>1, <3>2 DEF ThreadRecords, Stepping
  <2>3. legacy' = [legacy EXCEPT ![q] = k] /\ thread' = [thread EXCEPT ![q] = u]
    BY <1>1, <1>4, <1>5, <1>10, <2>1 DEF CompleteMilestone, SetStep
  <2>4. ASSUME NEW j \in 1..t.at PROVE k.steps[j] = "completed"
    BY <1>3, <1>4, <1>6, <1>10
  <2>5. AtWork(k, u, r)
    BY <1>3, <1>6, <2>2, <2>4 DEF AtWork, Positions
  <2>6. Sound(k, u, r, q \in cut)
    BY <1>3, <1>6, <1>7, <1>8, <2>5 DEF Sound
  <2> QED
    BY <1>2, <1>6, <1>9, <2>2, <2>3, <2>6, QuestMoves
<1>11. CASE FailMilestone(q)
  <2>1. PICK u : u = [t EXCEPT !.pc = "fail", !.error = "tool"]
    OBVIOUS
  <2>2. u \in ThreadRecords /\ u.pc = "fail"
    BY <2>1 DEF ThreadRecords, LegacyErrors
  <2>3. status = "failed"
    <3>1. t.pc = "raised"
      BY <1>1, <1>11 DEF FailMilestone
    <3> QED
      BY <1>1, <1>4, <3>1 DEF CompleteMilestone
  <2>4. legacy' = [legacy EXCEPT ![q] = k] /\ thread' = [thread EXCEPT ![q] = u]
    BY <1>1, <1>5, <1>11, <2>1, <2>3 DEF FailMilestone, SetStep, FailWith
  <2>5. AtWork(k, u, r)
    BY <2>2 DEF AtWork, Stepping
  <2>6. Sound(k, u, r, q \in cut)
    BY <1>3, <1>6, <1>7, <1>8, <2>5 DEF Sound
  <2> QED
    BY <1>2, <1>6, <1>9, <2>2, <2>4, <2>6, QuestMoves
<1> QED
  BY <1>10, <1>11

\* A worker gives up or ends: its Quest keeps its milestones.
LEMMA WorkerEnds ==
    ASSUME LegacyInv, NEW q \in LegacyIds, thread[q].pc # "none",
           NEW u \in ThreadRecords, u.pc \in {"none", "fail"},
           NEW k \in LegacyRecords, k = legacy[q] \/ (k.status = "failed" /\ k.steps = legacy[q].steps),
           legacy' = [legacy EXCEPT ![q] = k], thread' = [thread EXCEPT ![q] = u],
           UNCHANGED <<toolRuns, waiting, starting, cut>>
    PROVE  LegacyInv'
<1>1. PICK l \in LegacyRecords, t \in ThreadRecords, r \in RunCounts :
          l = legacy[q] /\ t = thread[q] /\ r = toolRuns[q]
  BY DEF LegacyInv, LegacyType
<1>2. ~InLine(q) /\ Sound(l, t, r, q \in cut) /\ l.status \notin {"absent", "planned"}
  BY <1>1, BusyNotInLine DEF Sound, Unrun
<1>3. k.steps = l.steps /\ k.status \in {l.status, "failed"}
  BY <1>1
<1>4. Whole(k, q \in cut) /\ AllDone(k) /\ Ordered(k, r)
  BY <1>2, <1>3 DEF Sound, Whole, AllDone, Ordered
<1>5. AtWork(k, u, r)
  BY DEF AtWork, Stepping
<1>6. Sound(k, u, r, q \in cut)
  BY <1>2, <1>3, <1>4, <1>5 DEF Sound
<1>7. toolRuns' = [toolRuns EXCEPT ![q] = r]
  BY <1>1 DEF LegacyInv, LegacyType
<1> QED
  BY <1>2, <1>6, <1>7, QuestMoves

LEMMA EndKeeps ==
    ASSUME LegacyInv, NEW q \in LegacyIds, FailQuest(q) \/ Announce(q) \/ Fault(q) PROVE LegacyInv'
<1>0. legacy[q] \in LegacyRecords /\ thread[q] \in ThreadRecords /\ thread[q].pc # "none"
      /\ legacy = [legacy EXCEPT ![q] = legacy[q]]
  BY DEF LegacyInv, LegacyType, FailQuest, Announce, Fault, Idle
<1>1. CASE FailQuest(q)
  <2>1. PICK k : k = [legacy[q] EXCEPT !.status = "failed", !.error = thread[q].error]
    OBVIOUS
  <2>2. k \in LegacyRecords /\ k.status = "failed" /\ k.steps = legacy[q].steps
    BY <1>0, <2>1 DEF LegacyRecords, ThreadRecords
  <2>3. legacy' = [legacy EXCEPT ![q] = k] /\ thread' = [thread EXCEPT ![q] = NoThread]
        /\ UNCHANGED <<toolRuns, waiting, starting, cut>>
    BY <1>1, <2>1 DEF FailQuest, SameRest
  <2>4. NoThread \in ThreadRecords /\ NoThread.pc = "none"
    BY NoThreadSound DEF NoThread
  <2> QED
    BY <1>0, <2>2, <2>3, <2>4, WorkerEnds
<1>2. CASE Announce(q)
  <2>1. legacy' = [legacy EXCEPT ![q] = legacy[q]] /\ thread' = [thread EXCEPT ![q] = NoThread]
        /\ UNCHANGED <<toolRuns, waiting, starting, cut>>
    BY <1>0, <1>2 DEF Announce, SameRest
  <2>2. NoThread \in ThreadRecords /\ NoThread.pc = "none"
    BY NoThreadSound DEF NoThread
  <2>3. PICK k \in LegacyRecords : k = legacy[q]
    BY <1>0
  <2> QED
    BY <1>0, <2>1, <2>2, <2>3, WorkerEnds
<1>3. CASE Fault(q)
  <2>1. PICK u : u = IF thread[q].pc = "fail" THEN NoThread
                     ELSE [thread[q] EXCEPT !.pc = "fail", !.error = "execution"]
    OBVIOUS
  <2>2. u \in ThreadRecords /\ u.pc \in {"none", "fail"}
    BY <1>0, <2>1, NoThreadSound DEF NoThread, ThreadRecords, LegacyErrors
  <2>3. legacy' = [legacy EXCEPT ![q] = legacy[q]] /\ thread' = [thread EXCEPT ![q] = u]
        /\ UNCHANGED <<toolRuns, waiting, starting, cut>>
    BY <1>0, <1>3, <2>1 DEF Fault, StaysRunning, FailWith
  <2>4. PICK k \in LegacyRecords : k = legacy[q]
    BY <1>0
  <2> QED
    BY <1>0, <2>2, <2>3, <2>4, WorkerEnds
<1> QED
  BY <1>1, <1>2, <1>3

LEMMA CreateKeeps == ASSUME LegacyInv, NEW q \in LegacyIds, CreateQuest(q) PROVE LegacyInv'
<1>1. PICK t \in ThreadRecords, r \in RunCounts : t = thread[q] /\ r = toolRuns[q]
  BY DEF LegacyInv, LegacyType
<1>2. Unrun(t, r) /\ ~InLine(q)
  BY <1>1 DEF CreateQuest, LegacyInv, SoundQuests, Sound, LineInv
<1>3. PICK k : k = Planned(PlanLength)
  OBVIOUS
<1>4. k \in LegacyRecords /\ Sound(k, t, r, q \in cut)
  <2>1. PlanLength \in 0..PlanLength
    BY LegacyAssumption
  <2>2. PICK short \in BOOLEAN : short <=> q \in cut
    OBVIOUS
  <2>3. k \in LegacyRecords /\ Sound(k, t, r, short)
    BY <1>2, <1>3, <2>1, PlannedRecord, PlannedSound
  <2> QED
    BY <2>2, <2>3 DEF Sound, Whole
<1>5. /\ legacy' = [legacy EXCEPT ![q] = k] /\ thread' = [thread EXCEPT ![q] = t]
      /\ toolRuns' = [toolRuns EXCEPT ![q] = r] /\ UNCHANGED <<waiting, starting, cut>>
  BY <1>1, <1>3 DEF CreateQuest, LegacyInv, LegacyType
<1> QED
  BY <1>2, <1>4, <1>5, QuestMoves

\* A creation cut short leaves a Quest that has run nothing.
LEMMA FaultInCreateKeeps ==
    ASSUME LegacyInv, NEW q \in LegacyIds, NEW n \in 0..PlanLength - 1, FaultInCreate(q, n)
    PROVE  LegacyInv'
<1>1. n \in 0..PlanLength
  BY LegacyAssumption
<1>2. PICK k : k = Planned(n)
  OBVIOUS
<1>3. k \in LegacyRecords
  BY <1>1, <1>2, PlannedRecord
<1>4. /\ legacy' = [legacy EXCEPT ![q] = k] /\ cut' = cut \cup {q} /\ legacy[q].status = "absent"
      /\ UNCHANGED <<thread, waiting, starting, toolRuns>>
  BY <1>2 DEF FaultInCreate, CutShort
<1>5. /\ legacy'[q] = k /\ \A p \in LegacyIds : p # q => legacy'[p] = legacy[p]
      /\ LegacyType'
  BY <1>3, <1>4 DEF LegacyInv, LegacyType
<1>6. Unrun(thread[q], toolRuns[q]) /\ ~InLine(q)
  BY <1>4 DEF LegacyInv, SoundQuests, Sound, LineInv
<1>7. \A p \in LegacyIds : InLine(p)' => InLine(p) /\ p # q
  BY <1>4, <1>6 DEF InLine
<1>8. LineInv'
  <2>1. \A p \in LegacyIds : InLine(p)' => legacy'[p].status = "running" /\ Unrun(thread[p], toolRuns[p])
    BY <1>5, <1>7 DEF LegacyInv, LineInv
  <2> QED
    BY <1>4, <2>1 DEF LegacyInv, LineInv, Unrun
<1>9. ASSUME NEW p \in LegacyIds PROVE Sound(legacy'[p], thread[p], toolRuns[p], p \in cut')
  <2>1. CASE p = q
    <3>1. Sound(Planned(n), thread[q], toolRuns[q], TRUE)
      BY <1>1, <1>6, PlannedSound
    <3> QED
      BY <1>2, <1>4, <1>5, <2>1, <3>1 DEF Sound, Whole
  <2>2. CASE p # q
    <3>1. Sound(legacy[p], thread[p], toolRuns[p], p \in cut)
      BY DEF LegacyInv, SoundQuests
    <3> QED
      BY <1>4, <1>5, <2>2, <3>1 DEF Sound, Whole
  <2> QED
    BY <2>1, <2>2
<1>10. SoundQuests'
  BY <1>4, <1>9 DEF SoundQuests, Sound, Whole, AllDone, Ordered, AtWork, Unrun
<1> QED
  BY <1>5, <1>8, <1>10 DEF LegacyInv

\* A Quest claimed for nobody has run nothing either.
LEMMA FaultInClaimKeeps ==
    ASSUME LegacyInv, NEW q \in LegacyIds, NEW c \in Starters, FaultInClaim(c, q) PROVE LegacyInv'
<1>1. PICK l \in LegacyRecords, t \in ThreadRecords, r \in RunCounts :
          l = legacy[q] /\ t = thread[q] /\ r = toolRuns[q]
  BY DEF LegacyInv, LegacyType
<1>2. /\ l.status = "planned" /\ Unrun(t, r) /\ ~InLine(q) /\ Sound(l, t, r, q \in cut)
  BY <1>1 DEF FaultInClaim, Claimable, LegacyInv, SoundQuests, Sound, LineInv
<1>3. PICK k : k = [l EXCEPT !.status = "running", !.error = "none"]
  OBVIOUS
<1>4. k \in LegacyRecords /\ k.status = "running" /\ k.steps = l.steps
  BY <1>3 DEF LegacyRecords, LegacyErrors
<1>5. Sound(k, t, r, q \in cut)
  BY <1>2, <1>4 DEF Sound, Whole, AllDone, Ordered, AtWork, Unrun, Stepping
<1>6. /\ legacy' = [legacy EXCEPT ![q] = k] /\ thread' = [thread EXCEPT ![q] = t]
      /\ toolRuns' = [toolRuns EXCEPT ![q] = r] /\ UNCHANGED <<waiting, starting, cut>>
  BY <1>1, <1>3 DEF FaultInClaim, LegacyInv, LegacyType
<1> QED
  BY <1>2, <1>4, <1>5, <1>6, QuestMoves

\* The queue: claimed, submitted, begun.
LEMMA ClaimKeeps ==
    ASSUME LegacyInv, NEW q \in LegacyIds, NEW c \in Starters, Claim(c, q) PROVE LegacyInv'
<1>0. legacy[q] \in LegacyRecords /\ legacy[q].status = "planned" /\ starting[c] = NoStart
  BY DEF LegacyInv, LegacyType, Claim, Claimable
<1>1. PICK k : k = [legacy[q] EXCEPT !.status = "running", !.error = "none"]
  OBVIOUS
<1>2. k \in LegacyRecords /\ k.status = "running" /\ k.steps = legacy[q].steps
  BY <1>0, <1>1 DEF LegacyRecords, LegacyErrors
<1>3. /\ legacy' = [legacy EXCEPT ![q] = k] /\ starting' = [starting EXCEPT ![c] = q]
      /\ UNCHANGED <<thread, toolRuns, waiting, cut>>
  BY <1>1 DEF Claim
<1>4. LegacyType'
  BY <1>2, <1>3 DEF LegacyInv, LegacyType
<1>5. /\ legacy'[q] = k /\ \A p \in LegacyIds : p # q => legacy'[p] = legacy[p]
      /\ starting'[c] = q /\ \A d \in Starters : d # c => starting'[d] = starting[d]
  BY <1>3 DEF LegacyInv, LegacyType
<1>6. Unrun(thread[q], toolRuns[q]) /\ ~InLine(q)
  BY <1>0 DEF LegacyInv, SoundQuests, Sound, LineInv
<1>7. LineInv'
  <2>1. \A i, j \in 1..Len(waiting') : waiting'[i] = waiting'[j] => i = j
    BY <1>3 DEF LegacyInv, LineInv
  <2>2. \A d \in Starters : starting[d] # q
    BY <1>6 DEF InLine
  <2>3. \A d, e \in Starters : starting'[d] = starting'[e] /\ starting'[d] # NoStart => d = e
    BY <1>5, <2>2 DEF LegacyInv, LineInv
  <2>4. \A d \in Starters, i \in 1..Len(waiting') : starting'[d] # waiting'[i]
    BY <1>3, <1>5, <1>6 DEF LegacyInv, LineInv, InLine
  <2>5. ASSUME NEW p \in LegacyIds, InLine(p)'
        PROVE  legacy'[p].status = "running" /\ Unrun(thread[p], toolRuns[p])
    <3>1. CASE p = q
      BY <1>2, <1>5, <1>6, <3>1
    <3>2. CASE p # q
      <4>1. InLine(p)
        BY <1>3, <1>5, <2>5, <3>2 DEF InLine
      <4> QED
        BY <1>5, <3>2, <4>1 DEF LegacyInv, LineInv
    <3> QED
      BY <3>1, <3>2
  <2> QED
    BY <1>3, <2>1, <2>3, <2>4, <2>5 DEF LineInv, Unrun
<1>8. ASSUME NEW p \in LegacyIds PROVE Sound(legacy'[p], thread[p], toolRuns[p], p \in cut)
  <2>1. Sound(legacy[p], thread[p], toolRuns[p], p \in cut)
    BY DEF LegacyInv, SoundQuests
  <2>2. CASE p = q
    <3>1. Whole(k, q \in cut) /\ AllDone(k) /\ Ordered(k, toolRuns[q])
      BY <1>0, <1>2, <2>1, <2>2 DEF Sound, Whole, AllDone, Ordered
    <3>2. AtWork(k, thread[q], toolRuns[q])
      BY <1>6 DEF AtWork, Unrun, Stepping
    <3> QED
      BY <1>2, <1>5, <2>2, <3>1, <3>2 DEF Sound
  <2>3. CASE p # q
    BY <1>5, <2>1, <2>3
  <2> QED
    BY <2>2, <2>3
<1>9. SoundQuests'
  BY <1>3, <1>8 DEF SoundQuests, Sound, Whole, AllDone, Ordered, AtWork, Unrun
<1> QED
  BY <1>4, <1>7, <1>9 DEF LegacyInv

\* Quests keep all they have; the queue and the claims get no longer.
LEMMA LineMoves ==
    ASSUME LegacyInv, UNCHANGED <<legacy, thread, toolRuns, cut>>, LegacyType',
           \A i, j \in 1..Len(waiting') : waiting'[i] = waiting'[j] => i = j,
           \A c, d \in Starters : starting'[c] = starting'[d] /\ starting'[c] # NoStart => c = d,
           \A c \in Starters, i \in 1..Len(waiting') : starting'[c] # waiting'[i],
           \A q \in LegacyIds : InLine(q)' => InLine(q)
    PROVE  LegacyInv'
<1>1. LineInv'
  <2>1. \A q \in LegacyIds : InLine(q)' => /\ legacy'[q].status = "running"
                                          /\ Unrun(thread'[q], toolRuns'[q])
    BY DEF LegacyInv, LineInv
  <2> QED
    BY <2>1 DEF LineInv, Unrun
<1>2. SoundQuests'
  BY DEF LegacyInv, SoundQuests, Sound, Whole, AllDone, Ordered, AtWork, Unrun
<1> QED
  BY <1>1, <1>2 DEF LegacyInv

LEMMA SubmitKeeps == ASSUME LegacyInv, NEW c \in Starters, Submit(c) PROVE LegacyInv'
<1>1. PICK q \in LegacyIds : q = starting[c]
  BY DEF Submit, LegacyInv, LegacyType
<1>2. /\ starting' = [starting EXCEPT ![c] = NoStart]
      /\ starting'[c] = NoStart /\ \A d \in Starters : d # c => starting'[d] = starting[d]
      /\ starting' \in [Starters -> LegacyIds \cup {NoStart}]
      /\ UNCHANGED <<thread, toolRuns, cut>>
  BY DEF Submit, LegacyInv, LegacyType
<1>3. /\ \A d \in Starters : d # c => starting[d] # q
      /\ \A i \in 1..Len(waiting) : waiting[i] # q /\ waiting[i] \in LegacyIds
      /\ waiting \in Seq(LegacyIds) /\ Len(waiting) \in Nat /\ q # NoStart
      /\ legacy[q].status = "running" /\ Unrun(thread[q], toolRuns[q])
  <2>1. InLine(q)
    BY <1>1 DEF InLine
  <2>2. q # NoStart
    BY LegacyAssumption
  <2> QED
    BY <1>1, <2>1, <2>2 DEF LegacyInv, LegacyType, LineInv
<1>4. CASE ~closed
  <2>1. waiting' = Append(waiting, q) /\ legacy' = legacy
    BY <1>1, <1>4 DEF Submit
  <2>2. /\ waiting' \in Seq(LegacyIds) /\ Len(waiting') = Len(waiting) + 1
        /\ waiting'[Len(waiting) + 1] = q
        /\ \A i \in 1..Len(waiting) : waiting'[i] = waiting[i]
    BY <1>3, <2>1
  <2>3. LegacyType'
    BY <1>2, <2>1, <2>2 DEF LegacyInv, LegacyType
  <2>4. \A i, j \in 1..Len(waiting') : waiting'[i] = waiting'[j] => i = j
    <3>1. \A i \in 1..Len(waiting') : i = Len(waiting) + 1 \/ i \in 1..Len(waiting)
      BY <1>3, <2>2
    <3> QED
      BY <1>3, <2>2, <3>1 DEF LegacyInv, LineInv
  <2>5. \A d, e \in Starters : starting'[d] = starting'[e] /\ starting'[d] # NoStart => d = e
    BY <1>2 DEF LegacyInv, LineInv
  <2>6. \A d \in Starters, i \in 1..Len(waiting') : starting'[d] # waiting'[i]
    <3>1. \A i \in 1..Len(waiting') : i = Len(waiting) + 1 \/ i \in 1..Len(waiting)
      BY <1>3, <2>2
    <3>2. \A i \in 1..Len(waiting') : waiting'[i] \in LegacyIds
      BY <2>2
    <3>3. ASSUME NEW d \in Starters, NEW i \in 1..Len(waiting') PROVE starting'[d] # waiting'[i]
      <4>1. CASE d = c
        BY <1>2, <3>2, <4>1, LegacyAssumption
      <4>2. CASE d # c
        <5>1. starting'[d] = starting[d] /\ starting[d] # q
          BY <1>2, <1>3, <4>2
        <5>2. CASE i = Len(waiting) + 1
          BY <2>2, <5>1, <5>2
        <5>3. CASE i \in 1..Len(waiting)
          BY <2>2, <5>1, <5>3 DEF LegacyInv, LineInv
        <5> QED
          BY <3>1, <5>2, <5>3
      <4> QED
        BY <4>1, <4>2
    <3> QED
      BY <3>3
  <2>7. \A p \in LegacyIds : InLine(p)' => InLine(p)
    <3>1. \A i \in 1..Len(waiting') : i = Len(waiting) + 1 \/ i \in 1..Len(waiting)
      BY <1>3, <2>2
    <3> QED
      BY <1>1, <1>2, <2>2, <3>1, LegacyAssumption DEF InLine
  <2> QED
    BY <1>2, <2>1, <2>3, <2>4, <2>5, <2>6, <2>7, LineMoves
<1>5. CASE closed
  <2>1. PICK k : k = [legacy[q] EXCEPT !.status = "failed", !.error = "scheduling"]
    OBVIOUS
  <2>2. k \in LegacyRecords /\ k.status = "failed" /\ k.steps = legacy[q].steps
    BY <2>1 DEF LegacyInv, LegacyType, LegacyRecords, LegacyErrors
  <2>3. legacy' = [legacy EXCEPT ![q] = k] /\ waiting' = waiting
    BY <1>1, <1>5, <2>1 DEF Submit
  <2>4. /\ legacy'[q] = k /\ \A p \in LegacyIds : p # q => legacy'[p] = legacy[p]
        /\ LegacyType'
    BY <1>2, <2>2, <2>3 DEF LegacyInv, LegacyType
  <2>5. ~InLine(q)' /\ \A p \in LegacyIds : InLine(p)' => InLine(p)
    BY <1>2, <1>3, <2>3, LegacyAssumption DEF InLine
  <2>6. LineInv'
    <3>1. \A i, j \in 1..Len(waiting') : waiting'[i] = waiting'[j] => i = j
      BY <2>3 DEF LegacyInv, LineInv
    <3>2. \A d, e \in Starters : starting'[d] = starting'[e] /\ starting'[d] # NoStart => d = e
      BY <1>2 DEF LegacyInv, LineInv
    <3>3. \A d \in Starters, i \in 1..Len(waiting') : starting'[d] # waiting'[i]
      BY <1>2, <1>3, <2>3, LegacyAssumption DEF LegacyInv, LineInv
    <3>4. \A p \in LegacyIds : InLine(p)' => /\ legacy'[p].status = "running"
                                            /\ Unrun(thread[p], toolRuns[p])
      BY <2>4, <2>5 DEF LegacyInv, LineInv
    <3> QED
      BY <1>2, <3>1, <3>2, <3>3, <3>4 DEF LineInv, Unrun
  <2>7. ASSUME NEW p \in LegacyIds PROVE Sound(legacy'[p], thread[p], toolRuns[p], p \in cut)
    <3>1. Sound(legacy[p], thread[p], toolRuns[p], p \in cut)
      BY DEF LegacyInv, SoundQuests
    <3>2. CASE p = q
      <4>1. Whole(k, q \in cut) /\ AllDone(k) /\ Ordered(k, toolRuns[q])
        BY <1>3, <2>2, <3>1, <3>2 DEF Sound, Whole, AllDone, Ordered
      <4>2. AtWork(k, thread[q], toolRuns[q])
        BY <1>3 DEF AtWork, Unrun, Stepping
      <4> QED
        BY <2>2, <2>4, <3>2, <4>1, <4>2 DEF Sound
    <3>3. CASE p # q
      BY <2>4, <3>1, <3>3
    <3> QED
      BY <3>2, <3>3
  <2>8. SoundQuests'
    BY <1>2, <2>7 DEF SoundQuests, Sound, Whole, AllDone, Ordered, AtWork, Unrun
  <2> QED
    BY <2>4, <2>6, <2>8 DEF LegacyInv
<1> QED
  BY <1>4, <1>5

\* The pool takes the first of the queue.
LEMMA TailOfLine ==
    ASSUME LegacyInv, waiting # <<>>, waiting' = Tail(waiting), UNCHANGED starting,
           NEW first, first = Head(waiting)
    PROVE  /\ first \in LegacyIds /\ waiting' \in Seq(LegacyIds)
           /\ InLine(first) /\ ~InLine(first)'
           /\ \A i, j \in 1..Len(waiting') : waiting'[i] = waiting'[j] => i = j
           /\ \A c \in Starters, i \in 1..Len(waiting') : starting'[c] # waiting'[i]
           /\ \A q \in LegacyIds : InLine(q)' => InLine(q)
<1>1. waiting \in Seq(LegacyIds) /\ Len(waiting) \in Nat \ {0}
  BY DEF LegacyInv, LegacyType
<1>2. /\ first = waiting[1] /\ first \in LegacyIds /\ waiting' \in Seq(LegacyIds)
      /\ Len(waiting') = Len(waiting) - 1
      /\ \A i \in 1..Len(waiting') : waiting'[i] = waiting[i + 1]
  BY <1>1
<1>3. \A i \in 1..Len(waiting') : i + 1 \in 1..Len(waiting) /\ i + 1 # 1
  BY <1>1, <1>2
<1>4. 1 \in 1..Len(waiting)
  BY <1>1
<1>5. InLine(first)
  BY <1>2, <1>4 DEF InLine
<1>6. ~InLine(first)'
  <2>1. \A i \in 1..Len(waiting') : waiting'[i] # first
    BY <1>2, <1>3, <1>4 DEF LegacyInv, LineInv
  <2>2. \A c \in Starters : starting'[c] # first
    BY <1>2, <1>4 DEF LegacyInv, LineInv
  <2> QED
    BY <2>1, <2>2 DEF InLine
<1>7. \A i, j \in 1..Len(waiting') : waiting'[i] = waiting'[j] => i = j
  BY <1>2, <1>3 DEF LegacyInv, LineInv
<1>8. \A c \in Starters, i \in 1..Len(waiting') : starting'[c] # waiting'[i]
  BY <1>2, <1>3 DEF LegacyInv, LineInv
<1>9. \A q \in LegacyIds : InLine(q)' => InLine(q)
  BY <1>2, <1>3 DEF InLine
<1> QED
  BY <1>2, <1>5, <1>6, <1>7, <1>8, <1>9

LEMMA BeginKeeps == ASSUME LegacyInv, Begin \/ FaultAtBegin PROVE LegacyInv'
<1>1. waiting # <<>> /\ waiting' = Tail(waiting) /\ UNCHANGED <<starting, legacy, toolRuns, cut>>
  BY DEF Begin, FaultAtBegin, ThreadFree
<1>2. \A c, d \in Starters : starting'[c] = starting'[d] /\ starting'[c] # NoStart => c = d
  BY <1>1 DEF LegacyInv, LineInv
<1>3. PICK q : q = Head(waiting)
  OBVIOUS
<1>4. CASE FaultAtBegin
  <2>1. UNCHANGED thread
    BY <1>4 DEF FaultAtBegin
  <2>2. LegacyType'
    BY <1>1, <1>3, <2>1, TailOfLine DEF LegacyInv, LegacyType
  <2> QED
    BY <1>1, <1>2, <1>3, <2>1, <2>2, TailOfLine, LineMoves
<1>5. CASE Begin
  <2>1. q \in LegacyIds /\ q = Head(waiting)
    BY <1>1, <1>3, TailOfLine
  <2>2. PICK u : u = [NoThread EXCEPT !.pc = "next"]
    OBVIOUS
  <2>3. u \in ThreadRecords /\ u.pc = "next" /\ u.at = 1
    BY <2>2 DEF NoThread, ThreadRecords, Stepping, LegacyErrors
  <2>4. thread' = [thread EXCEPT ![q] = u]
    BY <1>5, <2>1, <2>2 DEF Begin
  <2>5. thread'[q] = u /\ \A p \in LegacyIds : p # q => thread'[p] = thread[p]
    BY <2>1, <2>4 DEF LegacyInv, LegacyType
  <2>6. LegacyType'
    BY <1>1, <2>3, <2>4, TailOfLine DEF LegacyInv, LegacyType
  <2>7. ~InLine(q)' /\ InLine(q) /\ \A p \in LegacyIds : InLine(p)' => InLine(p)
    BY <1>1, <2>1, TailOfLine
  <2>8. LineInv'
    <3>1. \A p \in LegacyIds : InLine(p)' => /\ legacy'[p].status = "running"
                                            /\ Unrun(thread'[p], toolRuns'[p])
      BY <1>1, <2>5, <2>7 DEF LegacyInv, LineInv
    <3> QED
      BY <1>1, <1>2, <3>1, TailOfLine DEF LineInv, Unrun
  <2>9. ASSUME NEW p \in LegacyIds PROVE Sound(legacy[p], thread'[p], toolRuns[p], p \in cut)
    <3>1. Sound(legacy[p], thread[p], toolRuns[p], p \in cut)
      BY DEF LegacyInv, SoundQuests
    <3>2. CASE p = q
      <4>1. legacy[q].status = "running" /\ Unrun(thread[q], toolRuns[q])
        BY <2>1, <2>7 DEF LegacyInv, LineInv
      <4>2. Len(legacy[q].steps) \in Nat
        BY DEF LegacyInv, LegacyType, LegacyRecords
      <4>3. AtWork(legacy[q], u, toolRuns[q])
        BY <2>3, <4>1, <4>2 DEF AtWork, Unrun, Positions
      <4> QED
        BY <2>5, <3>1, <3>2, <4>1, <4>3 DEF Sound
    <3>3. CASE p # q
      BY <2>5, <3>1, <3>3
    <3> QED
      BY <3>2, <3>3
  <2>10. SoundQuests'
    BY <1>1, <2>9 DEF SoundQuests, Sound, Whole, AllDone, Ordered, AtWork, Unrun
  <2> QED
    BY <2>6, <2>8, <2>10 DEF LegacyInv
<1> QED
  BY <1>4, <1>5

\* The process dies: nobody is in line, nobody is at work.
LEMMA DeathKeeps ==
    ASSUME LegacyInv, LoseMemory,
           KillService \/ \E q \in LegacyIds, n \in 0..PlanLength - 1 : KillInCreate(q, n)
    PROVE  LegacyInv'
<1>1. /\ thread' = [q \in LegacyIds |-> NoThread] /\ waiting' = <<>>
      /\ starting' = [c \in Starters |-> NoStart] /\ UNCHANGED toolRuns
  BY DEF LoseMemory
<1>2. ASSUME NEW p \in LegacyIds PROVE ~InLine(p)'
  BY <1>1, LegacyAssumption DEF InLine
<1>3. LineInv'
  BY <1>1, <1>2 DEF LineInv
<1>4. \A p \in LegacyIds : thread'[p] = NoThread /\ NoThread \in ThreadRecords /\ NoThread.pc = "none"
  BY <1>1, NoThreadSound DEF NoThread
<1>5. thread' \in [LegacyIds -> ThreadRecords] /\ waiting' \in Seq(LegacyIds)
      /\ starting' \in [Starters -> LegacyIds \cup {NoStart}]
  BY <1>1, NoThreadSound
<1>6. CASE KillService
  <2>1. UNCHANGED <<legacy, cut>>
    BY <1>6 DEF KillService
  <2>2. LegacyType'
    BY <1>1, <1>5, <2>1 DEF LegacyInv, LegacyType
  <2>3. \A p \in LegacyIds : Sound(legacy[p], NoThread, toolRuns[p], p \in cut)
    BY NoThreadSound DEF LegacyInv, SoundQuests
  <2>4. SoundQuests'
    BY <1>1, <1>4, <2>1, <2>3 DEF SoundQuests, Sound, Whole, AllDone, Ordered, AtWork, Unrun
  <2> QED
    BY <1>3, <2>2, <2>4 DEF LegacyInv
<1>7. ASSUME NEW q \in LegacyIds, NEW n \in 0..PlanLength - 1, KillInCreate(q, n) PROVE LegacyInv'
  <2>1. n \in 0..PlanLength
    BY LegacyAssumption
  <2>2. PICK k : k = Planned(n)
    OBVIOUS
  <2>3. k \in LegacyRecords
    BY <2>1, <2>2, PlannedRecord
  <2>4. /\ legacy' = [legacy EXCEPT ![q] = k] /\ cut' = cut \cup {q} /\ legacy[q].status = "absent"
    BY <1>7, <2>2 DEF KillInCreate, CutShort
  <2>5. /\ legacy'[q] = k /\ \A p \in LegacyIds : p # q => legacy'[p] = legacy[p]
        /\ LegacyType'
    BY <1>1, <1>5, <2>3, <2>4 DEF LegacyInv, LegacyType
  <2>6. ASSUME NEW p \in LegacyIds PROVE Sound(legacy'[p], NoThread, toolRuns[p], p \in cut')
    <3>1. Sound(legacy[p], thread[p], toolRuns[p], p \in cut)
      BY DEF LegacyInv, SoundQuests
    <3>2. CASE p = q
      <4>1. Unrun(NoThread, toolRuns[q])
        BY <1>4, <2>4, <3>1, <3>2 DEF Sound, Unrun
      <4>2. Sound(Planned(n), NoThread, toolRuns[q], TRUE)
        BY <2>1, <4>1, PlannedSound
      <4> QED
        BY <2>2, <2>4, <2>5, <3>2, <4>2 DEF Sound, Whole
    <3>3. CASE p # q
      <4>1. Sound(legacy[p], NoThread, toolRuns[p], p \in cut)
        BY <3>1, NoThreadSound
      <4> QED
        BY <2>4, <2>5, <3>3, <4>1 DEF Sound, Whole
    <3> QED
      BY <3>2, <3>3
  <2>7. SoundQuests'
    BY <1>1, <1>4, <2>6 DEF SoundQuests, Sound, Whole, AllDone, Ordered, AtWork, Unrun
  <2> QED
    BY <1>3, <2>5, <2>7 DEF LegacyInv
<1> QED
  BY <1>6, <1>7

LEMMA LegacyStepKeeps == LegacyInv /\ [LegacyNext]_legacyVars => LegacyInv'
<1> SUFFICES ASSUME LegacyInv, [LegacyNext]_legacyVars PROVE LegacyInv'
  OBVIOUS
<1>1. ASSUME UNCHANGED <<legacy, thread, toolRuns, waiting, starting, cut>> PROVE LegacyInv'
  BY <1>1, ZenonT(60) DEF LegacyInv, LegacyType, LineInv, InLine, SoundQuests, Sound, Whole, AllDone, Ordered,
              AtWork, Unrun
<1>2. CASE UNCHANGED legacyVars
  BY <1>1, <1>2 DEF legacyVars
<1>3. CASE CloseService \/ RestartService
  BY <1>1, <1>3 DEF CloseService, RestartService
<1>4. CASE KillService
  BY <1>4, DeathKeeps DEF KillService
<1>5. ASSUME NEW q \in LegacyIds, NEW n \in 0..PlanLength - 1, KillInCreate(q, n) PROVE LegacyInv'
  BY <1>5, DeathKeeps DEF KillInCreate
<1>6. ASSUME NEW q \in LegacyIds, WorkerStep(q) PROVE LegacyInv'
  BY <1>6, NextStepKeeps, SettleStepKeeps, EndKeeps, RunToolKeeps DEF WorkerStep
<1>7. CASE LegacyProgress
  BY <1>6, <1>7, SubmitKeeps, BeginKeeps DEF LegacyProgress
<1>8. CASE FaultAtBegin
  BY <1>8, BeginKeeps
<1>9. ASSUME NEW q \in LegacyIds, CreateQuest(q) \/ Fault(q) \/ \E c \in Starters : Claim(c, q) \/ FaultInClaim(c, q)
      PROVE  LegacyInv'
  BY <1>9, CreateKeeps, EndKeeps, ClaimKeeps, FaultInClaimKeeps
<1>10. ASSUME NEW q \in LegacyIds, NEW n \in 0..PlanLength - 1, FaultInCreate(q, n) PROVE LegacyInv'
  BY <1>10, FaultInCreateKeeps
<1> QED
  BY <1>2, <1>3, <1>4, <1>5, <1>7, <1>8, <1>9, <1>10 DEF LegacyNext

LEMMA LegacyAmongOthers ==
    /\ Init => LegacyInit
    /\ [Next]_vars => [LegacyNext]_legacyVars
BY DEF Init, Next, Settings, Bridge, Browser, Legacy, Writes, Mcp, vars

(* However often a v0 Quest is started, whatever fails or dies, each of its *)
(* tools runs at most once, after the milestones before it are completed    *)
(* (claim_for_run, _execute_quest): the half of RunsOnceToAnEnd that says   *)
(* how Quests run.                                                          *)
THEOREM LegacyQuestsRunInOrder == Spec => [](\A q \in LegacyIds : RanInOrder(q))
<1>1. LegacyInv => \A q \in LegacyIds : RanInOrder(q)
  <2> SUFFICES ASSUME LegacyInv, NEW q \in LegacyIds PROVE RanInOrder(q)
    OBVIOUS
  <2>1. Sound(legacy[q], thread[q], toolRuns[q], q \in cut)
    BY DEF LegacyInv, SoundQuests
  <2>2. DOMAIN legacy[q].steps = 1..Len(legacy[q].steps)
    BY DEF LegacyInv, LegacyType, LegacyRecords
  <2> QED
    BY <2>1, <2>2 DEF Sound, Whole, AllDone, Ordered, RanInOrder
<1> QED
  BY <1>1, LegacyStart, LegacyStepKeeps, LegacyAmongOthers, PTL DEF Spec
=============================================================================
