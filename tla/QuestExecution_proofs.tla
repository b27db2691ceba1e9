----------------------- MODULE QuestExecution_proofs -----------------------
(***************************************************************************)
(* Theorems about QuestExecution, for every plan, every number of workers  *)
(* and clients and every bound: type correctness, the budget, the evidence *)
(* behind completed milestones and the approval behind risky tools; one    *)
(* executor until a lease runs out; and, for one client at a time, that a  *)
(* stopped Quest is quiet, an ended one stays ended and a completed        *)
(* milestone stays completed.                                              *)
(*                                                                         *)
(* A worker decides on a projection it read earlier.  What makes this safe *)
(* is that its decision can only be appended while the read is fresh, so   *)
(* the invariant says of every fresh worker that its decision still fits.  *)
(***************************************************************************)
EXTENDS QuestExecution, TLAPS

(* The worker points at which a decision is waiting to be appended.         *)
Decided == {"start", "replan", "newplan", "store"}

(* A stopped process has no thread with a read to act upon.                 *)
DownStale == ~up => \A t \in Threads : ~fresh[t]

(* The step that is about to be recorded still fits ...                     *)
StepFits == \A w \in Workers : wk[w].pc = "start" /\ fresh[w] => ~OverBudget(wk[w].m)

(* ... and so does the replan.                                              *)
ReplanFits ==
  \A w \in Workers : wk[w].pc = "replan" /\ fresh[w] => q.replans < MaxReplans

(* Every plan version but the first was paid for by a replan or a modified  *)
(* contract; a worker that may store one has paid in advance.               *)
PlanPaid ==
  /\ modifies <= MaxModifies
  /\ q.plan <= 1 + q.replans + modifies
  /\ \A w \in Workers :
       /\ wk[w].seen.plan <= q.plan
       /\ wk[w].pc \in {"newplan", "store"} /\ wk[w].seen.plan = q.plan
            => q.plan <= q.replans + modifies

BudgetInv == BudgetKept /\ DownStale /\ StepFits /\ ReplanFits /\ PlanPaid

IInv == TypeOK /\ BudgetInv

(* Every variable but the projection and the threads.                       *)
TablesOK ==
  /\ receipt \in Receipts
  /\ approved \subseteq Ms \X Plans
  /\ stall \in 0 .. Threshold
  /\ base \in BOOLEAN
  /\ lease \in Leases
  /\ queue \in Nat
  /\ rq \in [Clients -> RequestPcs]
  /\ up \in BOOLEAN
  /\ {pauses, resumes, modifies, crashes, expiries} \subseteq Nat

(* A step that neither spends nor renumbers anything ...                    *)
SameBudget(new) ==
  /\ new \in Quests
  /\ new.steps = q.steps /\ new.replans = q.replans /\ new.plan = q.plan

(* ... reads, appends, or lets others append;                               *)
QStep(t) ==
  \/ UNCHANGED <<q, fresh>>
  \/ UNCHANGED q /\ Read(t)
  \/ UNCHANGED q /\ fresh' = [u \in Threads |-> FALSE]
  \/ \E new : SameBudget(new) /\ (Append(t, new) \/ AppendAndHold(t, new))

(* ... and moves at most the thread that takes it, away from a decision.    *)
Moved(t) ==
  /\ wk' \in [Workers -> WorkerStates]
  /\ \A v \in Workers : v # t => wk'[v] = wk[v]
  /\ t \in Workers => wk'[t].pc \notin Decided /\ wk'[t].seen.plan <= q.plan

------------------------------------------------------------------------------
(* Such a step keeps the invariant.                                         *)

LEMMA QStepType ==
  ASSUME IInv, NEW t \in Threads, QStep(t)
  PROVE  /\ q' \in Quests /\ fresh' \in [Threads -> BOOLEAN]
         /\ q'.steps = q.steps /\ q'.replans = q.replans /\ q'.plan = q.plan
         /\ \A u \in Threads : u # t /\ fresh'[u] => q' = q /\ fresh[u]
BY DEF IInv, TypeOK, QStep, Read, Append, AppendAndHold, SameBudget

LEMMA PlainStep ==
  ASSUME IInv, NEW t \in Threads, QStep(t), Moved(t), TablesOK', up, up',
         UNCHANGED modifies
  PROVE  IInv'
<1>1. TypeOK'
  BY QStepType DEF TypeOK, TablesOK, Moved
<1>2. BudgetKept' /\ DownStale'
  BY QStepType DEF IInv, BudgetInv, BudgetKept, DownStale
<1>3. \A v \in Workers : v # t => wk'[v] = wk[v] /\ (fresh'[v] => q' = q /\ fresh[v])
  BY QStepType DEF Moved, Threads
<1>4. t \in Workers => wk'[t].pc \notin Decided /\ wk'[t].seen.plan <= q.plan
  BY DEF Moved
<1>5. StepFits'
  BY <1>3, <1>4 DEF IInv, BudgetInv, StepFits, OverBudget, Decided
<1>6. ReplanFits'
  BY <1>3, <1>4 DEF IInv, BudgetInv, ReplanFits, Decided
<1>7. PlanPaid'
  BY <1>3, <1>4, QStepType DEF IInv, BudgetInv, PlanPaid, Decided
<1> QED
  BY <1>1, <1>2, <1>5, <1>6, <1>7 DEF IInv, BudgetInv

LEMMA GotoMoves ==
  ASSUME IInv, NEW w \in Workers, NEW l \in WorkerPcs \ Decided, Goto(w, l)
  PROVE  Moved(w)
<1>1. wk \in [Workers -> WorkerStates] /\ wk[w].seen.plan <= q.plan
  BY DEF IInv, TypeOK, BudgetInv, PlanPaid
<1>2. [wk[w] EXCEPT !.pc = l] \in WorkerStates
  BY <1>1 DEF WorkerStates
<1> QED
  BY <1>1, <1>2 DEF Goto, Moved, WorkerStates

LEMMA TablesKept ==
  ASSUME IInv, UNCHANGED <<tables, sched>>
  PROVE  TablesOK' /\ UNCHANGED <<up, modifies>>
BY DEF IInv, TypeOK, TablesOK, tables, sched, bounds, calls

(* The patches of the events that spend nothing.                            *)
LEMMA Patches ==
  ASSUME IInv, NEW s \in Statuses
  PROVE  /\ SameBudget([q EXCEPT !.status = s])
         /\ SameBudget([q EXCEPT !.status = s, !.pause = FALSE])
         /\ SameBudget([q EXCEPT !.pause = TRUE])
         /\ \A e \in {"none", "tool", "runtime", "user"} :
              SameBudget([q EXCEPT !.status = s, !.error = e])
BY DEF IInv, TypeOK, Quests, SameBudget

LEMMA MilestonePatches ==
  ASSUME IInv, NEW s \in Statuses, NEW m \in Ms \cup {NoM}, NEW x \in MsStatuses
  PROVE  /\ SameBudget([q EXCEPT !.status = s, !.ms[m] = x])
         /\ SameBudget([q EXCEPT !.status = s, !.ms[m] = x, !.error = "tool"])
         /\ SameBudget([q EXCEPT !.status = s, !.pend = m])
BY DEF IInv, TypeOK, Quests, SameBudget

LEMMA WorkerStep ==
  ASSUME IInv, NEW w \in Workers, NEW l \in WorkerPcs \ Decided, Goto(w, l),
         QStep(w), up, UNCHANGED <<tables, sched>>
  PROVE  IInv'
<1>1. w \in Threads /\ Moved(w)
  BY GotoMoves DEF Threads
<1>2. TablesOK' /\ UNCHANGED <<up, modifies>>
  BY TablesKept
<1> QED
  BY <1>1, <1>2, PlainStep

(* An event of a worker that spends nothing, appended or refused.           *)
LEMMA AppendingStep ==
  ASSUME IInv, NEW w \in Workers, NEW new, SameBudget(new),
         NEW l \in WorkerPcs \ Decided, NEW r \in WorkerPcs \ Decided,
         \/ Append(w, new) /\ Goto(w, l)
         \/ Conflict(w) /\ Goto(w, r),
         up, UNCHANGED <<tables, sched>>
  PROVE  IInv'
<1>1. QStep(w)
  BY DEF QStep, Conflict
<1> QED
  BY <1>1, WorkerStep

LEMMA AppendingSteps ==
  ASSUME IInv, NEW w \in Workers,
         Pause(w) \/ Exhaust(w) \/ RequireApproval(w) \/ ToolFailed(w) \/
         ToolEffectUnknown(w) \/ StartVerification(w) \/ NeedUser(w) \/
         Finalize(w) \/ Complete(w) \/ FinalNeedsUser(w) \/ FailQuest(w)
  PROVE  IInv'
<1>1. /\ {"exit", "error", "loop", "verify", "final"} \subseteq WorkerPcs \ Decided
      /\ {"paused", "budget_exhausted", "waiting_user", "failed", "verifying",
          "completed"} \subseteq Statuses
      /\ {"failed", "verifying"} \subseteq MsStatuses
      /\ wk[w].m \in Ms \cup {NoM}
  BY DEF WorkerPcs, Admitted, Decided, Statuses, Active, TerminalStatus, MsStatuses,
         IInv, TypeOK, WorkerStates
<1>2. CASE Pause(w)
  <2>1. SameBudget([q EXCEPT !.status = "paused", !.pause = FALSE])
    BY <1>1, Patches
  <2> QED
    BY <1>1, <1>2, <2>1, AppendingStep DEF Pause, At
<1>3. CASE Exhaust(w)
  <2>1. SameBudget([q EXCEPT !.status = "budget_exhausted"])
    BY <1>1, Patches
  <2> QED
    BY <1>1, <1>3, <2>1, AppendingStep DEF Exhaust, At
<1>4. CASE RequireApproval(w)
  <2>1. SameBudget([q EXCEPT !.status = "waiting_user", !.pend = wk[w].m])
    BY <1>1, MilestonePatches
  <2> QED
    BY <1>1, <1>4, <2>1, AppendingStep DEF RequireApproval, Retry, At
<1>5. CASE ToolFailed(w)
  <2>1. SameBudget([q EXCEPT !.status = "failed",
                    !.ms[wk[w].m] = "failed", !.error = "tool"])
    BY <1>1, MilestonePatches
  <2> QED
    BY <1>1, <1>5, <2>1, AppendingStep DEF ToolFailed, Retry, At
<1>6. CASE ToolEffectUnknown(w)
  <2>1. SameBudget([q EXCEPT !.status = "paused"])
    BY <1>1, Patches
  <2> QED
    BY <1>1, <1>6, <2>1, AppendingStep DEF ToolEffectUnknown, Retry, At
<1>7. CASE StartVerification(w)
  <2>1. SameBudget([q EXCEPT !.status = "verifying",
                    !.ms[wk[w].m] = "verifying"])
    BY <1>1, MilestonePatches
  <2> QED
    BY <1>1, <1>7, <2>1, AppendingStep DEF StartVerification, Retry, At
<1>8. CASE NeedUser(w)
  <2>1. SameBudget([q EXCEPT !.status = "waiting_user"])
    BY <1>1, Patches
  <2> QED
    BY <1>1, <1>8, <2>1, AppendingStep DEF NeedUser, Retry, At
<1>9. CASE Finalize(w)
  <2>1. SameBudget([q EXCEPT !.status = "verifying"])
    BY <1>1, Patches
  <2> QED
    BY <1>1, <1>9, <2>1, AppendingStep DEF Finalize, At
<1>10. CASE Complete(w)
  <2>1. SameBudget([q EXCEPT !.status = "completed", !.error = "none"])
    BY <1>1, Patches
  <2> QED
    BY <1>1, <1>10, <2>1, AppendingStep DEF Complete, At
<1>11. CASE FinalNeedsUser(w)
  <2>1. SameBudget([q EXCEPT !.status = "waiting_user"])
    BY <1>1, Patches
  <2> QED
    BY <1>1, <1>11, <2>1, AppendingStep DEF FinalNeedsUser, At
<1>12. CASE FailQuest(w)
  <2>1. SameBudget([q EXCEPT !.status = "failed", !.error = "runtime"])
    BY <1>1, Patches
  <2> QED
    BY <1>1, <1>12, <2>1, AppendingStep DEF FailQuest, At
<1> QED
  BY <1>2, <1>3, <1>4, <1>5, <1>6, <1>7, <1>8, <1>9, <1>10, <1>11, <1>12

------------------------------------------------------------------------------
(* The other steps of a worker that come to no decision.                    *)

LEMMA ReadingStep ==
  ASSUME IInv, NEW w \in Workers, NEW from, NEW to \in WorkerPcs \ Decided,
         ReadOn(w, from, to)
  PROVE  IInv'
<1>1. "exit" \in WorkerPcs \ Decided
  BY DEF WorkerPcs, Decided
<1>2. QStep(w) /\ up /\ UNCHANGED <<tables, sched>>
  BY DEF ReadOn, QStep, At
<1> QED
  BY <1>1, <1>2, WorkerStep DEF ReadOn

LEMMA ReadingSteps ==
  ASSUME IInv, NEW w \in Workers,
         \/ Begin(w) \/ AskRead(w) \/ InDoubt(w) \/ After(w) \/ LoopRead(w) \/ FinalVerify(w)
         \/ UnexpectedFailure(w)
  PROVE  IInv'
<1>1. {"pause", "admit", "error", "approval", "unknown", "failed", "verifying",
       "stuck", "complete", "final_user", "exhaust", "exit", "fail"}
        \subseteq WorkerPcs \ Decided
  BY DEF WorkerPcs, Admitted, Decided
<1>2. CASE Begin(w)
  <2>1. QStep(w) /\ up /\ UNCHANGED <<tables, sched>>
    BY <1>2 DEF Begin, QStep, At
  <2> QED
    BY <1>1, <1>2, <2>1, WorkerStep DEF Begin
<1>3. CASE AskRead(w)
  BY <1>1, <1>3, ReadingStep DEF AskRead
<1>4. CASE After(w)
  <2> DEFINE to == CASE Gone(w) -> "error"
                     [] ~Gone(w) /\ ReceiptOf(w) = "failed" -> "failed"
                     [] OTHER -> "verifying"
  <2>1. to \in {"error", "failed", "verifying"}
    OBVIOUS
  <2>2. ReadOn(w, "after", to)
    BY <1>4 DEF After
  <2> HIDE DEF to
  <2> QED
    BY <1>1, <2>1, <2>2, ReadingStep
<1>5. CASE LoopRead(w)
  BY <1>1, <1>5, ReadingStep DEF LoopRead
<1>6. CASE FinalVerify(w)
  <2>1. QStep(w) /\ up /\ UNCHANGED <<tables, sched>>
    BY <1>6 DEF FinalVerify, QStep, At
  <2> QED
    BY <1>1, <1>6, <2>1, WorkerStep DEF FinalVerify
<1>7. CASE UnexpectedFailure(w)
  <2>1. QStep(w) /\ up /\ UNCHANGED <<tables, sched>>
    BY <1>7 DEF UnexpectedFailure, QStep, At
  <2> QED
    BY <1>1, <1>7, <2>1, WorkerStep DEF UnexpectedFailure
<1>8. CASE InDoubt(w)
  BY <1>1, <1>8, ReadingStep DEF InDoubt
<1> QED
  BY <1>2, <1>3, <1>4, <1>5, <1>6, <1>7, <1>8

(* A worker's step that also writes a table.                                *)
LEMMA WritingStep ==
  ASSUME IInv, NEW w \in Workers, QStep(w), TablesOK', up, UNCHANGED <<up, modifies>>,
         \/ \E l \in WorkerPcs \ Decided : Goto(w, l)
         \/ \E l \in {"idle", "begin"} :
              wk' = [wk EXCEPT ![w] = [Resting EXCEPT !.pc = l]]
  PROVE  IInv'
<1>1. w \in Threads
  BY DEF Threads
<1>2. CASE \E l \in WorkerPcs \ Decided : Goto(w, l)
  BY <1>1, <1>2, GotoMoves, PlainStep
<1>3. CASE \E l \in {"idle", "begin"} :
             wk' = [wk EXCEPT ![w] = [Resting EXCEPT !.pc = l]]
  <2>1. PICK l \in {"idle", "begin"} :
          wk' = [wk EXCEPT ![w] = [Resting EXCEPT !.pc = l]]
    BY <1>3
  <2>2. 0 \in Plans
    BY QuestAssumption DEF Plans, QuestAssumption
  <2>3. [Resting EXCEPT !.pc = l] \in WorkerStates
    BY <2>1, <2>2 DEF Resting, NoPlan, NoM, WorkerStates, Seen, WorkerPcs
  <2>4. wk \in [Workers -> WorkerStates] /\ q.plan \in Nat
    BY DEF IInv, TypeOK, Quests
  <2>5. Moved(w)
    BY <2>1, <2>3, <2>4 DEF Moved, Resting, NoPlan, Decided
  <2> QED
    BY <1>1, <2>5, PlainStep
<1> QED
  BY <1>2, <1>3

LEMMA ReceiptSet ==
  ASSUME IInv, NEW m, NEW p, NEW s \in {"none", "open", "committed", "failed", "unknown"},
         SetReceipt(m, p, s)
  PROVE  receipt' \in Receipts
BY DEF IInv, TypeOK, Receipts, SetReceipt

LEMMA WritingSteps ==
  ASSUME IInv, NEW w \in Workers,
         \/ TakeTask(w) \/ Admit(w) \/ Baseline(w) \/ Prepare(w) \/ RunTool(w)
         \/ MilestoneVerified(w) \/ Exit(w)
  PROVE  IInv'
<1>1. {"baseline", "exit", "error", "loop", "run", "doubt", "after"} \subseteq WorkerPcs \ Decided
  BY DEF WorkerPcs, Admitted, Decided
<1>2. TablesOK
  BY DEF IInv, TypeOK, TablesOK
<1>3. up /\ UNCHANGED <<up, modifies>>
  BY DEF TakeTask, Admit, Baseline, Prepare, RunTool,
         MilestoneVerified, Exit, At, sched, bounds
<1>4. CASE TakeTask(w)
  <2>1. TablesOK'
    BY <1>2, <1>4 DEF TakeTask, TablesOK, tables, bounds, calls
  <2> QED
    BY <1>2, <1>3, <1>4, <2>1, WritingStep DEF TakeTask, QStep
<1>5. CASE Admit(w)
  <2>1. TablesOK'
    <3>1. lease' = [owner |-> w, live |-> TRUE] \/ lease' = lease
      BY <1>5 DEF Admit
    <3>2. lease \in Leases /\ [owner |-> w, live |-> TRUE] \in Leases
      BY <1>2 DEF TablesOK, Leases
    <3>3. lease' \in Leases
      BY <3>1, <3>2
    <3>4. UNCHANGED <<tables, queue, rq, bounds>>
      BY <1>5 DEF Admit
    <3> QED
      BY <1>2, <3>3, <3>4 DEF TablesOK, tables, bounds, calls
  <2>2. SameBudget([q EXCEPT !.status = "running", !.error = "none"])
    BY Patches DEF Statuses, Active
  <2>3. QStep(w)
    BY <1>5, <2>2 DEF Admit, QStep, Conflict
  <2> QED
    BY <1>1, <1>2, <1>3, <1>5, <2>1, <2>3, WritingStep DEF Admit
<1>6. CASE Baseline(w)
  <2>1. TablesOK'
    BY <1>2, <1>6 DEF Baseline, TablesOK, sched, bounds, calls
  <2> QED
    BY <1>1, <1>2, <1>3, <1>6, <2>1, WritingStep DEF Baseline, QStep
<1>7. CASE Prepare(w)
  <2>1. receipt' \in Receipts
    BY <1>2, <1>7, ReceiptSet DEF Prepare, TablesOK
  <2>2. TablesOK'
    BY <1>2, <1>7, <2>1 DEF Prepare, TablesOK, sched, bounds, calls
  <2> QED
    BY <1>1, <1>2, <1>3, <1>7, <2>2, WritingStep DEF Prepare, QStep
<1>8. CASE RunTool(w)
  <2>1. receipt' \in Receipts
    BY <1>2, <1>8, ReceiptSet DEF RunTool, TablesOK
  <2>2. TablesOK'
    BY <1>2, <1>8, <2>1 DEF RunTool, TablesOK, sched, bounds, calls
  <2> QED
    BY <1>1, <1>2, <1>3, <1>8, <2>2, WritingStep DEF RunTool, QStep
<1>9. CASE MilestoneVerified(w)
  <2>1. Threshold \in Nat
    BY QuestAssumption DEF QuestAssumption
  <2>2. TablesOK'
    BY <1>2, <1>9, <2>1 DEF MilestoneVerified, TablesOK, sched, bounds, calls
  <2>3. SameBudget([q EXCEPT !.status = "running", !.ms[wk[w].m] = "completed"])
    BY MilestonePatches DEF Statuses, Active, MsStatuses, IInv, TypeOK, WorkerStates
  <2>4. QStep(w)
    BY <1>9, <2>3 DEF MilestoneVerified, QStep, Retry, Conflict
  <2> QED
    BY <1>1, <1>2, <1>3, <1>9, <2>2, <2>4, WritingStep DEF MilestoneVerified, Retry
<1>10. CASE Exit(w)
  <2>1. TablesOK'
    BY <1>2, <1>10 DEF Exit, TablesOK, Leases, NoLease, tables, bounds, calls
  <2>2. wk' = [wk EXCEPT ![w] = [Resting EXCEPT !.pc = "idle"]]
    BY <1>10 DEF Exit, Resting
  <2>3. QStep(w)
    BY <1>10 DEF Exit, QStep
  <2> QED
    BY <1>2, <1>3, <2>1, <2>2, <2>3, WritingStep
<1> QED
  BY <1>4, <1>5, <1>6, <1>7, <1>8, <1>9, <1>10

------------------------------------------------------------------------------
(* The steps that decide, and those that spend.                             *)

(* What must hold of a worker that has just decided.                        *)
Fits(w) ==
  /\ wk'[w].pc = "start" /\ fresh'[w] => ~OverBudget(wk'[w].m)
  /\ wk'[w].pc = "replan" /\ fresh'[w] => q.replans < MaxReplans
  /\ wk'[w].seen.plan <= q.plan
  /\ wk'[w].pc \in {"newplan", "store"} /\ wk'[w].seen.plan = q.plan
       => q.plan <= q.replans + modifies

LEMMA DecisionStep ==
  ASSUME IInv, NEW w \in Workers, UNCHANGED q, Read(w) \/ UNCHANGED fresh,
         TablesOK', up, UNCHANGED <<up, modifies>>,
         wk' \in [Workers -> WorkerStates],
         \A v \in Workers : v # w => wk'[v] = wk[v],
         Fits(w)
  PROVE  IInv'
<1>1. QStep(w) /\ w \in Threads
  BY DEF QStep, Threads
<1>2. TypeOK'
  BY <1>1, QStepType DEF TypeOK, TablesOK
<1>3. BudgetKept' /\ DownStale'
  BY DEF IInv, BudgetInv, BudgetKept, DownStale
<1>4. \A v \in Workers : v # w => wk'[v] = wk[v] /\ (fresh'[v] => fresh[v])
  BY <1>1, QStepType DEF Threads
<1>5. StepFits'
  BY <1>4 DEF IInv, BudgetInv, StepFits, OverBudget, Fits
<1>6. ReplanFits'
  BY <1>4 DEF IInv, BudgetInv, ReplanFits, Fits
<1>7. PlanPaid'
  BY <1>4 DEF IInv, BudgetInv, PlanPaid, Fits
<1> QED
  BY <1>2, <1>3, <1>5, <1>6, <1>7 DEF IInv, BudgetInv

(* A step after which no decision is left standing.                         *)
LEMMA SpendingStep ==
  ASSUME q' \in Quests, TablesOK', wk' \in [Workers -> WorkerStates],
         fresh' \in [Threads -> BOOLEAN], BudgetKept', DownStale', PlanPaid',
         \A v \in Workers : fresh'[v] => wk'[v].pc \notin {"start", "replan"}
  PROVE  IInv'
BY DEF IInv, BudgetInv, TypeOK, TablesOK, StepFits, ReplanFits

LEMMA LoopStep ==
  ASSUME IInv, NEW w \in Workers, Loop(w)
  PROVE  IInv'
<1>1. {"exit", "pause", "finalize", "fail", "exhaust"} \subseteq WorkerPcs \ Decided
  BY DEF WorkerPcs, Admitted, Decided
<1>2. up /\ UNCHANGED <<q, tables, sched>> /\ TablesOK' /\ UNCHANGED <<up, modifies>>
  BY TablesKept DEF Loop, At
<1>3. Read(w) \/ UNCHANGED fresh
  BY DEF Loop
<1>4. QStep(w)
  BY <1>2, <1>3 DEF QStep
<1>5. \/ \E l \in WorkerPcs \ Decided : Goto(w, l)
      \/ \E m \in Ms :
           wk' = [wk EXCEPT ![w] = [@ EXCEPT !.m = m, !.p = q.num[m],
                    !.pc = IF OverBudget(m) THEN "exhaust" ELSE "start"]]
  BY <1>1 DEF Loop
<1>6. CASE \E l \in WorkerPcs \ Decided : Goto(w, l)
  BY <1>2, <1>4, <1>6, WorkerStep
<1>7. CASE \E m \in Ms :
             wk' = [wk EXCEPT ![w] = [@ EXCEPT !.m = m, !.p = q.num[m],
                      !.pc = IF OverBudget(m) THEN "exhaust" ELSE "start"]]
  <2>1. PICK m \in Ms :
          wk' = [wk EXCEPT ![w] = [@ EXCEPT !.m = m, !.p = q.num[m],
                   !.pc = IF OverBudget(m) THEN "exhaust" ELSE "start"]]
    BY <1>7
  <2> DEFINE l == IF OverBudget(m) THEN "exhaust" ELSE "start"
  <2>2. l \in {"exhaust", "start"} /\ (l = "start" => ~OverBudget(m))
    OBVIOUS
  <2>3. wk' = [wk EXCEPT ![w] = [@ EXCEPT !.m = m, !.p = q.num[m], !.pc = l]]
    BY <2>1
  <2> HIDE DEF l
  <2>4. {"exhaust", "start"} \subseteq WorkerPcs
    BY DEF WorkerPcs, Admitted
  <2>5. wk \in [Workers -> WorkerStates] /\ q.num[m] \in Plans
        /\ wk[w].seen.plan <= q.plan
    BY DEF IInv, TypeOK, Quests, BudgetInv, PlanPaid
  <2>6. wk' \in [Workers -> WorkerStates]
    BY <2>2, <2>3, <2>4, <2>5 DEF WorkerStates
  <2>7. \A v \in Workers : v # w => wk'[v] = wk[v]
    BY <2>3, <2>5
  <2>8. wk'[w].pc = l /\ wk'[w].m = m /\ wk'[w].seen = wk[w].seen
    BY <2>3, <2>5 DEF WorkerStates
  <2>9. Fits(w)
    BY <2>2, <2>5, <2>8 DEF Fits
  <2> QED
    BY <1>2, <1>3, <2>6, <2>7, <2>9, DecisionStep
<1> QED
  BY <1>5, <1>6, <1>7

LEMMA PlanReadStep ==
  ASSUME IInv, NEW w \in Workers, PlanRead(w)
  PROVE  IInv'
<1>1. /\ up /\ wk[w].pc = "newplan"
      /\ UNCHANGED q /\ TablesOK' /\ UNCHANGED <<up, modifies>>
  BY TablesKept DEF PlanRead, ReadOn, At
<1>2. Read(w) \/ UNCHANGED fresh
  BY DEF PlanRead, ReadOn
<1>3. PICK l \in {"exit", "store"} : Goto(w, l)
  BY DEF PlanRead, ReadOn
<1>4. {"exit", "store"} \subseteq WorkerPcs
  BY DEF WorkerPcs, Admitted
<1>5. wk \in [Workers -> WorkerStates]
  BY DEF IInv, TypeOK
<1>6. wk' \in [Workers -> WorkerStates] /\ \A v \in Workers : v # w => wk'[v] = wk[v]
  BY <1>3, <1>4, <1>5 DEF Goto, WorkerStates
<1>7. wk'[w].pc = l /\ wk'[w].seen = wk[w].seen
  BY <1>3, <1>5 DEF Goto, WorkerStates
<1>8. Fits(w)
  BY <1>1, <1>7 DEF Fits, IInv, BudgetInv, PlanPaid
<1> QED
  BY <1>1, <1>2, <1>6, <1>8, DecisionStep

LEMMA HeartbeatStep ==
  ASSUME IInv, NEW w \in Workers, HeartbeatLost(w)
  PROVE  IInv'
<1>1. up /\ UNCHANGED <<q, fresh>> /\ TablesOK' /\ UNCHANGED <<up, modifies>>
  BY TablesKept DEF HeartbeatLost
<1>2. wk \in [Workers -> WorkerStates]
  BY DEF IInv, TypeOK
<1>3. wk' \in [Workers -> WorkerStates] /\ \A v \in Workers : v # w => wk'[v] = wk[v]
  BY <1>2 DEF HeartbeatLost, WorkerStates
<1>4. wk'[w].pc = wk[w].pc /\ wk'[w].m = wk[w].m /\ wk'[w].seen = wk[w].seen
  BY <1>2 DEF HeartbeatLost, WorkerStates
<1>5. Fits(w)
  BY <1>1, <1>4 DEF Fits, IInv, BudgetInv, StepFits, ReplanFits, PlanPaid
<1> QED
  BY <1>1, <1>3, <1>5, DecisionStep

LEMMA VerifyStep ==
  ASSUME IInv, NEW w \in Workers, Verify(w)
  PROVE  IInv'
<1>1. /\ up /\ UNCHANGED <<q, receipt, approved, base, sched>>
      /\ Read(w) \/ UNCHANGED fresh
  BY DEF Verify, At
<1>2. Threshold \in Nat
  BY QuestAssumption DEF QuestAssumption
<1>3. stall' \in 0 .. Threshold
  BY <1>2 DEF Verify, IInv, TypeOK
<1>4. TablesOK' /\ UNCHANGED <<up, modifies>>
  BY <1>1, <1>3 DEF IInv, TypeOK, TablesOK, sched, bounds, calls
<1>5. {"exit", "error", "verified"} \subseteq WorkerPcs \ Decided
  BY DEF WorkerPcs, Admitted, Decided
<1>6. CASE \E l \in WorkerPcs \ Decided : Goto(w, l)
  BY <1>1, <1>4, <1>6, WritingStep DEF QStep
<1>7. CASE wk' = [wk EXCEPT ![w] = [@ EXCEPT
                    !.seen = [plan |-> q.plan, done |-> Completed],
                    !.pc = IF stall' >= Threshold THEN "looping"
                           ELSE IF q.replans >= MaxReplans THEN "stuck"
                           ELSE "replan"]]
  <2> DEFINE l == IF stall' >= Threshold THEN "looping"
                  ELSE IF q.replans >= MaxReplans THEN "stuck"
                  ELSE "replan"
             s == [plan |-> q.plan, done |-> Completed]
  <2>1. l \in {"looping", "stuck", "replan"} /\ (l = "replan" => ~(q.replans >= MaxReplans))
    OBVIOUS
  <2>2. wk' = [wk EXCEPT ![w] = [@ EXCEPT !.seen = s, !.pc = l]]
    BY <1>7
  <2>3. s \in Seen /\ s.plan = q.plan /\ q.plan \in Nat
    BY DEF Seen, Completed, IInv, TypeOK, Quests
  <2> HIDE DEF l, s
  <2>4. {"looping", "stuck", "replan"} \subseteq WorkerPcs
    BY DEF WorkerPcs, Admitted
  <2>5. wk \in [Workers -> WorkerStates] /\ q.replans \in Nat /\ MaxReplans \in Nat
    BY QuestAssumption DEF IInv, TypeOK, Quests, QuestAssumption
  <2>6. wk' \in [Workers -> WorkerStates] /\ \A v \in Workers : v # w => wk'[v] = wk[v]
    BY <2>1, <2>2, <2>3, <2>4, <2>5 DEF WorkerStates
  <2>7. wk'[w].pc = l /\ wk'[w].seen = s
    BY <2>2, <2>5 DEF WorkerStates
  <2>8. Fits(w)
    BY <2>1, <2>3, <2>5, <2>7 DEF Fits
  <2> QED
    BY <1>1, <1>4, <2>6, <2>8, DecisionStep
<1> QED
  BY <1>5, <1>6, <1>7 DEF Verify

(* MilestoneStarted: the step was found to fit when the milestone was read. *)
LEMMA StartMilestoneStep ==
  ASSUME IInv, NEW w \in Workers, StartMilestone(w)
  PROVE  IInv'
<1>1. up /\ wk[w].pc = "start" /\ UNCHANGED <<tables, sched>>
      /\ TablesOK' /\ UNCHANGED <<up, modifies>>
  BY TablesKept DEF StartMilestone, At
<1>2. {"exit", "ask", "tool", "loop"} \subseteq WorkerPcs \ Decided
  BY DEF WorkerPcs, Admitted, Decided
<1>3. CASE Retry(w)
  BY <1>1, <1>2, <1>3, WorkerStep DEF Retry, Conflict, QStep
<1>4. CASE ~Retry(w)
  <2> DEFINE m == wk[w].m
             k == IF q.ms[m] = "pending" THEN 1 ELSE 0
             new == [q EXCEPT !.status = "running", !.ms[m] = "running",
                              !.steps = @ + k]
  <2>1. AppendAndHold(w, new) /\ \E l \in {"exit", "ask", "tool"} : Goto(w, l)
    BY <1>4 DEF StartMilestone
  <2>2. k \in {0, 1} /\ q \in Quests /\ "running" \in Statuses \cap MsStatuses
    BY DEF IInv, TypeOK, Statuses, Active, MsStatuses
  <2>3. fresh[w] /\ q' = new /\ fresh' = [u \in Threads |-> u = w]
    BY <2>1 DEF AppendAndHold
  <2>4. q.steps + k <= MaxSteps
    <3>1. ~OverBudget(m)
      BY <1>1, <2>3 DEF IInv, BudgetInv, StepFits
    <3>2. q.steps \in Nat /\ MaxSteps \in Nat
      BY <2>2, QuestAssumption DEF Quests, QuestAssumption
    <3> QED
      BY <2>2, <3>1, <3>2 DEF OverBudget
  <2> HIDE DEF k
  <2>5. q' \in Quests /\ q'.steps = q.steps + k /\ q'.replans = q.replans
        /\ q'.plan = q.plan
    <3>1. q.steps + k \in Nat
      BY <2>2 DEF Quests
    <3>2. new \in Quests
      BY <2>2, <3>1 DEF Quests
    <3>3. new.steps = q.steps + k /\ new.replans = q.replans /\ new.plan = q.plan
      BY <2>2 DEF Quests
    <3> QED
      BY <2>3, <3>2, <3>3
  <2>6. PICK l \in {"exit", "ask", "tool"} : Goto(w, l)
    BY <2>1
  <2>7. wk \in [Workers -> WorkerStates]
    BY DEF IInv, TypeOK
  <2>8. wk' \in [Workers -> WorkerStates] /\ \A v \in Workers : v # w => wk'[v] = wk[v]
    BY <1>2, <2>6, <2>7 DEF Goto, WorkerStates
  <2>9. wk'[w].pc = l /\ wk'[w].seen = wk[w].seen
    BY <2>6, <2>7 DEF Goto, WorkerStates
  <2>10. fresh' \in [Threads -> BOOLEAN]
         /\ \A v \in Workers : fresh'[v] => wk'[v].pc \notin {"start", "replan"}
    BY <2>3, <2>6, <2>9 DEF Threads
  <2>11. BudgetKept' /\ DownStale'
    BY <1>1, <2>4, <2>5 DEF BudgetKept, DownStale, IInv, BudgetInv
  <2>12. PlanPaid'
    BY <1>1, <2>5, <2>6, <2>8, <2>9 DEF PlanPaid, IInv, BudgetInv
  <2> QED
    BY <1>1, <2>5, <2>8, <2>10, <2>11, <2>12, SpendingStep
<1> QED
  BY <1>3, <1>4

(* ReplanningStarted: it pays for the plan that may follow.                 *)
LEMMA StartReplanningStep ==
  ASSUME IInv, NEW w \in Workers, StartReplanning(w)
  PROVE  IInv'
<1>1. up /\ wk[w].pc = "replan" /\ UNCHANGED <<tables, sched>>
      /\ TablesOK' /\ UNCHANGED <<up, modifies>>
  BY TablesKept DEF StartReplanning, At
<1>2. "loop" \in WorkerPcs \ Decided /\ "newplan" \in WorkerPcs
  BY DEF WorkerPcs, Admitted, Decided
<1>3. CASE Retry(w)
  BY <1>1, <1>2, <1>3, WorkerStep DEF Retry, Conflict, QStep
<1>4. CASE ~Retry(w)
  <2>1. /\ fresh[w] /\ q' = [q EXCEPT !.status = "replanning", !.replans = @ + 1]
        /\ fresh' = [u \in Threads |-> FALSE] /\ Goto(w, "newplan")
    BY <1>4 DEF StartReplanning, Append
  <2>2. q.replans < MaxReplans /\ q \in Quests /\ MaxReplans \in Nat
        /\ "replanning" \in Statuses
    BY <1>1, <2>1, QuestAssumption
    DEF IInv, BudgetInv, TypeOK, ReplanFits, QuestAssumption, Statuses, Active
  <2>3. q' \in Quests /\ q'.steps = q.steps /\ q'.replans = q.replans + 1
        /\ q'.plan = q.plan
    <3> DEFINE new == [q EXCEPT !.status = "replanning", !.replans = @ + 1]
    <3>1. q.replans + 1 \in Nat
      BY <2>2 DEF Quests
    <3>2. new \in Quests
      BY <2>2, <3>1 DEF Quests
    <3>3. new.steps = q.steps /\ new.replans = q.replans + 1 /\ new.plan = q.plan
      BY <2>2 DEF Quests
    <3> QED
      BY <2>1, <3>2, <3>3
  <2>4. wk \in [Workers -> WorkerStates] /\ modifies \in Nat
        /\ q.plan \in Nat /\ q.replans \in Nat
    BY DEF IInv, TypeOK, Quests
  <2>5. wk' \in [Workers -> WorkerStates] /\ \A v \in Workers : v # w => wk'[v] = wk[v]
    BY <1>2, <2>1, <2>4 DEF Goto, WorkerStates
  <2>6. wk'[w].pc = "newplan" /\ wk'[w].seen = wk[w].seen
    BY <2>1, <2>4 DEF Goto, WorkerStates
  <2>7. fresh' \in [Threads -> BOOLEAN] /\ \A v \in Workers : ~fresh'[v]
    BY <2>1 DEF Threads
  <2>8. BudgetKept' /\ DownStale'
    BY <1>1, <2>2, <2>3, <2>4 DEF BudgetKept, DownStale, IInv, BudgetInv
  <2>9. PlanPaid'
    BY <1>1, <2>3, <2>4, <2>5, <2>6 DEF PlanPaid, IInv, BudgetInv
  <2> QED
    BY <1>1, <2>3, <2>5, <2>7, <2>8, <2>9, SpendingStep
<1> QED
  BY <1>3, <1>4

(* The new plan's version is one that a replan paid for.                    *)
LEMMA StorePlanStep ==
  ASSUME IInv, NEW w \in Workers, StorePlan(w)
  PROVE  IInv'
<1>1. up /\ wk[w].pc = "store" /\ UNCHANGED <<tables, sched>>
      /\ TablesOK' /\ UNCHANGED <<up, modifies>>
  BY TablesKept DEF StorePlan, At
<1>2. {"loop", "error"} \subseteq WorkerPcs \ Decided
  BY DEF WorkerPcs, Admitted, Decided
<1>3. CASE UNCHANGED <<q, fresh>>
  BY <1>1, <1>2, <1>3, WorkerStep DEF StorePlan, Append, Retry, QStep
<1>4. CASE ~UNCHANGED <<q, fresh>>
  <2>1. /\ wk[w].seen.plan = q.plan /\ Append(w, Replanned) /\ Goto(w, "loop")
    BY <1>4 DEF StorePlan, Retry, Conflict
  <2>2. q \in Quests /\ wk \in [Workers -> WorkerStates] /\ modifies \in Nat
        /\ MaxReplans \in Nat /\ MaxModifies \in Nat
    BY QuestAssumption DEF IInv, TypeOK, QuestAssumption
  <2>3. q.plan \in Nat /\ q.replans \in Nat /\ q.steps \in Nat
    BY <2>2 DEF Quests
  <2>4. q.plan <= q.replans + modifies /\ modifies <= MaxModifies
        /\ q.replans <= MaxReplans
    BY <1>1, <2>1 DEF IInv, BudgetInv, PlanPaid, BudgetKept
  <2>5. q.plan + 1 \in Plans
    BY <2>2, <2>3, <2>4 DEF Plans
  <2>6. q' = Replanned /\ fresh' = [u \in Threads |-> FALSE]
    BY <2>1 DEF Append
  <2>7. "running" \in Statuses /\ {"completed", "pending"} \subseteq MsStatuses
    BY DEF Statuses, Active, MsStatuses
  <2>8. q' \in Quests /\ q'.steps = q.steps /\ q'.replans = q.replans
        /\ q'.plan = q.plan + 1
    <3>1. Replanned \in Quests
      <4> DEFINE ms == [m \in Ms |-> IF m \in Completed THEN "completed" ELSE "pending"]
                 num == [m \in Ms |-> IF m \in Completed THEN q.num[m] ELSE q.plan + 1]
      <4>1. ms \in [Ms -> MsStatuses]
        BY <2>7
      <4>2. num \in [Ms -> Plans]
        BY <2>2, <2>5 DEF Quests
      <4>3. Replanned = [q EXCEPT !.status = "running", !.plan = @ + 1, !.ms = ms,
                                  !.num = num]
        BY <2>2 DEF Replanned, Quests
      <4>4. q.plan + 1 \in Nat
        BY <2>3
      <4> HIDE DEF ms, num
      <4>5. [q EXCEPT !.status = "running", !.plan = @ + 1, !.ms = ms, !.num = num]
              \in Quests
        BY <2>2, <2>7, <4>1, <4>2, <4>4 DEF Quests
      <4> QED
        BY <4>3, <4>5
    <3>2. Replanned.steps = q.steps /\ Replanned.replans = q.replans
          /\ Replanned.plan = q.plan + 1
      BY <2>2 DEF Replanned, Quests
    <3> QED
      BY <2>6, <3>1, <3>2
  <2>9. wk' \in [Workers -> WorkerStates] /\ \A v \in Workers : v # w => wk'[v] = wk[v]
    BY <1>2, <2>1, <2>2 DEF Goto, WorkerStates
  <2>10. wk'[w].pc = "loop" /\ wk'[w].seen = wk[w].seen
    BY <2>1, <2>2 DEF Goto, WorkerStates
  <2>11. fresh' \in [Threads -> BOOLEAN] /\ \A v \in Workers : ~fresh'[v]
    BY <2>6 DEF Threads
  <2>12. BudgetKept' /\ DownStale'
    BY <1>1, <2>8 DEF BudgetKept, DownStale, IInv, BudgetInv
  <2>13. PlanPaid'
    <3>1. \A v \in Workers : wk'[v].seen.plan <= q.plan /\ wk'[v].seen.plan \in Nat
      BY <2>2, <2>9, <2>10 DEF IInv, BudgetInv, PlanPaid, WorkerStates, Seen
    <3> QED
      BY <1>1, <2>2, <2>3, <2>4, <2>8, <3>1 DEF PlanPaid
  <2> QED
    BY <1>1, <2>8, <2>9, <2>11, <2>12, <2>13, SpendingStep
<1> QED
  BY <1>3, <1>4

LEMMA WorkerKeepsInvariant ==
  ASSUME IInv, NEW w \in Workers, Worker(w)
  PROVE  IInv'
BY AppendingSteps, ReadingSteps, WritingSteps, LoopStep, VerifyStep, PlanReadStep,
   StartMilestoneStep, StartReplanningStep, StorePlanStep DEF Worker

------------------------------------------------------------------------------
(* The requests                                                             *)

LEMMA RequestStep ==
  ASSUME IInv, NEW c \in Clients, QStep(c), UNCHANGED wk, TablesOK', up,
         UNCHANGED <<up, modifies>>
  PROVE  IInv'
<1>1. c \in Threads /\ c \notin Workers
  BY QuestAssumption DEF Threads, QuestAssumption
<1>2. Moved(c)
  BY <1>1 DEF Moved, IInv, TypeOK
<1> QED
  BY <1>1, <1>2, PlainStep

LEMMA RequestsKeepInvariant ==
  ASSUME IInv, NEW c \in Clients, Call(c) \/ Request(c)
  PROVE  IInv'
<1>1. TablesOK
  BY DEF IInv, TypeOK, TablesOK
<1>2. up /\ UNCHANGED <<up, modifies, wk>>
  BY DEF Call, Request, StartRead, PauseRead, ResumeRead, StartQuest, PauseQuest,
         ResumeReconcile, RecoverRead, RecoveryStarted, RecoveryCompleted, Asked,
         others, bounds
<1>3. {"idle", "start", "pause", "reconcile", "recover", "recovery_started",
       "recover2", "recovery_completed"} \subseteq RequestPcs
  BY DEF RequestPcs
<1>4. \E l \in RequestPcs : Reply(c, l)
  BY <1>3 DEF Call, Request, StartRead, PauseRead, ResumeRead, StartQuest, PauseQuest,
         ResumeReconcile, RecoverRead, RecoveryStarted, RecoveryCompleted
<1>5. rq' \in [Clients -> RequestPcs]
  BY <1>1, <1>4 DEF TablesOK, Reply
<1>6. CASE Call(c) \/ RecoverRead(c)
  <2>1. TablesOK'
    BY <1>1, <1>5, <1>6 DEF Call, StartRead, PauseRead, ResumeRead, RecoverRead,
                            TablesOK, others, tables, calls
  <2>2. QStep(c)
    BY <1>6 DEF Call, StartRead, PauseRead, ResumeRead, RecoverRead, QStep
  <2> QED
    BY <1>2, <2>1, <2>2, RequestStep
<1>7. CASE StartQuest(c) \/ PauseQuest(c) \/ RecoveryStarted(c) \/ RecoveryCompleted(c)
  <2>1. TablesOK'
    BY <1>1, <1>5, <1>7 DEF StartQuest, PauseQuest, RecoveryStarted, RecoveryCompleted,
                            TablesOK, others, tables, bounds, calls
  <2>2. /\ SameBudget([q EXCEPT !.status = "running"])
        /\ SameBudget([q EXCEPT !.pause = TRUE])
        /\ SameBudget([q EXCEPT !.status = "recovering", !.pause = FALSE])
        /\ SameBudget([q EXCEPT !.status = "running", !.error = "none"])
    BY Patches DEF Statuses, Active
  <2>3. QStep(c)
    BY <1>7, <2>2 DEF StartQuest, PauseQuest, RecoveryStarted, RecoveryCompleted,
                      Conflict, QStep
  <2> QED
    BY <1>2, <2>1, <2>3, RequestStep
<1>8. CASE ResumeReconcile(c)
  <2>1. receipt' \in Receipts
    BY <1>1, <1>8, ReceiptSet DEF ResumeReconcile, TablesOK
  <2>2. TablesOK'
    BY <1>1, <1>5, <1>8, <2>1 DEF ResumeReconcile, TablesOK, bounds, calls
  <2>3. SameBudget([q EXCEPT !.status = "waiting_user"])
    BY Patches DEF Statuses
  <2>4. QStep(c)
    BY <1>8, <2>3 DEF ResumeReconcile, Conflict, QStep
  <2> QED
    BY <1>2, <2>2, <2>4, RequestStep
<1> QED
  BY <1>6, <1>7, <1>8 DEF Request

------------------------------------------------------------------------------
(* The user's decisions, crashes and restarts.  Whatever they write, nobody *)
(* holds a decision afterwards.                                             *)

LEMMA ResetStep ==
  ASSUME IInv, q' \in Quests, TablesOK', fresh' = [u \in Threads |-> FALSE],
         wk' \in [Workers -> WorkerStates], BudgetKept', PlanPaid'
  PROVE  IInv'
<1>1. /\ fresh' \in [Threads -> BOOLEAN]
      /\ DownStale'
      /\ \A v \in Workers : ~fresh'[v]
  BY DEF DownStale, Threads
<1> QED
  BY <1>1, SpendingStep

LEMMA SameSpending ==
  ASSUME IInv, NEW new, SameBudget(new), q' = new, UNCHANGED modifies,
         \A v \in Workers : /\ wk'[v].seen.plan <= q.plan
                            /\ wk'[v] = wk[v] \/ wk'[v].pc = "idle"
  PROVE  BudgetKept' /\ PlanPaid'
<1>1. BudgetKept'
  BY DEF IInv, BudgetInv, BudgetKept, SameBudget
<1>2. PlanPaid'
  BY DEF IInv, BudgetInv, PlanPaid, SameBudget
<1> QED
  BY <1>1, <1>2

LEMMA DecisionsKeepInvariant ==
  ASSUME IInv, Approve \/ Reject \/ Modify
  PROVE  IInv'
<1>1. /\ fresh' = [u \in Threads |-> FALSE]
      /\ UNCHANGED <<receipt, base, lease, queue, wk, rq, up, calls, crashes, expiries>>
  BY DEF Approve, Reject, Modify, Decide
<1>2. q \in Quests /\ wk \in [Workers -> WorkerStates] /\ TablesOK
  BY DEF IInv, TypeOK, TablesOK
<1>3. /\ {"paused", "failed"} \subseteq Statuses
      /\ {"pending"} \subseteq MsStatuses
  BY DEF Statuses, Active, TerminalStatus, MsStatuses
<1>4. \A v \in Workers : wk[v].seen.plan <= q.plan
  BY DEF IInv, BudgetInv, PlanPaid
<1>5. CASE Approve
  <2> DEFINE ms == [m \in Ms |-> IF m = q.pend THEN "pending" ELSE q.ms[m]]
             new == [q EXCEPT !.status = "paused", !.pend = NoM, !.error = "none",
                              !.ms = ms]
  <2>1. ms \in [Ms -> MsStatuses]
    BY <1>2, <1>3 DEF Quests
  <2>2. q' = new /\ UNCHANGED <<stall, modifies>>
    BY <1>2, <1>5 DEF Approve, Decide, Quests
  <2> HIDE DEF ms
  <2>3. SameBudget(new)
    BY <1>2, <1>3, <2>1 DEF SameBudget, Quests
  <2>4. approved' \subseteq Ms \X Plans
    <3>1. q.pend # NoM => <<q.pend, q.num[q.pend]>> \in Ms \X Plans
      BY <1>2 DEF Quests
    <3>2. approved' = approved \cup
                   (IF q.pend = NoM THEN {} ELSE {<<q.pend, q.num[q.pend]>>})
      BY <1>5 DEF Approve
    <3> QED
      BY <1>2, <3>1, <3>2 DEF TablesOK
  <2>5. TablesOK'
    BY <1>1, <1>2, <2>2, <2>4 DEF TablesOK, calls
  <2>6. q' \in Quests
    BY <2>2, <2>3 DEF SameBudget
  <2>7. BudgetKept' /\ PlanPaid'
    BY <1>1, <1>4, <2>2, <2>3, SameSpending
  <2> QED
    BY <1>1, <1>2, <2>5, <2>6, <2>7, ResetStep
<1>6. CASE Reject
  <2> DEFINE new == [q EXCEPT !.status = "failed", !.error = "user"]
  <2>1. q' = new /\ UNCHANGED <<approved, stall, modifies>>
    BY <1>6 DEF Reject, Decide
  <2>2. SameBudget(new)
    BY <1>3, Patches
  <2>3. TablesOK'
    BY <1>1, <1>2, <2>1 DEF TablesOK, calls
  <2>4. q' \in Quests
    BY <2>1, <2>2 DEF SameBudget
  <2>5. BudgetKept' /\ PlanPaid'
    BY <1>1, <1>4, <2>1, <2>2, SameSpending
  <2> QED
    BY <1>1, <1>2, <2>3, <2>4, <2>5, ResetStep
<1>7. CASE Modify
  <2> DEFINE ms == [m \in Ms |-> "pending"]
             num == [m \in Ms |-> 0]
  <2>1. q' = Modified /\ modifies < MaxModifies /\ modifies' = modifies + 1
        /\ stall' = 0 /\ UNCHANGED approved
    BY <1>7 DEF Modify, Decide
  <2>2. modifies \in Nat /\ MaxModifies \in Nat /\ Threshold \in Nat /\ 0 \in Plans
        /\ q.plan \in Nat /\ q.replans \in Nat
    BY <1>2, QuestAssumption DEF IInv, TypeOK, Quests, Plans, QuestAssumption
  <2>3. ms \in [Ms -> MsStatuses] /\ num \in [Ms -> Plans]
    BY <1>3, <2>2
  <2>4. Modified = [q EXCEPT !.status = "paused", !.pend = NoM, !.error = "none",
                             !.plan = @ + 1, !.ms = ms, !.num = num]
    BY DEF Modified
  <2> HIDE DEF ms, num
  <2>5. q.plan + 1 \in Nat
    BY <2>2
  <2>6. Modified \in Quests
    BY <1>2, <1>3, <2>3, <2>4, <2>5 DEF Quests
  <2>7. Modified.plan = q.plan + 1 /\ Modified.steps = q.steps
        /\ Modified.replans = q.replans
    BY <1>2, <2>4 DEF Quests
  <2>8. TablesOK'
    BY <1>1, <1>2, <2>1, <2>2 DEF TablesOK, calls
  <2>9. BudgetKept'
    BY <2>1, <2>7 DEF IInv, BudgetInv, BudgetKept
  <2>10. PlanPaid'
    <3>1. \A v \in Workers : wk'[v].seen.plan <= q.plan /\ wk'[v].seen.plan \in Nat
      BY <1>1, <1>2, <1>4 DEF WorkerStates, Seen
    <3>2. q.plan <= 1 + q.replans + modifies
      BY DEF IInv, BudgetInv, PlanPaid
    <3> QED
      BY <2>1, <2>2, <2>7, <3>1, <3>2 DEF PlanPaid
  <2> QED
    BY <1>1, <1>2, <2>1, <2>6, <2>8, <2>9, <2>10, ResetStep
<1> QED
  BY <1>5, <1>6, <1>7

LEMMA CrashKeepsInvariant ==
  ASSUME IInv, Crash
  PROVE  IInv'
<1>1. q \in Quests /\ wk \in [Workers -> WorkerStates] /\ TablesOK /\ q.plan \in Nat
  BY DEF IInv, TypeOK, TablesOK, Quests
<1>2. 0 \in Plans
  BY QuestAssumption DEF Plans, QuestAssumption
<1>3. Resting \in WorkerStates /\ Resting.seen.plan <= q.plan /\ Resting.pc = "idle"
  BY <1>1, <1>2 DEF Resting, NoPlan, NoM, WorkerStates, Seen, WorkerPcs
<1>4. wk' \in [Workers -> WorkerStates]
      /\ \A v \in Workers : wk'[v].seen.plan <= q.plan /\ wk'[v].pc = "idle"
  BY <1>3 DEF Crash
<1>5. "idle" \in RequestPcs
  BY DEF RequestPcs
<1>6. TablesOK'
  <2>1. rq' \in [Clients -> RequestPcs]
    BY <1>5 DEF Crash
  <2>2. up' \in BOOLEAN /\ queue' = 0 /\ crashes' = crashes + 1
    BY DEF Crash
  <2> QED
    BY <1>1, <2>1, <2>2 DEF Crash, TablesOK, tables, calls
<1>7. SameBudget(q) /\ q' = q /\ UNCHANGED modifies
  BY <1>1 DEF SameBudget, Crash
<1>8. BudgetKept' /\ PlanPaid'
  BY <1>4, <1>7, SameSpending
<1> QED
  BY <1>1, <1>4, <1>6, <1>7, <1>8, ResetStep DEF Crash

LEMMA RestartKeepsInvariant ==
  ASSUME IInv, Restart
  PROVE  IInv'
<1>1. q \in Quests /\ wk \in [Workers -> WorkerStates] /\ TablesOK
      /\ fresh \in [Threads -> BOOLEAN]
  BY DEF IInv, TypeOK, TablesOK
<1>2. fresh' = [u \in Threads |-> FALSE]
  BY <1>1 DEF Restart, IInv, BudgetInv, DownStale
<1>3. UNCHANGED <<approved, stall, base, queue, wk, rq, fresh, calls, modifies,
                  crashes, expiries>>
      /\ up' = TRUE
  BY DEF Restart
<1>4. NoLease \in Leases
  BY DEF NoLease, Leases
<1>5. receipt' \in Receipts
  <2>1. CASE UNCHANGED receipt
    BY <1>1, <2>1 DEF TablesOK
  <2>2. CASE receipt' = [m \in Ms |-> [p \in Plans |->
               IF receipt[m][p] = "open" THEN "unknown" ELSE receipt[m][p]]]
    BY <1>1, <2>2 DEF TablesOK, Receipts
  <2> QED
    BY <2>1, <2>2 DEF Restart
<1>6. TablesOK'
  <2>1. lease' \in Leases
    BY <1>4 DEF Restart
  <2> QED
    BY <1>1, <1>3, <1>5, <2>1 DEF TablesOK, calls
<1>7. PICK new : SameBudget(new) /\ q' = new
  <2>1. SameBudget(q)
    BY <1>1 DEF SameBudget
  <2>2. SameBudget(Interrupted)
    BY Patches DEF Interrupted, Statuses
  <2> QED
    BY <2>1, <2>2 DEF Restart
<1>8. \A v \in Workers : wk'[v] = wk[v] /\ wk'[v].seen.plan <= q.plan
  BY <1>3 DEF IInv, BudgetInv, PlanPaid
<1>9. BudgetKept' /\ PlanPaid'
  BY <1>3, <1>7, <1>8, SameSpending
<1> QED
  BY <1>1, <1>2, <1>3, <1>6, <1>7, <1>9, ResetStep DEF SameBudget

(* The projection and the threads are left alone.                           *)
LEMMA QuietStep ==
  ASSUME IInv, UNCHANGED <<q, fresh, wk, up, modifies>>, TablesOK'
  PROVE  IInv'
BY DEF IInv, TypeOK, TablesOK, BudgetInv, BudgetKept, DownStale, StepFits, OverBudget,
       ReplanFits, PlanPaid

------------------------------------------------------------------------------
(* The invariant                                                            *)

LEMMA InitiallyInvariant == Init => IInv
<1> SUFFICES ASSUME Init PROVE IInv
  OBVIOUS
<1>1. {0, 1} \subseteq Plans
      /\ {0, MaxSteps, MaxReplans, MaxModifies, Threshold} \subseteq Nat
  BY QuestAssumption DEF Plans, QuestAssumption
<1>2. q \in Quests /\ q.plan = 1 /\ q.steps = 0 /\ q.replans = 0
  BY <1>1 DEF Init, Quests, Statuses, MsStatuses, NoM
<1>3. Resting \in WorkerStates /\ Resting.pc = "idle" /\ Resting.seen.plan = 0
  BY <1>1 DEF Resting, NoPlan, NoM, WorkerStates, Seen, WorkerPcs
<1>4. wk \in [Workers -> WorkerStates]
      /\ \A w \in Workers : wk[w].pc = "idle" /\ wk[w].seen.plan = 0
  BY <1>3 DEF Init
<1>5. NoLease \in Leases /\ "idle" \in RequestPcs
  BY DEF NoLease, Leases, RequestPcs
<1>6. /\ receipt \in Receipts
      /\ fresh \in [Threads -> BOOLEAN] /\ ~\E t \in Threads : fresh[t]
  BY DEF Init, Receipts
<1>7. TypeOK
  <2>1. lease \in Leases /\ rq \in [Clients -> RequestPcs]
    BY <1>5 DEF Init
  <2>2. base \in BOOLEAN /\ up \in BOOLEAN
    BY DEF Init
  <2>3. stall \in 0 .. Threshold /\ queue \in Nat
        /\ {pauses, resumes, modifies, crashes, expiries} \subseteq Nat
    BY <1>1 DEF Init
  <2>4. approved \subseteq Ms \X Plans
    BY DEF Init
  <2> QED
    BY <1>2, <1>4, <1>6, <2>1, <2>2, <2>3, <2>4 DEF TypeOK
<1>8. BudgetInv
  BY <1>1, <1>2, <1>4, <1>6 DEF Init, BudgetInv, BudgetKept, DownStale, StepFits,
                                ReplanFits, PlanPaid
<1> QED
  BY <1>7, <1>8 DEF IInv

LEMMA NextKeepsInvariant == IInv /\ [Next]_vars => IInv'
<1> SUFFICES ASSUME IInv, [Next]_vars PROVE IInv'
  OBVIOUS
<1>1. ASSUME NEW w \in Workers, Worker(w) PROVE IInv'
  BY <1>1, WorkerKeepsInvariant
<1>2. ASSUME NEW w \in Workers, HeartbeatLost(w) PROVE IInv'
  BY <1>2, HeartbeatStep
<1>3. ASSUME NEW c \in Clients, Call(c) \/ Request(c) PROVE IInv'
  BY <1>3, RequestsKeepInvariant
<1>4. CASE Approve \/ Reject \/ Modify
  BY <1>4, DecisionsKeepInvariant
<1>5. CASE Expire
  <2>1. lease \in Leases /\ TablesOK
    BY DEF IInv, TypeOK, TablesOK
  <2>2. lease' \in Leases
    BY <1>5, <2>1 DEF Expire, Leases
  <2>3. TablesOK'
    BY <1>5, <2>1, <2>2 DEF Expire, TablesOK, tables, calls
  <2> QED
    BY <1>5, <2>3, QuietStep DEF Expire
<1>6. CASE Crash
  BY <1>6, CrashKeepsInvariant
<1>7. CASE Restart
  BY <1>7, RestartKeepsInvariant
<1>8. CASE UNCHANGED vars
  <2>1. TablesOK'
    BY <1>8 DEF IInv, TypeOK, TablesOK, vars
  <2> QED
    BY <1>8, <2>1, QuietStep DEF vars
<1> QED
  BY <1>1, <1>2, <1>3, <1>4, <1>5, <1>6, <1>7, <1>8 DEF Next

(* Whatever the plan, the threads and the bounds: every value stays of its  *)
(* kind; in particular no plan number leaves Plans (store_plan_version).    *)
THEOREM TypeCorrect == Spec => []TypeOK
<1>1. IInv => TypeOK
  BY DEF IInv
<1> QED
  BY <1>1, InitiallyInvariant, NextKeepsInvariant, PTL DEF Spec

(* The recorded steps and replans never exceed the contract's budget,       *)
(* however many workers check it on a projection read earlier               *)
(* (_budget_reason, _handle_replan, append_event).                          *)
THEOREM BudgetIsKept == Spec => []BudgetKept
<1>1. IInv => BudgetKept
  BY DEF IInv, BudgetInv
<1> QED
  BY <1>1, InitiallyInvariant, NextKeepsInvariant, PTL DEF Spec

------------------------------------------------------------------------------
(* Evidence: what a worker did before its next append, however stale it is. *)

(* The points of a worker that has passed the baseline, ...                 *)
PastBaseline == Admitted \ {"baseline", "pause", "error", "fail"}

(* ... and those at which it is busy with a milestone.                      *)
AtMilestone == {"start", "ask", "approval", "tool", "run", "doubt", "after", "failed",
                "unknown", "verifying", "verify", "verified"}

(* A worker is where its earlier steps entitle it to be.  What rests on the *)
(* projection holds only while its read is fresh; what rests on a receipt   *)
(* or an approval holds for good, since neither is ever taken back.         *)
Entitled(w) ==
  /\ wk[w].pc \in PastBaseline => base
  /\ wk[w].pc \in AtMilestone => wk[w].m \in Ms
  /\ wk[w].pc = "run" => ReceiptOf(w) # "none"
  /\ wk[w].pc = "after" => ReceiptOf(w) \in {"committed", "failed"}
  /\ wk[w].pc \in {"verifying", "verify", "verified"} => ReceiptOf(w) = "committed"
  /\ wk[w].pc \in {"start", "tool", "verified"} /\ fresh[w] => ~Gone(w)
  /\ wk[w].pc = "tool" /\ fresh[w] /\ wk[w].m \in HighRisk => ActionApproved(wk[w].m)

EvidenceInv ==
  /\ EvidenceComplete
  /\ ApprovedBeforeTool
  /\ \A w \in Workers : Entitled(w)

(* A receipt only goes forward.                                             *)
Advances(r, s) ==
  \/ s = r
  \/ r = "none" /\ s = "open"
  \/ r = "open" /\ s \in {"committed", "failed", "unknown"}
  \/ r = "unknown" /\ s = "committed"

(* Nothing recorded is taken back, and what is new was prepared by the rules.*)
Grows ==
  /\ base => base'
  /\ approved \subseteq approved'
  /\ \A m \in Ms, p \in Plans : Advances(receipt[m][p], receipt'[m][p])
  /\ \A m \in Ms, p \in Plans : receipt[m][p] = "none" /\ receipt'[m][p] # "none" =>
       base' /\ (m \in HighRisk => <<m, p>> \in approved')

(* new completes no milestone and renumbers no completed one.               *)
KeepsProof(new) ==
  \A m \in Ms : new.ms[m] = "completed" =>
                  q.ms[m] = "completed" /\ new.num[m] = q.num[m]

(* How a step treats the reads of the threads other than t.                 *)
Overtakes(t) ==
  \A u \in Threads : u # t /\ fresh'[u] => q' = q /\ fresh[u]

LEMMA StaysEntitled ==
  ASSUME IInv, Grows, NEW v \in Workers, Entitled(v), wk'[v] = wk[v],
         fresh'[v] => q' = q /\ fresh[v]
  PROVE  Entitled(v)'
<1>1. wk[v] \in WorkerStates /\ (wk[v].pc \in AtMilestone => wk[v].m \in Ms)
  BY DEF IInv, TypeOK, Entitled
<1>2. wk[v].p \in Plans
  BY <1>1 DEF WorkerStates
<1>3. wk[v].pc \in AtMilestone => Advances(ReceiptOf(v), ReceiptOf(v)')
  BY <1>1, <1>2 DEF Grows, ReceiptOf
<1>4. base => base'
  BY DEF Grows
<1>5. (wk[v].pc = "run" => ReceiptOf(v) # "none")'
  BY <1>3 DEF Entitled, Advances, AtMilestone
<1>6. (wk[v].pc = "after" => ReceiptOf(v) \in {"committed", "failed"})'
  BY <1>3 DEF Entitled, Advances, AtMilestone
<1>7. (wk[v].pc \in {"verifying", "verify", "verified"} => ReceiptOf(v) = "committed")'
  BY <1>3 DEF Entitled, Advances, AtMilestone
<1>8. (wk[v].pc \in {"start", "tool", "verified"} /\ fresh[v] => ~Gone(v))'
  BY DEF Entitled, Gone
<1>9. (wk[v].pc = "tool" /\ fresh[v] /\ wk[v].m \in HighRisk => ActionApproved(wk[v].m))'
  BY DEF Entitled, ActionApproved, Grows
<1> QED
  BY <1>1, <1>4, <1>5, <1>6, <1>7, <1>8, <1>9 DEF Entitled

LEMMA EvidenceStep ==
  ASSUME IInv, IInv', EvidenceInv, Grows,
         \A m \in Ms : q'.ms[m] = "completed" =>
            \/ q.ms[m] = "completed" /\ q'.num[m] = q.num[m]
            \/ receipt'[m][q'.num[m]] = "committed",
         \A v \in Workers :
            \/ wk'[v] = wk[v] /\ (fresh'[v] => q' = q /\ fresh[v])
            \/ Entitled(v)'
  PROVE  EvidenceInv'
<1>1. CompletedNeedsReceipt'
  <2> SUFFICES ASSUME NEW m \in Ms, q'.ms[m] = "completed"
               PROVE  receipt'[m][q'.num[m]] = "committed"
    BY DEF CompletedNeedsReceipt, Completed, Receipt
  <2>1. CASE q.ms[m] = "completed" /\ q'.num[m] = q.num[m]
    <3>1. receipt[m][q.num[m]] = "committed"
      BY <2>1 DEF EvidenceInv, EvidenceComplete, CompletedNeedsReceipt, Completed, Receipt
    <3>2. q.num[m] \in Plans
      BY DEF IInv, TypeOK, Quests
    <3> QED
      BY <2>1, <3>1, <3>2 DEF Grows, Advances
  <2> QED
    BY <2>1
<1>2. BaselineBeforeTool'
  <2> SUFFICES ASSUME NEW m \in Ms, NEW p \in Plans, receipt'[m][p] # "none"
               PROVE  base'
    BY DEF BaselineBeforeTool
  <2>1. receipt[m][p] # "none" => base
    BY DEF EvidenceInv, EvidenceComplete, BaselineBeforeTool
  <2> QED
    BY <2>1 DEF Grows
<1>3. ApprovedBeforeTool'
  <2> SUFFICES ASSUME NEW m \in HighRisk, NEW p \in Plans, receipt'[m][p] # "none"
               PROVE  <<m, p>> \in approved'
    BY DEF ApprovedBeforeTool
  <2>1. m \in Ms
    BY QuestAssumption DEF QuestAssumption
  <2>2. receipt[m][p] # "none" => <<m, p>> \in approved
    BY DEF EvidenceInv, ApprovedBeforeTool
  <2> QED
    BY <2>1, <2>2 DEF Grows
<1>4. ASSUME NEW v \in Workers PROVE Entitled(v)'
  BY StaysEntitled DEF EvidenceInv
<1> QED
  BY <1>1, <1>2, <1>3, <1>4 DEF EvidenceInv, EvidenceComplete

LEMMA Unwritten ==
  ASSUME UNCHANGED <<receipt, approved>>, base => base'
  PROVE  Grows
BY DEF Grows, Advances

(* Only Append, AppendAndHold and Read make a read fresh, and only t's own. *)
LEMMA Freshness ==
  ASSUME IInv, NEW t \in Threads,
         \/ UNCHANGED <<q, fresh>>
         \/ UNCHANGED q /\ Read(t)
         \/ \E new : Append(t, new) \/ AppendAndHold(t, new)
         \/ fresh' = [u \in Threads |-> FALSE]
  PROVE  Overtakes(t)
BY DEF IInv, TypeOK, Read, Append, AppendAndHold, Overtakes

------------------------------------------------------------------------------
LEMMA GotoShape ==
  ASSUME IInv, NEW w \in Workers, NEW l, Goto(w, l)
  PROVE  /\ wk'[w].pc = l /\ wk'[w].m = wk[w].m /\ wk'[w].p = wk[w].p
         /\ wk'[w].seen = wk[w].seen
         /\ \A v \in Workers : v # w => wk'[v] = wk[v]
BY DEF IInv, TypeOK, Goto, WorkerStates

(* The points that a receipt, an approval or the last read entitles to.     *)
Earned == {"start", "tool", "run", "after", "verifying", "verify", "verified"}

LEMMA PassingStep ==
  ASSUME IInv, IInv', EvidenceInv, NEW w \in Workers, NEW l, Goto(w, l),
         UNCHANGED <<receipt, approved>>, base => base', Overtakes(w), KeepsProof(q'),
         l \notin Earned, l \in PastBaseline => base', l \in AtMilestone => wk[w].m \in Ms
  PROVE  EvidenceInv'
<1>1. Grows
  BY Unwritten
<1>2. \A v \in Workers : v # w => wk'[v] = wk[v] /\ (fresh'[v] => q' = q /\ fresh[v])
  BY GotoShape DEF Overtakes, Threads
<1>3. Entitled(w)'
  BY GotoShape DEF Entitled, Earned
<1> QED
  BY <1>1, <1>2, <1>3, EvidenceStep DEF KeepsProof

LEMMA ProofPatches ==
  ASSUME IInv, NEW s, NEW e, NEW n
  PROVE  /\ KeepsProof(q)
         /\ KeepsProof([q EXCEPT !.status = s])
         /\ KeepsProof([q EXCEPT !.pause = TRUE])
         /\ KeepsProof([q EXCEPT !.status = s, !.pause = FALSE])
         /\ KeepsProof([q EXCEPT !.status = s, !.error = e])
         /\ KeepsProof([q EXCEPT !.status = s, !.pend = n])
         /\ KeepsProof([q EXCEPT !.status = s, !.replans = @ + 1])
BY DEF KeepsProof, IInv, TypeOK, Quests

LEMMA MilestoneProofPatches ==
  ASSUME IInv, NEW s, NEW m \in Ms, NEW x, x # "completed", NEW k
  PROVE  /\ KeepsProof([q EXCEPT !.status = s, !.ms[m] = x])
         /\ KeepsProof([q EXCEPT !.status = s, !.ms[m] = x, !.error = "tool"])
         /\ KeepsProof([q EXCEPT !.status = s, !.ms[m] = x, !.steps = @ + k])
BY DEF KeepsProof, IInv, TypeOK, Quests

(* An event of a worker that leaves its milestone, appended or refused.     *)
LEMMA LeavingStep ==
  ASSUME IInv, IInv', EvidenceInv, NEW w \in Workers, NEW new, KeepsProof(new),
         NEW l \in {"exit", "loop", "final", "newplan", "error"},
         NEW r \in {"exit", "loop", "error"},
         \/ Append(w, new) /\ Goto(w, l)
         \/ Conflict(w) /\ Goto(w, r),
         {l, r} \cap PastBaseline # {} => wk[w].pc \in PastBaseline,
         UNCHANGED <<tables, sched>>
  PROVE  EvidenceInv'
<1>1. w \in Threads /\ UNCHANGED <<receipt, approved, base>>
  BY DEF Threads, tables
<1>2. Overtakes(w)
  BY <1>1, Freshness DEF Conflict
<1>3. KeepsProof(q')
  BY ProofPatches DEF Append, Conflict
<1>4. wk[w].pc \in PastBaseline => base
  BY DEF EvidenceInv, Entitled
<1>5. /\ {"exit", "loop", "final", "newplan", "error"} \cap Earned = {}
      /\ {"exit", "loop", "final", "newplan", "error"} \cap AtMilestone = {}
  BY DEF Earned, AtMilestone
<1>6. CASE Append(w, new) /\ Goto(w, l)
  BY <1>1, <1>2, <1>3, <1>4, <1>5, <1>6, PassingStep
<1>7. CASE Conflict(w) /\ Goto(w, r)
  BY <1>1, <1>2, <1>3, <1>4, <1>5, <1>7, PassingStep
<1> QED
  BY <1>6, <1>7

LEMMA LeavingSteps ==
  ASSUME IInv, IInv', EvidenceInv, NEW w \in Workers,
         Pause(w) \/ Exhaust(w) \/ RequireApproval(w) \/ ToolFailed(w) \/
         ToolEffectUnknown(w) \/ NeedUser(w) \/ StartReplanning(w) \/
         Finalize(w) \/ Complete(w) \/ FinalNeedsUser(w) \/ FailQuest(w)
  PROVE  EvidenceInv'
<1> DEFINE Leaves(new, l, r) == \/ Append(w, new) /\ Goto(w, l)
                                \/ Conflict(w) /\ Goto(w, r)
<1>1. wk[w].pc \in AtMilestone => wk[w].m \in Ms
  BY DEF EvidenceInv, Entitled
<1>2. /\ {"exhaust", "approval", "failed", "unknown", "stuck", "replan", "finalize",
          "complete", "final_user"} \subseteq PastBaseline
      /\ {"approval", "failed", "unknown"} \subseteq AtMilestone
      /\ {"exit", "error"} \cap PastBaseline = {}
  BY DEF PastBaseline, Admitted, AtMilestone
<1>3. CASE Pause(w)
  <2>1. KeepsProof([q EXCEPT !.status = "paused", !.pause = FALSE])
    BY ProofPatches
  <2> QED
    BY <1>2, <1>3, <2>1, LeavingStep DEF Pause, At
<1>4. CASE Exhaust(w)
  <2>1. KeepsProof([q EXCEPT !.status = "budget_exhausted"])
    BY ProofPatches
  <2> QED
    BY <1>2, <1>4, <2>1, LeavingStep DEF Exhaust, At
<1>5. CASE RequireApproval(w)
  <2>1. KeepsProof([q EXCEPT !.status = "waiting_user", !.pend = wk[w].m])
    BY ProofPatches
  <2> QED
    BY <1>2, <1>5, <2>1, LeavingStep DEF RequireApproval, Retry, At
<1>6. CASE ToolFailed(w)
  <2>1. KeepsProof([q EXCEPT !.status = "failed", !.ms[wk[w].m] = "failed",
                             !.error = "tool"])
    BY <1>1, <1>2, <1>6, MilestoneProofPatches DEF ToolFailed, At
  <2> QED
    BY <1>2, <1>6, <2>1, LeavingStep DEF ToolFailed, Retry, At
<1>7. CASE ToolEffectUnknown(w)
  <2>1. KeepsProof([q EXCEPT !.status = "paused"])
    BY ProofPatches
  <2> QED
    BY <1>2, <1>7, <2>1, LeavingStep DEF ToolEffectUnknown, Retry, At
<1>8. CASE NeedUser(w)
  <2>1. KeepsProof([q EXCEPT !.status = "waiting_user"])
    BY ProofPatches
  <2> QED
    BY <1>2, <1>8, <2>1, LeavingStep DEF NeedUser, Retry, At
<1>9. CASE StartReplanning(w)
  <2>1. KeepsProof([q EXCEPT !.status = "replanning", !.replans = @ + 1])
    BY ProofPatches
  <2> QED
    BY <1>2, <1>9, <2>1, LeavingStep DEF StartReplanning, Retry, At
<1>10. CASE Finalize(w)
  <2>1. KeepsProof([q EXCEPT !.status = "verifying"])
    BY ProofPatches
  <2> QED
    BY <1>2, <1>10, <2>1, LeavingStep DEF Finalize, At
<1>11. CASE Complete(w)
  <2>1. KeepsProof([q EXCEPT !.status = "completed", !.error = "none"])
    BY ProofPatches
  <2> QED
    BY <1>2, <1>11, <2>1, LeavingStep DEF Complete, At
<1>12. CASE FinalNeedsUser(w)
  <2>1. KeepsProof([q EXCEPT !.status = "waiting_user"])
    BY ProofPatches
  <2> QED
    BY <1>2, <1>12, <2>1, LeavingStep DEF FinalNeedsUser, At
<1>13. CASE FailQuest(w)
  <2>1. KeepsProof([q EXCEPT !.status = "failed", !.error = "runtime"])
    BY ProofPatches
  <2> QED
    BY <1>2, <1>13, <2>1, LeavingStep DEF FailQuest, At
<1> QED
  BY <1>3, <1>4, <1>5, <1>6, <1>7, <1>8, <1>9, <1>10, <1>11, <1>12, <1>13

(* A worker reads and goes on, at most to a point of the same milestone.    *)
LEMMA LookingStep ==
  ASSUME IInv, IInv', EvidenceInv, NEW w \in Workers, NEW l, Goto(w, l),
         UNCHANGED <<q, receipt, approved, base>>, Read(w) \/ UNCHANGED fresh,
         l \notin Earned, l \in PastBaseline => wk[w].pc \in PastBaseline,
         l \in AtMilestone => wk[w].pc \in AtMilestone
  PROVE  EvidenceInv'
<1>1. w \in Threads
  BY DEF Threads
<1>2. Overtakes(w) /\ KeepsProof(q')
  BY <1>1, Freshness, ProofPatches
<1>3. (l \in PastBaseline => base') /\ (l \in AtMilestone => wk[w].m \in Ms)
  BY DEF EvidenceInv, Entitled
<1> QED
  BY <1>2, <1>3, PassingStep

LEMMA LookingSteps ==
  ASSUME IInv, IInv', EvidenceInv, NEW w \in Workers,
         \/ Begin(w) \/ AskRead(w) \/ LoopRead(w) \/ PlanRead(w) \/ FinalVerify(w)
         \/ UnexpectedFailure(w)
  PROVE  EvidenceInv'
<1>1. /\ {"ask", "looping", "newplan", "final", "approval", "stuck", "store", "complete",
          "final_user", "exhaust"} \subseteq PastBaseline
      /\ {"ask", "approval"} \subseteq AtMilestone
      /\ {"pause", "admit", "error", "exit", "fail"} \cap PastBaseline = {}
      /\ {"pause", "admit", "error", "exit", "fail", "stuck", "store", "complete",
          "final_user", "exhaust"} \cap AtMilestone = {}
      /\ {"pause", "admit", "error", "exit", "fail", "stuck", "store", "complete",
          "final_user", "exhaust", "approval"} \cap Earned = {}
  BY DEF PastBaseline, Admitted, AtMilestone, Earned
<1>2. UNCHANGED <<q, receipt, approved, base>> /\ (Read(w) \/ UNCHANGED fresh)
  BY DEF Begin, AskRead, LoopRead, PlanRead, FinalVerify, UnexpectedFailure, ReadOn, tables
<1>3. CASE Begin(w)
  BY <1>1, <1>2, <1>3, LookingStep DEF Begin
<1>4. CASE AskRead(w)
  BY <1>1, <1>2, <1>4, LookingStep DEF AskRead, ReadOn, At
<1>5. CASE LoopRead(w)
  BY <1>1, <1>2, <1>5, LookingStep DEF LoopRead, ReadOn, At
<1>6. CASE PlanRead(w)
  BY <1>1, <1>2, <1>6, LookingStep DEF PlanRead, ReadOn, At
<1>7. CASE FinalVerify(w)
  BY <1>1, <1>2, <1>7, LookingStep DEF FinalVerify, At
<1>8. CASE UnexpectedFailure(w)
  BY <1>1, <1>2, <1>8, LookingStep DEF UnexpectedFailure, At
<1> QED
  BY <1>3, <1>4, <1>5, <1>6, <1>7, <1>8

------------------------------------------------------------------------------
(* A step of one worker that writes no receipt and completes nothing.       *)
LEMMA EntitledStep ==
  ASSUME IInv, IInv', EvidenceInv, NEW w \in Workers,
         \A v \in Workers : v # w => wk'[v] = wk[v],
         UNCHANGED <<receipt, approved>>, base => base', Overtakes(w), KeepsProof(q'),
         Entitled(w)'
  PROVE  EvidenceInv'
<1>1. Grows
  BY Unwritten
<1>2. \A v \in Workers : v # w => wk'[v] = wk[v] /\ (fresh'[v] => q' = q /\ fresh[v])
  BY DEF Overtakes, Threads
<1> QED
  BY <1>1, <1>2, EvidenceStep DEF KeepsProof

LEMMA PoolEvidence ==
  ASSUME IInv, IInv', EvidenceInv, NEW w \in Workers,
         TakeTask(w) \/ Admit(w) \/ Baseline(w) \/ Exit(w)
  PROVE  EvidenceInv'
<1>0. w \in Threads
  BY DEF Threads
<1>1. {"idle", "begin", "exit", "error", "baseline", "loop"} \cap
        (Earned \cup AtMilestone) = {}
      /\ {"idle", "begin", "exit", "error", "baseline"} \cap PastBaseline = {}
  BY DEF Earned, AtMilestone, PastBaseline, Admitted
<1>2. CASE TakeTask(w) \/ Exit(w)
  <2>1. PICK l \in {"idle", "begin"} :
          wk' = [wk EXCEPT ![w] = [Resting EXCEPT !.pc = l]]
    BY <1>2 DEF TakeTask, Exit, Resting
  <2>2. wk'[w].pc = l /\ \A v \in Workers : v # w => wk'[v] = wk[v]
    BY <2>1 DEF IInv, TypeOK, Resting
  <2>3. UNCHANGED <<q, fresh, receipt, approved, base>>
    BY <1>2 DEF TakeTask, Exit, tables
  <2>4. Overtakes(w) /\ KeepsProof(q')
    BY <1>0, <2>3, Freshness, ProofPatches
  <2>5. Entitled(w)'
    BY <1>1, <2>2 DEF Entitled, Earned
  <2> QED
    BY <2>2, <2>3, <2>4, <2>5, EntitledStep
<1>3. CASE Admit(w)
  <2>1. PICK l \in {"baseline", "exit", "error"} : Goto(w, l)
    BY <1>3 DEF Admit
  <2>2. UNCHANGED <<receipt, approved, base>>
    BY <1>3 DEF Admit, tables
  <2>3. \/ UNCHANGED <<q, fresh>>
        \/ AppendAndHold(w, [q EXCEPT !.status = "running", !.error = "none"])
    BY <1>3 DEF Admit, Conflict
  <2>4. Overtakes(w)
    BY <1>0, <2>3, Freshness
  <2>5. KeepsProof(q')
    <3>1. KeepsProof(q) /\ KeepsProof([q EXCEPT !.status = "running", !.error = "none"])
      BY ProofPatches
    <3> QED
      BY <2>3, <3>1 DEF AppendAndHold
  <2> QED
    BY <1>1, <2>1, <2>2, <2>4, <2>5, PassingStep
<1>4. CASE Baseline(w)
  <2>1. UNCHANGED <<q, fresh, receipt, approved>> /\ (base => base')
    BY <1>4 DEF Baseline
  <2>2. Overtakes(w) /\ KeepsProof(q')
    BY <1>0, <2>1, Freshness, ProofPatches
  <2>3. (Goto(w, "loop") /\ base') \/ Goto(w, "exit")
    BY <1>4 DEF Baseline
  <2> QED
    BY <1>1, <2>1, <2>2, <2>3, PassingStep
<1> QED
  BY <1>2, <1>3, <1>4

LEMMA LoopEvidence ==
  ASSUME IInv, IInv', EvidenceInv, NEW w \in Workers, Loop(w)
  PROVE  EvidenceInv'
<1>1. /\ {"loop", "finalize", "exhaust"} \subseteq PastBaseline
      /\ {"exit", "pause", "fail"} \cap PastBaseline = {}
      /\ {"exit", "pause", "finalize", "fail", "exhaust"} \cap (AtMilestone \cup Earned) = {}
  BY DEF PastBaseline, Admitted, AtMilestone, Earned
<1>2. /\ UNCHANGED <<q, receipt, approved, base>> /\ (Read(w) \/ UNCHANGED fresh)
      /\ wk[w].pc = "loop" /\ w \in Threads
  BY DEF Loop, tables, At, Threads
<1>3. \/ \E l \in {"exit", "pause", "finalize", "fail", "exhaust"} : Goto(w, l)
      \/ \E m \in Ms :
           wk' = [wk EXCEPT ![w] = [@ EXCEPT !.m = m, !.p = q.num[m],
                    !.pc = IF OverBudget(m) THEN "exhaust" ELSE "start"]]
  BY DEF Loop
<1>4. CASE \E l \in {"exit", "pause", "finalize", "fail", "exhaust"} : Goto(w, l)
  BY <1>1, <1>2, <1>4, LookingStep
<1>5. CASE \E m \in Ms :
             wk' = [wk EXCEPT ![w] = [@ EXCEPT !.m = m, !.p = q.num[m],
                      !.pc = IF OverBudget(m) THEN "exhaust" ELSE "start"]]
  <2>1. PICK m \in Ms, l \in {"exhaust", "start"} :
          wk' = [wk EXCEPT ![w] = [@ EXCEPT !.m = m, !.p = q.num[m], !.pc = l]]
    BY <1>5
  <2>2. /\ wk'[w].pc = l /\ wk'[w].m = m /\ wk'[w].p = q.num[m]
        /\ \A v \in Workers : v # w => wk'[v] = wk[v]
    BY <2>1 DEF IInv, TypeOK, WorkerStates
  <2>3. base
    BY <1>1, <1>2 DEF EvidenceInv, Entitled
  <2>4. Entitled(w)'
    BY <1>1, <1>2, <2>2, <2>3 DEF Entitled, Earned, Gone
  <2>5. Overtakes(w) /\ KeepsProof(q')
    BY <1>2, Freshness, ProofPatches
  <2> QED
    BY <1>2, <2>2, <2>4, <2>5, EntitledStep
<1> QED
  BY <1>3, <1>4, <1>5

(* The approval is looked up in the projection that is about to be appended *)
(* to: it counts for as long as nobody overtakes the worker.                *)
LEMMA StartMilestoneEvidence ==
  ASSUME IInv, IInv', EvidenceInv, NEW w \in Workers, StartMilestone(w)
  PROVE  EvidenceInv'
<1>1. /\ wk[w].pc = "start" /\ w \in Threads
      /\ UNCHANGED <<receipt, approved, base>>
  BY DEF StartMilestone, At, Threads, tables
<1>2. wk[w].m \in Ms /\ base /\ q.num \in [Ms -> Plans]
  BY <1>1 DEF EvidenceInv, Entitled, AtMilestone, PastBaseline, Admitted,
              IInv, TypeOK, Quests
<1>3. CASE Retry(w)
  <2>1. Overtakes(w) /\ KeepsProof(q')
    BY <1>1, <1>3, Freshness, ProofPatches DEF Retry, Conflict
  <2> QED
    BY <1>1, <1>2, <1>3, <2>1, PassingStep DEF Retry, Earned, AtMilestone
<1>4. CASE ~Retry(w)
  <2> DEFINE m == wk[w].m
             k == IF q.ms[m] = "pending" THEN 1 ELSE 0
             new == [q EXCEPT !.status = "running", !.ms[m] = "running",
                              !.steps = @ + k]
  <2>1. /\ AppendAndHold(w, new)
        /\ Goto(w, IF wk[w].lost THEN "exit"
                   ELSE IF m \in HighRisk /\ ~ActionApproved(m) THEN "ask" ELSE "tool")
    BY <1>4 DEF StartMilestone
  <2> HIDE DEF k
  <2>2. Overtakes(w)
    BY <1>1, <2>1, Freshness
  <2>3. KeepsProof(q')
    BY <1>2, <2>1, MilestoneProofPatches DEF AppendAndHold
  <2>4. q'.num = q.num
    BY <2>1 DEF AppendAndHold, IInv, TypeOK, Quests
  <2>5. CASE Goto(w, "exit") \/ Goto(w, "ask")
    BY <1>1, <1>2, <2>2, <2>3, <2>5, PassingStep DEF Earned, AtMilestone
  <2>6. CASE Goto(w, "tool") /\ (m \in HighRisk => ActionApproved(m))
    <3>1. /\ wk'[w].pc = "tool" /\ wk'[w].m = m /\ wk'[w].p = wk[w].p
          /\ \A v \in Workers : v # w => wk'[v] = wk[v]
      BY <2>6, GotoShape
    <3>2. ~Gone(w)
      BY <1>1, <2>1 DEF AppendAndHold, EvidenceInv, Entitled
    <3>3. Entitled(w)'
      BY <1>1, <1>2, <2>4, <2>6, <3>1, <3>2 DEF Entitled, ActionApproved, Gone
    <3> QED
      BY <1>1, <2>2, <2>3, <3>1, <3>3, EntitledStep
  <2> QED
    BY <2>1, <2>5, <2>6
<1> QED
  BY <1>3, <1>4

LEMMA ReceiptTyped ==
  ASSUME IInv, NEW w \in Workers, wk[w].m \in Ms
  PROVE  /\ wk[w].p \in Plans
         /\ ReceiptOf(w) \in {"none", "open", "committed", "failed", "unknown"}
BY DEF IInv, TypeOK, WorkerStates, Receipts, ReceiptOf

(* Setting the receipt of a worker's action to a later one.                 *)
LEMMA SetReceiptGrows ==
  ASSUME IInv, NEW m \in Ms, NEW p \in Plans, NEW s, SetReceipt(m, p, s),
         Advances(receipt[m][p], s), UNCHANGED <<approved, base>>,
         receipt[m][p] = "none" => base /\ (m \in HighRisk => <<m, p>> \in approved)
  PROVE  Grows /\ receipt'[m][p] = s
<1>1. receipt'[m][p] = s
  BY DEF SetReceipt, IInv, TypeOK, Receipts
<1>2. \A n \in Ms, r \in Plans : <<n, r>> # <<m, p>> => receipt'[n][r] = receipt[n][r]
  BY DEF SetReceipt, IInv, TypeOK, Receipts
<1> QED
  BY <1>1, <1>2 DEF Grows, Advances

(* A step of the tool call: the projection stays, the receipt may advance.  *)
LEMMA ToolStep ==
  ASSUME IInv, IInv', EvidenceInv, NEW w \in Workers, NEW l, Goto(w, l),
         Grows, UNCHANGED q, Overtakes(w), Entitled(w)'
  PROVE  EvidenceInv'
<1>1. \A v \in Workers : v # w => wk'[v] = wk[v] /\ (fresh'[v] => q' = q /\ fresh[v])
  BY GotoShape DEF Overtakes, Threads
<1> QED
  BY <1>1, EvidenceStep

LEMMA PrepareEvidence ==
  ASSUME IInv, IInv', EvidenceInv, NEW w \in Workers, Prepare(w)
  PROVE  EvidenceInv'
<1>1. wk[w].pc = "tool" /\ w \in Threads /\ UNCHANGED <<q, fresh, approved, base>>
  BY DEF Prepare, At, Threads
<1>2. wk[w].m \in Ms /\ base
  BY <1>1 DEF EvidenceInv, Entitled, AtMilestone, PastBaseline, Admitted
<1>3. Overtakes(w) /\ KeepsProof(q')
  BY <1>1, Freshness, ProofPatches
<1>4. CASE (Goto(w, "exit") \/ Goto(w, "error")) /\ UNCHANGED receipt
  BY <1>1, <1>2, <1>3, <1>4, PassingStep DEF Earned, AtMilestone
<1>5. CASE ReceiptOf(w) = "none" /\ fresh[w]
           /\ SetReceipt(wk[w].m, wk[w].p, "open") /\ Goto(w, "run")
  <2>1. wk[w].m \in HighRisk => <<wk[w].m, wk[w].p>> \in approved
    BY <1>1, <1>5 DEF EvidenceInv, Entitled, ActionApproved, Gone
  <2>2. Grows /\ receipt'[wk[w].m][wk[w].p] = "open"
    BY <1>1, <1>2, <1>5, <2>1, ReceiptTyped, SetReceiptGrows DEF Advances, ReceiptOf
  <2>3. wk'[w].pc = "run" /\ wk'[w].m = wk[w].m /\ wk'[w].p = wk[w].p
    BY <1>5, GotoShape
  <2>4. Entitled(w)'
    BY <1>1, <1>2, <2>2, <2>3 DEF Entitled, ReceiptOf
  <2> QED
    BY <1>1, <1>3, <1>5, <2>2, <2>4, ToolStep
<1>6. CASE \/ ReceiptOf(w) \in {"committed", "failed"} /\ Goto(w, "after") /\ UNCHANGED receipt
           \/ ReceiptOf(w) \in {"open", "unknown"} /\ Goto(w, "run") /\ UNCHANGED receipt
  <2>1. PICK l \in {"after", "run"} :
          /\ Goto(w, l) /\ UNCHANGED receipt
          /\ l = "after" => ReceiptOf(w) \in {"committed", "failed"}
          /\ l = "run" => ReceiptOf(w) \in {"open", "unknown"}
    BY <1>6
  <2>2. wk'[w].pc = l /\ wk'[w].m = wk[w].m /\ wk'[w].p = wk[w].p
    BY <2>1, GotoShape
  <2>3. Grows
    BY <1>1, <2>1, Unwritten
  <2>4. Entitled(w)'
    BY <1>1, <1>2, <2>1, <2>2 DEF Entitled, ReceiptOf
  <2> QED
    BY <1>1, <1>3, <2>1, <2>3, <2>4, ToolStep
<1> QED
  BY <1>4, <1>5, <1>6 DEF Prepare

LEMMA RunToolEvidence ==
  ASSUME IInv, IInv', EvidenceInv, NEW w \in Workers, RunTool(w)
  PROVE  EvidenceInv'
<1>1. wk[w].pc = "run" /\ w \in Threads /\ UNCHANGED <<q, approved, base>>
  BY DEF RunTool, At, Threads
<1>2. wk[w].m \in Ms /\ base /\ ReceiptOf(w) # "none"
  BY <1>1 DEF EvidenceInv, Entitled, AtMilestone, PastBaseline, Admitted
<1>3. UNCHANGED fresh \/ fresh' = [u \in Threads |-> FALSE]
  BY DEF RunTool
<1>4. Overtakes(w)
  BY <1>1, <1>3, Freshness
<1>5. PICK l \in {"after", "doubt", "error"} :
        /\ Goto(w, l)
        /\ \/ /\ UNCHANGED receipt
              /\ l = "after" => ReceiptOf(w) \in {"committed", "failed"}
           \/ \E s \in {"committed", "failed", "unknown"} :
                /\ SetReceipt(wk[w].m, wk[w].p, s)
                /\ Advances(ReceiptOf(w), s)
                /\ l = "after" => s \in {"committed", "failed"}
  BY DEF RunTool, Advances
<1>6. Grows /\ (l = "after" => receipt'[wk[w].m][wk[w].p] \in {"committed", "failed"})
  <2>1. CASE UNCHANGED receipt /\ (l = "after" => ReceiptOf(w) \in {"committed", "failed"})
    BY <1>1, <2>1, Unwritten DEF ReceiptOf
  <2>2. CASE \E s \in {"committed", "failed", "unknown"} :
               /\ SetReceipt(wk[w].m, wk[w].p, s)
               /\ Advances(ReceiptOf(w), s)
               /\ l = "after" => s \in {"committed", "failed"}
    <3>1. PICK s \in {"committed", "failed", "unknown"} :
               /\ SetReceipt(wk[w].m, wk[w].p, s)
               /\ Advances(ReceiptOf(w), s)
               /\ l = "after" => s \in {"committed", "failed"}
      BY <2>2
    <3> QED
      BY <1>1, <1>2, <3>1, ReceiptTyped, SetReceiptGrows DEF ReceiptOf
  <2> QED
    BY <1>5, <2>1, <2>2
<1>7. wk'[w].pc = l /\ wk'[w].m = wk[w].m /\ wk'[w].p = wk[w].p
  BY <1>5, GotoShape
<1>8. Entitled(w)'
  BY <1>1, <1>2, <1>6, <1>7 DEF Entitled, ReceiptOf
<1> QED
  BY <1>1, <1>4, <1>5, <1>6, <1>8, ToolStep

LEMMA InDoubtEvidence ==
  ASSUME IInv, IInv', EvidenceInv, NEW w \in Workers, InDoubt(w)
  PROVE  EvidenceInv'
<1>1. /\ wk[w].pc = "doubt" /\ w \in Threads /\ UNCHANGED <<q, receipt, approved, base>>
      /\ Read(w) \/ UNCHANGED fresh
  BY DEF InDoubt, ReadOn, At, Threads, tables
<1>2. wk[w].m \in Ms /\ base
  BY <1>1 DEF EvidenceInv, Entitled, AtMilestone, PastBaseline, Admitted
<1>3. PICK l \in {"exit", "unknown"} : Goto(w, l)
  BY DEF InDoubt, ReadOn
<1>4. Overtakes(w) /\ KeepsProof(q')
  BY <1>1, Freshness, ProofPatches
<1> QED
  BY <1>1, <1>2, <1>3, <1>4, PassingStep DEF Earned

------------------------------------------------------------------------------
LEMMA AfterEvidence ==
  ASSUME IInv, IInv', EvidenceInv, NEW w \in Workers, After(w)
  PROVE  EvidenceInv'
<1> DEFINE to == CASE Gone(w) -> "error"
                   [] ~Gone(w) /\ ReceiptOf(w) = "failed" -> "failed"
                   [] OTHER -> "verifying"
<1>1. /\ wk[w].pc = "after" /\ w \in Threads /\ UNCHANGED <<q, receipt, approved, base>>
      /\ Read(w) \/ UNCHANGED fresh
      /\ Goto(w, "exit") \/ Goto(w, to)
  BY DEF After, ReadOn, At, Threads, tables
<1>2. /\ wk[w].m \in Ms /\ base
      /\ ReceiptOf(w) \in {"committed", "failed"}
  BY <1>1 DEF EvidenceInv, Entitled, AtMilestone, PastBaseline, Admitted
<1>3. /\ to \in {"error", "failed", "verifying"}
      /\ to = "verifying" => ReceiptOf(w) = "committed"
  BY <1>2
<1> HIDE DEF to
<1>4. PICK l \in {"exit", "error", "failed", "verifying"} :
        Goto(w, l) /\ (l = "verifying" => ReceiptOf(w) = "committed")
  BY <1>1, <1>3
<1>5. wk'[w].pc = l /\ wk'[w].m = wk[w].m /\ wk'[w].p = wk[w].p
  BY <1>4, GotoShape
<1>6. Grows /\ Overtakes(w)
  BY <1>1, Unwritten, Freshness
<1>7. Entitled(w)'
  BY <1>1, <1>2, <1>4, <1>5 DEF Entitled, ReceiptOf
<1> QED
  BY <1>1, <1>4, <1>6, <1>7, ToolStep

LEMMA StartVerificationEvidence ==
  ASSUME IInv, IInv', EvidenceInv, NEW w \in Workers, StartVerification(w)
  PROVE  EvidenceInv'
<1>1. /\ wk[w].pc = "verifying" /\ w \in Threads /\ UNCHANGED <<receipt, approved, base>>
  BY DEF StartVerification, At, Threads, tables
<1>2. wk[w].m \in Ms /\ base /\ ReceiptOf(w) = "committed"
  BY <1>1 DEF EvidenceInv, Entitled, AtMilestone, PastBaseline, Admitted
<1>3. CASE Retry(w)
  <2>1. Overtakes(w) /\ KeepsProof(q')
    BY <1>1, <1>3, Freshness, ProofPatches DEF Retry, Conflict
  <2> QED
    BY <1>1, <1>2, <1>3, <2>1, PassingStep DEF Retry, Earned, AtMilestone
<1>4. CASE ~Retry(w)
  <2>1. /\ Append(w, [q EXCEPT !.status = "verifying", !.ms[wk[w].m] = "verifying"])
        /\ Goto(w, "verify")
    BY <1>4 DEF StartVerification
  <2>2. Overtakes(w)
    BY <1>1, <2>1, Freshness
  <2>3. KeepsProof(q')
    BY <1>2, <2>1, MilestoneProofPatches DEF Append
  <2>4. /\ wk'[w].pc = "verify" /\ wk'[w].m = wk[w].m /\ wk'[w].p = wk[w].p
        /\ \A v \in Workers : v # w => wk'[v] = wk[v]
    BY <2>1, GotoShape
  <2>5. Entitled(w)'
    BY <1>1, <1>2, <2>4 DEF Entitled, ReceiptOf
  <2> QED
    BY <1>1, <2>2, <2>3, <2>4, <2>5, EntitledStep
<1> QED
  BY <1>3, <1>4

(* The verified milestone is still in the plan that was read with it.       *)
LEMMA VerifyEvidence ==
  ASSUME IInv, IInv', EvidenceInv, NEW w \in Workers, Verify(w)
  PROVE  EvidenceInv'
<1>1. /\ wk[w].pc = "verify" /\ w \in Threads /\ UNCHANGED <<q, receipt, approved, base>>
      /\ Read(w) \/ UNCHANGED fresh
  BY DEF Verify, At, Threads
<1>2. wk[w].m \in Ms /\ base /\ ReceiptOf(w) = "committed"
  BY <1>1 DEF EvidenceInv, Entitled, AtMilestone, PastBaseline, Admitted
<1>3. CASE Goto(w, "exit") \/ Goto(w, "error")
  <2>1. {"exit", "error"} \cap (Earned \cup AtMilestone \cup PastBaseline) = {}
    BY DEF Earned, AtMilestone, PastBaseline, Admitted
  <2> QED
    BY <1>1, <1>3, <2>1, LookingStep
<1>4. Overtakes(w) /\ KeepsProof(q')
  BY <1>1, Freshness, ProofPatches
<1>5. CASE ~Gone(w) /\ Goto(w, "verified")
  <2>1. /\ wk'[w].pc = "verified" /\ wk'[w].m = wk[w].m /\ wk'[w].p = wk[w].p
        /\ \A v \in Workers : v # w => wk'[v] = wk[v]
    BY <1>5, GotoShape
  <2>2. Entitled(w)'
    BY <1>1, <1>2, <1>5, <2>1 DEF Entitled, ReceiptOf, Gone
  <2> QED
    BY <1>1, <1>4, <2>1, <2>2, EntitledStep
<1>6. CASE wk' = [wk EXCEPT ![w] = [@ EXCEPT
                    !.seen = [plan |-> q.plan, done |-> Completed],
                    !.pc = IF stall' >= Threshold THEN "looping"
                           ELSE IF q.replans >= MaxReplans THEN "stuck"
                           ELSE "replan"]]
  <2> DEFINE s == [plan |-> q.plan, done |-> Completed]
             l == IF stall' >= Threshold THEN "looping"
                  ELSE IF q.replans >= MaxReplans THEN "stuck" ELSE "replan"
  <2>1. /\ wk' = [wk EXCEPT ![w] = [@ EXCEPT !.seen = s, !.pc = l]]
        /\ l \in {"looping", "stuck", "replan"}
    BY <1>6
  <2> HIDE DEF s, l
  <2>2. wk'[w].pc = l /\ \A v \in Workers : v # w => wk'[v] = wk[v]
    BY <2>1 DEF IInv, TypeOK, WorkerStates
  <2>3. Entitled(w)'
    BY <1>1, <1>2, <2>1, <2>2 DEF Entitled, AtMilestone
  <2> QED
    BY <1>1, <1>4, <2>2, <2>3, EntitledStep
<1> QED
  BY <1>3, <1>5, <1>6 DEF Verify

(* MilestoneVerified: the completed attempt is the one whose receipt the    *)
(* worker was handed.                                                       *)
LEMMA MilestoneVerifiedEvidence ==
  ASSUME IInv, IInv', EvidenceInv, NEW w \in Workers, MilestoneVerified(w)
  PROVE  EvidenceInv'
<1>1. wk[w].pc = "verified" /\ w \in Threads /\ UNCHANGED <<receipt, approved, base>>
      /\ Goto(w, "loop")
  BY DEF MilestoneVerified, Retry, At, Threads
<1>2. wk[w].m \in Ms /\ base /\ ReceiptOf(w) = "committed"
  BY <1>1 DEF EvidenceInv, Entitled, AtMilestone, PastBaseline, Admitted
<1>3. CASE Retry(w)
  <2>1. Overtakes(w) /\ KeepsProof(q')
    BY <1>1, <1>3, Freshness, ProofPatches DEF Retry, Conflict
  <2> QED
    BY <1>1, <1>2, <1>3, <2>1, PassingStep DEF Earned, AtMilestone
<1>4. CASE ~Retry(w)
  <2>1. Append(w, [q EXCEPT !.status = "running", !.ms[wk[w].m] = "completed"])
    BY <1>4 DEF MilestoneVerified
  <2>2. Overtakes(w)
    BY <1>1, <2>1, Freshness
  <2>3. q.num[wk[w].m] = wk[w].p
    BY <1>1, <2>1 DEF Append, EvidenceInv, Entitled, Gone
  <2>4. /\ q'.num = q.num
        /\ \A m \in Ms : m # wk[w].m => q'.ms[m] = q.ms[m]
    BY <1>2, <2>1 DEF Append, IInv, TypeOK, Quests
  <2>5. \A m \in Ms : q'.ms[m] = "completed" =>
            \/ q.ms[m] = "completed" /\ q'.num[m] = q.num[m]
            \/ receipt'[m][q'.num[m]] = "committed"
    BY <1>1, <1>2, <2>3, <2>4 DEF ReceiptOf
  <2>6. wk'[w].pc = "loop" /\ \A v \in Workers : v # w => wk'[v] = wk[v]
    BY <1>1, GotoShape
  <2>7. Entitled(w)'
    BY <1>1, <1>2, <2>6 DEF Entitled, AtMilestone
  <2>8. \A v \in Workers : v # w => wk'[v] = wk[v] /\ (fresh'[v] => q' = q /\ fresh[v])
    BY <2>2, <2>6 DEF Overtakes, Threads
  <2>9. Grows
    BY <1>1, Unwritten
  <2> QED
    BY <2>5, <2>7, <2>8, <2>9, EvidenceStep
<1> QED
  BY <1>3, <1>4

LEMMA StorePlanEvidence ==
  ASSUME IInv, IInv', EvidenceInv, NEW w \in Workers, StorePlan(w)
  PROVE  EvidenceInv'
<1>1. /\ wk[w].pc = "store" /\ w \in Threads /\ UNCHANGED <<receipt, approved, base>>
      /\ Goto(w, "loop") \/ Goto(w, "error")
  BY DEF StorePlan, Retry, At, Threads, tables
<1>2. base
  BY <1>1 DEF EvidenceInv, Entitled, PastBaseline, Admitted
<1>3. UNCHANGED <<q, fresh>> \/ Append(w, Replanned)
  BY DEF StorePlan, Retry, Conflict
<1>4. Overtakes(w)
  BY <1>1, <1>3, Freshness
<1>5. KeepsProof(q) /\ KeepsProof(Replanned)
  <2>1. KeepsProof(q)
    BY ProofPatches
  <2>2. q \in Quests
    BY DEF IInv, TypeOK
  <2>3. \A m \in Ms : /\ Replanned.ms[m] = "completed" => m \in Completed
                      /\ m \in Completed => Replanned.num[m] = q.num[m]
    BY <2>2 DEF Replanned, Quests
  <2> QED
    BY <2>1, <2>3 DEF KeepsProof, Completed
<1>6. KeepsProof(q')
  BY <1>3, <1>5 DEF Append
<1> QED
  BY <1>1, <1>2, <1>4, <1>6, PassingStep DEF Earned, AtMilestone

LEMMA WorkerEvidence ==
  ASSUME IInv, IInv', EvidenceInv, NEW w \in Workers, Worker(w)
  PROVE  EvidenceInv'
BY LeavingSteps, LookingSteps, PoolEvidence, LoopEvidence, StartMilestoneEvidence,
   PrepareEvidence, RunToolEvidence, InDoubtEvidence, AfterEvidence, StartVerificationEvidence,
   VerifyEvidence, MilestoneVerifiedEvidence, StorePlanEvidence DEF Worker

(* The steps of nobody in particular leave every worker where it is, or put *)
(* it to rest.                                                              *)
LEMMA BystanderStep ==
  ASSUME IInv, IInv', EvidenceInv, Grows, KeepsProof(q'),
         \A v \in Workers :
            \/ wk'[v] = wk[v] /\ (fresh'[v] => q' = q /\ fresh[v])
            \/ wk'[v] = Resting
  PROVE  EvidenceInv'
<1>1. ASSUME NEW v \in Workers, wk'[v] = Resting PROVE Entitled(v)'
  BY <1>1 DEF Entitled, Resting, PastBaseline, Admitted, AtMilestone
<1> QED
  BY <1>1, EvidenceStep DEF KeepsProof

LEMMA HeartbeatEvidence ==
  ASSUME IInv, IInv', EvidenceInv, NEW w \in Workers, HeartbeatLost(w)
  PROVE  EvidenceInv'
<1>1. UNCHANGED <<q, fresh, receipt, approved, base>> /\ w \in Threads
  BY DEF HeartbeatLost, tables, Threads
<1>2. /\ wk'[w].pc = wk[w].pc /\ wk'[w].m = wk[w].m /\ wk'[w].p = wk[w].p
      /\ \A v \in Workers : v # w => wk'[v] = wk[v]
  BY DEF HeartbeatLost, IInv, TypeOK, WorkerStates
<1>3. Entitled(w)
  BY DEF EvidenceInv
<1>4. Entitled(w)'
  BY <1>1, <1>2, <1>3 DEF Entitled, ReceiptOf, Gone, ActionApproved
<1>5. Overtakes(w) /\ KeepsProof(q')
  BY <1>1, Freshness, ProofPatches
<1> QED
  BY <1>1, <1>2, <1>4, <1>5, EntitledStep

LEMMA RequestEvidence ==
  ASSUME IInv, IInv', EvidenceInv, NEW c \in Clients, Call(c) \/ Request(c)
  PROVE  EvidenceInv'
<1>1. c \in Threads /\ c \notin Workers /\ Workers \subseteq Threads
  BY QuestAssumption DEF Threads, QuestAssumption
<1>2. UNCHANGED <<wk, approved, base>>
  BY DEF Call, Request, StartRead, PauseRead, ResumeRead, StartQuest, PauseQuest,
         ResumeReconcile, RecoverRead, RecoveryStarted, RecoveryCompleted,
         others, tables
<1>3. CASE Call(c) \/ RecoverRead(c)
  <2>1. UNCHANGED <<q, receipt>> /\ Read(c)
    BY <1>3 DEF Call, StartRead, PauseRead, ResumeRead, RecoverRead, others, tables
  <2>2. Grows /\ Overtakes(c) /\ KeepsProof(q')
    BY <1>1, <1>2, <2>1, Unwritten, Freshness, ProofPatches
  <2> QED
    BY <1>1, <1>2, <2>2, BystanderStep DEF Overtakes
<1>4. CASE StartQuest(c) \/ PauseQuest(c) \/ RecoveryStarted(c) \/ RecoveryCompleted(c)
  <2>1. PICK new : /\ \/ new = [q EXCEPT !.status = "running"]
                      \/ new = [q EXCEPT !.pause = TRUE]
                      \/ new = [q EXCEPT !.status = "recovering", !.pause = FALSE]
                      \/ new = [q EXCEPT !.status = "running", !.error = "none"]
                   /\ Append(c, new) \/ UNCHANGED <<q, fresh>>
    BY <1>4 DEF StartQuest, PauseQuest, RecoveryStarted, RecoveryCompleted, Conflict
  <2>2. KeepsProof(new) /\ KeepsProof(q)
    <3>1. KeepsProof([q EXCEPT !.status = "running"]) /\ KeepsProof(q)
      BY ProofPatches
    <3>2. KeepsProof([q EXCEPT !.pause = TRUE])
      BY ProofPatches
    <3>3. KeepsProof([q EXCEPT !.status = "recovering", !.pause = FALSE])
      BY ProofPatches
    <3>4. KeepsProof([q EXCEPT !.status = "running", !.error = "none"])
      BY ProofPatches
    <3> QED
      BY <2>1, <3>1, <3>2, <3>3, <3>4
  <2>3. KeepsProof(q')
    BY <2>1, <2>2 DEF Append
  <2>4. UNCHANGED receipt
    BY <1>4 DEF StartQuest, PauseQuest, RecoveryStarted, RecoveryCompleted, others, tables
  <2>5. Grows /\ Overtakes(c)
    BY <1>1, <1>2, <2>1, <2>4, Unwritten, Freshness
  <2> QED
    BY <1>1, <1>2, <2>3, <2>5, BystanderStep DEF Overtakes
<1>5. CASE ResumeReconcile(c)
  <2>1. CASE \E a \in Ambiguous : /\ SetReceipt(a[1], a[2], "committed")
                                  /\ fresh' = [u \in Threads |-> FALSE]
                                  /\ UNCHANGED q
    <3>1. PICK m \in Ms, p \in Plans : /\ receipt[m][p] = "unknown"
                                       /\ SetReceipt(m, p, "committed")
                                       /\ fresh' = [u \in Threads |-> FALSE]
                                       /\ UNCHANGED q
      BY <2>1 DEF Ambiguous
    <3>2. Grows
      BY <1>2, <3>1, SetReceiptGrows DEF Advances
    <3>3. Overtakes(c) /\ KeepsProof(q')
      BY <1>1, <3>1, Freshness, ProofPatches
    <3> QED
      BY <1>1, <1>2, <3>2, <3>3, BystanderStep DEF Overtakes
  <2>2. CASE /\ UNCHANGED receipt
             /\ \/ Append(c, [q EXCEPT !.status = "waiting_user"])
                \/ UNCHANGED <<q, fresh>>
    <3>1. KeepsProof([q EXCEPT !.status = "waiting_user"]) /\ KeepsProof(q)
      BY ProofPatches
    <3>2. KeepsProof(q')
      BY <2>2, <3>1 DEF Append
    <3>3. Grows /\ Overtakes(c)
      BY <1>1, <1>2, <2>2, Unwritten, Freshness
    <3> QED
      BY <1>1, <1>2, <3>2, <3>3, BystanderStep DEF Overtakes
  <2> QED
    BY <1>5, <2>1, <2>2 DEF ResumeReconcile, Conflict
<1> QED
  BY <1>3, <1>4, <1>5 DEF Request

LEMMA DecisionEvidence ==
  ASSUME IInv, IInv', EvidenceInv, Approve \/ Reject \/ Modify
  PROVE  EvidenceInv'
<1>1. UNCHANGED <<receipt, base, wk>> /\ fresh' = [u \in Threads |-> FALSE]
      /\ Workers \subseteq Threads
  BY DEF Approve, Reject, Modify, Decide, Threads
<1>2. approved \subseteq approved'
  BY DEF Approve, Reject, Modify
<1>3. Grows
  BY <1>1, <1>2 DEF Grows, Advances
<1>4. KeepsProof(q')
  <2>1. q \in Quests
    BY DEF IInv, TypeOK
  <2>2. CASE Approve
    BY <2>1, <2>2 DEF Approve, Decide, KeepsProof, Quests
  <2>3. CASE Reject
    BY <2>1, <2>3 DEF Reject, Decide, KeepsProof, Quests
  <2>4. CASE Modify
    BY <2>1, <2>4 DEF Modify, Decide, Modified, KeepsProof, Quests
  <2> QED
    BY <2>2, <2>3, <2>4
<1>5. \A v \in Workers : wk'[v] = wk[v] /\ ~fresh'[v]
  BY <1>1
<1> QED
  BY <1>3, <1>4, <1>5, BystanderStep

LEMMA CrashEvidence ==
  ASSUME IInv, IInv', EvidenceInv, Crash \/ Restart \/ Expire \/ UNCHANGED vars
  PROVE  EvidenceInv'
<1>1. UNCHANGED <<approved, base>>
  BY DEF Crash, Restart, Expire, vars, tables
<1>2. Grows
  <2>1. CASE UNCHANGED receipt
    BY <1>1, <2>1, Unwritten
  <2>2. CASE receipt' = [m \in Ms |-> [p \in Plans |->
               IF receipt[m][p] = "open" THEN "unknown" ELSE receipt[m][p]]]
    <3>1. \A m \in Ms, p \in Plans :
            receipt'[m][p] = IF receipt[m][p] = "open" THEN "unknown" ELSE receipt[m][p]
      BY <2>2
    <3> QED
      BY <1>1, <3>1 DEF Grows, Advances
  <2> QED
    BY <2>1, <2>2 DEF Crash, Restart, Expire, vars, tables
<1>3. KeepsProof(q')
  <2>1. KeepsProof(q) /\ KeepsProof([q EXCEPT !.status = "paused", !.pause = FALSE])
    BY ProofPatches
  <2> QED
    BY <2>1 DEF Crash, Restart, Interrupted, Expire, vars
<1>4. \A v \in Workers : \/ wk'[v] = wk[v] /\ (fresh'[v] => q' = q /\ fresh[v])
                         \/ wk'[v] = Resting
  <2>1. CASE Crash
    BY <2>1 DEF Crash
  <2>2. CASE Restart
    BY <2>2 DEF Restart, IInv, BudgetInv, DownStale, Threads
  <2>3. CASE Expire \/ UNCHANGED vars
    BY <2>3 DEF Expire, vars
  <2> QED
    BY <2>1, <2>2, <2>3
<1> QED
  BY <1>2, <1>3, <1>4, BystanderStep

LEMMA EvidenceKept == IInv /\ EvidenceInv /\ [Next]_vars => EvidenceInv'
<1> SUFFICES ASSUME IInv, EvidenceInv, [Next]_vars PROVE EvidenceInv'
  OBVIOUS
<1>0. IInv'
  BY NextKeepsInvariant
<1>1. ASSUME NEW w \in Workers, Worker(w) PROVE EvidenceInv'
  BY <1>0, <1>1, WorkerEvidence
<1>2. ASSUME NEW w \in Workers, HeartbeatLost(w) PROVE EvidenceInv'
  BY <1>0, <1>2, HeartbeatEvidence
<1>3. ASSUME NEW c \in Clients, Call(c) \/ Request(c) PROVE EvidenceInv'
  BY <1>0, <1>3, RequestEvidence
<1>4. CASE Approve \/ Reject \/ Modify
  BY <1>0, <1>4, DecisionEvidence
<1>5. CASE Crash \/ Restart \/ Expire \/ UNCHANGED vars
  BY <1>0, <1>5, CrashEvidence
<1> QED
  BY <1>1, <1>2, <1>3, <1>4, <1>5 DEF Next

LEMMA InitialEvidence == Init => EvidenceInv
<1> SUFFICES ASSUME Init PROVE EvidenceInv
  OBVIOUS
<1>1. Completed = {} /\ \A m \in Ms, p \in Plans : receipt[m][p] = "none"
  BY DEF Init, Completed
<1>2. \A m \in HighRisk : m \in Ms
  BY QuestAssumption DEF QuestAssumption
<1>3. EvidenceComplete /\ ApprovedBeforeTool
  BY <1>1, <1>2 DEF EvidenceComplete, CompletedNeedsReceipt, BaselineBeforeTool,
                    ApprovedBeforeTool
<1>4. \A w \in Workers : wk[w].pc = "idle"
  BY DEF Init, Resting
<1>5. \A w \in Workers : Entitled(w)
  BY <1>4 DEF Entitled, PastBaseline, Admitted, AtMilestone
<1> QED
  BY <1>3, <1>5 DEF EvidenceInv

(* Whatever workers overtake each other, whatever crashes, expires or is    *)
(* modified: a completed milestone names a committed action, and no tool    *)
(* action is prepared before the baseline (append_event, replan_plan,       *)
(* _record_execution_baseline, _execute_milestone).                         *)
THEOREM EvidenceIsComplete == Spec => []EvidenceComplete
<1>1. EvidenceInv => EvidenceComplete
  BY DEF EvidenceInv
<1> QED
  BY <1>1, InitiallyInvariant, NextKeepsInvariant, InitialEvidence, EvidenceKept,
     PTL DEF Spec

(* No tool action of a high-risk milestone exists that the user did not     *)
(* approve under its own attempt number (_action_is_approved).              *)
THEOREM RiskIsApproved == Spec => []ApprovedBeforeTool
<1>1. EvidenceInv => ApprovedBeforeTool
  BY DEF EvidenceInv
<1> QED
  BY <1>1, InitiallyInvariant, NextKeepsInvariant, InitialEvidence, EvidenceKept,
     PTL DEF Spec

------------------------------------------------------------------------------
(* Who executes: the lease, and what one client at a time can ask for.      *)

Exec == Admitted \ {"pause", "error", "fail"}

(* Until a lease runs out under its holder, every executing worker holds it.*)
LeaseInv ==
  /\ ~up => \A w \in Workers : ~Executing(w)
  /\ expiries = 0 =>
       \A w \in Workers : Executing(w) => lease = [owner |-> w, live |-> TRUE]

Busy(w) == wk[w].pc \notin {"idle", "exit"}

(* The statuses in which the Quest is some worker's business.               *)
Worked == {"running", "verifying", "replanning"}

NobodyAtWork == queue = 0 /\ \A w \in Workers : ~Busy(w)

OneClient == \A c, d \in Clients : c = d

(* With one client there is one task for the Quest at a time, queued or     *)
(* taken, and only while the status says so: what the client asked for was  *)
(* granted in a status in which nobody was at work.                         *)
SoloInv ==
  /\ queue <= 1
  /\ queue > 0 => \A w \in Workers : ~Busy(w)
  /\ \A v, w \in Workers : Busy(v) /\ Busy(w) => v = w
  /\ q.status \notin Worked => NobodyAtWork
  /\ ~up => /\ NobodyAtWork
            /\ \A c \in Clients : rq[c] = "idle"
  /\ \A c \in Clients :
       /\ rq[c] = "start" => q.status = "planned"
       /\ rq[c] \in {"reconcile", "recover", "recovery_started"} => q.status \in Resumable
       /\ rq[c] \in {"recover2", "recovery_completed"} => q.status = "recovering"

(* The milestone being worked on or waiting for an approval is not completed.*)
OpenInv ==
  /\ \A w \in Workers : wk[w].pc \in AtMilestone => wk[w].m \in Ms \ Completed
  /\ q.pend # NoM => q.pend \in Ms \ Completed /\ q.status \in {"waiting_user", "failed"}

(* What every step of a busy worker does, but for its admission and its end.*)
Ordinary(w) ==
  /\ up /\ Busy(w)
  /\ UNCHANGED <<lease, queue, rq, bounds>>
  /\ \A v \in Workers : v # w => wk'[v] = wk[v]
  /\ wk'[w].pc \in Exec => wk[w].pc \in Exec
  /\ q' = q \/ q'.status \in Worked \/ wk'[w].pc = "exit"

(* ... and to the milestones.                                               *)
Progresses(w) ==
  /\ \A m \in Ms : q.ms[m] = "completed" => q'.ms[m] = "completed"
  /\ wk'[w].pc \in AtMilestone => wk'[w].m \in Ms /\ q'.ms[wk'[w].m] # "completed"
  /\ q'.pend # q.pend => /\ q'.pend \in Ms /\ q'.ms[q'.pend] # "completed"
                         /\ q'.status = "waiting_user"

LEMMA OrdinaryGoto ==
  ASSUME IInv, NEW w \in Workers, NEW l, Goto(w, l), up, UNCHANGED sched,
         wk[w].pc \notin {"idle", "exit"}, wk[w].pc \in Exec \/ l \notin Exec,
         q' = q \/ q'.status \in Worked \/ l = "exit"
  PROVE  Ordinary(w)
BY GotoShape DEF Ordinary, Busy, sched

LEMMA PcClasses ==
  /\ {"baseline", "loop", "exhaust", "start", "ask", "approval", "tool", "run", "doubt",
      "after", "failed", "unknown", "verifying", "verify", "verified", "looping", "stuck",
      "replan", "newplan", "store", "finalize", "final", "complete", "final_user"} \subseteq Exec
  /\ {"idle", "begin", "admit", "exit", "pause", "error", "fail"} \cap Exec = {}
  /\ {"running", "verifying", "replanning"} \subseteq Worked
BY DEF Exec, Admitted, Worked

LEMMA OrdinaryReading ==
  ASSUME IInv, NEW w \in Workers,
         \/ Begin(w) \/ Baseline(w) \/ AskRead(w) \/ Prepare(w) \/ RunTool(w)
         \/ InDoubt(w) \/ After(w) \/ LoopRead(w) \/ PlanRead(w) \/ FinalVerify(w) \/ UnexpectedFailure(w)
  PROVE  Ordinary(w) /\ q' = q
<1>1. /\ up /\ UNCHANGED sched /\ q' = q
      /\ wk[w].pc \notin {"idle", "exit"}
  BY DEF Begin, Baseline, AskRead, Prepare, RunTool, InDoubt, After, LoopRead, PlanRead,
         FinalVerify, UnexpectedFailure, ReadOn, At
<1>2. CASE wk[w].pc \in Exec
  <2>1. \E l : Goto(w, l)
    BY DEF Begin, Baseline, AskRead, Prepare, RunTool, InDoubt, After, LoopRead, PlanRead,
           FinalVerify, UnexpectedFailure, ReadOn
  <2> QED
    BY <1>1, <1>2, <2>1, OrdinaryGoto
<1>3. CASE wk[w].pc \notin Exec
  <2>1. Begin(w) \/ UnexpectedFailure(w)
    BY <1>3, PcClasses DEF Baseline, AskRead, Prepare, RunTool, InDoubt, After, LoopRead, PlanRead,
                           FinalVerify, ReadOn, At
  <2>2. \E l \in {"pause", "admit", "exit", "fail"} : Goto(w, l)
    BY <2>1 DEF Begin, UnexpectedFailure
  <2> QED
    BY <1>1, <2>2, PcClasses, OrdinaryGoto
<1> QED
  BY <1>1, <1>2, <1>3

LEMMA OrdinaryAppending ==
  ASSUME IInv, NEW w \in Workers,
         Pause(w) \/ Exhaust(w) \/ StartMilestone(w) \/ RequireApproval(w) \/
         ToolFailed(w) \/ ToolEffectUnknown(w) \/ StartVerification(w) \/
         MilestoneVerified(w) \/ NeedUser(w) \/ StartReplanning(w) \/ StorePlan(w) \/
         Finalize(w) \/ Complete(w) \/ FinalNeedsUser(w) \/ FailQuest(w)
  PROVE  Ordinary(w)
<1>1. q \in Quests /\ (Conflict(w) => q' = q)
  BY DEF IInv, TypeOK, Conflict
<1>2. CASE Pause(w)
  <2>1. Goto(w, "exit") \/ (q' = q /\ Goto(w, "error"))
    BY <1>1, <1>2 DEF Pause
  <2> QED
    BY <1>2, <2>1, PcClasses, OrdinaryGoto DEF Pause, At
<1>3. CASE Exhaust(w) \/ Complete(w) \/ FinalNeedsUser(w)
  <2>1. Goto(w, "exit") \/ (q' = q /\ Goto(w, "error"))
    BY <1>1, <1>3 DEF Exhaust, Complete, FinalNeedsUser
  <2> QED
    BY <1>3, <2>1, PcClasses, OrdinaryGoto DEF Exhaust, Complete, FinalNeedsUser, At
<1>4. CASE RequireApproval(w) \/ ToolFailed(w) \/ ToolEffectUnknown(w) \/ NeedUser(w)
  <2>1. Goto(w, "exit") \/ (q' = q /\ Goto(w, "loop"))
    BY <1>1, <1>4 DEF RequireApproval, ToolFailed, ToolEffectUnknown, NeedUser, Retry
  <2> QED
    BY <1>4, <2>1, PcClasses, OrdinaryGoto
    DEF RequireApproval, ToolFailed, ToolEffectUnknown, NeedUser, At
<1>5. CASE FailQuest(w)
  BY <1>5, PcClasses, OrdinaryGoto DEF FailQuest, At
<1>6. CASE StartMilestone(w) \/ StartVerification(w) \/ MilestoneVerified(w) \/
           StartReplanning(w) \/ StorePlan(w) \/ Finalize(w)
  <2>1. \E l : Goto(w, l)
    BY <1>6 DEF StartMilestone, StartVerification, MilestoneVerified, StartReplanning,
                StorePlan, Finalize, Retry
  <2>2. q' = q \/ q'.status \in {"running", "verifying", "replanning"}
    <3>1. CASE StartMilestone(w)
      BY <1>1, <3>1 DEF StartMilestone, AppendAndHold, Retry, Conflict, Quests
    <3>2. CASE StartVerification(w) \/ MilestoneVerified(w) \/ StartReplanning(w) \/
               Finalize(w)
      BY <1>1, <3>2 DEF StartVerification, MilestoneVerified, StartReplanning, Finalize,
                        Append, Retry, Conflict, Quests
    <3>3. CASE StorePlan(w)
      BY <1>1, <3>3 DEF StorePlan, Replanned, Append, Retry, Conflict, Quests
    <3> QED
      BY <1>6, <3>1, <3>2, <3>3
  <2>3. /\ up /\ UNCHANGED sched
        /\ wk[w].pc \in {"start", "verifying", "verified", "replan", "store", "finalize"}
    BY <1>6 DEF StartMilestone, StartVerification, MilestoneVerified, StartReplanning,
                StorePlan, Finalize, At
  <2> QED
    BY <2>1, <2>2, <2>3, PcClasses, OrdinaryGoto
<1> QED
  BY <1>2, <1>3, <1>4, <1>5, <1>6

LEMMA OrdinaryDeciding ==
  ASSUME IInv, NEW w \in Workers, Loop(w) \/ Verify(w)
  PROVE  Ordinary(w) /\ q' = q
<1>1. /\ up /\ UNCHANGED <<q, sched>> /\ wk[w].pc \in {"loop", "verify"}
  BY DEF Loop, Verify, At
<1>2. \/ \E l : Goto(w, l)
      \/ \E x : wk' = [wk EXCEPT ![w] = x]
  BY DEF Loop, Verify
<1>3. \A v \in Workers : v # w => wk'[v] = wk[v]
  BY <1>2, GotoShape DEF IInv, TypeOK
<1> QED
  BY <1>1, <1>3, PcClasses DEF Ordinary, Busy, sched

------------------------------------------------------------------------------
LEMMA OrdinaryOrPool ==
  ASSUME IInv, NEW w \in Workers, Worker(w)
  PROVE  Ordinary(w) \/ TakeTask(w) \/ Admit(w) \/ Exit(w)
BY OrdinaryReading, OrdinaryAppending, OrdinaryDeciding DEF Worker

(* What taking a task, being admitted and leaving do to the threads.        *)
LEMMA PoolStep ==
  ASSUME IInv, NEW w \in Workers, TakeTask(w) \/ Admit(w) \/ Exit(w)
  PROVE  /\ up /\ UNCHANGED <<rq, bounds>>
         /\ \A v \in Workers : v # w => wk'[v] = wk[v]
         /\ TakeTask(w) => /\ wk'[w].pc = "begin" /\ queue > 0 /\ queue' = queue - 1
                           /\ UNCHANGED <<q, lease>>
         /\ Exit(w) => /\ wk[w].pc = "exit" /\ wk'[w].pc = "idle"
                       /\ UNCHANGED <<q, queue>>
         /\ Admit(w) => /\ wk[w].pc = "admit" /\ UNCHANGED queue
                        /\ wk'[w].pc \in {"baseline", "exit", "error"}
                        /\ q' = q \/ q'.status = "running"
<1>1. q \in Quests /\ wk \in [Workers -> WorkerStates]
  BY DEF IInv, TypeOK
<1>2. CASE TakeTask(w)
  BY <1>1, <1>2 DEF TakeTask, Exit, Admit, At, Resting
<1>3. CASE Exit(w)
  BY <1>1, <1>3 DEF TakeTask, Exit, Admit, At, Resting
<1>4. CASE Admit(w)
  <2>1. PICK l \in {"baseline", "exit", "error"} : Goto(w, l)
    BY <1>4 DEF Admit
  <2>2. q' = q \/ q'.status = "running"
    BY <1>1, <1>4 DEF Admit, AppendAndHold, Conflict, Quests
  <2> QED
    BY <1>4, <2>1, <2>2, GotoShape DEF TakeTask, Exit, Admit, At
<1> QED
  BY <1>2, <1>3, <1>4

(* admit_execution refuses whoever does not find the lease free or his own. *)
LEMMA LeaseKept == IInv /\ LeaseInv /\ [Next]_vars => LeaseInv'
<1> SUFFICES ASSUME IInv, LeaseInv, [Next]_vars PROVE LeaseInv'
  OBVIOUS
<1> USE DEF Executing
<1>1. ASSUME NEW w \in Workers, Worker(w) PROVE LeaseInv'
  <2>1. CASE Ordinary(w)
    <3>1. UNCHANGED <<lease, up, expiries>> /\ up
      BY <2>1 DEF Ordinary, bounds
    <3>2. \A v \in Workers : wk'[v].pc \in Exec => wk[v].pc \in Exec
      BY <2>1 DEF Ordinary
    <3> QED
      BY <3>1, <3>2 DEF LeaseInv, Exec
  <2>2. CASE TakeTask(w)
    <3>1. /\ UNCHANGED <<lease, up, expiries>> /\ up
          /\ \A v \in Workers : wk'[v].pc \in Exec => wk[v].pc \in Exec
      BY <2>2, PoolStep, PcClasses DEF bounds
    <3> QED
      BY <3>1 DEF LeaseInv, Exec
  <2>3. CASE Exit(w)
    <3>1. /\ UNCHANGED <<up, expiries>> /\ up
          /\ lease' = IF lease.owner = w THEN NoLease ELSE lease
      BY <2>3, PoolStep DEF bounds, Exit
    <3>2. \A v \in Workers : wk'[v].pc \in Exec => v # w /\ wk[v].pc \in Exec
      BY <2>3, PoolStep, PcClasses
    <3>3. expiries = 0 => \A v \in Workers : v # w /\ wk[v].pc \in Exec =>
            lease = [owner |-> v, live |-> TRUE] /\ lease' = lease
      BY <3>1 DEF LeaseInv, Exec
    <3> QED
      BY <3>1, <3>2, <3>3 DEF LeaseInv, Exec
  <2>4. CASE Admit(w)
    <3>1. UNCHANGED <<up, expiries>> /\ up
      BY <2>4, PoolStep DEF bounds
    <3>2. \A v \in Workers : wk'[v].pc \in Exec =>
            \/ v = w /\ wk'[w].pc = "baseline"
            \/ v # w /\ wk[v].pc \in Exec
      BY <2>4, PoolStep, PcClasses
    <3>3. CASE wk'[w].pc = "baseline"
      <4>1. ~HeldByOther(w) /\ lease' = [owner |-> w, live |-> TRUE]
        BY <2>4, <3>3, GotoShape DEF Admit
      <4>2. expiries = 0 => \A v \in Workers : v # w => wk[v].pc \notin Exec
        BY <4>1 DEF LeaseInv, Exec, HeldByOther
      <4> QED
        BY <3>1, <3>2, <4>1, <4>2 DEF LeaseInv, Exec
    <3>4. CASE wk'[w].pc # "baseline"
      <4>1. lease' = lease
        BY <2>4, <3>4, GotoShape DEF Admit
      <4> QED
        BY <3>1, <3>2, <3>4, <4>1 DEF LeaseInv, Exec
    <3> QED
      BY <3>3, <3>4
  <2> QED
    BY <1>1, <2>1, <2>2, <2>3, <2>4, OrdinaryOrPool
<1>2. ASSUME NEW w \in Workers, HeartbeatLost(w) PROVE LeaseInv'
  <2>1. /\ UNCHANGED <<lease, up, expiries>>
        /\ \A v \in Workers : wk'[v].pc = wk[v].pc
    BY <1>2 DEF HeartbeatLost, sched, bounds, IInv, TypeOK, WorkerStates
  <2> QED
    BY <2>1 DEF LeaseInv
<1>3. ASSUME NEW c \in Clients, Call(c) \/ Request(c) PROVE LeaseInv'
  <2>1. UNCHANGED <<lease, wk, up, expiries>>
    BY <1>3 DEF Call, Request, StartRead, PauseRead, ResumeRead, StartQuest, PauseQuest,
         ResumeReconcile, RecoverRead, RecoveryStarted, RecoveryCompleted, others, bounds
  <2> QED
    BY <2>1 DEF LeaseInv
<1>4. CASE Approve \/ Reject \/ Modify
  <2>1. UNCHANGED <<lease, wk, up, expiries>>
    BY <1>4 DEF Approve, Reject, Modify, Decide
  <2> QED
    BY <2>1 DEF LeaseInv
<1>5. CASE Expire
  <2>1. expiries' # 0 /\ UNCHANGED <<wk, up>>
    BY <1>5 DEF Expire, IInv, TypeOK
  <2> QED
    BY <2>1 DEF LeaseInv
<1>6. CASE Crash
  <2>1. \A v \in Workers : wk'[v].pc = "idle"
    BY <1>6 DEF Crash, Resting
  <2> QED
    BY <2>1, PcClasses DEF LeaseInv, Exec
<1>7. CASE Restart
  <2>1. (\A v \in Workers : wk[v].pc \notin Exec) /\ UNCHANGED wk
    BY <1>7 DEF Restart, LeaseInv, Exec
  <2> QED
    BY <2>1 DEF LeaseInv, Exec
<1>8. CASE UNCHANGED vars
  BY <1>8 DEF vars, LeaseInv
<1> QED
  BY <1>1, <1>2, <1>3, <1>4, <1>5, <1>6, <1>7, <1>8 DEF Next

LEMMA InitialLease == Init => LeaseInv
BY PcClasses DEF Init, LeaseInv, Executing, Exec, Resting

(* As long as no lease has run out under its holder, one worker executes,   *)
(* whatever tasks requests, pauses and resumes of any clients have queued   *)
(* (admit_execution, release_lease).                                        *)
THEOREM OneExecutorPerLease == Spec => [](expiries = 0 => OneExecutor)
<1>1. LeaseInv => (expiries = 0 => OneExecutor)
  <2> SUFFICES ASSUME LeaseInv, expiries = 0, NEW v \in Workers, NEW w \in Workers,
                      Executing(v), Executing(w)
               PROVE  v = w
    BY DEF OneExecutor
  <2>1. /\ lease = [owner |-> v, live |-> TRUE]
        /\ lease = [owner |-> w, live |-> TRUE]
    BY DEF LeaseInv
  <2>2. lease.owner = v /\ lease.owner = w
    BY <2>1
  <2> QED
    BY <2>2
<1> QED
  BY <1>1, InitiallyInvariant, NextKeepsInvariant, InitialLease, LeaseKept, PTL DEF Spec

------------------------------------------------------------------------------
(* One client at a time.                                                    *)

LEMMA SoloWorker ==
  ASSUME IInv, SoloInv, NEW w \in Workers, Worker(w)
  PROVE  SoloInv'
<1>1. \A v, u \in Workers : Busy(v) /\ Busy(u) => v = u
  BY DEF SoloInv
<1>2. CASE Ordinary(w)
  <2>1. /\ up' = up /\ up /\ queue' = queue /\ rq' = rq /\ Busy(w)
        /\ \A v \in Workers : v # w => wk'[v] = wk[v]
        /\ q' = q \/ q'.status \in Worked \/ wk'[w].pc = "exit"
    BY <1>2 DEF Ordinary, bounds
  <2>2. queue = 0 /\ q.status \in Worked
    BY <2>1 DEF SoloInv, NobodyAtWork, IInv, TypeOK
  <2>3. \A v \in Workers : v # w => ~Busy(v)'
    BY <1>1, <2>1 DEF Busy
  <2>4. q'.status \notin Worked => ~Busy(w)'
    BY <2>1, <2>2 DEF Busy
  <2>5. \A c \in Clients : rq[c] \notin {"start", "reconcile", "recover",
            "recovery_started", "recover2", "recovery_completed"}
    BY <2>2 DEF SoloInv, Worked, Resumable
  <2> QED
    BY <2>1, <2>2, <2>3, <2>4, <2>5 DEF SoloInv, NobodyAtWork
<1>3. CASE TakeTask(w)
  <2>1. /\ up' = up /\ up /\ rq' = rq /\ q' = q /\ queue > 0 /\ queue' = queue - 1
        /\ \A v \in Workers : v # w => wk'[v] = wk[v]
    BY <1>3, PoolStep DEF bounds
  <2>2. queue' = 0 /\ q.status \in Worked /\ \A v \in Workers : ~Busy(v)
    BY <2>1 DEF SoloInv, NobodyAtWork, IInv, TypeOK
  <2>3. \A v \in Workers : v # w => ~Busy(v)'
    BY <2>1, <2>2 DEF Busy
  <2> QED
    BY <2>1, <2>2, <2>3 DEF SoloInv, NobodyAtWork
<1>4. CASE Exit(w)
  <2>1. /\ up' = up /\ up /\ rq' = rq /\ q' = q /\ queue' = queue
        /\ \A v \in Workers : v # w => wk'[v] = wk[v]
        /\ wk'[w].pc = "idle"
    BY <1>4, PoolStep DEF bounds
  <2>2. \A v \in Workers : Busy(v)' => Busy(v)
    BY <2>1 DEF Busy
  <2> QED
    BY <2>1, <2>2 DEF SoloInv, NobodyAtWork
<1>5. CASE Admit(w)
  <2>1. /\ up' = up /\ up /\ queue' = queue /\ rq' = rq /\ wk[w].pc = "admit"
        /\ \A v \in Workers : v # w => wk'[v] = wk[v]
        /\ q' = q \/ q'.status = "running"
    BY <1>5, PoolStep DEF bounds
  <2>2. Busy(w)
    BY <2>1 DEF Busy
  <2>3. queue = 0 /\ q.status \in Worked /\ q'.status \in Worked
    BY <2>1, <2>2 DEF SoloInv, NobodyAtWork, IInv, TypeOK, Worked
  <2>4. \A v \in Workers : v # w => ~Busy(v)'
    BY <1>1, <2>1, <2>2 DEF Busy
  <2>5. \A c \in Clients : rq[c] \notin {"start", "reconcile", "recover",
            "recovery_started", "recover2", "recovery_completed"}
    BY <2>3 DEF SoloInv, Worked, Resumable
  <2> QED
    BY <2>1, <2>3, <2>4, <2>5 DEF SoloInv, NobodyAtWork
<1> QED
  BY <1>2, <1>3, <1>4, <1>5, OrdinaryOrPool

(* The effect of a request on the status and the queue.                     *)
LEMMA RequestEffect ==
  ASSUME IInv, NEW c \in Clients, Call(c) \/ Request(c)
  PROVE  /\ up /\ up' = up /\ wk' = wk /\ rq \in [Clients -> RequestPcs]
         /\ \/ /\ q' = q /\ queue' = queue
               /\ \/ rq' = [rq EXCEPT ![c] = "idle"]
                  \/ rq' = [rq EXCEPT ![c] = "pause"]
                  \/ rq' = [rq EXCEPT ![c] = "start"] /\ q.status = "planned"
                  \/ /\ q.status \in Resumable \/ rq[c] = "reconcile"
                     /\ \/ rq' = [rq EXCEPT ![c] = "reconcile"]
                        \/ rq' = [rq EXCEPT ![c] = "recover"]
                  \/ rq[c] = "recover" /\ rq' = [rq EXCEPT ![c] = "recovery_started"]
                  \/ rq[c] = "recover2" /\ rq' = [rq EXCEPT ![c] = "recovery_completed"]
            \/ /\ rq[c] = "start" /\ rq' = [rq EXCEPT ![c] = "idle"]
               /\ q' = [q EXCEPT !.status = "running"] /\ queue' = queue + 1
            \/ /\ rq[c] = "pause" /\ rq' = [rq EXCEPT ![c] = "idle"]
               /\ q' = [q EXCEPT !.pause = TRUE] /\ queue' = queue
            \/ /\ rq[c] = "reconcile" /\ rq' = [rq EXCEPT ![c] = "idle"]
               /\ q' = [q EXCEPT !.status = "waiting_user"] /\ queue' = queue
            \/ /\ rq[c] = "recovery_started" /\ rq' = [rq EXCEPT ![c] = "recover2"]
               /\ q' = [q EXCEPT !.status = "recovering", !.pause = FALSE]
               /\ queue' = queue
            \/ /\ rq[c] = "recovery_completed" /\ rq' = [rq EXCEPT ![c] = "idle"]
               /\ q' = [q EXCEPT !.status = "running", !.error = "none"]
               /\ queue' = queue + 1
<1>1. rq \in [Clients -> RequestPcs] /\ (Conflict(c) => q' = q)
  BY DEF IInv, TypeOK, Conflict
<1>2. CASE StartRead(c) \/ PauseRead(c) \/ ResumeRead(c)
  BY <1>1, <1>2 DEF StartRead, PauseRead, ResumeRead, Asked, Reply, others
<1>3. CASE RecoverRead(c)
  BY <1>1, <1>3 DEF RecoverRead, Asked, Reply, others
<1>4. CASE StartQuest(c)
  BY <1>1, <1>4 DEF StartQuest, Asked, Reply, Append, bounds
<1>5. CASE PauseQuest(c)
  BY <1>1, <1>5 DEF PauseQuest, Asked, Reply, Append, others
<1>6. CASE RecoveryStarted(c)
  BY <1>1, <1>6 DEF RecoveryStarted, Asked, Reply, Append, others
<1>7. CASE RecoveryCompleted(c)
  BY <1>1, <1>7 DEF RecoveryCompleted, Asked, Reply, Append, bounds
<1>8. CASE ResumeReconcile(c)
  <2>1. up /\ up' = up /\ wk' = wk /\ queue' = queue /\ rq[c] = "reconcile"
    BY <1>8 DEF ResumeReconcile, Asked, bounds
  <2>2. CASE q' = q /\ \E l \in {"recover", "reconcile", "idle"} : Reply(c, l)
    BY <1>1, <2>1, <2>2 DEF Reply
  <2>3. CASE q' = [q EXCEPT !.status = "waiting_user"] /\ Reply(c, "idle")
    BY <1>1, <2>1, <2>3 DEF Reply
  <2>4. \/ q' = q /\ \E l \in {"recover", "reconcile", "idle"} : Reply(c, l)
        \/ q' = [q EXCEPT !.status = "waiting_user"] /\ Reply(c, "idle")
    <3>1. CASE \E a \in Ambiguous :
                 /\ Reply(c, IF Ambiguous = {a} THEN "recover" ELSE "reconcile")
                 /\ UNCHANGED q
      BY <3>1
    <3>2. CASE \/ Reply(c, "idle") /\ (q' = q \/ q' = [q EXCEPT !.status = "waiting_user"])
               \/ Reply(c, "recover") /\ q' = q
      BY <3>2
    <3> QED
      BY <1>1, <1>8, <3>1, <3>2 DEF ResumeReconcile, Append
  <2> QED
    BY <2>2, <2>3, <2>4
<1> QED
  BY <1>2, <1>3, <1>4, <1>5, <1>6, <1>7, <1>8 DEF Call, Request

------------------------------------------------------------------------------
LEMMA SoloRequest ==
  ASSUME IInv, SoloInv, OneClient, NEW c \in Clients, Call(c) \/ Request(c)
  PROVE  SoloInv'
<1>1. \A d \in Clients : d = c
  BY DEF OneClient
<1>2. up /\ up' = up /\ wk' = wk /\ rq \in [Clients -> RequestPcs] /\ q \in Quests
      /\ queue \in Nat
  BY RequestEffect DEF IInv, TypeOK
<1>3. \A v \in Workers : Busy(v)' <=> Busy(v)
  BY <1>2 DEF Busy
<1>4. /\ rq[c] = "start" => q.status = "planned"
      /\ rq[c] \in {"reconcile", "recover", "recovery_started"} => q.status \in Resumable
      /\ rq[c] \in {"recover2", "recovery_completed"} => q.status = "recovering"
  BY DEF SoloInv
<1>5. q.status \in Resumable \cup {"planned"} => NobodyAtWork
  BY DEF SoloInv, Resumable, Worked
<1> DEFINE Proper == /\ rq'[c] = "start" => q.status = "planned"
                     /\ rq'[c] \in {"reconcile", "recover", "recovery_started"} =>
                          q.status \in Resumable
                     /\ rq'[c] \in {"recover2", "recovery_completed"} =>
                          q.status = "recovering"
<1>6. CASE q' = q /\ queue' = queue /\ Proper
  BY <1>1, <1>2, <1>3, <1>6 DEF SoloInv, NobodyAtWork
<1>7. CASE /\ rq[c] \in {"start", "recovery_completed"} /\ rq'[c] = "idle"
           /\ q'.status = "running" /\ queue' = queue + 1
  <2>1. NobodyAtWork
    BY <1>4, <1>5, <1>7 DEF Resumable
  <2>2. queue' = 1 /\ \A v \in Workers : ~Busy(v)'
    BY <1>3, <1>7, <2>1 DEF NobodyAtWork
  <2> QED
    BY <1>1, <1>2, <1>7, <2>2 DEF SoloInv, NobodyAtWork, Worked
<1>8. CASE rq[c] = "pause" /\ rq'[c] = "idle" /\ q'.status = q.status /\ queue' = queue
  BY <1>1, <1>2, <1>3, <1>8 DEF SoloInv, NobodyAtWork
<1>9. CASE /\ rq[c] = "reconcile" /\ rq'[c] = "idle"
           /\ q'.status = "waiting_user" /\ queue' = queue
  <2>1. NobodyAtWork
    BY <1>4, <1>5, <1>9
  <2> QED
    BY <1>1, <1>2, <1>3, <1>9, <2>1 DEF SoloInv, NobodyAtWork
<1>10. CASE /\ rq[c] = "recovery_started" /\ rq'[c] = "recover2"
            /\ q'.status = "recovering" /\ queue' = queue
  <2>1. NobodyAtWork
    BY <1>4, <1>5, <1>10
  <2> QED
    BY <1>1, <1>2, <1>3, <1>10, <2>1 DEF SoloInv, NobodyAtWork
<1> DEFINE Kept(l) == q' = q /\ queue' = queue /\ rq' = [rq EXCEPT ![c] = l]
<1>11. CASE \/ Kept("idle") \/ Kept("pause")
            \/ Kept("start") /\ q.status = "planned"
            \/ /\ q.status \in Resumable \/ rq[c] = "reconcile"
               /\ Kept("reconcile") \/ Kept("recover")
            \/ rq[c] = "recover" /\ Kept("recovery_started")
            \/ rq[c] = "recover2" /\ Kept("recovery_completed")
  <2>1. PICK l : Kept(l) /\ \/ l = "idle" \/ l = "pause"
                            \/ l = "start" /\ q.status = "planned"
                            \/ /\ l \in {"reconcile", "recover"}
                               /\ q.status \in Resumable \/ rq[c] = "reconcile"
                            \/ rq[c] = "recover" /\ l = "recovery_started"
                            \/ rq[c] = "recover2" /\ l = "recovery_completed"
    BY <1>11
  <2>2. rq'[c] = l
    BY <1>2, <2>1
  <2> QED
    BY <1>4, <1>6, <2>1, <2>2
<1>12. CASE \/ /\ rq[c] = "start" /\ rq' = [rq EXCEPT ![c] = "idle"]
               /\ q' = [q EXCEPT !.status = "running"] /\ queue' = queue + 1
            \/ /\ rq[c] = "recovery_completed" /\ rq' = [rq EXCEPT ![c] = "idle"]
               /\ q' = [q EXCEPT !.status = "running", !.error = "none"]
               /\ queue' = queue + 1
  BY <1>2, <1>7, <1>12 DEF Quests
<1>13. CASE /\ rq[c] = "pause" /\ rq' = [rq EXCEPT ![c] = "idle"]
            /\ q' = [q EXCEPT !.pause = TRUE] /\ queue' = queue
  BY <1>2, <1>8, <1>13 DEF Quests
<1>14. CASE /\ rq[c] = "reconcile" /\ rq' = [rq EXCEPT ![c] = "idle"]
            /\ q' = [q EXCEPT !.status = "waiting_user"] /\ queue' = queue
  BY <1>2, <1>9, <1>14 DEF Quests
<1>15. CASE /\ rq[c] = "recovery_started" /\ rq' = [rq EXCEPT ![c] = "recover2"]
            /\ q' = [q EXCEPT !.status = "recovering", !.pause = FALSE]
            /\ queue' = queue
  BY <1>2, <1>10, <1>15 DEF Quests
<1> QED
  BY <1>11, <1>12, <1>13, <1>14, <1>15, RequestEffect

LEMMA SoloKept == OneClient /\ IInv /\ SoloInv /\ [Next]_vars => SoloInv'
<1> SUFFICES ASSUME OneClient, IInv, SoloInv, [Next]_vars PROVE SoloInv'
  OBVIOUS
<1>1. ASSUME NEW w \in Workers, Worker(w) PROVE SoloInv'
  BY <1>1, SoloWorker
<1>2. ASSUME NEW w \in Workers, HeartbeatLost(w) PROVE SoloInv'
  <2>1. /\ UNCHANGED <<q, queue, rq, up>>
        /\ \A v \in Workers : wk'[v].pc = wk[v].pc
    BY <1>2 DEF HeartbeatLost, sched, bounds, IInv, TypeOK, WorkerStates
  <2> QED
    BY <2>1 DEF SoloInv, NobodyAtWork, Busy
<1>3. ASSUME NEW c \in Clients, Call(c) \/ Request(c) PROVE SoloInv'
  BY <1>3, SoloRequest
<1>4. CASE Approve \/ Reject \/ Modify
  <2>1. UNCHANGED <<queue, wk, rq, up>> /\ up /\ q.status = "waiting_user"
    BY <1>4 DEF Approve, Reject, Modify, Decide
  <2>2. NobodyAtWork /\ NobodyAtWork'
    BY <2>1 DEF SoloInv, NobodyAtWork, Busy, Worked
  <2>3. \A c \in Clients : rq[c] \notin {"start", "reconcile", "recover",
            "recovery_started", "recover2", "recovery_completed"}
    BY <2>1 DEF SoloInv, Resumable
  <2> QED
    BY <2>1, <2>2, <2>3 DEF SoloInv, NobodyAtWork
<1>5. CASE Crash
  <2>1. /\ queue' = 0 /\ \A v \in Workers : wk'[v].pc = "idle"
        /\ \A c \in Clients : rq'[c] = "idle"
    BY <1>5 DEF Crash, Resting
  <2> QED
    BY <2>1 DEF SoloInv, NobodyAtWork, Busy
<1>6. CASE Restart
  <2>1. /\ NobodyAtWork /\ \A c \in Clients : rq[c] = "idle"
        /\ UNCHANGED <<queue, wk, rq>> /\ up'
    BY <1>6 DEF Restart, SoloInv
  <2> QED
    BY <2>1 DEF SoloInv, NobodyAtWork, Busy
<1>7. CASE Expire \/ UNCHANGED vars
  <2>1. UNCHANGED <<q, queue, wk, rq, up>>
    BY <1>7 DEF Expire, vars
  <2> QED
    BY <2>1 DEF SoloInv, NobodyAtWork, Busy
<1> QED
  BY <1>1, <1>2, <1>3, <1>4, <1>5, <1>6, <1>7 DEF Next

LEMMA InitialSolo == Init => SoloInv
BY DEF Init, SoloInv, NobodyAtWork, Busy, Resting

(* With one client, whatever crashes and expires: a Quest that is paused,   *)
(* waits for the user or has ended has no tool running (QuestPaused,        *)
(* ApprovalRequired, resume_quest).                                         *)
THEOREM StoppedQuestIsQuiet == OneClient => (Spec => []QuietWhenStopped)
<1>1. SoloInv => QuietWhenStopped
  BY DEF SoloInv, NobodyAtWork, Busy, Worked, Active, QuietWhenStopped
<1> SUFFICES ASSUME OneClient PROVE Spec => []QuietWhenStopped
  OBVIOUS
<1>2. IInv /\ SoloInv /\ [Next]_vars => SoloInv'
  BY SoloKept
<1> QED
  BY <1>1, <1>2, InitiallyInvariant, NextKeepsInvariant, InitialSolo, PTL DEF Spec

LEMMA TerminalStep ==
  ASSUME IInv, SoloInv, [Next]_vars, q.status \in TerminalStatus
  PROVE  q'.status = q.status
<1>1. NobodyAtWork /\ q \in Quests
  BY DEF SoloInv, Worked, TerminalStatus, IInv, TypeOK
<1>2. ASSUME NEW w \in Workers, Worker(w) PROVE q' = q
  <2>1. ~Ordinary(w) /\ ~TakeTask(w) /\ ~Admit(w)
    <3>1. ~Busy(w) /\ queue = 0
      BY <1>1 DEF NobodyAtWork
    <3> QED
      BY <3>1, PoolStep DEF Ordinary, Busy
  <2> QED
    BY <1>2, <2>1, OrdinaryOrPool, PoolStep
<1>3. ASSUME NEW c \in Clients, Call(c) \/ Request(c) PROVE q'.status = q.status
  <2>1. rq[c] \notin {"start", "reconcile", "recover",
                      "recovery_started", "recover2", "recovery_completed"}
    BY DEF SoloInv, TerminalStatus, Resumable
  <2>2. q' = q \/ q' = [q EXCEPT !.pause = TRUE]
    BY <1>3, <2>1, RequestEffect
  <2> QED
    BY <1>1, <2>2 DEF Quests
<1>4. ~Approve /\ ~Reject /\ ~Modify
  BY DEF Approve, Reject, Modify, Decide, TerminalStatus
<1>5. ASSUME Restart PROVE q' = q
  BY <1>5 DEF Restart, TerminalStatus, Active
<1>6. ASSUME \/ \E w \in Workers : HeartbeatLost(w)
             \/ Expire \/ Crash \/ UNCHANGED vars
      PROVE  q' = q
  BY <1>6 DEF HeartbeatLost, Expire, Crash, vars
<1> QED
  BY <1>2, <1>3, <1>4, <1>5, <1>6 DEF Next

(* With one client a Quest that has ended keeps its status.  (With two it   *)
(* may not: see the run quest_terminal_resumed.)                            *)
THEOREM EndedQuestStaysEnded == OneClient => (Spec => TerminalStays)
<1>1. IInv /\ SoloInv /\ [Next]_vars =>
        [q.status \in TerminalStatus => q'.status = q.status]_vars
  BY TerminalStep
<1> SUFFICES ASSUME OneClient PROVE Spec => TerminalStays
  OBVIOUS
<1>2. IInv /\ SoloInv /\ [Next]_vars => SoloInv'
  BY SoloKept
<1> QED
  BY <1>1, <1>2, InitiallyInvariant, NextKeepsInvariant, InitialSolo, PTL
     DEF Spec, TerminalStays

------------------------------------------------------------------------------
(* What the steps of a worker do to the milestones.                         *)

SameMilestones(new) == new.ms = q.ms /\ new.pend = q.pend

LEMMA SameProgress ==
  ASSUME IInv, OpenInv, NEW w \in Workers, NEW l, Goto(w, l),
         q' = q \/ SameMilestones(q'), l \in AtMilestone => wk[w].pc \in AtMilestone
  PROVE  Progresses(w)
BY GotoShape DEF Progresses, SameMilestones, OpenInv, Completed

LEMMA WaitingProgress ==
  ASSUME IInv, OpenInv, NEW w \in Workers,
         \/ Begin(w) \/ Baseline(w) \/ AskRead(w) \/ Prepare(w) \/ RunTool(w)
         \/ InDoubt(w) \/ After(w) \/ LoopRead(w) \/ PlanRead(w) \/ FinalVerify(w) \/ UnexpectedFailure(w)
  PROVE  Progresses(w)
<1>1. q' = q
  BY DEF Begin, Baseline, AskRead, Prepare, RunTool, InDoubt, After, LoopRead, PlanRead,
         FinalVerify, UnexpectedFailure, ReadOn
<1>2. \E l : Goto(w, l) /\ (l \in AtMilestone => wk[w].pc \in AtMilestone)
  <2>1. CASE AskRead(w) \/ Prepare(w) \/ RunTool(w) \/ InDoubt(w) \/ After(w)
    <3>1. wk[w].pc \in AtMilestone /\ \E l : Goto(w, l)
      BY <2>1 DEF AskRead, Prepare, RunTool, InDoubt, After, ReadOn, At, AtMilestone
    <3> QED
      BY <3>1
  <2>2. CASE Begin(w) \/ Baseline(w) \/ LoopRead(w) \/ PlanRead(w) \/ FinalVerify(w) \/
             UnexpectedFailure(w)
    <3>1. PICK l \in {"pause", "admit", "loop", "exit", "stuck", "store", "complete",
                      "error", "final_user", "exhaust", "fail"} : Goto(w, l)
      BY <2>2 DEF Begin, Baseline, LoopRead, PlanRead, FinalVerify, UnexpectedFailure,
                  ReadOn
    <3> QED
      BY <3>1 DEF AtMilestone
  <2> QED
    BY <2>1, <2>2
<1> QED
  BY <1>1, <1>2, SameProgress

LEMMA LeavingProgress ==
  ASSUME IInv, OpenInv, NEW w \in Workers,
         Admit(w) \/ Pause(w) \/ Exhaust(w) \/ ToolEffectUnknown(w) \/ NeedUser(w) \/
         StartReplanning(w) \/ Finalize(w) \/ Complete(w) \/ FinalNeedsUser(w) \/ FailQuest(w)
  PROVE  Progresses(w)
<1>1. PICK l \in {"baseline", "exit", "error", "loop", "newplan", "final"} : Goto(w, l)
  BY DEF Admit, Pause, Exhaust, ToolEffectUnknown, NeedUser, StartReplanning, Finalize,
         Complete, FinalNeedsUser, FailQuest, Retry
<1>2. Conflict(w) => q' = q
  BY DEF Conflict
<1>3. \/ q' = q
      \/ \E s : q' = [q EXCEPT !.status = s]
      \/ \E s : q' = [q EXCEPT !.status = s, !.pause = FALSE]
      \/ \E s, e : q' = [q EXCEPT !.status = s, !.error = e]
      \/ \E s : q' = [q EXCEPT !.status = s, !.replans = @ + 1]
  BY <1>2 DEF Admit, Pause, Exhaust, ToolEffectUnknown, NeedUser, StartReplanning,
              Finalize, Complete, FinalNeedsUser, FailQuest, Retry, Append, AppendAndHold
<1>4. q' = q \/ SameMilestones(q')
  <2>1. q \in Quests
    BY DEF IInv, TypeOK
  <2> QED
    BY <1>3, <2>1 DEF SameMilestones, Quests
<1> QED
  BY <1>1, <1>4, SameProgress DEF AtMilestone

(* The events of a milestone change its status and no other's.              *)
LEMMA OwnProgress ==
  ASSUME IInv, OpenInv, NEW w \in Workers, wk[w].pc \in AtMilestone, NEW l, Goto(w, l),
         NEW x, x # "completed" \/ l \notin AtMilestone,
         q'.ms = [q.ms EXCEPT ![wk[w].m] = x], q'.pend = q.pend
  PROVE  Progresses(w)
<1>1. wk[w].m \in Ms /\ q.ms[wk[w].m] # "completed" /\ q.ms \in [Ms -> MsStatuses]
  BY DEF OpenInv, Completed, IInv, TypeOK, Quests
<1>2. wk'[w].pc = l /\ wk'[w].m = wk[w].m
  BY GotoShape
<1> QED
  BY <1>1, <1>2 DEF Progresses

LEMMA MilestoneProgress ==
  ASSUME IInv, OpenInv, NEW w \in Workers,
         StartMilestone(w) \/ RequireApproval(w) \/ ToolFailed(w) \/
         StartVerification(w) \/ MilestoneVerified(w)
  PROVE  Progresses(w)
<1>1. /\ q \in Quests /\ wk[w].pc \in AtMilestone
      /\ wk[w].m \in Ms /\ q.ms[wk[w].m] # "completed"
  BY DEF StartMilestone, RequireApproval, ToolFailed, StartVerification,
         MilestoneVerified, At, AtMilestone, OpenInv, Completed, IInv, TypeOK
<1>2. CASE Conflict(w)
  <2>1. \E l : Goto(w, l)
    BY DEF StartMilestone, RequireApproval, ToolFailed, StartVerification,
           MilestoneVerified, Retry
  <2> QED
    BY <1>1, <1>2, <2>1, SameProgress DEF Conflict
<1>3. CASE StartMilestone(w) /\ ~Conflict(w)
  <2> DEFINE m == wk[w].m
             k == IF q.ms[m] = "pending" THEN 1 ELSE 0
             new == [q EXCEPT !.status = "running", !.ms[m] = "running",
                              !.steps = @ + k]
  <2>1. q' = new /\ \E l : Goto(w, l)
    BY <1>3 DEF StartMilestone, AppendAndHold, Retry
  <2> HIDE DEF k
  <2>2. q'.ms = [q.ms EXCEPT ![m] = "running"] /\ q'.pend = q.pend
    BY <1>1, <2>1 DEF Quests
  <2>3. PICK l : Goto(w, l)
    BY <2>1
  <2>4. "running" # "completed"
    OBVIOUS
  <2> HIDE DEF new
  <2> QED
    BY ONLY IInv, OpenInv, w \in Workers, <1>1, <2>2, <2>3, <2>4, OwnProgress
<1>4. CASE ToolFailed(w) /\ ~Conflict(w)
  <2>1. /\ q' = [q EXCEPT !.status = "failed", !.ms[wk[w].m] = "failed", !.error = "tool"]
        /\ Goto(w, "exit")
    BY <1>4 DEF ToolFailed, Append, Retry
  <2>2. q'.ms = [q.ms EXCEPT ![wk[w].m] = "failed"] /\ q'.pend = q.pend
    BY <1>1, <2>1 DEF Quests
  <2>3. Goto(w, "exit") /\ "failed" # "completed"
    BY <2>1
  <2> QED
    BY ONLY IInv, OpenInv, w \in Workers, <1>1, <2>2, <2>3, OwnProgress
<1>5. CASE StartVerification(w) /\ ~Conflict(w)
  <2>1. /\ q' = [q EXCEPT !.status = "verifying", !.ms[wk[w].m] = "verifying"]
        /\ Goto(w, "verify")
    BY <1>5 DEF StartVerification, Append, Retry
  <2>2. q'.ms = [q.ms EXCEPT ![wk[w].m] = "verifying"] /\ q'.pend = q.pend
    BY <1>1, <2>1 DEF Quests
  <2> QED
    BY <1>1, <2>1, <2>2, OwnProgress
<1>6. CASE MilestoneVerified(w) /\ ~Conflict(w)
  <2>1. /\ q' = [q EXCEPT !.status = "running", !.ms[wk[w].m] = "completed"]
        /\ Goto(w, "loop") /\ "loop" \notin AtMilestone
    BY <1>6 DEF MilestoneVerified, Append, Retry, AtMilestone
  <2>2. q'.ms = [q.ms EXCEPT ![wk[w].m] = "completed"] /\ q'.pend = q.pend
    BY <1>1, <2>1 DEF Quests
  <2> QED
    BY <1>1, <2>1, <2>2, OwnProgress
<1>7. CASE RequireApproval(w) /\ ~Conflict(w)
  <2>1. /\ q' = [q EXCEPT !.status = "waiting_user", !.pend = wk[w].m]
        /\ Goto(w, "exit")
    BY <1>7 DEF RequireApproval, Append, Retry
  <2>2. q'.ms = q.ms /\ q'.pend = wk[w].m /\ q'.status = "waiting_user"
    BY <1>1, <2>1 DEF Quests
  <2>3. wk'[w].pc = "exit"
    BY <2>1, GotoShape
  <2> QED
    BY <1>1, <2>2, <2>3 DEF Progresses, AtMilestone
<1> QED
  BY <1>2, <1>3, <1>4, <1>5, <1>6, <1>7

LEMMA PlanProgress ==
  ASSUME IInv, OpenInv, NEW w \in Workers, Loop(w) \/ Verify(w) \/ StorePlan(w)
  PROVE  Progresses(w)
<1>1. q \in Quests /\ wk \in [Workers -> WorkerStates]
  BY DEF IInv, TypeOK
<1>2. CASE \E l : l \notin AtMilestone /\ Goto(w, l) /\ q' = q
  BY <1>2, SameProgress
<1>3. CASE Loop(w)
  <2>1. q' = q
    BY <1>3 DEF Loop
  <2>2. CASE \E l \in {"exit", "pause", "finalize", "fail", "exhaust"} : Goto(w, l)
    BY <1>2, <2>1, <2>2 DEF AtMilestone
  <2>3. CASE \E m \in Ready : \E l :
               wk' = [wk EXCEPT ![w] = [@ EXCEPT !.m = m, !.p = q.num[m], !.pc = l]]
    <3>1. PICK m \in Ready : \E l :
               wk' = [wk EXCEPT ![w] = [@ EXCEPT !.m = m, !.p = q.num[m], !.pc = l]]
      BY <2>3
    <3>2. wk'[w].m = m
      BY <1>1, <3>1 DEF WorkerStates
    <3>3. m \in Ms /\ q.ms[m] # "completed"
      BY DEF Ready
    <3> QED
      BY <2>1, <3>2, <3>3 DEF Progresses
  <2> QED
    BY <1>3, <2>2, <2>3 DEF Loop, IsFirst
<1>4. CASE Verify(w)
  <2>1. q' = q /\ wk[w].pc \in AtMilestone
    BY <1>4 DEF Verify, At, AtMilestone
  <2>2. CASE \E l : Goto(w, l)
    BY <2>1, <2>2, SameProgress
  <2>3. CASE \E s, l : wk' = [wk EXCEPT ![w] = [@ EXCEPT !.seen = s, !.pc = l]]
    <3>1. wk'[w].m = wk[w].m
      BY <1>1, <2>3 DEF WorkerStates
    <3> QED
      BY <2>1, <3>1 DEF Progresses, OpenInv, Completed
  <2> QED
    BY <1>4, <2>2, <2>3 DEF Verify
<1>5. CASE StorePlan(w)
  <2>1. Goto(w, "loop") \/ Goto(w, "error")
    BY <1>5 DEF StorePlan, Retry
  <2>2. q' = q \/ q' = Replanned
    BY <1>5 DEF StorePlan, Append, Retry, Conflict
  <2>3. CASE q' = Replanned
    <3>1. q'.pend = q.pend /\ \A m \in Ms : m \in Completed => q'.ms[m] = "completed"
      BY <1>1, <2>3 DEF Replanned, Quests
    <3>2. wk'[w].pc \notin AtMilestone
      BY <2>1, GotoShape DEF AtMilestone
    <3> QED
      BY <3>1, <3>2 DEF Progresses, Completed
  <2> QED
    BY <1>2, <2>1, <2>2, <2>3 DEF AtMilestone
<1> QED
  BY <1>3, <1>4, <1>5

LEMMA WorkerProgress ==
  ASSUME IInv, OpenInv, NEW w \in Workers, Worker(w)
  PROVE  Progresses(w)
<1>1. CASE TakeTask(w) \/ Exit(w)
  <2>1. q' = q /\ wk'[w].pc \in {"begin", "idle"}
    BY <1>1, PoolStep
  <2> QED
    BY <2>1 DEF Progresses, AtMilestone
<1> QED
  BY <1>1, WaitingProgress, LeavingProgress, MilestoneProgress, PlanProgress DEF Worker

------------------------------------------------------------------------------
(* With one client nobody but the one busy worker touches the milestones.   *)

OpenStep ==
  /\ OpenInv'
  /\ MaxModifies = 0 => \A m \in Completed : q'.ms[m] = "completed"

LEMMA WorkerOpen ==
  ASSUME IInv, SoloInv, OpenInv, NEW w \in Workers, Worker(w)
  PROVE  OpenStep
<1>1. Progresses(w)
  BY WorkerProgress
<1>2. \A v \in Workers : v # w => wk'[v] = wk[v]
  BY OrdinaryOrPool, PoolStep DEF Ordinary
<1>3. q' = q \/ /\ q.status \in Worked
                /\ \A v \in Workers : v # w => wk[v].pc \notin AtMilestone
  <2>1. CASE Ordinary(w) \/ Admit(w)
    <3>1. Busy(w)
      BY <2>1, PoolStep DEF Ordinary, Busy
    <3> QED
      BY <3>1 DEF SoloInv, NobodyAtWork, Busy, AtMilestone
  <2>2. CASE TakeTask(w) \/ Exit(w)
    BY <2>2, PoolStep
  <2> QED
    BY <2>1, <2>2, OrdinaryOrPool
<1>4. q.pend # NoM => q' = q
  BY <1>3 DEF OpenInv, Worked
<1>5. ASSUME NEW v \in Workers, wk'[v].pc \in AtMilestone
      PROVE  wk'[v].m \in Ms /\ q'.ms[wk'[v].m] # "completed"
  <2>1. CASE v = w
    BY <1>1, <1>5, <2>1 DEF Progresses
  <2>2. CASE v # w
    <3>1. wk'[v] = wk[v] /\ q' = q
      BY <1>2, <1>3, <1>5, <2>2
    <3> QED
      BY <1>5, <3>1 DEF OpenInv, Completed
  <2> QED
    BY <2>1, <2>2
<1>6. ASSUME q'.pend # NoM
      PROVE  /\ q'.pend \in Ms /\ q'.ms[q'.pend] # "completed"
             /\ q'.status \in {"waiting_user", "failed"}
  <2>1. CASE q'.pend # q.pend
    BY <1>1, <2>1 DEF Progresses
  <2>2. CASE q'.pend = q.pend
    BY <1>4, <1>6, <2>2 DEF OpenInv, Completed
  <2> QED
    BY <2>1, <2>2
<1> QED
  BY <1>1, <1>5, <1>6 DEF OpenStep, OpenInv, Completed, Progresses

(* Steps that leave the milestones alone.                                   *)
LEMMA UntouchedOpen ==
  ASSUME OpenInv, q'.ms = q.ms, q'.pend = q.pend,
         q.pend # NoM => q'.status \in {"waiting_user", "failed"},
         \A v \in Workers : wk'[v] = wk[v] \/ wk'[v].pc \notin AtMilestone
  PROVE  OpenStep
BY DEF OpenInv, Completed, OpenStep

LEMMA OpenKept == IInv /\ SoloInv /\ OpenInv /\ [Next]_vars => OpenStep
<1> SUFFICES ASSUME IInv, SoloInv, OpenInv, [Next]_vars PROVE OpenStep
  OBVIOUS
<1>0. q \in Quests
  BY DEF IInv, TypeOK
<1>1. ASSUME NEW w \in Workers, Worker(w) PROVE OpenStep
  BY <1>1, WorkerOpen
<1>2. ASSUME NEW w \in Workers, HeartbeatLost(w) PROVE OpenStep
  <2>1. /\ q' = q
        /\ \A v \in Workers : wk'[v].pc = wk[v].pc /\ wk'[v].m = wk[v].m
    BY <1>2 DEF HeartbeatLost, IInv, TypeOK, WorkerStates
  <2> QED
    BY <2>1 DEF OpenStep, OpenInv, Completed
<1>3. ASSUME NEW c \in Clients, Call(c) \/ Request(c) PROVE OpenStep
  <2>1. q.pend # NoM => rq[c] \notin {"start", "reconcile", "recover",
                           "recovery_started", "recover2", "recovery_completed"}
    BY DEF SoloInv, OpenInv, Resumable
  <2>2. wk' = wk
    BY <1>3, RequestEffect
  <2>3. \/ q' = q
        \/ q' = [q EXCEPT !.pause = TRUE]
        \/ /\ q.pend = NoM
           /\ \/ q' = [q EXCEPT !.status = "running"]
              \/ q' = [q EXCEPT !.status = "waiting_user"]
              \/ q' = [q EXCEPT !.status = "recovering", !.pause = FALSE]
              \/ q' = [q EXCEPT !.status = "running", !.error = "none"]
    BY <1>3, <2>1, RequestEffect
  <2>4. /\ q'.ms = q.ms /\ q'.pend = q.pend
        /\ q.pend # NoM => q'.status = q.status
    BY <1>0, <2>3 DEF Quests
  <2> QED
    BY <2>2, <2>4, UntouchedOpen DEF OpenInv
<1>4. CASE Approve \/ Reject \/ Modify
  <2>1. wk' = wk /\ q.status = "waiting_user"
    BY <1>4 DEF Approve, Reject, Modify, Decide
  <2>2. \A v \in Workers : wk'[v].pc \notin AtMilestone
    BY <2>1 DEF SoloInv, NobodyAtWork, Busy, Worked, AtMilestone
  <2>3. CASE Approve
    <3>1. /\ q'.pend = NoM
          /\ \A m \in Ms : m # q.pend => q'.ms[m] = q.ms[m]
      BY <1>0, <2>3 DEF Approve, Decide, Quests
    <3>2. q.pend \notin Completed
      BY DEF OpenInv, Completed, Ms, NoM
    <3> QED
      BY <2>2, <3>1, <3>2 DEF OpenStep, OpenInv, Completed
  <2>4. CASE Reject
    <3>1. q'.ms = q.ms /\ q'.pend = q.pend /\ q'.status = "failed"
      BY <1>0, <2>4 DEF Reject, Decide, Quests
    <3> QED
      BY <2>2, <3>1, UntouchedOpen
  <2>5. CASE Modify
    <3>1. q'.pend = NoM
      BY <1>0, <2>5 DEF Modify, Modified, Decide, Quests
    <3>2. MaxModifies # 0
      BY <2>5 DEF Modify, IInv, TypeOK
    <3> QED
      BY <2>2, <3>1, <3>2 DEF OpenStep, OpenInv
  <2> QED
    BY <1>4, <2>3, <2>4, <2>5
<1>5. CASE Crash
  <2>1. q' = q /\ \A v \in Workers : wk'[v].pc \notin AtMilestone
    BY <1>5 DEF Crash, Resting, AtMilestone
  <2> QED
    BY <2>1, UntouchedOpen DEF OpenInv
<1>6. CASE Restart
  <2>1. wk' = wk /\ (q' = q \/ (q.status \in Active /\ q' = Interrupted))
    BY <1>6 DEF Restart
  <2>2. CASE q' = q
    BY <2>1, <2>2, UntouchedOpen DEF OpenInv
  <2>3. CASE q.status \in Active /\ q' = Interrupted
    <3>1. q'.ms = q.ms /\ q'.pend = q.pend /\ q.pend = NoM
      BY <1>0, <2>3 DEF Interrupted, Quests, OpenInv, Active
    <3> QED
      BY <2>1, <3>1, UntouchedOpen
  <2> QED
    BY <2>1, <2>2, <2>3
<1>7. CASE Expire \/ UNCHANGED vars
  <2>1. q' = q /\ wk' = wk
    BY <1>7 DEF Expire, vars
  <2> QED
    BY <2>1, UntouchedOpen DEF OpenInv
<1> QED
  BY <1>1, <1>2, <1>3, <1>4, <1>5, <1>6, <1>7 DEF Next

LEMMA InitialOpen == Init => OpenInv
BY DEF Init, OpenInv, Resting, AtMilestone

(* With one client and no modified contract a completed milestone stays     *)
(* completed through replans, approvals, resumes and restarts (replan_plan, *)
(* store_plan_version, apply_decision).                                     *)
THEOREM CompletedMilestonesStay ==
  OneClient /\ MaxModifies = 0 => (Spec => CompletedKept)
<1> SUFFICES ASSUME OneClient, MaxModifies = 0 PROVE Spec => CompletedKept
  OBVIOUS
<1>1. IInv /\ SoloInv /\ [Next]_vars => SoloInv'
  BY SoloKept
<1>2. IInv /\ SoloInv /\ OpenInv /\ [Next]_vars =>
        OpenInv' /\ [\A m \in Completed : q'.ms[m] = "completed"]_vars
  BY OpenKept DEF OpenStep
<1> QED
  BY <1>1, <1>2, InitiallyInvariant, NextKeepsInvariant, InitialSolo, InitialOpen, PTL
     DEF Spec, CompletedKept

=============================================================================
