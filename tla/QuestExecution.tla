--------------------------- MODULE QuestExecution ---------------------------
(***************************************************************************)
(* The life of one Quest under V1QuestService (v1/service.py) on top of    *)
(* the event ledger and the leases of V1Storage (v1/storage.py): start,    *)
(* pause, resume and decision requests, the workers of the thread pool,    *)
(* their lease heartbeats, and process crashes with startup recovery.      *)
(*                                                                         *)
(* A thread reads the projection, decides, and appends an event that       *)
(* succeeds only if nothing was appended since the read (compare-and-swap  *)
(* on state_version).  fresh[t] says exactly that of thread t, so the      *)
(* version number itself is not needed: an append makes every other        *)
(* thread stale, and because a successful append is based on the current   *)
(* projection its patch is written as a function of q.                     *)
(*                                                                         *)
(* Abstractions.  One Quest; the tool call of a milestone is Prepare, then *)
(* an outcome (ToolGateway has the detail); verification, the wall clock   *)
(* and lease expiry are nondeterministic.  A resume reconciles the actions *)
(* whose effect is unknown; one still dispatched by a live worker is       *)
(* ToolGateway's case.  A modified contract compiles to the same           *)
(* milestones.  Checkpoints, replay, resource leases, artifact review and  *)
(* service shutdown are left out.                                          *)
(***************************************************************************)
EXTENDS Integers, FiniteSets

CONSTANTS
  M,           \* number of milestones
  Deps,        \* the milestones each milestone depends on
  HighRisk,    \* milestones whose tool needs an approval
  Workers,     \* threads of the pool
  Clients,     \* concurrent API requests
  MaxSteps, MaxReplans,          \* the Quest's budget
  Threshold,   \* watchdog_threshold
  MayTimeOut,  \* TRUE: the time budget can run out
  Patient,     \* TRUE: a resume is sent only once the old worker has wound down
  MaxPauses, MaxResumes, MaxModifies, MaxCrashes, MaxExpiries   \* bounds

Ms     == 1 .. M
NoM    == 0
Plans  == 0 .. 1 + MaxReplans + MaxModifies
NoOne  == "no one"
Threads == Workers \cup Clients

ASSUME QuestAssumption ==
  /\ M \in Nat \ {0}
  /\ Deps \in [Ms -> SUBSET Ms]
  /\ HighRisk \subseteq Ms
  /\ Workers \cap Clients = {} /\ NoOne \notin Workers
  /\ {MaxSteps, MaxReplans, Threshold} \subseteq Nat
  /\ {MaxPauses, MaxResumes, MaxModifies, MaxCrashes, MaxExpiries} \subseteq Nat
  /\ {MayTimeOut, Patient} \subseteq BOOLEAN

VARIABLES
  q,         \* the projection in v1_quests
  receipt,   \* receipt[m][p]: the action of milestone m as numbered by plan p
  approved,  \* the actions <<m, p>> the user approved
  stall,     \* the watchdog's count of observations without progress
  base,      \* the baseline snapshot is recorded
  lease,     \* the v1_leases row
  queue,     \* tasks submitted to the pool and not yet taken
  wk,        \* wk[w]: what worker w is doing
  rq,        \* rq[c]: what request c is doing
  fresh,     \* fresh[t]: nothing was appended since t's last read
  up, pauses, resumes, modifies, crashes, expiries

vars == <<q, receipt, approved, stall, base, lease, queue, wk, rq, fresh, up,
          pauses, resumes, modifies, crashes, expiries>>
calls  == <<pauses, resumes>>
bounds == <<up, calls, modifies, crashes, expiries>>

Active   == {"running", "verifying", "replanning", "recovering"}
TerminalStatus == {"completed", "budget_exhausted", "failed"}

NoLease == [owner |-> NoOne, live |-> FALSE]
(* m and p: the milestone a worker is at, and the plan that numbered it;    *)
(* seen: the plan and the completed milestones its replan was made from.    *)
NoPlan  == [plan |-> 0, done |-> {}]
Resting == [pc |-> "idle", m |-> NoM, p |-> 0, seen |-> NoPlan, lost |-> FALSE]

(* A confirmed Quest, as start_quest finds it.                              *)
Init ==
  /\ q = [status |-> "planned", pause |-> FALSE,
          ms |-> [m \in Ms |-> "pending"], plan |-> 1,
          num |-> [m \in Ms |-> 0],      \* the plan that numbered each milestone
          steps |-> 0, replans |-> 0, pend |-> NoM, error |-> "none"]
  /\ receipt = [m \in Ms |-> [p \in Plans |-> "none"]]
  /\ approved = {}
  /\ stall = 0
  /\ base = FALSE
  /\ lease = NoLease
  /\ queue = 0
  /\ wk = [w \in Workers |-> Resting]
  /\ rq = [c \in Clients |-> "idle"]
  /\ fresh = [t \in Threads |-> FALSE]
  /\ up = TRUE
  /\ pauses = 0 /\ resumes = 0 /\ modifies = 0 /\ crashes = 0 /\ expiries = 0

------------------------------------------------------------------------------
(* The ledger                                                               *)

Read(t)  == fresh' = [fresh EXCEPT ![t] = TRUE]

(* _append_locked: the projection becomes new, every read before it stale.  *)
Append(t, new) ==
  /\ fresh[t]
  /\ q' = new
  /\ fresh' = [u \in Threads |-> FALSE]

(* The same when the thread goes on with event["state_version_after"].      *)
AppendAndHold(t, new) ==
  /\ fresh[t]
  /\ q' = new
  /\ fresh' = [u \in Threads |-> u = t]

(* ValueError("state version conflict")                                     *)
Conflict(t) == ~fresh[t] /\ UNCHANGED <<q, fresh>>

Receipt(m)   == receipt[m][q.num[m]]
Completed    == {m \in Ms : q.ms[m] = "completed"}
Ambiguous    == {a \in Ms \X Plans : receipt[a[1]][a[2]] = "unknown"}
SetReceipt(m, p, s) == receipt' = [receipt EXCEPT ![m][p] = s]

At(w, l)     == up /\ wk[w].pc = l
Goto(w, l)   == wk' = [wk EXCEPT ![w].pc = l]
Asked(c, l)  == up /\ rq[c] = l
Reply(c, l)  == rq' = [rq EXCEPT ![c] = l]

(* What a worker's step leaves alone.                                       *)
tables  == <<receipt, approved, stall, base>>
sched   == <<lease, queue, rq, bounds>>
others  == <<tables, lease, queue, wk, up, modifies, crashes, expiries>>

------------------------------------------------------------------------------
(* _execute_quest: from the pool to the first milestone                     *)

TakeTask(w) ==
  /\ At(w, "idle") /\ queue > 0
  /\ queue' = queue - 1
  /\ wk' = [wk EXCEPT ![w] = [Resting EXCEPT !.pc = "begin"]]
  /\ UNCHANGED <<q, fresh, tables, lease, rq, bounds>>

Begin(w) ==
  /\ At(w, "begin")
  /\ Read(w)
  /\ Goto(w, IF q.pause THEN "pause" ELSE "admit")
  /\ UNCHANGED <<q, tables, sched>>

(* QuestPaused, before admission or at the head of the loop.  The append is *)
(* outside the inner try: a conflict is an unexpected failure.              *)
Pause(w) ==
  /\ At(w, "pause")
  /\ \/ /\ Append(w, [q EXCEPT !.status = "paused", !.pause = FALSE])
        /\ Goto(w, "exit")
     \/ Conflict(w) /\ Goto(w, "error")
  /\ UNCHANGED <<tables, sched>>

(* Mutant: the lease's expiry is compared the wrong way round.              *)
HeldIfExpired(w) == ~lease.live /\ lease.owner \notin {w, NoOne}

HeldByOther(w) == lease.live /\ lease.owner # w

(* admit_execution: claim the lease and append ExecutionAdmitted at once.   *)
Admit(w) ==
  /\ At(w, "admit")
  /\ \/ /\ fresh[w] /\ q.status \in Active \cup {"planned"} /\ ~HeldByOther(w)
        /\ lease' = [owner |-> w, live |-> TRUE]
        /\ AppendAndHold(w, [q EXCEPT !.status = "running", !.error = "none"])
        /\ Goto(w, "baseline")
     \/ /\ fresh[w] /\ q.status \in Active \cup {"planned"} /\ HeldByOther(w)
        /\ Goto(w, "exit")
        /\ UNCHANGED <<q, fresh, lease>>
     \/ /\ fresh[w] /\ q.status \notin Active \cup {"planned"}
        /\ Goto(w, "error")
        /\ UNCHANGED <<q, fresh, lease>>
     \/ Conflict(w) /\ Goto(w, "error") /\ UNCHANGED lease
  /\ UNCHANGED <<tables, queue, rq, bounds>>

(* _record_execution_baseline: no event, but the admission must still be    *)
(* current and the lease live; otherwise the worker leaves without a word.  *)
Baseline(w) ==
  /\ At(w, "baseline")
  /\ \/ /\ base /\ Goto(w, "loop") /\ UNCHANGED base
     \/ /\ ~base /\ fresh[w] /\ lease = [owner |-> w, live |-> TRUE]
        /\ base' = TRUE /\ Goto(w, "loop")
     \/ /\ ~base /\ ~(fresh[w] /\ lease = [owner |-> w, live |-> TRUE])
        /\ Goto(w, "exit") /\ UNCHANGED base
  /\ UNCHANGED <<q, fresh, receipt, approved, stall, sched>>

------------------------------------------------------------------------------
(* The head of the loop                                                     *)

Ready == {m \in Ms : /\ q.ms[m] \in {"pending", "running", "verifying"}
                     /\ Deps[m] \subseteq Completed}
IsFirst(m, S) == m \in S /\ \A n \in S : m <= n

(* Mutant: the step about to be taken is not counted.                       *)
OverBudgetLate(m) == q.steps > MaxSteps

(* _budget_reason: only a pending milestone costs a step.                   *)
OverBudget(m) == q.steps + (IF q.ms[m] = "pending" THEN 1 ELSE 0) > MaxSteps

(* Read the projection and decide what to do with it.                       *)
Loop(w) ==
  /\ At(w, "loop")
  /\ IF wk[w].lost THEN Goto(w, "exit") /\ UNCHANGED fresh
     ELSE /\ Read(w)
          /\ \/ q.status \notin Active /\ Goto(w, "exit")
             \/ q.status \in Active /\ q.pause /\ Goto(w, "pause")
             \/ /\ q.status \in Active /\ ~q.pause /\ Ready = {}
                /\ Goto(w, IF Completed = Ms THEN "finalize" ELSE "fail")
             \/ /\ q.status \in Active /\ ~q.pause
                /\ \E m \in Ms :
                     /\ IsFirst(m, Ready)
                     /\ wk' = [wk EXCEPT ![w] = [@ EXCEPT !.m = m, !.p = q.num[m],
                                 !.pc = IF OverBudget(m) THEN "exhaust" ELSE "start"]]
             \/ /\ MayTimeOut /\ q.status \in Active /\ ~q.pause
                /\ Ready # {} \/ Completed = Ms
                /\ Goto(w, "exhaust")
  /\ UNCHANGED <<q, tables, sched>>

(* BudgetExhausted, from the loop or from _finalize_quest.                  *)
Exhaust(w) ==
  /\ At(w, "exhaust")
  /\ \/ Append(w, [q EXCEPT !.status = "budget_exhausted"]) /\ Goto(w, "exit")
     \/ Conflict(w) /\ Goto(w, "error")
  /\ UNCHANGED <<tables, sched>>

------------------------------------------------------------------------------
(* _execute_milestone.  A conflict in here sends the worker back to the     *)
(* head of the loop.                                                        *)

Retry(w) == Conflict(w) /\ Goto(w, "loop")

(* _milestone: the identifier the worker holds is not in the projection any *)
(* more (somebody else replanned); the exception escapes the inner try.     *)
Gone(w) == q.num[wk[w].m] # wk[w].p

ReceiptOf(w) == receipt[wk[w].m][wk[w].p]

(* The worker reads again before its next append, unless it lost the lease. *)
ReadOn(w, from, to) ==
  /\ At(w, from)
  /\ IF wk[w].lost THEN Goto(w, "exit") /\ UNCHANGED fresh
     ELSE Read(w) /\ Goto(w, to)
  /\ UNCHANGED <<q, tables, sched>>

(* Mutant: an approval is looked up by milestone, whatever its attempt.     *)
ApprovedOnce(m) == \E p \in Plans : <<m, p>> \in approved

(* _action_is_approved: the decision names the action, so this attempt.     *)
ActionApproved(m) == <<m, q.num[m]>> \in approved

(* MilestoneStarted: only a pending milestone is charged.                   *)
StartMilestone(w) ==
  /\ At(w, "start")
  /\ LET m == wk[w].m IN
     \/ /\ AppendAndHold(w, [q EXCEPT !.status = "running", !.ms[m] = "running",
                               !.steps = @ + (IF q.ms[m] = "pending" THEN 1 ELSE 0)])
        /\ Goto(w, IF wk[w].lost THEN "exit"
                   ELSE IF m \in HighRisk /\ ~ActionApproved(m)
                   THEN "ask" ELSE "tool")
     \/ Retry(w)
  /\ UNCHANGED <<tables, sched>>

AskRead(w) == ReadOn(w, "ask", IF Gone(w) THEN "error" ELSE "approval")

(* Mutant: the worker asks and does not wait.                               *)
AskAndGoOn(w) ==
  /\ At(w, "approval")
  /\ Append(w, [q EXCEPT !.status = "waiting_user", !.pend = wk[w].m])
  /\ Goto(w, "tool")
  /\ UNCHANGED <<tables, sched>>

(* MilestoneApprovalRequired                                                *)
RequireApproval(w) ==
  /\ At(w, "approval")
  /\ \/ /\ Append(w, [q EXCEPT !.status = "waiting_user", !.pend = wk[w].m])
        /\ Goto(w, "exit")
     \/ Retry(w)
  /\ UNCHANGED <<tables, sched>>

(* gateway.execute.  A new key needs the version of MilestoneStarted; the   *)
(* AppError of a conflict is not a ValueError and escapes the inner try.    *)
Prepare(w) ==
  /\ At(w, "tool")
  /\ LET r == ReceiptOf(w) IN
     \/ wk[w].lost /\ Goto(w, "exit") /\ UNCHANGED receipt
     \/ /\ ~wk[w].lost /\ (Gone(w) \/ (r = "none" /\ ~fresh[w]))
        /\ Goto(w, "error") /\ UNCHANGED receipt
     \/ /\ ~wk[w].lost /\ r = "none" /\ fresh[w]
        /\ SetReceipt(wk[w].m, wk[w].p, "open") /\ Goto(w, "run")
     \/ /\ ~wk[w].lost /\ r \in {"committed", "failed"}
        /\ Goto(w, "after") /\ UNCHANGED receipt
     \/ /\ ~wk[w].lost /\ r \in {"open", "unknown"}
        /\ Goto(w, "run") /\ UNCHANGED receipt
  /\ UNCHANGED <<q, fresh, approved, stall, base, sched>>

(* The tool ran and its receipt is settled, or its effect is unknown.       *)
(* ToolCommitted is appended at whatever version is current.  A receipt in  *)
(* doubt cannot fail, and one that somebody else settled in the meantime    *)
(* can do neither: the transition is refused with an exception.             *)
RunTool(w) ==
  /\ At(w, "run")
  /\ LET r == ReceiptOf(w)
         Becomes(s) == SetReceipt(wk[w].m, wk[w].p, s) IN
     \/ /\ r \in {"open", "unknown"} /\ Becomes("committed")
        /\ fresh' = [u \in Threads |-> FALSE] /\ Goto(w, "after")
     \/ r = "open" /\ Becomes("failed") /\ UNCHANGED fresh /\ Goto(w, "after")
     \/ r \in {"open", "unknown"} /\ Becomes("unknown") /\ UNCHANGED fresh /\ Goto(w, "doubt")
     \/ r \in {"committed", "failed"} /\ UNCHANGED <<receipt, fresh>> /\ Goto(w, "after")
     \/ r # "open" /\ UNCHANGED <<receipt, fresh>> /\ Goto(w, "error")
  /\ UNCHANGED <<q, approved, stall, base, sched>>

(* The worker was handed a receipt in doubt: it says so, even if the action *)
(* is settled by now.                                                       *)
InDoubt(w) == ReadOn(w, "doubt", "unknown")

(* Mutant: a failed receipt is verified like a committed one.               *)
AfterAny(w) == ReadOn(w, "after", IF Gone(w) THEN "error" ELSE "verifying")

(* What the worker makes of a settled receipt, which never changes again.   *)
After(w) ==
  ReadOn(w, "after", CASE Gone(w) -> "error"
                       [] ~Gone(w) /\ ReceiptOf(w) = "failed" -> "failed"
                       [] OTHER -> "verifying")

ToolFailed(w) ==
  /\ At(w, "failed")
  /\ \/ /\ Append(w, [q EXCEPT !.status = "failed", !.ms[wk[w].m] = "failed",
                               !.error = "tool"])
        /\ Goto(w, "exit")
     \/ Retry(w)
  /\ UNCHANGED <<tables, sched>>

ToolEffectUnknown(w) ==
  /\ At(w, "unknown")
  /\ \/ Append(w, [q EXCEPT !.status = "paused"]) /\ Goto(w, "exit")
     \/ Retry(w)
  /\ UNCHANGED <<tables, sched>>

StartVerification(w) ==
  /\ At(w, "verifying")
  /\ \/ /\ Append(w, [q EXCEPT !.status = "verifying", !.ms[wk[w].m] = "verifying"])
        /\ Goto(w, "verify")
     \/ Retry(w)
  /\ UNCHANGED <<tables, sched>>

(* _verify_milestone on the projection just read; a failure is recorded as  *)
(* progress without new evidence and shown to the watchdog.                 *)
Verify(w) ==
  /\ At(w, "verify")
  /\ IF wk[w].lost THEN Goto(w, "exit") /\ UNCHANGED <<fresh, stall>>
     ELSE /\ Read(w)
          /\ \/ Gone(w) /\ Goto(w, "error") /\ UNCHANGED stall
             \/ ~Gone(w) /\ Goto(w, "verified") /\ UNCHANGED stall
             \/ /\ ~Gone(w)
                /\ stall' = IF stall < Threshold THEN stall + 1 ELSE stall
                /\ wk' = [wk EXCEPT ![w] = [@ EXCEPT
                            !.seen = [plan |-> q.plan, done |-> Completed],
                            !.pc = IF stall' >= Threshold THEN "looping"
                                   ELSE IF q.replans >= MaxReplans THEN "stuck"
                                   ELSE "replan"]]
  /\ UNCHANGED <<q, receipt, approved, base, sched>>

MilestoneVerified(w) ==
  /\ At(w, "verified")
  /\ \/ /\ Append(w, [q EXCEPT !.status = "running", !.ms[wk[w].m] = "completed"])
        /\ stall' = 0
        /\ Goto(w, "loop")
     \/ Retry(w) /\ UNCHANGED stall
  /\ UNCHANGED <<receipt, approved, base, sched>>

LoopRead(w) == ReadOn(w, "looping", "stuck")

(* LoopDetected or ReplanNeedsUser                                          *)
NeedUser(w) ==
  /\ At(w, "stuck")
  /\ \/ Append(w, [q EXCEPT !.status = "waiting_user"]) /\ Goto(w, "exit")
     \/ Retry(w)
  /\ UNCHANGED <<tables, sched>>

StartReplanning(w) ==
  /\ At(w, "replan")
  /\ \/ /\ Append(w, [q EXCEPT !.status = "replanning", !.replans = @ + 1])
        /\ Goto(w, "newplan")
     \/ Retry(w)
  /\ UNCHANGED <<tables, sched>>

PlanRead(w) == ReadOn(w, "newplan", "store")

(* Mutant: the replacement plan forgets what was completed.                 *)
ReplannedAll ==
  [q EXCEPT !.status = "running", !.plan = @ + 1,
            !.ms  = [m \in Ms |-> "pending"], !.num = [m \in Ms |-> q.plan + 1]]

(* replan_plan and store_plan_version: completed milestones stay, the       *)
(* others are numbered anew and start over.                                 *)
Replanned ==
  [q EXCEPT !.status = "running", !.plan = @ + 1,
            !.ms  = [m \in Ms |-> IF m \in Completed THEN "completed" ELSE "pending"],
            !.num = [m \in Ms |-> IF m \in Completed THEN @[m] ELSE q.plan + 1]]

(* A plan made from an older one is refused for good: its version exists or *)
(* it lacks a milestone completed meanwhile.                                *)
StorePlan(w) ==
  /\ At(w, "store")
  /\ LET current == wk[w].seen = [plan |-> q.plan, done |-> Completed] IN
     \/ current /\ Append(w, Replanned) /\ Goto(w, "loop")
     \/ fresh[w] /\ ~current /\ Goto(w, "error") /\ UNCHANGED <<q, fresh>>
     \/ Retry(w)
  /\ UNCHANGED <<tables, sched>>

------------------------------------------------------------------------------
(* _finalize_quest, outside the inner try: every conflict is unexpected     *)

Finalize(w) ==
  /\ At(w, "finalize")
  /\ \/ Append(w, [q EXCEPT !.status = "verifying"]) /\ Goto(w, "final")
     \/ Conflict(w) /\ Goto(w, "error")
  /\ UNCHANGED <<tables, sched>>

(* verify_all, then the projection and the clock are read again.  A failed  *)
(* criterion owned by a (completed) milestone makes replan_plan raise.      *)
FinalVerify(w) ==
  /\ At(w, "final")
  /\ IF wk[w].lost THEN Goto(w, "exit") /\ UNCHANGED fresh
     ELSE /\ Read(w)
          /\ \/ Goto(w, "complete")
             \/ Goto(w, "error")
             \/ Goto(w, "final_user")
             \/ MayTimeOut /\ Goto(w, "exhaust")
  /\ UNCHANGED <<q, tables, sched>>

Complete(w) ==
  /\ At(w, "complete")
  /\ \/ Append(w, [q EXCEPT !.status = "completed", !.error = "none"]) /\ Goto(w, "exit")
     \/ Conflict(w) /\ Goto(w, "error")
  /\ UNCHANGED <<tables, sched>>

(* QuestVerificationNeedsUser: the failed criterion belongs to no milestone.*)
FinalNeedsUser(w) ==
  /\ At(w, "final_user")
  /\ \/ Append(w, [q EXCEPT !.status = "waiting_user"]) /\ Goto(w, "exit")
     \/ Conflict(w) /\ Goto(w, "error")
  /\ UNCHANGED <<tables, sched>>

------------------------------------------------------------------------------
(* The outer except, _fail_quest and the finally block                      *)

UnexpectedFailure(w) ==
  /\ At(w, "error")
  /\ IF wk[w].lost \/ q.status \in TerminalStatus
       THEN Goto(w, "exit") /\ UNCHANGED fresh
       ELSE Read(w) /\ Goto(w, "fail")
  /\ UNCHANGED <<q, tables, sched>>

(* RUNTIME_ERROR or DAG_STALLED; a conflict is swallowed.                   *)
FailQuest(w) ==
  /\ At(w, "fail")
  /\ \/ Append(w, [q EXCEPT !.status = "failed", !.error = "runtime"])
     \/ Conflict(w)
  /\ Goto(w, "exit")
  /\ UNCHANGED <<tables, sched>>

(* Mutant: the lease is left to run out.                                    *)
ExitHolding(w) ==
  /\ At(w, "exit")
  /\ wk' = [wk EXCEPT ![w] = Resting]
  /\ UNCHANGED <<q, fresh, tables, lease, queue, rq, bounds>>

(* release_lease removes only the worker's own lease.                       *)
Exit(w) ==
  /\ At(w, "exit")
  /\ lease' = IF lease.owner = w THEN NoLease ELSE lease
  /\ wk' = [wk EXCEPT ![w] = Resting]
  /\ UNCHANGED <<q, fresh, tables, queue, rq, bounds>>

Admitted == {"baseline", "loop", "pause", "exhaust", "start", "ask", "approval", "tool",
             "run", "doubt", "after", "failed", "unknown", "verifying", "verify", "verified",
             "looping", "stuck", "replan", "newplan", "store", "finalize", "final",
             "complete", "final_user", "error", "fail"}

(* The lease runs out before the heartbeat renews it (a stalled process).   *)
Expire ==
  /\ lease.live /\ expiries < MaxExpiries
  /\ expiries' = expiries + 1
  /\ lease' = [lease EXCEPT !.live = FALSE]
  /\ UNCHANGED <<q, fresh, tables, queue, wk, rq, up, calls, modifies, crashes>>

(* The heartbeat finds the lease gone: renew_lease returns False.           *)
HeartbeatLost(w) ==
  /\ up /\ wk[w].pc \in Admitted \ {"error", "fail"} /\ ~wk[w].lost
  /\ lease # [owner |-> w, live |-> TRUE]
  /\ wk' = [wk EXCEPT ![w].lost = TRUE]
  /\ UNCHANGED <<q, fresh, tables, sched>>

------------------------------------------------------------------------------
(* The API                                                                  *)

StartRead(c) ==
  /\ Asked(c, "idle") /\ q.status = "planned"
  /\ Read(c) /\ Reply(c, "start")
  /\ UNCHANGED <<q, others, calls>>

(* QuestStarted, then the task is submitted to the pool.                    *)
StartQuest(c) ==
  /\ Asked(c, "start")
  /\ \/ Append(c, [q EXCEPT !.status = "running"]) /\ queue' = queue + 1
     \/ Conflict(c) /\ UNCHANGED queue
  /\ Reply(c, "idle")
  /\ UNCHANGED <<tables, lease, wk, bounds>>

PauseRead(c) ==
  /\ Asked(c, "idle") /\ q.status \in Active /\ pauses < MaxPauses
  /\ pauses' = pauses + 1
  /\ Read(c) /\ Reply(c, "pause")
  /\ UNCHANGED <<q, others, resumes>>

PauseQuest(c) ==
  /\ Asked(c, "pause")
  /\ \/ Append(c, [q EXCEPT !.pause = TRUE])
     \/ Conflict(c)
  /\ Reply(c, "idle")
  /\ UNCHANGED <<others, calls>>

(* Mutant: a Quest that ran out of budget may be resumed, too.              *)
ResumableToo == {"paused", "recovering", "budget_exhausted"}

Resumable == {"paused", "recovering"}

ResumeRead(c) ==
  /\ Asked(c, "idle") /\ q.status \in Resumable
  /\ resumes < MaxResumes /\ resumes' = resumes + 1
  /\ Patient => queue = 0 /\ \A w \in Workers : wk[w].pc = "idle"
  /\ Read(c)
  /\ Reply(c, IF Ambiguous # {} THEN "reconcile" ELSE "recover")
  /\ UNCHANGED <<q, others, pauses>>

(* Each unresolved action goes through the gateway again: it is committed,  *)
(* or it stays unknown and RecoveryNeedsUser is appended at the version of  *)
(* the first read.                                                          *)
ResumeReconcile(c) ==
  /\ Asked(c, "reconcile")
  /\ \/ \E a \in Ambiguous :
          /\ SetReceipt(a[1], a[2], "committed")
          /\ fresh' = [u \in Threads |-> FALSE]
          /\ Reply(c, IF Ambiguous = {a} THEN "recover" ELSE "reconcile")
          /\ UNCHANGED q
     \/ /\ Ambiguous # {}
        /\ Append(c, [q EXCEPT !.status = "waiting_user"]) \/ Conflict(c)
        /\ Reply(c, "idle")
        /\ UNCHANGED receipt
     \/ /\ Ambiguous = {}
        /\ Reply(c, "recover")
        /\ UNCHANGED <<q, fresh, receipt>>
  /\ UNCHANGED <<approved, stall, base, lease, queue, wk, bounds>>

(* The projection is read again, but its status is not checked again.       *)
RecoverRead(c) ==
  /\ \/ Asked(c, "recover") /\ Reply(c, "recovery_started")
     \/ Asked(c, "recover2") /\ Reply(c, "recovery_completed")
  /\ Read(c)
  /\ UNCHANGED <<q, others, calls>>

RecoveryStarted(c) ==
  /\ Asked(c, "recovery_started")
  /\ \/ /\ Append(c, [q EXCEPT !.status = "recovering", !.pause = FALSE])
        /\ Reply(c, "recover2")
     \/ Conflict(c) /\ Reply(c, "idle")
  /\ UNCHANGED <<others, calls>>

RecoveryCompleted(c) ==
  /\ Asked(c, "recovery_completed")
  /\ \/ /\ Append(c, [q EXCEPT !.status = "running", !.error = "none"])
        /\ queue' = queue + 1
     \/ Conflict(c) /\ UNCHANGED queue
  /\ Reply(c, "idle")
  /\ UNCHANGED <<tables, lease, wk, bounds>>

(* submit_decision and apply_decision: one transaction on the current state *)
Decide(new) ==
  /\ up /\ q.status = "waiting_user"
  /\ q' = new
  /\ fresh' = [u \in Threads |-> FALSE]
  /\ UNCHANGED <<receipt, base, lease, queue, wk, rq, up, calls, crashes, expiries>>

(* An approval names the pending action; its milestone starts over with the *)
(* same attempt number, hence the same action.                              *)
Approve ==
  /\ Decide([q EXCEPT !.status = "paused", !.pend = NoM, !.error = "none",
               !.ms = [m \in Ms |-> IF m = q.pend THEN "pending" ELSE @[m]]])
  /\ approved' = approved \cup
                   (IF q.pend = NoM THEN {} ELSE {<<q.pend, q.num[q.pend]>>})
  /\ UNCHANGED <<stall, modifies>>

Reject ==
  /\ Decide([q EXCEPT !.status = "failed", !.error = "user"])
  /\ UNCHANGED <<approved, stall, modifies>>

(* A changed contract (a larger budget, say) recompiles the same plan: its  *)
(* original identifiers and attempts, none of them completed.  It is        *)
(* refused if a completed milestone has no counterpart in it.               *)
Modified == [q EXCEPT !.status = "paused", !.pend = NoM, !.error = "none",
               !.plan = @ + 1,
               !.ms = [m \in Ms |-> "pending"], !.num = [m \in Ms |-> 0]]

Modify ==
  /\ modifies < MaxModifies
  /\ \A m \in Completed : q.num[m] = 0
  /\ Decide(Modified)
  /\ modifies' = modifies + 1
  /\ stall' = 0
  /\ UNCHANGED approved

------------------------------------------------------------------------------
(* Crash and startup recovery                                               *)

Crash ==
  /\ up /\ crashes < MaxCrashes
  /\ up' = FALSE
  /\ crashes' = crashes + 1
  /\ queue' = 0
  /\ wk' = [w \in Workers |-> Resting]
  /\ rq' = [c \in Clients |-> "idle"]
  /\ fresh' = [t \in Threads |-> FALSE]
  /\ UNCHANGED <<q, tables, lease, calls, modifies, expiries>>

(* ProcessInterrupted                                                       *)
Interrupted == [q EXCEPT !.status = "paused", !.pause = FALSE]

(* _recover_interrupted: leases go, an action that was dispatched (not only *)
(* prepared) becomes ambiguous, an active Quest is paused.                  *)
Restart ==
  /\ ~up
  /\ up' = TRUE
  /\ lease' = NoLease
  /\ \/ UNCHANGED receipt
     \/ /\ \E m \in Ms : Receipt(m) = "open"
        /\ receipt' = [m \in Ms |-> [p \in Plans |->
             IF receipt[m][p] = "open" THEN "unknown" ELSE receipt[m][p]]]
  /\ q' = IF q.status \in Active
            THEN Interrupted ELSE q
  /\ UNCHANGED <<approved, stall, base, queue, wk, rq, fresh, calls, modifies,
                 crashes, expiries>>

------------------------------------------------------------------------------
Worker(w) ==
  \/ TakeTask(w) \/ Begin(w) \/ Pause(w) \/ Admit(w) \/ Baseline(w)
  \/ Loop(w) \/ Exhaust(w)
  \/ StartMilestone(w) \/ AskRead(w) \/ RequireApproval(w)
  \/ Prepare(w) \/ RunTool(w) \/ InDoubt(w) \/ After(w) \/ ToolFailed(w) \/ ToolEffectUnknown(w)
  \/ StartVerification(w) \/ Verify(w) \/ MilestoneVerified(w)
  \/ LoopRead(w) \/ NeedUser(w) \/ StartReplanning(w) \/ PlanRead(w) \/ StorePlan(w)
  \/ Finalize(w) \/ FinalVerify(w) \/ Complete(w) \/ FinalNeedsUser(w)
  \/ UnexpectedFailure(w) \/ FailQuest(w) \/ Exit(w)

(* A request that was accepted runs to its reply.                           *)
Request(c) ==
  \/ StartQuest(c) \/ PauseQuest(c)
  \/ ResumeReconcile(c) \/ RecoverRead(c) \/ RecoveryStarted(c) \/ RecoveryCompleted(c)

Call(c) == StartRead(c) \/ PauseRead(c) \/ ResumeRead(c)

Next ==
  \/ \E w \in Workers : Worker(w) \/ HeartbeatLost(w)
  \/ \E c \in Clients : Call(c) \/ Request(c)
  \/ Approve \/ Reject \/ Modify
  \/ Expire \/ Crash \/ Restart

Spec == Init /\ [][Next]_vars

(* A pool thread, an accepted request and a stopped service go on; nobody   *)
(* has to call, decide or fail.                                             *)
Fairness ==
  /\ \A w \in Workers : WF_vars(Worker(w))
  /\ \A c \in Clients : WF_vars(Request(c))
  /\ WF_vars(Restart)

FairSpec == Spec /\ Fairness

------------------------------------------------------------------------------
(* Properties                                                               *)

Statuses   == {"planned", "waiting_user", "paused"} \cup Active \cup TerminalStatus
MsStatuses == {"pending", "running", "verifying", "completed", "failed"}
WorkerPcs  == Admitted \cup {"idle", "begin", "admit", "exit"}
RequestPcs == {"idle", "start", "pause", "reconcile", "recover", "recovery_started",
               "recover2", "recovery_completed"}

Quests == [status : Statuses, pause : BOOLEAN, ms : [Ms -> MsStatuses],
           plan : Nat, num : [Ms -> Plans], steps : Nat, replans : Nat,
           pend : Ms \cup {NoM}, error : {"none", "tool", "runtime", "user"}]
Leases == [owner : Workers \cup {NoOne}, live : BOOLEAN]
Seen   == [plan : Nat, done : SUBSET Ms]
WorkerStates == [pc : WorkerPcs, m : Ms \cup {NoM}, p : Plans, seen : Seen,
                 lost : BOOLEAN]
Receipts == [Ms -> [Plans -> {"none", "open", "committed", "failed", "unknown"}]]

(* The tables and the threads hold values of the declared kinds.            *)
TypeOK ==
  /\ q \in Quests
  /\ receipt \in Receipts
  /\ approved \subseteq Ms \X Plans
  /\ stall \in 0 .. Threshold
  /\ base \in BOOLEAN
  /\ lease \in Leases
  /\ queue \in Nat
  /\ wk \in [Workers -> WorkerStates]
  /\ rq \in [Clients -> RequestPcs]
  /\ fresh \in [Threads -> BOOLEAN]
  /\ up \in BOOLEAN
  /\ {pauses, resumes, modifies, crashes, expiries} \subseteq Nat

(* A worker past its admission ("pause" and the failure path are also       *)
(* reached before it).                                                      *)
Executing(w) == wk[w].pc \in Admitted \ {"pause", "error", "fail"}

(* admit_execution lets one worker in at a time, whatever requests, pauses  *)
(* and resumes queued more of them, as long as heartbeats keep the lease.   *)
OneExecutor == \A v, w \in Workers : Executing(v) /\ Executing(w) => v = w

(* _budget_reason and _handle_replan decide on a projection read earlier,   *)
(* yet the recorded usage never exceeds the contract's budget.              *)
BudgetKept == q.steps <= MaxSteps /\ q.replans <= MaxReplans

(* No milestone is completed unless the action its current attempt names    *)
(* was committed: neither a replan nor a modified contract may leave a      *)
(* completed milestone pointing at an attempt that never took effect.       *)
CompletedNeedsReceipt == \A m \in Completed : Receipt(m) = "committed"

(* The baseline snapshot is recorded before the first tool action, also by  *)
(* a worker whose admission was overtaken (_record_execution_baseline).     *)
BaselineBeforeTool == (\E m \in Ms, p \in Plans : receipt[m][p] # "none") => base

(* What a Quest claims it can prove: its completed milestones by receipts,  *)
(* its changes by the baseline they are compared with (artifact provenance).*)
EvidenceComplete == CompletedNeedsReceipt /\ BaselineBeforeTool

(* The tool of a high-risk milestone is prepared only for the attempt the   *)
(* user approved, never on an approval given to an earlier attempt          *)
(* (_action_is_approved, submit_decision).                                  *)
ApprovedBeforeTool ==
  \A m \in HighRisk, p \in Plans : receipt[m][p] # "none" => <<m, p>> \in approved

(* While the Quest is paused, waits for the user or has ended, no worker    *)
(* runs a tool for it: every event that stops the Quest is appended by the  *)
(* worker itself on its way out (one client at a time).                     *)
QuietWhenStopped ==
  q.status \notin Active => \A w \in Workers : wk[w].pc \notin {"tool", "run"}

(* A completed milestone stays completed through replans, approvals, resumes*)
(* and restarts (replan_plan, store_plan_version, apply_decision), with one *)
(* client at a time; a modified contract puts it back to pending.           *)
CompletedKept == [][\A m \in Completed : q'.ms[m] = "completed"]_vars

(* A Quest that has ended keeps its status: no request or worker that looked*)
(* at it earlier revives it (resume_quest, pause_quest, _execute_quest).    *)
TerminalStays == [][q.status \in TerminalStatus => q'.status = q.status]_vars

(* A Quest that is being executed comes to rest: it completes, fails, runs  *)
(* out of budget, waits for the user or is paused.  No active Quest is left *)
(* without a worker (_execute_quest, _recover_interrupted).                 *)
ComesToRest == q.status \in Active ~> q.status \notin Active

=============================================================================
