---------------------------- MODULE LegacyQuests ----------------------------
(***************************************************************************)
(* The frozen v0.1 runtime: Quests in two tables, a start that claims a    *)
(* planned Quest, and a thread pool that executes its milestones in order. *)
(* The database has one connection in autocommit mode behind one lock:     *)
(* other threads see each method as one step, a crash may fall between its *)
(* statements.  A statement may fail, as v1 shares the file ("database is  *)
(* locked"): an insert of create_quest, the Quest read back by a claim,    *)
(* any statement of a worker.  Progress, traces and timestamps follow from *)
(* the milestones and are left out; a failing trace of a worker is not.    *)
(***************************************************************************)
EXTENDS Integers, Sequences, FiniteSets

CONSTANTS LegacyIds,       \* Quests
          PlanLength,      \* milestones of a plan, 3 to 5 in the code
          PoolSize,        \* max_workers
          Starters,        \* clients that post /run
          MaxLegacyKills, MaxFaults    \* bounds on crashes and failed statements

NoStart == "no start"

ASSUME LegacyAssumption ==
    /\ {PlanLength, PoolSize} \subseteq Nat \ {0}
    /\ {MaxLegacyKills, MaxFaults} \subseteq Nat
    /\ NoStart \notin LegacyIds

VARIABLES legacy,     \* quests: status, error, and the status of each milestone row
          thread,     \* per Quest the step of its worker, and the error it will report
          waiting,    \* work submitted to the pool and not begun
          starting,   \* per client the Quest it has claimed and not submitted
          closed,     \* _closed
          toolRuns,   \* per Quest and milestone how often its tool was called
          cut,        \* Quests whose creation was cut short
          orphaned,   \* Quests left running with nobody to go on with them
          legacyKills, faults

legacyVars ==
    <<legacy, thread, waiting, starting, closed, toolRuns, cut, orphaned, legacyKills, faults>>

Positions == 1..PlanLength
NoThread == [pc |-> "none", at |-> 1, error |-> "none"]
NotCreated == [status |-> "absent", error |-> "none", steps |-> <<>>]

LegacyInit ==
    /\ legacy = [q \in LegacyIds |-> NotCreated]
    /\ thread = [q \in LegacyIds |-> NoThread]
    /\ waiting = <<>>
    /\ starting = [c \in Starters |-> NoStart]
    /\ closed = FALSE
    /\ toolRuns = [q \in LegacyIds |-> [i \in Positions |-> 0]]
    /\ cut = {} /\ orphaned = {} /\ legacyKills = 0 /\ faults = 0

----------------------------------------------------------------------------
(* Requests.                                                               *)

\* plan of RuleBasedAgent: only how many milestones it has matters here.
Planned(n) == [status |-> "planned", error |-> "none", steps |-> [i \in 1..n |-> "pending"]]

\* create_quest
CreateQuest(q) ==
    /\ legacy[q].status = "absent"
    /\ legacy' = [legacy EXCEPT ![q] = Planned(PlanLength)]
    /\ UNCHANGED <<thread, waiting, starting, closed, toolRuns, cut, orphaned, legacyKills, faults>>

\* The Quest and as many of its milestones as were inserted before create_quest
\* was cut short: in autocommit mode nothing is rolled back.
CutShort(q, inserted) ==
    /\ legacy[q].status = "absent"
    /\ legacy' = [legacy EXCEPT ![q] = Planned(inserted)]
    /\ cut' = cut \cup {q}

\* An insert of create_quest fails.
FaultInCreate(q, inserted) ==
    /\ CutShort(q, inserted)
    /\ faults < MaxFaults /\ faults' = faults + 1
    /\ UNCHANGED <<thread, waiting, starting, closed, toolRuns, orphaned, legacyKills>>

ClaimableAgain(q) == legacy[q].status \in {"planned", "failed"}

\* claim_for_run accepts a planned Quest only.
Claimable(q) == legacy[q].status = "planned"

\* start_quest up to the claim; it is refused once the service is closed.
Claim(c, q) ==
    /\ starting[c] = NoStart /\ ~closed /\ Claimable(q)
    /\ legacy' = [legacy EXCEPT ![q].status = "running", ![q].error = "none"]
    /\ starting' = [starting EXCEPT ![c] = q]
    /\ UNCHANGED <<thread, waiting, closed, toolRuns, cut, orphaned, legacyKills, faults>>

\* The claim is made, the Quest that is read back for the answer is not: nobody
\* submits it.
FaultInClaim(c, q) ==
    /\ starting[c] = NoStart /\ ~closed /\ Claimable(q)
    /\ faults < MaxFaults /\ faults' = faults + 1
    /\ legacy' = [legacy EXCEPT ![q].status = "running", ![q].error = "none"]
    /\ orphaned' = orphaned \cup {q}
    /\ UNCHANGED <<thread, waiting, starting, closed, toolRuns, cut, legacyKills>>

\* The pool takes the work; one that was shut down raises, and the Quest fails.
Submit(c) ==
    LET q == starting[c]
    IN  /\ q # NoStart
        /\ IF closed
           THEN /\ legacy' = [legacy EXCEPT ![q].status = "failed", ![q].error = "scheduling"]
                /\ UNCHANGED waiting
           ELSE waiting' = Append(waiting, q) /\ UNCHANGED legacy
        /\ starting' = [starting EXCEPT ![c] = NoStart]
        /\ UNCHANGED <<thread, closed, toolRuns, cut, orphaned, legacyKills, faults>>

----------------------------------------------------------------------------
(* A worker.                                                               *)

Idle(q) == thread[q].pc = "none"
Turn(q, pc) == thread' = [thread EXCEPT ![q].pc = pc]
FailWith(q, error) == thread' = [thread EXCEPT ![q].pc = "fail", ![q].error = error]
SetStep(q, status) == legacy' = [legacy EXCEPT ![q].steps[thread[q].at] = status]
SameRest == UNCHANGED <<waiting, starting, closed, toolRuns, cut, orphaned, legacyKills, faults>>

ThreadFree ==
    /\ waiting # <<>> /\ Idle(Head(waiting))
    /\ Cardinality({q \in LegacyIds : ~Idle(q)}) < PoolSize

\* A thread of the pool takes the next Quest and traces quest_started.
Begin ==
    /\ ThreadFree
    /\ thread' = [thread EXCEPT ![Head(waiting)] = [NoThread EXCEPT !.pc = "next"]]
    /\ waiting' = Tail(waiting)
    /\ UNCHANGED <<legacy, starting, closed, toolRuns, cut, orphaned, legacyKills, faults>>

\* start_milestone, or complete_quest after the last one.
NextStep(q) ==
    /\ thread[q].pc = "next"
    /\ IF thread[q].at \in DOMAIN legacy[q].steps
       THEN SetStep(q, "running") /\ Turn(q, "tool")
       ELSE legacy' = [legacy EXCEPT ![q].status = "completed"] /\ Turn(q, "announce")
    /\ SameRest

\* The tool succeeds or raises, a ToolError or anything else.
RunTool(q, succeeds) ==
    /\ thread[q].pc = "tool"
    /\ toolRuns' = [toolRuns EXCEPT ![q][thread[q].at] = @ + 1]
    /\ Turn(q, IF succeeds THEN "succeeded" ELSE "raised")
    /\ UNCHANGED <<legacy, waiting, starting, closed, cut, orphaned, legacyKills, faults>>

\* complete_milestone
CompleteMilestone(q) ==
    /\ thread[q].pc = "succeeded"
    /\ SetStep(q, "completed")
    /\ thread' = [thread EXCEPT ![q].pc = "next", ![q].at = @ + 1]
    /\ SameRest

\* fail_milestone
FailMilestone(q) ==
    /\ thread[q].pc = "raised"
    /\ SetStep(q, "failed")
    /\ FailWith(q, "tool")
    /\ SameRest

\* fail_quest
FailQuest(q) ==
    /\ thread[q].pc = "fail"
    /\ legacy' = [legacy EXCEPT ![q].status = "failed", ![q].error = thread[q].error]
    /\ thread' = [thread EXCEPT ![q] = NoThread]
    /\ SameRest

\* The trace quest_completed, after which the thread is free.
Announce(q) ==
    /\ thread[q].pc = "announce"
    /\ thread' = [thread EXCEPT ![q] = NoThread]
    /\ UNCHANGED legacy /\ SameRest

StaysRunning(q) == thread' = [thread EXCEPT ![q] = NoThread] /\ orphaned' = orphaned \cup {q}

\* A statement of the worker fails.  Within the try it makes the Quest fail, even
\* one that is completed and only lacks its trace; in the handler itself nothing
\* is left to catch it.
Fault(q) ==
    /\ ~Idle(q) /\ faults < MaxFaults
    /\ faults' = faults + 1
    /\ IF thread[q].pc = "fail"
       THEN StaysRunning(q)
       ELSE FailWith(q, "execution") /\ UNCHANGED orphaned
    /\ UNCHANGED <<legacy, waiting, starting, closed, toolRuns, cut, legacyKills>>

\* The trace quest_started fails, which is before the try.
FaultAtBegin ==
    /\ ThreadFree /\ faults < MaxFaults
    /\ faults' = faults + 1
    /\ orphaned' = orphaned \cup {Head(waiting)}
    /\ waiting' = Tail(waiting)
    /\ UNCHANGED <<legacy, thread, starting, closed, toolRuns, cut, legacyKills>>

----------------------------------------------------------------------------
(* The process.                                                            *)

\* close: what was submitted is still executed.
CloseService ==
    /\ ~closed
    /\ closed' = TRUE
    /\ UNCHANGED <<legacy, thread, waiting, starting, toolRuns, cut, orphaned, legacyKills, faults>>

\* The process ends after its workers and requests, and is started again.
RestartService ==
    /\ closed /\ waiting = <<>>
    /\ \A q \in LegacyIds : Idle(q)
    /\ \A c \in Starters : starting[c] = NoStart
    /\ closed' = FALSE
    /\ UNCHANGED <<legacy, thread, waiting, starting, toolRuns, cut, orphaned, legacyKills, faults>>

\* The process dies and is started again: nothing looks for Quests left running.
LoseMemory ==
    /\ legacyKills < MaxLegacyKills
    /\ legacyKills' = legacyKills + 1
    /\ thread' = [q \in LegacyIds |-> NoThread]
    /\ waiting' = <<>>
    /\ starting' = [c \in Starters |-> NoStart]
    /\ closed' = FALSE
    /\ orphaned' = orphaned \cup {q \in LegacyIds : legacy[q].status = "running"}
    /\ UNCHANGED <<toolRuns, faults>>

KillService == LoseMemory /\ UNCHANGED <<legacy, cut>>

\* It dies between the inserts of create_quest: the Quest has fewer milestones.
KillInCreate(q, inserted) == CutShort(q, inserted) /\ LoseMemory

WorkerStep(q) ==
    \/ NextStep(q) \/ CompleteMilestone(q) \/ FailMilestone(q) \/ FailQuest(q) \/ Announce(q)
    \/ \E succeeds \in BOOLEAN : RunTool(q, succeeds)

LegacyProgress == (\E q \in LegacyIds : WorkerStep(q)) \/ (\E c \in Starters : Submit(c)) \/ Begin

LegacyNext ==
    \/ \E q \in LegacyIds :
           \/ CreateQuest(q) \/ Fault(q)
           \/ \E inserted \in 0..PlanLength - 1 : KillInCreate(q, inserted) \/ FaultInCreate(q, inserted)
           \/ \E c \in Starters : Claim(c, q) \/ FaultInClaim(c, q)
    \/ LegacyProgress \/ FaultAtBegin
    \/ CloseService \/ RestartService \/ KillService

----------------------------------------------------------------------------
(* Properties.                                                             *)

\* However often it is started, a Quest runs each tool at most once and only after
\* the milestones before it are completed; one that is completed and was created
\* whole has completed its whole plan.
RanInOrder(q) ==
    /\ \A i \in Positions :
           /\ toolRuns[q][i] <= 1
           /\ toolRuns[q][i] = 1 => \A j \in 1..i - 1 : legacy[q].steps[j] = "completed"
    /\ legacy[q].status = "completed" =>
           /\ \A i \in DOMAIN legacy[q].steps : legacy[q].steps[i] = "completed"
           /\ Len(legacy[q].steps) = PlanLength \/ q \in cut

\* A start runs a Quest once, in order, to an end (claim_for_run, _execute_quest),
\* also when the service is closed meanwhile, unless the process died or a
\* statement failed where nothing catches it.
RunsOnceToAnEnd ==
    /\ [](\A q \in LegacyIds : RanInOrder(q))
    /\ []<>(\A q \in LegacyIds : legacy[q].status = "running" => q \in orphaned)
=============================================================================
