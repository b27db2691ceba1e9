----------------------------- MODULE ToolGateway -----------------------------
(***************************************************************************)
(* The persistent tool gateway of the v1 runtime (v1/gateway.py) with the  *)
(* receipt table it drives (v1/storage.py), the workspace files the tools  *)
(* write, and the two kinds of thread that call it: the executor of a      *)
(* Quest, which runs one milestone action after another, and the           *)
(* resume_quest requests, which re-execute the unresolved actions.         *)
(*                                                                         *)
(* Every call is split where another thread, the user's editor or a crash  *)
(* can interleave: the pre-effect hash, the prepare transaction, the       *)
(* reconciliation read, the dispatch transaction, the tool, the observing  *)
(* commit and the two failure transactions.                                *)
(*                                                                         *)
(* Abstractions.  One Quest; action a is the only attempt of milestone a,  *)
(* so an action, its idempotency key and its milestone are the same index. *)
(* Events other than ToolCommitted are not in the ledger, and a state      *)
(* version conflict of a first prepare_action is a nondeterministic        *)
(* outcome.  The Quest status is reduced to mode.  Verification always     *)
(* passes.  FaultInjector (off by default) is covered by ToolFault.        *)
(***************************************************************************)
EXTENDS Integers, Sequences, FiniteSets

CONSTANTS
  N,            \* number of actions of the plan
  Executors,    \* worker threads in _execute_quest
  Resumers,     \* request threads in resume_quest
  Paths, Contents,
  PathOf,       \* the workspace path of each action
  ContentOf,    \* the content a write action puts there
  Writes,       \* the write_file actions; the others are read_file
  NoOverwrite,  \* the write_file actions called with overwrite=False
  LeaseOverlap, \* TRUE: an expired lease may leave two executors inside execute
  LiveEdits,    \* TRUE: files are edited by others also while the process is up
  MaxEdits, MaxCrashes, MaxFaults

Actions == 1 .. N
Callers == Executors \cup Resumers
Absent  == "absent"
NotFile == "not_file"
FileStates == Contents \cup {Absent, NotFile}

ASSUME GatewayAssumption ==
  /\ N \in Nat \ {0}
  /\ Executors \cap Resumers = {}
  /\ Contents \cap {Absent, NotFile} = {}
  /\ PathOf \in [Actions -> Paths]
  /\ ContentOf \in [Actions -> Contents]
  /\ Writes \subseteq Actions
  /\ NoOverwrite \subseteq Writes
  /\ LeaseOverlap \in BOOLEAN
  /\ LiveEdits \in BOOLEAN
  /\ {MaxEdits, MaxCrashes, MaxFaults} \subseteq Nat

VARIABLES
  receipt,  \* the v1_tool_actions row of each action
  ledger,   \* the ToolCommitted events of the Quest, in order
  file,     \* the file at each path
  call,     \* the control state of each thread inside execute
  todo,     \* the unresolved actions a resume request still has to execute
  since,    \* the ToolCommitted events there were when the request began
  mode,     \* "running", "paused", "waiting" or "closed": the Quest status
  cursor,   \* the milestone the executor is at
  up,       \* the process is running
  edits, crashes, faults,   \* used-up bounds
  effects,  \* history: how often the tool of each action replaced its file
  landed    \* history: since its prepare the file held the action's content

vars == <<receipt, ledger, file, call, todo, since, mode, cursor, up,
          edits, crashes, faults, effects, landed>>

Statuses == {"none", "prepared", "dispatched", "committed", "failed",
             "unknown_effect"}
Results  == {"none", "created", "replaced", "reconciled"} \cup FileStates
NoRow    == [status |-> "none", pre |-> Absent, result |-> "none", event |-> 0]
Idle     == [pc |-> "idle", act |-> 1, pre |-> Absent, snap |-> "none",
             res |-> "none", out |-> "none"]
PCs      == {"idle", "prepare", "reconcile", "dispatch", "tool", "commit",
             "fail", "unknown", "return"}
Outcomes == {"none", "committed", "failed", "unknown_effect", "raised"}

Init ==
  /\ receipt = [a \in Actions |-> NoRow]
  /\ ledger = <<>>
  /\ file \in [Paths -> Contents \cup {Absent}]
  /\ call = [c \in Callers |-> Idle]
  /\ todo = [r \in Resumers |-> {}]
  /\ since = [r \in Resumers |-> 0]
  /\ mode = "running"
  /\ cursor = 1
  /\ up = TRUE
  /\ edits = 0 /\ crashes = 0 /\ faults = 0
  /\ effects = [a \in Actions |-> 0]
  /\ landed = [a \in Actions |-> FALSE]

------------------------------------------------------------------------------
(* The receipt table: from which statuses each transition is allowed.      *)

Terminal    == {"committed", "failed"}
Unresolved  == {a \in Actions : receipt[a].status \in {"dispatched", "unknown_effect"}}

(* Mutant: reconciliation may not commit what startup marked ambiguous.     *)
CommitFromStrict == {"dispatched"}

CommitFrom  == {"dispatched", "unknown_effect"}
FailFrom    == {"prepared", "dispatched"}

(* Mutant: a late lost response may reopen a committed receipt.             *)
UnknownFromLoose == {"dispatched", "committed"}

UnknownFrom == {"dispatched"}

At(c, l)       == up /\ call[c].pc = l
Row(c)         == receipt[call[c].act]
FileOf(a)      == file[PathOf[a]]
SetStatus(a, s) == receipt' = [receipt EXCEPT ![a].status = s]
Goto(c, l)     == call' = [call EXCEPT ![c].pc = l]
Return(c, o)   == call' = [call EXCEPT ![c] = [@ EXCEPT !.pc = "return", !.out = o]]

(* The tool, or reconciliation, has a result for the receipt.               *)
Produced(c, res) ==
  call' = [call EXCEPT ![c] = [@ EXCEPT !.pc = "commit", !.res = res]]

(* A file gets a new state; landed follows every action of that path.      *)
FileBecomes(p, v) ==
  /\ file' = [file EXCEPT ![p] = v]
  /\ landed' = [a \in Actions |->
       landed[a] \/ (receipt[a].status # "none" /\ PathOf[a] = p /\ ContentOf[a] = v)]

quest   == <<todo, since, mode, cursor, up, edits, crashes>>
history == <<effects, landed>>

------------------------------------------------------------------------------
(* ToolGateway.execute                                                      *)

(* What execute does first: authorize, hash the file, note the request.     *)
Enter(c, a) ==
  call' = [call EXCEPT ![c] =
             [Idle EXCEPT !.pc = "prepare", !.act = a, !.pre = FileOf(a)]]

(* prepare_action of a key that has no row yet: the compare-and-swap on the *)
(* state version succeeds and the row is inserted ...                       *)
PrepareFresh(c) ==
  /\ At(c, "prepare")
  /\ Row(c).status = "none"
  /\ LET a == call[c].act IN
     /\ receipt' = [receipt EXCEPT ![a] =
                      [NoRow EXCEPT !.status = "prepared", !.pre = call[c].pre]]
     /\ landed' = [landed EXCEPT ![a] = (FileOf(a) = ContentOf[a])]
  /\ call' = [call EXCEPT ![c] = [@ EXCEPT !.pc = "dispatch", !.snap = "prepared"]]
  /\ UNCHANGED <<ledger, file, faults, effects, quest>>

(* ... or some other event moved the version: STATE_VERSION_CONFLICT.       *)
PrepareConflict(c) ==
  /\ At(c, "prepare")
  /\ Row(c).status = "none"
  /\ Return(c, "raised")
  /\ UNCHANGED <<receipt, ledger, file, faults, history, quest>>

(* prepare_action of a known key returns the row as it is: a settled        *)
(* receipt is replayed, an ambiguous one is reconciled, a prepared one is   *)
(* dispatched now.                                                          *)
PrepareKnown(c) ==
  /\ At(c, "prepare")
  /\ Row(c).status # "none"
  /\ LET s == Row(c).status IN
       call' = [call EXCEPT ![c] =
                  [@ EXCEPT !.snap = s,
                            !.pc = IF s \in Terminal THEN "return"
                                   ELSE IF s = "prepared" THEN "dispatch"
                                   ELSE "reconcile",
                            !.out = IF s \in Terminal THEN s ELSE "none"]]
  /\ UNCHANGED <<receipt, ledger, file, faults, history, quest>>

(* Mutant: only the recorded file counts, not the one that is there now.    *)
SafeRetryBlind(a) == a \notin Writes \/ receipt[a].pre = Absent

(* _reconcile: an ambiguous read is simply repeated; an ambiguous write is  *)
(* repeated only if nothing was there before and nothing is there now.      *)
SafeRetry(a) ==
  \/ a \notin Writes
  \/ FileOf(a) = Absent /\ receipt[a].pre = Absent

(* _reconcile: the file holds exactly what the action was to write.         *)
Reconcilable(a) ==
  /\ a \in Writes
  /\ FileOf(a) = ContentOf[a]
  /\ a \in NoOverwrite => receipt[a].pre = Absent

(* execute, when reconciliation neither commits nor may retry.              *)
NotSafe(c) == IF call[c].snap = "dispatched" THEN Goto(c, "unknown")
              ELSE Return(c, "unknown_effect")

Reconcile(c) ==
  /\ At(c, "reconcile")
  /\ LET a == call[c].act IN
       \/ SafeRetry(a) /\ Goto(c, "tool")
       \/ Reconcilable(a)
            /\ Produced(c, "reconciled")
       \/ ~SafeRetry(a) /\ ~Reconcilable(a) /\ NotSafe(c)
  /\ UNCHANGED <<receipt, ledger, file, faults, history, quest>>

(* mark_action_dispatched, before the tool runs.                            *)
Dispatch(c) ==
  /\ At(c, "dispatch")
  /\ \/ Row(c).status = "prepared"
          /\ SetStatus(call[c].act, "dispatched") /\ Goto(c, "tool")
     \/ Row(c).status = "dispatched" /\ Goto(c, "tool") /\ UNCHANGED receipt
     \/ Row(c).status \notin {"prepared", "dispatched"}
          /\ Return(c, "raised") /\ UNCHANGED receipt
  /\ UNCHANGED <<ledger, file, faults, history, quest>>

------------------------------------------------------------------------------
(* ToolRegistry.execute and what _dispatch makes of its outcome             *)

ReadTool(c) ==
  /\ At(c, "tool")
  /\ call[c].act \notin Writes
  /\ IF FileOf(call[c].act) \in Contents
       THEN Produced(c, FileOf(call[c].act))
       ELSE Goto(c, "fail")
  /\ UNCHANGED <<receipt, ledger, file, faults, history, quest>>

(* write_file refuses before it writes: FILE_ALREADY_EXISTS is one of       *)
(* KNOWN_NO_EFFECT_ERRORS, a directory in the way is an ambiguous error.    *)
WriteRefused(c) ==
  /\ At(c, "tool")
  /\ call[c].act \in Writes
  /\ LET a == call[c].act IN
       \/ a \in NoOverwrite /\ FileOf(a) # Absent /\ Goto(c, "fail")
       \/ a \notin NoOverwrite /\ FileOf(a) = NotFile /\ Goto(c, "unknown")
  /\ UNCHANGED <<receipt, ledger, file, faults, history, quest>>

(* write_file replaces the file atomically; the response arrives, or is     *)
(* lost (an exception after the effect).                                    *)
WriteTool(c) ==
  /\ At(c, "tool")
  /\ LET a == call[c].act IN
     /\ a \in Writes
     /\ IF a \in NoOverwrite THEN FileOf(a) = Absent ELSE FileOf(a) # NotFile
     /\ FileBecomes(PathOf[a], ContentOf[a])
     /\ effects' = [effects EXCEPT ![a] = @ + 1]
     /\ \/ /\ Produced(c, IF FileOf(a) = Absent THEN "created" ELSE "replaced")
           /\ UNCHANGED faults
        \/ /\ faults < MaxFaults
           /\ faults' = faults + 1
           /\ Goto(c, "unknown")
  /\ UNCHANGED <<receipt, ledger, quest>>

(* Any other exception before the effect: ambiguous for a write, failed for *)
(* a read-only tool.                                                        *)
ToolFault(c) ==
  /\ At(c, "tool")
  /\ faults < MaxFaults
  /\ faults' = faults + 1
  /\ Goto(c, IF call[c].act \in Writes THEN "unknown" ELSE "fail")
  /\ UNCHANGED <<receipt, ledger, file, history, quest>>

Observed(a) == a \in Writes => FileOf(a) = ContentOf[a]

(* Mutant: the receipt is linked to the event before its own.               *)
RecordCommitLate(c) ==
  LET a == call[c].act IN
  /\ receipt' = [receipt EXCEPT ![a] =
                   [@ EXCEPT !.status = "committed", !.result = call[c].res,
                             !.event = Len(ledger)]]
  /\ ledger' = Append(ledger, a)
  /\ Return(c, "committed")

(* commit_action_with_event: receipt, ToolCommitted event and link in one   *)
(* transaction.                                                             *)
RecordCommit(c) ==
  LET a == call[c].act IN
  /\ receipt' = [receipt EXCEPT ![a] =
                   [@ EXCEPT !.status = "committed", !.result = call[c].res,
                             !.event = Len(ledger) + 1]]
  /\ ledger' = Append(ledger, a)
  /\ Return(c, "committed")

(* A commit that is refused: reconciliation lets the ValueError out, while  *)
(* _dispatch's catch-all turns it into a failure of the receipt.            *)
CommitRefused(c) ==
  IF call[c].res = "reconciled" THEN Return(c, "raised")
  ELSE Goto(c, IF call[c].act \in Writes THEN "unknown" ELSE "fail")

(* _write_file_observation, then commit_action_with_event.                  *)
Commit(c) ==
  /\ At(c, "commit")
  /\ LET a == call[c].act
         replayed == Row(c).status = "committed" /\ Row(c).result = call[c].res
     IN
       \/ /\ ~Observed(a)
          /\ IF call[c].res = "reconciled" THEN NotSafe(c) ELSE Goto(c, "unknown")
          /\ UNCHANGED <<receipt, ledger>>
       \/ Observed(a) /\ Row(c).status \in CommitFrom /\ RecordCommit(c)
       \/ /\ Observed(a) /\ Row(c).status \notin CommitFrom
          /\ IF replayed THEN Return(c, "committed") ELSE CommitRefused(c)
          /\ UNCHANGED <<receipt, ledger>>
  /\ UNCHANGED <<file, faults, history, quest>>

(* _transition_action for fail_action and mark_action_unknown: a repeated   *)
(* transition returns the row, a transition from elsewhere raises.          *)
Transition(c, from, s) ==
  \/ Row(c).status = s /\ Return(c, s) /\ UNCHANGED receipt
  \/ Row(c).status # s /\ Row(c).status \in from
       /\ SetStatus(call[c].act, s) /\ Return(c, s)
  \/ Row(c).status # s /\ Row(c).status \notin from
       /\ Return(c, "raised") /\ UNCHANGED receipt

FailAction(c) ==
  /\ At(c, "fail")
  /\ Transition(c, FailFrom, "failed")
  /\ UNCHANGED <<ledger, file, faults, history, quest>>

(* Mutant: an exception after the effect counts as a failure.               *)
MarkFailed(c) ==
  /\ At(c, "unknown")
  /\ Transition(c, FailFrom, "failed")
  /\ UNCHANGED <<ledger, file, faults, history, quest>>

MarkUnknown(c) ==
  /\ At(c, "unknown")
  /\ Transition(c, UnknownFrom, "unknown_effect")
  /\ UNCHANGED <<ledger, file, faults, history, quest>>

------------------------------------------------------------------------------
(* The executor: V1QuestService._execute_milestone around the gateway       *)

ExecutorStart(c) ==
  /\ At(c, "idle")
  /\ mode = "running" /\ cursor \in Actions
  /\ LeaseOverlap \/ \A d \in Executors : call[d].pc = "idle"
  /\ Enter(c, cursor)
  /\ UNCHANGED <<receipt, ledger, file, faults, history, quest>>

(* A committed receipt completes the milestone; an unknown effect pauses    *)
(* the Quest; a failed one and an exception end it (an executor that lost   *)
(* its lease appends nothing).                                              *)
ExecutorReturn(c) ==
  /\ At(c, "return")
  /\ call' = [call EXCEPT ![c] = Idle]
  /\ LET o == call[c].out IN
       \/ /\ o = "committed"
          /\ cursor' = IF call[c].act = cursor THEN cursor + 1 ELSE cursor
          /\ mode' = IF cursor' > N THEN "closed" ELSE mode
       \/ o = "unknown_effect" /\ mode' = "paused" /\ UNCHANGED cursor
       \/ o \in {"failed", "raised"} /\ mode' = "closed" /\ UNCHANGED cursor
       \/ LeaseOverlap /\ UNCHANGED <<mode, cursor>>
  /\ UNCHANGED <<receipt, ledger, file, faults, history, todo, since, up, edits, crashes>>

------------------------------------------------------------------------------
(* resume_quest around the gateway                                          *)

ResumeBegin(r) ==
  /\ At(r, "idle") /\ mode = "paused" /\ todo[r] = {}
  /\ Unresolved # {}
  /\ todo' = [todo EXCEPT ![r] = Unresolved]
  /\ since' = [since EXCEPT ![r] = Len(ledger)]
  /\ UNCHANGED <<receipt, ledger, file, call, faults, history, mode, cursor, up,
                 edits, crashes>>

(* The unresolved actions are executed in the order they were created.      *)
ResumeExecute(r) ==
  /\ At(r, "idle")
  /\ \E a \in todo[r] : (\A b \in todo[r] : a <= b) /\ Enter(r, a)
  /\ UNCHANGED <<receipt, ledger, file, faults, history, quest>>

(* RecoveryStarted and RecoveryCompleted: no unresolved action is left to   *)
(* this request; the status is not looked at again.                         *)
Resumed(r) ==
  /\ mode' = "running"
  /\ todo' = [todo EXCEPT ![r] = {}]

(* RecoveryNeedsUser is appended at the version the request began with,     *)
(* which a receipt committed since has moved; with overlapping executors    *)
(* their events may have moved it too.                                      *)
VersionHolds(r) == Len(ledger) = since[r]
VersionMoved(r) == LeaseOverlap \/ ~VersionHolds(r)

ResumeReturn(r) ==
  /\ At(r, "return")
  /\ call' = [call EXCEPT ![r] = Idle]
  /\ LET left == todo[r] \ {call[r].act} IN
       \/ /\ call[r].out \in Terminal
          /\ IF left = {} THEN Resumed(r)
             ELSE todo' = [todo EXCEPT ![r] = left] /\ UNCHANGED mode
       \/ /\ call[r].out = "unknown_effect" /\ VersionHolds(r)
          /\ mode' = IF mode = "paused" THEN "waiting" ELSE mode
          /\ todo' = [todo EXCEPT ![r] = {}]
       \/ /\ call[r].out = "raised" \/ (call[r].out = "unknown_effect" /\ VersionMoved(r))
          /\ todo' = [todo EXCEPT ![r] = {}]
          /\ UNCHANGED mode
  /\ UNCHANGED <<receipt, ledger, file, faults, history, since, cursor, up, edits, crashes>>

(* A resume with nothing unresolved goes straight to the executor.          *)
ResumeNothing(r) ==
  /\ At(r, "idle") /\ mode = "paused" /\ todo[r] = {}
  /\ Unresolved = {}
  /\ mode' = "running"
  /\ UNCHANGED <<receipt, ledger, file, call, todo, since, faults, history, cursor, up,
                 edits, crashes>>

(* The user answers a RecoveryNeedsUser: an approval pauses the Quest again.*)
UserApproves ==
  /\ up /\ mode = "waiting"
  /\ mode' = "paused"
  /\ UNCHANGED <<receipt, ledger, file, call, todo, since, faults, history, cursor, up,
                 edits, crashes>>

------------------------------------------------------------------------------
(* Crash, restart, and whoever else edits the workspace                     *)

Crash ==
  /\ up /\ crashes < MaxCrashes
  /\ up' = FALSE
  /\ crashes' = crashes + 1
  /\ call' = [c \in Callers |-> Idle]
  /\ todo' = [r \in Resumers |-> {}]
  /\ UNCHANGED <<receipt, ledger, file, since, mode, cursor, edits, faults, history>>

(* Mutant: startup takes a dispatched action for done.                      *)
AmbiguousRowDone(row) ==
  IF row.status = "dispatched" THEN [row EXCEPT !.status = "committed"] ELSE row

(* mark_dispatched_actions_unknown *)
AmbiguousRow(row) ==
  IF row.status = "dispatched" THEN [row EXCEPT !.status = "unknown_effect"] ELSE row

(* _recover_interrupted: in-flight actions become ambiguous, an active      *)
(* Quest is paused and waits for a resume.                                  *)
Restart ==
  /\ ~up
  /\ up' = TRUE
  /\ receipt' = [a \in Actions |-> AmbiguousRow(receipt[a])]
  /\ mode' = IF mode = "running" THEN "paused" ELSE mode
  /\ UNCHANGED <<ledger, file, call, todo, since, cursor, edits, crashes, faults, history>>

Edit(p, v) ==
  /\ edits < MaxEdits
  /\ LiveEdits \/ ~up
  /\ file[p] # v
  /\ edits' = edits + 1
  /\ FileBecomes(p, v)
  /\ UNCHANGED <<receipt, ledger, call, todo, since, mode, cursor, up, crashes, faults,
                 effects>>

------------------------------------------------------------------------------
Execute(c) ==
  \/ PrepareFresh(c) \/ PrepareConflict(c) \/ PrepareKnown(c)
  \/ Reconcile(c) \/ Dispatch(c)
  \/ ReadTool(c) \/ WriteRefused(c) \/ WriteTool(c) \/ ToolFault(c)
  \/ Commit(c) \/ FailAction(c) \/ MarkUnknown(c)

Executor(c) == ExecutorStart(c) \/ ExecutorReturn(c) \/ Execute(c)

Resumer(r) == \/ ResumeBegin(r) \/ ResumeNothing(r) \/ ResumeExecute(r)
              \/ ResumeReturn(r) \/ Execute(r)

Next ==
  \/ \E c \in Executors : Executor(c)
  \/ \E r \in Resumers : Resumer(r)
  \/ UserApproves
  \/ Crash \/ Restart
  \/ \E p \in Paths, v \in FileStates : Edit(p, v)

Spec == Init /\ [][Next]_vars

(* Threads keep running, a stopped process is restarted and the client of a  *)
(* paused Quest keeps asking to resume it.                                   *)
Fairness ==
  /\ WF_vars(Restart)
  /\ \A c \in Executors : WF_vars(Executor(c))
  /\ \A r \in Resumers : WF_vars(Resumer(r))

FairSpec == Spec /\ Fairness

------------------------------------------------------------------------------
(* Properties                                                               *)

Row_ == [status : Statuses, pre : FileStates, result : Results, event : Nat]

Call_ == [pc : PCs, act : Actions, pre : FileStates, snap : Statuses,
          res : Results, out : Outcomes]

(* Types of the receipt rows, of the thread states and of the bounds.       *)
TypeOK ==
  /\ receipt \in [Actions -> Row_]
  /\ ledger \in Seq(Actions)
  /\ file \in [Paths -> FileStates]
  /\ call \in [Callers -> Call_]
  /\ todo \in [Resumers -> SUBSET Actions]
  /\ since \in [Resumers -> Nat]
  /\ mode \in {"running", "paused", "waiting", "closed"}
  /\ cursor \in 1 .. N + 1
  /\ up \in BOOLEAN
  /\ edits \in 0 .. MaxEdits /\ crashes \in 0 .. MaxCrashes /\ faults \in 0 .. MaxFaults
  /\ effects \in [Actions -> Nat]
  /\ landed \in [Actions -> BOOLEAN]

(* A committed receipt is linked to its own ToolCommitted event and to no   *)
(* other, and every ToolCommitted event is the link of one committed        *)
(* receipt (commit_action_with_event, mark_dispatched_actions_unknown).     *)
ReceiptLinked ==
  /\ \A a \in Actions :
       IF receipt[a].status = "committed"
         THEN receipt[a].event \in DOMAIN ledger /\ ledger[receipt[a].event] = a
         ELSE receipt[a].event = 0
  /\ \A i \in DOMAIN ledger : receipt[ledger[i]].event = i

(* A settled receipt never changes again, whoever still holds an older copy *)
(* of it (_transition_action, commit_action_with_event, startup recovery).  *)
SettledIsFinal ==
  [][\A a \in Actions : receipt[a].status \in Terminal => receipt'[a] = receipt[a]]_vars

(* A write is only reported as committed if its content was on disk at some *)
(* moment after it was prepared (_write_file_observation, _reconcile).      *)
CommittedWasOnDisk ==
  \A a \in Writes : receipt[a].status = "committed" => landed[a]

(* A write that is run a second time finds nothing in its place: recovery   *)
(* does not blindly repeat a write over an existing file (_reconcile).      *)
NoBlindRepeat ==
  [][\A a \in Actions : effects[a] > 0 /\ effects'[a] > effects[a]
                          => FileOf(a) = Absent]_vars

(* A Quest is always driven on until it is finished or a human is asked: no *)
(* ambiguous receipt blocks every later resume (resume_quest).              *)
SettlesOrAsks == []<>(mode \in {"closed", "waiting"})

------------------------------------------------------------------------------
(* The receipts as their readers see them.                                  *)

Phase(a) ==
  CASE receipt[a].status = "none" -> "new"
    [] receipt[a].status \in {"prepared", "dispatched", "unknown_effect"} -> "open"
    [] receipt[a].status = "committed" -> "done"
    [] receipt[a].status = "failed" -> "failed"

AR == INSTANCE ActionReceipts WITH
        phase <- [a \in Actions |-> Phase(a)],
        touched <- [a \in Actions |-> effects[a] > 0],
        log <- ledger

(* The gateway keeps the promises of ActionReceipts: a failed receipt was   *)
(* never touched, a settled one is touched and logged no more.              *)
ImplementsReceipts == AR!Spec
=============================================================================
