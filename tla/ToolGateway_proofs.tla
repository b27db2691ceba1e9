------------------------- MODULE ToolGateway_proofs -------------------------
(***************************************************************************)
(* Theorems about ToolGateway, for every plan, every set of threads and    *)
(* every bound: type correctness, the link between receipts and events,    *)
(* and that a committed write was on disk; and, with one thread at a time  *)
(* at the gateway, that the receipts implement ActionReceipts and that no  *)
(* write over an existing file is repeated blindly.                        *)
(***************************************************************************)
EXTENDS ToolGateway, TLAPS

------------------------------------------------------------------------------
(* Type correctness.                                                        *)

LEMMA RowTypes ==
  ASSUME TypeOK, NEW a \in Actions
  PROVE  /\ receipt[a] \in Row_
         /\ PathOf[a] \in Paths /\ ContentOf[a] \in Contents
         /\ FileOf(a) \in FileStates
BY GatewayAssumption DEF TypeOK, FileOf

(* Replacing one thread's state by a well-typed one.                        *)
LEMMA CallUpdate ==
  ASSUME TypeOK, NEW c \in Callers, NEW k \in Call_,
         call' = [call EXCEPT ![c] = k]
  PROVE  call' \in [Callers -> Call_]
BY DEF TypeOK

LEMMA InitType == Init => TypeOK
BY GatewayAssumption
   DEF Init, TypeOK, Row_, NoRow, Call_, Idle, PCs, Statuses, Results, Outcomes,
       FileStates, Actions

LEMMA ReturnType ==
  ASSUME TypeOK, NEW c \in Callers, NEW o \in Outcomes, Return(c, o)
  PROVE  call' \in [Callers -> Call_]
BY ZenonT(60) DEF TypeOK, Return, Call_, PCs

LEMMA GotoType ==
  ASSUME TypeOK, NEW c \in Callers, NEW l \in PCs, Goto(c, l)
  PROVE  call' \in [Callers -> Call_]
BY ZenonT(60) DEF TypeOK, Goto, Call_

LEMMA EnterType ==
  ASSUME TypeOK, NEW c \in Callers, NEW a \in Actions, Enter(c, a)
  PROVE  call' \in [Callers -> Call_]
<1>1. FileOf(a) \in FileStates
  BY RowTypes
<1> QED
  BY <1>1 DEF TypeOK, Enter, Idle, Call_, PCs, Statuses, Results, Outcomes

LEMMA FileType ==
  ASSUME TypeOK, NEW p \in Paths, NEW v \in FileStates, FileBecomes(p, v)
  PROVE  file' \in [Paths -> FileStates] /\ landed' \in [Actions -> BOOLEAN]
BY DEF TypeOK, FileBecomes

LEMMA StatusType ==
  ASSUME TypeOK, NEW a \in Actions, NEW s \in Statuses, SetStatus(a, s)
  PROVE  receipt' \in [Actions -> Row_]
BY DEF TypeOK, SetStatus, Row_

LEMMA ProducedType ==
  ASSUME TypeOK, NEW c \in Callers, NEW x \in Results, Produced(c, x)
  PROVE  call' \in [Callers -> Call_]
BY ZenonT(60) DEF TypeOK, Produced, Call_, PCs

LEMMA NotSafeType ==
  ASSUME TypeOK, NEW c \in Callers, NotSafe(c)
  PROVE  call' \in [Callers -> Call_]
BY ReturnType, GotoType DEF NotSafe, Outcomes, PCs

LEMMA CallActs ==
  ASSUME TypeOK, NEW c \in Callers
  PROVE  /\ call[c] \in Call_
         /\ call[c].act \in Actions
         /\ Row(c) \in Row_
BY DEF TypeOK, Row, Call_

LEMMA IdleType == Idle \in Call_
BY GatewayAssumption
   DEF Idle, Call_, PCs, Statuses, Results, Outcomes, Actions, FileStates

(* The actions of a thread inside execute.                                  *)
LEMMA ExecuteType ==
  ASSUME TypeOK, NEW c \in Callers, Execute(c)
  PROVE  TypeOK'
<1> DEFINE a == call[c].act
<1>0. a \in Actions /\ Row(c) \in Row_ /\ call[c] \in Call_
  BY CallActs
<1>1. FileOf(a) \in FileStates /\ PathOf[a] \in Paths /\ ContentOf[a] \in Contents
  BY <1>0, RowTypes
<1>2. CASE PrepareFresh(c)
  <2>1. receipt' \in [Actions -> Row_]
    BY <1>0, <1>2 DEF PrepareFresh, TypeOK, Row_, NoRow, Call_, Statuses, Results
  <2>2. call' \in [Callers -> Call_]
    BY <1>0, <1>2 DEF PrepareFresh, TypeOK, Call_, PCs, Statuses
  <2>3. landed' \in [Actions -> BOOLEAN]
    BY <1>0, <1>2 DEF PrepareFresh, TypeOK
  <2> QED
    BY <2>1, <2>2, <2>3, <1>2 DEF PrepareFresh, TypeOK, quest
<1>3. CASE PrepareConflict(c)
  BY <1>3, ReturnType DEF PrepareConflict, TypeOK, quest, history, Outcomes
<1>4. CASE PrepareKnown(c)
  <2>1. call' \in [Callers -> Call_]
    BY <1>0, <1>4
       DEF PrepareKnown, TypeOK, Call_, Row_, PCs, Statuses, Outcomes, Terminal
  <2> QED
    BY <2>1, <1>4 DEF PrepareKnown, TypeOK, quest, history
<1>5. CASE Reconcile(c)
  <2>1. call' \in [Callers -> Call_]
    BY <1>5, GotoType, NotSafeType, ProducedType DEF Reconcile, PCs, Results
  <2> QED
    BY <2>1, <1>5 DEF Reconcile, TypeOK, quest, history
<1>6. CASE Dispatch(c)
  <2>1. call' \in [Callers -> Call_]
    BY <1>6, GotoType, ReturnType DEF Dispatch, PCs, Outcomes
  <2>2. receipt' \in [Actions -> Row_]
    BY <1>0, <1>6, StatusType DEF Dispatch, Statuses, TypeOK
  <2> QED
    BY <2>1, <2>2, <1>6 DEF Dispatch, TypeOK, quest, history
<1>7. CASE ReadTool(c)
  <2>1. call' \in [Callers -> Call_]
    BY <1>1, <1>7, GotoType, ProducedType DEF ReadTool, PCs, Results
  <2> QED
    BY <2>1, <1>7 DEF ReadTool, TypeOK, quest, history
<1>8. CASE WriteRefused(c)
  <2>1. call' \in [Callers -> Call_]
    BY <1>8, GotoType DEF WriteRefused, PCs
  <2> QED
    BY <2>1, <1>8 DEF WriteRefused, TypeOK, quest, history
<1>9. CASE WriteTool(c)
  <2>1. call' \in [Callers -> Call_]
    BY <1>9, GotoType, ProducedType DEF WriteTool, PCs, Results
  <2>2. file' \in [Paths -> FileStates] /\ landed' \in [Actions -> BOOLEAN]
    BY <1>1, <1>9, FileType DEF WriteTool, FileStates
  <2>3. effects' \in [Actions -> Nat]
    BY <1>0, <1>1, <1>9 DEF WriteTool, TypeOK
  <2>4. faults' \in 0 .. MaxFaults
    BY <1>9, GatewayAssumption DEF WriteTool, TypeOK
  <2> QED
    BY <2>1, <2>2, <2>3, <2>4, <1>9 DEF WriteTool, TypeOK, quest
<1>10. CASE ToolFault(c)
  <2>1. call' \in [Callers -> Call_]
    BY <1>10, GotoType DEF ToolFault, PCs
  <2>2. faults' \in 0 .. MaxFaults
    BY <1>10, GatewayAssumption DEF ToolFault, TypeOK
  <2> QED
    BY <2>1, <2>2, <1>10 DEF ToolFault, TypeOK, quest, history
<1>11. CASE Commit(c)
  <2>1. call' \in [Callers -> Call_]
    BY <1>11, GotoType, ReturnType, NotSafeType
       DEF Commit, CommitRefused, RecordCommit, PCs, Outcomes
  <2>2. receipt' \in [Actions -> Row_] /\ ledger' \in Seq(Actions)
    <3>1. CASE RecordCommit(c)
      <4>1. Len(ledger) + 1 \in Nat /\ Append(ledger, a) \in Seq(Actions)
        BY <1>0 DEF TypeOK
      <4> QED
        BY <1>0, <3>1, <4>1 DEF RecordCommit, TypeOK, Row_, Call_, Statuses
    <3>2. CASE UNCHANGED <<receipt, ledger>>
      BY <3>2 DEF TypeOK
    <3> QED
      BY <1>11, <3>1, <3>2 DEF Commit
  <2> QED
    BY <2>1, <2>2, <1>11 DEF Commit, TypeOK, quest, history
<1>12. CASE FailAction(c)
  <2>1. call' \in [Callers -> Call_] /\ receipt' \in [Actions -> Row_]
    BY <1>0, <1>12, ReturnType, StatusType
       DEF FailAction, Transition, Outcomes, Statuses, TypeOK
  <2> QED
    BY <2>1, <1>12 DEF FailAction, TypeOK, quest, history
<1>13. CASE MarkUnknown(c)
  <2>1. call' \in [Callers -> Call_] /\ receipt' \in [Actions -> Row_]
    BY <1>0, <1>13, ReturnType, StatusType
       DEF MarkUnknown, Transition, Outcomes, Statuses, TypeOK
  <2> QED
    BY <2>1, <1>13 DEF MarkUnknown, TypeOK, quest, history
<1> QED
  BY <1>2, <1>3, <1>4, <1>5, <1>6, <1>7, <1>8, <1>9, <1>10, <1>11, <1>12, <1>13
     DEF Execute

(* Every step of the specification keeps the types.                         *)
LEMMA NextType == TypeOK /\ [Next]_vars => TypeOK'
<1> SUFFICES ASSUME TypeOK, [Next]_vars PROVE TypeOK'
  OBVIOUS
<1>1. ASSUME NEW c \in Callers, Execute(c) PROVE TypeOK'
  BY <1>1, ExecuteType
<1>2. ASSUME NEW c \in Executors, ExecutorStart(c) PROVE TypeOK'
  <2>1. call' \in [Callers -> Call_]
    BY <1>2, EnterType DEF ExecutorStart, Callers
  <2> QED
    BY <1>2, <2>1 DEF ExecutorStart, TypeOK, quest, history
<1>3. ASSUME NEW c \in Executors, ExecutorReturn(c) PROVE TypeOK'
  <2>1. call' \in [Callers -> Call_]
    BY <1>3, IdleType, CallUpdate DEF ExecutorReturn, Callers
  <2>2. cursor' \in 1 .. N + 1
    <3>1. call[c].act \in 1 .. N
      BY CallActs DEF Callers, Actions
    <3>2. cursor' = cursor \/ (cursor' = cursor + 1 /\ call[c].act = cursor)
      BY <1>3 DEF ExecutorReturn
    <3> QED
      BY <3>1, <3>2, GatewayAssumption DEF TypeOK
  <2>3. mode' \in {"running", "paused", "waiting", "closed"}
    BY <1>3 DEF ExecutorReturn, TypeOK
  <2> QED
    BY <1>3, <2>1, <2>2, <2>3 DEF ExecutorReturn, TypeOK, history
<1>4. ASSUME NEW r \in Resumers, ResumeBegin(r) PROVE TypeOK'
  BY <1>4 DEF ResumeBegin, Unresolved, TypeOK, history
<1>5. ASSUME NEW r \in Resumers, ResumeExecute(r) PROVE TypeOK'
  <2>1. call' \in [Callers -> Call_]
    BY <1>5, EnterType DEF ResumeExecute, TypeOK, Callers
  <2> QED
    BY <1>5, <2>1 DEF ResumeExecute, TypeOK, quest, history
<1>6. ASSUME NEW r \in Resumers, ResumeReturn(r) PROVE TypeOK'
  <2>1. call' \in [Callers -> Call_]
    BY <1>6, IdleType, CallUpdate DEF ResumeReturn, Callers
  <2>2. todo' \in [Resumers -> SUBSET Actions]
    <3>1. todo[r] \ {call[r].act} \in SUBSET Actions
      BY DEF TypeOK
    <3>2. \E x \in SUBSET Actions : todo' = [todo EXCEPT ![r] = x]
      BY <1>6, <3>1 DEF ResumeReturn, Resumed
    <3> QED
      BY <3>2 DEF TypeOK
  <2>3. mode' \in {"running", "paused", "waiting", "closed"}
    BY <1>6 DEF ResumeReturn, Resumed, TypeOK
  <2> QED
    BY <1>6, <2>1, <2>2, <2>3 DEF ResumeReturn, TypeOK, history
<1>7. ASSUME NEW r \in Resumers, ResumeNothing(r) PROVE TypeOK'
  BY <1>7 DEF ResumeNothing, TypeOK, history
<1>8. CASE UserApproves
  BY <1>8 DEF UserApproves, TypeOK, history
<1>9. CASE Crash
  <2>1. call' \in [Callers -> Call_]
    BY <1>9, IdleType DEF Crash
  <2>2. todo' \in [Resumers -> SUBSET Actions]
    BY <1>9 DEF Crash
  <2>3. crashes' \in 0 .. MaxCrashes
    BY <1>9, GatewayAssumption DEF Crash, TypeOK
  <2> QED
    BY <1>9, <2>1, <2>2, <2>3 DEF Crash, TypeOK, history
<1>10. CASE Restart
  <2>1. receipt' \in [Actions -> Row_]
    <3>1. \A a \in Actions : AmbiguousRow(receipt[a]) \in Row_
      BY DEF AmbiguousRow, TypeOK, Row_, Statuses
    <3> QED
      BY <1>10, <3>1 DEF Restart
  <2> QED
    BY <1>10, <2>1 DEF Restart, TypeOK, history
<1>11. ASSUME NEW p \in Paths, NEW v \in FileStates, Edit(p, v) PROVE TypeOK'
  <2>1. file' \in [Paths -> FileStates] /\ landed' \in [Actions -> BOOLEAN]
    BY <1>11, FileType DEF Edit
  <2> QED
    BY <1>11, <2>1, GatewayAssumption DEF Edit, TypeOK
<1>12. CASE UNCHANGED vars
  BY <1>12 DEF vars, TypeOK
<1> QED
  BY <1>1, <1>2, <1>3, <1>4, <1>5, <1>6, <1>7, <1>8, <1>9, <1>10, <1>11, <1>12
     DEF Next, Executor, Resumer, Callers

(* The rows, the thread states and the bounds keep their types in every     *)
(* reachable state, however many threads, actions, crashes and edits.       *)
THEOREM TypeCorrect == Spec => []TypeOK
BY InitType, NextType, PTL DEF Spec

------------------------------------------------------------------------------
(* What each transaction does to the receipt table and the ledger.  Every  *)
(* step is one of: nothing; a new row; a commit; a change of status between *)
(* two unsettled or from an unsettled to the failed status.                 *)

NewRow(a) ==
  /\ receipt[a].status = "none"
  /\ receipt'[a].status = "prepared" /\ receipt'[a].event = 0
  /\ \A b \in Actions \ {a} : receipt'[b] = receipt[b]
  /\ UNCHANGED ledger

NewCommit(a) ==
  /\ receipt[a].status \in CommitFrom
  /\ receipt'[a].status = "committed" /\ receipt'[a].event = Len(ledger) + 1
  /\ \A b \in Actions \ {a} : receipt'[b] = receipt[b]
  /\ ledger' = Append(ledger, a)

Unsettled == {"prepared", "dispatched", "unknown_effect"}

StatusOnly(a) ==
  \/ receipt'[a] = receipt[a]
  \/ /\ receipt[a].status \in Unsettled
     /\ receipt'[a].status \in Unsettled \cup {"failed"}
     /\ receipt'[a].event = receipt[a].event

TableStep ==
  \/ \E a \in Actions : NewRow(a) \/ NewCommit(a)
  \/ (\A a \in Actions : StatusOnly(a)) /\ UNCHANGED ledger

LEMMA SetStatusStep ==
  ASSUME TypeOK, NEW a \in Actions, NEW s \in Unsettled \cup {"failed"},
         SetStatus(a, s), receipt[a].status \in Unsettled, UNCHANGED ledger
  PROVE  TableStep
<1>1. ASSUME NEW b \in Actions PROVE StatusOnly(b)
  BY <1>1 DEF TypeOK, SetStatus, StatusOnly, Row_
<1> QED
  BY <1>1 DEF TableStep

LEMMA TableUnchanged == ASSUME UNCHANGED <<receipt, ledger>> PROVE TableStep
BY DEF TableStep, StatusOnly

LEMMA TransitionStep ==
  ASSUME TypeOK, NEW c \in Callers, NEW from \in SUBSET Unsettled,
         NEW s \in Unsettled \cup {"failed"}, Transition(c, from, s),
         UNCHANGED ledger
  PROVE  TableStep
<1>1. CASE UNCHANGED receipt
  BY <1>1, TableUnchanged
<1>2. CASE Row(c).status \in from /\ SetStatus(call[c].act, s)
  BY <1>2, CallActs, SetStatusStep DEF Row
<1> QED
  BY <1>1, <1>2 DEF Transition

LEMMA ExecuteTable ==
  ASSUME TypeOK, NEW c \in Callers, Execute(c)
  PROVE  TableStep
<1> DEFINE a == call[c].act
<1>0. a \in Actions /\ Row(c) = receipt[a] /\ receipt[a] \in Row_
  BY CallActs DEF Row
<1>1. CASE PrepareFresh(c)
  <2>1. NewRow(a)
    BY <1>0, <1>1 DEF PrepareFresh, NewRow, NoRow, TypeOK
  <2> QED
    BY <1>0, <2>1 DEF TableStep
<1>2. CASE Dispatch(c)
  <2>1. CASE UNCHANGED receipt
    BY <1>2, <2>1, TableUnchanged DEF Dispatch
  <2>2. CASE Row(c).status = "prepared" /\ SetStatus(a, "dispatched")
    BY <1>0, <1>2, <2>2, SetStatusStep DEF Dispatch, Unsettled
  <2> QED
    BY <1>2, <2>1, <2>2 DEF Dispatch
<1>3. CASE Commit(c)
  <2>1. CASE UNCHANGED <<receipt, ledger>>
    BY <2>1, TableUnchanged
  <2>2. CASE Row(c).status \in CommitFrom /\ RecordCommit(c)
    <3>1. NewCommit(a)
      BY <1>0, <2>2 DEF RecordCommit, NewCommit, TypeOK, Row_
    <3> QED
      BY <1>0, <3>1 DEF TableStep
  <2> QED
    BY <1>3, <2>1, <2>2 DEF Commit
<1>4. CASE FailAction(c)
  BY <1>4, TransitionStep DEF FailAction, FailFrom, Unsettled
<1>5. CASE MarkUnknown(c)
  BY <1>5, TransitionStep DEF MarkUnknown, UnknownFrom, Unsettled
<1>6. CASE UNCHANGED <<receipt, ledger>>
  BY <1>6, TableUnchanged
<1> QED
  BY <1>1, <1>2, <1>3, <1>4, <1>5, <1>6
     DEF Execute, PrepareConflict, PrepareKnown, Reconcile, ReadTool, WriteRefused,
         WriteTool, ToolFault

LEMMA NextTable == TypeOK /\ [Next]_vars => TableStep
<1> SUFFICES ASSUME TypeOK, [Next]_vars PROVE TableStep
  OBVIOUS
<1>1. ASSUME NEW c \in Callers, Execute(c) PROVE TableStep
  BY <1>1, ExecuteTable
<1>2. CASE Restart
  <2>1. ASSUME NEW a \in Actions PROVE StatusOnly(a)
    BY <1>2, <2>1 DEF Restart, AmbiguousRow, StatusOnly, Unsettled, TypeOK, Row_
  <2> QED
    BY <1>2, <2>1 DEF Restart, TableStep
<1>3. CASE UNCHANGED <<receipt, ledger>>
  BY <1>3, TableUnchanged
<1> QED
  BY <1>1, <1>2, <1>3
     DEF Next, Executor, Resumer, Callers, ExecutorStart, ExecutorReturn,
         ResumeBegin, ResumeNothing, ResumeExecute, ResumeReturn, UserApproves,
         Crash, Edit, vars

------------------------------------------------------------------------------
(* Receipts and events.                                                     *)

LEMMA InitLinked == Init => ReceiptLinked
BY DEF Init, ReceiptLinked, NoRow

LEMMA LinkedStep == TypeOK /\ ReceiptLinked /\ TableStep => ReceiptLinked'
<1> SUFFICES ASSUME TypeOK, ReceiptLinked, TableStep PROVE ReceiptLinked'
  OBVIOUS
<1>1. ASSUME NEW a \in Actions, NewRow(a) PROVE ReceiptLinked'
  <2>1. ASSUME NEW b \in Actions
        PROVE  IF receipt'[b].status = "committed"
                 THEN receipt'[b].event \in DOMAIN ledger' /\ ledger'[receipt'[b].event] = b
                 ELSE receipt'[b].event = 0
    BY <1>1, <2>1 DEF NewRow, ReceiptLinked
  <2>2. ASSUME NEW i \in DOMAIN ledger PROVE ledger[i] # a
    <3>1. receipt[a].event = 0
      BY <1>1 DEF NewRow, ReceiptLinked
    <3>2. i # 0
      BY <2>2 DEF TypeOK
    <3> QED
      BY <2>2, <3>1, <3>2 DEF ReceiptLinked
  <2>3. ASSUME NEW i \in DOMAIN ledger' PROVE receipt'[ledger'[i]].event = i
    BY <1>1, <2>2, <2>3 DEF NewRow, ReceiptLinked, TypeOK
  <2> QED
    BY <2>1, <2>3 DEF ReceiptLinked
<1>2. ASSUME NEW a \in Actions, NewCommit(a) PROVE ReceiptLinked'
  <2>1. /\ Len(ledger') = Len(ledger) + 1
        /\ ledger'[Len(ledger) + 1] = a
        /\ \A i \in DOMAIN ledger : i \in DOMAIN ledger' /\ ledger'[i] = ledger[i]
        /\ DOMAIN ledger' = DOMAIN ledger \cup {Len(ledger) + 1}
    BY <1>2, SMTT(30) DEF NewCommit, TypeOK
  <2>2. ASSUME NEW i \in DOMAIN ledger PROVE ledger[i] # a
    <3>1. receipt[a].status # "committed"
      BY <1>2 DEF NewCommit, CommitFrom
    <3>2. receipt[a].event = 0
      BY <3>1 DEF ReceiptLinked
    <3>3. i # 0
      BY <2>2 DEF TypeOK
    <3> QED
      BY <2>2, <3>2, <3>3 DEF ReceiptLinked
  <2>3. ASSUME NEW b \in Actions
        PROVE  IF receipt'[b].status = "committed"
                 THEN receipt'[b].event \in DOMAIN ledger' /\ ledger'[receipt'[b].event] = b
                 ELSE receipt'[b].event = 0
    BY <1>2, <2>1, <2>3 DEF NewCommit, ReceiptLinked
  <2>4. ASSUME NEW i \in DOMAIN ledger' PROVE receipt'[ledger'[i]].event = i
    BY <1>2, <2>1, <2>2, <2>4, SMTT(30) DEF NewCommit, ReceiptLinked, TypeOK
  <2> QED
    BY <2>3, <2>4 DEF ReceiptLinked
<1>3. CASE (\A a \in Actions : StatusOnly(a)) /\ UNCHANGED ledger
  <2>1. ASSUME NEW a \in Actions
        PROVE  /\ receipt'[a].event = receipt[a].event
               /\ (receipt'[a].status = "committed") <=> (receipt[a].status = "committed")
    BY <1>3, <2>1 DEF StatusOnly, Unsettled
  <2>2. \A a \in Actions :
          IF receipt'[a].status = "committed"
            THEN receipt'[a].event \in DOMAIN ledger' /\ ledger'[receipt'[a].event] = a
            ELSE receipt'[a].event = 0
    BY <1>3, <2>1 DEF ReceiptLinked
  <2>3. \A i \in DOMAIN ledger : ledger[i] \in Actions
    BY DEF TypeOK
  <2>4. \A i \in DOMAIN ledger' : receipt'[ledger'[i]].event = i
    BY <1>3, <2>1, <2>3 DEF ReceiptLinked
  <2> QED
    BY <2>2, <2>4 DEF ReceiptLinked
<1> QED
  BY <1>1, <1>2, <1>3 DEF TableStep

(* In every reachable state committed receipts and ToolCommitted events are *)
(* in one-to-one correspondence.                                            *)
THEOREM ReceiptsAreLinked == Spec => []ReceiptLinked
<1>1. TypeOK /\ ReceiptLinked /\ [Next]_vars => ReceiptLinked'
  BY NextTable, LinkedStep
<1> QED
  BY <1>1, TypeCorrect, InitLinked, PTL DEF Spec

(* No step changes a settled receipt.                                       *)
THEOREM SettledReceiptsAreFinal == Spec => SettledIsFinal
<1>1. TypeOK /\ TableStep
        => \A a \in Actions : receipt[a].status \in Terminal => receipt'[a] = receipt[a]
  BY DEF TableStep, NewRow, NewCommit, StatusOnly, Terminal, Unsettled, CommitFrom
<1>2. TypeOK /\ [Next]_vars
        => [\A a \in Actions : receipt[a].status \in Terminal
                                 => receipt'[a] = receipt[a]]_vars
  BY <1>1, NextTable
<1> QED
  BY <1>2, TypeCorrect, PTL DEF Spec, SettledIsFinal

------------------------------------------------------------------------------
(* A committed write was on disk.  The property is not inductive by itself: *)
(* it needs that landed is never behind the files.                          *)

FileLanded ==
  \A a \in Actions : receipt[a].status # "none" /\ FileOf(a) = ContentOf[a] => landed[a]

DiskInv == TypeOK /\ FileLanded /\ CommittedWasOnDisk

LEMMA InitDisk == Init => FileLanded /\ CommittedWasOnDisk
BY GatewayAssumption DEF Init, FileLanded, CommittedWasOnDisk, NoRow

(* A step that moves no receipt out of "none", commits nothing and leaves   *)
(* the files to FileBecomes, or alone, keeps the invariant.                 *)
LEMMA DiskKept ==
  ASSUME DiskInv,
         \A a \in Actions : /\ receipt[a].status = "none" <=> receipt'[a].status = "none"
                            /\ receipt'[a].status = "committed"
                                 => receipt[a].status = "committed",
         \/ UNCHANGED <<file, landed>>
         \/ \E p \in Paths, v \in FileStates : FileBecomes(p, v)
  PROVE  FileLanded' /\ CommittedWasOnDisk'
<1>1. CASE UNCHANGED <<file, landed>>
  BY <1>1, GatewayAssumption DEF DiskInv, FileLanded, CommittedWasOnDisk, FileOf
<1>2. ASSUME NEW p \in Paths, NEW v \in FileStates, FileBecomes(p, v)
      PROVE  FileLanded' /\ CommittedWasOnDisk'
  <2>1. \A a \in Actions : landed[a] => landed'[a]
    BY <1>2 DEF FileBecomes
  <2>2. \A a \in Actions : PathOf[a] \in Paths
    BY GatewayAssumption
  <2>3. FileLanded'
    BY <1>2, <2>1, <2>2 DEF FileBecomes, DiskInv, TypeOK, FileLanded, FileOf
  <2>4. CommittedWasOnDisk'
    BY <2>1, GatewayAssumption DEF DiskInv, CommittedWasOnDisk
  <2> QED
    BY <2>3, <2>4
<1> QED
  BY <1>1, <1>2

LEMMA DiskSteps ==
  ASSUME DiskInv, NEW c \in Callers, Execute(c)
  PROVE  FileLanded' /\ CommittedWasOnDisk'
<1> DEFINE a == call[c].act
<1>0. a \in Actions /\ Row(c) = receipt[a] /\ receipt[a] \in Row_
  BY CallActs DEF Row, DiskInv
<1>1. CASE PrepareFresh(c)
  <2>1. /\ receipt' = [receipt EXCEPT ![a] =
                         [NoRow EXCEPT !.status = "prepared", !.pre = call[c].pre]]
        /\ landed' = [landed EXCEPT ![a] = (FileOf(a) = ContentOf[a])]
        /\ UNCHANGED file
    BY <1>1 DEF PrepareFresh
  <2>2. receipt'[a].status = "prepared" /\ \A b \in Actions \ {a} : receipt'[b] = receipt[b]
    BY <1>0, <2>1 DEF NoRow, DiskInv, TypeOK
  <2>3. FileLanded'
    BY <1>0, <2>1, <2>2 DEF DiskInv, TypeOK, FileLanded, FileOf
  <2>4. CommittedWasOnDisk'
    BY <1>0, <2>1, <2>2, GatewayAssumption DEF DiskInv, TypeOK, CommittedWasOnDisk
  <2> QED
    BY <2>3, <2>4
<1>2. CASE Commit(c)
  <2>1. CASE UNCHANGED receipt
    BY <1>2, <2>1, DiskKept DEF Commit, history
  <2>2. CASE Observed(a) /\ Row(c).status \in CommitFrom /\ RecordCommit(c)
    <3>1. UNCHANGED <<file, landed>>
      BY <1>2 DEF Commit, history
    <3>2. /\ receipt'[a].status = "committed"
          /\ \A b \in Actions \ {a} : receipt'[b] = receipt[b]
      BY <1>0, <2>2 DEF RecordCommit, DiskInv, TypeOK, Row_
    <3>3. a \in Writes => landed[a]
      BY <1>0, <2>2 DEF Observed, CommitFrom, DiskInv, FileLanded
    <3>4. FileLanded'
      BY <1>0, <2>2, <3>1, <3>2 DEF DiskInv, FileLanded, FileOf, CommitFrom
    <3>5. CommittedWasOnDisk'
      BY <3>1, <3>2, <3>3, GatewayAssumption DEF DiskInv, CommittedWasOnDisk
    <3> QED
      BY <3>4, <3>5
  <2> QED
    BY <1>2, <2>1, <2>2 DEF Commit
<1>3. CASE WriteTool(c)
  <2>1. UNCHANGED receipt /\ FileBecomes(PathOf[a], ContentOf[a])
    BY <1>3 DEF WriteTool
  <2>2. PathOf[a] \in Paths /\ ContentOf[a] \in FileStates
    BY <1>0, GatewayAssumption DEF FileStates
  <2> QED
    BY <2>1, <2>2, DiskKept
<1>4. CASE Dispatch(c) \/ FailAction(c) \/ MarkUnknown(c)
  <2>1. UNCHANGED <<file, landed>>
    BY <1>4 DEF Dispatch, FailAction, MarkUnknown, history
  <2>2. \/ UNCHANGED receipt
        \/ \E s \in Unsettled \cup {"failed"} :
             SetStatus(a, s) /\ receipt[a].status \in Unsettled
    BY <1>0, <1>4
       DEF Dispatch, FailAction, MarkUnknown, Transition, FailFrom, UnknownFrom, Unsettled
  <2>3. \A b \in Actions : /\ receipt[b].status = "none" <=> receipt'[b].status = "none"
                           /\ receipt'[b].status = "committed"
                                => receipt[b].status = "committed"
    <3>1. CASE UNCHANGED receipt
      BY <3>1
    <3>2. ASSUME NEW s \in Unsettled \cup {"failed"}, SetStatus(a, s),
                 receipt[a].status \in Unsettled
          PROVE  /\ receipt'[a].status = s /\ receipt[a].status \in Unsettled
                 /\ \A b \in Actions \ {a} : receipt'[b] = receipt[b]
      BY <1>0, <3>2 DEF SetStatus, DiskInv, TypeOK, Row_
    <3> QED
      BY <2>2, <3>1, <3>2 DEF Unsettled
  <2> QED
    BY <2>1, <2>3, DiskKept
<1>5. CASE UNCHANGED <<receipt, file, landed>>
  BY <1>5, DiskKept
<1> QED
  BY <1>1, <1>2, <1>3, <1>4, <1>5
     DEF Execute, PrepareConflict, PrepareKnown, Reconcile, ReadTool, WriteRefused,
         ToolFault, history

LEMMA DiskNext == DiskInv /\ [Next]_vars => FileLanded' /\ CommittedWasOnDisk'
<1> SUFFICES ASSUME DiskInv, [Next]_vars PROVE FileLanded' /\ CommittedWasOnDisk'
  OBVIOUS
<1>1. ASSUME NEW c \in Callers, Execute(c) PROVE FileLanded' /\ CommittedWasOnDisk'
  BY <1>1, DiskSteps
<1>2. CASE Restart
  <2>1. \A a \in Actions : /\ receipt[a].status = "none" <=> receipt'[a].status = "none"
                           /\ receipt'[a].status = "committed"
                                => receipt[a].status = "committed"
    <3>1. \A a \in Actions :
            LET row == AmbiguousRow(receipt[a]) IN
              /\ receipt[a].status = "none" <=> row.status = "none"
              /\ row.status = "committed" => receipt[a].status = "committed"
      BY DEF AmbiguousRow, DiskInv, TypeOK, Row_
    <3> QED
      BY <1>2, <3>1 DEF Restart
  <2> QED
    BY <1>2, <2>1, DiskKept DEF Restart, history
<1>3. ASSUME NEW p \in Paths, NEW v \in FileStates, Edit(p, v)
      PROVE  FileLanded' /\ CommittedWasOnDisk'
  BY <1>3, DiskKept DEF Edit
<1>4. CASE UNCHANGED <<receipt, file, landed>>
  BY <1>4, DiskKept
<1> QED
  BY <1>1, <1>2, <1>3, <1>4
     DEF Next, Executor, Resumer, Callers, ExecutorStart, ExecutorReturn,
         ResumeBegin, ResumeNothing, ResumeExecute, ResumeReturn, UserApproves,
         Crash, vars, history

(* No write is ever reported as committed whose content was not on disk     *)
(* since it was prepared.                                                   *)
THEOREM CommittedWritesWereOnDisk == Spec => []CommittedWasOnDisk
<1>1. DiskInv /\ [Next]_vars => DiskInv'
  BY NextType, DiskNext DEF DiskInv
<1>2. Init => DiskInv
  BY InitType, InitDisk DEF DiskInv
<1>3. DiskInv => CommittedWasOnDisk
  BY DEF DiskInv
<1> QED
  BY <1>1, <1>2, <1>3, PTL DEF Spec

------------------------------------------------------------------------------
(* One executor and one resume request at a time.  LeaseOverlap says that   *)
(* an expired lease may leave two executors inside execute; without it the  *)
(* lease admits one, and a second resume request is the other way to have   *)
(* two threads at one receipt.                                              *)

OneEach == ~LeaseOverlap /\ \A r, s \in Resumers : r = s

(* Whose turn it is: one thread at a time is inside execute, an executor of *)
(* a running Quest or the resume request of a paused one.                   *)
TurnInv ==
  /\ \A c, d \in Callers : call[c].pc # "idle" /\ call[d].pc # "idle" => c = d
  /\ \A e \in Executors : call[e].pc # "idle" => mode = "running"
  /\ \A r \in Resumers : todo[r] # {} => mode = "paused"
  /\ \A r \in Resumers : call[r].pc # "idle" => todo[r] # {}
  /\ ~up => \A c \in Callers : call[c].pc = "idle"

(* Where a thread is inside execute says what its receipt can be; a thread  *)
(* that is about to fail a dispatched receipt has left nothing behind.      *)
StepOf(c) ==
  LET s == Row(c).status
      p == call[c].pc
  IN  /\ p = "reconcile" => s = "unknown_effect"
      /\ p = "dispatch" => s = "prepared"
      /\ p \in {"tool", "commit", "fail", "unknown"}
           => s \in {"dispatched", "unknown_effect"}
      /\ p \in {"tool", "fail"} /\ s = "dispatched" => effects[call[c].act] = 0
      /\ p = "commit" /\ call[c].act \in Writes /\ call[c].res = "reconciled"
           => s = "unknown_effect"

StepInv == \A c \in Callers : StepOf(c)

(* A dispatched receipt is in the hands of a thread, and a file is replaced *)
(* only between dispatch and settlement.                                    *)
Holding == {"tool", "commit", "fail", "unknown"}
Touchable == {"dispatched", "unknown_effect", "committed"}

HeldInv ==
  /\ up => \A a \in Actions : receipt[a].status = "dispatched" =>
             \E c \in Callers : call[c].act = a /\ call[c].pc \in Holding
  /\ \A a \in Actions : effects[a] > 0 => receipt[a].status \in Touchable

GatewayInv == TypeOK /\ TurnInv /\ StepInv /\ HeldInv

LEMMA InitGateway == Init => TurnInv /\ StepInv /\ HeldInv
<1> SUFFICES ASSUME Init PROVE TurnInv /\ StepInv /\ HeldInv
  OBVIOUS
<1>1. \A c \in Callers : call[c].pc = "idle"
  BY DEF Init, Idle
<1>2. TurnInv
  BY <1>1 DEF Init, TurnInv, Callers
<1>3. StepInv
  BY <1>1 DEF StepInv, StepOf
<1>4. HeldInv
  BY DEF Init, HeldInv, NoRow
<1> QED
  BY <1>2, <1>3, <1>4

(* A step inside execute moves one thread and touches one receipt.          *)
LEMMA ExecuteShape ==
  ASSUME TypeOK, NEW c \in Callers, Execute(c)
  PROVE  /\ up /\ call[c].pc \notin {"idle", "return"}
         /\ UNCHANGED quest
         /\ call'[c].pc # "idle" /\ call'[c].act = call[c].act
         /\ \A d \in Callers \ {c} : call'[d] = call[d]
         /\ \A b \in Actions \ {call[c].act} :
              receipt'[b] = receipt[b] /\ effects'[b] = effects[b]
<1> DEFINE a == call[c].act
<1>0. a \in Actions /\ call[c] \in Call_ /\ receipt[a] \in Row_
  BY CallActs DEF Row
<1>1. up /\ call[c].pc \notin {"idle", "return"} /\ UNCHANGED quest
  BY DEF Execute, PrepareFresh, PrepareConflict, PrepareKnown, Reconcile, Dispatch, ReadTool,
         WriteRefused, WriteTool, ToolFault, Commit, FailAction, MarkUnknown, At, quest
<1>2. \E k \in Call_ : call' = [call EXCEPT ![c] = k] /\ k.pc # "idle" /\ k.act = a
  <2>1. ASSUME NEW l \in PCs \ {"idle"}, Goto(c, l)
        PROVE  \E k \in Call_ : call' = [call EXCEPT ![c] = k] /\ k.pc # "idle" /\ k.act = a
    <3> DEFINE k == [call[c] EXCEPT !.pc = l]
    <3>1. k \in Call_ /\ k.pc # "idle" /\ k.act = a
      BY <1>0, <2>1 DEF Call_
    <3> QED
      BY <2>1, <3>1 DEF Goto
  <2>2. ASSUME NEW o \in Outcomes, Return(c, o)
        PROVE  \E k \in Call_ : call' = [call EXCEPT ![c] = k] /\ k.pc # "idle" /\ k.act = a
    <3> DEFINE k == [call[c] EXCEPT !.pc = "return", !.out = o]
    <3>1. k \in Call_ /\ k.pc # "idle" /\ k.act = a
      BY <1>0, <2>2 DEF Call_, PCs
    <3> QED
      BY <2>2, <3>1 DEF Return
  <2>3. ASSUME NEW x \in Results, Produced(c, x)
        PROVE  \E k \in Call_ : call' = [call EXCEPT ![c] = k] /\ k.pc # "idle" /\ k.act = a
    <3> DEFINE k == [call[c] EXCEPT !.pc = "commit", !.res = x]
    <3>1. k \in Call_ /\ k.pc # "idle" /\ k.act = a
      BY <1>0, <2>3 DEF Call_, PCs
    <3> QED
      BY <2>3, <3>1 DEF Produced
  <2>4. CASE PrepareFresh(c)
    <3> DEFINE k == [call[c] EXCEPT !.pc = "dispatch", !.snap = "prepared"]
    <3>1. k \in Call_ /\ k.pc # "idle" /\ k.act = a
      BY <1>0 DEF Call_, PCs, Statuses
    <3> QED
      BY <2>4, <3>1 DEF PrepareFresh
  <2>5. CASE PrepareKnown(c)
    <3> DEFINE s == Row(c).status
               l == IF s \in Terminal THEN "return"
                    ELSE IF s = "prepared" THEN "dispatch" ELSE "reconcile"
               o == IF s \in Terminal THEN s ELSE "none"
               k == [call[c] EXCEPT !.snap = s, !.pc = l, !.out = o]
    <3>1. s \in Statuses /\ l \in PCs \ {"idle"} /\ o \in Outcomes
      BY <1>0 DEF Row, Row_, PCs, Outcomes, Terminal
    <3>2. k \in Call_ /\ k.pc # "idle" /\ k.act = a
      BY <1>0, <3>1 DEF Call_
    <3>3. call' = [call EXCEPT ![c] = k]
      BY <2>5 DEF PrepareKnown
    <3> QED
      BY <3>2, <3>3
  <2>6. ASSUME NotSafe(c)
        PROVE  \E k \in Call_ : call' = [call EXCEPT ![c] = k] /\ k.pc # "idle" /\ k.act = a
    BY <2>1, <2>2, <2>6 DEF NotSafe, PCs, Outcomes
  <2>7. CASE PrepareConflict(c) \/ Dispatch(c)
    BY <2>1, <2>2, <2>7 DEF PrepareConflict, Dispatch, PCs, Outcomes
  <2>8. CASE Reconcile(c)
    BY <2>1, <2>3, <2>6, <2>8 DEF Reconcile, PCs, Results
  <2>9. CASE ReadTool(c) \/ WriteRefused(c) \/ WriteTool(c) \/ ToolFault(c)
    <3>1. CASE ReadTool(c)
      BY <2>1, <2>3, <3>1 DEF ReadTool, PCs, Results, FileStates
    <3>2. CASE WriteTool(c)
      <4>1. \/ Produced(c, "created") \/ Produced(c, "replaced") \/ Goto(c, "unknown")
        BY <3>2 DEF WriteTool
      <4> QED
        BY <2>1, <2>3, <4>1 DEF PCs, Results
    <3>3. CASE WriteRefused(c) \/ ToolFault(c)
      BY <2>1, <3>3 DEF WriteRefused, ToolFault, PCs
    <3> QED
      BY <2>9, <3>1, <3>2, <3>3
  <2>10. CASE Commit(c)
    BY <2>1, <2>2, <2>6, <2>10 DEF Commit, CommitRefused, RecordCommit, PCs, Outcomes
  <2>11. CASE FailAction(c) \/ MarkUnknown(c)
    BY <2>2, <2>11 DEF FailAction, MarkUnknown, Transition, Outcomes
  <2> QED
    BY <2>4, <2>5, <2>7, <2>8, <2>9, <2>10, <2>11 DEF Execute
<1>3. \A b \in Actions \ {a} : receipt'[b] = receipt[b]
  BY <1>0 DEF Execute, PrepareFresh, PrepareConflict, PrepareKnown, Reconcile, Dispatch,
       ReadTool, WriteRefused, WriteTool, ToolFault, Commit, RecordCommit, FailAction,
       MarkUnknown, Transition, SetStatus, TypeOK
<1>4. \A b \in Actions \ {a} : effects'[b] = effects[b]
  BY <1>0 DEF Execute, PrepareFresh, PrepareConflict, PrepareKnown, Reconcile, Dispatch,
       ReadTool, WriteRefused, WriteTool, ToolFault, Commit, FailAction, MarkUnknown,
       history, TypeOK
<1> QED
  BY <1>1, <1>2, <1>3, <1>4 DEF TypeOK

(* ... and keeps that thread's own step and that receipt in order.          *)
LocalStep(c) ==
  LET a == call[c].act IN
  /\ StepOf(c)'
  /\ receipt'[a].status = "dispatched" => call'[c].pc \in Holding
  /\ effects'[a] > 0 => receipt'[a].status \in Touchable

LEMMA ExecuteLocal ==
  ASSUME GatewayInv, NEW c \in Callers, Execute(c)
  PROVE  LocalStep(c)
<1> DEFINE a == call[c].act
           s == receipt[a].status
<1>0. a \in Actions /\ call[c] \in Call_ /\ receipt[a] \in Row_ /\ effects[a] \in Nat
  BY CallActs DEF Row, GatewayInv, TypeOK
<1>1. Row(c) = receipt[a] /\ call'[c].act = a /\ call \in [Callers -> Call_]
       /\ receipt \in [Actions -> Row_] /\ effects \in [Actions -> Nat]
  BY ExecuteShape DEF Row, GatewayInv, TypeOK
<1>2. StepOf(c) /\ (effects[a] > 0 => s \in Touchable)
  BY <1>0 DEF GatewayInv, StepInv, HeldInv
<1>3. s = "dispatched" => call[c].pc \in Holding
  <2> SUFFICES ASSUME s = "dispatched" PROVE call[c].pc \in Holding
    OBVIOUS
  <2>1. PICK d \in Callers : call[d].act = a /\ call[d].pc \in Holding
    BY <1>0, ExecuteShape DEF GatewayInv, HeldInv
  <2>2. d = c
    BY <2>1, ExecuteShape DEF GatewayInv, TurnInv, Holding
  <2> QED
    BY <2>1, <2>2
<1>4. Row(c)' = receipt'[a]
  BY <1>1 DEF Row
<1>5. LocalStep(c) <=>
        LET t == receipt'[a].status
            q == call'[c].pc
        IN  /\ q = "reconcile" => t = "unknown_effect"
            /\ q = "dispatch" => t = "prepared"
            /\ q \in {"tool", "commit", "fail", "unknown"}
                 => t \in {"dispatched", "unknown_effect"}
            /\ q \in {"tool", "fail"} /\ t = "dispatched" => effects'[a] = 0
            /\ q = "commit" /\ a \in Writes /\ call'[c].res = "reconciled"
                 => t = "unknown_effect"
            /\ t = "dispatched" => q \in Holding
            /\ effects'[a] > 0 => t \in Touchable
  BY <1>1, <1>4 DEF LocalStep, StepOf
<1>6. ASSUME NEW l \in PCs, Goto(c, l) PROVE call'[c].pc = l
  BY <1>0, <1>1, <1>6 DEF Goto, Call_
<1>7. ASSUME NEW o, Return(c, o) PROVE call'[c].pc = "return"
  BY <1>0, <1>1, <1>7 DEF Return, Call_
<1>8. ASSUME NEW x, Produced(c, x) PROVE call'[c].pc = "commit" /\ call'[c].res = x
  BY <1>0, <1>1, <1>8 DEF Produced, Call_
<1>9. ASSUME NEW x \in Statuses, SetStatus(a, x) PROVE receipt'[a].status = x
  BY <1>0, <1>1, <1>9 DEF SetStatus, Row_
<1>10. CASE PrepareFresh(c)
  <2>1. receipt'[a].status = "prepared" /\ call'[c].pc = "dispatch" /\ effects' = effects
    BY <1>0, <1>1, <1>10 DEF PrepareFresh, NoRow, Call_
  <2>2. s = "none"
    BY <1>1, <1>10 DEF PrepareFresh
  <2> QED
    BY <1>2, <1>5, <2>1, <2>2, <1>0 DEF Touchable
<1>11. CASE PrepareConflict(c)
  <2>1. call'[c].pc = "return" /\ UNCHANGED <<receipt, effects>>
    BY <1>7, <1>11 DEF PrepareConflict, history
  <2>2. s = "none"
    BY <1>1, <1>11 DEF PrepareConflict
  <2> QED
    BY <1>2, <1>5, <2>1, <2>2, <1>0 DEF Touchable
<1>12. CASE PrepareKnown(c)
  <2>1. /\ call'[c].pc = IF s \in Terminal THEN "return"
                         ELSE IF s = "prepared" THEN "dispatch" ELSE "reconcile"
        /\ UNCHANGED <<receipt, effects>>
    BY <1>0, <1>1, <1>12 DEF PrepareKnown, history, Call_
  <2>2. call[c].pc = "prepare" /\ s # "none"
    BY <1>1, <1>12 DEF PrepareKnown, At
  <2>3. s \in {"prepared", "unknown_effect", "committed", "failed"}
    BY <1>0, <1>3, <2>2 DEF Row_, Statuses, Holding
  <2> QED
    BY <1>0, <1>2, <1>5, <2>1, <2>3 DEF Touchable, Terminal
<1>13. CASE Reconcile(c)
  <2>1. s = "unknown_effect" /\ UNCHANGED <<receipt, effects>>
    BY <1>1, <1>2, <1>13 DEF Reconcile, At, StepOf, history
  <2>2. call'[c].pc \in {"tool", "commit", "unknown", "return"}
    BY <1>6, <1>7, <1>8, <1>13 DEF Reconcile, NotSafe, PCs
  <2> QED
    BY <1>2, <1>5, <2>1, <2>2
<1>14. CASE Dispatch(c)
  <2>1. s = "prepared" /\ UNCHANGED effects
    BY <1>1, <1>2, <1>14 DEF Dispatch, At, StepOf, history
  <2>2. receipt'[a].status = "dispatched" /\ call'[c].pc = "tool"
    BY <1>1, <1>6, <1>9, <1>14, <2>1 DEF Dispatch, PCs, Statuses
  <2>3. effects[a] = 0
    BY <1>0, <1>2, <2>1 DEF Touchable
  <2> QED
    BY <1>5, <2>1, <2>2, <2>3 DEF Holding
<1>15. CASE ReadTool(c) \/ WriteRefused(c) \/ ToolFault(c)
  <2>1. call[c].pc = "tool" /\ UNCHANGED <<receipt, effects>>
    BY <1>15 DEF ReadTool, WriteRefused, ToolFault, At, history
  <2>2. call'[c].pc \in {"commit", "fail", "unknown"}
    BY <1>6, <1>8, <1>15 DEF ReadTool, WriteRefused, ToolFault, PCs
  <2>3. call'[c].pc = "commit" => a \notin Writes
    BY <1>6, <1>8, <1>15 DEF ReadTool, WriteRefused, ToolFault, PCs
  <2> QED
    BY <1>1, <1>2, <1>5, <2>1, <2>2, <2>3 DEF StepOf, Holding
<1>16. CASE WriteTool(c)
  <2>1. call[c].pc = "tool" /\ UNCHANGED receipt
    BY <1>16 DEF WriteTool, At
  <2>2. call'[c].pc \in {"commit", "unknown"}
    <3>1. \/ Produced(c, "created") \/ Produced(c, "replaced") \/ Goto(c, "unknown")
      BY <1>16 DEF WriteTool
    <3> QED
      BY <1>6, <1>8, <3>1 DEF PCs
  <2>3. call'[c].pc = "commit" => call'[c].res # "reconciled"
    <3>1. \/ Produced(c, "created") \/ Produced(c, "replaced") \/ Goto(c, "unknown")
      BY <1>16 DEF WriteTool
    <3> QED
      BY <1>6, <1>8, <3>1 DEF PCs
  <2> QED
    BY <1>1, <1>2, <1>5, <2>1, <2>2, <2>3 DEF StepOf, Holding, Touchable
<1>17. CASE Commit(c)
  <2>1. s \in CommitFrom /\ UNCHANGED effects
    BY <1>1, <1>2, <1>17 DEF Commit, At, StepOf, CommitFrom, history
  <2>2. CASE RecordCommit(c)
    <3>1. receipt'[a].status = "committed" /\ call'[c].pc = "return"
      BY <1>0, <1>1, <1>7, <2>2 DEF RecordCommit, Row_
    <3> QED
      BY <1>5, <3>1 DEF Touchable
  <2>3. CASE ~Observed(a) /\ ~RecordCommit(c)
    <3>1. UNCHANGED receipt /\ (Goto(c, "unknown") \/ (call[c].res = "reconciled" /\ NotSafe(c)))
      BY <1>17, <2>3 DEF Commit
    <3>2. call'[c].pc \in {"unknown", "return"}
      BY <1>6, <1>7, <3>1 DEF NotSafe, PCs
    <3>3. call'[c].pc = "return" => s = "unknown_effect"
      BY <1>1, <1>2, <1>6, <1>17, <2>3, <3>1 DEF StepOf, Commit, At, Observed, PCs
    <3> QED
      BY <1>2, <1>5, <2>1, <3>1, <3>2, <3>3 DEF Holding, CommitFrom
  <2> QED
    BY <1>1, <1>17, <2>1, <2>2, <2>3 DEF Commit
<1>18. CASE FailAction(c) \/ MarkUnknown(c)
  <2>1. s \in {"dispatched", "unknown_effect"} /\ UNCHANGED effects
    BY <1>1, <1>2, <1>18 DEF FailAction, MarkUnknown, At, StepOf, history
  <2>2. call'[c].pc = "return"
    BY <1>7, <1>18 DEF FailAction, MarkUnknown, Transition
  <2>3. CASE FailAction(c)
    <3>1. \/ UNCHANGED receipt /\ s = "unknown_effect"
          \/ receipt'[a].status = "failed" /\ s = "dispatched" /\ effects[a] = 0
      BY <1>1, <1>2, <1>9, <2>1, <2>3
         DEF FailAction, Transition, FailFrom, At, StepOf, Statuses
    <3> QED
      BY <1>2, <1>5, <2>1, <2>2, <3>1
  <2>4. CASE MarkUnknown(c)
    <3>1. receipt'[a].status = "unknown_effect"
      BY <1>1, <1>9, <2>1, <2>4 DEF MarkUnknown, Transition, UnknownFrom, Statuses
    <3> QED
      BY <1>5, <2>2, <3>1 DEF Touchable
  <2> QED
    BY <1>18, <2>3, <2>4
<1> QED
  BY <1>10, <1>11, <1>12, <1>13, <1>14, <1>15, <1>16, <1>17, <1>18 DEF Execute

LEMMA GatewayExecute ==
  ASSUME GatewayInv, NEW c \in Callers, Execute(c)
  PROVE  TurnInv' /\ StepInv' /\ HeldInv'
<1> DEFINE a == call[c].act
<1>0. /\ up /\ call[c].pc \notin {"idle", "return"}
      /\ UNCHANGED <<todo, mode, cursor, up, edits, crashes>>
      /\ call'[c].pc # "idle" /\ call'[c].act = a
      /\ \A d \in Callers \ {c} : call'[d] = call[d]
      /\ \A b \in Actions \ {a} : receipt'[b] = receipt[b] /\ effects'[b] = effects[b]
  BY ExecuteShape DEF GatewayInv, quest
<1>1. \A d \in Callers \ {c} : call[d].pc = "idle" /\ call'[d].pc = "idle"
  BY <1>0 DEF GatewayInv, TurnInv
<1>2. LocalStep(c)
  BY ExecuteLocal
<1>3. TurnInv'
  <2>1. \A d \in Callers : call[d].pc # "idle" <=> call'[d].pc # "idle"
    BY <1>0, <1>1
  <2> QED
    BY <1>0, <2>1 DEF GatewayInv, TurnInv, Callers
<1>4. StepInv'
  <2>1. ASSUME NEW d \in Callers \ {c} PROVE StepOf(d)'
    BY <1>1, <2>1 DEF StepOf
  <2> QED
    BY <1>2, <2>1 DEF StepInv, LocalStep
<1>5. \A b \in Actions \ {a} : receipt[b].status # "dispatched"
  <2> SUFFICES ASSUME NEW b \in Actions \ {a}, receipt[b].status = "dispatched" PROVE FALSE
    OBVIOUS
  <2>1. PICK d \in Callers : call[d].act = b /\ call[d].pc \in Holding
    BY <1>0 DEF GatewayInv, HeldInv
  <2> QED
    BY <1>1, <2>1 DEF Holding
<1>6. HeldInv'
  <2>1. ASSUME NEW b \in Actions, receipt'[b].status = "dispatched"
        PROVE  \E d \in Callers : call'[d].act = b /\ call'[d].pc \in Holding
    <3>1. b = a
      BY <1>0, <1>5, <2>1
    <3> QED
      BY <1>0, <1>2, <2>1, <3>1 DEF LocalStep
  <2>2. ASSUME NEW b \in Actions, effects'[b] > 0 PROVE receipt'[b].status \in Touchable
    BY <1>0, <1>2, <2>2 DEF LocalStep, GatewayInv, HeldInv
  <2> QED
    BY <2>1, <2>2 DEF HeldInv
<1> QED
  BY <1>3, <1>4, <1>6

(* Entering or leaving execute: no receipt and no effect changes, and the   *)
(* thread that moves is at no step of execute that StepInv speaks of.       *)
LEMMA TurnMove ==
  ASSUME GatewayInv, NEW c \in Callers, NEW k \in Call_,
         call' = [call EXCEPT ![c] = k],
         UNCHANGED <<receipt, effects, up>>,
         call[c].pc \notin Holding, k.pc \in {"idle", "prepare"}
  PROVE  StepInv' /\ HeldInv'
<1>1. call'[c] = k /\ \A d \in Callers \ {c} : call'[d] = call[d]
  BY DEF GatewayInv, TypeOK
<1>2. ASSUME NEW d \in Callers \ {c} PROVE StepOf(d)'
  BY <1>1, <1>2 DEF GatewayInv, StepInv, StepOf, Row
<1>3. StepOf(c)'
  BY <1>1 DEF StepOf
<1>4. HeldInv'
  <2>1. ASSUME up, NEW b \in Actions, receipt[b].status = "dispatched"
        PROVE  \E d \in Callers : call'[d].act = b /\ call'[d].pc \in Holding
    <3>1. PICK d \in Callers : call[d].act = b /\ call[d].pc \in Holding
      BY <2>1 DEF GatewayInv, HeldInv
    <3> QED
      BY <1>1, <3>1
  <2> QED
    BY <2>1 DEF GatewayInv, HeldInv
<1> QED
  BY <1>2, <1>3, <1>4 DEF StepInv

LEMMA GatewayKept ==
  ASSUME GatewayInv, UNCHANGED <<receipt, call, effects, up>>
  PROVE  StepInv' /\ HeldInv'
<1>1. \A c \in Callers : StepOf(c)' <=> StepOf(c)
  BY DEF StepOf, Row
<1> QED
  BY <1>1 DEF GatewayInv, StepInv, HeldInv

LEMMA EnterIs ==
  ASSUME TypeOK, NEW c \in Callers, NEW a \in Actions, Enter(c, a)
  PROVE  \E k \in Call_ : /\ call' = [call EXCEPT ![c] = k]
                          /\ k.pc = "prepare" /\ k.act = a
<1> DEFINE k == [Idle EXCEPT !.pc = "prepare", !.act = a, !.pre = FileOf(a)]
<1>1. FileOf(a) \in FileStates
  BY RowTypes
<1>2. k \in Call_ /\ k.pc = "prepare" /\ k.act = a
  BY <1>1, IdleType DEF Idle, Call_, PCs, Statuses, Results, Outcomes
<1> QED
  BY <1>2 DEF Enter

LEMMA GatewayNext ==
  ASSUME OneEach, GatewayInv, [Next]_vars
  PROVE  TurnInv' /\ StepInv' /\ HeldInv'
<1>0. TypeOK /\ call \in [Callers -> Call_] /\ todo \in [Resumers -> SUBSET Actions]
       /\ Idle \in Call_ /\ Idle.pc = "idle"
  BY IdleType DEF GatewayInv, TypeOK, Idle
<1>1. ASSUME NEW c \in Callers, Execute(c) PROVE TurnInv' /\ StepInv' /\ HeldInv'
  BY <1>1, GatewayExecute
<1>2. ASSUME NEW c \in Executors, ExecutorStart(c) PROVE TurnInv' /\ StepInv' /\ HeldInv'
  <2>1. /\ up /\ call[c].pc = "idle" /\ mode = "running" /\ cursor \in Actions
        /\ \A d \in Executors : call[d].pc = "idle"
        /\ Enter(c, cursor)
        /\ UNCHANGED <<receipt, effects, todo, mode, up>>
    BY <1>2 DEF ExecutorStart, At, OneEach, history, quest
  <2>2. PICK k \in Call_ : call' = [call EXCEPT ![c] = k] /\ k.pc = "prepare"
    BY <1>0, <2>1, EnterIs DEF Callers
  <2>3. \A r \in Resumers : todo[r] = {} /\ call[r].pc = "idle"
    BY <2>1 DEF GatewayInv, TurnInv
  <2>4. c \in Callers /\ call'[c].pc = "prepare" /\ \A d \in Callers \ {c} : call'[d].pc = "idle"
    BY <1>0, <2>1, <2>2, <2>3 DEF Callers
  <2>5. \A r \in Resumers : r # c
    BY <1>2, GatewayAssumption
  <2>6. TurnInv'
    BY <2>1, <2>3, <2>4, <2>5, <1>2 DEF TurnInv, Callers
  <2> QED
    BY <2>1, <2>2, <2>4, <2>6, TurnMove DEF Holding
<1>3. ASSUME NEW c \in Executors, ExecutorReturn(c) PROVE TurnInv' /\ StepInv' /\ HeldInv'
  <2>1. /\ up /\ call[c].pc = "return" /\ call' = [call EXCEPT ![c] = Idle]
        /\ UNCHANGED <<receipt, effects, todo, up>>
    BY <1>3 DEF ExecutorReturn, At, history
  <2>2. mode = "running" /\ \A r \in Resumers : todo[r] = {}
    BY <2>1, <1>3 DEF GatewayInv, TurnInv, Callers
  <2>3. c \in Callers /\ \A d \in Callers : call'[d].pc = "idle"
    BY <1>0, <2>1 DEF Callers, GatewayInv, TurnInv
  <2>4. TurnInv'
    BY <2>1, <2>2, <2>3 DEF TurnInv, Callers
  <2> QED
    BY <1>0, <2>1, <2>3, <2>4, TurnMove DEF Holding
<1>4. ASSUME NEW r \in Resumers, ResumeBegin(r) \/ ResumeNothing(r)
      PROVE  TurnInv' /\ StepInv' /\ HeldInv'
  <2>1. /\ up /\ mode = "paused" /\ todo[r] = {} /\ call[r].pc = "idle"
        /\ UNCHANGED <<receipt, call, effects, up>>
    BY <1>4 DEF ResumeBegin, ResumeNothing, At, history
  <2>2. \A c \in Callers : call[c].pc = "idle"
    BY <2>1, <1>4 DEF GatewayInv, TurnInv, OneEach, Callers
  <2>3. \A x \in Resumers : todo'[x] # {} => mode' = "paused"
    BY <1>0, <1>4, <2>1 DEF ResumeBegin, ResumeNothing, OneEach
  <2>4. TurnInv'
    BY <2>1, <2>2, <2>3 DEF TurnInv, Callers
  <2> QED
    BY <2>1, <2>4, GatewayKept
<1>5. ASSUME NEW r \in Resumers, ResumeExecute(r) PROVE TurnInv' /\ StepInv' /\ HeldInv'
  <2>1. /\ up /\ call[r].pc = "idle"
        /\ UNCHANGED <<receipt, effects, todo, mode, up>>
    BY <1>5 DEF ResumeExecute, At, history, quest
  <2>2. PICK a \in todo[r] : Enter(r, a)
    BY <1>5 DEF ResumeExecute
  <2>3. a \in Actions /\ r \in Callers
    BY <1>0, <2>2 DEF Callers
  <2>4. PICK k \in Call_ : call' = [call EXCEPT ![r] = k] /\ k.pc = "prepare"
    BY <1>0, <2>2, <2>3, EnterIs
  <2>5. mode = "paused" /\ todo[r] # {}
    BY <2>2 DEF GatewayInv, TurnInv
  <2>6. \A c \in Callers : call[c].pc = "idle"
    BY <2>1, <2>5 DEF GatewayInv, TurnInv, OneEach, Callers
  <2>7. call'[r].pc = "prepare" /\ \A d \in Callers \ {r} : call'[d].pc = "idle"
    BY <1>0, <2>3, <2>4, <2>6
  <2>8. \A e \in Executors : e # r
    BY <1>5, GatewayAssumption
  <2>9. TurnInv'
    BY <2>1, <2>3, <2>5, <2>7, <2>8 DEF TurnInv, Callers, GatewayInv
  <2> QED
    BY <2>1, <2>3, <2>4, <2>9, TurnMove DEF Holding
<1>6. ASSUME NEW r \in Resumers, ResumeReturn(r) PROVE TurnInv' /\ StepInv' /\ HeldInv'
  <2>1. /\ up /\ call[r].pc = "return" /\ call' = [call EXCEPT ![r] = Idle]
        /\ UNCHANGED <<receipt, effects, up>>
    BY <1>6 DEF ResumeReturn, At, history
  <2>2. mode = "paused" /\ r \in Callers
    BY <2>1, <1>6 DEF GatewayInv, TurnInv, Callers
  <2>3. \A d \in Callers : call'[d].pc = "idle"
    BY <1>0, <2>1, <2>2 DEF GatewayInv, TurnInv
  <2>4. \A x \in Resumers : todo'[x] # {} => mode' = "paused"
    BY <1>0, <1>6, <2>2 DEF ResumeReturn, Resumed, OneEach
  <2>5. TurnInv'
    BY <2>1, <2>3, <2>4 DEF TurnInv, Callers
  <2> QED
    BY <1>0, <2>1, <2>2, <2>5, TurnMove DEF Holding
<1>7. CASE UserApproves
  <2>1. mode = "waiting" /\ UNCHANGED <<receipt, call, effects, up, todo>>
    BY <1>7 DEF UserApproves, history
  <2>2. \A r \in Resumers : todo[r] = {}
    BY <2>1 DEF GatewayInv, TurnInv
  <2>3. \A c \in Callers : call[c].pc = "idle"
    BY <2>1, <2>2 DEF GatewayInv, TurnInv, Callers
  <2>4. TurnInv'
    BY <2>1, <2>2, <2>3 DEF TurnInv, Callers
  <2> QED
    BY <2>1, <2>4, GatewayKept
<1>8. CASE Crash
  <2>1. ~up' /\ UNCHANGED <<receipt, effects, mode>>
    BY <1>8 DEF Crash, history
  <2>2. (\A c \in Callers : call'[c].pc = "idle") /\ \A r \in Resumers : todo'[r] = {}
    BY <1>0, <1>8 DEF Crash
  <2>3. TurnInv'
    BY <2>2 DEF TurnInv, Callers
  <2>4. StepInv'
    BY <2>2 DEF StepInv, StepOf
  <2>5. HeldInv'
    BY <2>1 DEF HeldInv, GatewayInv
  <2> QED
    BY <2>3, <2>4, <2>5
<1>9. CASE Restart
  <2>1. /\ up' /\ UNCHANGED <<call, todo, effects>>
        /\ receipt' = [a \in Actions |-> AmbiguousRow(receipt[a])]
        /\ \A c \in Callers : call[c].pc = "idle"
        /\ mode = "paused" => mode' = "paused"
    BY <1>9 DEF Restart, history, GatewayInv, TurnInv
  <2>2. \A a \in Actions : /\ receipt'[a].status # "dispatched"
                           /\ receipt[a].status \in Touchable => receipt'[a].status \in Touchable
    <3>1. \A a \in Actions :
            LET row == AmbiguousRow(receipt[a]) IN
              /\ row.status # "dispatched"
              /\ receipt[a].status \in Touchable => row.status \in Touchable
      BY <1>0 DEF AmbiguousRow, TypeOK, Row_, Touchable
    <3> QED
      BY <2>1, <3>1
  <2>3. TurnInv'
    BY <2>1 DEF GatewayInv, TurnInv, Callers
  <2>4. StepInv'
    BY <2>1 DEF StepInv, StepOf
  <2>5. HeldInv'
    BY <2>1, <2>2 DEF GatewayInv, HeldInv
  <2> QED
    BY <2>3, <2>4, <2>5
<1>10. CASE UNCHANGED <<receipt, call, todo, mode, up, effects>>
  <2>1. TurnInv'
    BY <1>10 DEF GatewayInv, TurnInv
  <2> QED
    BY <1>10, <2>1, GatewayKept
<1> QED
  BY <1>1, <1>2, <1>3, <1>4, <1>5, <1>6, <1>7, <1>8, <1>9, <1>10
     DEF Next, Executor, Resumer, Callers, Edit, vars, history

LEMMA GatewayStep == OneEach /\ GatewayInv /\ [Next]_vars => GatewayInv'
BY NextType, GatewayNext DEF GatewayInv

LEMMA GatewayAlways == OneEach => (Spec => []GatewayInv)
<1>1. Init => GatewayInv
  BY InitType, InitGateway DEF GatewayInv
<1> QED
  <2> SUFFICES ASSUME OneEach PROVE Spec => []GatewayInv
    OBVIOUS
  <2>1. GatewayInv /\ [Next]_vars => GatewayInv'
    BY GatewayStep
  <2> QED
    BY <1>1, <2>1, PTL DEF Spec

------------------------------------------------------------------------------
(* The receipts implement ActionReceipts.                                   *)

LEMMA PhaseIs ==
  ASSUME TypeOK, NEW a \in Actions
  PROVE  /\ Phase(a) = "new" <=> receipt[a].status = "none"
         /\ Phase(a) = "open" <=> receipt[a].status \in Unsettled
         /\ Phase(a) = "done" <=> receipt[a].status = "committed"
         /\ Phase(a) = "failed" <=> receipt[a].status = "failed"
         /\ Phase(a) \in {"new", "open", "done", "failed"}
<1>1. receipt[a].status \in Statuses
  BY DEF TypeOK, Row_
<1> QED
  BY <1>1 DEF Phase, Statuses, Unsettled

LEMMA PhaseNext ==
  ASSUME TypeOK', NEW a \in Actions
  PROVE  /\ receipt'[a].status = "none" => Phase(a)' = "new"
         /\ receipt'[a].status \in Unsettled => Phase(a)' = "open"
         /\ receipt'[a].status = "committed" => Phase(a)' = "done"
         /\ receipt'[a].status = "failed" => Phase(a)' = "failed"
BY DEF Phase, Unsettled

(* One step of one receipt, in the words of ActionReceipts.                 *)
LEMMA ReceiptMaps ==
  ASSUME TypeOK, TypeOK', NEW a \in Actions,
         \A b \in Actions \ {a} : receipt'[b] = receipt[b] /\ effects'[b] = effects[b],
         NEW q \in {"new", "open", "done", "failed"}, Phase(a)' = q
  PROVE  /\ [b \in Actions |-> Phase(b)]' = [[b \in Actions |-> Phase(b)] EXCEPT ![a] = q]
         /\ [b \in Actions |-> effects[b] > 0]'
              = [[b \in Actions |-> effects[b] > 0] EXCEPT ![a] = (effects'[a] > 0)]
<1>1. \A b \in Actions \ {a} : Phase(b)' = Phase(b)
  BY DEF Phase
<1>2. \A b \in Actions \ {a} : (effects'[b] > 0) = (effects[b] > 0)
  OBVIOUS
<1> QED
  BY <1>1, <1>2

LEMMA InitReceipts == Init => AR!Init
<1> SUFFICES ASSUME Init PROVE AR!Init
  OBVIOUS
<1>1. TypeOK
  BY InitType
<1>2. \A a \in Actions : Phase(a) = "new" /\ ~(effects[a] > 0)
  BY <1>1, PhaseIs DEF Init, NoRow
<1>3. [a \in Actions |-> Phase(a)] = [a \in Actions |-> "new"]
  BY <1>2
<1>4. [a \in Actions |-> effects[a] > 0] = [a \in Actions |-> FALSE]
  <2>1. \A a \in Actions : (effects[a] > 0) = FALSE
    BY <1>2
  <2> QED
    BY <2>1, Zenon
<1>5. ledger = <<>>
  BY DEF Init
<1> QED
  BY <1>3, <1>4, <1>5 DEF AR!Init

LEMMA SameReceipts ==
  ASSUME TypeOK, TypeOK', UNCHANGED <<effects, ledger>>,
         \A a \in Actions : Phase(a)' = Phase(a)
  PROVE  UNCHANGED AR!vars
BY DEF AR!vars

LEMMA AbstractStep ==
  ASSUME NEW a \in Actions, AR!Open(a) \/ AR!Touch(a) \/ AR!Commit(a) \/ AR!Fail(a)
  PROVE  [AR!Next]_(AR!vars)
BY Zenon DEF AR!Next

LEMMA ExecuteReceipts ==
  ASSUME GatewayInv, TypeOK', NEW c \in Callers, Execute(c)
  PROVE  [AR!Next]_(AR!vars)
<1>a. PICK a \in Actions : a = call[c].act
  BY CallActs DEF GatewayInv
<1> DEFINE s == receipt[a].status
<1>0. /\ a = call[c].act /\ call[c] \in Call_ /\ receipt[a] \in Row_ /\ effects[a] \in Nat
      /\ Row(c) = receipt[a] /\ TypeOK
      /\ receipt \in [Actions -> Row_] /\ effects \in [Actions -> Nat]
  BY <1>a, CallActs DEF Row, GatewayInv, TypeOK
<1>1. \A b \in Actions \ {a} : receipt'[b] = receipt[b] /\ effects'[b] = effects[b]
  BY <1>a, ExecuteShape DEF GatewayInv
<1>2. StepOf(c)
  BY DEF GatewayInv, StepInv
<1>3. ASSUME UNCHANGED <<receipt, effects, ledger>> PROVE UNCHANGED AR!vars
  <2>1. \A b \in Actions : Phase(b)' = Phase(b)
    BY <1>3 DEF Phase
  <2> QED
    BY <1>0, <1>3, <2>1, SameReceipts
<1>4. ASSUME NEW x \in {"dispatched", "unknown_effect"}, SetStatus(a, x),
             s \in Unsettled, UNCHANGED <<effects, ledger>>
      PROVE  UNCHANGED AR!vars
  <2>1. receipt'[a].status = x
    BY <1>0, <1>4 DEF SetStatus, Row_
  <2>2. Phase(a) = "open" /\ Phase(a)' = "open"
    BY <1>0, <1>4, <2>1, PhaseIs, PhaseNext DEF Unsettled
  <2>3. \A b \in Actions \ {a} : Phase(b)' = Phase(b)
    BY <1>1 DEF Phase
  <2>4. \A b \in Actions : Phase(b)' = Phase(b)
    BY <2>2, <2>3
  <2> QED
    BY <1>0, <1>4, <2>4, SameReceipts
<1>5. CASE PrepareFresh(c)
  <2>1. s = "none" /\ receipt'[a].status = "prepared" /\ UNCHANGED <<effects, ledger>>
    BY <1>0, <1>5 DEF PrepareFresh, NoRow
  <2>2. Phase(a) = "new" /\ Phase(a)' = "open"
    BY <1>0, <2>1, PhaseIs, PhaseNext DEF Unsettled
  <2>3. AR!Open(a)
    <3>1. [b \in Actions |-> Phase(b)]' = [[b \in Actions |-> Phase(b)] EXCEPT ![a] = "open"]
      BY <1>0, <1>1, <2>2, ReceiptMaps
    <3>2. UNCHANGED [b \in Actions |-> effects[b] > 0]
      BY <2>1
    <3> QED
      BY <1>0, <2>1, <2>2, <3>1, <3>2 DEF AR!Open
  <2> QED
    BY <1>0, <2>3, AbstractStep
<1>6. CASE Dispatch(c)
  <2>1. CASE UNCHANGED receipt
    BY <1>3, <1>6, <2>1 DEF Dispatch, history
  <2>2. CASE s = "prepared" /\ SetStatus(a, "dispatched")
    BY <1>4, <1>6, <2>2 DEF Dispatch, Unsettled, history
  <2> QED
    BY <1>0, <1>6, <2>1, <2>2 DEF Dispatch
<1>7. CASE WriteTool(c)
  <2>1. s \in Unsettled /\ UNCHANGED <<receipt, ledger>>
    BY <1>0, <1>2, <1>7 DEF WriteTool, At, StepOf, Unsettled
  <2>2. effects'[a] > 0
    BY <1>0, <1>7 DEF WriteTool
  <2>3. Phase(a) = "open" /\ \A b \in Actions : Phase(b)' = Phase(b)
    BY <1>0, <2>1, PhaseIs DEF Phase
  <2>4. AR!Touch(a)
    <3>1. [b \in Actions |-> effects[b] > 0]'
            = [[b \in Actions |-> effects[b] > 0] EXCEPT ![a] = TRUE]
      BY <1>0, <1>1, <2>2, <2>3, ReceiptMaps
    <3>2. UNCHANGED [b \in Actions |-> Phase(b)]
      BY <2>3
    <3> QED
      BY <1>0, <2>1, <2>3, <3>1, <3>2 DEF AR!Touch
  <2> QED
    BY <1>0, <2>4, AbstractStep
<1>8. CASE Commit(c)
  <2>1. CASE UNCHANGED <<receipt, ledger>>
    BY <1>3, <1>8, <2>1 DEF Commit, history
  <2>2. CASE Row(c).status \in CommitFrom /\ RecordCommit(c)
    <3>1. /\ s \in Unsettled /\ receipt'[a].status = "committed"
          /\ ledger' = Append(ledger, a) /\ UNCHANGED effects
      BY <1>0, <1>8, <2>2 DEF Commit, RecordCommit, CommitFrom, Unsettled, Row_, history
    <3>2. Phase(a) = "open" /\ Phase(a)' = "done"
      BY <1>0, <3>1, PhaseIs, PhaseNext
    <3>3. AR!Commit(a)
      <4>1. [b \in Actions |-> Phase(b)]' = [[b \in Actions |-> Phase(b)] EXCEPT ![a] = "done"]
        BY <1>0, <1>1, <3>2, ReceiptMaps
      <4>2. UNCHANGED [b \in Actions |-> effects[b] > 0]
        BY <3>1
      <4> QED
        BY <1>0, <3>1, <3>2, <4>1, <4>2 DEF AR!Commit
    <3> QED
      BY <1>0, <3>3, AbstractStep
  <2> QED
    BY <1>8, <2>1, <2>2 DEF Commit
<1>9. CASE FailAction(c)
  <2>1. UNCHANGED <<effects, ledger>>
    BY <1>9 DEF FailAction, history
  <2>2. CASE UNCHANGED receipt
    BY <1>3, <2>1, <2>2
  <2>3. CASE s \in FailFrom /\ SetStatus(a, "failed")
    <3>1. s = "dispatched" /\ ~(effects[a] > 0)
      BY <1>0, <1>2, <1>9, <2>3 DEF FailAction, At, StepOf, FailFrom
    <3>2. receipt'[a].status = "failed"
      BY <1>0, <2>3 DEF SetStatus, Row_
    <3>3. Phase(a) = "open" /\ Phase(a)' = "failed"
      BY <1>0, <3>1, <3>2, PhaseIs, PhaseNext DEF Unsettled
    <3>4. AR!Fail(a)
      <4>1. [b \in Actions |-> Phase(b)]' = [[b \in Actions |-> Phase(b)] EXCEPT ![a] = "failed"]
        BY <1>0, <1>1, <3>3, ReceiptMaps
      <4>2. UNCHANGED [b \in Actions |-> effects[b] > 0]
        BY <2>1
      <4>3. ~[b \in Actions |-> effects[b] > 0][a]
        BY <1>0, <3>1
      <4> QED
        BY <1>0, <2>1, <3>3, <4>1, <4>2, <4>3 DEF AR!Fail
    <3> QED
      BY <1>0, <3>4, AbstractStep
  <2> QED
    BY <1>0, <1>9, <2>2, <2>3 DEF FailAction, Transition
<1>10. CASE MarkUnknown(c)
  <2>1. UNCHANGED <<effects, ledger>>
    BY <1>10 DEF MarkUnknown, history
  <2>2. CASE UNCHANGED receipt
    BY <1>3, <2>1, <2>2
  <2>3. CASE s \in UnknownFrom /\ SetStatus(a, "unknown_effect")
    BY <1>4, <2>1, <2>3 DEF UnknownFrom, Unsettled
  <2> QED
    BY <1>0, <1>10, <2>2, <2>3 DEF MarkUnknown, Transition
<1>11. CASE UNCHANGED <<receipt, effects, ledger>>
  BY <1>3, <1>11
<1> QED
  BY <1>5, <1>6, <1>7, <1>8, <1>9, <1>10, <1>11
     DEF Execute, PrepareConflict, PrepareKnown, Reconcile, ReadTool, WriteRefused,
         ToolFault, history

LEMMA NextReceipts == GatewayInv /\ GatewayInv' /\ [Next]_vars => [AR!Next]_(AR!vars)
<1> SUFFICES ASSUME GatewayInv, GatewayInv', [Next]_vars PROVE [AR!Next]_(AR!vars)
  OBVIOUS
<1>0. TypeOK /\ TypeOK'
  BY DEF GatewayInv
<1>1. ASSUME NEW c \in Callers, Execute(c) PROVE [AR!Next]_(AR!vars)
  BY <1>0, <1>1, ExecuteReceipts
<1>2. CASE Restart
  <2>1. \A a \in Actions : receipt[a].status \in Unsettled <=> receipt'[a].status \in Unsettled
    BY <1>0, <1>2 DEF Restart, AmbiguousRow, TypeOK, Row_, Unsettled
  <2>2. \A a \in Actions : receipt[a].status \notin Unsettled => receipt'[a] = receipt[a]
    BY <1>0, <1>2 DEF Restart, AmbiguousRow, TypeOK, Row_, Unsettled
  <2>3. \A a \in Actions : Phase(a)' = Phase(a)
    BY <1>0, <2>1, <2>2 DEF Phase, Unsettled
  <2> QED
    BY <1>0, <1>2, <2>3, SameReceipts DEF Restart, history
<1>3. CASE UNCHANGED <<receipt, effects, ledger>>
  <2>1. \A a \in Actions : Phase(a)' = Phase(a)
    BY <1>3 DEF Phase
  <2> QED
    BY <1>0, <1>3, <2>1, SameReceipts
<1> QED
  BY <1>1, <1>2, <1>3
     DEF Next, Executor, Resumer, Callers, ExecutorStart, ExecutorReturn,
         ResumeBegin, ResumeNothing, ResumeExecute, ResumeReturn, UserApproves,
         Crash, Edit, vars, history, quest

(* With one thread at a time at the gateway, whatever crashes, lost         *)
(* responses and edits meet it, the receipts are those of ActionReceipts: a *)
(* failed receipt was never touched, a settled one is touched and logged no *)
(* more (_transition_action, _dispatch, _reconcile).                        *)
THEOREM ReceiptsKeepTheirPromises == OneEach => (Spec => ImplementsReceipts)
<1> SUFFICES ASSUME OneEach PROVE Spec => ImplementsReceipts
  OBVIOUS
<1>1. Spec => []GatewayInv
  BY GatewayAlways
<1>2. GatewayInv /\ GatewayInv' /\ [Next]_vars => [AR!Next]_(AR!vars)
  BY NextReceipts
<1> QED
  BY <1>1, <1>2, InitReceipts, PTL DEF Spec, ImplementsReceipts, AR!Spec

------------------------------------------------------------------------------
(* No write over an existing file is repeated blindly.                      *)

(* A thread about to repeat an ambiguous write found nothing in its place,  *)
(* and nobody else has put anything there since.                            *)
AgainInv ==
  \A c \in Callers :
    call[c].pc = "tool" /\ call[c].act \in Writes /\ Row(c).status = "unknown_effect"
      => FileOf(call[c].act) = Absent

LEMMA AgainNext ==
  ASSUME ~LiveEdits, GatewayInv, AgainInv, [Next]_vars
  PROVE  AgainInv'
<1>0. TypeOK /\ call \in [Callers -> Call_] /\ receipt \in [Actions -> Row_]
       /\ Idle \in Call_ /\ Idle.pc = "idle"
  BY IdleType DEF GatewayInv, TypeOK, Idle
<1>1. ASSUME NEW c \in Callers, Execute(c) PROVE AgainInv'
  <2> DEFINE a == call[c].act
  <2>0. /\ a \in Actions /\ call[c] \in Call_ /\ Row(c) = receipt[a]
        /\ call'[c].act = a /\ call[c].pc # "idle"
        /\ \A d \in Callers \ {c} : call'[d] = call[d]
    BY <1>0, <1>1, CallActs, ExecuteShape DEF Row
  <2>1. \A d \in Callers \ {c} : call'[d].pc = "idle"
    BY <2>0 DEF GatewayInv, TurnInv
  <2>2. StepOf(c)
    BY DEF GatewayInv, StepInv
  <2>3. ASSUME NEW l \in PCs, Goto(c, l) PROVE call'[c].pc = l
    BY <1>0, <2>0, <2>3 DEF Goto, Call_
  <2>4. ASSUME NEW o, Return(c, o) PROVE call'[c].pc = "return"
    BY <1>0, <2>0, <2>4 DEF Return, Call_
  <2>5. ASSUME NEW x, Produced(c, x) PROVE call'[c].pc = "commit"
    BY <1>0, <2>0, <2>5 DEF Produced, Call_
  <2> DEFINE P == call'[c].pc = "tool" /\ a \in Writes /\ receipt'[a].status = "unknown_effect"
                    => file'[PathOf[a]] = Absent
  <2>6. P => AgainInv'
    BY <2>0, <2>1 DEF AgainInv, Row, FileOf
  <2>7. CASE call'[c].pc # "tool"
    BY <2>6, <2>7
  <2>8. CASE Reconcile(c)
    <3>1. UNCHANGED <<receipt, file>>
      BY <2>8 DEF Reconcile, history
    <3>2. call'[c].pc = "tool" => SafeRetry(a)
      BY <2>3, <2>4, <2>5, <2>8 DEF Reconcile, NotSafe, PCs
    <3> QED
      BY <2>6, <3>1, <3>2 DEF SafeRetry, FileOf
  <2>9. CASE Dispatch(c)
    <3>1. receipt[a].status = "prepared"
      BY <2>0, <2>2, <2>9 DEF Dispatch, At, StepOf
    <3>2. receipt'[a].status = "dispatched"
      BY <1>0, <2>0, <2>9, <3>1 DEF Dispatch, SetStatus, Row_
    <3> QED
      BY <2>6, <3>2
  <2>10. CASE PrepareFresh(c) \/ PrepareConflict(c) \/ PrepareKnown(c)
    <3>1. call'[c].pc # "tool"
      <4>1. CASE PrepareFresh(c)
        BY <1>0, <2>0, <4>1 DEF PrepareFresh, Call_
      <4>2. CASE PrepareConflict(c)
        BY <2>4, <4>2 DEF PrepareConflict
      <4>3. CASE PrepareKnown(c)
        BY <1>0, <2>0, <4>3 DEF PrepareKnown, Call_
      <4> QED
        BY <2>10, <4>1, <4>2, <4>3
    <3> QED
      BY <2>7, <3>1
  <2>11. CASE ReadTool(c) \/ WriteRefused(c) \/ ToolFault(c)
    <3>1. call'[c].pc \in {"commit", "fail", "unknown"}
      BY <2>3, <2>5, <2>11 DEF ReadTool, WriteRefused, ToolFault, PCs
    <3> QED
      BY <2>7, <3>1
  <2>12. CASE WriteTool(c)
    <3>1. \/ Produced(c, "created") \/ Produced(c, "replaced") \/ Goto(c, "unknown")
      BY <2>12 DEF WriteTool
    <3> QED
      BY <2>3, <2>5, <2>7, <3>1 DEF PCs
  <2>13. CASE Commit(c)
    <3>1. call'[c].pc \in {"return", "unknown", "fail"}
      BY <2>3, <2>4, <2>13 DEF Commit, CommitRefused, RecordCommit, NotSafe, PCs
    <3> QED
      BY <2>7, <3>1
  <2>14. CASE FailAction(c) \/ MarkUnknown(c)
    BY <2>4, <2>7, <2>14 DEF FailAction, MarkUnknown, Transition
  <2> QED
    BY <1>1, <2>8, <2>9, <2>10, <2>11, <2>12, <2>13, <2>14 DEF Execute
<1>2. ASSUME NEW c \in Callers, NEW k \in Call_, call' = [call EXCEPT ![c] = k],
             k.pc # "tool", UNCHANGED <<receipt, file>>
      PROVE  AgainInv'
  <2>1. call'[c].pc # "tool" /\ \A d \in Callers \ {c} : call'[d] = call[d]
    BY <1>0, <1>2
  <2> QED
    BY <1>2, <2>1 DEF AgainInv, Row, FileOf
<1>3. ASSUME NEW c \in Callers, NEW a \in Actions, Enter(c, a), UNCHANGED <<receipt, file>>
      PROVE  AgainInv'
  <2>1. PICK k \in Call_ : call' = [call EXCEPT ![c] = k] /\ k.pc = "prepare"
    BY <1>0, <1>3, EnterIs
  <2> QED
    BY <1>2, <1>3, <2>1
<1>4. ASSUME NEW c \in Executors, ExecutorStart(c) PROVE AgainInv'
  BY <1>3, <1>4 DEF ExecutorStart, history, Callers
<1>5. ASSUME NEW r \in Resumers, ResumeExecute(r) PROVE AgainInv'
  <2>1. PICK a \in todo[r] : Enter(r, a)
    BY <1>5 DEF ResumeExecute
  <2>2. a \in Actions
    BY <2>1 DEF GatewayInv, TypeOK
  <2> QED
    BY <1>3, <1>5, <2>1, <2>2 DEF ResumeExecute, history, Callers
<1>6. ASSUME NEW c \in Callers, ExecutorReturn(c) \/ ResumeReturn(c) PROVE AgainInv'
  BY <1>0, <1>2, <1>6 DEF ExecutorReturn, ResumeReturn, history
<1>7. CASE Crash
  BY <1>0, <1>7 DEF Crash, AgainInv
<1>8. CASE Restart
  BY <1>8 DEF Restart, AgainInv, GatewayInv, TurnInv
<1>9. ASSUME NEW p \in Paths, NEW v \in FileStates, Edit(p, v) PROVE AgainInv'
  BY <1>9 DEF Edit, AgainInv, GatewayInv, TurnInv
<1>10. CASE UNCHANGED <<receipt, call, file>>
  BY <1>10 DEF AgainInv, Row, FileOf
<1> QED
  BY <1>1, <1>4, <1>5, <1>6, <1>7, <1>8, <1>9, <1>10
     DEF Next, Executor, Resumer, Callers, ResumeBegin, ResumeNothing, UserApproves,
         vars, history

LEMMA RepeatsOnNothing ==
  GatewayInv /\ AgainInv /\ [Next]_vars
    => [\A a \in Actions : effects[a] > 0 /\ effects'[a] > effects[a]
                             => FileOf(a) = Absent]_vars
<1> SUFFICES ASSUME GatewayInv, AgainInv, [Next]_vars,
                    NEW a \in Actions, effects[a] > 0, effects'[a] > effects[a]
             PROVE  FileOf(a) = Absent
  OBVIOUS
<1>1. effects' # effects
  BY DEF GatewayInv, TypeOK
<1>2. PICK c \in Callers : WriteTool(c)
  BY <1>1, ZenonT(60) DEF Next, Executor, Resumer, Callers, ExecutorStart, ExecutorReturn,
       ResumeBegin, ResumeNothing, ResumeExecute, ResumeReturn, UserApproves,
       Crash, Restart, Edit, vars, history, quest, Execute, PrepareFresh, PrepareConflict,
       PrepareKnown, Reconcile, Dispatch, ReadTool, WriteRefused, ToolFault, Commit,
       FailAction, MarkUnknown
<1>3. call[c].act = a
  BY <1>2 DEF WriteTool, GatewayInv, TypeOK
<1>4. StepOf(c) /\ call[c].pc = "tool" /\ a \in Writes
  BY <1>2, <1>3 DEF GatewayInv, StepInv, WriteTool, At
<1>5. Row(c).status = "unknown_effect"
  BY <1>3, <1>4 DEF StepOf
<1> QED
  BY <1>3, <1>4, <1>5 DEF AgainInv

(* With one thread at a time, and files edited by others only while the     *)
(* process is down, a write that is repeated after an ambiguous end finds   *)
(* nothing in its place (_reconcile).                                       *)
THEOREM WritesAreNotRepeatedBlindly ==
  OneEach /\ ~LiveEdits => (Spec => NoBlindRepeat)
<1> SUFFICES ASSUME OneEach, ~LiveEdits PROVE Spec => NoBlindRepeat
  OBVIOUS
<1>1. Init => AgainInv
  BY DEF Init, AgainInv, Idle
<1>2. GatewayInv /\ AgainInv /\ [Next]_vars => AgainInv'
  BY AgainNext
<1>3. Spec => []GatewayInv
  BY GatewayAlways
<1> QED
  BY <1>1, <1>2, <1>3, RepeatsOnNothing, PTL DEF Spec, NoBlindRepeat
=============================================================================
