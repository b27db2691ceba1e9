-------------------------- MODULE ControlledWrite --------------------------
(***************************************************************************)
(* The controlled write kernel: one README target is replaced by the post  *)
(* image of a reviewed proposal, under a single-use authorization, with a  *)
(* create-only event ledger, a create-only backup and a lock file beside   *)
(* the target; a committed write can be restored from its backup.          *)
(*                                                                         *)
(* Processes are the command line callers of apply, restore and reconcile. *)
(* They share nothing but the file system.  A process may die between any  *)
(* two of its steps; other programs may edit the target at any moment, the *)
(* one between a process's last look at the target and its os.replace      *)
(* included: the look and the replace are two system calls, and no strict  *)
(* CAS against programs that do not take the lock is claimed               *)
(* (docs/v3-phase-3.md:134-136).                                           *)
(*                                                                         *)
(* Release is the POSIX one, which unlinks the lock name while the flock   *)
(* is held; the Windows order (unlock, close, compare, unlink) is not      *)
(* modelled.                                                               *)
(*                                                                         *)
(* A hash stands for the bytes it is computed from, so a content is its    *)
(* own hash.  ledger[o] is what _validate_chain computes from the event    *)
(* files of operation o, which is all that any later call reads of them.   *)
(***************************************************************************)
EXTENDS Naturals, FiniteSets

CONSTANTS Procs,        \* processes that call the kernel
          ApplyOps,     \* operation ids of user authorizations
          RestoreOps,   \* operation ids of restore authorizations
          Bases,        \* contents a person may give the target
          Original,     \* the target's content at the start
          MaxEdits,     \* edits of the target or of the result's sources
          MaxFailures,  \* processes that die, failed os.replace, failed fsync
          MaxCalls      \* calls of apply and restore

ASSUME ConstantsAssumption ==
    /\ Original \in Bases
    /\ {"none", "empty"} \cap (ApplyOps \cup RestoreOps) = {}
    /\ ApplyOps \cap RestoreOps = {}
    /\ {MaxEdits, MaxFailures, MaxCalls} \subseteq Nat

VARIABLES target,    \* the target file: content and inode, or Gone
          inodes,    \* inodes of the target used so far
          sources,   \* "fresh" while the result's other sources are unchanged
          plan,      \* apply plans: the file each one is bound to
          proposal,  \* executable proposals: bound file (the post image follows from it)
          auth,      \* authorizations: current file and desired content
          ledger,    \* ledger of each operation
          backup,    \* backup content of each operation, or NoContent
          debris,    \* a temporary file was left in the operation directory
          lock,      \* the lock file: None, "empty" or the operation it names
          proc,      \* the processes
          effects,   \* history: times os.replace ran for the operation
          overwrote, \* history: content the operation replaced
          touched,   \* history: somebody else wrote the target after the intent
          missed,    \* history: ... between the operation's last look and its os.replace
          edits, failures, calls

vars == <<target, inodes, sources, plan, proposal, auth, ledger, backup, debris,
          lock, proc, effects, overwrote, touched, missed, edits, failures, calls>>

records == <<plan, proposal, auth>>
history == <<effects, overwrote, touched, missed>>
bounds == <<edits, failures, calls>>

Ops == ApplyOps \cup RestoreOps
None == "none"
NoContent == [base |-> None, managed |-> FALSE]
Gone == [content |-> NoContent, inode |-> 0]   \* also: no plan, no proposal
NoAuth == [current |-> Gone, desired |-> NoContent]

Contents == [base : Bases, managed : BOOLEAN]
Plain(b) == [base |-> b, managed |-> FALSE]

\* The post image appends one managed section to the original bytes.
Compose(content) == [content EXCEPT !.managed = TRUE]
\* A target that already holds a managed section is refused.
Composable(content) == ~content.managed

MaxInode == 1 + MaxEdits + Cardinality(Ops)
Files == [content : Contents, inode : 1..MaxInode] \cup {Gone}

Codes == {"", "ALREADY_TERMINAL", "RECONCILE_REQUIRED", "EXECUTION_REJECTED",
          "EXECUTION_ATTENTION", "EXTERNAL_DRIFT_BLOCKED", "BACKUP_VERIFY_FAILED",
          "DISPATCH_OUTCOME_UNKNOWN", "EFFECT_PRESENT_ATTENTION",
          "TARGET_OBSERVATION_UNAVAILABLE", "DIRECTORY_FSYNC_FAILED"}

\* What _validate_chain knows after the last event: which events there are, the
\* latest post-write observation and the file it saw, whether an attention record closes the way
\* forward, the code of a last attention record, and the receipt.
Ledgers == [preflight : BOOLEAN, manifest : BOOLEAN, intent : BOOLEAN,
            dispatch : BOOLEAN, post : {None, "match", "nomatch"},
            seen : Files, attention : BOOLEAN, last : Codes,
            receipt : {None, "COMMITTED", "FAILED_NO_EFFECT"}]

EmptyLedger == [preflight |-> FALSE, manifest |-> FALSE, intent |-> FALSE,
                dispatch |-> FALSE, post |-> None, seen |-> Gone, attention |-> FALSE,
                last |-> "", receipt |-> None]

PCs == {"idle", "open", "flock", "verify", "check", "backup", "manifest", "intent", "stage",
        "dispatch", "replace", "swap", "observe", "receipt", "fail", "release"}

Resting == [pc |-> "idle", kind |-> None, op |-> None, fd |-> None,
            created |-> FALSE, held |-> FALSE, saw |-> Gone,
            code |-> "", state |-> None]

Init ==
    /\ target = [content |-> Plain(Original), inode |-> 1]
    /\ inodes = 1
    /\ sources = "fresh"
    /\ plan = [o \in ApplyOps |-> Gone]
    /\ proposal = [o \in ApplyOps |-> Gone]
    /\ auth = [o \in Ops |-> NoAuth]
    /\ ledger = [o \in Ops |-> EmptyLedger]
    /\ backup = [o \in Ops |-> NoContent]
    /\ debris = [o \in Ops |-> FALSE]
    /\ lock = None
    /\ proc = [p \in Procs |-> Resting]
    /\ effects = [o \in Ops |-> 0]
    /\ overwrote = [o \in Ops |-> NoContent]
    /\ touched = [o \in Ops |-> FALSE]
    /\ missed = [o \in Ops |-> FALSE]
    /\ edits = 0 /\ failures = 0 /\ calls = 0

----------------------------------------------------------------------------
(* Preparation: plan, proposal and authorization, each a create-only file. *)

\* _fresh_readme_result: the result's sources are what they were when it was generated.
FreshResult == sources = "fresh"

\* _stable_target: the target read twice gives this file.
TargetIs(file) == target # Gone /\ target = file

\* load_apply_plan: the file is there, canonical and carries its own hash.
HasPlan(o) == plan[o] # Gone

\* load_executable_proposal, with _validate's checks of the record itself.
HasProposal(o) == proposal[o] # Gone

\* prepare_apply_plan: binds a fresh, conflict-free result to the target as it is.
PrepareApplyPlan(o) ==
    /\ ~HasPlan(o)
    /\ FreshResult
    /\ target # Gone
    /\ plan' = [plan EXCEPT ![o] = target]
    /\ UNCHANGED <<target, inodes, sources, proposal, auth, ledger, backup, debris,
                   lock, proc, history, bounds>>

\* Every mutable binding of the plan still holds; anything else blocks.
VerifyApplyPlan(o) ==
    /\ HasPlan(o)
    /\ FreshResult
    /\ TargetIs(plan[o])

CreateExecutableProposal(o) ==
    /\ ~HasProposal(o)
    /\ VerifyApplyPlan(o)
    /\ Composable(target.content)
    /\ proposal' = [proposal EXCEPT ![o] = target]
    /\ UNCHANGED <<target, inodes, sources, plan, auth, ledger, backup, debris,
                   lock, proc, history, bounds>>

\* The proposal is recomputed from the plan, the result and the target.
VerifyExecutableProposal(o) ==
    /\ HasProposal(o)
    /\ VerifyApplyPlan(o)
    /\ TargetIs(proposal[o])

\* create_authorization: the operation directory must be new.
CreateAuthorization(o) ==
    /\ auth[o] = NoAuth
    /\ VerifyExecutableProposal(o)
    /\ auth' = [auth EXCEPT ![o] = [current |-> target,
                                    desired |-> Compose(proposal[o].content)]]
    /\ UNCHANGED <<target, inodes, sources, plan, proposal, ledger, backup, debris,
                   lock, proc, history, bounds>>

\* _classify_target_effect compares bytes and mode, not the inode.
TargetEffect(o) ==
    IF target = Gone THEN "unknown"
    ELSE IF target.content = auth[o].desired THEN "effect_present"
    ELSE IF target.content = auth[o].current.content THEN "none"
    ELSE "external_drift"

\* check of an operation with a receipt: the target must be the very file that the
\* final observation saw.
CheckTerminal(o) ==
    IF target = ledger[o].seen THEN ledger[o].receipt ELSE "TARGET_CHANGED_AFTER_RECEIPT"

\* check, which writes nothing.
Check(o) ==
    IF debris[o] THEN "INVALID_LEDGER"
    ELSE IF ledger[o].receipt # None THEN CheckTerminal(o)
    ELSE IF ~ledger[o].preflight
         THEN IF target = auth[o].current THEN "AUTHORIZED_NOT_DISPATCHED"
              ELSE "TARGET_BINDING_CHANGED"
    ELSE IF \/ TargetEffect(o) \in {"unknown", "external_drift"}
            \/ TargetEffect(o) = "effect_present" /\ ~ledger[o].dispatch
         THEN "EXTERNAL_DRIFT_BLOCKED"
    ELSE "RECONCILE_REQUIRED"

\* Mutant: the receipt is believed without checking the target again.
StillCommittedBlind(o) == ~debris[o] /\ ledger[o].receipt = "COMMITTED" /\ target # Gone

\* The receipt is the last event, its evidence is checked again and the target
\* still is the file it left.
StillCommitted(o) == Check(o) = "COMMITTED" /\ target.content = auth[o].desired

\* create_restore_authorization: only from the committed receipt of an apply whose
\* effect is still in the target; what is restored is that operation's backup.
CreateRestoreAuthorization(r, o) ==
    /\ auth[r] = NoAuth
    /\ StillCommitted(o)
    /\ auth' = [auth EXCEPT ![r] = [current |-> target, desired |-> backup[o]]]
    /\ UNCHANGED <<target, inodes, sources, plan, proposal, ledger, backup, debris,
                   lock, proc, history, bounds>>

----------------------------------------------------------------------------
(* The lock file.  fd is "current" while the descriptor's inode is the one *)
(* the lock path names and "stale" once that name was unlinked.            *)

Goto(p, pc) == proc' = [proc EXCEPT ![p].pc = pc]
Raise(p, code) == proc' = [proc EXCEPT ![p].pc = "fail", ![p].code = code]
\* The process returns or raises with its descriptor closed.
Return(p) == proc' = [proc EXCEPT ![p] = Resting]

\* The lock name disappears: every other descriptor of it is stale.
UnlinkBy(p) ==
    /\ lock' = None
    /\ proc' = [q \in Procs |-> IF q = p THEN Resting
                                ELSE IF proc[q].fd = "current"
                                     THEN [proc[q] EXCEPT !.fd = "stale"]
                                     ELSE proc[q]]

\* Mutant: the advisory lock is not taken.
FlockFreeAlways(p) == p \in Procs

FlockFree(p) == \A q \in Procs \ {p} : ~(proc[q].held /\ proc[q].fd = proc[p].fd)

\* _verify_lock: the path still names this inode and holds this operation's record.
VerifyLock(p) == proc[p].fd = "current" /\ lock = proc[p].op

Kernel == <<target, inodes, sources, ledger, backup, debris, history>>

CallKernel(p, kind, o) ==
    /\ proc[p].pc = "idle"
    /\ auth[o] # NoAuth
    /\ proc' = [proc EXCEPT ![p] = [Resting EXCEPT !.pc = "open", !.kind = kind, !.op = o]]

\* apply and restore load the authorization and check the paths it is bound to.
CallWrite(p, o) ==
    /\ calls < MaxCalls
    /\ calls' = calls + 1
    /\ CallKernel(p, IF o \in ApplyOps THEN "apply" ELSE "restore", o)
    /\ UNCHANGED <<Kernel, records, lock, edits, failures>>

CallReconcile(p, o) ==
    /\ CallKernel(p, "reconcile", o)
    /\ UNCHANGED <<Kernel, records, lock, bounds>>

\* Mutant: an existing lock file is not reopened.
OpenLockExclusive(p) ==
    /\ proc[p].pc = "open"
    /\ IF lock = None
       THEN proc' = [proc EXCEPT ![p].pc = "flock", ![p].fd = "current", ![p].created = TRUE]
       ELSE Return(p)
    /\ lock' = IF lock = None THEN "empty" ELSE lock
    /\ UNCHANGED <<Kernel, records, bounds>>

\* O_EXCL creates the lock file without its record, or the existing one is opened.
OpenLock(p) ==
    /\ proc[p].pc = "open"
    /\ proc' = [proc EXCEPT ![p].pc = "flock", ![p].fd = "current",
                            ![p].created = (lock = None)]
    /\ lock' = IF lock = None THEN "empty" ELSE lock
    /\ UNCHANGED <<Kernel, records, bounds>>

\* LOCK_BUSY: a lock file this process has created is removed again.
LockBusy(p) ==
    /\ proc[p].pc = "flock"
    /\ ~FlockFree(p)
    /\ IF proc[p].created /\ proc[p].fd = "current"
       THEN UnlinkBy(p)
       ELSE Return(p) /\ UNCHANGED lock
    /\ UNCHANGED <<Kernel, records, bounds>>

\* The advisory lock is taken without waiting; the creator writes its record.
Flock(p) ==
    /\ proc[p].pc = "flock"
    /\ FlockFree(p)
    /\ lock' = IF proc[p].created /\ proc[p].fd = "current" THEN proc[p].op ELSE lock
    /\ proc' = [proc EXCEPT ![p].pc = "verify", ![p].held = TRUE, ![p].created = FALSE]
    /\ UNCHANGED <<Kernel, records, bounds>>

\* INVALID_LOCK: another operation's record, no record yet, or another file.
LockVerified(p) ==
    /\ proc[p].pc = "verify"
    /\ IF VerifyLock(p) THEN Goto(p, "check") ELSE Return(p)
    /\ UNCHANGED <<Kernel, records, lock, bounds>>

\* The name is unlinked while the lock is held.
ReleaseLock(p) ==
    /\ proc[p].pc = "release"
    /\ IF VerifyLock(p) THEN UnlinkBy(p) ELSE Return(p) /\ UNCHANGED lock
    /\ UNCHANGED <<Kernel, records, bounds>>

----------------------------------------------------------------------------
(* The ledger.                                                             *)

Opened(o) == ledger[o].preflight          \* there are events
Terminal(o) == ledger[o].receipt # None
Undecided(o) == ledger[o].intent /\ ~Terminal(o)

\* _validate_chain's condition on the next event, up to the intent ...
AcceptsBeforeDispatch(l, kind) ==
    CASE kind = "preflight" -> ~l.preflight
      [] kind = "recovery" -> l.preflight /\ ~l.intent /\ ~l.dispatch /\ l.post = None
      [] kind = "manifest" -> l.preflight /\ ~l.manifest /\ ~l.attention
      [] kind = "intent" -> l.manifest /\ ~l.intent /\ ~l.attention
      [] OTHER -> FALSE

\* ... and from the dispatch on; a foreign content forms no valid observation.
AcceptsFromDispatch(l, kind) ==
    CASE kind = "dispatch" -> l.intent /\ ~l.dispatch /\ ~l.attention /\ l.post = None
      [] kind = "attention" -> l.preflight
      [] kind = "match" -> l.intent /\ (l.dispatch \/ l.attention)
      [] kind = "nomatch" -> l.intent
      [] kind = "COMMITTED" -> l.manifest /\ l.intent /\ l.dispatch /\ l.post = "match"
      [] kind = "FAILED_NO_EFFECT" -> l.manifest /\ l.intent /\ l.post = "nomatch"
      [] OTHER -> FALSE

Accepts(o, kind) ==
    /\ ledger[o].receipt = None
    /\ AcceptsBeforeDispatch(ledger[o], kind) \/ AcceptsFromDispatch(ledger[o], kind)

\* _append_event; debris makes every later read of the ledger fail.
Append(o, new) == ledger' = [ledger EXCEPT ![o] = [new EXCEPT !.last = ""]]

\* A caller whose ledger cannot be read keeps the lock file and gives up.
LedgerUnavailable(p) ==
    /\ proc[p].pc \in {"check", "fail"}
    /\ debris[proc[p].op]
    /\ Return(p)
    /\ UNCHANGED <<Kernel, records, lock, bounds>>

\* _handle_operation_failure: the stage file is removed, the reason is recorded
\* once, the lock is released.
CodeOf(p) ==
    LET o == proc[p].op IN
    IF proc[p].code # "" THEN proc[p].code
    ELSE IF ledger[o].dispatch THEN "DISPATCH_OUTCOME_UNKNOWN"
    ELSE IF Opened(o) THEN "EXECUTION_ATTENTION"
    ELSE "EXECUTION_REJECTED"

\* _append_attention
Attention(l, code) == [l EXCEPT !.attention = TRUE, !.last = code]

NeedsAttention(o, code) == Opened(o) /\ ~Terminal(o) /\ ledger[o].last # code

HandleFailure(p) ==
    LET o == proc[p].op IN
    /\ proc[p].pc = "fail"
    /\ ~debris[o]
    /\ ledger' = IF NeedsAttention(o, CodeOf(p))
                 THEN [ledger EXCEPT ![o] = Attention(@, CodeOf(p))]
                 ELSE ledger
    /\ Goto(p, "release")
    /\ UNCHANGED <<target, inodes, sources, backup, debris, history, records, lock, bounds>>

----------------------------------------------------------------------------
(* apply and restore.                                                      *)

Journal == <<target, inodes, sources, backup, debris, history, records, lock, bounds>>

\* _verify_apply_inputs: the proposal is recomputed and the target compared.
ApplyInputsHold(o) == VerifyExecutableProposal(o) /\ target = auth[o].current

\* restore re-reads the backup it restores, which is create-only, and the target.
RestoreInputsHold(o) ==
    /\ \E a \in ApplyOps : backup[a] = auth[o].desired
    /\ target = auth[o].current

\* A recovery before the intent compares an existing backup with the target.
BackupExact(o) == backup[o] \in {NoContent, target.content}

\* Mutant: the recovery does not lift the attention record.
RecoveredRaw(l) == l

\* A PreIntentRecovery is an auditable reset of the barrier before the intent.
Recovered(l) == [l EXCEPT !.attention = FALSE]

\* The common part: a first observation, or the recovery of an interrupted call.
Begin(p, inputsHold) ==
    LET o == proc[p].op  l == ledger[o] IN
    \/ ~inputsHold /\ Raise(p, "") /\ UNCHANGED ledger
    \/ /\ inputsHold /\ ~Opened(o)
       /\ Append(o, [l EXCEPT !.preflight = TRUE])
       /\ proc' = [proc EXCEPT ![p].pc = "backup", ![p].saw = target]
    \/ /\ inputsHold /\ Opened(o) /\ l.intent
       /\ Raise(p, "RECONCILE_REQUIRED") /\ UNCHANGED ledger
    \/ /\ inputsHold /\ Opened(o) /\ ~l.intent
       /\ IF BackupExact(o)
          THEN /\ Append(o, Recovered(l))
               /\ proc' = [proc EXCEPT ![p].pc = "backup", ![p].saw = target]
          ELSE Raise(p, "BACKUP_VERIFY_FAILED") /\ UNCHANGED ledger

CheckApply(p) ==
    LET o == proc[p].op IN
    /\ proc[p].pc = "check" /\ proc[p].kind = "apply" /\ ~debris[o]
    /\ \/ Terminal(o) /\ Raise(p, "ALREADY_TERMINAL") /\ UNCHANGED ledger
       \/ ~Terminal(o) /\ Begin(p, ApplyInputsHold(o))
    /\ UNCHANGED Journal

\* restore refuses as soon as there is an intent.
CheckRestore(p) ==
    LET o == proc[p].op IN
    /\ proc[p].pc = "check" /\ proc[p].kind = "restore" /\ ~debris[o]
    /\ \/ ledger[o].intent /\ Raise(p, "RECONCILE_REQUIRED") /\ UNCHANGED ledger
       \/ ~ledger[o].intent /\ Begin(p, RestoreInputsHold(o))
    /\ UNCHANGED Journal

\* _ensure_backup publishes the bytes that were read, or accepts the same bytes.
EnsureBackup(p) ==
    LET o == proc[p].op  before == proc[p].saw.content IN
    /\ proc[p].pc = "backup"
    /\ IF backup[o] \in {NoContent, before}
       THEN Goto(p, "manifest") /\ backup' = [backup EXCEPT ![o] = before]
       ELSE Raise(p, "BACKUP_VERIFY_FAILED") /\ UNCHANGED backup
    /\ UNCHANGED <<target, inodes, sources, ledger, debris, history, records, lock, bounds>>

RecordManifest(p) ==
    LET o == proc[p].op IN
    /\ proc[p].pc = "manifest"
    /\ IF ledger[o].manifest THEN UNCHANGED ledger
       ELSE Append(o, [ledger[o] EXCEPT !.manifest = TRUE])
    /\ Goto(p, "intent")
    /\ UNCHANGED Journal

RecordIntent(p) ==
    LET o == proc[p].op IN
    /\ proc[p].pc = "intent"
    /\ Append(o, [ledger[o] EXCEPT !.intent = TRUE])
    /\ Goto(p, "stage")
    /\ UNCHANGED Journal

\* The desired bytes are staged beside the target, which must not have changed.
Stage(p) ==
    /\ proc[p].pc = "stage"
    /\ proc' = [proc EXCEPT
                  ![p].pc = IF target = proc[p].saw THEN "dispatch" ELSE "fail",
                  ![p].code = CASE target = proc[p].saw -> ""
                                [] target = Gone -> ""
                                [] OTHER -> "EXTERNAL_DRIFT_BLOCKED"]
    /\ UNCHANGED <<ledger, Journal>>

RecordDispatch(p) ==
    LET o == proc[p].op IN
    /\ proc[p].pc = "dispatch"
    /\ Append(o, [ledger[o] EXCEPT !.dispatch = TRUE])
    /\ Goto(p, "replace")
    /\ UNCHANGED Journal

\* Mutant: the target is not looked at again before os.replace.
UnchangedBlind(p) == target # Gone

\* _validate_immediate_replace_state
Unchanged(p) == target = proc[p].saw

\* The last look at the target; what happens to it from here on is not seen.
LastLook(p) ==
    /\ proc[p].pc = "replace"
    /\ IF Unchanged(p) THEN Goto(p, "swap")
       ELSE Raise(p, IF target = Gone THEN "" ELSE "EXTERNAL_DRIFT_BLOCKED")
    /\ UNCHANGED <<ledger, Journal>>

\* os.replace gives the target a new inode, whatever was there.
Replace(p) ==
    LET o == proc[p].op IN
    /\ proc[p].pc = "swap"
    /\ target' = [content |-> auth[o].desired, inode |-> inodes + 1]
    /\ inodes' = inodes + 1
    /\ effects' = [effects EXCEPT ![o] = @ + 1]
    /\ overwrote' = [overwrote EXCEPT ![o] = target.content]
    /\ touched' = [x \in Ops |-> touched[x] \/ (x # o /\ Undecided(x))]
    /\ Goto(p, "observe")
    /\ UNCHANGED <<sources, ledger, backup, debris, missed, records, lock, bounds>>

ReplaceFails(p) ==
    /\ proc[p].pc = "swap"
    /\ failures < MaxFailures
    /\ failures' = failures + 1
    /\ Raise(p, "DISPATCH_OUTCOME_UNKNOWN")
    /\ UNCHANGED <<Kernel, records, lock, edits, calls>>

\* The directory is synchronised; the sync may fail.
FsyncDir(ok) == IF ok THEN UNCHANGED failures ELSE failures < MaxFailures /\ failures' = failures + 1

\* Only the desired or the authorized current bytes form a valid event.
PostOf(o) ==
    IF target.content = auth[o].desired THEN "match"
    ELSE IF target.content = auth[o].current.content THEN "nomatch" ELSE None

\* The post-write observation; only the desired bytes lead on to the receipt.
Observe(p) ==
    LET o == proc[p].op
        match == PostOf(o) = "match"
        known == PostOf(o) # None IN
    /\ proc[p].pc = "observe"
    /\ \E ok \in IF target = Gone THEN {TRUE} ELSE BOOLEAN :
         /\ FsyncDir(ok)
         /\ IF known
            THEN Append(o, [ledger[o] EXCEPT !.post = PostOf(o), !.seen = target])
            ELSE UNCHANGED ledger
         /\ proc' = [proc EXCEPT
               ![p].pc = IF match /\ ok THEN "receipt" ELSE "fail",
               ![p].state = "COMMITTED",
               ![p].code = IF known /\ ~(match /\ ok) THEN "EFFECT_PRESENT_ATTENTION" ELSE ""]
    /\ UNCHANGED <<target, inodes, sources, backup, debris, history, records, lock,
                   edits, calls>>

\* _receipt looks at the target once more for its mode.
WriteReceipt(p) ==
    LET o == proc[p].op IN
    /\ proc[p].pc = "receipt"
    /\ IF target = Gone THEN Raise(p, "") /\ UNCHANGED ledger
       ELSE /\ Append(o, [ledger[o] EXCEPT !.receipt = proc[p].state])
            /\ Goto(p, "release")
    /\ UNCHANGED Journal

----------------------------------------------------------------------------
(* reconcile.                                                              *)

Reconcile(p) ==
    LET o == proc[p].op  l == ledger[o]  effect == TargetEffect(o) IN
    /\ proc[p].pc = "check" /\ proc[p].kind = "reconcile"
    /\ ~debris[o]
    /\ \/ Terminal(o) /\ Goto(p, "release") /\ UNCHANGED <<ledger, failures>>
       \/ /\ ~Terminal(o) /\ ~(l.manifest /\ l.intent)
          /\ Raise(p, "RECONCILE_REQUIRED") /\ UNCHANGED <<ledger, failures>>
       \/ /\ ~Terminal(o) /\ l.manifest /\ l.intent /\ effect = "unknown"
          /\ Raise(p, "TARGET_OBSERVATION_UNAVAILABLE") /\ UNCHANGED <<ledger, failures>>
       \/ /\ ~Terminal(o) /\ l.manifest /\ l.intent
          /\ effect = "external_drift" \/ (effect = "effect_present" /\ ~l.dispatch)
          /\ Raise(p, "EXTERNAL_DRIFT_BLOCKED") /\ UNCHANGED <<ledger, failures>>
       \/ /\ ~Terminal(o) /\ l.manifest /\ l.intent
          /\ effect = "none" \/ (effect = "effect_present" /\ l.dispatch)
          /\ Append(o, [l EXCEPT !.post = IF effect = "none" THEN "nomatch" ELSE "match",
                                !.seen = target])
          /\ \E ok \in BOOLEAN :
               /\ FsyncDir(ok)
               /\ proc' = [proc EXCEPT
                     ![p].pc = IF ok THEN "receipt" ELSE "fail",
                     ![p].code = IF ok THEN "" ELSE "DIRECTORY_FSYNC_FAILED",
                     ![p].state = IF effect = "none" THEN "FAILED_NO_EFFECT" ELSE "COMMITTED"]
    /\ UNCHANGED <<target, inodes, sources, backup, debris, history, records, lock,
                   edits, calls>>

----------------------------------------------------------------------------
(* The environment.                                                        *)

\* A process has had its last look at the target for o and not yet replaced it.
AtSwap(o) == \E p \in Procs : proc[p].pc = "swap" /\ proc[p].op = o

\* Another program writes the target in place, replaces it or removes it.
EditTarget(file) ==
    /\ edits < MaxEdits
    /\ file # target
    /\ target' = file
    /\ inodes' = IF file.inode > inodes THEN file.inode ELSE inodes
    /\ edits' = edits + 1
    /\ touched' = [o \in Ops |-> touched[o] \/ Undecided(o)]
    /\ missed' = [o \in Ops |-> missed[o] \/ AtSwap(o)]
    /\ UNCHANGED <<sources, ledger, backup, debris, effects, overwrote, records, lock,
                   proc, failures, calls>>

Edits == {Gone} \cup
         {[content |-> Plain(b), inode |-> i] :
             b \in Bases, i \in {inodes + 1} \cup ({target.inode} \ {0})}

\* Another source of the result changes: the result is no longer fresh.
EditSources ==
    /\ edits < MaxEdits
    /\ sources = "fresh"
    /\ sources' = "changed"
    /\ edits' = edits + 1
    /\ UNCHANGED <<target, inodes, ledger, backup, debris, history, records, lock,
                   proc, failures, calls>>

\* A process dies: the kernel frees its flock, its files stay.  Publishing writes
\* a temporary file into the operation directory, which a death may leave there.
Publishing(p) ==
    proc[p].pc \in {"check", "backup", "manifest", "intent", "dispatch", "observe",
                    "receipt", "fail"}

Crash(p) ==
    /\ failures < MaxFailures
    /\ proc[p].pc # "idle"
    /\ failures' = failures + 1
    /\ Return(p)
    /\ debris' \in {debris} \cup
         IF Publishing(p) THEN {[debris EXCEPT ![proc[p].op] = TRUE]} ELSE {}
    /\ UNCHANGED <<target, inodes, sources, ledger, backup, history, records, lock,
                   edits, calls>>

Step(p) ==
    \/ OpenLock(p) \/ LockBusy(p) \/ Flock(p) \/ LockVerified(p) \/ ReleaseLock(p)
    \/ LedgerUnavailable(p) \/ HandleFailure(p)
    \/ CheckApply(p) \/ CheckRestore(p) \/ EnsureBackup(p) \/ RecordManifest(p) \/ RecordIntent(p)
    \/ Stage(p) \/ RecordDispatch(p) \/ LastLook(p) \/ Replace(p) \/ ReplaceFails(p)
    \/ Observe(p) \/ WriteReceipt(p) \/ Reconcile(p)

Next ==
    \/ \E o \in ApplyOps : PrepareApplyPlan(o) \/ CreateExecutableProposal(o)
                           \/ CreateAuthorization(o)
    \/ \E r \in RestoreOps, o \in ApplyOps : CreateRestoreAuthorization(r, o)
    \/ \E p \in Procs, o \in Ops : CallWrite(p, o) \/ CallReconcile(p, o)
    \/ \E p \in Procs : Step(p) \/ Crash(p)
    \/ \E file \in Edits : EditTarget(file)
    \/ EditSources

Spec == Init /\ [][Next]_vars

\* Processes run; an operator keeps reconciling every authorized operation.
Fairness ==
    /\ \A p \in Procs : WF_vars(Step(p))
    /\ \A o \in Ops : SF_vars(\E p \in Procs : CallReconcile(p, o))

FairSpec == Spec /\ Fairness

----------------------------------------------------------------------------
(* Properties.                                                             *)

TypeOK ==
    /\ target \in Files /\ inodes \in 1..MaxInode
    /\ sources \in {"fresh", "changed"}
    /\ plan \in [ApplyOps -> Files] /\ proposal \in [ApplyOps -> Files]
    /\ auth \in [Ops -> [current : Files, desired : Contents \cup {NoContent}]]
    /\ ledger \in [Ops -> Ledgers]
    /\ backup \in [Ops -> Contents \cup {NoContent}]
    /\ debris \in [Ops -> BOOLEAN]
    /\ touched \in [Ops -> BOOLEAN] /\ missed \in [Ops -> BOOLEAN]
    /\ lock \in Ops \cup {None, "empty"}
    /\ proc \in [Procs -> [pc : PCs, kind : {None, "apply", "restore", "reconcile"},
                           op : Ops \cup {None}, fd : {None, "current", "stale"},
                           created : BOOLEAN, held : BOOLEAN, saw : Files,
                           code : Codes, state : {None, "COMMITTED", "FAILED_NO_EFFECT"}]]
    /\ effects \in [Ops -> Nat] /\ overwrote \in [Ops -> Contents \cup {NoContent}]
    /\ edits \in 0..MaxEdits /\ failures \in 0..MaxFailures
    /\ calls \in 0..MaxCalls

\* Single use and backup (apply, restore): through crashes, retries and concurrent
\* callers an authorization replaces the target at most once, only after its
\* dispatch was recorded, and its backup holds the authorized bytes.  Those are the
\* bytes os.replace destroyed, unless another program wrote the target after the
\* last look (_validate_immediate_replace_state): that edit is lost without a copy,
\* and an edit at any earlier moment is not.
OneBackedUpEffect ==
    \A o \in Ops :
        /\ effects[o] <= 1
        /\ effects[o] = 1 => /\ ledger[o].dispatch
                             /\ backup[o] = auth[o].current.content
                             /\ missed[o] \/ overwrote[o] = backup[o]

\* The receipt tells the truth (reconcile, _receipt): unless somebody else wrote
\* the target after the intent, COMMITTED means that os.replace ran and
\* FAILED_NO_EFFECT that it did not and never will.  Somebody else is a person or
\* another operation: two authorizations of one post image are legal, and reconcile
\* knows an effect by its bytes, so it commits an operation whose own os.replace
\* failed when the other one wrote the same bytes.
ReceiptTrue ==
    \A o \in Ops :
        ~touched[o] => /\ ledger[o].receipt = "COMMITTED" => effects[o] = 1
                       /\ ledger[o].receipt = "FAILED_NO_EFFECT" => effects[o] = 0

\* A restore gives back the bytes the apply it follows was authorized to replace,
\* and what it destroys for that is that apply's effect, unless another program
\* wrote the target after the restore's own last look (create_restore_authorization,
\* restore).
RestoreUndoes ==
    \A r \in RestoreOps :
        effects[r] = 1 => \E o \in ApplyOps : /\ effects[o] = 1 \/ touched[o]
                                              /\ auth[r].desired = auth[o].current.content
                                              /\ missed[r] \/ overwrote[r] = auth[o].desired

\* The writer never meets a refusal of its own chain validation (_append_event):
\* whatever crash or attention came before, the event it is about to publish is
\* one _validate_chain accepts, so no operation is stuck on its own ledger.
NextEvent(p) ==
    CASE proc[p].pc = "manifest" /\ ~ledger[proc[p].op].manifest -> {"manifest"}
      [] proc[p].pc = "intent" -> {"intent"}
      [] proc[p].pc = "dispatch" -> {"dispatch"}
      [] proc[p].pc = "observe" -> {"match", "nomatch"}
      [] proc[p].pc = "receipt" -> {proc[p].state}
      [] OTHER -> {}

NeverRefused ==
    \A p \in Procs : \A kind \in NextEvent(p) : Accepts(proc[p].op, kind)

\* An operation with an intent is settled in the end (reconcile) if its target holds
\* one of the two known contents, unless a death left a temporary file in an
\* operation directory or a lock file without its record (those two need a person)
\* or callers collide for ever: the lock has no queue, and two callers can defeat
\* each other when one opens the lock file the other has just created.
NeedsPerson(o) ==
    \/ TargetEffect(o) \in {"unknown", "external_drift"}
    \/ TargetEffect(o) = "effect_present" /\ ~ledger[o].dispatch
    \/ \E q \in Ops : debris[q]
    \/ lock = "empty" /\ \A p \in Procs : ~proc[p].created

IntentSettles ==
    \A o \in Ops :
        \/ ledger[o].intent ~> (Terminal(o) \/ NeedsPerson(o))
        \/ []<>(\E p, q \in Procs : p # q /\ proc[p].pc # "idle" /\ proc[q].pc # "idle")
=============================================================================
