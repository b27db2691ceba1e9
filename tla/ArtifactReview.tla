--------------------------- MODULE ArtifactReview ---------------------------
(***************************************************************************)
(* The end of a Quest whose results a person reviews: the worker freezes   *)
(* the verified files into a manifest, classifies where each came from,    *)
(* and asks for a review; the person retains or discards them.  Retaining  *)
(* checks the files against the manifest; discarding records the intent    *)
(* first and then deletes file by file, which a restart continues.         *)
(*                                                                         *)
(* The workspace is shared with whoever may edit its files.  A hash stands *)
(* for the content.  How the Quest came to its last verification is the    *)
(* matter of QuestExecution; here the worker writes some files and then    *)
(* verifies.  A file that cannot be unlinked, which ends a discard until   *)
(* the next start, is left out.                                            *)
(***************************************************************************)
EXTENDS EventLedger, FiniteSets

CONSTANTS Paths,        \* artifact paths of the Quest
          Contents,     \* contents of files
          Clients,      \* concurrent review requests
          Incomplete,   \* snapshot statuses of a scan that could not be completed
          Baselines,    \* snapshot statuses of the baseline
          InitialFiles, \* workspaces the Quest may start in
          MaxWrites, MaxEdits, MaxCrashes, MaxPauses, MaxRequests, MaxEvents   \* bounds

ASSUME ReviewAssumption ==
    /\ {MaxWrites, MaxEdits, MaxCrashes, MaxPauses, MaxRequests, MaxEvents} \subseteq Nat
    /\ Incomplete \subseteq {"unstable", "unsupported", "limit_exceeded", "unrecoverable"}
    /\ Baselines \subseteq Incomplete \cup {"complete", "legacy_unobserved"}
    /\ InitialFiles \subseteq [Paths -> Contents \cup {"none"}]
    /\ "none" \notin Contents
    /\ {"none", "boot", "saver"} \cap Clients = {}

VARIABLES file,      \* the workspace
          baseline,  \* baseline snapshot, taken before the first tool
          writes,    \* committed write_file actions with their observations
          lease,     \* the worker holds a live execution lease
          worker,    \* the worker: pc, the version it works at, what it froze
          final,     \* final snapshots and provenance rows, once stored
          receipt,   \* v1_artifact_reviews: the decision on record
          lock,      \* _artifact_review_lock
          thread,    \* review requests, the start-up recovery, a paused worker's checkpoint
          touched,   \* history: how often others changed each file
          scanned,   \* history: the same, at the latest scan for a review
          matched,   \* history: files that had their frozen content since the request began
          unlinked,  \* history: files this service deleted
          tampered,  \* history: a file was edited after it was frozen
          edits, crashes, requests

vars == <<ledger, file, baseline, writes, lease, worker, final, receipt, lock, thread,
          touched, scanned, matched, unlinked, tampered, edits, crashes, requests>>

None == "none"
Boot == "boot"
Saver == "saver"
Threads == Clients \cup {Boot, Saver}
Decisions == {"retain", "discard"}
Active == {"running", "verifying"}

NoSnapshot == [status |-> None, entries |-> [p \in Paths |-> None]]
NoItem == [content |-> None, provenance |-> None]
NoManifest == [p \in Paths |-> NoItem]
Items(manifest) == {p \in Paths : manifest[p] # NoItem}

\* The Quest as it is when its worker executes, review configured.
Drafted == [status |-> "running", disposition |-> "pending", pending |-> FALSE,
            paused |-> FALSE, manifest |-> NoManifest]
NoFinal == [snapshot |-> NoSnapshot, provenance |-> [p \in Paths |-> None]]
NoReceipt == [decision |-> None, completed |-> FALSE]
Resting == [pc |-> "idle", decision |-> None, todo |-> {}, version |-> 0, item |-> None]
NoWorker == [pc |-> "gone", version |-> 0, manifest |-> NoManifest, snapshot |-> NoSnapshot]

\* scan_workspace and _result: a snapshot has its entries only when it is complete.
Snapshot(status) ==
    [status |-> status,
     entries |-> IF status = "complete" THEN file ELSE [p \in Paths |-> None]]

\* _normalise_snapshot accepts nothing else.
SnapshotValid(s) ==
    s.status # "complete" => \A p \in Paths : s.entries[p] = None

Init ==
    /\ events = <<>> /\ projection = Drafted /\ checkpoints = {}
    /\ file \in InitialFiles
    /\ baseline \in {Snapshot(s) : s \in Baselines}
    /\ writes = <<>>
    /\ lease = TRUE
    /\ worker = [NoWorker EXCEPT !.pc = "write"]
    /\ final = NoFinal /\ receipt = NoReceipt /\ lock = None
    /\ thread = [t \in Threads |-> Resting]
    /\ touched = [p \in Paths |-> 0] /\ scanned = touched
    /\ matched = {} /\ unlinked = {} /\ tampered = FALSE
    /\ edits = 0 /\ crashes = 0 /\ requests = 0

history == <<touched, scanned, matched, unlinked, tampered>>
bounds == <<edits, crashes, requests>>
Serving == thread[Boot].pc = "idle"

----------------------------------------------------------------------------
(* Provenance.                                                             *)

\* The committed writes of one path, by their place in the order of their events.
Relevant(p) == {i \in DOMAIN writes : writes[i].path = p}

\* current_hash: what the baseline and the first n committed writes left of the file.
Current(p) ==
    LET current[n \in 0..Len(writes)] ==
            IF n = 0 THEN baseline.entries[p]
            ELSE IF writes[n].path = p THEN writes[n].after
            ELSE current[n - 1]
    IN  current

\* Mutated: the chain of observations is not followed.
ChainHoldsAnyway(p) == TRUE

\* Each observation starts from what the previous one left, the first from the baseline.
ChainHolds(p) == \A i \in Relevant(p) : writes[i].before = Current(p)[i - 1]

\* classify_artifact_provenance for a path without a committed write.
Unobserved(p, content) ==
    IF baseline.entries[p] = None THEN "shadow_unobserved_created"
    ELSE IF baseline.entries[p] = content THEN "shadow_existing_unchanged"
    ELSE "shadow_external_drift"

\* ... and for one whose chain of observations is complete.
Observed(p, content) ==
    LET base == baseline.entries[p] IN
    IF base = None THEN "shadow_observed_created"
    ELSE IF base = content /\ \E i \in Relevant(p) : writes[i].after # base
         THEN "shadow_observed_restored"
    ELSE IF \A i \in Relevant(p) : writes[i].before = writes[i].after
         THEN "shadow_observed_unchanged"
    ELSE "shadow_observed_modified"

\* classify_artifact_provenance with a complete baseline, for a file the final scan saw.
ClassifyChain(p, content) ==
    IF Relevant(p) = {} THEN Unobserved(p, content)
    ELSE IF ~ChainHolds(p) THEN "unrecoverable_chain_break"
    ELSE IF Current(p)[Len(writes)] # content THEN "unrecoverable_chain_terminal_mismatch"
    ELSE Observed(p, content)

\* classify_artifact_provenance.
Classify(p, content, snapshot) ==
    IF snapshot.status # "complete" THEN "unrecoverable_final"
    ELSE IF snapshot.entries[p] = None THEN "unrecoverable_final_missing"
    ELSE IF snapshot.entries[p] # content THEN "unrecoverable_final_hash_mismatch"
    ELSE IF baseline.status = "legacy_unobserved" THEN "legacy_unobserved"
    ELSE IF baseline.status # "complete" THEN "unrecoverable_baseline"
    ELSE ClassifyChain(p, content)

ObservedStatuses == {"shadow_observed_created", "shadow_observed_restored",
                     "shadow_observed_unchanged", "shadow_observed_modified"}
Provenances == ObservedStatuses \cup
    {"shadow_unobserved_created", "shadow_existing_unchanged", "shadow_external_drift",
     "unrecoverable_final", "unrecoverable_final_missing", "unrecoverable_final_hash_mismatch",
     "legacy_unobserved", "unrecoverable_baseline", "unrecoverable_chain_break",
     "unrecoverable_chain_terminal_mismatch"}
Shadow == ObservedStatuses \cup {"shadow_unobserved_created", "shadow_existing_unchanged",
                                 "shadow_external_drift"}

\* _insert_artifact_provenance_locked: a row claims an action only for an observed
\* status, and a receipt of that action must say so.
ProvenanceAllowed(p, item, snapshot) ==
    /\ item.provenance \in Shadow => baseline.status = "complete" /\ snapshot.status = "complete"
    /\ item.provenance = "legacy_unobserved" => baseline.status = "legacy_unobserved"
    /\ item.provenance \in ObservedStatuses =>
          \E i \in DOMAIN writes : writes[i].path = p /\ writes[i].after = item.content

----------------------------------------------------------------------------
(* The worker.                                                             *)

\* A tool call that replaces a file, committed with its observation (ToolGateway).
WriteFile(p, c) ==
    /\ worker.pc = "write"
    /\ Len(writes) < MaxWrites
    /\ file' = [file EXCEPT ![p] = c]
    /\ writes' = Append(writes, [path |-> p, before |-> file[p], after |-> c])
    /\ UNCHANGED <<ledger, baseline, lease, worker, final, receipt, lock, thread, history, bounds>>

\* _finalize_quest begins: QuestVerificationStarted at the version the worker knows.
FinalizeQuest ==
    /\ worker.pc = "write"
    /\ ~projection.paused
    /\ Version < MaxEvents
    /\ Append1([status |-> "verifying"])
    /\ worker' = [worker EXCEPT !.pc = "freeze"]
    /\ UNCHANGED <<checkpoints, file, baseline, writes, lease, final, receipt, lock, thread,
                   history, bounds>>

\* _freeze_artifacts: the passing evidence whose file is there to be read.
Freezable(evidence) == {p \in evidence : file[p] # None}

\* The verification passed with this evidence; the state is read again, and the files
\* are read to freeze them.  Without a previewable file the Quest fails.
FreezeArtifacts(evidence) ==
    LET frozen == Freezable(evidence) IN
    /\ worker.pc = "freeze"
    /\ IF frozen = {}
       THEN /\ Version < MaxEvents
            /\ Append1([status |-> "failed", disposition |-> "unavailable"])
            /\ worker' = NoWorker
       ELSE /\ worker' = [worker EXCEPT !.pc = "scan", !.version = Version,
                  !.manifest = [p \in Paths |->
                      IF p \in frozen THEN [content |-> file[p], provenance |-> None]
                      ELSE NoItem]]
            /\ UNCHANGED <<events, projection>>
    /\ UNCHANGED <<checkpoints, file, baseline, writes, lease, final, receipt, lock, thread,
                   history, bounds>>

\* _request_artifact_review_with_provenance: the workspace is scanned a second time,
\* and every item is classified.
ScanAndClassify(status) ==
    LET snapshot == Snapshot(status) IN
    /\ worker.pc = "scan"
    /\ worker' = [worker EXCEPT !.pc = "request", !.snapshot = snapshot,
           !.manifest = [p \in Paths |->
               IF worker.manifest[p] = NoItem THEN NoItem
               ELSE [content |-> worker.manifest[p].content,
                     provenance |-> Classify(p, worker.manifest[p].content, snapshot)]]]
    /\ scanned' = touched
    /\ UNCHANGED <<ledger, file, baseline, writes, lease, final, receipt, lock, thread,
                   touched, matched, unlinked, tampered, bounds>>

\* The final snapshot must contain what the manifest says, or the item must say that it does not.
ManifestMatchesFinal(manifest, snapshot) ==
    \A p \in Items(manifest) :
        snapshot.status = "complete" /\ snapshot.entries[p] # manifest[p].content =>
            manifest[p].provenance \in {"unrecoverable_final_missing",
                                        "unrecoverable_final_hash_mismatch"}

\* The transaction's checks: nothing happened meanwhile, the lease is held, this is the first request.
RequestAllowed ==
    /\ worker.version = Version
    /\ lease
    /\ final = NoFinal

\* Its checks of the manifest against the snapshot and the rows; a failed one ends the Quest.
RequestConsistent ==
    /\ SnapshotValid(worker.snapshot)
    /\ ManifestMatchesFinal(worker.manifest, worker.snapshot)
    /\ \A p \in Items(worker.manifest) :
          ProvenanceAllowed(p, worker.manifest[p], worker.snapshot)

\* request_artifact_review_with_provenance: snapshot, provenance rows and event in one
\* transaction.  A refused worker leaves; nothing else runs the Quest then.
RequestReview ==
    /\ worker.pc = "request"
    /\ worker' = NoWorker
    /\ Version < MaxEvents
    /\ CASE ~RequestAllowed -> UNCHANGED <<events, projection, final, matched>>
         [] RequestAllowed /\ ~RequestConsistent ->
              Append1([status |-> "failed"]) /\ UNCHANGED <<final, matched>>
         [] OTHER ->
              /\ final' = [snapshot |-> worker.snapshot,
                           provenance |-> [p \in Paths |-> worker.manifest[p].provenance]]
              /\ Append1([status |-> "waiting_user", disposition |-> "pending",
                          pending |-> TRUE, manifest |-> worker.manifest])
              /\ matched' = {p \in Paths : file[p] = worker.manifest[p].content}
    /\ UNCHANGED <<checkpoints, file, baseline, writes, lease, receipt, lock, thread, touched,
                   scanned, unlinked, tampered, bounds>>

\* The lease runs out under a worker stalled before its last transaction.
LoseLease ==
    /\ lease /\ worker.pc = "request"
    /\ lease' = FALSE
    /\ UNCHANGED <<ledger, file, baseline, writes, worker, final, receipt, lock, thread,
                   history, bounds>>

\* pause_quest on an active Quest: an event between the worker's reads and its writes.
PauseQuest ==
    /\ Serving
    /\ Version < MaxEvents
    /\ projection.status \in Active /\ ~projection.paused
    /\ Cardinality({i \in DOMAIN events : "paused" \in DOMAIN events[i]}) < MaxPauses
    /\ Append1([paused |-> TRUE])
    /\ UNCHANGED <<checkpoints, file, baseline, writes, lease, worker, final, receipt, lock,
                   thread, history, bounds>>

\* The worker's loop finds the pause: QuestPaused, and then a checkpoint.
PauseWorker ==
    /\ worker.pc = "write"
    /\ projection.paused
    /\ thread[Saver].pc = "idle"
    /\ Version < MaxEvents
    /\ Append1([status |-> "paused", paused |-> FALSE])
    /\ worker' = NoWorker
    /\ lease' = FALSE
    /\ thread' = [thread EXCEPT ![Saver].pc = "read"]
    /\ UNCHANGED <<checkpoints, file, baseline, writes, final, receipt, lock, history, bounds>>

\* resume_quest of a paused Quest: replay and checkpoint must agree, then a worker starts again.
ResumeQuest ==
    /\ Serving
    /\ Version + 1 < MaxEvents
    /\ projection.status = "paused"
    /\ worker.pc = "gone"
    /\ checkpoints # {} => ValidateCheckpoint(Drafted)
    /\ Append2([status |-> "recovering", paused |-> FALSE], [status |-> "running"])
    /\ worker' = [NoWorker EXCEPT !.pc = "write"]
    /\ lease' = TRUE
    /\ UNCHANGED <<checkpoints, file, baseline, writes, final, receipt, lock, thread, history, bounds>>

----------------------------------------------------------------------------
(* Review requests.                                                        *)

Goto(t, pc) == thread' = [thread EXCEPT ![t].pc = pc]
Leave(t) ==
    /\ thread' = [thread EXCEPT ![t] = Resting]
    /\ lock' = IF lock = t THEN None ELSE lock

\* review_artifacts takes the lock; the request names a review that was asked for.
ReviewArtifacts(t, decision) ==
    /\ Serving
    /\ Items(projection.manifest) # {}
    /\ requests < MaxRequests
    /\ thread[t].pc = "idle" /\ lock = None
    /\ lock' = t
    /\ thread' = [thread EXCEPT ![t] = [Resting EXCEPT !.pc = "look", !.decision = decision]]
    /\ requests' = requests + 1
    /\ matched' = {p \in Paths : file[p] = projection.manifest[p].content}
    /\ UNCHANGED <<ledger, file, baseline, writes, lease, worker, final, receipt, touched,
                   scanned, unlinked, tampered, edits, crashes>>

\* A decision is on record: the same decision again continues a discard, another conflicts.
ReviewAgain(t) ==
    /\ thread[t].pc = "look"
    /\ receipt # NoReceipt
    /\ IF receipt.decision = "discard" /\ thread[t].decision = "discard"
          /\ projection.status = "discarding"
       THEN /\ thread' = [thread EXCEPT ![t].pc = "delete", ![t].todo = Items(projection.manifest)]
            /\ UNCHANGED lock
       ELSE Leave(t)
    /\ UNCHANGED <<ledger, file, baseline, writes, lease, worker, final, receipt, history, bounds>>

ReviewPending == projection.status = "waiting_user" /\ projection.pending

\* The first decision: to retain, every file is verified first.
ReviewFirst(t) ==
    /\ thread[t].pc = "look"
    /\ receipt = NoReceipt
    /\ IF ReviewPending
       THEN /\ thread' = [thread EXCEPT
                   ![t].pc = IF thread[t].decision = "retain" THEN "verify" ELSE "begin",
                   ![t].todo = Items(projection.manifest),
                   ![t].version = Version]
            /\ UNCHANGED lock
       ELSE Leave(t)
    /\ UNCHANGED <<ledger, file, baseline, writes, lease, worker, final, receipt, history, bounds>>

\* Mutated: the file is only looked for.
ItemIntactLoosely(p) == file[p] # None

\* _verified_artifact_path, and the provenance row that the item refers to.
ItemIntact(p) ==
    /\ file[p] = projection.manifest[p].content
    /\ final.provenance[p] = projection.manifest[p].provenance

\* _verify_artifact_manifest, one item at a time; a changed file ends the request.
VerifyItem(t, p) ==
    /\ thread[t].pc = "verify"
    /\ p \in thread[t].todo
    /\ IF ItemIntact(p)
       THEN /\ thread' = [thread EXCEPT ![t].todo = @ \ {p},
                          ![t].pc = IF thread[t].todo = {p} THEN "begin" ELSE "verify"]
            /\ UNCHANGED lock
       ELSE Leave(t)
    /\ UNCHANGED <<ledger, file, baseline, writes, lease, worker, final, receipt, history, bounds>>

\* begin_artifact_review: the receipt and its events in one transaction.
BeginReview(t) ==
    /\ thread[t].pc = "begin"
    /\ Version + 1 < MaxEvents
    /\ IF receipt # NoReceipt \/ thread[t].version # Version
       THEN /\ Leave(t)
            /\ UNCHANGED <<events, projection, receipt>>
       ELSE /\ receipt' = [decision |-> thread[t].decision, completed |-> FALSE]
            /\ UNCHANGED lock
            /\ IF thread[t].decision = "retain"
               THEN /\ Append2([disposition |-> "retained", pending |-> FALSE],
                               [status |-> "completed"])
                    /\ Goto(t, "read")
               ELSE /\ Append1([status |-> "discarding", disposition |-> "discarding",
                                pending |-> FALSE])
                    /\ thread' = [thread EXCEPT ![t].pc = "delete",
                                                ![t].todo = Items(projection.manifest)]
    /\ UNCHANGED <<checkpoints, file, baseline, writes, lease, worker, final, history, bounds>>

\* save_checkpoint: the row is read (the state at a version is fixed), then stored.
ReadRow(t) ==
    /\ thread[t].pc = "read"
    /\ thread' = [thread EXCEPT ![t].pc = "checkpoint", ![t].version = Row.version]
    /\ UNCHANGED <<ledger, file, baseline, writes, lease, worker, final, receipt, lock, history, bounds>>

\* Mutated: the checkpoint is stored under the version the Quest has by then.
CheckpointRowLate(t) ==
    [version |-> Version, state |-> ReplayFrom(0, Drafted)[thread[t].version]]

\* The row that was read: the state its version had.
CheckpointRow(t) ==
    [version |-> thread[t].version, state |-> ReplayFrom(0, Drafted)[thread[t].version]]

StoreCheckpoint(t) ==
    /\ thread[t].pc = "checkpoint"
    /\ SaveCheckpoint(CheckpointRow(t))
    /\ Leave(t)
    /\ UNCHANGED <<events, projection, file, baseline, writes, lease, worker, final, receipt,
                   history, bounds>>

\* _discard_artifacts: an absent file is skipped; one that is not as frozen ends the request.
CheckItem(t, p) ==
    /\ thread[t].pc = "delete"
    /\ p \in thread[t].todo
    /\ CASE file[p] = None ->
              thread' = [thread EXCEPT ![t].todo = @ \ {p}] /\ UNCHANGED lock
         [] file[p] # None /\ file[p] = projection.manifest[p].content ->
              thread' = [thread EXCEPT ![t].pc = "unlink", ![t].item = p] /\ UNCHANGED lock
         [] OTHER -> Leave(t)
    /\ UNCHANGED <<ledger, file, baseline, writes, lease, worker, final, receipt, history, bounds>>

UnlinkItem(t) ==
    LET p == thread[t].item IN
    /\ thread[t].pc = "unlink"
    /\ file' = [file EXCEPT ![p] = None]
    /\ unlinked' = unlinked \cup {p}
    /\ thread' = [thread EXCEPT ![t].pc = "delete", ![t].todo = @ \ {p},
                                ![t].item = None]
    /\ UNCHANGED <<ledger, baseline, writes, lease, worker, final, receipt, lock, touched,
                   scanned, matched, tampered, bounds>>

\* Mutated: the discard is finished although files remain.
DeletedEarly(t) == TRUE

\* Every item of the manifest has been dealt with.
AllDeleted(t) == thread[t].todo = {}

\* finalize_artifact_discard: event and receipt in one transaction, if still discarding.
FinalizeDiscard(t) ==
    /\ thread[t].pc = "delete"
    /\ AllDeleted(t)
    /\ Version < MaxEvents
    /\ IF projection.status = "discarding" /\ ~receipt.completed
       THEN /\ Append1([status |-> "failed", disposition |-> "discarded"])
            /\ receipt' = [receipt EXCEPT !.completed = TRUE]
       ELSE UNCHANGED <<events, projection, receipt>>
    /\ Leave(t)
    /\ UNCHANGED <<checkpoints, file, baseline, writes, lease, worker, final, history, bounds>>

----------------------------------------------------------------------------
(* The surroundings.                                                       *)

\* Somebody edits or deletes a file of the workspace.
ExternalEdit(p, c) ==
    /\ edits < MaxEdits
    /\ file[p] # c
    /\ file' = [file EXCEPT ![p] = c]
    /\ touched' = [touched EXCEPT ![p] = @ + 1]
    /\ tampered' = (tampered \/ projection.manifest[p] # NoItem \/ worker.manifest[p] # NoItem)
    /\ matched' = IF c = projection.manifest[p].content THEN matched \cup {p} ELSE matched
    /\ edits' = edits + 1
    /\ UNCHANGED <<ledger, baseline, writes, lease, worker, final, receipt, lock, thread,
                   scanned, unlinked, crashes, requests>>

\* _recover_interrupted for this Quest: an open discard is continued before anything is
\* served; an interrupted worker leaves the Quest paused, with a checkpoint.
Interrupted ==
    IF projection.status \in Active
    THEN /\ Append1([status |-> "paused", paused |-> FALSE])
         /\ checkpoints' = checkpoints \cup
               {[version |-> Version + 1,
                 state |-> Apply(projection, [status |-> "paused", paused |-> FALSE])]}
    ELSE UNCHANGED ledger

\* Mutated: an open discard is left to the user.
BootNothing == Resting

\* What the start-up recovery has to do.
BootWork ==
    IF projection.status = "discarding"
    THEN [Resting EXCEPT !.pc = "delete", !.todo = Items(projection.manifest)]
    ELSE Resting

CrashAndRestart ==
    /\ crashes < MaxCrashes
    /\ Version < MaxEvents
    /\ crashes' = crashes + 1
    /\ worker' = NoWorker
    /\ lease' = FALSE
    /\ lock' = None
    /\ thread' = [t \in Threads |-> IF t = Boot THEN BootWork ELSE Resting]
    /\ Interrupted
    /\ UNCHANGED <<file, baseline, writes, final, receipt, history, edits, requests>>

DiscardStep(t) ==
    \/ \E p \in Paths : CheckItem(t, p)
    \/ UnlinkItem(t)
    \/ FinalizeDiscard(t)

RequestStep(t) ==
    \/ ReviewAgain(t)
    \/ ReviewFirst(t)
    \/ \E p \in Paths : VerifyItem(t, p)
    \/ BeginReview(t)

CheckpointStep(t) == ReadRow(t) \/ StoreCheckpoint(t)

WorkerStep ==
    \/ FinalizeQuest
    \/ \E evidence \in SUBSET Paths : FreezeArtifacts(evidence)
    \/ \E status \in Incomplete \cup {"complete"} : ScanAndClassify(status)
    \/ RequestReview

Next ==
    \/ WorkerStep
    \/ \E p \in Paths, c \in Contents : WriteFile(p, c)
    \/ LoseLease
    \/ PauseQuest
    \/ PauseWorker
    \/ ResumeQuest
    \/ \E t \in Clients, d \in Decisions : ReviewArtifacts(t, d)
    \/ \E t \in Clients : RequestStep(t)
    \/ \E t \in Clients \cup {Boot} : DiscardStep(t)
    \/ \E t \in Clients \cup {Saver} : CheckpointStep(t)
    \/ \E p \in Paths, c \in Contents \cup {None} : ExternalEdit(p, c)
    \/ CrashAndRestart

Spec == Init /\ [][Next]_vars

\* Threads of the server keep running, the start-up recovery among them.
FairSpec ==
    /\ Spec
    /\ \A t \in Clients : WF_vars(RequestStep(t))
    /\ \A t \in Clients \cup {Boot} : WF_vars(DiscardStep(t))

----------------------------------------------------------------------------
(* Properties.                                                             *)

\* Whatever pauses, resumes and crashes happen around it, every stored checkpoint is the
\* state its version had, and replaying from it gives what readers see.
CheckpointsTrue == CheckpointsReplay(Drafted)

\* What the provenance of a manifest item claims is so.  A single outside change between
\* the baseline and the final scan is never hidden under an observed or unchanged file; what
\* is called created or drifted without an action, or a broken chain, had one.  An observed
\* file has the bytes its last committed write left, and the final scan saw them.
ProvenanceTrue ==
    \A p \in Items(projection.manifest) :
        LET item == projection.manifest[p] IN
        /\ item.provenance \in ObservedStatuses =>
              /\ scanned[p] # 1
              /\ \E i \in Relevant(p) : /\ writes[i].after = item.content
                                       /\ \A j \in Relevant(p) : j <= i
              /\ final.snapshot.entries[p] = item.content
        /\ item.provenance = "shadow_existing_unchanged" =>
              scanned[p] # 1 /\ baseline.entries[p] = item.content
        /\ item.provenance \in {"shadow_unobserved_created", "shadow_external_drift",
                                "unrecoverable_chain_break"} => scanned[p] > 0

\* A Quest completes by review only when every frozen file still had its frozen content
\* while the review that retained it was under way, and it has not been deleted by the service.
RetainedAsFrozen ==
    [][projection'.status = "completed" /\ projection.status # "completed" =>
          /\ Items(projection.manifest) \subseteq matched
          /\ unlinked = {}
          /\ receipt'.decision = "retain"]_vars

\* Files are deleted only on a recorded decision to discard, and a Quest is recorded as
\* discarded only when each of its files was deleted, by the service unless somebody else got there first.
DeletedOnDecision ==
    /\ unlinked # {} => receipt.decision = "discard"
    /\ projection.disposition = "discarded" =>
          /\ receipt.completed
          /\ \A p \in Items(projection.manifest) : p \in unlinked \/ tampered

\* A recorded discard is carried out: by the request, by a later one or by the next
\* start of the service, unless somebody changed a frozen file.
DiscardFinishes ==
    projection.status = "discarding" ~> projection.disposition = "discarded" \/ tampered
=============================================================================
