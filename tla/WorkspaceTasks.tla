--------------------------- MODULE WorkspaceTasks ---------------------------
(***************************************************************************)
(* Authoring of one local workspace task: a draft over chosen sources, a   *)
(* result generated after confirmation, exports, and the handoff to the    *)
(* controlled write.  Nothing is kept in memory: requests, intents,        *)
(* outputs, receipts and the binding are files, each created once under a  *)
(* name that follows from its content or its slot.  The task lock is one   *)
(* per process, so servers on one work root interleave between files;      *)
(* within a process an operation runs alone.                               *)
(*                                                                         *)
(* A document (draft, result, export) is known by the versions of the      *)
(* sources it was made from, 0 for a source it does not use.  Generation   *)
(* and rendering are deterministic, so a result is as its draft.           *)
(*                                                                         *)
(* An unlink or a read that fails without a crash, after which publishing  *)
(* takes its file back or asks for attention, is left out.                 *)
(***************************************************************************)
EXTENDS Integers, FiniteSets, Sequences

CONSTANTS Procs,       \* server processes on the work root
          Sources,     \* source files of the material root
          Target,      \* the source a handoff may later replace
          Selections,  \* choices of sources a user may make
          Keys,        \* idempotency keys of generations and exports
          Formats,     \* export operations
          MaxEdits, MaxCrashes, MaxCalls    \* bounds

ASSUME TasksAssumption ==
    /\ Target \in Sources
    /\ Selections \subseteq SUBSET Sources \ {{}}
    /\ Formats \cap {"draft", "generate", "none"} = {}
    /\ {MaxEdits, MaxCrashes, MaxCalls} \subseteq Nat

VARIABLES material,   \* version of each source
          catalogs,   \* published catalogs: the material they describe
          requests, intents, receipts,   \* published records
          output,     \* per operation the document in its slot, NoDoc before
          binding,    \* at most one authoring binding
          plan,       \* the version of the target an apply plan and proposal exist for
          handoff,    \* at most one controlled handoff
          torn,       \* kinds with a file left under two names by a crash
          proc,       \* what each process is doing
          edits, crashes, calls

vars == <<material, catalogs, requests, intents, receipts, output, binding, plan, handoff,
          torn, proc, edits, crashes, calls>>
records == <<catalogs, requests, intents, receipts, output, binding, handoff>>
bounds == <<edits, crashes, calls>>

Ops == {"draft", "generate"} \cup Formats
NoDoc == [s \in Sources |-> 0]
NoRequest == [op |-> "none", key |-> "none", of |-> NoDoc, sel |-> {}]
Idle == [pc |-> "idle", op |-> "none", request |-> NoRequest, kind |-> "none", next |-> "none"]

Init ==
    /\ material = [s \in Sources |-> 1]
    /\ catalogs = {} /\ requests = {} /\ intents = {} /\ receipts = {}
    /\ output = [op \in Ops |-> NoDoc]
    /\ binding = {} /\ plan = 0 /\ handoff = {} /\ torn = {}
    /\ proc = [p \in Procs |-> Idle]
    /\ edits = 0 /\ crashes = 0 /\ calls = 0

----------------------------------------------------------------------------
(* Reading.                                                                *)

\* A file has two names between link and unlink; _safe_read refuses it.
TwoNames(kind) ==
    \/ kind \in torn
    \/ \E p \in Procs : proc[p].pc = "unlink" /\ proc[p].kind = kind

\* The records of a kind are read by going through its whole directory.
Readable(kinds) == \A kind \in kinds : ~TwoNames(kind)

\* load_external_session of an output.
Present(op) == output[op] # NoDoc /\ ~TwoNames(op)

\* _draft_is_fresh and verify_result: the sources used are as they were.
Fresh(doc) == \A s \in Sources : doc[s] # 0 => doc[s] = material[s]

\* create_draft over the current material.
DraftOf(sel) == [s \in Sources |-> IF s \in sel THEN material[s] ELSE 0]

IntentOf(request, parent) == [op |-> request.op, request |-> request, parent |-> parent]

\* _matching_intent: the intents for a slot; more than one is an error.
SlotIntents(op) == {i \in intents : i.op = op}

\* _receipt_for_intent and _verify_receipt_chain: the only intent of the slot has the
\* only receipt, for this document, and its request is there.
ChainHolds(op, doc) ==
    /\ Readable({"requests", "intents", "receipts"})
    /\ \E i \in intents :
          /\ SlotIntents(op) = {i}
          /\ {r \in receipts : r.intent = i} = {[intent |-> i, doc |-> doc]}
          /\ i.request \in requests

BindingOf(di, gi) == [catalog |-> di.parent, draft |-> output["draft"],
                      result |-> output["generate"], draftIntent |-> di, resultIntent |-> gi]

\* verify_authoring_binding.
BindingHolds(b) ==
    /\ b.catalog \in catalogs
    /\ Present("draft") /\ output["draft"] = b.draft
    /\ Present("generate") /\ output["generate"] = b.result
    /\ b.result = b.draft
    /\ Fresh(b.draft) /\ Fresh(b.result)
    /\ Readable({"requests", "intents", "receipts"})
    /\ {b.draftIntent, b.resultIntent} \subseteq intents
    /\ [intent |-> b.draftIntent, doc |-> b.draft] \in receipts
    /\ [intent |-> b.resultIntent, doc |-> b.result] \in receipts
    /\ b.draftIntent.request.of = b.catalog
    /\ b.resultIntent.parent = b.draft /\ b.resultIntent.request.of = b.draft

----------------------------------------------------------------------------
(* Publishing: publish_new_direct_child makes the file under a temporary   *)
(* name, links it to its own, which fails if that exists, and unlinks the  *)
(* temporary one.                                                          *)

Goto(p, pc) == proc' = [proc EXCEPT ![p].pc = pc]
Leave(p) == proc' = [proc EXCEPT ![p] = Idle]

\* The file is there; the temporary name goes in the next step.
Linked(p, kind, next) ==
    proc' = [proc EXCEPT ![p].pc = "unlink", ![p].kind = kind, ![p].next = next]

Unlink(p) ==
    /\ proc[p].pc = "unlink"
    /\ IF proc[p].next = "idle" THEN Leave(p)
       ELSE proc' = [proc EXCEPT ![p].pc = proc[p].next, ![p].kind = "none", ![p].next = "none"]
    /\ UNCHANGED <<material, records, plan, torn, bounds>>

----------------------------------------------------------------------------
(* The operations.                                                         *)

\* _idempotent_request: a request of this operation with this key is on record.
SameKey(op, key) == {r \in requests : r.op = op /\ r.key = key}

\* A replay (or a conflict with it) changes nothing; a new request is published next.
Begin(p, request) ==
    /\ proc[p].pc = "idle"
    /\ calls < MaxCalls
    /\ calls' = calls + 1
    /\ Readable({"requests"})
    /\ IF SameKey(request.op, request.key) # {} THEN Leave(p)
       ELSE proc' = [proc EXCEPT ![p] = [Idle EXCEPT !.pc = "request", !.op = request.op,
                                         !.request = request]]

\* The task is named after the idempotency key of its draft, so all its draft requests share it.
TaskKey == "task"

\* build_catalog walks and hashes the whole material root.
BuildCatalog == material

\* publish_or_load_catalog: a catalog is named by its content.
PublishOrLoadCatalog == catalogs' = catalogs \cup {BuildCatalog}

\* The requests the HTTP layer makes of a payload.
DraftRequest(sel) == [op |-> "draft", key |-> TaskKey, of |-> BuildCatalog, sel |-> sel]
GenerateRequest(key) == [op |-> "generate", key |-> key, of |-> output["draft"], sel |-> {}]
ExportRequest(op, key) == [op |-> op, key |-> key, of |-> output["generate"], sel |-> {}]

\* create_authoring_draft, up to the publication of its request.  The catalog is built
\* and published, and must still describe the material.
CreateAuthoringDraft(p, sel) ==
    /\ PublishOrLoadCatalog
    /\ Begin(p, DraftRequest(sel))
    /\ UNCHANGED <<material, requests, intents, receipts, output, binding, plan, handoff, torn,
                   edits, crashes>>

\* confirm_and_generate: the user confirms the draft on disk.
ConfirmAndGenerate(p, key) ==
    /\ Present("draft")
    /\ Begin(p, GenerateRequest(key))
    /\ UNCHANGED <<material, records, plan, torn, edits, crashes>>

\* _publish_request.
PublishRequest(p) ==
    /\ proc[p].pc = "request"
    /\ IF proc[p].request \in requests
       THEN Leave(p) /\ UNCHANGED requests
       ELSE requests' = requests \cup {proc[p].request} /\ Linked(p, "requests", "intent")
    /\ UNCHANGED <<material, catalogs, intents, receipts, output, binding, plan, handoff, torn, bounds>>

\* The parent an intent names: the catalog, the draft or the result its request is about.
Intended(p) == IntentOf(proc[p].request, proc[p].request.of)

\* The files of an operation, in order.
StageAfter(stage, op) ==
    CASE stage = "intent" -> "output"
      [] stage = "output" -> "receipt"
      [] stage = "receipt" /\ op = "generate" -> "binding"
      [] OTHER -> "idle"

\* _intent.
PublishIntent(p) ==
    /\ proc[p].pc = "intent"
    /\ IF Intended(p) \in intents
       THEN Leave(p) /\ UNCHANGED intents
       ELSE intents' = intents \cup {Intended(p)} /\ Linked(p, "intents", StageAfter("intent", proc[p].op))
    /\ UNCHANGED <<material, catalogs, requests, receipts, output, binding, plan, handoff, torn, bounds>>

\* What the operation makes from the material as it is now; NoDoc when it refuses.
Made(p) ==
    CASE proc[p].op = "draft" -> DraftOf(proc[p].request.sel)
      [] proc[p].op # "draft" /\ Fresh(proc[p].request.of) -> proc[p].request.of
      [] OTHER -> NoDoc

\* create_draft, generate_result, render_export or render_pdf_export, and publication.
PublishOutput(p) ==
    /\ proc[p].pc = "output"
    /\ IF Made(p) = NoDoc \/ output[proc[p].op] # NoDoc
       THEN Leave(p) /\ UNCHANGED output
       ELSE /\ output' = [output EXCEPT ![proc[p].op] = Made(p)]
            /\ Linked(p, proc[p].op, StageAfter("output", proc[p].op))
    /\ UNCHANGED <<material, catalogs, requests, intents, receipts, binding, plan, handoff, torn, bounds>>

\* _receipt for the document this operation published.
PublishReceipt(p) ==
    LET receipt == [intent |-> Intended(p), doc |-> output[proc[p].op]] IN
    /\ proc[p].pc = "receipt"
    /\ IF receipt \in receipts
       THEN Leave(p) /\ UNCHANGED receipts
       ELSE /\ receipts' = receipts \cup {receipt}
            /\ Linked(p, "receipts", StageAfter("receipt", proc[p].op))
    /\ UNCHANGED <<material, catalogs, requests, intents, output, binding, plan, handoff, torn, bounds>>

\* Mutated: the receipts are not looked for.
BindableUnreceipted(di) ==
    /\ SlotIntents("draft") = {di}
    /\ di.parent \in catalogs

\* The whole chain must be there before it is bound.
Bindable(di) ==
    /\ SlotIntents("draft") = {di}
    /\ Present("draft") /\ ChainHolds("draft", output["draft"])
    /\ di.parent \in catalogs

\* The end of confirm_and_generate.
PublishBinding(p) ==
    /\ proc[p].pc = "binding"
    /\ IF binding = {} /\ \E di \in intents : Bindable(di)
       THEN \E di \in intents :
              /\ Bindable(di)
              /\ binding' = {BindingOf(di, Intended(p))}
              /\ Linked(p, "binding", "idle")
       ELSE Leave(p) /\ UNCHANGED binding
    /\ UNCHANGED <<material, catalogs, requests, intents, receipts, output, plan, handoff, torn, bounds>>

----------------------------------------------------------------------------
(* recover_authoring_state: what the files say, with repairs.              *)

\* Some intent has no output: nothing tells whether the operation may still run.
Unfinished == \E i \in intents : output[i.op] = NoDoc

HasReceipt(op) == \E r \in receipts : r.intent.op = op

Parent(op) == IF op = "draft" THEN "draft" ELSE IF op = "generate" THEN "draft" ELSE "generate"

\* Mutated: an output without a receipt is always left to a person.
ReceiptRepairableNever(op) == FALSE

\* A receipt may be restored for a fresh output of the slot's only intent.
ReceiptRepairable(op) ==
    /\ Cardinality(SlotIntents(op)) = 1
    /\ Present(Parent(op))
    /\ op = "generate" => output["generate"] = output["draft"]
    /\ Fresh(output[IF op \in Formats THEN "generate" ELSE op])

Lacking == {op \in Ops : output[op] # NoDoc /\ ~HasReceipt(op)}

\* The receipt on record belongs to the output, and to a chain that starts at the draft.
Verified(op) ==
    \E r \in receipts :
        /\ r.intent.op = op /\ r.doc = output[op]
        /\ r.intent \in intents /\ r.intent.request \in requests
        /\ op = "generate" => r.intent.parent = output["draft"]

\* _repair_binding_if_complete.
BindingRepairable ==
    /\ Fresh(output["draft"]) /\ Fresh(output["generate"])
    /\ output["generate"] = output["draft"]
    /\ ChainHolds("draft", output["draft"]) /\ ChainHolds("generate", output["generate"])
    /\ \E di \in SlotIntents("draft"), gi \in SlotIntents("generate") :
          di.parent \in catalogs /\ gi.parent = output["draft"]

\* What it answers when nothing interferes, repairs included.
Attention ==
    \/ ~Readable({"requests", "intents", "receipts"})
    \/ \E op \in Ops : output[op] # NoDoc /\ TwoNames(op)
    \/ Unfinished
    \/ \E op \in Lacking : ~ReceiptRepairable(op)
    \/ \E op \in Ops \ Lacking : output[op] # NoDoc /\ ~Verified(op)
    \/ /\ output["generate"] # NoDoc /\ Lacking = {}
       /\ \/ TwoNames("binding")
          \/ \E b \in binding : ~BindingHolds(b)
          \/ binding = {} /\ ~BindingRepairable

\* load_authoring_result: recovery has nothing left to repair.
LoadsResult ==
    /\ Present("generate") /\ Fresh(output["generate"])
    /\ ~Attention /\ Lacking = {} /\ binding # {}

\* export of a verified result.
ExportResult(p, op, key) ==
    /\ LoadsResult
    /\ Begin(p, ExportRequest(op, key))
    /\ UNCHANGED <<material, records, plan, torn, edits, crashes>>

\* It reads the records (the server after each operation and for each question about the
\* state): an answer, or a repair to be made.
RecoverAuthoringState(p) ==
    /\ proc[p].pc \in {"idle", "recover"}
    /\ output["draft"] # NoDoc
    /\ CASE ~Attention /\ Lacking # {} ->
              \E op \in Lacking :
                  proc' = [proc EXCEPT ![p].pc = "repair", ![p].op = op]
         [] ~Attention /\ Lacking = {} /\ output["generate"] # NoDoc /\ binding = {} ->
              Goto(p, "bind")
         [] OTHER -> Leave(p)
    /\ UNCHANGED <<material, records, plan, torn, bounds>>

\* The missing receipt; somebody may have published it, or a second intent, meanwhile.
RepairReceipt(p) ==
    LET op == proc[p].op IN
    /\ proc[p].pc = "repair"
    /\ IF HasReceipt(op) \/ Cardinality(SlotIntents(op)) # 1
       THEN Leave(p) /\ UNCHANGED receipts
       ELSE /\ receipts' = receipts \cup
                  {[intent |-> i, doc |-> output[op]] : i \in SlotIntents(op)}
            /\ Linked(p, "receipts", "recover")
    /\ UNCHANGED <<material, catalogs, requests, intents, output, binding, plan, handoff, torn, bounds>>

RepairBinding(p) ==
    /\ proc[p].pc = "bind"
    /\ IF binding # {} \/ ~BindingRepairable
       THEN Leave(p) /\ UNCHANGED binding
       ELSE /\ binding' = {BindingOf(di, gi) : di \in SlotIntents("draft"),
                                              gi \in SlotIntents("generate")}
            /\ Linked(p, "binding", "idle")
    /\ UNCHANGED <<material, catalogs, requests, intents, receipts, output, plan, handoff, torn, bounds>>

----------------------------------------------------------------------------
(* The handoff.                                                            *)

\* An apply plan and an executable proposal are made for the target as it is.
PreparePlan ==
    /\ binding # {}
    /\ plan # material[Target]
    /\ plan' = material[Target]
    /\ UNCHANGED <<material, records, torn, proc, bounds>>

\* _binding_inputs: the binding verifies, and so do plan and proposal against the target.
HandoffInputs(b) ==
    /\ ~TwoNames("binding")
    /\ BindingHolds(b)
    /\ plan = material[Target]

HandoffOf(b) == [binding |-> b, target |-> material[Target]]

\* create_controlled_handoff makes the record ...
MakeHandoff(p) ==
    /\ proc[p].pc = "idle"
    /\ \E b \in binding : HandoffInputs(b)
    /\ handoff = {}
    /\ Goto(p, "handoff")
    /\ UNCHANGED <<material, records, plan, torn, bounds>>

\* ... again, and publishes it when nothing has changed.
CreateControlledHandoff(p) ==
    /\ proc[p].pc = "handoff"
    /\ IF handoff = {} /\ \E b \in binding : HandoffInputs(b)
       THEN handoff' = {HandoffOf(b) : b \in binding} /\ Linked(p, "handoff", "idle")
       ELSE Leave(p) /\ UNCHANGED handoff
    /\ UNCHANGED <<material, catalogs, requests, intents, receipts, output, binding, plan, torn, bounds>>

----------------------------------------------------------------------------
(* The surroundings.                                                       *)

\* Somebody edits a source.
EditSource(s) ==
    /\ edits < MaxEdits
    /\ edits' = edits + 1
    /\ material' = [material EXCEPT ![s] = @ + 1]
    /\ UNCHANGED <<records, plan, torn, proc, crashes, calls>>

\* A process dies; between link and unlink it leaves a file with two names.
Crash(p) ==
    /\ crashes < MaxCrashes
    /\ proc[p].pc # "idle"
    /\ crashes' = crashes + 1
    /\ torn' = IF proc[p].pc = "unlink" THEN torn \cup {proc[p].kind} ELSE torn
    /\ Leave(p)
    /\ UNCHANGED <<material, records, plan, edits, calls>>

Step(p) ==
    \/ Unlink(p)
    \/ PublishRequest(p)
    \/ PublishIntent(p)
    \/ PublishOutput(p)
    \/ PublishReceipt(p)
    \/ PublishBinding(p)
    \/ RecoverAuthoringState(p)
    \/ RepairReceipt(p)
    \/ RepairBinding(p)
    \/ CreateControlledHandoff(p)

Next ==
    \/ \E p \in Procs, sel \in Selections : CreateAuthoringDraft(p, sel)
    \/ \E p \in Procs, key \in Keys : ConfirmAndGenerate(p, key)
    \/ \E p \in Procs, op \in Formats, key \in Keys : ExportResult(p, op, key)
    \/ \E p \in Procs : Step(p)
    \/ \E p \in Procs : MakeHandoff(p)
    \/ PreparePlan
    \/ \E s \in Sources : EditSource(s)
    \/ \E p \in Procs : Crash(p)

Spec == Init /\ [][Next]_vars

\* A process that runs goes on, and somebody asks for the state of the task again.
FairSpec ==
    /\ Spec
    /\ \A p \in Procs : WF_vars(Step(p))

----------------------------------------------------------------------------
(* Properties.                                                             *)

Used(doc) == {s \in Sources : doc[s] # 0}

(* A receipt is evidence: the intent and the request it names are on        *)
(* record, and the document in the slot is the one it names, made by that   *)
(* request and by no other that raced for the slot.                         *)
ReceiptsHonest ==
    \A r \in receipts :
        /\ r.intent \in intents /\ r.intent.request \in requests
        /\ output[r.intent.op] = r.doc
        /\ IF r.intent.op = "draft" THEN Used(r.doc) = r.intent.request.sel
           ELSE r.doc = r.intent.request.of

(* The records the controlled write starts from are true, also those that   *)
(* recover_authoring_state restored: receipts are, and the binding ties     *)
(* together one catalog, one draft and one result that are on disk and both *)
(* receipted, the result made from that draft; a handoff names that binding *)
(* and a state of the target for which the result was fresh if it uses it.  *)
RecordsHonest ==
    /\ ReceiptsHonest
    /\ Cardinality(binding) <= 1
    /\ \A b \in binding :
          /\ b.catalog \in catalogs /\ b.draftIntent.request.of = b.catalog
          /\ output["draft"] = b.draft /\ output["generate"] = b.result
          /\ b.result = b.draft
          /\ [intent |-> b.draftIntent, doc |-> b.draft] \in receipts
          /\ [intent |-> b.resultIntent, doc |-> b.result] \in receipts
    /\ \A h \in handoff :
          /\ h.binding \in binding
          /\ Target \in Used(h.binding.result) => h.binding.result[Target] = h.target

(* The reasons a task may be left to a person for good: a source was edited *)
(* after it was used, two requests were admitted to one slot, a process     *)
(* died after its intent and before its output (or generation refused), or  *)
(* died with a file under two names.                                        *)
Cause ==
    \/ \E op \in Ops : ~Fresh(output[op])
    \/ \E op \in Ops : Cardinality(SlotIntents(op)) > 1
    \/ Unfinished
    \/ torn # {}

(* recover_authoring_state repairs: a result on disk ends up receipted and  *)
(* bound, also when its process died between output, receipt and binding,   *)
(* or one of those reasons holds.                                           *)
ResultGetsBound ==
    (output["generate"] # NoDoc) ~> (binding # {} \/ Cause)
=============================================================================
