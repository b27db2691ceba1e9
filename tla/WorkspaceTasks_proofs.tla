----------------------- MODULE WorkspaceTasks_proofs -----------------------
(***************************************************************************)
(* The records of an authored task are true for any number of processes,   *)
(* sources, keys and formats, whatever is edited and wherever processes die.*)
(***************************************************************************)
EXTENDS WorkspaceTasks, FiniteSetTheorems, TLAPS

----------------------------------------------------------------------------
(* Types.                                                                  *)

Docs == [Sources -> Nat]
Stages == {"idle", "request", "intent", "output", "receipt", "binding", "recover", "repair",
           "bind", "handoff"}
Kinds == Ops \cup {"none", "requests", "intents", "receipts", "binding", "handoff"}
Requests == [op : Ops \cup {"none"}, key : Keys \cup {"none", TaskKey}, of : Docs, sel : SUBSET Sources]
Intents == [op : Ops \cup {"none"}, request : Requests, parent : Docs]
Receipts == [intent : Intents, doc : Docs]
ProcRecords == [pc : Stages \cup {"unlink"}, op : Ops \cup {"none"}, request : Requests,
                kind : Kinds, next : Stages \cup {"none"}]

TaskType ==
    /\ material \in [Sources -> Nat \ {0}]
    /\ requests \subseteq Requests
    /\ intents \subseteq Intents /\ IsFiniteSet(intents)
    /\ receipts \subseteq Receipts
    /\ output \in [Ops -> Docs]
    /\ proc \in [Procs -> ProcRecords]

(* Where a process stands: while a temporary name is left, where it goes on. *)
Stage(p) == IF proc[p].pc = "unlink" THEN proc[p].next ELSE proc[p].pc

Moves(p, stage, op, request) ==
    /\ proc' \in [Procs -> ProcRecords]
    /\ Stage(p)' = stage /\ proc'[p].op = op /\ proc'[p].request = request
    /\ \A q \in Procs \ {p} : proc'[q] = proc[q]

LEMMA NoDocType == NoDoc \in Docs /\ NoRequest \in Requests /\ Idle \in ProcRecords
<1>1. NoDoc \in Docs
  BY DEF NoDoc, Docs
<1>2. NoRequest \in Requests
  BY <1>1 DEF NoRequest, Requests
<1> QED
  BY <1>1, <1>2 DEF Idle, ProcRecords, Stages, Kinds

LEMMA ProcType ==
    ASSUME TaskType, NEW p \in Procs
    PROVE  /\ proc[p] \in ProcRecords /\ proc[p].request \in Requests
           /\ proc[p].op \in Ops \cup {"none"} /\ proc[p].pc \in Stages \cup {"unlink"}
           /\ proc[p].next \in Stages \cup {"none"}
<1>1. proc[p] \in ProcRecords
  BY DEF TaskType
<1> QED
  BY <1>1 DEF ProcRecords

LEMMA GotoMoves ==
    ASSUME TaskType, NEW p \in Procs, NEW pc \in Stages, Goto(p, pc)
    PROVE  Moves(p, pc, proc[p].op, proc[p].request)
BY DEF TaskType, Goto, Moves, Stage, ProcRecords, Stages

LEMMA LeaveMoves ==
    ASSUME TaskType, NEW p \in Procs, Leave(p)
    PROVE  Moves(p, "idle", "none", NoRequest)
BY NoDocType DEF TaskType, Leave, Moves, Stage, Idle

LEMMA LinkedMoves ==
    ASSUME TaskType, NEW p \in Procs, NEW kind \in Kinds, NEW next \in Stages, Linked(p, kind, next)
    PROVE  Moves(p, next, proc[p].op, proc[p].request)
BY ZenonT(60) DEF TaskType, Linked, Moves, Stage, ProcRecords

LEMMA UnlinkMoves ==
    ASSUME TaskType, NEW p \in Procs, Unlink(p), Stage(p) \in Stages
    PROVE  \/ Moves(p, "idle", "none", NoRequest)
           \/ Moves(p, Stage(p), proc[p].op, proc[p].request)
<1>1. CASE proc[p].next = "idle"
  BY <1>1, LeaveMoves DEF Unlink
<1>2. CASE proc[p].next # "idle"
  BY <1>2 DEF TaskType, Unlink, Moves, Stage, ProcRecords, Stages, Kinds
<1> QED
  BY <1>1, <1>2

LEMMA BeginMoves ==
    ASSUME TaskType, NEW p \in Procs, NEW request \in Requests, Begin(p, request)
    PROVE  \/ Moves(p, "idle", "none", NoRequest)
           \/ Moves(p, "request", request.op, request)
<1>1. CASE SameKey(request.op, request.key) # {}
  BY <1>1, LeaveMoves DEF Begin
<1>2. CASE SameKey(request.op, request.key) = {}
  <2> DEFINE r == [Idle EXCEPT !.pc = "request", !.op = request.op, !.request = request]
  <2>1. request.op \in Ops \cup {"none"}
    BY DEF Requests
  <2>2. r \in ProcRecords /\ r.pc = "request" /\ r.op = request.op /\ r.request = request
    BY <2>1, NoDocType DEF ProcRecords, Stages, Idle
  <2>3. proc' = [proc EXCEPT ![p] = r]
    BY <1>2 DEF Begin
  <2> HIDE DEF r
  <2> QED
    BY <2>2, <2>3 DEF TaskType, Moves, Stage
<1> QED
  BY <1>1, <1>2

----------------------------------------------------------------------------
(* What is on record.                                                      *)

(* The document is what the intent's request asks for.                      *)
MadeBy(intent, doc) ==
    IF intent.op = "draft" THEN Used(doc) = intent.request.sel ELSE doc = intent.request.of

(* A request to generate confirms the draft on disk.                        *)
FromDraft(request) == request.op = "generate" => request.of = output["draft"] /\ request.of # NoDoc

Requested ==
    /\ \A r \in requests : FromDraft(r)
    /\ \A i \in intents : i = IntentOf(i.request, i.request.of) /\ i.request \in requests

(* Every output has an intent that asked for it.                            *)
Asked == \A op \in Ops : output[op] # NoDoc => \E i \in intents : i.op = op /\ MadeBy(i, output[op])

(* What a process has published before it came to a stage.                  *)
HasPublished(stage, op, request) ==
    /\ stage \in {"request", "intent", "output", "receipt", "binding"} =>
          op = request.op /\ op \in Ops /\ FromDraft(request)
    /\ stage \in {"intent", "output", "receipt", "binding"} => request \in requests
    /\ stage \in {"output", "receipt", "binding"} => IntentOf(request, request.of) \in intents
    /\ stage \in {"receipt", "binding"} =>
          output[op] # NoDoc /\ MadeBy(IntentOf(request, request.of), output[op])
    /\ stage = "binding" =>
          op = "generate" /\ [intent |-> IntentOf(request, request.of), doc |-> output[op]] \in receipts
    /\ stage = "repair" => op \in Ops /\ output[op] # NoDoc

Published == \A p \in Procs : Stage(p) \in Stages /\ HasPublished(Stage(p), proc[p].op, proc[p].request)

HonestReceipt(r) ==
    /\ r.intent \in intents /\ r.intent.request \in requests
    /\ output[r.intent.op] = r.doc /\ r.doc # NoDoc /\ r.intent.op \in Ops
    /\ MadeBy(r.intent, r.doc)

HonestBinding(b) ==
    /\ b.catalog \in catalogs /\ b.draftIntent.request.of = b.catalog
    /\ output["draft"] = b.draft /\ output["generate"] = b.result
    /\ b.result = b.draft /\ b.draft # NoDoc
    /\ [intent |-> b.draftIntent, doc |-> b.draft] \in receipts
    /\ [intent |-> b.resultIntent, doc |-> b.result] \in receipts

Honest ==
    /\ \A r \in receipts : HonestReceipt(r)
    /\ \A b \in binding : HonestBinding(b)
    /\ binding = {} \/ \E b : binding = {b}
    /\ \A h \in handoff :
          /\ h.binding \in binding
          /\ h.binding.result[Target] # 0 => h.binding.result[Target] = h.target

TaskInv == TaskType /\ Requested /\ Asked /\ Published /\ Honest

(* Files are created once: records are added, outputs are not replaced.     *)
Grows ==
    /\ catalogs \subseteq catalogs' /\ requests \subseteq requests'
    /\ intents \subseteq intents' /\ receipts \subseteq receipts'
    /\ \A op \in Ops : output[op] # NoDoc => output'[op] = output[op]

LEMMA OpNames == "draft" \in Ops /\ "generate" \in Ops /\ "none" \notin Ops /\ "draft" \notin Formats /\ "generate" \notin Formats
BY TasksAssumption DEF Ops

LEMMA FromDraftKept ==
    ASSUME Grows, NEW r, FromDraft(r)
    PROVE  FromDraft(r)'
BY OpNames DEF Grows, FromDraft

LEMMA PublishedKept ==
    ASSUME Grows, NEW stage, NEW op, NEW request, HasPublished(stage, op, request)
    PROVE  HasPublished(stage, op, request)'
<1>1. stage \in {"request", "intent", "output", "receipt", "binding"} => FromDraft(request)'
  BY FromDraftKept DEF HasPublished
<1>2. stage \in {"receipt", "binding"} => output[op] # NoDoc /\ output'[op] = output[op]
  BY DEF HasPublished, Grows
<1>3. stage = "repair" => output'[op] = output[op]
  BY DEF HasPublished, Grows
<1> QED
  BY <1>1, <1>2, <1>3 DEF HasPublished, Grows, MadeBy

LEMMA HonestReceiptKept ==
    ASSUME Grows, NEW r, HonestReceipt(r)
    PROVE  HonestReceipt(r)'
BY DEF Grows, HonestReceipt, MadeBy

LEMMA HonestBindingKept ==
    ASSUME Grows, NEW b, HonestBinding(b)
    PROVE  HonestBinding(b)'
BY OpNames DEF Grows, HonestBinding

(* A step that publishes nothing but, perhaps, a catalog or a request.      *)
LEMMA MovePublished ==
    ASSUME Published, Grows, NEW p \in Procs, NEW stage \in Stages, NEW op, NEW request,
           Moves(p, stage, op, request), HasPublished(stage, op, request)'
    PROVE  Published'
<1>1. ASSUME NEW q \in Procs \ {p}
      PROVE  Stage(q)' = Stage(q) /\ proc'[q].op = proc[q].op /\ proc'[q].request = proc[q].request
  BY DEF Moves, Stage
<1>2. ASSUME NEW q \in Procs \ {p} PROVE HasPublished(Stage(q), proc[q].op, proc[q].request)'
  <2>1. PICK a, b, c : a = Stage(q) /\ b = proc[q].op /\ c = proc[q].request
    OBVIOUS
  <2>2. HasPublished(a, b, c)
    BY <2>1 DEF Published
  <2>3. HasPublished(a, b, c)'
    BY <2>2, PublishedKept
  <2>4. Stage(q)' = a /\ proc'[q].op = b /\ proc'[q].request = c
    BY <1>1, <2>1
  <2> QED
    BY <2>3, <2>4 DEF HasPublished
<1> QED
  BY <1>1, <1>2 DEF Published, Moves

LEMMA TaskInit == Init => TaskInv
<1> SUFFICES ASSUME Init PROVE TaskInv
  OBVIOUS
<1>1. \A p \in Procs : Stage(p) = "idle"
  BY DEF Init, Idle, Stage
<1>2. TaskType
  BY NoDocType, FS_EmptySet DEF Init, TaskType
<1>3. Requested /\ Honest
  BY DEF Init, Requested, Honest
<1>4. Asked
  BY DEF Init, Asked
<1>5. Published
  BY <1>1 DEF Published, HasPublished, Stages
<1> QED
  BY <1>2, <1>3, <1>4, <1>5 DEF TaskInv

(* A step that records nothing new: a refusal, the end of a publication,    *)
(* a change of the surroundings.                                            *)
LEMMA QuietMove ==
    ASSUME TaskInv, NEW p \in Procs, NEW stage \in Stages, NEW op, NEW request,
           Moves(p, stage, op, request), HasPublished(stage, op, request),
           UNCHANGED <<requests, intents, receipts, output, binding, handoff>>,
           material' \in [Sources -> Nat \ {0}], catalogs \subseteq catalogs'
    PROVE  TaskInv'
<1>1. Grows
  BY DEF Grows
<1>2. TaskType'
  BY DEF TaskInv, TaskType, Moves
<1>3. HasPublished(stage, op, request)'
  BY <1>1, PublishedKept
<1>4. Published'
  BY <1>1, <1>3, MovePublished DEF TaskInv
<1>5. Requested' /\ Asked'
  BY DEF TaskInv, Requested, Asked, FromDraft
<1>6. \A r \in receipts : HonestReceipt(r)'
  BY <1>1, HonestReceiptKept DEF TaskInv, Honest
<1>7. \A b \in binding : HonestBinding(b)'
  BY <1>1, HonestBindingKept DEF TaskInv, Honest
<1>8. Honest'
  BY <1>6, <1>7 DEF TaskInv, Honest
<1> QED
  BY <1>2, <1>4, <1>5, <1>8 DEF TaskInv

LEMMA NothingPublished ==
    \A op, request : HasPublished("idle", op, request) /\ HasPublished("recover", op, request)
        /\ HasPublished("bind", op, request) /\ HasPublished("handoff", op, request)
BY DEF HasPublished

LEMMA LeaveQuietly ==
    ASSUME TaskInv, NEW p \in Procs, Leave(p),
           UNCHANGED <<material, catalogs, requests, intents, receipts, output, binding, handoff>>
    PROVE  TaskInv'
<1>1. Moves(p, "idle", "none", NoRequest)
  BY LeaveMoves DEF TaskInv
<1> QED
  BY <1>1, QuietMove, NothingPublished DEF Stages, TaskInv, TaskType

(* A request is made of what is on disk.                                    *)
LEMMA BeginStep ==
    ASSUME TaskInv, NEW p \in Procs, NEW request \in Requests, Begin(p, request),
           request.op \in Ops, FromDraft(request),
           UNCHANGED <<material, requests, intents, receipts, output, binding, handoff>>,
           catalogs \subseteq catalogs'
    PROVE  TaskInv'
<1>1. HasPublished("request", request.op, request)
  BY DEF HasPublished
<1>2. material' \in [Sources -> Nat \ {0}]
  BY DEF TaskInv, TaskType
<1>3. CASE Moves(p, "idle", "none", NoRequest)
  BY <1>2, <1>3, QuietMove, NothingPublished DEF Stages
<1>4. CASE Moves(p, "request", request.op, request)
  BY <1>1, <1>2, <1>4, QuietMove DEF Stages
<1> QED
  BY <1>3, <1>4, BeginMoves DEF TaskInv

LEMMA RequestsMade ==
    ASSUME TaskInv
    PROVE  /\ \A p \in Procs, sel \in Selections : CreateAuthoringDraft(p, sel) => TaskInv'
           /\ \A p \in Procs, key \in Keys : ConfirmAndGenerate(p, key) => TaskInv'
           /\ \A p \in Procs, op \in Formats, key \in Keys : ExportResult(p, op, key) => TaskInv'
<1>1. ASSUME NEW p \in Procs, NEW sel \in Selections, CreateAuthoringDraft(p, sel) PROVE TaskInv'
  <2>1. DraftRequest(sel) \in Requests /\ DraftRequest(sel).op = "draft"
    <3>1. material \in Docs /\ sel \subseteq Sources
      BY TasksAssumption DEF TaskInv, TaskType, Docs
    <3> QED
      BY <3>1, OpNames DEF DraftRequest, BuildCatalog, Requests
  <2>2. FromDraft(DraftRequest(sel))
    BY <2>1 DEF FromDraft
  <2> QED
    BY <1>1, <2>1, <2>2, OpNames, BeginStep DEF CreateAuthoringDraft, PublishOrLoadCatalog
<1>2. ASSUME NEW p \in Procs, NEW key \in Keys, ConfirmAndGenerate(p, key) PROVE TaskInv'
  <2>1. /\ GenerateRequest(key) \in Requests /\ GenerateRequest(key).op = "generate"
        /\ GenerateRequest(key).of = output["draft"]
    BY OpNames DEF GenerateRequest, Requests, TaskInv, TaskType
  <2>2. FromDraft(GenerateRequest(key))
    BY <1>2, <2>1 DEF FromDraft, ConfirmAndGenerate, Present
  <2> QED
    BY <1>2, <2>1, <2>2, OpNames, BeginStep DEF ConfirmAndGenerate, records
<1>3. ASSUME NEW p \in Procs, NEW op \in Formats, NEW key \in Keys, ExportResult(p, op, key) PROVE TaskInv'
  <2>1. /\ ExportRequest(op, key) \in Requests /\ ExportRequest(op, key).op = op
        /\ op \in Ops /\ op # "generate"
    BY OpNames DEF ExportRequest, Requests, TaskInv, TaskType, Ops
  <2>2. FromDraft(ExportRequest(op, key))
    BY <2>1 DEF FromDraft
  <2> QED
    BY <1>3, <2>1, <2>2, BeginStep DEF ExportResult, records
<1> QED
  BY <1>1, <1>2, <1>3

LEMMA PublishRequestStep == ASSUME TaskInv, NEW p \in Procs, PublishRequest(p) PROVE TaskInv'
<1>1. CASE proc[p].request \in requests
  BY <1>1, LeaveQuietly DEF PublishRequest
<1>2. CASE proc[p].request \notin requests
  <2>1. Stage(p) = "request" /\ proc[p].request \in Requests
    BY ProcType DEF PublishRequest, Stage, TaskInv
  <2>2. HasPublished("request", proc[p].op, proc[p].request)
    BY <2>1 DEF TaskInv, Published
  <2>3. Moves(p, "intent", proc[p].op, proc[p].request)
    BY <1>2, LinkedMoves DEF PublishRequest, TaskInv, Kinds, Stages
  <2>4. requests' = requests \cup {proc[p].request}
        /\ UNCHANGED <<material, catalogs, intents, receipts, output, binding, handoff>>
    BY <1>2 DEF PublishRequest
  <2>5. Grows
    BY <2>4 DEF Grows
  <2>6. TaskType'
    BY <2>1, <2>3, <2>4 DEF TaskInv, TaskType, Moves
  <2>7. FromDraft(proc[p].request)
    BY <2>2 DEF HasPublished
  <2>8. \A r \in requests' : FromDraft(r)
    BY <2>4, <2>7 DEF TaskInv, Requested
  <2>9. Requested'
    BY <2>4, <2>8 DEF TaskInv, Requested, FromDraft
  <2>11. PICK op, request : op = proc[p].op /\ request = proc[p].request
    OBVIOUS
  <2>12. HasPublished("intent", op, request)'
    BY <2>2, <2>4, <2>7, <2>11 DEF HasPublished, FromDraft
  <2>13. Published'
    BY <2>3, <2>5, <2>11, <2>12, MovePublished DEF TaskInv, Stages
  <2>14. Asked'
    BY <2>4 DEF TaskInv, Asked
  <2>15. \A r \in receipts : HonestReceipt(r)'
    BY <2>5, HonestReceiptKept DEF TaskInv, Honest
  <2>16. \A b \in binding : HonestBinding(b)'
    BY <2>5, HonestBindingKept DEF TaskInv, Honest
  <2>17. Honest'
    BY <2>4, <2>15, <2>16 DEF TaskInv, Honest
  <2> QED
    BY <2>6, <2>9, <2>13, <2>14, <2>17 DEF TaskInv
<1> QED
  BY <1>1, <1>2

LEMMA PublishIntentStep == ASSUME TaskInv, NEW p \in Procs, PublishIntent(p) PROVE TaskInv'
<1>1. CASE Intended(p) \in intents
  BY <1>1, LeaveQuietly DEF PublishIntent
<1>2. CASE Intended(p) \notin intents
  <2>1. Stage(p) = "intent" /\ proc[p].request \in Requests
    BY ProcType DEF PublishIntent, Stage, TaskInv
  <2>2. HasPublished("intent", proc[p].op, proc[p].request)
    BY <2>1 DEF TaskInv, Published
  <2>3. StageAfter("intent", proc[p].op) = "output"
    BY DEF StageAfter
  <2>4. Moves(p, "output", proc[p].op, proc[p].request)
    BY <1>2, <2>3, LinkedMoves DEF PublishIntent, TaskInv, Kinds, Stages
  <2>5. intents' = intents \cup {Intended(p)}
        /\ UNCHANGED <<material, catalogs, requests, receipts, output, binding, handoff>>
    BY <1>2 DEF PublishIntent
  <2>6. Grows
    BY <2>5 DEF Grows
  <2>7. /\ Intended(p) \in Intents /\ Intended(p).request = proc[p].request
        /\ Intended(p) = IntentOf(proc[p].request, proc[p].request.of)
    BY <2>1 DEF Intended, IntentOf, Intents, Requests
  <2>8. TaskType'
    BY <2>4, <2>5, <2>7, FS_AddElement DEF TaskInv, TaskType, Moves
  <2>9. proc[p].request \in requests
    BY <2>2 DEF HasPublished
  <2>10. Requested'
    BY <2>5, <2>7, <2>9 DEF TaskInv, Requested, FromDraft
  <2>11. PICK op, request : op = proc[p].op /\ request = proc[p].request
    OBVIOUS
  <2>12. HasPublished("output", op, request)'
    BY <2>2, <2>5, <2>7, <2>11 DEF HasPublished, FromDraft
  <2>13. Published'
    BY <2>4, <2>6, <2>11, <2>12, MovePublished DEF TaskInv, Stages
  <2>14. Asked'
    BY <2>5 DEF TaskInv, Asked
  <2>15. \A r \in receipts : HonestReceipt(r)'
    BY <2>6, HonestReceiptKept DEF TaskInv, Honest
  <2>16. \A b \in binding : HonestBinding(b)'
    BY <2>6, HonestBindingKept DEF TaskInv, Honest
  <2>17. Honest'
    BY <2>5, <2>15, <2>16 DEF TaskInv, Honest
  <2> QED
    BY <2>8, <2>10, <2>13, <2>14, <2>17 DEF TaskInv
<1> QED
  BY <1>1, <1>2

(* What create_draft, generate_result and render_export make is what the    *)
(* request asks for.                                                        *)
LEMMA MadeAsAsked ==
    ASSUME TaskInv, NEW p \in Procs, Made(p) # NoDoc, proc[p].op = proc[p].request.op
    PROVE  Made(p) \in Docs /\ MadeBy(Intended(p), Made(p))
<1>1. proc[p].request \in Requests /\ proc[p].request.of \in Docs /\ proc[p].request.sel \subseteq Sources
  BY ProcType DEF TaskInv, Requests
<1>2. Intended(p).op = proc[p].request.op /\ Intended(p).request = proc[p].request
  BY DEF Intended, IntentOf
<1>3. CASE proc[p].op = "draft"
  <2>1. Made(p) = DraftOf(proc[p].request.sel)
    BY <1>3 DEF Made
  <2>2. DraftOf(proc[p].request.sel) \in Docs
    BY DEF DraftOf, Docs, TaskInv, TaskType
  <2>3. \A s \in Sources : DraftOf(proc[p].request.sel)[s] # 0 <=> s \in proc[p].request.sel
    BY DEF DraftOf, TaskInv, TaskType
  <2>4. Used(DraftOf(proc[p].request.sel)) = proc[p].request.sel
    BY <1>1, <2>3 DEF Used
  <2> QED
    BY <1>2, <1>3, <2>1, <2>2, <2>4 DEF MadeBy
<1>4. CASE proc[p].op # "draft"
  <2>1. Made(p) = proc[p].request.of
    BY <1>4 DEF Made
  <2> QED
    BY <1>1, <1>2, <1>4, <2>1 DEF MadeBy
<1> QED
  BY <1>3, <1>4

LEMMA PublishOutputStep == ASSUME TaskInv, NEW p \in Procs, PublishOutput(p) PROVE TaskInv'
<1>1. CASE Made(p) = NoDoc \/ output[proc[p].op] # NoDoc
  BY <1>1, LeaveQuietly DEF PublishOutput
<1>2. CASE Made(p) # NoDoc /\ output[proc[p].op] = NoDoc
  <2>1. Stage(p) = "output" /\ proc[p].request \in Requests
    BY ProcType DEF PublishOutput, Stage, TaskInv
  <2>2. HasPublished("output", proc[p].op, proc[p].request)
    BY <2>1 DEF TaskInv, Published
  <2>3. StageAfter("output", proc[p].op) = "receipt" /\ proc[p].op \in Ops /\ proc[p].op = proc[p].request.op
    BY <2>2 DEF StageAfter, HasPublished
  <2>4. Moves(p, "receipt", proc[p].op, proc[p].request)
    BY <1>2, <2>3, LinkedMoves DEF PublishOutput, TaskInv, Kinds, Stages
  <2>5. output' = [output EXCEPT ![proc[p].op] = Made(p)]
        /\ UNCHANGED <<material, catalogs, requests, intents, receipts, binding, handoff>>
    BY <1>2 DEF PublishOutput
  <2>6. Made(p) \in Docs /\ MadeBy(Intended(p), Made(p))
    BY <1>2, <2>3, MadeAsAsked
  <2>7. output'[proc[p].op] = Made(p) /\ \A x \in Ops \ {proc[p].op} : output'[x] = output[x]
    BY <2>3, <2>5 DEF TaskInv, TaskType
  <2>8. Grows
    BY <1>2, <2>5, <2>7 DEF Grows
  <2>9. TaskType'
    BY <2>3, <2>4, <2>5, <2>6 DEF TaskInv, TaskType, Moves
  <2>10. Requested'
    <3>1. \A r \in requests : FromDraft(r)'
      BY <2>8, FromDraftKept DEF TaskInv, Requested
    <3> QED
      BY <2>5, <3>1 DEF TaskInv, Requested
  <2>11. Intended(p) \in intents /\ Intended(p).op = proc[p].op
         /\ Intended(p) = IntentOf(proc[p].request, proc[p].request.of)
    BY <2>2, <2>3 DEF HasPublished, Intended, IntentOf
  <2>12. Asked'
    BY <2>5, <2>6, <2>7, <2>11 DEF TaskInv, Asked
  <2>13. PICK op, request : op = proc[p].op /\ request = proc[p].request
    OBVIOUS
  <2>14. FromDraft(request)'
    BY <2>2, <2>8, <2>13, FromDraftKept DEF HasPublished
  <2>15. HasPublished("receipt", op, request)'
    BY <1>2, <2>2, <2>5, <2>6, <2>7, <2>11, <2>13, <2>14 DEF HasPublished
  <2>16. Published'
    BY <2>4, <2>8, <2>13, <2>15, MovePublished DEF TaskInv, Stages
  <2>17. \A r \in receipts : HonestReceipt(r)'
    BY <2>8, HonestReceiptKept DEF TaskInv, Honest
  <2>18. \A b \in binding : HonestBinding(b)'
    BY <2>8, HonestBindingKept DEF TaskInv, Honest
  <2>19. Honest'
    BY <2>5, <2>17, <2>18 DEF TaskInv, Honest
  <2> QED
    BY <2>9, <2>10, <2>12, <2>16, <2>19 DEF TaskInv
<1> QED
  BY <1>1, <1>2

(* Receipts that are true are added.                                        *)
LEMMA ReceiptsAdded ==
    ASSUME TaskInv, NEW new, new \subseteq Receipts, receipts' = receipts \cup new,
           \A r \in new : HonestReceipt(r),
           UNCHANGED <<material, catalogs, requests, intents, output, binding, handoff>>,
           proc' \in [Procs -> ProcRecords], Published'
    PROVE  TaskInv'
<1>1. Grows
  BY DEF Grows
<1>2. TaskType'
  BY DEF TaskInv, TaskType
<1>3. Requested' /\ Asked'
  BY DEF TaskInv, Requested, Asked, FromDraft
<1>4. \A r \in receipts \cup new : HonestReceipt(r)'
  BY <1>1, HonestReceiptKept DEF TaskInv, Honest
<1>5. \A b \in binding : HonestBinding(b)'
  BY <1>1, HonestBindingKept DEF TaskInv, Honest
<1>6. Honest'
  BY <1>4, <1>5 DEF TaskInv, Honest
<1> QED
  BY <1>2, <1>3, <1>6 DEF TaskInv

LEMMA PublishReceiptStep == ASSUME TaskInv, NEW p \in Procs, PublishReceipt(p) PROVE TaskInv'
<1> DEFINE receipt == [intent |-> Intended(p), doc |-> output[proc[p].op]]
<1>1. CASE receipt \in receipts
  BY <1>1, LeaveQuietly DEF PublishReceipt
<1>2. CASE receipt \notin receipts
  <2>1. Stage(p) = "receipt" /\ proc[p].request \in Requests
    BY ProcType DEF PublishReceipt, Stage, TaskInv
  <2>2. HasPublished("receipt", proc[p].op, proc[p].request)
    BY <2>1 DEF TaskInv, Published
  <2>3. /\ proc[p].op \in Ops /\ proc[p].op = proc[p].request.op /\ output[proc[p].op] # NoDoc
        /\ proc[p].request \in requests /\ Intended(p) \in intents
        /\ MadeBy(Intended(p), output[proc[p].op])
        /\ Intended(p).op = proc[p].op /\ Intended(p).request = proc[p].request
    BY <2>2 DEF HasPublished, Intended, IntentOf
  <2>4. receipt \in Receipts /\ receipt.intent = Intended(p) /\ receipt.doc = output[proc[p].op]
    BY <2>3 DEF Receipts, TaskInv, TaskType
  <2>5. HonestReceipt(receipt)
    BY <2>3, <2>4 DEF HonestReceipt
  <2>6. receipts' = receipts \cup {receipt}
        /\ UNCHANGED <<material, catalogs, requests, intents, output, binding, handoff>>
    BY <1>2 DEF PublishReceipt
  <2>7. StageAfter("receipt", proc[p].op) = IF proc[p].op = "generate" THEN "binding" ELSE "idle"
    BY DEF StageAfter
  <2>8. Moves(p, StageAfter("receipt", proc[p].op), proc[p].op, proc[p].request)
    BY <1>2, <2>7, LinkedMoves DEF PublishReceipt, TaskInv, Kinds, Stages
  <2>9. Grows
    BY <2>6 DEF Grows
  <2>10. PICK op, request, doc : op = proc[p].op /\ request = proc[p].request /\ doc = output[proc[p].op]
    OBVIOUS
  <2>11. HasPublished("receipt", op, request)'
    BY <2>2, <2>9, <2>10, PublishedKept
  <2>12. [intent |-> IntentOf(request, request.of), doc |-> output'[op]] \in receipts'
    BY <2>6, <2>10 DEF Intended
  <2>13. op = "generate" => HasPublished("binding", op, request)'
    BY <2>11, <2>12 DEF HasPublished
  <2>14. HasPublished("idle", op, request)'
    BY DEF HasPublished
  <2>15. Published'
    <3>1. CASE op = "generate"
      BY <2>7, <2>8, <2>9, <2>10, <2>13, <3>1, MovePublished DEF TaskInv, Stages
    <3>2. CASE op # "generate"
      BY <2>7, <2>8, <2>9, <2>10, <2>14, <3>2, MovePublished DEF TaskInv, Stages
    <3> QED
      BY <3>1, <3>2
  <2> HIDE DEF receipt
  <2>16. proc' \in [Procs -> ProcRecords]
    BY <2>8 DEF Moves
  <2>17. PICK new : new = {receipt}
    OBVIOUS
  <2>18. new \subseteq Receipts /\ receipts' = receipts \cup new
    BY <2>4, <2>6, <2>17
  <2>19. \A r \in new : HonestReceipt(r)
    BY <2>5, <2>17
  <2> QED
    BY <2>6, <2>15, <2>16, <2>18, <2>19, ReceiptsAdded
<1> QED
  BY <1>1, <1>2

(* A binding over documents that are there and receipted.                   *)
LEMMA BindingMade ==
    ASSUME TaskInv, binding = {}, NEW b, binding' = {b}, HonestBinding(b),
           UNCHANGED <<material, catalogs, requests, intents, receipts, output, handoff>>,
           NEW p \in Procs, NEW op, NEW request, Moves(p, "idle", op, request)
    PROVE  TaskInv'
<1>1. Grows
  BY DEF Grows
<1>2. TaskType'
  BY DEF TaskInv, TaskType, Moves
<1>3. Requested' /\ Asked'
  BY DEF TaskInv, Requested, Asked, FromDraft
<1>4. HasPublished("idle", op, request)'
  BY DEF HasPublished
<1>5. Published'
  BY <1>1, <1>4, MovePublished DEF TaskInv, Stages
<1>6. \A r \in receipts : HonestReceipt(r)'
  BY <1>1, HonestReceiptKept DEF TaskInv, Honest
<1>7. HonestBinding(b)'
  BY <1>1, HonestBindingKept
<1>8. handoff' = {}
  BY DEF TaskInv, Honest
<1>9. Honest'
  BY <1>6, <1>7, <1>8 DEF Honest
<1> QED
  BY <1>2, <1>3, <1>5, <1>9 DEF TaskInv

(* The draft a bindable chain starts from is receipted by the intent that   *)
(* named the catalog.                                                       *)
LEMMA ChainReceipted ==
    ASSUME TaskInv, NEW op, NEW doc, NEW di, SlotIntents(op) = {di}, ChainHolds(op, doc)
    PROVE  [intent |-> di, doc |-> doc] \in receipts /\ di \in intents /\ di.op = op
           /\ di.request.of = di.parent
<1>1. di \in intents /\ di.op = op
  BY DEF SlotIntents
<1>2. PICK i \in intents : SlotIntents(op) = {i}
          /\ {r \in receipts : r.intent = i} = {[intent |-> i, doc |-> doc]}
  BY DEF ChainHolds
<1>3. i = di
  BY <1>2
<1>4. di = IntentOf(di.request, di.request.of)
  BY <1>1 DEF TaskInv, Requested
<1>5. di.parent = di.request.of
  BY <1>4 DEF IntentOf
<1> QED
  BY <1>1, <1>2, <1>3, <1>5

LEMMA PublishBindingStep == ASSUME TaskInv, NEW p \in Procs, PublishBinding(p) PROVE TaskInv'
<1>1. CASE ~(binding = {} /\ \E di \in intents : Bindable(di))
  BY <1>1, LeaveQuietly DEF PublishBinding
<1>2. CASE binding = {} /\ \E di \in intents : Bindable(di)
  <2>1. PICK di \in intents : /\ Bindable(di)
                              /\ binding' = {BindingOf(di, Intended(p))}
                              /\ Linked(p, "binding", "idle")
    BY <1>2 DEF PublishBinding
  <2>2. Stage(p) = "binding"
    BY DEF PublishBinding, Stage
  <2>3. HasPublished("binding", proc[p].op, proc[p].request)
    BY <2>2 DEF TaskInv, Published
  <2>4. Moves(p, "idle", proc[p].op, proc[p].request)
    BY <2>1, LinkedMoves DEF TaskInv, Kinds, Stages
  <2>5. [intent |-> di, doc |-> output["draft"]] \in receipts /\ di.request.of = di.parent
        /\ di.parent \in catalogs
    BY <2>1, ChainReceipted DEF Bindable
  <2>6. /\ proc[p].op = "generate" /\ proc[p].op = proc[p].request.op
        /\ [intent |-> Intended(p), doc |-> output["generate"]] \in receipts
        /\ FromDraft(proc[p].request)
    BY <2>3 DEF HasPublished, Intended
  <2>7. output["generate"] = proc[p].request.of
    BY <2>3, <2>6 DEF HasPublished, MadeBy, IntentOf
  <2>8. output["generate"] = output["draft"] /\ output["draft"] # NoDoc
    BY <2>6, <2>7 DEF FromDraft
  <2>9. HonestBinding(BindingOf(di, Intended(p)))
    BY <2>5, <2>6, <2>8 DEF HonestBinding, BindingOf
  <2>10. UNCHANGED <<material, catalogs, requests, intents, receipts, output, handoff>>
    BY DEF PublishBinding
  <2>11. PICK b : b = BindingOf(di, Intended(p))
    OBVIOUS
  <2>12. HonestBinding(b) /\ binding' = {b}
    BY <2>1, <2>9, <2>11
  <2> QED
    BY <1>2, <2>4, <2>10, <2>12, BindingMade
<1> QED
  BY <1>1, <1>2

LEMMA UnlinkStep == ASSUME TaskInv, NEW p \in Procs, Unlink(p) PROVE TaskInv'
<1>1. Stage(p) \in Stages /\ HasPublished(Stage(p), proc[p].op, proc[p].request)
  BY DEF TaskInv, Published
<1>2. UNCHANGED <<material, catalogs, requests, intents, receipts, output, binding, handoff>>
  BY DEF Unlink, records
<1>3. CASE Moves(p, "idle", "none", NoRequest)
  BY <1>2, <1>3, QuietMove, NothingPublished DEF Stages, TaskInv, TaskType
<1>4. CASE Moves(p, Stage(p), proc[p].op, proc[p].request)
  BY <1>1, <1>2, <1>4, QuietMove DEF TaskInv, TaskType
<1> QED
  BY <1>1, <1>3, <1>4, UnlinkMoves DEF TaskInv

(* Recovery only reads; a repair it decides on is of an output that is there. *)
LEMMA RecoverAuthoringStateStep ==
    ASSUME TaskInv, NEW p \in Procs, RecoverAuthoringState(p) PROVE TaskInv'
<1>1. UNCHANGED <<material, catalogs, requests, intents, receipts, output, binding, handoff>>
  BY DEF RecoverAuthoringState, records
<1>2. CASE \E op \in Lacking : proc' = [proc EXCEPT ![p].pc = "repair", ![p].op = op]
  <2>1. PICK op \in Lacking : proc' = [proc EXCEPT ![p].pc = "repair", ![p].op = op]
    BY <1>2
  <2>2. op \in Ops /\ output[op] # NoDoc
    BY DEF Lacking
  <2>3. Moves(p, "repair", op, proc[p].request)
    BY <2>1, <2>2, ZenonT(60) DEF TaskInv, TaskType, Moves, Stage, ProcRecords, Stages
  <2>4. HasPublished("repair", op, proc[p].request)
    BY <2>2 DEF HasPublished
  <2> QED
    BY <1>1, <2>3, <2>4, QuietMove DEF Stages, TaskInv, TaskType
<1>3. CASE Goto(p, "bind")
  <2>1. Moves(p, "bind", proc[p].op, proc[p].request)
    BY <1>3, GotoMoves DEF Stages, TaskInv
  <2> QED
    BY <1>1, <2>1, QuietMove, NothingPublished DEF Stages, TaskInv, TaskType
<1>4. CASE Leave(p)
  BY <1>1, <1>4, LeaveQuietly
<1> QED
  BY <1>2, <1>3, <1>4 DEF RecoverAuthoringState

(* The only intent of a slot is the one that made the output in it.         *)
LEMMA RepairReceiptStep == ASSUME TaskInv, NEW p \in Procs, RepairReceipt(p) PROVE TaskInv'
<1> DEFINE op == proc[p].op
<1>1. CASE HasReceipt(op) \/ Cardinality(SlotIntents(op)) # 1
  BY <1>1, LeaveQuietly DEF RepairReceipt
<1>2. CASE ~HasReceipt(op) /\ Cardinality(SlotIntents(op)) = 1
  <2>1. Stage(p) = "repair"
    BY DEF RepairReceipt, Stage
  <2>2. op \in Ops /\ output[op] # NoDoc
    BY <2>1 DEF TaskInv, Published, HasPublished
  <2>3. IsFiniteSet(SlotIntents(op))
    BY FS_Subset DEF SlotIntents, TaskInv, TaskType
  <2>4. PICK i : SlotIntents(op) = {i}
    BY <1>2, <2>3, FS_Singleton
  <2>5. PICK j \in intents : j.op = op /\ MadeBy(j, output[op])
    BY <2>2 DEF TaskInv, Asked
  <2>6. i = j
    BY <2>4, <2>5 DEF SlotIntents
  <2>7. PICK r : r = [intent |-> i, doc |-> output[op]]
    OBVIOUS
  <2>8. receipts' = receipts \cup {r}
        /\ UNCHANGED <<material, catalogs, requests, intents, output, binding, handoff>>
    BY <1>2, <2>4, <2>7 DEF RepairReceipt
  <2>9. r \in Receipts /\ i.request \in requests
    BY <2>2, <2>5, <2>6, <2>7 DEF Receipts, TaskInv, TaskType, Requested
  <2>10. HonestReceipt(r)
    BY <2>2, <2>5, <2>6, <2>7, <2>9 DEF HonestReceipt
  <2>11. Moves(p, "recover", proc[p].op, proc[p].request)
    BY <1>2, LinkedMoves DEF RepairReceipt, TaskInv, Kinds, Stages
  <2>12. Grows
    BY <2>8 DEF Grows
  <2>13. PICK o, request : o = proc[p].op /\ request = proc[p].request
    OBVIOUS
  <2>14. HasPublished("recover", o, request)'
    BY DEF HasPublished
  <2>15. Published'
    BY <2>11, <2>12, <2>13, <2>14, MovePublished DEF TaskInv, Stages
  <2>16. proc' \in [Procs -> ProcRecords]
    BY <2>11 DEF Moves
  <2>17. PICK new : new = {r}
    OBVIOUS
  <2>18. new \subseteq Receipts /\ receipts' = receipts \cup new /\ \A x \in new : HonestReceipt(x)
    BY <2>8, <2>9, <2>10, <2>17
  <2> QED
    BY <2>8, <2>15, <2>16, <2>18, ReceiptsAdded
<1> QED
  BY <1>1, <1>2

LEMMA RepairBindingStep == ASSUME TaskInv, NEW p \in Procs, RepairBinding(p) PROVE TaskInv'
<1>1. CASE binding # {} \/ ~BindingRepairable
  BY <1>1, LeaveQuietly DEF RepairBinding
<1>2. CASE binding = {} /\ BindingRepairable
  <2>1. PICK di \in SlotIntents("draft"), gi \in SlotIntents("generate") :
            di.parent \in catalogs /\ gi.parent = output["draft"]
    BY <1>2 DEF BindingRepairable
  <2>2. SlotIntents("draft") = {di} /\ SlotIntents("generate") = {gi}
    BY <1>2, <2>1 DEF BindingRepairable, ChainHolds
  <2>3. [intent |-> di, doc |-> output["draft"]] \in receipts /\ di.request.of = di.parent
    BY <1>2, <2>2, ChainReceipted DEF BindingRepairable
  <2>4. [intent |-> gi, doc |-> output["generate"]] \in receipts
    BY <1>2, <2>2, ChainReceipted DEF BindingRepairable
  <2>5. output["generate"] = output["draft"] /\ output["draft"] # NoDoc
    <3>1. PICK r : r = [intent |-> di, doc |-> output["draft"]]
      OBVIOUS
    <3>2. HonestReceipt(r)
      BY <2>3, <3>1 DEF TaskInv, Honest
    <3> QED
      BY <1>2, <3>1, <3>2 DEF HonestReceipt, BindingRepairable
  <2>6. PICK b : b = BindingOf(di, gi)
    OBVIOUS
  <2>7. HonestBinding(b)
    BY <2>1, <2>3, <2>4, <2>5, <2>6 DEF HonestBinding, BindingOf
  <2>8. binding' = {b}
    BY <1>2, <2>2, <2>6 DEF RepairBinding
  <2>9. Moves(p, "idle", proc[p].op, proc[p].request)
    BY <1>2, LinkedMoves DEF RepairBinding, TaskInv, Kinds, Stages
  <2>10. UNCHANGED <<material, catalogs, requests, intents, receipts, output, handoff>>
    BY DEF RepairBinding
  <2> QED
    BY <1>2, <2>7, <2>8, <2>9, <2>10, BindingMade
<1> QED
  BY <1>1, <1>2

LEMMA MakeHandoffStep == ASSUME TaskInv, NEW p \in Procs, MakeHandoff(p) PROVE TaskInv'
<1>1. Moves(p, "handoff", proc[p].op, proc[p].request)
  BY GotoMoves DEF MakeHandoff, Stages, TaskInv
<1>2. UNCHANGED <<material, catalogs, requests, intents, receipts, output, binding, handoff>>
  BY DEF MakeHandoff, records
<1> QED
  BY <1>1, <1>2, QuietMove, NothingPublished DEF Stages, TaskInv, TaskType

(* The result was fresh for the target the handoff names.                   *)
LEMMA CreateControlledHandoffStep ==
    ASSUME TaskInv, NEW p \in Procs, CreateControlledHandoff(p) PROVE TaskInv'
<1>1. CASE ~(handoff = {} /\ \E b \in binding : HandoffInputs(b))
  BY <1>1, LeaveQuietly DEF CreateControlledHandoff
<1>2. CASE handoff = {} /\ \E b \in binding : HandoffInputs(b)
  <2>1. PICK b \in binding : HandoffInputs(b)
    BY <1>2
  <2>2. binding = {b}
    BY <2>1 DEF TaskInv, Honest
  <2>3. handoff' = {HandoffOf(b)}
        /\ UNCHANGED <<material, catalogs, requests, intents, receipts, output, binding>>
    BY <1>2, <2>2 DEF CreateControlledHandoff
  <2>4. b.result[Target] # 0 => b.result[Target] = material[Target]
    BY <2>1, TasksAssumption DEF HandoffInputs, BindingHolds, Fresh
  <2>5. Moves(p, "idle", proc[p].op, proc[p].request)
    BY <1>2, LinkedMoves DEF CreateControlledHandoff, TaskInv, Kinds, Stages
  <2>6. Grows
    BY <2>3 DEF Grows
  <2>7. TaskType'
    BY <2>3, <2>5 DEF TaskInv, TaskType, Moves
  <2>8. Requested' /\ Asked'
    BY <2>3 DEF TaskInv, Requested, Asked, FromDraft
  <2>9. PICK o, request : o = proc[p].op /\ request = proc[p].request
    OBVIOUS
  <2>10. HasPublished("idle", o, request)'
    BY DEF HasPublished
  <2>11. Published'
    BY <2>5, <2>6, <2>9, <2>10, MovePublished DEF TaskInv, Stages
  <2>12. \A r \in receipts : HonestReceipt(r)'
    BY <2>6, HonestReceiptKept DEF TaskInv, Honest
  <2>13. \A c \in binding : HonestBinding(c)'
    BY <2>6, HonestBindingKept DEF TaskInv, Honest
  <2>14. Honest'
    BY <2>2, <2>3, <2>4, <2>12, <2>13 DEF Honest, HandoffOf
  <2> QED
    BY <2>7, <2>8, <2>11, <2>14 DEF TaskInv
<1> QED
  BY <1>1, <1>2

(* The surroundings touch no record.                                        *)
LEMMA SurroundingsStep ==
    ASSUME TaskInv, UNCHANGED <<records, proc>>, material' \in [Sources -> Nat \ {0}]
    PROVE  TaskInv'
<1>1. UNCHANGED <<catalogs, requests, intents, receipts, output, binding, handoff, proc>>
  BY DEF records
<1>2. TaskType' /\ Requested' /\ Asked'
  BY <1>1 DEF TaskInv, TaskType, Requested, Asked, FromDraft
<1>3. Published'
  BY <1>1 DEF TaskInv, Published, Stage, HasPublished, FromDraft
<1>4. Honest'
  BY <1>1 DEF TaskInv, Honest, HonestReceipt, HonestBinding
<1> QED
  BY <1>2, <1>3, <1>4 DEF TaskInv

LEMMA EditSourceStep == ASSUME TaskInv, NEW s \in Sources, EditSource(s) PROVE TaskInv'
<1>1. material' \in [Sources -> Nat \ {0}]
  BY DEF EditSource, TaskInv, TaskType
<1> QED
  BY <1>1, SurroundingsStep DEF EditSource

LEMMA CrashStep == ASSUME TaskInv, NEW p \in Procs, Crash(p) PROVE TaskInv'
BY LeaveQuietly DEF Crash, records

LEMMA TaskStep == TaskInv /\ [Next]_vars => TaskInv'
<1> SUFFICES ASSUME TaskInv, [Next]_vars PROVE TaskInv'
  OBVIOUS
<1>1. CASE \E p \in Procs, sel \in Selections : CreateAuthoringDraft(p, sel)
  BY <1>1, RequestsMade
<1>2. CASE \E p \in Procs, key \in Keys : ConfirmAndGenerate(p, key)
  BY <1>2, RequestsMade
<1>3. CASE \E p \in Procs, op \in Formats, key \in Keys : ExportResult(p, op, key)
  BY <1>3, RequestsMade
<1>4. ASSUME NEW p \in Procs, Step(p) PROVE TaskInv'
  BY <1>4, UnlinkStep, PublishRequestStep, PublishIntentStep, PublishOutputStep, PublishReceiptStep,
     PublishBindingStep, RecoverAuthoringStateStep, RepairReceiptStep, RepairBindingStep,
     CreateControlledHandoffStep DEF Step
<1>5. CASE \E p \in Procs : MakeHandoff(p)
  BY <1>5, MakeHandoffStep
<1>6. CASE PreparePlan
  BY <1>6, SurroundingsStep DEF PreparePlan, TaskInv, TaskType
<1>7. CASE \E s \in Sources : EditSource(s)
  BY <1>7, EditSourceStep
<1>8. CASE \E p \in Procs : Crash(p)
  BY <1>8, CrashStep
<1>9. CASE UNCHANGED vars
  BY <1>9, SurroundingsStep DEF vars, records, TaskInv, TaskType
<1> QED
  BY <1>1, <1>2, <1>3, <1>4, <1>5, <1>6, <1>7, <1>8, <1>9 DEF Next

LEMMA TaskInvImplies == TaskInv => RecordsHonest
<1> SUFFICES ASSUME TaskInv PROVE RecordsHonest
  OBVIOUS
<1>1. ReceiptsHonest
  BY DEF TaskInv, Honest, HonestReceipt, MadeBy, ReceiptsHonest
<1>2. Cardinality(binding) <= 1
  <2>1. CASE binding = {}
    BY <2>1, FS_EmptySet
  <2>2. CASE \E b : binding = {b}
    BY <2>2, FS_Singleton
  <2> QED
    BY <2>1, <2>2 DEF TaskInv, Honest
<1>3. \A b \in binding : HonestBinding(b)
  BY DEF TaskInv, Honest
<1>4. \A h \in handoff : /\ h.binding \in binding
                         /\ Target \in Used(h.binding.result) => h.binding.result[Target] = h.target
  BY DEF TaskInv, Honest, Used
<1> QED
  BY <1>1, <1>2, <1>3, <1>4 DEF RecordsHonest, HonestBinding

(* Whatever processes do to the files of a task, and wherever they die, the *)
(* receipts, the binding and the handoff on record are true: also those that *)
(* recover_authoring_state restored (local_task_authoring.py).              *)
THEOREM RecordsAreHonest == Spec => []RecordsHonest
<1>1. Spec => []TaskInv
  BY TaskInit, TaskStep, PTL DEF Spec
<1> QED
  BY <1>1, TaskInvImplies, PTL
=============================================================================
