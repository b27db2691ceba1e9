----------------------- MODULE ControlledWrite_proofs -----------------------
(***************************************************************************)
(* Proofs about ControlledWrite, for every set of processes and operations *)
(* and every bound: one effect per authorization and its backup, what a    *)
(* receipt says, what a restore gives back, and that no writer is refused  *)
(* by its own ledger.                                                      *)
(*                                                                         *)
(* The inductive invariant has four parts.  LockInv: the lock file gives   *)
(* one process at a time the right to work.  OpInv: what the ledger, the   *)
(* backup and the target say of one operation.  WorkInv: what a process    *)
(* has established at each of its program points.  OriginInv: where        *)
(* proposals and restore authorizations come from.                         *)
(***************************************************************************)
EXTENDS ControlledWrite, TLAPS

----------------------------------------------------------------------------
(* The invariant.                                                          *)

Texts == [base : Bases \cup {None}, managed : BOOLEAN]
FileRecs == [content : Texts, inode : Nat]
AuthRecs == [current : FileRecs, desired : Texts]

LedgerRecs == [preflight : BOOLEAN, manifest : BOOLEAN, intent : BOOLEAN,
               dispatch : BOOLEAN, post : {None, "match", "nomatch"},
               seen : FileRecs, attention : BOOLEAN, last : Codes,
               receipt : {None, "COMMITTED", "FAILED_NO_EFFECT"}]

ProcRecs == [pc : PCs, kind : {None, "apply", "restore", "reconcile"},
             op : Ops \cup {None}, fd : {None, "current", "stale"},
             created : BOOLEAN, held : BOOLEAN, saw : FileRecs,
             code : Codes, state : {None, "COMMITTED", "FAILED_NO_EFFECT"}]

\* The types, without the bound on inodes that keeps TLC's state space finite.
Types ==
    /\ target \in FileRecs /\ inodes \in Nat
    /\ plan \in [ApplyOps -> FileRecs] /\ proposal \in [ApplyOps -> FileRecs]
    /\ auth \in [Ops -> AuthRecs]
    /\ ledger \in [Ops -> LedgerRecs]
    /\ backup \in [Ops -> Texts]
    /\ lock \in Ops \cup {None, "empty"}
    /\ proc \in [Procs -> ProcRecs]
    /\ effects \in [Ops -> Nat] /\ overwrote \in [Ops -> Texts]
    /\ touched \in [Ops -> BOOLEAN] /\ missed \in [Ops -> BOOLEAN]

\* Between the verified lock and its release a process works on its operation.
WorkPCs == {"check", "backup", "manifest", "intent", "stage", "dispatch", "replace",
            "swap", "observe", "receipt", "fail", "release"}
Working(p) == proc[p].pc \in WorkPCs

Holds(p) == proc[p].held /\ proc[p].fd = "current"
Creates(p) == proc[p].created /\ proc[p].fd = "current"

\* A caller has an authorized operation.
CallerInv(p) ==
    proc[p].pc # "idle" => proc[p].op \in Ops /\ auth[proc[p].op] # NoAuth

\* A worker holds the lock file that names its operation.
LockedInv(p) ==
    /\ Working(p) => Holds(p) /\ lock = proc[p].op
    /\ proc[p].pc = "verify" => proc[p].held
    /\ proc[p].pc \in {"open", "flock"} => ~proc[p].held
    /\ Creates(p) => lock = "empty"
    /\ proc[p].fd = "current" => lock # None

\* One process holds the present lock file and one has created it.
OneHolder ==
    \A p, q \in Procs : p # q => /\ ~(Holds(p) /\ Holds(q))
                                 /\ ~(Creates(p) /\ Creates(q))

LockInv ==
    /\ \A p \in Procs : CallerInv(p)
    /\ \A p \in Procs : LockedInv(p)
    /\ OneHolder

\* Without an authorization nothing has happened.
Unauthorized(o) ==
    auth[o] = NoAuth => ~ledger[o].preflight /\ backup[o] = NoContent /\ effects[o] = 0

\* The order of the events.
Chain(o) ==
    /\ ledger[o].manifest => ledger[o].preflight
    /\ ledger[o].attention => ledger[o].preflight
    /\ ledger[o].intent => ledger[o].manifest
    /\ ledger[o].dispatch => ledger[o].intent
    /\ ledger[o].post # None => ledger[o].intent
    /\ ledger[o].receipt # None => ledger[o].intent

\* The backup is of the authorized bytes and complete before the intent.
BackedUp(o) ==
    /\ backup[o] \in {NoContent, auth[o].current.content}
    /\ ledger[o].manifest => backup[o] = auth[o].current.content

OneEffect(o) ==
    /\ effects[o] \in {0, 1}
    /\ effects[o] = 1 => /\ ledger[o].dispatch
                         /\ missed[o] \/ overwrote[o] = auth[o].current.content

\* While the operation is undecided and nobody else wrote the target, the target
\* tells whether os.replace ran ...
Landed(o) ==
    ledger[o].dispatch /\ ledger[o].receipt = None /\ ~touched[o]
        => target.content = IF effects[o] = 1 THEN auth[o].desired
                            ELSE auth[o].current.content

\* ... because the two contents differ.
Distinct(o) == auth[o] # NoAuth => auth[o].desired # auth[o].current.content

\* What the receipt says.
Told(o) ==
    ~touched[o] => /\ ledger[o].receipt = "COMMITTED" => effects[o] = 1
                   /\ ledger[o].receipt = "FAILED_NO_EFFECT" => effects[o] = 0

OpInv(o) ==
    /\ Unauthorized(o) /\ Chain(o) /\ BackedUp(o) /\ OneEffect(o)
    /\ Landed(o) /\ Distinct(o) /\ Told(o)

\* From the observation of the target to the intent.
Preparing(p) ==
    LET o == proc[p].op IN
    proc[p].pc \in {"backup", "manifest", "intent"} =>
        /\ proc[p].saw = auth[o].current
        /\ ledger[o].preflight /\ ~ledger[o].attention /\ ~ledger[o].intent
        /\ proc[p].pc # "backup" => backup[o] = auth[o].current.content
        /\ proc[p].pc = "intent" => ledger[o].manifest

\* From the intent to the dispatch.
Staging(p) ==
    LET o == proc[p].op IN
    proc[p].pc \in {"stage", "dispatch"} =>
        /\ proc[p].saw = auth[o].current
        /\ ledger[o].intent /\ ~ledger[o].attention /\ ~ledger[o].dispatch
        /\ ledger[o].post = None /\ ledger[o].receipt = None
        /\ proc[p].pc = "dispatch" /\ ~touched[o] => target = proc[p].saw

\* From the dispatch to the observation.
Dispatching(p) ==
    LET o == proc[p].op IN
    /\ proc[p].pc = "replace" => proc[p].saw = auth[o].current
    /\ proc[p].pc = "swap" /\ ~missed[o] => target = auth[o].current
    /\ proc[p].pc \in {"replace", "swap"} => effects[o] = 0
    /\ proc[p].pc = "observe" => effects[o] = 1
    /\ proc[p].pc \in {"replace", "swap", "observe"} =>
          ledger[o].dispatch /\ ledger[o].receipt = None

\* The receipt that is about to be written.
Concluding(p) ==
    LET o == proc[p].op IN
    proc[p].pc = "receipt" =>
        /\ ledger[o].intent /\ ledger[o].receipt = None
        /\ \/ proc[p].state = "COMMITTED" /\ ledger[o].dispatch /\ ledger[o].post = "match"
           \/ proc[p].state = "FAILED_NO_EFFECT" /\ ledger[o].post = "nomatch"
        /\ ~touched[o] => /\ proc[p].state = "COMMITTED" => effects[o] = 1
                          /\ proc[p].state = "FAILED_NO_EFFECT" => effects[o] = 0

WorkInv(p) == Preparing(p) /\ Staging(p) /\ Dispatching(p) /\ Concluding(p)

\* The restore authorization r was made from the committed receipt of o.
RestoreOf(r, o) ==
    /\ ledger[o].receipt = "COMMITTED"
    /\ auth[r].desired = auth[o].current.content
    /\ auth[r].current.content = auth[o].desired

OriginInv ==
    /\ \A o \in ApplyOps : proposal[o] # Gone => ~proposal[o].content.managed
    /\ \A r \in RestoreOps : auth[r] # NoAuth => \E o \in ApplyOps : RestoreOf(r, o)

WriteInv ==
    /\ Types
    /\ LockInv
    /\ \A o \in Ops : OpInv(o)
    /\ \A p \in Procs : WorkInv(p)
    /\ OriginInv

----------------------------------------------------------------------------
(* Shapes of steps.                                                        *)

\* At most the process p changes.
OneMoves(p) ==
    /\ proc' \in [Procs -> ProcRecs]
    /\ \A q \in Procs \ {p} : proc'[q] = proc[q]

\* p goes to pc and keeps its operation and its lock.
MovesTo(p, pc) ==
    /\ OneMoves(p)
    /\ proc'[p].pc = pc
    /\ proc'[p].op = proc[p].op
    /\ proc'[p].fd = proc[p].fd
    /\ proc'[p].held = proc[p].held
    /\ proc'[p].created = proc[p].created

\* Nobody has got further in the work.
QuietPCs == {"idle", "open", "flock", "verify", "check", "release", "fail"}
NoWork ==
    \A p \in Procs : \/ proc'[p].pc \in QuietPCs
                     \/ /\ proc'[p].pc = proc[p].pc /\ proc'[p].op = proc[p].op
                        /\ proc'[p].saw = proc[p].saw /\ proc'[p].state = proc[p].state

\* Only the entry of the operation o has changed.
LedgerOf(o) ==
    /\ ledger' \in [Ops -> LedgerRecs]
    /\ \A x \in Ops \ {o} : ledger'[x] = ledger[x]

----------------------------------------------------------------------------
(* Facts about the operators.                                              *)

LEMMA Constants == NoContent \in Texts /\ Gone \in FileRecs /\ Resting \in ProcRecs
BY DEF NoContent, Texts, Gone, FileRecs, Resting, ProcRecs, PCs, Codes

LEMMA RestingFields ==
    /\ Resting.pc = "idle" /\ Resting.fd = "none" /\ Resting.held = FALSE
    /\ Resting.created = FALSE
BY DEF Resting, None

LEMMA EmptyFields ==
    /\ ~EmptyLedger.preflight /\ ~EmptyLedger.manifest /\ ~EmptyLedger.attention
    /\ ~EmptyLedger.intent /\ ~EmptyLedger.dispatch
    /\ EmptyLedger.post = None /\ EmptyLedger.receipt = None
BY DEF EmptyLedger

\* Goto and Raise change the program point only.
LEMMA GotoMoves ==
    ASSUME Types, NEW p \in Procs, NEW pc \in PCs, Goto(p, pc)
    PROVE  MovesTo(p, pc) /\ proc'[p].saw = proc[p].saw /\ proc'[p].state = proc[p].state
<1>1. PICK r : r = [proc[p] EXCEPT !.pc = pc]
  OBVIOUS
<1>2. proc' = [proc EXCEPT ![p] = r]
  BY <1>1 DEF Goto
<1>3. proc[p] \in ProcRecs /\ proc \in [Procs -> ProcRecs]
  BY DEF Types
<1>4. r \in ProcRecs /\ r.pc = pc /\ r.op = proc[p].op /\ r.fd = proc[p].fd
      /\ r.held = proc[p].held /\ r.created = proc[p].created
      /\ r.saw = proc[p].saw /\ r.state = proc[p].state
  BY <1>1, <1>3 DEF ProcRecs
<1> QED
  BY <1>2, <1>3, <1>4 DEF MovesTo, OneMoves

LEMMA RaiseMoves ==
    ASSUME Types, NEW p \in Procs, NEW code \in Codes, Raise(p, code)
    PROVE  MovesTo(p, "fail")
<1>1. PICK r : r = [proc[p] EXCEPT !.pc = "fail", !.code = code]
  OBVIOUS
<1>2. proc' = [proc EXCEPT ![p] = r]
  BY <1>1 DEF Raise
<1>3. proc[p] \in ProcRecs /\ proc \in [Procs -> ProcRecs]
  BY DEF Types
<1>4. r \in ProcRecs /\ r.pc = "fail" /\ r.op = proc[p].op /\ r.fd = proc[p].fd
      /\ r.held = proc[p].held /\ r.created = proc[p].created
  BY <1>1, <1>3 DEF ProcRecs, PCs
<1> QED
  BY <1>2, <1>3, <1>4 DEF MovesTo, OneMoves

LEMMA ReturnMoves ==
    ASSUME Types, NEW p \in Procs, Return(p)
    PROVE  OneMoves(p) /\ proc'[p] = Resting
BY Constants DEF Types, Return, OneMoves

\* Append changes one ledger, to the given events.
LEMMA AppendShape ==
    ASSUME Types, NEW o \in Ops, NEW new \in LedgerRecs, Append(o, new)
    PROVE  /\ LedgerOf(o)
           /\ ledger'[o].preflight = new.preflight /\ ledger'[o].manifest = new.manifest
           /\ ledger'[o].intent = new.intent /\ ledger'[o].dispatch = new.dispatch
           /\ ledger'[o].post = new.post /\ ledger'[o].attention = new.attention
           /\ ledger'[o].receipt = new.receipt
<1>1. PICK l : l = [new EXCEPT !.last = ""]
  OBVIOUS
<1>2. ledger' = [ledger EXCEPT ![o] = l]
  BY <1>1 DEF Append
<1>3. l \in LedgerRecs /\ l.preflight = new.preflight /\ l.manifest = new.manifest
      /\ l.intent = new.intent /\ l.dispatch = new.dispatch
      /\ l.post = new.post /\ l.attention = new.attention /\ l.receipt = new.receipt
  BY <1>1 DEF LedgerRecs, Codes
<1> QED
  BY <1>2, <1>3 DEF LedgerOf, Types

----------------------------------------------------------------------------
(* The lock.                                                               *)

\* While one process works nobody else does.
LEMMA WorksAlone ==
    ASSUME LockInv, NEW p \in Procs, NEW q \in Procs, Working(p), p # q
    PROVE  ~Working(q)
BY DEF LockInv, LockedInv, OneHolder

\* A worker's step leaves the lock alone.
LEMMA WorkerKeepsLock ==
    ASSUME Types, LockInv, NEW p \in Procs, Working(p), NEW pc \in WorkPCs,
           MovesTo(p, pc), lock' = lock, auth' = auth
    PROVE  LockInv'
<1>1. \A q \in Procs : proc'[q].op = proc[q].op /\ proc'[q].fd = proc[q].fd
                       /\ proc'[q].held = proc[q].held /\ proc'[q].created = proc[q].created
  BY DEF MovesTo, OneMoves
<1>2. \A q \in Procs : Working(q)' => Working(q)
  BY DEF MovesTo, OneMoves, Working
<1>3. ASSUME NEW q \in Procs PROVE CallerInv(q)'
  <2>1. CallerInv(q) /\ CallerInv(p)
    BY DEF LockInv
  <2>2. proc'[q].pc # "idle" => proc[q].pc # "idle"
    BY DEF MovesTo, OneMoves, Working, WorkPCs
  <2> QED
    BY <1>1, <2>1, <2>2 DEF CallerInv
<1>4. ASSUME NEW q \in Procs PROVE LockedInv(q)'
  <2>1. LockedInv(q)
    BY DEF LockInv
  <2>2. proc'[q].pc \in {"verify", "open", "flock"} => proc'[q].pc = proc[q].pc
    BY DEF MovesTo, OneMoves, WorkPCs
  <2> QED
    BY <1>1, <1>2, <2>1, <2>2 DEF LockedInv, Holds, Creates
<1>5. OneHolder'
  BY <1>1 DEF LockInv, OneHolder, Holds, Creates
<1> QED
  BY <1>3, <1>4, <1>5 DEF LockInv

\* A process that gives up keeps the lock file.
LEMMA ReturnKeepsLock ==
    ASSUME Types, LockInv, NEW p \in Procs, Return(p), lock' = lock, auth' = auth
    PROVE  LockInv'
<1>1. OneMoves(p) /\ proc'[p] = Resting
  BY ReturnMoves
<1>2. \A q \in Procs : q # p => proc'[q] = proc[q]
  BY <1>1 DEF OneMoves
<1>3. proc'[p].pc = "idle" /\ proc'[p].fd = "none" /\ proc'[p].held = FALSE
      /\ proc'[p].created = FALSE
  BY <1>1, RestingFields
<1>4. ASSUME NEW q \in Procs PROVE CallerInv(q)'
  BY <1>2, <1>3 DEF LockInv, CallerInv
<1>5. ASSUME NEW q \in Procs PROVE LockedInv(q)'
  BY <1>2, <1>3 DEF LockInv, LockedInv, Holds, Creates, Working, WorkPCs
<1>6. OneHolder'
  BY <1>2, <1>3 DEF LockInv, OneHolder, Holds, Creates
<1> QED
  BY <1>4, <1>5, <1>6 DEF LockInv

\* The holder unlinks the lock file: nobody has a present one.
LEMMA UnlinkKeepsLock ==
    ASSUME Types, LockInv, NEW p \in Procs, UnlinkBy(p), auth' = auth,
           \A q \in Procs \ {p} : ~Working(q)
    PROVE  /\ LockInv' /\ lock' = None
           /\ proc' \in [Procs -> ProcRecs]
           /\ proc'[p] = Resting
           /\ \A q \in Procs \ {p} : proc'[q].pc = proc[q].pc /\ ~Working(q)'
<1>1. lock' = None /\ proc'[p] = Resting
  BY DEF UnlinkBy
<1>2. ASSUME NEW q \in Procs, q # p
      PROVE  /\ proc'[q] \in ProcRecs
             /\ proc'[q].pc = proc[q].pc /\ proc'[q].op = proc[q].op
             /\ proc'[q].held = proc[q].held /\ proc'[q].fd # "current"
  <2>1. proc'[q] = IF proc[q].fd = "current" THEN [proc[q] EXCEPT !.fd = "stale"] ELSE proc[q]
    BY <1>2 DEF UnlinkBy
  <2>2. proc[q] \in ProcRecs
    BY DEF Types
  <2> QED
    BY <2>1, <2>2 DEF ProcRecs
<1>3. proc' \in [Procs -> ProcRecs]
  <2>1. proc' = [q \in Procs |-> proc'[q]]
    BY DEF UnlinkBy
  <2> QED
    BY <1>1, <1>2, <2>1, Constants
<1>4. proc'[p].pc = "idle" /\ proc'[p].fd # "current"
  BY <1>1, RestingFields
<1>5. \A q \in Procs : proc'[q].fd # "current" /\ ~Working(q)'
  BY <1>2, <1>4 DEF Working, WorkPCs
<1>6. ASSUME NEW q \in Procs PROVE CallerInv(q)'
  BY <1>2, <1>4 DEF LockInv, CallerInv
<1>7. ASSUME NEW q \in Procs PROVE LockedInv(q)'
  BY <1>2, <1>4, <1>5 DEF LockInv, LockedInv, Creates
<1>8. OneHolder'
  BY <1>5 DEF OneHolder, Holds, Creates
<1> QED
  BY <1>1, <1>2, <1>3, <1>5, <1>6, <1>7, <1>8 DEF LockInv

\* What a step on the lock file establishes.
LockStep ==
    /\ LockInv' /\ NoWork
    /\ proc' \in [Procs -> ProcRecs] /\ lock' \in Ops \cup {None, "empty"}

LEMMA CallStep ==
    ASSUME Types, LockInv, NEW p \in Procs, NEW o \in Ops,
           NEW kind \in {"apply", "restore", "reconcile"},
           CallKernel(p, kind, o), lock' = lock, auth' = auth
    PROVE  LockStep
<1>1. PICK r : r = [Resting EXCEPT !.pc = "open", !.kind = kind, !.op = o]
  OBVIOUS
<1>2. proc' = [proc EXCEPT ![p] = r] /\ auth[o] # NoAuth
  BY <1>1 DEF CallKernel
<1>3. r \in ProcRecs /\ r.pc = "open" /\ r.op = o /\ r.fd = "none" /\ ~r.held /\ ~r.created
  BY <1>1 DEF Resting, None, ProcRecs, Gone, NoContent, FileRecs, Texts, PCs, Codes
<1>4. proc \in [Procs -> ProcRecs]
  BY DEF Types
<1>5. proc' \in [Procs -> ProcRecs] /\ proc'[p] = r
      /\ \A q \in Procs : q # p => proc'[q] = proc[q]
  BY <1>2, <1>3, <1>4
<1>6. NoWork
  BY <1>3, <1>5 DEF NoWork, QuietPCs
<1>7. ASSUME NEW q \in Procs PROVE CallerInv(q)'
  BY <1>2, <1>3, <1>5 DEF LockInv, CallerInv
<1>8. ASSUME NEW q \in Procs PROVE LockedInv(q)'
  BY <1>3, <1>5 DEF LockInv, LockedInv, Holds, Creates, Working, WorkPCs
<1>9. OneHolder'
  BY <1>3, <1>5 DEF LockInv, OneHolder, Holds, Creates
<1> QED
  BY <1>5, <1>6, <1>7, <1>8, <1>9 DEF LockStep, LockInv, Types

LEMMA OpenLockStep ==
    ASSUME Types, LockInv, NEW p \in Procs, OpenLock(p)
    PROVE  LockStep
<1>1. PICK r : r = [proc[p] EXCEPT !.pc = "flock", !.fd = "current", !.created = (lock = None)]
  OBVIOUS
<1>2. proc' = [proc EXCEPT ![p] = r] /\ proc[p].pc = "open" /\ auth' = auth
      /\ lock' = IF lock = None THEN "empty" ELSE lock
  BY <1>1 DEF OpenLock, records
<1>3. proc \in [Procs -> ProcRecs] /\ proc[p] \in ProcRecs
  BY DEF Types
<1>4. r \in ProcRecs /\ r.pc = "flock" /\ r.op = proc[p].op /\ r.fd = "current"
      /\ r.held = proc[p].held /\ r.created = (lock = None)
  BY <1>1, <1>3 DEF ProcRecs, PCs
<1>5. proc' \in [Procs -> ProcRecs] /\ proc'[p] = r
      /\ \A q \in Procs : q # p => proc'[q] = proc[q]
  BY <1>2, <1>3, <1>4
<1>6. NoWork
  BY <1>4, <1>5 DEF NoWork, QuietPCs
<1>7. ASSUME NEW q \in Procs PROVE CallerInv(q)'
  BY <1>2, <1>4, <1>5 DEF LockInv, CallerInv
<1>8. lock' # None /\ (lock # None => lock' = lock)
  BY <1>2 DEF None
<1>9. ASSUME NEW q \in Procs, q # p PROVE LockedInv(q)'
  BY <1>5, <1>8, <1>9, <1>2 DEF LockInv, LockedInv, Holds, Creates, Working, None
<1>10. LockedInv(p)'
  BY <1>2, <1>4, <1>5, <1>8 DEF LockInv, LockedInv, Holds, Creates, Working, WorkPCs
<1>11. OneHolder'
  <2>1. ~Holds(p)'
    BY <1>2, <1>4, <1>5 DEF LockInv, LockedInv, Holds
  <2>2. Creates(p)' => lock = None
    BY <1>4, <1>5 DEF Creates
  <2>3. lock = None => \A q \in Procs : ~Creates(q)
    BY DEF LockInv, LockedInv, Creates
  <2>4. \A q \in Procs : q # p => (Holds(q)' <=> Holds(q)) /\ (Creates(q)' <=> Creates(q))
    BY <1>5 DEF Holds, Creates
  <2> QED
    BY <2>1, <2>2, <2>3, <2>4 DEF LockInv, OneHolder
<1> QED
  BY <1>2, <1>5, <1>6, <1>7, <1>9, <1>10, <1>11 DEF LockStep, LockInv, Types

LEMMA FlockStep ==
    ASSUME Types, LockInv, NEW p \in Procs, Flock(p)
    PROVE  LockStep
<1>1. PICK r : r = [proc[p] EXCEPT !.pc = "verify", !.held = TRUE, !.created = FALSE]
  OBVIOUS
<1>2. proc' = [proc EXCEPT ![p] = r] /\ proc[p].pc = "flock" /\ auth' = auth
      /\ lock' = (IF Creates(p) THEN proc[p].op ELSE lock) /\ FlockFree(p)
  BY <1>1 DEF Flock, records, Creates
<1>3. proc \in [Procs -> ProcRecs] /\ proc[p] \in ProcRecs
  BY DEF Types
<1>4. r \in ProcRecs /\ r.pc = "verify" /\ r.op = proc[p].op /\ r.fd = proc[p].fd
      /\ r.held /\ ~r.created
  BY <1>1, <1>3 DEF ProcRecs, PCs
<1>5. proc' \in [Procs -> ProcRecs] /\ proc'[p] = r
      /\ \A q \in Procs : q # p => proc'[q] = proc[q]
  BY <1>2, <1>3, <1>4
<1>6. NoWork
  <2>1. \A q \in Procs : q # p => proc'[q].pc = proc[q].pc /\ proc'[q].op = proc[q].op
                           /\ proc'[q].saw = proc[q].saw /\ proc'[q].state = proc[q].state
    BY <1>5
  <2> QED
    BY <1>4, <1>5, <2>1 DEF NoWork, QuietPCs
<1>7. ASSUME NEW q \in Procs PROVE CallerInv(q)'
  BY <1>2, <1>4, <1>5 DEF LockInv, CallerInv
<1>8. CallerInv(p) /\ proc[p].op \in Ops
  BY <1>2 DEF LockInv, CallerInv
<1>9. \A q \in Procs : q # p /\ proc[p].fd = "current" => ~Holds(q)
  BY <1>2 DEF FlockFree, Holds
<1>10. \A q \in Procs : q # p /\ Creates(p) => ~Creates(q)
  BY DEF LockInv, OneHolder
<1>11. lock' \in Ops \cup {None, "empty"} /\ (proc[p].fd = "current" => lock' # None)
  <2>1. None \notin Ops
    BY ConstantsAssumption DEF Ops, None
  <2> QED
    BY <1>2, <1>8, <2>1 DEF LockInv, LockedInv, Creates, Types
<1>12. ASSUME NEW q \in Procs, q # p PROVE LockedInv(q)'
  <2>1. LockedInv(q) /\ proc'[q] = proc[q]
    BY <1>5, <1>12 DEF LockInv
  <2>2. CASE Creates(p)
    <3>1. ~Holds(q) /\ ~Creates(q) /\ lock' # None
      BY <1>9, <1>10, <1>11, <1>12, <2>2 DEF Creates
    <3> QED
      BY <2>1, <3>1 DEF LockedInv, Holds, Creates, Working
  <2>3. CASE ~Creates(p)
    BY <1>2, <2>1, <2>3 DEF LockedInv, Holds, Creates, Working
  <2> QED
    BY <2>2, <2>3
<1>13. LockedInv(p)'
  BY <1>4, <1>5, <1>11 DEF LockedInv, Holds, Creates, Working, WorkPCs
<1>14. OneHolder'
  <2>1. Holds(p)' => proc[p].fd = "current"
    BY <1>4, <1>5 DEF Holds
  <2>2. ~Creates(p)'
    BY <1>4, <1>5 DEF Creates
  <2>3. \A q \in Procs : q # p => (Holds(q)' <=> Holds(q)) /\ (Creates(q)' <=> Creates(q))
    BY <1>5 DEF Holds, Creates
  <2> QED
    BY <1>9, <2>1, <2>2, <2>3 DEF LockInv, OneHolder
<1> QED
  BY <1>5, <1>6, <1>7, <1>11, <1>12, <1>13, <1>14 DEF LockStep, LockInv

LEMMA GiveUpStep ==
    ASSUME Types, LockInv, NEW p \in Procs, Return(p), lock' = lock, auth' = auth
    PROVE  LockStep
<1>1. OneMoves(p) /\ proc'[p] = Resting
  BY ReturnMoves
<1>2. NoWork
  <2>1. \A q \in Procs : q # p => proc'[q].pc = proc[q].pc /\ proc'[q].op = proc[q].op
                           /\ proc'[q].saw = proc[q].saw /\ proc'[q].state = proc[q].state
    BY <1>1 DEF OneMoves
  <2>2. proc'[p].pc = "idle"
    BY <1>1, RestingFields
  <2> QED
    BY <2>1, <2>2 DEF NoWork, QuietPCs
<1> QED
  BY <1>1, <1>2, ReturnKeepsLock DEF LockStep, OneMoves, Types

LEMMA UnlinkStep ==
    ASSUME Types, LockInv, NEW p \in Procs, UnlinkBy(p), auth' = auth,
           \A q \in Procs \ {p} : ~Working(q)
    PROVE  LockStep
<1>1. /\ LockInv' /\ lock' = None
      /\ proc' \in [Procs -> ProcRecs]
      /\ proc'[p] = Resting
      /\ \A q \in Procs \ {p} : proc'[q].pc = proc[q].pc /\ ~Working(q)'
  BY UnlinkKeepsLock
<1>2. NoWork
  <2>1. ASSUME NEW q \in Procs, q # p PROVE proc'[q].pc \in QuietPCs
    <3>1. proc'[q] \in ProcRecs /\ proc'[q].pc \notin WorkPCs
      BY <1>1, <2>1 DEF Working
    <3> QED
      BY <3>1 DEF ProcRecs, PCs, WorkPCs, QuietPCs
  <2>2. proc'[p].pc \in QuietPCs
    BY <1>1, RestingFields DEF QuietPCs
  <2> QED
    BY <2>1, <2>2 DEF NoWork
<1> QED
  BY <1>1, <1>2 DEF LockStep

\* The steps on the lock file keep the lock's invariant and nobody's work moves on.
LEMMA LockSteps ==
    ASSUME Types, LockInv, NEW p \in Procs,
           \/ OpenLock(p) \/ LockBusy(p) \/ Flock(p) \/ LockVerified(p)
           \/ ReleaseLock(p) \/ LedgerUnavailable(p)
    PROVE  LockStep
<1>1. CASE OpenLock(p)
  BY <1>1, OpenLockStep
<1>2. CASE LockBusy(p)
  <2>1. CASE Creates(p)
    <3>1. UnlinkBy(p) /\ auth' = auth
      BY <1>2, <2>1 DEF LockBusy, Creates, records
    <3>2. lock = "empty" /\ "empty" \notin Ops
      BY <2>1, ConstantsAssumption DEF LockInv, LockedInv, Ops
    <3>3. \A q \in Procs : ~Working(q)
      BY <3>2 DEF LockInv, LockedInv, CallerInv, Working, WorkPCs
    <3> QED
      BY <3>1, <3>3, UnlinkStep
  <2>2. CASE ~Creates(p)
    <3>1. Return(p) /\ lock' = lock /\ auth' = auth
      BY <1>2, <2>2 DEF LockBusy, Creates, records
    <3> QED
      BY <3>1, GiveUpStep
  <2> QED
    BY <2>1, <2>2
<1>3. CASE Flock(p)
  BY <1>3, FlockStep
<1>4. CASE LockVerified(p)
  <2>1. lock' = lock /\ auth' = auth
    BY <1>4 DEF LockVerified, records
  <2>2. CASE VerifyLock(p)
    <3>1. Goto(p, "check") /\ proc[p].pc = "verify"
      BY <1>4, <2>2 DEF LockVerified
    <3>2. MovesTo(p, "check")
      BY <3>1, GotoMoves DEF PCs
    <3>3. \A q \in Procs : q # p => proc'[q] = proc[q]
      BY <3>2 DEF MovesTo, OneMoves
    <3>4. proc'[p].pc = "check" /\ proc'[p].op = proc[p].op /\ proc'[p].fd = proc[p].fd
          /\ proc'[p].held = proc[p].held /\ proc'[p].created = proc[p].created
      BY <3>2 DEF MovesTo
    <3>5. NoWork
      <4>1. \A q \in Procs : q # p => proc'[q].pc = proc[q].pc /\ proc'[q].op = proc[q].op
                               /\ proc'[q].saw = proc[q].saw /\ proc'[q].state = proc[q].state
        BY <3>3
      <4> QED
        BY <3>4, <4>1 DEF NoWork, QuietPCs
    <3>6. ASSUME NEW q \in Procs PROVE CallerInv(q)'
      BY <2>1, <3>1, <3>3, <3>4 DEF LockInv, CallerInv
    <3>7. ASSUME NEW q \in Procs, q # p PROVE LockedInv(q)'
      BY <2>1, <3>3, <3>7 DEF LockInv, LockedInv, Holds, Creates, Working
    <3>8. LockedInv(p)'
      BY <2>1, <2>2, <3>1, <3>4 DEF LockInv, LockedInv, Holds, Creates, Working, VerifyLock
    <3>9. OneHolder'
      BY <3>3, <3>4 DEF LockInv, OneHolder, Holds, Creates
    <3> QED
      BY <2>1, <3>2, <3>5, <3>6, <3>7, <3>8, <3>9 DEF LockStep, LockInv, MovesTo, OneMoves, Types
  <2>3. CASE ~VerifyLock(p)
    <3>1. Return(p)
      BY <1>4, <2>3 DEF LockVerified
    <3> QED
      BY <2>1, <3>1, GiveUpStep
  <2> QED
    BY <2>2, <2>3
<1>5. CASE ReleaseLock(p)
  <2>1. auth' = auth /\ Working(p)
    BY <1>5 DEF ReleaseLock, records, Working, WorkPCs
  <2>2. CASE VerifyLock(p)
    <3>1. UnlinkBy(p)
      BY <1>5, <2>2 DEF ReleaseLock
    <3>2. \A q \in Procs \ {p} : ~Working(q)
      BY <2>1, WorksAlone
    <3> QED
      BY <2>1, <3>1, <3>2, UnlinkStep
  <2>3. CASE ~VerifyLock(p)
    <3>1. Return(p) /\ lock' = lock
      BY <1>5, <2>3 DEF ReleaseLock
    <3> QED
      BY <2>1, <3>1, GiveUpStep
  <2> QED
    BY <2>2, <2>3
<1>6. CASE LedgerUnavailable(p)
  <2>1. Return(p) /\ lock' = lock /\ auth' = auth
    BY <1>6 DEF LedgerUnavailable, records
  <2> QED
    BY <2>1, GiveUpStep
<1> QED
  BY <1>1, <1>2, <1>3, <1>4, <1>5, <1>6

----------------------------------------------------------------------------
(* What a step leaves alone.                                               *)

\* The operation x is not the one that moves: at most somebody writes the target.
KeepsOp(x) ==
    /\ ledger'[x] = ledger[x] /\ backup'[x] = backup[x] /\ auth'[x] = auth[x]
    /\ effects'[x] = effects[x] /\ overwrote'[x] = overwrote[x]
    /\ touched[x] => touched'[x]
    /\ missed[x] => missed'[x]
    /\ AtSwap(x) /\ target' # target => missed'[x]
    /\ Undecided(x) /\ target' # target => touched'[x]

LEMMA OpKept ==
    ASSUME NEW x \in Ops, OpInv(x), KeepsOp(x)
    PROVE  OpInv(x)'
<1>1. Unauthorized(x)' /\ Chain(x)' /\ BackedUp(x)' /\ OneEffect(x)' /\ Distinct(x)'
  BY DEF OpInv, KeepsOp, Unauthorized, Chain, BackedUp, OneEffect, Distinct
<1>2. Landed(x)'
  <2>1. ledger[x].dispatch /\ ledger[x].receipt = None => Undecided(x)
    BY DEF OpInv, Chain, Undecided, Terminal
  <2>2. Landed(x)
    BY DEF OpInv
  <2> QED
    BY <2>1, <2>2 DEF KeepsOp, Landed
<1>3. Told(x)'
  BY DEF OpInv, KeepsOp, Told
<1> QED
  BY <1>1, <1>2, <1>3 DEF OpInv

\* A process whose operation is not disturbed keeps what it knows.
LEMMA WorkKept ==
    ASSUME NEW p \in Procs, NEW o \in Ops, o = proc[p].op, WorkInv(p),
           proc'[p].pc = proc[p].pc, proc'[p].op = proc[p].op,
           proc'[p].saw = proc[p].saw, proc'[p].state = proc[p].state,
           ledger[o].intent => ledger[o].preflight, KeepsOp(o)
    PROVE  WorkInv(p)'
<1>1. Preparing(p)'
  BY DEF WorkInv, KeepsOp, Preparing
<1>2. Staging(p)'
  <2>1. Staging(p)
    BY DEF WorkInv
  <2>2. ledger[o].intent /\ ledger[o].receipt = None => Undecided(o)
    BY DEF Undecided, Terminal
  <2> QED
    BY <2>1, <2>2 DEF KeepsOp, Staging
<1>3. Dispatching(p)'
  <2>1. Dispatching(p)
    BY DEF WorkInv
  <2>2. proc[p].pc = "swap" => AtSwap(o)
    BY DEF AtSwap
  <2> QED
    BY <2>1, <2>2 DEF KeepsOp, Dispatching
<1>4. Concluding(p)'
  BY DEF WorkInv, KeepsOp, Concluding
<1> QED
  BY <1>1, <1>2, <1>3, <1>4 DEF WorkInv

\* A process that does not work knows nothing.
LEMMA Idles ==
    ASSUME NEW p \in Procs, proc[p].pc \in QuietPCs
    PROVE  WorkInv(p)
BY DEF QuietPCs, WorkInv, Preparing, Staging, Dispatching, Concluding

LEMMA IdlesNext ==
    ASSUME NEW p \in Procs, proc'[p].pc \in QuietPCs
    PROVE  WorkInv(p)'
BY DEF QuietPCs, WorkInv, Preparing, Staging, Dispatching, Concluding

\* Commitments and authorizations are for ever.
LEMMA OriginKept ==
    ASSUME OriginInv, proposal' = proposal, auth' = auth,
           \A x \in Ops : ledger[x].receipt = "COMMITTED" => ledger'[x].receipt = "COMMITTED"
    PROVE  OriginInv'
<1>1. \A r \in RestoreOps, o \in ApplyOps : RestoreOf(r, o) => RestoreOf(r, o)'
  BY DEF RestoreOf, Ops
<1> QED
  BY <1>1 DEF OriginInv

\* A step that works on no operation: the lock's steps, the calls, a crash, an edit.
LEMMA QuietStep ==
    ASSUME WriteInv, Types', LockInv', NoWork,
           UNCHANGED <<ledger, backup, effects, overwrote, proposal, auth>>,
           \A x \in Ops : KeepsOp(x)
    PROVE  WriteInv'
<1>1. \A x \in Ops : OpInv(x)'
  BY OpKept DEF WriteInv
<1>2. ASSUME NEW p \in Procs PROVE WorkInv(p)'
  <2>1. CASE proc'[p].pc \in QuietPCs
    BY <2>1, IdlesNext
  <2>2. CASE proc'[p].pc \notin QuietPCs
    <3>1. /\ proc'[p].pc = proc[p].pc /\ proc'[p].op = proc[p].op
          /\ proc'[p].saw = proc[p].saw /\ proc'[p].state = proc[p].state
      BY <2>2 DEF NoWork
    <3>2. proc[p].pc # "idle"
      BY <2>2, <3>1 DEF QuietPCs
    <3>3. PICK o \in Ops : o = proc[p].op
      BY <3>2 DEF WriteInv, LockInv, CallerInv
    <3>4. OpInv(o) /\ WorkInv(p) /\ KeepsOp(o)
      BY DEF WriteInv
    <3>5. ledger[o].intent => ledger[o].preflight
      BY <3>4 DEF OpInv, Chain
    <3> QED
      BY ONLY <3>1, <3>3, <3>4, <3>5, WorkKept, p \in Procs
  <2> QED
    BY <2>1, <2>2
<1>3. OriginInv'
  BY OriginKept DEF WriteInv
<1> QED
  BY <1>1, <1>2, <1>3 DEF WriteInv

\* A step that leaves the target and the journal alone.
LEMMA NothingWritten ==
    ASSUME UNCHANGED <<target, ledger, backup, effects, overwrote, touched, missed, auth>>
    PROVE  \A x \in Ops : KeepsOp(x)
BY DEF KeepsOp

----------------------------------------------------------------------------
(* The steps that write no journal.                                        *)

LEMMA InitInv == Init => WriteInv
<1> SUFFICES ASSUME Init PROVE WriteInv
  OBVIOUS
<1>1. PICK f : f = [content |-> Plain(Original), inode |-> 1]
  OBVIOUS
<1>2. f \in FileRecs
  BY <1>1, ConstantsAssumption DEF Plain, FileRecs, Texts
<1>3. NoAuth \in AuthRecs /\ EmptyLedger \in LedgerRecs
  BY Constants DEF NoAuth, AuthRecs, EmptyLedger, LedgerRecs, Codes, None
<1>4. Types
  BY <1>1, <1>2, <1>3, Constants DEF Init, Types
<1>5. \A p \in Procs : proc[p] = Resting
  BY DEF Init
<1>6. \A p \in Procs : proc[p].pc = "idle" /\ proc[p].fd = "none"
  BY <1>5, RestingFields
<1>7. LockInv
  BY <1>5, <1>6, RestingFields
     DEF LockInv, CallerInv, LockedInv, OneHolder, Working, WorkPCs, Holds, Creates
<1>8. ASSUME NEW o \in Ops PROVE OpInv(o)
  <2>1. ledger[o] = EmptyLedger /\ backup[o] = NoContent /\ effects[o] = 0 /\ auth[o] = NoAuth
    BY DEF Init
  <2>2. /\ ~ledger[o].preflight /\ ~ledger[o].manifest /\ ~ledger[o].attention
        /\ ~ledger[o].intent /\ ~ledger[o].dispatch
        /\ ledger[o].post = None /\ ledger[o].receipt = None
    BY <2>1, EmptyFields
  <2> QED
    BY <2>1, <2>2 DEF OpInv, Unauthorized, Chain, BackedUp, OneEffect, Landed, Distinct, Told,
                      None
<1>9. \A p \in Procs : WorkInv(p)
  BY <1>6, Idles DEF QuietPCs
<1>10. OriginInv
  <2>1. \A o \in ApplyOps : proposal[o] = Gone
    BY DEF Init
  <2>2. \A r \in RestoreOps : auth[r] = NoAuth
    BY DEF Init, Ops
  <2> QED
    BY <2>1, <2>2 DEF OriginInv
<1> QED
  BY <1>4, <1>7, <1>8, <1>9, <1>10 DEF WriteInv

LEMMA StutterInv ==
    ASSUME WriteInv, UNCHANGED vars
    PROVE  WriteInv'
<1>1. /\ UNCHANGED <<target, inodes, plan, ledger, backup, lock, proc>>
      /\ UNCHANGED <<proposal, auth, effects, overwrote, touched, missed>>
  BY DEF vars
<1>2. Types' /\ LockInv'
  BY <1>1 DEF WriteInv, Types, LockInv, CallerInv, LockedInv, OneHolder, Working, Holds, Creates
<1>3. NoWork
  BY <1>1 DEF NoWork
<1> QED
  BY <1>1, <1>2, <1>3, NothingWritten, QuietStep

\* A caller, the lock file, a death.
LEMMA LockStepInv ==
    ASSUME WriteInv, LockStep, UNCHANGED <<target, inodes, ledger, backup>>,
           UNCHANGED <<history, records>>
    PROVE  WriteInv'
<1>1. UNCHANGED <<effects, overwrote, touched, missed, plan, proposal, auth>>
  BY DEF history, records
<1>2. Types'
  BY <1>1 DEF WriteInv, LockStep, Types
<1> QED
  BY <1>1, <1>2, NothingWritten, QuietStep DEF LockStep

LEMMA CallerInvs ==
    ASSUME WriteInv, NEW p \in Procs, NEW o \in Ops, CallWrite(p, o) \/ CallReconcile(p, o)
    PROVE  WriteInv'
<1>1. PICK kind \in {"apply", "restore", "reconcile"} : CallKernel(p, kind, o)
  BY DEF CallWrite, CallReconcile
<1>2. /\ UNCHANGED <<target, inodes, ledger, backup, lock>>
      /\ UNCHANGED <<history, records>>
  BY DEF CallWrite, CallReconcile, Kernel
<1>3. LockStep
  BY <1>1, <1>2, CallStep DEF WriteInv, records
<1> QED
  BY <1>2, <1>3, LockStepInv

LEMMA LockInvs ==
    ASSUME WriteInv, NEW p \in Procs,
           \/ OpenLock(p) \/ LockBusy(p) \/ Flock(p) \/ LockVerified(p)
           \/ ReleaseLock(p) \/ LedgerUnavailable(p)
    PROVE  WriteInv'
<1>1. /\ UNCHANGED <<target, inodes, ledger, backup>>
      /\ UNCHANGED <<history, records>>
  BY DEF OpenLock, LockBusy, Flock, LockVerified, ReleaseLock, LedgerUnavailable, Kernel
<1>2. LockStep
  BY LockSteps DEF WriteInv
<1> QED
  BY <1>1, <1>2, LockStepInv

LEMMA CrashInv ==
    ASSUME WriteInv, NEW p \in Procs, Crash(p)
    PROVE  WriteInv'
<1>1. /\ UNCHANGED <<target, inodes, ledger, backup>>
      /\ UNCHANGED <<history, records>>
  BY DEF Crash
<1>2. Return(p) /\ lock' = lock /\ auth' = auth
  BY DEF Crash, records
<1>3. LockStep
  BY <1>2, GiveUpStep DEF WriteInv
<1> QED
  BY <1>1, <1>3, LockStepInv

\* Other programs write the target or the result's sources.
LEMMA EditInv ==
    ASSUME WriteInv, NEW file \in Edits, EditTarget(file)
    PROVE  WriteInv'
<1>1. /\ UNCHANGED <<ledger, backup, effects, overwrote, lock, proc>>
      /\ UNCHANGED <<plan, proposal, auth>>
      /\ target' = file
      /\ inodes' = IF file.inode > inodes THEN file.inode ELSE inodes
      /\ touched' = [o \in Ops |-> touched[o] \/ Undecided(o)]
      /\ missed' = [o \in Ops |-> missed[o] \/ AtSwap(o)]
  BY DEF EditTarget, records
<1>2. file \in FileRecs
  <2>1. target.inode \in Nat /\ inodes \in Nat
    BY DEF WriteInv, Types, FileRecs
  <2>2. CASE file = Gone
    BY <2>2, Constants
  <2>3. ASSUME NEW b \in Bases, NEW i \in {inodes + 1} \cup ({target.inode} \ {0}),
               file = [content |-> Plain(b), inode |-> i]
        PROVE  file \in FileRecs
    <3>1. i \in Nat
      BY <2>1
    <3> QED
      BY <2>3, <3>1 DEF Plain, FileRecs, Texts
  <2> QED
    BY <2>2, <2>3 DEF Edits
<1>3. Types'
  <2>1. inodes' \in Nat
    <3>1. file.inode \in Nat /\ inodes \in Nat
      BY <1>2 DEF FileRecs, WriteInv, Types
    <3> QED
      BY <1>1, <3>1
  <2>2. touched' \in [Ops -> BOOLEAN]
    <3>1. \A o \in Ops : (touched[o] \/ Undecided(o)) \in BOOLEAN
      OBVIOUS
    <3> QED
      BY <1>1, <3>1
  <2>3. missed' \in [Ops -> BOOLEAN]
    <3>1. \A o \in Ops : (missed[o] \/ AtSwap(o)) \in BOOLEAN
      OBVIOUS
    <3> QED
      BY <1>1, <3>1
  <2> QED
    BY <1>1, <1>2, <2>1, <2>2, <2>3 DEF WriteInv, Types
<1>4. LockInv' /\ NoWork
  BY <1>1 DEF WriteInv, LockInv, CallerInv, LockedInv, OneHolder, Working, Holds, Creates, NoWork
<1>5. \A x \in Ops : KeepsOp(x)
  BY <1>1 DEF KeepsOp
<1> QED
  BY <1>1, <1>3, <1>4, <1>5, QuietStep

LEMMA SourcesInv ==
    ASSUME WriteInv, EditSources
    PROVE  WriteInv'
<1>1. /\ UNCHANGED <<target, inodes, ledger, backup, effects, overwrote, touched, missed, lock, proc>>
      /\ UNCHANGED <<plan, proposal, auth>>
  BY DEF EditSources, records, history
<1>2. Types' /\ LockInv' /\ NoWork
  BY <1>1 DEF WriteInv, Types, LockInv, CallerInv, LockedInv, OneHolder, Working, Holds, Creates,
              NoWork
<1> QED
  BY <1>1, <1>2, NothingWritten, QuietStep

----------------------------------------------------------------------------
(* Preparation.                                                            *)

LEMMA PlanInv ==
    ASSUME WriteInv, NEW o \in ApplyOps, PrepareApplyPlan(o)
    PROVE  WriteInv'
<1>1. /\ UNCHANGED <<target, inodes, ledger, backup, effects, overwrote, touched, missed, lock, proc>>
      /\ UNCHANGED <<proposal, auth>>
      /\ plan' = [plan EXCEPT ![o] = target]
  BY DEF PrepareApplyPlan, history
<1>2. Types'
  BY <1>1 DEF WriteInv, Types
<1>3. LockInv' /\ NoWork
  BY <1>1 DEF WriteInv, LockInv, CallerInv, LockedInv, OneHolder, Working, Holds, Creates, NoWork
<1> QED
  BY <1>1, <1>2, <1>3, NothingWritten, QuietStep

LEMMA ProposalInv ==
    ASSUME WriteInv, NEW o \in ApplyOps, CreateExecutableProposal(o)
    PROVE  WriteInv'
<1>1. /\ UNCHANGED <<target, inodes, ledger, backup, effects, overwrote, touched, missed, lock, proc>>
      /\ UNCHANGED <<plan, auth>>
      /\ proposal' = [proposal EXCEPT ![o] = target]
      /\ ~target.content.managed
  BY DEF CreateExecutableProposal, history, Composable
<1>2. Types'
  BY <1>1 DEF WriteInv, Types
<1>3. LockInv'
  BY <1>1 DEF WriteInv, LockInv, CallerInv, LockedInv, OneHolder, Working, Holds, Creates
<1>4. \A x \in Ops : OpInv(x)'
  BY <1>1, NothingWritten, OpKept DEF WriteInv
<1>5. \A p \in Procs : WorkInv(p)'
  BY <1>1 DEF WriteInv, WorkInv, Preparing, Staging, Dispatching, Concluding
<1>6. OriginInv'
  <2>1. \A x \in ApplyOps : proposal'[x] = IF x = o THEN target ELSE proposal[x]
    BY <1>1 DEF WriteInv, Types
  <2>2. \A r \in RestoreOps, x \in ApplyOps : RestoreOf(r, x) <=> RestoreOf(r, x)'
    BY <1>1 DEF RestoreOf
  <2> QED
    BY <1>1, <2>1, <2>2 DEF WriteInv, OriginInv
<1> QED
  BY <1>2, <1>3, <1>4, <1>5, <1>6 DEF WriteInv

\* An operation with events is an authorized one.
LEMMA Authorized ==
    ASSUME NEW o \in Ops, OpInv(o), ledger[o].intent \/ ledger[o].receipt # None
    PROVE  auth[o] # NoAuth /\ backup[o] = auth[o].current.content
BY DEF OpInv, Unauthorized, Chain, BackedUp

\* A new authorization a of the operation o.
LEMMA AuthorizeInv ==
    ASSUME WriteInv, NEW o \in Ops, auth[o] = NoAuth,
           NEW a \in AuthRecs, auth' = [auth EXCEPT ![o] = a],
           a.desired # a.current.content,
           o \in RestoreOps => \E x \in ApplyOps : /\ ledger[x].receipt = "COMMITTED"
                                                   /\ a.desired = auth[x].current.content
                                                   /\ a.current.content = auth[x].desired,
           UNCHANGED <<target, inodes, ledger, backup, effects, overwrote, touched, missed, lock, proc>>,
           UNCHANGED <<plan, proposal>>
    PROVE  WriteInv'
<1>1. auth' \in [Ops -> AuthRecs] /\ auth'[o] = a
      /\ \A x \in Ops \ {o} : auth'[x] = auth[x]
  BY DEF WriteInv, Types
<1>2. Types'
  BY <1>1 DEF WriteInv, Types
<1>3. \A p \in Procs : proc[p].pc # "idle" => proc[p].op \in Ops \ {o}
  BY DEF WriteInv, LockInv, CallerInv
<1>4. LockInv'
  <2>1. \A p \in Procs : CallerInv(p)'
    BY <1>1, <1>3 DEF WriteInv, LockInv, CallerInv
  <2>2. \A p \in Procs : LockedInv(p)'
    BY DEF WriteInv, LockInv, LockedInv, Working, Holds, Creates
  <2>3. OneHolder'
    BY DEF WriteInv, LockInv, OneHolder, Holds, Creates
  <2> QED
    BY <2>1, <2>2, <2>3 DEF LockInv
<1>5. \A x \in Ops \ {o} : KeepsOp(x)
  BY <1>1 DEF KeepsOp
<1>6. OpInv(o)'
  <2>1. OpInv(o)
    BY DEF WriteInv
  <2>2. ~ledger[o].preflight /\ backup[o] = NoContent /\ effects[o] = 0
    BY <2>1 DEF OpInv, Unauthorized
  <2>3. /\ ~ledger[o].manifest /\ ~ledger[o].intent /\ ~ledger[o].dispatch
        /\ ledger[o].receipt = None
    BY <2>1, <2>2 DEF OpInv, Chain
  <2>4. Unauthorized(o)' /\ Chain(o)'
    BY <2>1, <2>2 DEF OpInv, Unauthorized, Chain
  <2>5. BackedUp(o)' /\ OneEffect(o)' /\ Landed(o)' /\ Told(o)'
    BY <2>2, <2>3 DEF BackedUp, OneEffect, Landed, Told, None
  <2>6. Distinct(o)'
    BY <1>1 DEF Distinct
  <2> QED
    BY <2>4, <2>5, <2>6 DEF OpInv
<1>7. \A x \in Ops : OpInv(x)'
  BY <1>5, <1>6, OpKept DEF WriteInv
<1>8. ASSUME NEW p \in Procs PROVE WorkInv(p)'
  <2>1. CASE proc[p].pc = "idle"
    BY <2>1, IdlesNext DEF QuietPCs
  <2>2. CASE proc[p].pc # "idle"
    <3>1. PICK x \in Ops : x = proc[p].op /\ x # o
      BY <1>3, <2>2
    <3>2. OpInv(x) /\ WorkInv(p) /\ KeepsOp(x)
      BY <1>5, <3>1 DEF WriteInv
    <3>3. ledger[x].intent => ledger[x].preflight
      BY <3>2 DEF OpInv, Chain
    <3>4. proc'[p].pc = proc[p].pc /\ proc'[p].op = proc[p].op
          /\ proc'[p].saw = proc[p].saw /\ proc'[p].state = proc[p].state
      OBVIOUS
    <3> QED
      BY ONLY <3>1, <3>2, <3>3, <3>4, WorkKept, p \in Procs
  <2> QED
    BY <2>1, <2>2
<1>9. OriginInv'
  <2>1. \A x \in ApplyOps : ledger[x].receipt = "COMMITTED" => x # o /\ auth'[x] = auth[x]
    <3>1. ASSUME NEW x \in ApplyOps, ledger[x].receipt = "COMMITTED"
          PROVE  x # o /\ auth'[x] = auth[x]
      <4>1. x \in Ops /\ OpInv(x)
        BY DEF Ops, WriteInv
      <4>2. auth[x] # NoAuth
        BY <3>1, <4>1, Authorized DEF None
      <4> QED
        BY <1>1, <4>1, <4>2
    <3> QED
      BY <3>1
  <2>2. ASSUME NEW r \in RestoreOps, auth'[r] # NoAuth
        PROVE  \E x \in ApplyOps : RestoreOf(r, x)'
    <3>1. CASE r = o
      <4>1. PICK x \in ApplyOps : /\ ledger[x].receipt = "COMMITTED"
                                  /\ a.desired = auth[x].current.content
                                  /\ a.current.content = auth[x].desired
        BY <3>1
      <4> QED
        BY <1>1, <2>1, <3>1, <4>1 DEF RestoreOf
    <3>2. CASE r # o
      <4>1. auth'[r] = auth[r]
        BY <1>1, <3>2 DEF Ops
      <4>2. PICK x \in ApplyOps : RestoreOf(r, x)
        BY <2>2, <4>1 DEF WriteInv, OriginInv
      <4> QED
        BY <2>1, <4>1, <4>2 DEF RestoreOf
    <3> QED
      BY <3>1, <3>2
  <2> QED
    BY <2>2 DEF WriteInv, OriginInv
<1> QED
  BY <1>2, <1>4, <1>7, <1>8, <1>9 DEF WriteInv

LEMMA AuthorizationInv ==
    ASSUME WriteInv, NEW o \in ApplyOps, CreateAuthorization(o)
    PROVE  WriteInv'
<1>1. PICK a : a = [current |-> target, desired |-> Compose(proposal[o].content)]
  OBVIOUS
<1>2. /\ auth[o] = NoAuth /\ auth' = [auth EXCEPT ![o] = a]
      /\ proposal[o] # Gone /\ target = proposal[o]
      /\ UNCHANGED <<target, inodes, ledger, backup, effects, overwrote, touched, missed, lock, proc>>
      /\ UNCHANGED <<plan, proposal>>
  BY <1>1 DEF CreateAuthorization, history, VerifyExecutableProposal, HasProposal, TargetIs
<1>3. target \in FileRecs /\ target.content \in Texts
  BY DEF WriteInv, Types, FileRecs
<1>4. ~target.content.managed
  BY <1>2 DEF WriteInv, OriginInv
<1>5. Compose(target.content) \in Texts /\ Compose(target.content).managed
  BY <1>3 DEF Compose, Texts
<1>6. a \in AuthRecs /\ a.desired # a.current.content
  BY <1>1, <1>2, <1>3, <1>4, <1>5 DEF AuthRecs
<1>7. o \in Ops /\ o \notin RestoreOps
  BY ConstantsAssumption DEF Ops
<1> QED
  BY <1>2, <1>6, <1>7, AuthorizeInv

LEMMA RestoreAuthorizationInv ==
    ASSUME WriteInv, NEW r \in RestoreOps, NEW o \in ApplyOps, CreateRestoreAuthorization(r, o)
    PROVE  WriteInv'
<1>1. PICK a : a = [current |-> target, desired |-> backup[o]]
  OBVIOUS
<1>2. /\ auth[r] = NoAuth /\ auth' = [auth EXCEPT ![r] = a]
      /\ Check(o) = "COMMITTED" /\ target.content = auth[o].desired
      /\ UNCHANGED <<target, inodes, ledger, backup, effects, overwrote, touched, missed, lock, proc>>
      /\ UNCHANGED <<plan, proposal>>
  BY <1>1 DEF CreateRestoreAuthorization, history, StillCommitted
<1>3. o \in Ops /\ r \in Ops
  BY DEF Ops
<1>4. ledger[o].receipt = "COMMITTED"
  BY <1>2 DEF Check, CheckTerminal
<1>5. auth[o] # NoAuth /\ backup[o] = auth[o].current.content
  BY <1>3, <1>4, Authorized DEF WriteInv, None
<1>6. auth[o].desired # auth[o].current.content
  BY <1>3, <1>5 DEF WriteInv, OpInv, Distinct
<1>7. a \in AuthRecs
  BY <1>1, <1>3 DEF WriteInv, Types, AuthRecs
<1>8. a.desired = auth[o].current.content /\ a.current.content = auth[o].desired
  BY <1>1, <1>2, <1>5
<1>9. a.desired # a.current.content
  BY <1>6, <1>8
<1> QED
  BY <1>2, <1>3, <1>4, <1>7, <1>8, <1>9, AuthorizeInv

----------------------------------------------------------------------------
(* The steps of the worker.                                                *)

\* A step of the process p on its operation o.
WorksOn(p, o) ==
    /\ LedgerOf(o)
    /\ UNCHANGED <<lock, plan, proposal, auth>>
    /\ ledger[o].receipt = "COMMITTED" => ledger'[o].receipt = "COMMITTED"

LEMMA WorkerInv ==
    ASSUME WriteInv, NEW p \in Procs, NEW o \in Ops, o = proc[p].op, Working(p),
           NEW pc \in WorkPCs, MovesTo(p, pc), WorksOn(p, o), Types',
           \A x \in Ops \ {o} : KeepsOp(x), OpInv(o)', WorkInv(p)'
    PROVE  WriteInv'
<1>1. LockInv'
  BY WorkerKeepsLock DEF WriteInv, WorksOn
<1>2. \A x \in Ops : OpInv(x)'
  BY OpKept DEF WriteInv
<1>3. ASSUME NEW q \in Procs, q # p PROVE WorkInv(q)'
  <2>1. proc'[q] = proc[q] /\ proc[q] \in ProcRecs /\ proc[q].pc \notin WorkPCs
    BY <1>3, WorksAlone DEF MovesTo, OneMoves, Working, WriteInv, Types
  <2>2. proc'[q].pc \in QuietPCs
    BY <2>1 DEF ProcRecs, PCs, WorkPCs, QuietPCs
  <2> QED
    BY <2>2, IdlesNext
<1>4. OriginInv'
  <2>1. \A x \in Ops : ledger[x].receipt = "COMMITTED" => ledger'[x].receipt = "COMMITTED"
    BY DEF WorksOn, LedgerOf
  <2> QED
    BY <2>1, OriginKept DEF WriteInv, WorksOn
<1> QED
  BY <1>1, <1>2, <1>3, <1>4 DEF WriteInv

\* A worker has an authorized operation.
LEMMA WorkerOp ==
    ASSUME WriteInv, NEW p \in Procs, Working(p)
    PROVE  /\ proc[p].op \in Ops /\ auth[proc[p].op] # NoAuth
           /\ OpInv(proc[p].op) /\ WorkInv(p)
           /\ ledger[proc[p].op] \in LedgerRecs
           /\ ledger \in [Ops -> LedgerRecs]
BY DEF WriteInv, LockInv, CallerInv, Working, WorkPCs, Types

\* The steps that write only the ledger: the other operations are as they were.
LEMMA JournalKept ==
    ASSUME UNCHANGED Journal, NEW o \in Ops, LedgerOf(o)
    PROVE  /\ \A x \in Ops \ {o} : KeepsOp(x)
           /\ UNCHANGED <<target, inodes, backup, lock, plan, proposal, auth>>
           /\ UNCHANGED <<effects, overwrote, touched, missed>>
BY DEF Journal, history, records, KeepsOp, LedgerOf

\* An unchanged ledger has the shape of a step on any operation.
LEMMA SameLedger ==
    ASSUME Types, NEW o \in Ops, UNCHANGED ledger
    PROVE  LedgerOf(o)
BY DEF Types, LedgerOf

\* A worker that only records an attention, or nothing, and stops working on the target.
LEMMA StopsInv ==
    ASSUME WriteInv, NEW p \in Procs, NEW o \in Ops, o = proc[p].op, Working(p),
           NEW pc \in {"fail", "release"}, MovesTo(p, pc), LedgerOf(o),
           UNCHANGED <<target, inodes, backup, lock, plan, proposal, auth>>,
           UNCHANGED <<effects, overwrote, touched, missed>>,
           \/ UNCHANGED ledger
           \/ /\ ledger[o].preflight
              /\ ledger'[o].preflight = ledger[o].preflight
              /\ ledger'[o].manifest = ledger[o].manifest
              /\ ledger'[o].intent = ledger[o].intent
              /\ ledger'[o].dispatch = ledger[o].dispatch
              /\ ledger'[o].post = ledger[o].post
              /\ ledger'[o].receipt = ledger[o].receipt
    PROVE  WriteInv'
<1>1. pc \in WorkPCs /\ pc \in QuietPCs
  BY DEF WorkPCs, QuietPCs
<1>2. Types'
  BY DEF WriteInv, Types, MovesTo, OneMoves, LedgerOf
<1>3. \A x \in Ops \ {o} : KeepsOp(x)
  BY DEF KeepsOp, LedgerOf
<1>4. WorksOn(p, o)
  BY DEF WorksOn
<1>5. OpInv(o)'
  <2>1. OpInv(o)
    BY DEF WriteInv
  <2>2. /\ ledger'[o].attention => ledger'[o].preflight
        /\ ledger'[o].preflight = ledger[o].preflight
        /\ ledger'[o].manifest = ledger[o].manifest
        /\ ledger'[o].intent = ledger[o].intent
        /\ ledger'[o].dispatch = ledger[o].dispatch
        /\ ledger'[o].post = ledger[o].post
        /\ ledger'[o].receipt = ledger[o].receipt
    BY <2>1 DEF OpInv, Chain
  <2>3. Unauthorized(o)' /\ Chain(o)' /\ BackedUp(o)' /\ OneEffect(o)'
    BY <2>1, <2>2 DEF OpInv, Unauthorized, Chain, BackedUp, OneEffect
  <2>4. Landed(o)' /\ Distinct(o)' /\ Told(o)'
    BY <2>1, <2>2 DEF OpInv, Landed, Distinct, Told
  <2> QED
    BY <2>3, <2>4 DEF OpInv
<1>6. WorkInv(p)'
  <2>1. proc'[p].pc \in QuietPCs
    BY <1>1 DEF MovesTo
  <2> QED
    BY <2>1, IdlesNext
<1> QED
  BY <1>1, <1>2, <1>3, <1>4, <1>5, <1>6, WorkerInv

\* The target, the backups and the authorizations are as they were.
OnlyJournal ==
    /\ UNCHANGED <<target, inodes, backup, lock, plan, proposal, auth>>
    /\ UNCHANGED <<effects, overwrote, touched, missed>>

LEMMA JournalInv ==
    ASSUME WriteInv, NEW p \in Procs, NEW o \in Ops, o = proc[p].op, Working(p),
           NEW pc \in WorkPCs, MovesTo(p, pc), LedgerOf(o), OnlyJournal,
           ledger[o].receipt = "COMMITTED" => ledger'[o].receipt = "COMMITTED",
           OpInv(o)', WorkInv(p)'
    PROVE  WriteInv'
<1>1. Types'
  BY DEF WriteInv, Types, MovesTo, OneMoves, LedgerOf, OnlyJournal
<1>2. \A x \in Ops \ {o} : KeepsOp(x)
  BY DEF KeepsOp, LedgerOf, OnlyJournal
<1>3. WorksOn(p, o)
  BY DEF WorksOn, OnlyJournal
<1> QED
  BY <1>1, <1>2, <1>3, WorkerInv

LEMMA RaiseInv ==
    ASSUME WriteInv, NEW p \in Procs, Working(p), NEW code \in Codes, Raise(p, code),
           UNCHANGED ledger, OnlyJournal
    PROVE  WriteInv'
<1>1. PICK o \in Ops : o = proc[p].op
  BY WorkerOp
<1>2. MovesTo(p, "fail") /\ LedgerOf(o)
  BY <1>1, RaiseMoves, SameLedger DEF WriteInv
<1> QED
  BY <1>1, <1>2, StopsInv DEF OnlyJournal

LEMMA FailureInv ==
    ASSUME WriteInv, NEW p \in Procs, HandleFailure(p)
    PROVE  WriteInv'
<1>1. Working(p) /\ OnlyJournal /\ Goto(p, "release")
  BY DEF HandleFailure, Working, WorkPCs, OnlyJournal, records, history
<1>2. PICK o \in Ops : o = proc[p].op
  BY <1>1, WorkerOp
<1>3. MovesTo(p, "release")
  BY <1>1, GotoMoves DEF PCs, WriteInv
<1>4. CASE NeedsAttention(o, CodeOf(p))
  <2>1. PICK l : l = Attention(ledger[o], CodeOf(p))
    OBVIOUS
  <2>2. ledger' = [ledger EXCEPT ![o] = l]
    BY <1>2, <1>4, <2>1 DEF HandleFailure
  <2>3. ledger[o] \in LedgerRecs /\ proc[p].code \in Codes /\ ledger \in [Ops -> LedgerRecs]
    BY DEF WriteInv, Types, ProcRecs
  <2>4. CodeOf(p) \in Codes
    BY <2>3 DEF CodeOf, Codes
  <2>5. /\ l \in LedgerRecs /\ l.preflight = ledger[o].preflight
        /\ l.manifest = ledger[o].manifest /\ l.intent = ledger[o].intent
        /\ l.dispatch = ledger[o].dispatch /\ l.post = ledger[o].post
        /\ l.receipt = ledger[o].receipt
    BY <2>1, <2>3, <2>4 DEF Attention, LedgerRecs
  <2>6. LedgerOf(o) /\ ledger'[o] = l
    BY <2>2, <2>3, <2>5 DEF LedgerOf
  <2>7. ledger[o].preflight
    BY <1>4 DEF NeedsAttention, Opened
  <2> QED
    BY <1>1, <1>2, <1>3, <2>5, <2>6, <2>7, StopsInv DEF OnlyJournal
<1>5. CASE ~NeedsAttention(o, CodeOf(p))
  <2>1. UNCHANGED ledger
    BY <1>2, <1>5 DEF HandleFailure
  <2>2. LedgerOf(o)
    BY <2>1, SameLedger DEF WriteInv
  <2> QED
    BY <1>1, <1>2, <1>3, <2>1, <2>2, StopsInv DEF OnlyJournal
<1> QED
  BY <1>4, <1>5

\* The first observation, or a recovery: the barrier before the intent is open.
LEMMA BarrierInv ==
    ASSUME WriteInv, NEW p \in Procs, Working(p), NEW o \in Ops, o = proc[p].op,
           NEW new \in LedgerRecs, Append(o, new), OnlyJournal,
           proc' = [proc EXCEPT ![p].pc = "backup", ![p].saw = target],
           target = auth[o].current, ~ledger[o].intent,
           new.preflight, ~new.attention, new.manifest = ledger[o].manifest,
           new.intent = ledger[o].intent, new.dispatch = ledger[o].dispatch,
           new.post = ledger[o].post, new.receipt = ledger[o].receipt
    PROVE  WriteInv'
<1>1. PICK r : r = [proc[p] EXCEPT !.pc = "backup", !.saw = target]
  OBVIOUS
<1>2. proc' = [proc EXCEPT ![p] = r]
  BY <1>1
<1>3. proc[p] \in ProcRecs /\ proc \in [Procs -> ProcRecs] /\ target \in FileRecs
  BY DEF WriteInv, Types
<1>4. r \in ProcRecs /\ r.pc = "backup" /\ r.saw = target /\ r.op = proc[p].op
      /\ r.fd = proc[p].fd /\ r.held = proc[p].held /\ r.created = proc[p].created
  BY <1>1, <1>3 DEF ProcRecs, PCs
<1>5. MovesTo(p, "backup") /\ proc'[p].saw = target
  BY <1>2, <1>3, <1>4 DEF MovesTo, OneMoves
<1>6. /\ LedgerOf(o)
      /\ ledger'[o].preflight /\ ~ledger'[o].attention
      /\ ledger'[o].manifest = ledger[o].manifest
      /\ ledger'[o].intent = ledger[o].intent /\ ledger'[o].dispatch = ledger[o].dispatch
      /\ ledger'[o].post = ledger[o].post /\ ledger'[o].receipt = ledger[o].receipt
  BY AppendShape DEF WriteInv
<1>7. OpInv(o) /\ auth[o] # NoAuth
  BY WorkerOp
<1>8. OpInv(o)'
  <2>1. Unauthorized(o)' /\ Chain(o)' /\ BackedUp(o)' /\ OneEffect(o)'
    BY <1>6, <1>7 DEF OpInv, OnlyJournal, Unauthorized, Chain, BackedUp, OneEffect
  <2>2. Landed(o)' /\ Distinct(o)' /\ Told(o)'
    BY <1>6, <1>7 DEF OpInv, OnlyJournal, Landed, Distinct, Told
  <2> QED
    BY <2>1, <2>2 DEF OpInv
<1>9. WorkInv(p)'
  <2>1. proc'[p].pc = "backup" /\ proc'[p].op = o
    BY <1>5 DEF MovesTo
  <2> QED
    BY <1>5, <1>6, <2>1
       DEF WorkInv, OnlyJournal, Preparing, Staging, Dispatching, Concluding
<1>10. "backup" \in WorkPCs
  BY DEF WorkPCs
<1> QED
  BY <1>5, <1>6, <1>8, <1>9, <1>10, JournalInv

LEMMA BeginInv ==
    ASSUME WriteInv, NEW p \in Procs, Working(p), NEW inputsHold, Begin(p, inputsHold),
           inputsHold => target = auth[proc[p].op].current, OnlyJournal
    PROVE  WriteInv'
<1>1. PICK o \in Ops : o = proc[p].op
  BY WorkerOp
<1>2. OpInv(o) /\ ledger[o] \in LedgerRecs
  BY <1>1, WorkerOp
<1>3. CASE \E code \in Codes : Raise(p, code) /\ UNCHANGED ledger
  BY <1>3, RaiseInv
<1>4. CASE /\ inputsHold /\ ~Opened(o)
           /\ Append(o, [ledger[o] EXCEPT !.preflight = TRUE])
           /\ proc' = [proc EXCEPT ![p].pc = "backup", ![p].saw = target]
  <2>1. PICK new : new = [ledger[o] EXCEPT !.preflight = TRUE]
    OBVIOUS
  <2>2. /\ new \in LedgerRecs /\ new.preflight /\ new.attention = ledger[o].attention
        /\ new.manifest = ledger[o].manifest /\ new.intent = ledger[o].intent
        /\ new.dispatch = ledger[o].dispatch /\ new.post = ledger[o].post
        /\ new.receipt = ledger[o].receipt
    BY <1>2, <2>1 DEF LedgerRecs
  <2>3. ~ledger[o].attention /\ ~ledger[o].intent
    BY <1>2, <1>4 DEF OpInv, Chain, Opened
  <2>4. Append(o, new)
    BY <1>4, <2>1
  <2> QED
    BY <1>1, <1>4, <2>2, <2>3, <2>4, BarrierInv
<1>5. CASE /\ inputsHold /\ Opened(o) /\ ~ledger[o].intent
           /\ Append(o, Recovered(ledger[o]))
           /\ proc' = [proc EXCEPT ![p].pc = "backup", ![p].saw = target]
  <2>1. PICK new : new = Recovered(ledger[o])
    OBVIOUS
  <2>2. /\ new \in LedgerRecs /\ ~new.attention /\ new.preflight = ledger[o].preflight
        /\ new.manifest = ledger[o].manifest /\ new.intent = ledger[o].intent
        /\ new.dispatch = ledger[o].dispatch /\ new.post = ledger[o].post
        /\ new.receipt = ledger[o].receipt
    BY <1>2, <2>1 DEF Recovered, LedgerRecs
  <2>3. ledger[o].preflight /\ ~ledger[o].intent
    BY <1>5 DEF Opened
  <2>4. Append(o, new)
    BY <1>5, <2>1
  <2> QED
    BY <1>1, <1>5, <2>2, <2>3, <2>4, BarrierInv
<1> QED
  BY <1>1, <1>3, <1>4, <1>5 DEF Begin, Codes

LEMMA CheckInv ==
    ASSUME WriteInv, NEW p \in Procs, CheckApply(p) \/ CheckRestore(p)
    PROVE  WriteInv'
<1>1. Working(p) /\ OnlyJournal
  BY DEF CheckApply, CheckRestore, Working, WorkPCs, Journal, records, history, OnlyJournal
<1>2. CASE \E code \in Codes : Raise(p, code) /\ UNCHANGED ledger
  BY <1>1, <1>2, RaiseInv
<1>3. CASE Begin(p, ApplyInputsHold(proc[p].op))
  BY <1>1, <1>3, BeginInv DEF ApplyInputsHold
<1>4. CASE Begin(p, RestoreInputsHold(proc[p].op))
  BY <1>1, <1>4, BeginInv DEF RestoreInputsHold
<1> QED
  BY <1>2, <1>3, <1>4 DEF CheckApply, CheckRestore, Codes

LEMMA BackupInv ==
    ASSUME WriteInv, NEW p \in Procs, EnsureBackup(p)
    PROVE  WriteInv'
<1>1. /\ proc[p].pc = "backup" /\ Working(p)
      /\ UNCHANGED <<target, inodes, ledger, lock, plan, proposal, auth>>
      /\ UNCHANGED <<effects, overwrote, touched, missed>>
  BY DEF EnsureBackup, Working, WorkPCs, records, history
<1>2. PICK o \in Ops : o = proc[p].op
  BY <1>1, WorkerOp
<1>3. OpInv(o) /\ WorkInv(p) /\ LedgerOf(o) /\ backup \in [Ops -> Texts]
  BY <1>1, <1>2, WorkerOp, SameLedger DEF WriteInv, Types
<1>4. proc[p].saw = auth[o].current /\ auth[o].current.content \in Texts
      /\ ledger[o].preflight /\ ~ledger[o].attention /\ ~ledger[o].intent
  BY <1>1, <1>2, <1>3 DEF WorkInv, Preparing, WriteInv, Types, AuthRecs, FileRecs
<1>5. Goto(p, "manifest") /\ backup' = [backup EXCEPT ![o] = auth[o].current.content]
  <2>1. backup[o] \in {NoContent, proc[p].saw.content}
    BY <1>3, <1>4 DEF OpInv, BackedUp
  <2> QED
    BY <1>2, <1>4, <2>1 DEF EnsureBackup
<1>6. MovesTo(p, "manifest") /\ proc'[p].saw = proc[p].saw
  BY <1>5, GotoMoves DEF PCs, WriteInv
<1>7. Types'
  BY <1>1, <1>3, <1>4, <1>5, <1>6 DEF WriteInv, Types, MovesTo, OneMoves
<1>8. /\ backup'[o] = auth[o].current.content
      /\ \A x \in Ops \ {o} : backup'[x] = backup[x]
  BY <1>3, <1>5
<1>9. \A x \in Ops \ {o} : KeepsOp(x)
  BY <1>1, <1>8 DEF KeepsOp
<1>10. OpInv(o)'
  <2>1. auth[o] # NoAuth
    BY <1>1, <1>2, WorkerOp
  <2>2. Unauthorized(o)' /\ Chain(o)' /\ BackedUp(o)' /\ OneEffect(o)'
    BY <1>1, <1>3, <1>8, <2>1 DEF OpInv, Unauthorized, Chain, BackedUp, OneEffect
  <2>3. Landed(o)' /\ Distinct(o)' /\ Told(o)'
    BY <1>1, <1>3 DEF OpInv, Landed, Distinct, Told
  <2> QED
    BY <2>2, <2>3 DEF OpInv
<1>11. WorkInv(p)'
  <2>1. proc'[p].pc = "manifest" /\ proc'[p].op = o
    BY <1>2, <1>6 DEF MovesTo
  <2> QED
    BY <1>1, <1>4, <1>6, <1>8, <2>1 DEF WorkInv, Preparing, Staging, Dispatching, Concluding
<1>12. "manifest" \in WorkPCs /\ WorksOn(p, o)
  BY <1>1, <1>3 DEF WorkPCs, WorksOn
<1> QED
  BY <1>1, <1>2, <1>6, <1>7, <1>9, <1>10, <1>11, <1>12, WorkerInv

LEMMA ManifestInv ==
    ASSUME WriteInv, NEW p \in Procs, RecordManifest(p)
    PROVE  WriteInv'
<1>1. proc[p].pc = "manifest" /\ Working(p) /\ OnlyJournal /\ Goto(p, "intent")
  BY DEF RecordManifest, Working, WorkPCs, Journal, records, history, OnlyJournal
<1>2. PICK o \in Ops : o = proc[p].op
  BY <1>1, WorkerOp
<1>3. OpInv(o) /\ WorkInv(p) /\ ledger[o] \in LedgerRecs /\ auth[o] # NoAuth
  BY <1>1, <1>2, WorkerOp
<1>4. proc[p].saw = auth[o].current /\ backup[o] = auth[o].current.content
      /\ ledger[o].preflight /\ ~ledger[o].attention /\ ~ledger[o].intent
  BY <1>1, <1>2, <1>3 DEF WorkInv, Preparing
<1>5. MovesTo(p, "intent") /\ proc'[p].saw = proc[p].saw
  BY <1>1, GotoMoves DEF PCs, WriteInv
<1>6. /\ LedgerOf(o)
      /\ ledger'[o].manifest /\ ledger'[o].preflight = ledger[o].preflight
      /\ ledger'[o].attention = ledger[o].attention /\ ledger'[o].intent = ledger[o].intent
      /\ ledger'[o].dispatch = ledger[o].dispatch /\ ledger'[o].post = ledger[o].post
      /\ ledger'[o].receipt = ledger[o].receipt
  <2>1. CASE ledger[o].manifest
    BY <1>2, <2>1, SameLedger DEF RecordManifest, WriteInv
  <2>2. CASE ~ledger[o].manifest
    <3>1. PICK new : new = [ledger[o] EXCEPT !.manifest = TRUE]
      OBVIOUS
    <3>2. /\ new \in LedgerRecs /\ new.manifest /\ new.preflight = ledger[o].preflight
          /\ new.attention = ledger[o].attention /\ new.intent = ledger[o].intent
          /\ new.dispatch = ledger[o].dispatch /\ new.post = ledger[o].post
          /\ new.receipt = ledger[o].receipt
      BY <1>3, <3>1 DEF LedgerRecs
    <3>3. Append(o, new)
      BY <1>2, <2>2, <3>1 DEF RecordManifest
    <3> QED
      BY <3>2, <3>3, AppendShape DEF WriteInv
  <2> QED
    BY <2>1, <2>2
<1>7. OpInv(o)'
  <2>1. Unauthorized(o)' /\ Chain(o)' /\ BackedUp(o)' /\ OneEffect(o)'
    BY <1>1, <1>3, <1>4, <1>6 DEF OpInv, OnlyJournal, Unauthorized, Chain, BackedUp, OneEffect
  <2>2. Landed(o)' /\ Distinct(o)' /\ Told(o)'
    BY <1>1, <1>3, <1>6 DEF OpInv, OnlyJournal, Landed, Distinct, Told
  <2> QED
    BY <2>1, <2>2 DEF OpInv
<1>8. WorkInv(p)'
  <2>1. proc'[p].pc = "intent" /\ proc'[p].op = o
    BY <1>2, <1>5 DEF MovesTo
  <2> QED
    BY <1>1, <1>4, <1>5, <1>6, <2>1
       DEF WorkInv, OnlyJournal, Preparing, Staging, Dispatching, Concluding
<1>9. "intent" \in WorkPCs
  BY DEF WorkPCs
<1> QED
  BY <1>1, <1>2, <1>5, <1>6, <1>7, <1>8, <1>9, JournalInv

LEMMA IntentInv ==
    ASSUME WriteInv, NEW p \in Procs, RecordIntent(p)
    PROVE  WriteInv'
<1>1. proc[p].pc = "intent" /\ Working(p) /\ OnlyJournal /\ Goto(p, "stage")
  BY DEF RecordIntent, Working, WorkPCs, Journal, records, history, OnlyJournal
<1>2. PICK o \in Ops : o = proc[p].op
  BY <1>1, WorkerOp
<1>3. OpInv(o) /\ WorkInv(p) /\ ledger[o] \in LedgerRecs /\ auth[o] # NoAuth
  BY <1>1, <1>2, WorkerOp
<1>4. proc[p].saw = auth[o].current /\ ledger[o].manifest
      /\ ledger[o].preflight /\ ~ledger[o].attention /\ ~ledger[o].intent
  BY <1>1, <1>2, <1>3 DEF WorkInv, Preparing
<1>5. MovesTo(p, "stage") /\ proc'[p].saw = proc[p].saw
  BY <1>1, GotoMoves DEF PCs, WriteInv
<1>6. /\ LedgerOf(o)
      /\ ledger'[o].intent /\ ledger'[o].preflight = ledger[o].preflight
      /\ ledger'[o].attention = ledger[o].attention
      /\ ledger'[o].manifest = ledger[o].manifest
      /\ ledger'[o].dispatch = ledger[o].dispatch /\ ledger'[o].post = ledger[o].post
      /\ ledger'[o].receipt = ledger[o].receipt
  <2>1. PICK new : new = [ledger[o] EXCEPT !.intent = TRUE]
    OBVIOUS
  <2>2. /\ new \in LedgerRecs /\ new.intent /\ new.preflight = ledger[o].preflight
        /\ new.attention = ledger[o].attention /\ new.manifest = ledger[o].manifest
        /\ new.dispatch = ledger[o].dispatch /\ new.post = ledger[o].post
        /\ new.receipt = ledger[o].receipt
    BY <1>3, <2>1 DEF LedgerRecs
  <2>3. Append(o, new)
    BY <1>2, <2>1 DEF RecordIntent
  <2> QED
    BY <2>2, <2>3, AppendShape DEF WriteInv
<1>7. ~ledger[o].dispatch /\ ledger[o].post = None /\ ledger[o].receipt = None
  BY <1>3, <1>4 DEF OpInv, Chain
<1>8. OpInv(o)'
  <2>1. Unauthorized(o)' /\ Chain(o)' /\ BackedUp(o)' /\ OneEffect(o)'
    BY <1>1, <1>3, <1>4, <1>6 DEF OpInv, OnlyJournal, Unauthorized, Chain, BackedUp, OneEffect
  <2>2. Landed(o)' /\ Distinct(o)' /\ Told(o)'
    BY <1>1, <1>3, <1>6 DEF OpInv, OnlyJournal, Landed, Distinct, Told
  <2> QED
    BY <2>1, <2>2 DEF OpInv
<1>9. WorkInv(p)'
  <2>1. proc'[p].pc = "stage" /\ proc'[p].op = o
    BY <1>2, <1>5 DEF MovesTo
  <2> QED
    BY <1>1, <1>4, <1>5, <1>6, <1>7, <2>1
       DEF WorkInv, OnlyJournal, Preparing, Staging, Dispatching, Concluding
<1>10. "stage" \in WorkPCs
  BY DEF WorkPCs
<1> QED
  BY <1>1, <1>2, <1>5, <1>6, <1>8, <1>9, <1>10, JournalInv

LEMMA StageInv ==
    ASSUME WriteInv, NEW p \in Procs, Stage(p)
    PROVE  WriteInv'
<1>1. proc[p].pc = "stage" /\ Working(p) /\ OnlyJournal /\ UNCHANGED ledger
  BY DEF Stage, Working, WorkPCs, Journal, records, history, OnlyJournal
<1>2. PICK o \in Ops : o = proc[p].op
  BY <1>1, WorkerOp
<1>3. OpInv(o) /\ WorkInv(p) /\ LedgerOf(o)
  BY <1>1, <1>2, WorkerOp, SameLedger DEF WriteInv
<1>4. PICK pc \in {"dispatch", "fail"}, code \in Codes :
        /\ proc' = [proc EXCEPT ![p].pc = pc, ![p].code = code]
        /\ pc = "dispatch" => target = proc[p].saw
  BY DEF Stage, Codes
<1>5. MovesTo(p, pc) /\ proc'[p].saw = proc[p].saw
  <2>1. PICK r : r = [proc[p] EXCEPT !.pc = pc, !.code = code]
    OBVIOUS
  <2>2. proc' = [proc EXCEPT ![p] = r]
    BY <1>4, <2>1
  <2>3. proc[p] \in ProcRecs /\ proc \in [Procs -> ProcRecs]
    BY DEF WriteInv, Types
  <2>4. r \in ProcRecs /\ r.pc = pc /\ r.saw = proc[p].saw /\ r.op = proc[p].op
        /\ r.fd = proc[p].fd /\ r.held = proc[p].held /\ r.created = proc[p].created
    BY <2>1, <2>3 DEF ProcRecs, PCs
  <2> QED
    BY <2>2, <2>3, <2>4 DEF MovesTo, OneMoves
<1>6. CASE pc = "fail"
  BY <1>1, <1>2, <1>3, <1>5, <1>6, StopsInv DEF OnlyJournal
<1>7. CASE pc = "dispatch"
  <2>1. OpInv(o)'
    BY <1>1, <1>3, OpKept DEF OnlyJournal, KeepsOp
  <2>2. proc'[p].pc = "dispatch" /\ proc'[p].op = o
    BY <1>2, <1>5, <1>7 DEF MovesTo
  <2>3. Staging(p)
    BY <1>3 DEF WorkInv
  <2>4. WorkInv(p)'
    BY <1>1, <1>2, <1>4, <1>5, <1>7, <2>2, <2>3
       DEF WorkInv, OnlyJournal, Preparing, Staging, Dispatching, Concluding
  <2>5. "dispatch" \in WorkPCs
    BY DEF WorkPCs
  <2> QED
    BY <1>1, <1>2, <1>3, <1>5, <1>7, <2>1, <2>4, <2>5, JournalInv
<1> QED
  BY <1>6, <1>7

LEMMA DispatchInv ==
    ASSUME WriteInv, NEW p \in Procs, RecordDispatch(p)
    PROVE  WriteInv'
<1>1. proc[p].pc = "dispatch" /\ Working(p) /\ OnlyJournal /\ Goto(p, "replace")
  BY DEF RecordDispatch, Working, WorkPCs, Journal, records, history, OnlyJournal
<1>2. PICK o \in Ops : o = proc[p].op
  BY <1>1, WorkerOp
<1>3. OpInv(o) /\ WorkInv(p) /\ ledger[o] \in LedgerRecs /\ auth[o] # NoAuth
  BY <1>1, <1>2, WorkerOp
<1>4. /\ proc[p].saw = auth[o].current /\ ledger[o].intent /\ ~ledger[o].dispatch
      /\ ledger[o].receipt = None /\ (~touched[o] => target = proc[p].saw)
  BY <1>1, <1>2, <1>3 DEF WorkInv, Staging
<1>5. MovesTo(p, "replace") /\ proc'[p].saw = proc[p].saw
  BY <1>1, GotoMoves DEF PCs, WriteInv
<1>6. /\ LedgerOf(o)
      /\ ledger'[o].dispatch /\ ledger'[o].preflight = ledger[o].preflight
      /\ ledger'[o].attention = ledger[o].attention
      /\ ledger'[o].manifest = ledger[o].manifest
      /\ ledger'[o].intent = ledger[o].intent /\ ledger'[o].post = ledger[o].post
      /\ ledger'[o].receipt = ledger[o].receipt
  <2>1. PICK new : new = [ledger[o] EXCEPT !.dispatch = TRUE]
    OBVIOUS
  <2>2. /\ new \in LedgerRecs /\ new.dispatch /\ new.preflight = ledger[o].preflight
        /\ new.attention = ledger[o].attention /\ new.manifest = ledger[o].manifest
        /\ new.intent = ledger[o].intent /\ new.post = ledger[o].post
        /\ new.receipt = ledger[o].receipt
    BY <1>3, <2>1 DEF LedgerRecs
  <2>3. Append(o, new)
    BY <1>2, <2>1 DEF RecordDispatch
  <2> QED
    BY <2>2, <2>3, AppendShape DEF WriteInv
<1>7. effects[o] = 0
  BY <1>3, <1>4 DEF OpInv, OneEffect
<1>8. OpInv(o)'
  <2>1. Unauthorized(o)' /\ Chain(o)' /\ BackedUp(o)' /\ OneEffect(o)'
    BY <1>1, <1>3, <1>4, <1>6, <1>7
       DEF OpInv, OnlyJournal, Unauthorized, Chain, BackedUp, OneEffect
  <2>2. Landed(o)' /\ Distinct(o)' /\ Told(o)'
    BY <1>1, <1>3, <1>4, <1>6, <1>7 DEF OpInv, OnlyJournal, Landed, Distinct, Told
  <2> QED
    BY <2>1, <2>2 DEF OpInv
<1>9. WorkInv(p)'
  <2>1. proc'[p].pc = "replace" /\ proc'[p].op = o
    BY <1>2, <1>5 DEF MovesTo
  <2> QED
    BY <1>1, <1>4, <1>5, <1>6, <1>7, <2>1
       DEF WorkInv, OnlyJournal, Preparing, Staging, Dispatching, Concluding
<1>10. "replace" \in WorkPCs
  BY DEF WorkPCs
<1> QED
  BY <1>1, <1>2, <1>5, <1>6, <1>8, <1>9, <1>10, JournalInv

\* The last look: the target is the authorized file, for the moment.
LEMMA LookInv ==
    ASSUME WriteInv, NEW p \in Procs, LastLook(p)
    PROVE  WriteInv'
<1>1. proc[p].pc = "replace" /\ Working(p) /\ OnlyJournal /\ UNCHANGED ledger
  BY DEF LastLook, Working, WorkPCs, Journal, records, history, OnlyJournal
<1>2. PICK o \in Ops : o = proc[p].op
  BY <1>1, WorkerOp
<1>3. OpInv(o) /\ WorkInv(p) /\ LedgerOf(o)
  BY <1>1, <1>2, WorkerOp, SameLedger DEF WriteInv
<1>4. CASE ~Unchanged(p)
  <2>1. PICK code \in Codes : Raise(p, code)
    BY <1>4 DEF LastLook, Codes
  <2> QED
    BY <1>1, <2>1, RaiseInv
<1>5. CASE Unchanged(p)
  <2>1. Goto(p, "swap") /\ target = proc[p].saw
    BY <1>5 DEF LastLook, Unchanged
  <2>2. MovesTo(p, "swap")
    BY <2>1, GotoMoves DEF PCs, WriteInv
  <2>3. OpInv(o)'
    BY <1>1, <1>3, OpKept DEF OnlyJournal, KeepsOp
  <2>4. /\ target = auth[o].current /\ effects[o] = 0
        /\ ledger[o].dispatch /\ ledger[o].receipt = None
    BY <1>1, <1>2, <1>3, <2>1 DEF WorkInv, Dispatching
  <2>5. WorkInv(p)'
    <3>1. proc'[p].pc = "swap" /\ proc'[p].op = o
      BY <1>2, <2>2 DEF MovesTo
    <3> QED
      BY <1>1, <2>4, <3>1
         DEF WorkInv, OnlyJournal, Preparing, Staging, Dispatching, Concluding
  <2>6. "swap" \in WorkPCs
    BY DEF WorkPCs
  <2> QED
    BY <1>1, <1>2, <1>3, <2>2, <2>3, <2>5, <2>6, JournalInv
<1> QED
  BY <1>4, <1>5

\* os.replace: the one step that writes the target.
LEMMA ReplaceInv ==
    ASSUME WriteInv, NEW p \in Procs, Replace(p)
    PROVE  WriteInv'
<1>1. /\ proc[p].pc = "swap" /\ Working(p) /\ Goto(p, "observe")
      /\ UNCHANGED <<ledger, backup, lock, plan, proposal, auth, missed>>
  BY DEF Replace, Working, WorkPCs, records
<1>2. PICK o \in Ops : o = proc[p].op
  BY <1>1, WorkerOp
<1>3. OpInv(o) /\ WorkInv(p) /\ LedgerOf(o) /\ auth[o] # NoAuth
  BY <1>1, <1>2, WorkerOp, SameLedger DEF WriteInv
<1>4. /\ ~missed[o] => target = auth[o].current
      /\ effects[o] = 0
      /\ ledger[o].dispatch /\ ledger[o].receipt = None
  BY <1>1, <1>2, <1>3 DEF WorkInv, Dispatching
<1>5. MovesTo(p, "observe")
  BY <1>1, GotoMoves DEF PCs, WriteInv
<1>6. PICK f : f = [content |-> auth[o].desired, inode |-> inodes + 1]
  OBVIOUS
<1>7. /\ target' = f /\ inodes' = inodes + 1
      /\ effects' = [effects EXCEPT ![o] = effects[o] + 1]
      /\ overwrote' = [overwrote EXCEPT ![o] = target.content]
      /\ touched' = [x \in Ops |-> touched[x] \/ (x # o /\ Undecided(x))]
  BY <1>2, <1>6 DEF Replace
<1>8. Types'
  <2>1. f \in FileRecs /\ inodes + 1 \in Nat /\ target.content \in Texts /\ effects[o] + 1 \in Nat
    BY <1>6 DEF WriteInv, Types, FileRecs, AuthRecs
  <2>2. touched' \in [Ops -> BOOLEAN]
    <3>1. \A x \in Ops : (touched[x] \/ (x # o /\ Undecided(x))) \in BOOLEAN
      OBVIOUS
    <3> QED
      BY <1>7, <3>1
  <2>3. effects' \in [Ops -> Nat] /\ overwrote' \in [Ops -> Texts]
    BY <1>7, <2>1 DEF WriteInv, Types
  <2> QED
    BY <1>1, <1>5, <1>7, <2>1, <2>2, <2>3 DEF WriteInv, Types, MovesTo, OneMoves
<1>9. /\ effects'[o] = 1
      /\ missed[o] \/ overwrote'[o] = auth[o].current.content
      /\ touched'[o] = touched[o] /\ target'.content = auth[o].desired
  <2>1. effects'[o] = effects[o] + 1 /\ overwrote'[o] = target.content
    BY <1>7 DEF WriteInv, Types
  <2>2. touched'[o] <=> touched[o]
    BY <1>7
  <2>3. touched[o] \in BOOLEAN /\ touched'[o] \in BOOLEAN
    BY <1>8 DEF WriteInv, Types
  <2> QED
    BY <1>4, <1>6, <1>7, <2>1, <2>2, <2>3
<1>10. ASSUME NEW x \in Ops, x # o PROVE KeepsOp(x)
  <2>1. effects'[x] = effects[x] /\ overwrote'[x] = overwrote[x]
    BY <1>7, <1>10 DEF WriteInv, Types
  <2>2. touched'[x] <=> touched[x] \/ Undecided(x)
    BY <1>7, <1>10
  <2>3. ~AtSwap(x)
    <3>1. ASSUME NEW q \in Procs, proc[q].pc = "swap", q # p PROVE FALSE
      BY <1>1, <3>1, WorksAlone DEF WriteInv, Working, WorkPCs
    <3> QED
      BY <1>2, <1>10, <3>1 DEF AtSwap
  <2> QED
    BY <1>1, <2>1, <2>2, <2>3 DEF KeepsOp
<1>11. OpInv(o)'
  <2>1. Unauthorized(o)' /\ Chain(o)' /\ BackedUp(o)' /\ OneEffect(o)'
    BY <1>1, <1>3, <1>4, <1>9 DEF OpInv, Unauthorized, Chain, BackedUp, OneEffect
  <2>2. Landed(o)' /\ Distinct(o)' /\ Told(o)'
    BY <1>1, <1>3, <1>4, <1>9 DEF OpInv, Landed, Distinct, Told, None
  <2> QED
    BY <2>1, <2>2 DEF OpInv
<1>12. WorkInv(p)'
  <2>1. proc'[p].pc = "observe" /\ proc'[p].op = o
    BY <1>2, <1>5 DEF MovesTo
  <2> QED
    BY <1>1, <1>4, <1>9, <2>1 DEF WorkInv, Preparing, Staging, Dispatching, Concluding
<1>13. "observe" \in WorkPCs /\ WorksOn(p, o)
  BY <1>1, <1>3 DEF WorkPCs, WorksOn
<1> QED
  BY <1>1, <1>2, <1>5, <1>8, <1>10, <1>11, <1>12, <1>13, WorkerInv

LEMMA FailsInv ==
    ASSUME WriteInv, NEW p \in Procs, ReplaceFails(p)
    PROVE  WriteInv'
<1>1. Working(p) /\ OnlyJournal /\ UNCHANGED ledger
  BY DEF ReplaceFails, Working, WorkPCs, Kernel, records, history, OnlyJournal
<1>2. PICK code \in Codes : Raise(p, code)
  BY DEF ReplaceFails, Codes
<1> QED
  BY <1>1, <1>2, RaiseInv

\* A recorded observation of the target, and what the process concludes from it.
LEMMA ObservedInv ==
    ASSUME WriteInv, NEW p \in Procs, Working(p), NEW o \in Ops, o = proc[p].op,
           NEW post \in {"match", "nomatch"},
           Append(o, [ledger[o] EXCEPT !.post = post, !.seen = target]), OnlyJournal,
           NEW pc \in {"receipt", "fail"}, NEW code \in Codes,
           NEW state \in {"COMMITTED", "FAILED_NO_EFFECT"},
           proc' = [proc EXCEPT ![p].pc = pc, ![p].state = state, ![p].code = code],
           ledger[o].intent,
           pc = "receipt" =>
              /\ ledger[o].receipt = None
              /\ state = "COMMITTED" => post = "match" /\ ledger[o].dispatch
              /\ state = "FAILED_NO_EFFECT" => post = "nomatch"
              /\ ~touched[o] => /\ state = "COMMITTED" => effects[o] = 1
                                /\ state = "FAILED_NO_EFFECT" => effects[o] = 0
    PROVE  WriteInv'
<1>1. MovesTo(p, pc) /\ proc'[p].state = state
  <2>1. PICK r : r = [proc[p] EXCEPT !.pc = pc, !.state = state, !.code = code]
    OBVIOUS
  <2>2. proc' = [proc EXCEPT ![p] = r]
    BY <2>1
  <2>3. proc[p] \in ProcRecs /\ proc \in [Procs -> ProcRecs]
    BY DEF WriteInv, Types
  <2>4. r \in ProcRecs /\ r.pc = pc /\ r.state = state /\ r.op = proc[p].op
        /\ r.fd = proc[p].fd /\ r.held = proc[p].held /\ r.created = proc[p].created
    BY <2>1, <2>3 DEF ProcRecs, PCs
  <2>5. proc' \in [Procs -> ProcRecs] /\ proc'[p] = r
        /\ \A q \in Procs \ {p} : proc'[q] = proc[q]
    BY ONLY <2>2, <2>3, <2>4, p \in Procs
  <2> QED
    BY <2>4, <2>5 DEF MovesTo, OneMoves
<1>2. /\ LedgerOf(o)
      /\ ledger'[o].post = post /\ ledger'[o].preflight = ledger[o].preflight
      /\ ledger'[o].attention = ledger[o].attention
      /\ ledger'[o].manifest = ledger[o].manifest
      /\ ledger'[o].intent = ledger[o].intent /\ ledger'[o].dispatch = ledger[o].dispatch
      /\ ledger'[o].receipt = ledger[o].receipt
  <2>1. PICK new : new = [ledger[o] EXCEPT !.post = post, !.seen = target]
    OBVIOUS
  <2>2. ledger[o] \in LedgerRecs /\ target \in FileRecs
    BY DEF WriteInv, Types
  <2>3. /\ new \in LedgerRecs /\ new.post = post /\ new.preflight = ledger[o].preflight
        /\ new.attention = ledger[o].attention /\ new.manifest = ledger[o].manifest
        /\ new.intent = ledger[o].intent /\ new.dispatch = ledger[o].dispatch
        /\ new.receipt = ledger[o].receipt
    BY <2>1, <2>2 DEF LedgerRecs
  <2>4. Append(o, new)
    BY <2>1
  <2> QED
    BY <2>3, <2>4, AppendShape DEF WriteInv
<1>3. OpInv(o)'
  <2>1. OpInv(o)
    BY DEF WriteInv
  <2>2. Unauthorized(o)' /\ Chain(o)' /\ BackedUp(o)' /\ OneEffect(o)'
    BY <1>2, <2>1 DEF OpInv, OnlyJournal, Unauthorized, Chain, BackedUp, OneEffect
  <2>3. Landed(o)' /\ Distinct(o)' /\ Told(o)'
    BY <1>2, <2>1 DEF OpInv, OnlyJournal, Landed, Distinct, Told
  <2> QED
    BY <2>2, <2>3 DEF OpInv
<1>4. WorkInv(p)'
  <2>1. proc'[p].pc = pc /\ proc'[p].op = o
    BY <1>1 DEF MovesTo
  <2>2. CASE pc = "fail"
    BY <2>1, <2>2, IdlesNext DEF QuietPCs
  <2>3. CASE pc = "receipt"
    <3>1. Concluding(p)'
      BY <1>1, <1>2, <2>1, <2>3 DEF OnlyJournal, Concluding
    <3> QED
      BY <2>1, <2>3, <3>1 DEF WorkInv, Preparing, Staging, Dispatching
  <2> QED
    BY <2>2, <2>3
<1>5. pc \in WorkPCs
  BY DEF WorkPCs
<1> QED
  BY <1>1, <1>2, <1>3, <1>4, <1>5, JournalInv

LEMMA ObserveInv ==
    ASSUME WriteInv, NEW p \in Procs, Observe(p)
    PROVE  WriteInv'
<1>1. proc[p].pc = "observe" /\ Working(p) /\ OnlyJournal
  BY DEF Observe, Working, WorkPCs, records, history, OnlyJournal
<1>2. PICK o \in Ops : o = proc[p].op
  BY <1>1, WorkerOp
<1>3. OpInv(o) /\ WorkInv(p)
  BY <1>1, <1>2, WorkerOp
<1>4. effects[o] = 1 /\ ledger[o].dispatch /\ ledger[o].receipt = None /\ ledger[o].intent
  BY <1>1, <1>2, <1>3 DEF WorkInv, Dispatching, OpInv, Chain
<1>5. PICK ok \in BOOLEAN :
        /\ IF PostOf(o) # None
           THEN Append(o, [ledger[o] EXCEPT !.post = PostOf(o), !.seen = target])
           ELSE UNCHANGED ledger
        /\ proc' = [proc EXCEPT
              ![p].pc = IF PostOf(o) = "match" /\ ok THEN "receipt" ELSE "fail",
              ![p].state = "COMMITTED",
              ![p].code = IF PostOf(o) # None /\ ~(PostOf(o) = "match" /\ ok)
                          THEN "EFFECT_PRESENT_ATTENTION" ELSE ""]
  BY <1>2 DEF Observe
<1>6. PICK pc \in {"receipt", "fail"}, code \in Codes :
        /\ proc' = [proc EXCEPT ![p].pc = pc, ![p].state = "COMMITTED", ![p].code = code]
        /\ pc = "receipt" => PostOf(o) = "match"
  BY <1>5 DEF Codes
<1>7. CASE PostOf(o) # None
  <2>1. PICK post \in {"match", "nomatch"} : post = PostOf(o)
    BY <1>7 DEF PostOf
  <2>2. Append(o, [ledger[o] EXCEPT !.post = post, !.seen = target])
    BY <1>5, <1>7, <2>1
  <2> QED
    BY <1>1, <1>2, <1>4, <1>6, <2>1, <2>2, ObservedInv
<1>8. CASE PostOf(o) = None
  <2>1. pc = "fail" /\ UNCHANGED ledger /\ LedgerOf(o)
    BY <1>5, <1>6, <1>8, SameLedger DEF None, WriteInv
  <2>2. MovesTo(p, "fail")
    <3>1. PICK r : r = [proc[p] EXCEPT !.pc = "fail", !.state = "COMMITTED", !.code = code]
      OBVIOUS
    <3>2. proc' = [proc EXCEPT ![p] = r]
      BY <1>6, <2>1, <3>1
    <3>3. proc[p] \in ProcRecs /\ proc \in [Procs -> ProcRecs]
      BY DEF WriteInv, Types
    <3>4. r \in ProcRecs /\ r.pc = "fail" /\ r.op = proc[p].op
          /\ r.fd = proc[p].fd /\ r.held = proc[p].held /\ r.created = proc[p].created
      BY <3>1, <3>3 DEF ProcRecs, PCs
    <3> QED
      BY <3>2, <3>3, <3>4 DEF MovesTo, OneMoves
  <2> QED
    BY <1>1, <1>2, <2>1, <2>2, StopsInv DEF OnlyJournal
<1> QED
  BY <1>7, <1>8

LEMMA ReceiptInv ==
    ASSUME WriteInv, NEW p \in Procs, WriteReceipt(p)
    PROVE  WriteInv'
<1>1. proc[p].pc = "receipt" /\ Working(p) /\ OnlyJournal
  BY DEF WriteReceipt, Working, WorkPCs, Journal, records, history, OnlyJournal
<1>2. PICK o \in Ops : o = proc[p].op
  BY <1>1, WorkerOp
<1>3. OpInv(o) /\ WorkInv(p) /\ ledger[o] \in LedgerRecs
  BY <1>1, <1>2, WorkerOp
<1>4. CASE target = Gone
  <2>1. Raise(p, "") /\ UNCHANGED ledger
    BY <1>4 DEF WriteReceipt
  <2> QED
    BY <1>1, <2>1, RaiseInv DEF Codes
<1>5. CASE target # Gone
  <2>1. Goto(p, "release")
    BY <1>5 DEF WriteReceipt
  <2>2. MovesTo(p, "release")
    BY <2>1, GotoMoves DEF PCs, WriteInv
  <2>3. PICK new : new = [ledger[o] EXCEPT !.receipt = proc[p].state]
    OBVIOUS
  <2>4. /\ ledger[o].intent /\ ledger[o].receipt = None
        /\ proc[p].state \in {"COMMITTED", "FAILED_NO_EFFECT"}
        /\ ~touched[o] => /\ proc[p].state = "COMMITTED" => effects[o] = 1
                          /\ proc[p].state = "FAILED_NO_EFFECT" => effects[o] = 0
    BY <1>1, <1>2, <1>3 DEF WorkInv, Concluding
  <2>5. /\ new \in LedgerRecs /\ new.receipt = proc[p].state
        /\ new.preflight = ledger[o].preflight /\ new.post = ledger[o].post
        /\ new.attention = ledger[o].attention /\ new.manifest = ledger[o].manifest
        /\ new.intent = ledger[o].intent /\ new.dispatch = ledger[o].dispatch
    BY <1>3, <2>3, <2>4 DEF LedgerRecs
  <2>6. Append(o, new)
    BY <1>2, <1>5, <2>3 DEF WriteReceipt
  <2>7. /\ LedgerOf(o)
        /\ ledger'[o].receipt = proc[p].state /\ ledger'[o].preflight = ledger[o].preflight
        /\ ledger'[o].attention = ledger[o].attention
        /\ ledger'[o].manifest = ledger[o].manifest
        /\ ledger'[o].intent = ledger[o].intent /\ ledger'[o].dispatch = ledger[o].dispatch
        /\ ledger'[o].post = ledger[o].post
    BY <2>5, <2>6, AppendShape DEF WriteInv
  <2>8. OpInv(o)'
    <3>1. Unauthorized(o)' /\ Chain(o)' /\ BackedUp(o)' /\ OneEffect(o)'
      BY <1>1, <1>3, <2>4, <2>7
         DEF OpInv, OnlyJournal, Unauthorized, Chain, BackedUp, OneEffect
    <3>2. Landed(o)' /\ Distinct(o)'
      BY <1>1, <1>3, <2>4, <2>7 DEF OpInv, OnlyJournal, Landed, Distinct, None
    <3>3. Told(o)'
      BY <1>1, <2>4, <2>7 DEF OnlyJournal, Told
    <3> QED
      BY <3>1, <3>2, <3>3 DEF OpInv
  <2>9. WorkInv(p)'
    <3>1. proc'[p].pc = "release"
      BY <2>2 DEF MovesTo
    <3> QED
      BY <3>1, IdlesNext DEF QuietPCs
  <2>10. "release" \in WorkPCs /\ ledger[o].receipt # "COMMITTED"
    BY <2>4 DEF WorkPCs, None
  <2> QED
    BY <1>1, <1>2, <2>2, <2>7, <2>8, <2>9, <2>10, JournalInv
<1> QED
  BY <1>4, <1>5

LEMMA ReconcileInv ==
    ASSUME WriteInv, NEW p \in Procs, Reconcile(p)
    PROVE  WriteInv'
<1>1. Working(p) /\ OnlyJournal
  BY DEF Reconcile, Working, WorkPCs, records, history, OnlyJournal
<1>2. PICK o \in Ops : o = proc[p].op
  BY <1>1, WorkerOp
<1>3. OpInv(o) /\ auth[o] # NoAuth
  BY <1>1, <1>2, WorkerOp
<1>4. CASE Goto(p, "release") /\ UNCHANGED ledger
  <2>1. MovesTo(p, "release") /\ LedgerOf(o)
    BY <1>4, GotoMoves, SameLedger DEF PCs, WriteInv
  <2> QED
    BY <1>1, <1>2, <1>4, <2>1, StopsInv DEF OnlyJournal
<1>5. CASE \E code \in Codes : Raise(p, code) /\ UNCHANGED ledger
  BY <1>1, <1>5, RaiseInv
<1>6. ASSUME ~Terminal(o), ledger[o].intent,
             NEW post \in {"match", "nomatch"}, NEW state \in {"COMMITTED", "FAILED_NO_EFFECT"},
             Append(o, [ledger[o] EXCEPT !.post = post, !.seen = target]),
             NEW ok \in BOOLEAN,
             proc' = [proc EXCEPT ![p].pc = IF ok THEN "receipt" ELSE "fail",
                                  ![p].code = IF ok THEN "" ELSE "DIRECTORY_FSYNC_FAILED",
                                  ![p].state = state],
             \/ /\ TargetEffect(o) = "none"
                /\ post = "nomatch" /\ state = "FAILED_NO_EFFECT"
             \/ /\ TargetEffect(o) = "effect_present" /\ ledger[o].dispatch
                /\ post = "match" /\ state = "COMMITTED"
      PROVE  WriteInv'
  <2>1. PICK pc \in {"receipt", "fail"}, code \in Codes :
          proc' = [proc EXCEPT ![p].pc = pc, ![p].state = state, ![p].code = code]
    <3>1. PICK pc, code : pc = (IF ok THEN "receipt" ELSE "fail")
                          /\ code = (IF ok THEN "" ELSE "DIRECTORY_FSYNC_FAILED")
      OBVIOUS
    <3>2. proc' = [proc EXCEPT ![p].pc = pc, ![p].code = code, ![p].state = state]
      BY <1>6, <3>1
    <3>3. [proc EXCEPT ![p].pc = pc, ![p].code = code, ![p].state = state]
            = [proc EXCEPT ![p].pc = pc, ![p].state = state, ![p].code = code]
      OBVIOUS
    <3> QED
      BY <3>1, <3>2, <3>3 DEF Codes
  <2>2. ledger[o].receipt = None
    BY <1>6 DEF Terminal
  <2>3. TargetEffect(o) = "none" => target.content # auth[o].desired
    BY DEF TargetEffect
  <2>4. TargetEffect(o) = "effect_present" =>
            target.content = auth[o].desired /\ target.content # auth[o].current.content
    BY <1>3 DEF TargetEffect, OpInv, Distinct
  <2>5. effects[o] \in {0, 1} /\ (effects[o] = 1 => ledger[o].dispatch)
    BY <1>3 DEF OpInv, OneEffect
  <2>6. ~touched[o] => /\ state = "COMMITTED" => effects[o] = 1
                       /\ state = "FAILED_NO_EFFECT" => effects[o] = 0
    BY <1>3, <1>6, <2>2, <2>3, <2>4, <2>5 DEF OpInv, Landed
  <2>7. /\ state = "COMMITTED" => post = "match" /\ ledger[o].dispatch
        /\ state = "FAILED_NO_EFFECT" => post = "nomatch"
    BY <1>6
  <2>8. ledger[o].intent /\ Append(o, [ledger[o] EXCEPT !.post = post, !.seen = target])
    BY <1>6
  <2>9. post \in {"match", "nomatch"} /\ state \in {"COMMITTED", "FAILED_NO_EFFECT"}
    BY <1>6
  <2> QED
    BY ONLY WriteInv, p \in Procs, o \in Ops, pc \in {"receipt", "fail"}, code \in Codes,
            <1>1, <1>2, <2>1, <2>2, <2>6, <2>7, <2>8, <2>9, ObservedInv
<1> QED
  <2>1. \/ Goto(p, "release") /\ UNCHANGED ledger
        \/ Raise(p, "RECONCILE_REQUIRED") /\ UNCHANGED ledger
        \/ Raise(p, "TARGET_OBSERVATION_UNAVAILABLE") /\ UNCHANGED ledger
        \/ Raise(p, "EXTERNAL_DRIFT_BLOCKED") /\ UNCHANGED ledger
        \/ /\ ~Terminal(o) /\ ledger[o].intent
           /\ \/ TargetEffect(o) = "none"
              \/ TargetEffect(o) = "effect_present" /\ ledger[o].dispatch
           /\ Append(o, [ledger[o] EXCEPT
                           !.post = IF TargetEffect(o) = "none" THEN "nomatch" ELSE "match",
                           !.seen = target])
           /\ \E ok \in BOOLEAN :
                proc' = [proc EXCEPT
                   ![p].pc = IF ok THEN "receipt" ELSE "fail",
                   ![p].code = IF ok THEN "" ELSE "DIRECTORY_FSYNC_FAILED",
                   ![p].state = IF TargetEffect(o) = "none" THEN "FAILED_NO_EFFECT"
                                ELSE "COMMITTED"]
    BY <1>2 DEF Reconcile
  <2> QED
    BY <1>4, <1>5, <1>6, <2>1 DEF Codes

----------------------------------------------------------------------------
(* The invariant of the kernel, and what follows.                          *)

LEMMA StepInv ==
    ASSUME WriteInv, NEW p \in Procs, Step(p)
    PROVE  WriteInv'
BY LockInvs, FailureInv, CheckInv, BackupInv, ManifestInv, IntentInv, StageInv, DispatchInv,
   LookInv, ReplaceInv, FailsInv, ObserveInv, ReceiptInv, ReconcileInv DEF Step

LEMMA NextInv ==
    ASSUME WriteInv, [Next]_vars
    PROVE  WriteInv'
<1>1. CASE \E o \in ApplyOps : PrepareApplyPlan(o) \/ CreateExecutableProposal(o)
                               \/ CreateAuthorization(o)
  BY <1>1, PlanInv, ProposalInv, AuthorizationInv
<1>2. CASE \E r \in RestoreOps, o \in ApplyOps : CreateRestoreAuthorization(r, o)
  BY <1>2, RestoreAuthorizationInv
<1>3. CASE \E p \in Procs, o \in Ops : CallWrite(p, o) \/ CallReconcile(p, o)
  BY <1>3, CallerInvs
<1>4. CASE \E p \in Procs : Step(p) \/ Crash(p)
  BY <1>4, StepInv, CrashInv
<1>5. CASE \E file \in Edits : EditTarget(file)
  BY <1>5, EditInv
<1>6. CASE EditSources
  BY <1>6, SourcesInv
<1>7. CASE UNCHANGED vars
  BY <1>7, StutterInv
<1> QED
  BY <1>1, <1>2, <1>3, <1>4, <1>5, <1>6, <1>7 DEF Next

LEMMA KernelInvariant == Spec => []WriteInv
<1>1. Init => WriteInv
  BY InitInv
<1>2. WriteInv /\ [Next]_vars => WriteInv'
  BY NextInv
<1> QED
  BY <1>1, <1>2, PTL DEF Spec

\* Single use and backup: through any crashes, retries and concurrent callers an
\* authorization replaces the target at most once, after its dispatch was recorded
\* and with the authorized bytes in its backup; and those are the bytes os.replace
\* destroyed, unless another program wrote the target after the last look at it.
THEOREM EffectIsSingleAndBackedUp == Spec => []OneBackedUpEffect
<1>1. WriteInv => OneBackedUpEffect
  <2> SUFFICES ASSUME WriteInv, NEW o \in Ops
               PROVE  /\ effects[o] <= 1
                      /\ effects[o] = 1 => /\ ledger[o].dispatch
                                           /\ backup[o] = auth[o].current.content
                                           /\ missed[o] \/ overwrote[o] = backup[o]
    BY DEF OneBackedUpEffect
  <2>1. OpInv(o)
    BY DEF WriteInv
  <2>2. ledger[o].dispatch => backup[o] = auth[o].current.content
    BY <2>1 DEF OpInv, Chain, BackedUp
  <2> QED
    BY <2>1, <2>2 DEF OpInv, OneEffect
<1> QED
  BY <1>1, KernelInvariant, PTL

\* Unless somebody else wrote the target after the intent, COMMITTED means that
\* os.replace ran and FAILED_NO_EFFECT that it never did.
THEOREM ReceiptsTellTheTruth == Spec => []ReceiptTrue
<1>1. WriteInv => ReceiptTrue
  BY DEF WriteInv, OpInv, Told, ReceiptTrue
<1> QED
  BY <1>1, KernelInvariant, PTL

\* A restore gives back the bytes the apply it follows was authorized to replace, and
\* destroys that apply's effect and nothing else, unless another program wrote the
\* target after the restore's last look at it.
THEOREM RestoresUndoApplies == Spec => []RestoreUndoes
<1>1. WriteInv => RestoreUndoes
  <2> SUFFICES ASSUME WriteInv, NEW r \in RestoreOps, effects[r] = 1
               PROVE  \E o \in ApplyOps : /\ effects[o] = 1 \/ touched[o]
                                          /\ auth[r].desired = auth[o].current.content
                                          /\ missed[r] \/ overwrote[r] = auth[o].desired
    BY DEF RestoreUndoes
  <2>1. r \in Ops /\ OpInv(r)
    BY DEF WriteInv, Ops
  <2>2. auth[r] # NoAuth /\ (missed[r] \/ overwrote[r] = auth[r].current.content)
    BY <2>1 DEF OpInv, Unauthorized, OneEffect
  <2>3. PICK o \in ApplyOps : RestoreOf(r, o)
    BY <2>2 DEF WriteInv, OriginInv
  <2>4. effects[o] = 1 \/ touched[o]
    BY <2>3 DEF RestoreOf, WriteInv, OpInv, Told, Ops
  <2> QED
    BY <2>2, <2>3, <2>4 DEF RestoreOf
<1> QED
  BY <1>1, KernelInvariant, PTL

\* The next event of a writer is one that _validate_chain accepts: no crash and no
\* recorded attention leaves an operation stuck on its own ledger.
THEOREM WriterIsNeverRefused == Spec => []NeverRefused
<1>1. WriteInv => NeverRefused
  <2> SUFFICES ASSUME WriteInv, NEW p \in Procs, NEW kind \in NextEvent(p)
               PROVE  Accepts(proc[p].op, kind)
    BY DEF NeverRefused
  <2>1. proc[p].pc \in {"manifest", "intent", "dispatch", "observe", "receipt"}
    BY DEF NextEvent
  <2>2. Working(p)
    BY <2>1 DEF Working, WorkPCs
  <2>3. PICK o \in Ops : o = proc[p].op
    BY <2>2, WorkerOp
  <2>4. Chain(o) /\ WorkInv(p)
    BY <2>2, <2>3, WorkerOp DEF OpInv
  <2>5. CASE proc[p].pc = "manifest"
    <3>1. kind = "manifest" /\ ~ledger[o].manifest
      BY <2>3, <2>5 DEF NextEvent
    <3>2. ledger[o].preflight /\ ~ledger[o].attention /\ ledger[o].receipt = None
      BY <2>3, <2>4, <2>5 DEF WorkInv, Preparing, Chain
    <3> QED
      BY <2>3, <3>1, <3>2 DEF Accepts, AcceptsBeforeDispatch
  <2>6. CASE proc[p].pc = "intent"
    <3>1. kind = "intent"
      BY <2>6 DEF NextEvent
    <3>2. ledger[o].manifest /\ ~ledger[o].intent /\ ~ledger[o].attention
          /\ ledger[o].receipt = None
      BY <2>3, <2>4, <2>6 DEF WorkInv, Preparing, Chain
    <3> QED
      BY <2>3, <3>1, <3>2 DEF Accepts, AcceptsBeforeDispatch
  <2>7. CASE proc[p].pc = "dispatch"
    <3>1. kind = "dispatch"
      BY <2>7 DEF NextEvent
    <3>2. ledger[o].intent /\ ~ledger[o].dispatch /\ ~ledger[o].attention
          /\ ledger[o].post = None /\ ledger[o].receipt = None
      BY <2>3, <2>4, <2>7 DEF WorkInv, Staging
    <3> QED
      BY <2>3, <3>1, <3>2 DEF Accepts, AcceptsFromDispatch
  <2>8. CASE proc[p].pc = "observe"
    <3>1. kind \in {"match", "nomatch"}
      BY <2>8 DEF NextEvent
    <3>2. ledger[o].intent /\ ledger[o].dispatch /\ ledger[o].receipt = None
      BY <2>3, <2>4, <2>8 DEF WorkInv, Dispatching, Chain
    <3> QED
      BY <2>3, <3>1, <3>2 DEF Accepts, AcceptsFromDispatch
  <2>9. CASE proc[p].pc = "receipt"
    <3>1. kind = proc[p].state
      BY <2>9 DEF NextEvent
    <3>2. /\ ledger[o].manifest /\ ledger[o].intent /\ ledger[o].receipt = None
          /\ \/ proc[p].state = "COMMITTED" /\ ledger[o].dispatch /\ ledger[o].post = "match"
             \/ proc[p].state = "FAILED_NO_EFFECT" /\ ledger[o].post = "nomatch"
      BY <2>3, <2>4, <2>9 DEF WorkInv, Concluding, Chain
    <3> QED
      BY <2>3, <3>1, <3>2 DEF Accepts, AcceptsFromDispatch
  <2> QED
    BY <2>1, <2>5, <2>6, <2>7, <2>8, <2>9
<1> QED
  BY <1>1, KernelInvariant, PTL
=============================================================================
