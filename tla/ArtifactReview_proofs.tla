------------------------ MODULE ArtifactReview_proofs ------------------------
(***************************************************************************)
(* Proofs about ArtifactReview, for any files, requests, crashes, pauses   *)
(* and edits: what a retained Quest, a discarded one and a provenance      *)
(* claim rest on, and that every checkpoint is the state its version had.  *)
(*                                                                         *)
(* A replay and a chain of observations are recursive functions.  The      *)
(* induction about them goes by the least counterexample: a nonempty set   *)
(* of naturals has a least element, as < is well-founded on Nat.           *)
(***************************************************************************)
EXTENDS ArtifactReview, WellFoundedInduction, TLAPS

----------------------------------------------------------------------------
(* Induction.                                                              *)

LEMMA LeastNatural ==
    ASSUME NEW S, S \subseteq Nat, S # {}
    PROVE  \E x \in S : \A y \in S : x <= y
<1>1. IsWellFoundedOn({ss \in Nat \X Nat : ss[1] < ss[2]}, Nat)
  BY NatLessThanWellFounded DEF OpToRel
<1>2. PICK x \in S : \A y \in S : <<y, x>> \notin {ss \in Nat \X Nat : ss[1] < ss[2]}
  BY <1>1, WFMin
<1>3. \A y \in S : ~(y < x)
  BY <1>2
<1> QED
  BY <1>3

\* A set that holds m and, with a number below n, its successor, holds m..n.
LEMMA Induction ==
    ASSUME NEW m \in Nat, NEW n \in Nat, NEW S, m \in S,
           \A k \in m..(n - 1) : k \in S => k + 1 \in S
    PROVE  m..n \subseteq S
<1> SUFFICES ASSUME (m..n) \ S # {} PROVE FALSE
  OBVIOUS
<1>1. (m..n) \ S \subseteq Nat
  OBVIOUS
<1>2. PICK x \in (m..n) \ S : \A y \in (m..n) \ S : x <= y
  BY <1>1, LeastNatural
<1>3. x # m /\ x \in Nat /\ x - 1 \in m..(n - 1)
  BY <1>2
<1>4. x - 1 \in S
  BY <1>2, <1>3
<1>5. (x - 1) + 1 = x
  BY <1>3
<1> QED
  BY <1>2, <1>3, <1>4, <1>5

----------------------------------------------------------------------------
(* Replay.                                                                 *)

\* f is the replay of the events e from the state s at version m, up to version n.
Replays(f, m, n, s, e) ==
    f = [i \in m..n |-> IF i = m THEN s ELSE Apply(f[i - 1], e[i])]

\* There is such a function: each version extends the one before.
LEMMA ReplayExists ==
    ASSUME NEW e, NEW m \in Nat, NEW n \in Nat, m <= n, NEW s
    PROVE  \E f : Replays(f, m, n, s, e)
<1> DEFINE S == {k \in Nat : \E f : Replays(f, m, k, s, e)}
<1>1. m \in S
  <2>1. PICK f : f = [i \in m..m |-> s]
    OBVIOUS
  <2>2. Replays(f, m, m, s, e)
    BY <2>1 DEF Replays
  <2> QED
    BY <2>2
<1>2. ASSUME NEW k \in m..(n - 1), k \in S PROVE k + 1 \in S
  <2>1. PICK f : Replays(f, m, k, s, e)
    BY <1>2
  <2>2. PICK g : g = [i \in m..(k + 1) |-> IF i = m THEN s ELSE Apply(f[i - 1], e[i])]
    OBVIOUS
  <2>3. \A i \in m..k : g[i] = f[i]
    BY <2>1, <2>2 DEF Replays
  <2>4. \A i \in m..(k + 1) : i # m => i - 1 \in m..k
    OBVIOUS
  <2>5. g = [i \in m..(k + 1) |-> IF i = m THEN s ELSE Apply(g[i - 1], e[i])]
    BY <2>2, <2>3, <2>4
  <2>6. Replays(g, m, k + 1, s, e)
    BY <2>5 DEF Replays
  <2> QED
    BY <2>6
<1>3. m..n \subseteq S
  BY <1>1, <1>2, Induction
<1> QED
  BY <1>3

\* The state after each of the events e, from the state s at version m.
ReplayOf(e, m, s) ==
    LET after[n \in m..Len(e)] ==
            IF n = m THEN s ELSE Apply(after[n - 1], e[n])
    IN  after

LEMMA ReplayUnfolds ==
    ASSUME NEW e, NEW m \in Nat, Len(e) \in Nat, m <= Len(e), NEW s
    PROVE  Replays(ReplayOf(e, m, s), m, Len(e), s, e)
<1>1. \E f : Replays(f, m, Len(e), s, e)
  BY ReplayExists
<1> QED
  BY <1>1 DEF Replays, ReplayOf

LEMMA ReplayIs ==
    ASSUME NEW m, NEW s
    PROVE  /\ ReplayFrom(m, s) = ReplayOf(events, m, s)
           /\ ReplayFrom(m, s)' = ReplayOf(events', m, s)
BY DEF ReplayFrom, ReplayOf

\* Replays of a prefix agree.
LEMMA ReplayPrefix ==
    ASSUME NEW m \in Nat, NEW n \in Nat, NEW k \in Nat, m <= n, n <= k,
           NEW s, NEW d, NEW e, \A i \in (m + 1)..n : d[i] = e[i],
           NEW f, NEW g, Replays(f, m, n, s, d), Replays(g, m, k, s, e)
    PROVE  \A i \in m..n : g[i] = f[i]
<1> DEFINE S == {i \in m..n : g[i] = f[i]}
<1>1. m \in S
  BY DEF Replays
<1>2. ASSUME NEW i \in m..(n - 1), i \in S PROVE i + 1 \in S
  <2>1. i + 1 \in (m + 1)..n /\ i + 1 \in m..n /\ i + 1 \in m..k /\ i + 1 # m
    OBVIOUS
  <2>2. (i + 1) - 1 = i
    OBVIOUS
  <2>3. f[i + 1] = Apply(f[i], d[i + 1]) /\ g[i + 1] = Apply(g[i], e[i + 1])
    BY <2>1, <2>2 DEF Replays
  <2> QED
    BY <1>2, <2>1, <2>3
<1>3. m..n \subseteq S
  BY <1>1, <1>2, Induction
<1> QED
  BY <1>3

\* A replay from a state that is itself the result of a replay continues it.
LEMMA ReplayTail ==
    ASSUME NEW m \in Nat, NEW n \in Nat, m <= n, NEW s, NEW e,
           NEW f, NEW g, Replays(f, 0, n, s, e), Replays(g, m, n, f[m], e)
    PROVE  g[n] = f[n]
<1> DEFINE S == {i \in m..n : g[i] = f[i]}
<1>1. m \in S
  BY DEF Replays
<1>2. ASSUME NEW i \in m..(n - 1), i \in S PROVE i + 1 \in S
  <2>1. i + 1 \in 0..n /\ i + 1 \in m..n /\ i + 1 # m /\ i + 1 # 0
    OBVIOUS
  <2>2. (i + 1) - 1 = i
    OBVIOUS
  <2>3. f[i + 1] = Apply(f[i], e[i + 1]) /\ g[i + 1] = Apply(g[i], e[i + 1])
    BY <2>1, <2>2 DEF Replays
  <2> QED
    BY <1>2, <2>1, <2>3
<1>3. m..n \subseteq S
  BY <1>1, <1>2, Induction
<1> QED
  BY <1>3

----------------------------------------------------------------------------
(* The invariant.                                                          *)

Bytes == Contents \cup {None}
Statuses == {"running", "verifying", "paused", "recovering", "waiting_user", "completed",
             "discarding", "failed"}
Dispositions == {"pending", "unavailable", "retained", "discarding", "discarded"}
ItemRecs == [content : Bytes, provenance : Provenances \cup {None}]
Manifests == [Paths -> ItemRecs]
Snapshots == [status : Incomplete \cup Baselines \cup {"complete", None},
              entries : [Paths -> Bytes]]
Projections == [status : Statuses, disposition : Dispositions, pending : BOOLEAN,
                paused : BOOLEAN, manifest : Manifests]
Patches == [status : Statuses] \cup [paused : BOOLEAN]
           \cup [status : Statuses, paused : BOOLEAN]
           \cup [status : Statuses, disposition : Dispositions]
           \cup [disposition : Dispositions, pending : BOOLEAN]
           \cup [status : Statuses, disposition : Dispositions, pending : BOOLEAN]
           \cup [status : Statuses, disposition : Dispositions, pending : BOOLEAN,
                 manifest : Manifests]
WriteRecs == [path : Paths, before : Bytes, after : Contents]
WorkerRecs == [pc : {"write", "freeze", "scan", "request", "gone"}, version : Nat,
               manifest : Manifests, snapshot : Snapshots]
FinalRecs == [snapshot : Snapshots, provenance : [Paths -> Provenances \cup {None}]]
ReceiptRecs == [decision : Decisions \cup {None}, completed : BOOLEAN]
ThreadRecs == [pc : {"idle", "look", "verify", "begin", "read", "checkpoint", "delete",
                     "unlink"},
               decision : Decisions \cup {None}, todo : SUBSET Paths, version : Nat,
               item : Paths \cup {None}]

Types ==
    /\ projection \in Projections
    /\ file \in [Paths -> Bytes]
    /\ baseline \in Snapshots
    /\ writes \in Seq(WriteRecs)
    /\ worker \in WorkerRecs
    /\ final \in FinalRecs
    /\ receipt \in ReceiptRecs
    /\ thread \in [Threads -> ThreadRecs]
    /\ touched \in [Paths -> Nat] /\ scanned \in [Paths -> Nat]
    /\ matched \subseteq Paths /\ unlinked \subseteq Paths
    /\ tampered \in BOOLEAN

\* The projection is the replay of the events, a checkpoint that of a prefix.
LedgerInv ==
    /\ events \in Seq(Patches)
    /\ Replay(Drafted) = projection
    /\ \A c \in checkpoints : /\ c.version \in 0..Len(events)
                              /\ c.state = ReplayFrom(0, Drafted)[c.version]

Unreviewed == projection.status \in {"running", "verifying", "paused"}

\* A worker runs an active Quest; a review is asked for once and decided once.
PhaseInv ==
    /\ worker.pc # "gone" => projection.status \in Active
    /\ worker.pc \in {"write", "freeze", "gone"} => worker.manifest = NoManifest
    /\ Unreviewed => projection.manifest = NoManifest
    /\ Unreviewed \/ projection.status = "waiting_user" => receipt = NoReceipt
    /\ projection.status = "discarding" => receipt.decision = "discard"
    /\ unlinked # {} => receipt.decision = "discard"

\* A frozen file that is gone was deleted, one that is as frozen has been seen so.
FrozenInv(p) ==
    /\ p \in Items(worker.manifest) =>
          /\ worker.manifest[p].content \in Contents
          /\ file[p] = None => tampered
    /\ p \in Items(projection.manifest) =>
          /\ projection.manifest[p].content \in Contents
          /\ file[p] = projection.manifest[p].content => p \in matched
          /\ file[p] = None => p \in unlinked \/ tampered

\* A discarded Quest.
DiscardInv ==
    projection.disposition = "discarded" =>
        /\ receipt.completed
        /\ \A p \in Items(projection.manifest) : p \in unlinked \/ tampered

\* What a thread has established.
Deleting(t) ==
    thread[t].pc \in {"delete", "unlink"} =>
        /\ receipt.decision = "discard"
        /\ \A p \in Items(projection.manifest) :
              p \in thread[t].todo \/ p \in unlinked \/ tampered
        /\ thread[t].pc = "unlink" => thread[t].item \in Paths

Deciding(t) ==
    /\ thread[t].pc \in {"look", "verify", "begin"} =>
          thread[t].decision \in Decisions /\ ~Unreviewed
    /\ thread[t].pc \in {"verify", "begin"} =>
          /\ thread[t].version <= Version
          /\ thread[t].version = Version => ReviewPending
    /\ thread[t].pc = "verify" =>
          \A p \in Items(projection.manifest) : p \in thread[t].todo \/ p \in matched
    /\ thread[t].pc = "begin" /\ thread[t].decision = "retain" =>
          Items(projection.manifest) \subseteq matched
    /\ thread[t].pc = "checkpoint" => thread[t].version <= Version

ThreadInv(t) == Deleting(t) /\ Deciding(t)

\* One client at a time reviews; the other threads only delete or save.
LockInv ==
    /\ \A t \in Clients : thread[t].pc # "idle" => lock = t
    /\ thread[Boot].pc \in {"idle", "delete", "unlink"}
    /\ thread[Saver].pc \in {"idle", "read", "checkpoint"}

\* What the committed writes tell of the file: an unseen change breaks the chain.
TouchInv(p) ==
    receipt = NoReceipt /\ baseline.status = "complete" =>
        /\ touched[p] = 0 => ChainHolds(p) /\ file[p] = Current(p)[Len(writes)]
        /\ touched[p] = 1 => ~(ChainHolds(p) /\ file[p] = Current(p)[Len(writes)])

\* What the provenance of an item claims is so, when others changed the file this often.
ClaimTrue(p, item, snapshot, changes) ==
    /\ item.provenance \in ObservedStatuses =>
          /\ changes # 1
          /\ \E i \in Relevant(p) : /\ writes[i].after = item.content
                                    /\ \A j \in Relevant(p) : j <= i
          /\ snapshot.entries[p] = item.content
    /\ item.provenance = "shadow_existing_unchanged" =>
          changes # 1 /\ baseline.entries[p] = item.content
    /\ item.provenance \in {"shadow_unobserved_created", "shadow_external_drift",
                            "unrecoverable_chain_break"} => changes > 0

ClaimInv(p) ==
    /\ worker.pc = "request" /\ p \in Items(worker.manifest) =>
          ClaimTrue(p, worker.manifest[p], worker.snapshot, scanned[p])
    /\ p \in Items(projection.manifest) =>
          ClaimTrue(p, projection.manifest[p], final.snapshot, scanned[p])

ReviewInv ==
    /\ Types /\ LedgerInv /\ PhaseInv /\ DiscardInv /\ LockInv
    /\ \A p \in Paths : FrozenInv(p)
    /\ \A p \in Paths : TouchInv(p)
    /\ \A p \in Paths : ClaimInv(p)
    /\ \A t \in Threads : ThreadInv(t)

----------------------------------------------------------------------------
(* Patches.                                                                *)

LEMMA Constants ==
    /\ NoItem \in ItemRecs /\ NoManifest \in Manifests /\ NoSnapshot \in Snapshots
    /\ Drafted \in Projections /\ NoFinal \in FinalRecs /\ NoReceipt \in ReceiptRecs
    /\ Resting \in ThreadRecs /\ NoWorker \in WorkerRecs
<1>1. NoItem \in ItemRecs
  BY DEF NoItem, ItemRecs, Bytes
<1>2. NoManifest \in Manifests
  BY <1>1 DEF NoManifest, Manifests
<1>3. NoSnapshot \in Snapshots
  BY DEF NoSnapshot, Snapshots, Bytes
<1>4. Drafted \in Projections
  BY <1>2 DEF Drafted, Projections, Statuses, Dispositions
<1>5. NoFinal \in FinalRecs
  BY <1>3 DEF NoFinal, FinalRecs
<1>6. NoReceipt \in ReceiptRecs /\ Resting \in ThreadRecs
  BY DEF NoReceipt, ReceiptRecs, Resting, ThreadRecs
<1>7. NoWorker \in WorkerRecs
  BY <1>2, <1>3 DEF NoWorker, WorkerRecs
<1> QED
  BY <1>1, <1>2, <1>3, <1>4, <1>5, <1>6, <1>7

LEMMA RestingFields ==
    /\ Resting.pc = "idle" /\ Resting.decision = None /\ Resting.todo = {}
    /\ NoReceipt.decision = None /\ ~NoReceipt.completed
    /\ NoWorker.pc = "gone" /\ NoWorker.manifest = NoManifest
    /\ Items(NoManifest) = {}
BY DEF Resting, NoReceipt, NoWorker, NoManifest, Items

LEMMA ApplyFields ==
    ASSUME NEW s \in Projections, NEW patch
    PROVE  /\ Apply(s, patch).status = IF "status" \in DOMAIN patch THEN patch.status ELSE s.status
           /\ Apply(s, patch).disposition =
                 IF "disposition" \in DOMAIN patch THEN patch.disposition ELSE s.disposition
           /\ Apply(s, patch).pending =
                 IF "pending" \in DOMAIN patch THEN patch.pending ELSE s.pending
           /\ Apply(s, patch).paused = IF "paused" \in DOMAIN patch THEN patch.paused ELSE s.paused
           /\ Apply(s, patch).manifest =
                 IF "manifest" \in DOMAIN patch THEN patch.manifest ELSE s.manifest
BY DEF Apply, Projections

LEMMA ApplyType ==
    ASSUME NEW s \in Projections, NEW patch \in Patches
    PROVE  Apply(s, patch) \in Projections
<1> DEFINE r == Apply(s, patch)
<1>1. r = [f \in {"status", "disposition", "pending", "paused", "manifest"} |-> r[f]]
  BY DEF Apply, Projections
<1>2. r.status \in Statuses
  BY ApplyFields DEF Patches, Projections
<1>3. r.disposition \in Dispositions
  BY ApplyFields DEF Patches, Projections
<1>4. r.pending \in BOOLEAN /\ r.paused \in BOOLEAN
  BY ApplyFields DEF Patches, Projections
<1>5. r.manifest \in Manifests
  BY ApplyFields DEF Patches, Projections
<1>6. r = [status |-> r.status, disposition |-> r.disposition, pending |-> r.pending,
           paused |-> r.paused, manifest |-> r.manifest]
  BY <1>1
<1> HIDE DEF r
<1>7. r \in Projections
  BY <1>2, <1>3, <1>4, <1>5, <1>6 DEF Projections
<1> QED
  BY <1>7 DEF r

----------------------------------------------------------------------------
(* The ledger.                                                             *)

LEMMA ReplayAppend ==
    ASSUME NEW e \in Seq(Patches), NEW x \in Patches, NEW s
    PROVE  /\ \A i \in 0..Len(e) : ReplayOf(Append(e, x), 0, s)[i] = ReplayOf(e, 0, s)[i]
           /\ ReplayOf(Append(e, x), 0, s)[Len(e) + 1] = Apply(ReplayOf(e, 0, s)[Len(e)], x)
<1> DEFINE d == Append(e, x)  f == ReplayOf(e, 0, s)  g == ReplayOf(d, 0, s)
<1>1. Len(e) \in Nat /\ Len(d) = Len(e) + 1 /\ d[Len(e) + 1] = x
      /\ \A i \in 1..Len(e) : e[i] = d[i]
  OBVIOUS
<1>2. Replays(f, 0, Len(e), s, e)
  BY <1>1, ReplayUnfolds
<1>3. Replays(g, 0, Len(e) + 1, s, d)
  <2> HIDE DEF d
  <2>1. 0 \in Nat /\ Len(d) \in Nat /\ 0 <= Len(d)
    BY <1>1
  <2>2. Replays(ReplayOf(d, 0, s), 0, Len(d), s, d)
    BY <2>1, ReplayUnfolds
  <2> QED
    BY <1>1, <2>2
<1> HIDE DEF d, f, g
<1>4. \A i \in 0..Len(e) : g[i] = f[i]
  <2>1. \A i \in (0 + 1)..Len(e) : e[i] = d[i]
    BY <1>1
  <2>2. Len(e) + 1 \in Nat /\ Len(e) <= Len(e) + 1 /\ 0 <= Len(e) /\ 0 \in Nat
    BY <1>1
  <2> QED
    BY <1>2, <1>3, <2>1, <2>2, ReplayPrefix
<1>5. g[Len(e) + 1] = Apply(g[Len(e)], x)
  <2>1. Len(e) + 1 \in 0..(Len(e) + 1) /\ Len(e) + 1 # 0 /\ (Len(e) + 1) - 1 = Len(e)
    BY <1>1
  <2> QED
    BY <1>1, <1>3, <2>1 DEF Replays
<1>6. Len(e) \in 0..Len(e)
  BY <1>1
<1> QED
  BY <1>4, <1>5, <1>6 DEF d, f, g

\* The ledger without its checkpoints.
Ledger == events \in Seq(Patches) /\ Replay(Drafted) = projection /\ projection \in Projections

LEMMA LedgerReads ==
    /\ Ledger <=> /\ events \in Seq(Patches)
                  /\ ReplayOf(events, 0, Drafted)[Len(events)] = projection
                  /\ projection \in Projections
    /\ Ledger' <=> /\ events' \in Seq(Patches)
                   /\ ReplayOf(events', 0, Drafted)[Len(events')] = projection'
                   /\ projection' \in Projections
<1>1. Replay(Drafted) = ReplayOf(events, 0, Drafted)[Len(events)]
  BY ReplayIs DEF Replay, Version
<1>2. Replay(Drafted)' = ReplayOf(events', 0, Drafted)[Len(events')]
  BY ReplayIs DEF Replay, Version
<1> QED
  BY <1>1, <1>2 DEF Ledger

\* The states of the versions so far do not change.
Extended ==
    /\ Ledger'
    /\ Len(events) \in Nat /\ Len(events') \in Nat /\ Len(events) <= Len(events')
    /\ \A i \in 0..Len(events) : ReplayOf(events', 0, Drafted)[i] = ReplayOf(events, 0, Drafted)[i]

Grows == Extended /\ Len(events) < Len(events')
Same == Extended /\ events' = events /\ projection' = projection

LEMMA NoEvent ==
    ASSUME Ledger, events' = events, projection' = projection
    PROVE  Same
<1>1. Len(events) \in Nat
  BY DEF Ledger
<1> QED
  BY <1>1, LedgerReads DEF Same, Extended

LEMMA OneEvent ==
    ASSUME Ledger, NEW patch \in Patches, Append1(patch)
    PROVE  Grows
<1>1. events \in Seq(Patches) /\ projection \in Projections
      /\ ReplayOf(events, 0, Drafted)[Len(events)] = projection
  BY LedgerReads
<1>2. events' = Append(events, patch) /\ projection' = Apply(projection, patch)
  BY DEF Append1
<1>3. events' \in Seq(Patches) /\ Len(events') = Len(events) + 1 /\ Len(events) \in Nat
  BY <1>1, <1>2
<1>4. /\ \A i \in 0..Len(events) :
            ReplayOf(events', 0, Drafted)[i] = ReplayOf(events, 0, Drafted)[i]
      /\ ReplayOf(events', 0, Drafted)[Len(events) + 1] = projection'
  BY <1>1, <1>2, ReplayAppend
<1>5. projection' \in Projections
  BY <1>1, <1>2, ApplyType
<1>6. Ledger'
  BY <1>3, <1>4, <1>5, LedgerReads
<1> QED
  BY <1>3, <1>4, <1>6 DEF Grows, Extended

LEMMA TwoEvents ==
    ASSUME Ledger, NEW first \in Patches, NEW second \in Patches, Append2(first, second)
    PROVE  Grows
<1> DEFINE d == Append(events, first)
<1>1. events \in Seq(Patches) /\ projection \in Projections
      /\ ReplayOf(events, 0, Drafted)[Len(events)] = projection
  BY LedgerReads
<1>2. events' = events \o <<first, second>>
      /\ projection' = Apply(Apply(projection, first), second)
  BY DEF Append2
<1>3. d \in Seq(Patches) /\ Len(d) = Len(events) + 1 /\ Len(events) \in Nat
  BY <1>1
<1>4. events' = Append(d, second)
  BY <1>1, <1>2
<1>5. /\ \A i \in 0..Len(events) : ReplayOf(d, 0, Drafted)[i] = ReplayOf(events, 0, Drafted)[i]
      /\ ReplayOf(d, 0, Drafted)[Len(d)] = Apply(projection, first)
  BY <1>1, <1>3, ReplayAppend
<1> HIDE DEF d
<1>6. /\ \A i \in 0..Len(d) : ReplayOf(events', 0, Drafted)[i] = ReplayOf(d, 0, Drafted)[i]
      /\ ReplayOf(events', 0, Drafted)[Len(d) + 1] = projection'
  <2>1. /\ \A i \in 0..Len(d) :
              ReplayOf(Append(d, second), 0, Drafted)[i] = ReplayOf(d, 0, Drafted)[i]
        /\ ReplayOf(Append(d, second), 0, Drafted)[Len(d) + 1] =
              Apply(ReplayOf(d, 0, Drafted)[Len(d)], second)
    BY <1>3, ReplayAppend
  <2> QED
    BY <1>2, <1>4, <1>5, <2>1
<1>7. events' \in Seq(Patches) /\ Len(events') = Len(events) + 2
  BY <1>3, <1>4
<1>8. projection' \in Projections
  BY <1>1, <1>2, ApplyType
<1>9. Ledger'
  BY <1>3, <1>6, <1>7, <1>8, LedgerReads
<1>10. \A i \in 0..Len(events) : i \in 0..Len(d)
  BY <1>3
<1> QED
  BY <1>3, <1>5, <1>6, <1>7, <1>9, <1>10 DEF Grows, Extended

LEMMA LedgerParts ==
    ASSUME ReviewInv
    PROVE  Ledger
BY DEF ReviewInv, LedgerInv, Ledger, Types

\* What is stored under its version stays true, and so is a row stored now.
LEMMA LedgerStep ==
    ASSUME LedgerInv, Extended,
           \A c \in checkpoints' :
              \/ c \in checkpoints
              \/ /\ c.version \in 0..Len(events')
                 /\ c.state = ReplayOf(events', 0, Drafted)[c.version]
    PROVE  LedgerInv'
<1>1. events' \in Seq(Patches) /\ Replay(Drafted)' = projection'
  BY DEF Extended, Ledger
<1>2. ASSUME NEW c \in checkpoints'
      PROVE  c.version \in 0..Len(events')
             /\ c.state = ReplayOf(events', 0, Drafted)[c.version]
  <2>1. CASE c \in checkpoints
    <3>1. c.version \in 0..Len(events) /\ c.state = ReplayOf(events, 0, Drafted)[c.version]
      BY <2>1, ReplayIs DEF LedgerInv
    <3>2. \A i \in 0..Len(events) : i \in 0..Len(events')
      BY <1>1 DEF Extended
    <3> QED
      BY <3>1, <3>2 DEF Extended
  <2> QED
    BY <1>2, <2>1
<1>3. ReplayFrom(0, Drafted)' = ReplayOf(events', 0, Drafted)
  BY ReplayIs
<1> QED
  BY <1>1, <1>2, <1>3 DEF LedgerInv

----------------------------------------------------------------------------
(* The chain of observations.                                              *)

\* f is current_hash after 0..n of the writes w, from the baseline hash b.
Traces(f, n, p, b, w) ==
    f = [i \in 0..n |-> IF i = 0 THEN b ELSE IF w[i].path = p THEN w[i].after ELSE f[i - 1]]

LEMMA TraceExists ==
    ASSUME NEW w, NEW n \in Nat, NEW p, NEW b
    PROVE  \E f : Traces(f, n, p, b, w)
<1> DEFINE S == {k \in Nat : \E f : Traces(f, k, p, b, w)}
<1>1. 0 \in S
  <2>1. PICK f : f = [i \in 0..0 |-> b]
    OBVIOUS
  <2>2. Traces(f, 0, p, b, w)
    BY <2>1 DEF Traces
  <2> QED
    BY <2>2
<1>2. ASSUME NEW k \in 0..(n - 1), k \in S PROVE k + 1 \in S
  <2>1. PICK f : Traces(f, k, p, b, w)
    BY <1>2
  <2>2. PICK g : g = [i \in 0..(k + 1) |-> IF i = 0 THEN b
                        ELSE IF w[i].path = p THEN w[i].after ELSE f[i - 1]]
    OBVIOUS
  <2>3. \A i \in 0..k : g[i] = f[i]
    BY <2>1, <2>2 DEF Traces
  <2>4. \A i \in 0..(k + 1) : i # 0 => i - 1 \in 0..k
    OBVIOUS
  <2>5. g = [i \in 0..(k + 1) |-> IF i = 0 THEN b
               ELSE IF w[i].path = p THEN w[i].after ELSE g[i - 1]]
    BY <2>2, <2>3, <2>4
  <2>6. Traces(g, k + 1, p, b, w)
    BY <2>5 DEF Traces
  <2> QED
    BY <2>6
<1>3. 0..n \subseteq S
  <2>1. 0 \in Nat
    OBVIOUS
  <2> HIDE DEF S
  <2> QED
    BY <1>1, <1>2, <2>1, Induction
<1> QED
  BY <1>3

CurrentOf(p, b, w) ==
    LET current[n \in 0..Len(w)] ==
            IF n = 0 THEN b
            ELSE IF w[n].path = p THEN w[n].after
            ELSE current[n - 1]
    IN  current

LEMMA CurrentUnfolds ==
    ASSUME NEW w, Len(w) \in Nat, NEW p, NEW b
    PROVE  Traces(CurrentOf(p, b, w), Len(w), p, b, w)
<1>1. \E f : Traces(f, Len(w), p, b, w)
  BY TraceExists
<1> QED
  BY <1>1 DEF Traces, CurrentOf

LEMMA CurrentIs ==
    ASSUME NEW p
    PROVE  /\ Current(p) = CurrentOf(p, baseline.entries[p], writes)
           /\ Current(p)' = CurrentOf(p, baseline'.entries[p], writes')
BY DEF Current, CurrentOf

\* A further write leaves the chain so far as it is.
LEMMA CurrentAppend ==
    ASSUME writes \in Seq(WriteRecs), NEW r \in WriteRecs, writes' = Append(writes, r),
           baseline' = baseline, NEW p
    PROVE  /\ \A i \in 0..Len(writes) : Current(p)'[i] = Current(p)[i]
           /\ Current(p)'[Len(writes) + 1] = IF r.path = p THEN r.after
                                            ELSE Current(p)[Len(writes)]
<1> DEFINE b == baseline.entries[p]  f == Current(p)  g == Current(p)'  n == Len(writes)
<1>1. n \in Nat /\ Len(writes') = n + 1 /\ writes'[n + 1] = r
      /\ \A i \in 1..n : writes'[i] = writes[i]
  OBVIOUS
<1>2. Traces(f, n, p, b, writes)
  BY <1>1, CurrentUnfolds, CurrentIs
<1>3. Traces(g, n + 1, p, b, writes')
  <2>1. Len(writes') \in Nat
    BY <1>1
  <2>2. Traces(CurrentOf(p, b, writes'), Len(writes'), p, b, writes')
    BY <2>1, CurrentUnfolds
  <2> QED
    BY <1>1, <2>2, CurrentIs
<1> HIDE DEF f, g, b, n
<1> DEFINE S == {i \in 0..n : g[i] = f[i]}
<1>4. 0 \in S
  BY <1>1, <1>2, <1>3 DEF Traces
<1>5. ASSUME NEW i \in 0..(n - 1), i \in S PROVE i + 1 \in S
  <2>1. i + 1 \in 0..n /\ i + 1 \in 1..n /\ i + 1 \in 0..(n + 1) /\ i + 1 # 0
        /\ (i + 1) - 1 = i
    BY <1>1
  <2>2. f[i + 1] = IF writes[i + 1].path = p THEN writes[i + 1].after ELSE f[i]
    BY <1>2, <2>1 DEF Traces
  <2>3. g[i + 1] = IF writes'[i + 1].path = p THEN writes'[i + 1].after ELSE g[i]
    BY <1>3, <2>1 DEF Traces
  <2> QED
    BY <1>1, <1>5, <2>1, <2>2, <2>3
<1>6. 0..n \subseteq S
  <2>1. 0 \in Nat
    OBVIOUS
  <2> HIDE DEF S
  <2> QED
    BY <1>1, <1>4, <1>5, <2>1, Induction
<1>7. \A i \in 0..n : g[i] = f[i]
  BY <1>6
<1>8. g[n + 1] = IF r.path = p THEN r.after ELSE g[n]
  <2>1. n + 1 \in 0..(n + 1) /\ n + 1 # 0 /\ (n + 1) - 1 = n
    BY <1>1
  <2> QED
    BY <1>1, <1>3, <2>1 DEF Traces
<1>9. n \in 0..n
  BY <1>1
<1> QED
  BY <1>7, <1>8, <1>9 DEF f, g, n

\* current_hash is what the last write of the path left, or the baseline.
LEMMA LastWrite ==
    ASSUME writes \in Seq(WriteRecs), NEW p
    PROVE  \/ /\ Relevant(p) = {}
              /\ Current(p)[Len(writes)] = baseline.entries[p]
           \/ \E i \in Relevant(p) : /\ \A j \in Relevant(p) : j <= i
                                     /\ Current(p)[Len(writes)] = writes[i].after
<1> DEFINE b == baseline.entries[p]  f == Current(p)  n == Len(writes)
           Last(k) == \/ /\ \A j \in 1..k : writes[j].path # p
                         /\ f[k] = b
                      \/ \E i \in 1..k : /\ writes[i].path = p
                                         /\ \A j \in 1..k : writes[j].path = p => j <= i
                                         /\ f[k] = writes[i].after
           S == {k \in 0..n : Last(k)}
<1>1. n \in Nat /\ DOMAIN writes = 1..n
  OBVIOUS
<1>2. Traces(f, n, p, b, writes)
  BY <1>1, CurrentUnfolds, CurrentIs
<1> HIDE DEF f, b, n
<1>3. 0 \in S
  BY <1>1, <1>2 DEF Traces
<1>4. ASSUME NEW k \in 0..(n - 1), k \in S PROVE k + 1 \in S
  <2>1. k + 1 \in 0..n /\ k + 1 # 0 /\ (k + 1) - 1 = k /\ k \in Int
        /\ \A j \in 1..(k + 1) : j \in 1..k \/ j = k + 1
    BY <1>1
  <2>2. f[k + 1] = IF writes[k + 1].path = p THEN writes[k + 1].after ELSE f[k]
    BY <1>2, <2>1 DEF Traces
  <2>3. Last(k)
    BY <1>4
  <2>4. CASE writes[k + 1].path = p
    <3>1. /\ k + 1 \in 1..(k + 1)
          /\ \A j \in 1..(k + 1) : writes[j].path = p => j <= k + 1
      BY <2>1
    <3>2. Last(k + 1)
      BY <2>2, <2>4, <3>1
    <3> QED
      BY <2>1, <3>2
  <2>5. CASE writes[k + 1].path # p
    <3>1. Last(k + 1)
      BY <2>1, <2>2, <2>3, <2>5
    <3> QED
      BY <2>1, <3>1
  <2> QED
    BY <2>4, <2>5
<1>5. 0..n \subseteq S
  <2>1. 0 \in Nat
    OBVIOUS
  <2> HIDE DEF S
  <2> QED
    BY <1>1, <1>3, <1>4, <2>1, Induction
<1>6. Last(n)
  BY <1>1, <1>5
<1> QED
  BY <1>1, <1>6 DEF Relevant, f, b, n

LEMMA ClassifyType ==
    ASSUME NEW p, NEW content, NEW snapshot
    PROVE  Classify(p, content, snapshot) \in Provenances
BY DEF Classify, ClassifyChain, Unobserved, Observed, Provenances, ObservedStatuses

\* A file scanned while the chain of its path is what others' changes made it.
LEMMA ClassifyTrue ==
    ASSUME Types, NEW p \in Paths, TouchInv(p), receipt = NoReceipt,
           NEW content \in Contents, NEW snapshot,
           snapshot.status = "complete" => snapshot.entries[p] = file[p],
           NEW item, item.content = content, item.provenance = Classify(p, content, snapshot)
    PROVE  ClaimTrue(p, item, snapshot, touched[p])
<1> DEFINE end == Current(p)[Len(writes)]
           base == baseline.entries[p]
           claim == item.provenance
<1>1. writes \in Seq(WriteRecs) /\ touched[p] \in Nat
  BY DEF Types
<1>2. \/ Relevant(p) = {} /\ end = base
      \/ \E i \in Relevant(p) : /\ \A j \in Relevant(p) : j <= i
                                /\ end = writes[i].after
  BY <1>1, LastWrite
<1>3. CASE snapshot.status # "complete" \/ snapshot.entries[p] # content
           \/ baseline.status # "complete"
  BY <1>3 DEF Classify, ClaimTrue, ObservedStatuses
<1>4. CASE /\ snapshot.status = "complete" /\ snapshot.entries[p] = content
           /\ baseline.status = "complete"
  <2>1. file[p] = content /\ content # None
    BY <1>4, ReviewAssumption DEF None
  <2>2. claim = ClassifyChain(p, content)
    BY <1>4, <2>1 DEF Classify
  <2>3. /\ touched[p] = 0 => ChainHolds(p) /\ content = end
        /\ touched[p] = 1 => ~(ChainHolds(p) /\ content = end)
    BY <1>4, <2>1 DEF TouchInv
  <2>4. CASE Relevant(p) = {}
    <3>1. claim = Unobserved(p, content) /\ ChainHolds(p) /\ end = base
      BY <1>2, <2>2, <2>4 DEF ClassifyChain, ChainHolds
    <3> HIDE DEF end
    <3>2. claim = IF base = None THEN "shadow_unobserved_created"
                  ELSE IF base = content THEN "shadow_existing_unchanged"
                  ELSE "shadow_external_drift"
      BY <3>1 DEF Unobserved
    <3> HIDE DEF base, claim
    <3>3. claim \notin ObservedStatuses /\ claim # "unrecoverable_chain_break"
      BY <3>2 DEF ObservedStatuses
    <3>4. claim = "shadow_existing_unchanged" => touched[p] # 1 /\ base = content
      BY <2>3, <3>1, <3>2
    <3>5. claim \in {"shadow_unobserved_created", "shadow_external_drift"} => touched[p] > 0
      BY <1>1, <2>1, <2>3, <3>1, <3>2
    <3> QED
      BY <3>3, <3>4, <3>5 DEF ClaimTrue, base, claim
  <2>5. CASE Relevant(p) # {}
    <3>1. claim = IF ~ChainHolds(p) THEN "unrecoverable_chain_break"
                  ELSE IF end # content THEN "unrecoverable_chain_terminal_mismatch"
                  ELSE Observed(p, content)
      BY <2>2, <2>5 DEF ClassifyChain
    <3>2. Observed(p, content) \in ObservedStatuses
      BY DEF Observed, ObservedStatuses
    <3>3. \E i \in Relevant(p) : /\ \A j \in Relevant(p) : j <= i
                                 /\ end = writes[i].after
      BY <1>2, <2>5
    <3> HIDE DEF end, base, claim
    <3>4. claim \in ObservedStatuses =>
             touched[p] # 1 /\ \E i \in Relevant(p) : /\ writes[i].after = content
                                                      /\ \A j \in Relevant(p) : j <= i
      BY <2>3, <3>1, <3>3 DEF ObservedStatuses
    <3>5. claim \notin {"shadow_existing_unchanged", "shadow_unobserved_created",
                        "shadow_external_drift"}
      BY <3>1, <3>2 DEF ObservedStatuses
    <3>6. claim = "unrecoverable_chain_break" => touched[p] > 0
      <4>1. "unrecoverable_chain_break" \notin ObservedStatuses
        BY DEF ObservedStatuses
      <4> QED
        BY <1>1, <2>3, <3>1, <3>2, <4>1
    <3> QED
      BY <1>4, <3>4, <3>5, <3>6 DEF ClaimTrue, claim
  <2> QED
    BY <2>4, <2>5
<1> QED
  BY <1>3, <1>4

----------------------------------------------------------------------------
(* What a step leaves as it was.                                           *)

LEMMA FrozenKept ==
    ASSUME NEW p \in Paths, FrozenInv(p), file' = file, projection'.manifest = projection.manifest,
           matched \subseteq matched', unlinked \subseteq unlinked', tampered => tampered',
           worker'.manifest \in {worker.manifest, NoManifest}
    PROVE  FrozenInv(p)'
<1>1. p \notin Items(NoManifest)
  BY RestingFields
<1>2. p \in Items(worker'.manifest) => worker'.manifest = worker.manifest
  BY <1>1
<1>3. p \in Items(worker'.manifest) =>
         worker'.manifest[p].content \in Contents /\ (file'[p] = None => tampered')
  BY <1>2 DEF FrozenInv
<1>4. p \in Items(projection'.manifest) =>
         /\ projection'.manifest[p].content \in Contents
         /\ file'[p] = projection'.manifest[p].content => p \in matched'
         /\ file'[p] = None => p \in unlinked' \/ tampered'
  BY DEF FrozenInv
<1> QED
  BY <1>3, <1>4 DEF FrozenInv, Items

LEMMA ChainKept ==
    ASSUME NEW p, baseline' = baseline, writes' = writes
    PROVE  /\ Current(p)' = Current(p) /\ Relevant(p)' = Relevant(p)
           /\ ChainHolds(p)' <=> ChainHolds(p)
<1>1. Current(p)' = Current(p)
  BY CurrentIs
<1>2. Relevant(p)' = Relevant(p)
  BY DEF Relevant
<1> QED
  BY <1>1, <1>2 DEF ChainHolds

LEMMA TouchKept ==
    ASSUME NEW p \in Paths, TouchInv(p), file' = file, baseline' = baseline, writes' = writes,
           touched' = touched, receipt' = NoReceipt => receipt = NoReceipt
    PROVE  TouchInv(p)'
BY ChainKept DEF TouchInv

LEMMA ClaimKept ==
    ASSUME NEW p \in Paths, ClaimInv(p), baseline' = baseline, writes' = writes,
           scanned' = scanned, final' = final, projection'.manifest = projection.manifest,
           worker' = worker \/ worker'.pc # "request"
    PROVE  ClaimInv(p)'
<1>1. \A item, snapshot, n :
         ClaimTrue(p, item, snapshot, n)' <=> ClaimTrue(p, item, snapshot, n)
  BY ChainKept DEF ClaimTrue
<1> QED
  BY ChainKept DEF ClaimInv, ClaimTrue, Items

LEMMA ThreadKept ==
    ASSUME Types, NEW t \in Threads, ThreadInv(t), thread'[t] = thread[t], Same \/ Grows,
           receipt.decision = "discard" => receipt'.decision = "discard",
           projection'.manifest = projection.manifest,
           matched \subseteq matched', unlinked \subseteq unlinked', tampered => tampered',
           ~Unreviewed => ~Unreviewed'
    PROVE  ThreadInv(t)'
<1>1. Deleting(t)'
  BY DEF ThreadInv, Deleting, Items
<1>2. thread[t].version \in Nat
  BY DEF Types, ThreadRecs
<1>3. ASSUME thread[t].version <= Version
      PROVE  /\ thread[t].version <= Version'
             /\ thread[t].version = Version' => Same
  BY <1>2, <1>3 DEF Same, Grows, Extended, Version
<1>4. Same => (ReviewPending' <=> ReviewPending)
  BY DEF Same, ReviewPending
<1>5. Deciding(t)'
  <2>1. Deciding(t)
    BY DEF ThreadInv
  <2>2. thread[t].pc \in {"look", "verify", "begin"} =>
           thread[t].decision \in Decisions /\ ~Unreviewed'
    BY <2>1 DEF Deciding
  <2>3. thread[t].pc \in {"verify", "begin"} =>
           /\ thread[t].version <= Version'
           /\ thread[t].version = Version' => ReviewPending'
    <3>1. Same => Version' = Version
      BY DEF Same, Version
    <3> QED
      BY <1>3, <1>4, <2>1, <3>1 DEF Deciding
  <2>4. /\ thread[t].pc = "verify" =>
             \A p \in Items(projection.manifest) : p \in thread[t].todo \/ p \in matched'
        /\ thread[t].pc = "begin" /\ thread[t].decision = "retain" =>
             Items(projection.manifest) \subseteq matched'
    BY <2>1 DEF Deciding
  <2>5. thread[t].pc = "checkpoint" => thread[t].version <= Version'
    BY <1>3, <2>1 DEF Deciding
  <2>6. Items(projection.manifest)' = Items(projection.manifest)
    BY DEF Items
  <2> QED
    BY <2>2, <2>3, <2>4, <2>5, <2>6 DEF Deciding
<1> QED
  BY <1>1, <1>5 DEF ThreadInv

\* While the worker may still run, nobody decides or deletes.
LEMMA ThreadWaits ==
    ASSUME Types, NEW t \in Threads, ThreadInv(t), thread'[t] = thread[t], Same \/ Grows,
           Unreviewed, receipt = NoReceipt
    PROVE  ThreadInv(t)'
<1>1. thread[t].pc \notin {"delete", "unlink", "look", "verify", "begin"}
  BY RestingFields DEF ThreadInv, Deleting, Deciding, None
<1>2. thread[t].version \in Nat
  BY DEF Types, ThreadRecs
<1>3. thread[t].pc = "checkpoint" => thread[t].version <= Version'
  BY <1>2 DEF ThreadInv, Deciding, Same, Grows, Extended, Version
<1>4. Deleting(t)'
  BY <1>1 DEF Deleting
<1>5. Deciding(t)'
  BY <1>1, <1>3 DEF Deciding
<1> QED
  BY <1>4, <1>5 DEF ThreadInv

LEMMA ThreadIdles ==
    ASSUME NEW t \in Threads, thread'[t].pc \in {"idle", "read"}
    PROVE  ThreadInv(t)'
BY DEF ThreadInv, Deleting, Deciding

LEMMA LockSame ==
    ASSUME LockInv, thread' = thread, lock' = lock
    PROVE  LockInv'
BY DEF LockInv

LEMMA Names == Boot \in Threads /\ Saver \in Threads /\ Clients \subseteq Threads
               /\ Boot \notin Clients /\ Saver \notin Clients /\ None \notin Clients /\ Boot # Saver
BY ReviewAssumption DEF Threads, Boot, Saver, None

\* The thread t moves to r, the others stay.
Moves(t, r) ==
    /\ thread' \in [Threads -> ThreadRecs] /\ thread'[t] = r
    /\ \A u \in Threads \ {t} : thread'[u] = thread[u]

LEMMA ThreadMoves ==
    ASSUME Types, NEW t \in Threads, NEW r \in ThreadRecs, thread' = [thread EXCEPT ![t] = r]
    PROVE  Moves(t, r)
BY DEF Types, Moves

\* A thread that holds the lock keeps it; the boot recovery deletes without, the saver saves.
LEMMA LockMoves ==
    ASSUME LockInv, NEW t \in Threads, NEW r, Moves(t, r), lock' = lock,
           r.pc \in {"idle", "delete", "unlink"} \/ t # Boot,
           r.pc \in {"idle", "read", "checkpoint"} \/ t # Saver,
           thread[t].pc # "idle"
    PROVE  LockInv'
BY Names DEF LockInv, Moves

LEMMA LockLeave ==
    ASSUME Types, LockInv, NEW t \in Threads, Leave(t)
    PROVE  Moves(t, Resting) /\ LockInv'
<1>1. Moves(t, Resting)
  BY ThreadMoves, Constants DEF Leave
<1>2. \A u \in Clients : thread'[u].pc # "idle" => lock' = u
  BY <1>1, Names, RestingFields DEF Moves, Leave, LockInv
<1> QED
  BY <1>1, <1>2, Names, RestingFields DEF Moves, LockInv

----------------------------------------------------------------------------
(* The worker's steps.                                                     *)

LEMMA InitInv == Init => ReviewInv
<1> SUFFICES ASSUME Init PROVE ReviewInv
  OBVIOUS
<1>1. projection = Drafted /\ events = <<>> /\ checkpoints = {} /\ writes = <<>>
      /\ worker = [NoWorker EXCEPT !.pc = "write"] /\ final = NoFinal /\ receipt = NoReceipt
      /\ thread = [t \in Threads |-> Resting] /\ matched = {} /\ unlinked = {}
      /\ tampered = FALSE /\ touched = [p \in Paths |-> 0] /\ scanned = [p \in Paths |-> 0]
      /\ lock = None
  BY DEF Init
<1>2. worker \in WorkerRecs /\ worker.pc = "write" /\ worker.manifest = NoManifest
  BY <1>1, Constants, RestingFields DEF WorkerRecs
<1>3. file \in [Paths -> Bytes]
  BY ReviewAssumption DEF Init, Bytes, None
<1>4. baseline \in Snapshots /\ (baseline.status = "complete" => baseline.entries = file)
  <2>1. PICK s \in Baselines : baseline = Snapshot(s)
    BY DEF Init
  <2> QED
    BY <1>3, <2>1 DEF Snapshot, Snapshots, Bytes
<1>5. thread \in [Threads -> ThreadRecs] /\ \A t \in Threads : thread[t].pc = "idle"
  BY <1>1, Constants, RestingFields
<1>6. Types
  <2>1. projection \in Projections /\ final \in FinalRecs /\ receipt \in ReceiptRecs
    BY <1>1, Constants
  <2>2. writes \in Seq(WriteRecs)
    BY <1>1
  <2>3. touched \in [Paths -> Nat] /\ scanned \in [Paths -> Nat]
    BY <1>1
  <2>4. matched \subseteq Paths /\ unlinked \subseteq Paths /\ tampered \in BOOLEAN
    BY <1>1
  <2> QED
    BY <1>2, <1>3, <1>4, <1>5, <2>1, <2>2, <2>3, <2>4 DEF Types
<1>7. projection.status = "running" /\ projection.disposition = "pending"
      /\ projection.manifest = NoManifest
  BY <1>1 DEF Drafted
<1>8. LedgerInv
  <2>1. Replays(ReplayOf(events, 0, Drafted), 0, 0, Drafted, events)
    <3>1. 0 \in Nat /\ Len(events) = 0
      BY <1>1
    <3>2. 0 <= Len(events) /\ Len(events) \in Nat
      BY <3>1
    <3> QED
      BY <3>1, <3>2, ReplayUnfolds
  <2>2. ReplayOf(events, 0, Drafted)[0] = Drafted
    BY <2>1 DEF Replays
  <2>3. Replay(Drafted) = projection
    BY <1>1, <2>2, ReplayIs DEF Replay, Version
  <2> QED
    BY <1>1, <2>3 DEF LedgerInv
<1>9. PhaseInv
  BY <1>1, <1>2, <1>7, RestingFields DEF PhaseInv, Active
<1>10. DiscardInv /\ LockInv
  BY <1>5, <1>7, Names DEF DiscardInv, LockInv
<1>11. ASSUME NEW p \in Paths PROVE FrozenInv(p)
  BY <1>2, <1>7, RestingFields DEF FrozenInv
<1>12. ASSUME NEW p \in Paths PROVE TouchInv(p)
  <2>1. ChainHolds(p) /\ Relevant(p) = {}
    BY <1>1 DEF ChainHolds, Relevant
  <2>2. Current(p)[Len(writes)] = baseline.entries[p]
    <3>1. writes \in Seq(WriteRecs)
      BY <1>1
    <3> QED
      BY <2>1, <3>1, LastWrite
  <2> QED
    BY <1>1, <1>4, <2>1, <2>2 DEF TouchInv
<1>13. ASSUME NEW p \in Paths PROVE ClaimInv(p)
  BY <1>2, <1>7, RestingFields DEF ClaimInv
<1>14. ASSUME NEW t \in Threads PROVE ThreadInv(t)
  BY <1>5 DEF ThreadInv, Deleting, Deciding
<1> QED
  BY <1>6, <1>8, <1>9, <1>10, <1>11, <1>12, <1>13, <1>14 DEF ReviewInv

\* Until a review is asked for nothing is decided or deleted.
LEMMA Working ==
    ASSUME ReviewInv, Unreviewed
    PROVE  /\ receipt = NoReceipt /\ unlinked = {} /\ projection.disposition # "discarded"
           /\ projection.manifest = NoManifest /\ Items(projection.manifest) = {}
<1>1. receipt = NoReceipt /\ projection.manifest = NoManifest
  BY DEF ReviewInv, PhaseInv
<1>2. unlinked = {} /\ projection.disposition # "discarded"
  BY <1>1, RestingFields DEF ReviewInv, PhaseInv, DiscardInv, None
<1> QED
  BY <1>1, <1>2, RestingFields

LEMMA WorkerWorks ==
    ASSUME ReviewInv, worker.pc # "gone"
    PROVE  Unreviewed /\ projection.status \in Active
BY DEF ReviewInv, PhaseInv, Active, Unreviewed

\* What the steps of the worker and around it have in common.
LEMMA Worked ==
    ASSUME ReviewInv, Unreviewed, Same \/ Grows, checkpoints' = checkpoints,
           baseline' = baseline, touched' = touched, unlinked' = unlinked,
           tampered' = tampered, receipt' = receipt,
           thread' \in [Threads -> ThreadRecs], LockInv',
           \A t \in Threads : thread'[t] = thread[t] \/ thread'[t].pc \in {"idle", "read"},
           file' \in [Paths -> Bytes], writes' \in Seq(WriteRecs), worker' \in WorkerRecs,
           final' \in FinalRecs, scanned' \in [Paths -> Nat], matched' \subseteq Paths,
           projection'.status \in {"running", "verifying", "paused", "failed", "waiting_user"},
           projection'.disposition # "discarded",
           worker'.pc # "gone" => projection'.status \in Active,
           worker'.pc \in {"write", "freeze", "gone"} => worker'.manifest = NoManifest,
           Unreviewed' => projection'.manifest = NoManifest,
           \A p \in Paths : FrozenInv(p)' /\ TouchInv(p)' /\ ClaimInv(p)'
    PROVE  ReviewInv'
<1>1. receipt = NoReceipt /\ unlinked = {}
  BY Working
<1>2. Extended /\ Ledger'
  BY DEF Same, Grows, Extended
<1>3. LedgerInv'
  BY <1>2, LedgerStep DEF ReviewInv
<1>4. Types'
  BY <1>2 DEF ReviewInv, Types, Ledger
<1>5. PhaseInv'
  BY <1>1 DEF PhaseInv, Unreviewed
<1>6. DiscardInv'
  BY DEF DiscardInv
<1>7. ASSUME NEW t \in Threads PROVE ThreadInv(t)'
  <2>1. Types /\ ThreadInv(t)
    BY DEF ReviewInv
  <2> QED
    BY <1>1, <2>1, ThreadWaits, ThreadIdles
<1>8. \A p \in Paths : FrozenInv(p)'
  OBVIOUS
<1>9. \A p \in Paths : TouchInv(p)'
  OBVIOUS
<1>10. \A p \in Paths : ClaimInv(p)'
  OBVIOUS
<1> QED
  BY <1>3, <1>4, <1>5, <1>6, <1>7, <1>8, <1>9, <1>10 DEF ReviewInv

LEMMA Parts ==
    ASSUME ReviewInv
    PROVE  /\ Types /\ Ledger /\ LockInv
           /\ projection \in Projections /\ worker \in WorkerRecs /\ writes \in Seq(WriteRecs)
           /\ thread \in [Threads -> ThreadRecs] /\ file \in [Paths -> Bytes]
           /\ final \in FinalRecs /\ scanned \in [Paths -> Nat] /\ touched \in [Paths -> Nat]
           /\ matched \subseteq Paths /\ baseline \in Snapshots
           /\ \A p \in Paths : FrozenInv(p) /\ TouchInv(p) /\ ClaimInv(p)
BY LedgerParts DEF ReviewInv, Types

LEMMA NoWorkerFields ==
    /\ NoWorker.pc = "gone" /\ NoWorker.manifest = NoManifest /\ NoWorker \in WorkerRecs
    /\ [NoWorker EXCEPT !.pc = "write"] \in WorkerRecs
    /\ [NoWorker EXCEPT !.pc = "write"].pc = "write"
    /\ [NoWorker EXCEPT !.pc = "write"].manifest = NoManifest
BY Constants, RestingFields DEF WorkerRecs

LEMMA WriteFileInv ==
    ASSUME ReviewInv, NEW p \in Paths, NEW c \in Contents, WriteFile(p, c)
    PROVE  ReviewInv'
<1> DEFINE w == [path |-> p, before |-> file[p], after |-> c]
<1>1. worker.pc = "write" /\ file' = [file EXCEPT ![p] = c] /\ writes' = Append(writes, w)
      /\ events' = events /\ projection' = projection /\ checkpoints' = checkpoints
      /\ baseline' = baseline /\ worker' = worker /\ final' = final /\ receipt' = receipt
      /\ lock' = lock /\ thread' = thread /\ touched' = touched /\ scanned' = scanned
      /\ matched' = matched /\ unlinked' = unlinked /\ tampered' = tampered
  BY DEF WriteFile, ledger, history
<1>2. Unreviewed /\ projection.status \in Active
  BY <1>1, WorkerWorks
<1>3. Same
  BY <1>1, Parts, NoEvent
<1>4. c \in Bytes /\ file[p] \in Bytes
  BY Parts DEF Bytes
<1>5. w \in WriteRecs /\ w.path = p /\ w.before = file[p] /\ w.after = c
  BY <1>4 DEF WriteRecs
<1> HIDE DEF w
<1>6. file' \in [Paths -> Bytes] /\ writes' \in Seq(WriteRecs)
  BY <1>1, <1>4, <1>5, Parts
<1>7. projection.manifest = NoManifest /\ worker.manifest = NoManifest
      /\ Items(NoManifest) = {} /\ projection.disposition # "discarded"
  BY <1>1, <1>2, Working, RestingFields DEF ReviewInv, PhaseInv
<1>8. ASSUME NEW q \in Paths PROVE FrozenInv(q)'
  BY <1>1, <1>7 DEF FrozenInv
<1>9. ASSUME NEW q \in Paths PROVE ClaimInv(q)'
  BY <1>1, <1>7 DEF ClaimInv
<1>10. ASSUME NEW q \in Paths PROVE TouchInv(q)'
  <2> DEFINE n == Len(writes)
  <2>1. n \in Nat /\ Len(writes') = n + 1 /\ DOMAIN writes = 1..n /\ DOMAIN writes' = 1..(n + 1)
        /\ writes'[n + 1] = w /\ \A i \in 1..n : writes'[i] = writes[i]
    BY <1>1, <1>5, Parts
  <2>2. /\ \A i \in 0..n : Current(q)'[i] = Current(q)[i]
        /\ Current(q)'[n + 1] = IF w.path = q THEN w.after ELSE Current(q)[n]
    BY <1>1, <1>5, Parts, CurrentAppend
  <2> HIDE DEF n
  <2>3. Relevant(q)' = IF q = p THEN Relevant(q) \cup {n + 1} ELSE Relevant(q)
    BY <1>5, <2>1 DEF Relevant
  <2>4. \A i \in Relevant(q) : i \in 1..n /\ i - 1 \in 0..n
    BY <2>1 DEF Relevant
  <2>5. (\A i \in Relevant(q) : writes'[i].before = Current(q)'[i - 1]) <=> ChainHolds(q)
    BY <2>1, <2>2, <2>4 DEF ChainHolds
  <2>6. (n + 1) - 1 = n /\ n \in 0..n
    BY <2>1
  <2>7. CASE q # p
    <3>1. ChainHolds(q)' <=> ChainHolds(q)
      BY <2>3, <2>5, <2>7 DEF ChainHolds
    <3>2. file'[q] = file[q] /\ Current(q)'[Len(writes')] = Current(q)[Len(writes)]
      BY <1>1, <1>5, <2>1, <2>2, <2>7, Parts DEF n
    <3>3. TouchInv(q)
      BY Parts
    <3> QED
      BY <1>1, <3>1, <3>2, <3>3 DEF TouchInv
  <2>8. CASE q = p
    <3>1. ChainHolds(q)' <=> ChainHolds(q) /\ file[q] = Current(q)[n]
      <4>1. ChainHolds(q)' <=> /\ \A i \in Relevant(q) : writes'[i].before = Current(q)'[i - 1]
                               /\ writes'[n + 1].before = Current(q)'[(n + 1) - 1]
        BY <2>3, <2>8 DEF ChainHolds
      <4> QED
        BY <1>5, <2>1, <2>2, <2>5, <2>6, <2>8, <4>1
    <3>2. file'[q] = Current(q)'[Len(writes')]
      BY <1>1, <1>5, <2>1, <2>2, <2>8, Parts
    <3>3. TouchInv(q)
      BY Parts
    <3> QED
      BY <1>1, <3>1, <3>2, <3>3 DEF TouchInv, n
  <2> QED
    BY <2>7, <2>8
<1>11. LockInv'
  BY <1>1, Parts, LockSame
<1>12. projection'.status \in {"running", "verifying", "paused", "failed", "waiting_user"}
  BY <1>1, <1>2 DEF Active
<1> QED
  BY <1>1, <1>2, <1>3, <1>6, <1>7, <1>8, <1>9, <1>10, <1>11, <1>12, Parts, Worked

LEMMA StatusPatch ==
    ASSUME NEW s \in Projections, NEW st, NEW r, r = Apply(s, [status |-> st])
    PROVE  /\ r.status = st /\ r.disposition = s.disposition
           /\ r.pending = s.pending /\ r.manifest = s.manifest
BY ApplyFields

LEMMA StatusPausedPatch ==
    ASSUME NEW s \in Projections, NEW st, NEW b, NEW r,
           r = Apply(s, [status |-> st, paused |-> b])
    PROVE  /\ r.status = st /\ r.disposition = s.disposition
           /\ r.pending = s.pending /\ r.manifest = s.manifest
<1>1. DOMAIN [status |-> st, paused |-> b] = {"status", "paused"}
  OBVIOUS
<1> QED
  BY <1>1, ApplyFields

LEMMA OutcomePatch ==
    ASSUME NEW s \in Projections, NEW st, NEW d, NEW r,
           r = Apply(s, [status |-> st, disposition |-> d])
    PROVE  /\ r.status = st /\ r.disposition = d
           /\ r.pending = s.pending /\ r.manifest = s.manifest
<1>1. DOMAIN [status |-> st, disposition |-> d] = {"status", "disposition"}
  OBVIOUS
<1> QED
  BY <1>1, ApplyFields

LEMMA DecidedPatch ==
    ASSUME NEW s \in Projections, NEW d, NEW b, NEW r,
           r = Apply(s, [disposition |-> d, pending |-> b])
    PROVE  /\ r.status = s.status /\ r.disposition = d
           /\ r.pending = b /\ r.manifest = s.manifest
<1>1. DOMAIN [disposition |-> d, pending |-> b] = {"disposition", "pending"}
  OBVIOUS
<1> QED
  BY <1>1, ApplyFields

LEMMA DiscardPatch ==
    ASSUME NEW s \in Projections, NEW st, NEW d, NEW b, NEW r,
           r = Apply(s, [status |-> st, disposition |-> d, pending |-> b])
    PROVE  /\ r.status = st /\ r.disposition = d
           /\ r.pending = b /\ r.manifest = s.manifest
<1>1. DOMAIN [status |-> st, disposition |-> d, pending |-> b]
         = {"status", "disposition", "pending"}
  OBVIOUS
<1> QED
  BY <1>1, ApplyFields

LEMMA RequestPatch ==
    ASSUME NEW s \in Projections, NEW st, NEW d, NEW b, NEW m, NEW r,
           r = Apply(s, [status |-> st, disposition |-> d, pending |-> b, manifest |-> m])
    PROVE  /\ r.status = st /\ r.disposition = d
           /\ r.pending = b /\ r.manifest = m
<1>1. DOMAIN [status |-> st, disposition |-> d, pending |-> b, manifest |-> m]
         = {"status", "disposition", "pending", "manifest"}
  OBVIOUS
<1> QED
  BY <1>1, ApplyFields

LEMMA PatchTypes ==
    /\ [status |-> "verifying"] \in Patches /\ [status |-> "failed"] \in Patches
    /\ [status |-> "running"] \in Patches /\ [status |-> "completed"] \in Patches
    /\ [paused |-> TRUE] \in Patches
    /\ [status |-> "paused", paused |-> FALSE] \in Patches
    /\ [status |-> "recovering", paused |-> FALSE] \in Patches
    /\ [status |-> "failed", disposition |-> "unavailable"] \in Patches
    /\ [status |-> "failed", disposition |-> "discarded"] \in Patches
    /\ [disposition |-> "retained", pending |-> FALSE] \in Patches
    /\ [status |-> "discarding", disposition |-> "discarding", pending |-> FALSE] \in Patches
    /\ \A m \in Manifests : [status |-> "waiting_user", disposition |-> "pending",
                             pending |-> TRUE, manifest |-> m] \in Patches
BY DEF Patches, Statuses, Dispositions

LEMMA FinalizeQuestInv ==
    ASSUME ReviewInv, FinalizeQuest
    PROVE  ReviewInv'
<1>1. worker.pc = "write" /\ Append1([status |-> "verifying"])
      /\ worker' = [worker EXCEPT !.pc = "freeze"]
      /\ checkpoints' = checkpoints /\ file' = file /\ baseline' = baseline /\ writes' = writes
      /\ final' = final /\ receipt' = receipt /\ lock' = lock /\ thread' = thread
      /\ touched' = touched /\ scanned' = scanned /\ matched' = matched
      /\ unlinked' = unlinked /\ tampered' = tampered
  BY DEF FinalizeQuest, history
<1>2. Unreviewed
  BY <1>1, WorkerWorks
<1>3. Grows
  BY <1>1, PatchTypes, Parts, OneEvent
<1>4. projection.manifest = NoManifest /\ worker.manifest = NoManifest
      /\ projection.disposition # "discarded"
  BY <1>1, <1>2, Working DEF ReviewInv, PhaseInv
<1>5. projection'.status = "verifying" /\ projection'.manifest = projection.manifest
      /\ projection'.disposition = projection.disposition
  BY <1>1, Parts, ApplyFields DEF Append1
<1>6. worker' \in WorkerRecs /\ worker'.pc = "freeze" /\ worker'.manifest = worker.manifest
  BY <1>1, Parts DEF WorkerRecs
<1>7. ASSUME NEW p \in Paths PROVE FrozenInv(p)' /\ TouchInv(p)' /\ ClaimInv(p)'
  BY <1>1, <1>5, <1>6, Parts, FrozenKept, TouchKept, ClaimKept
<1>8. LockInv'
  BY <1>1, Parts, LockSame
<1> QED
  BY <1>1, <1>2, <1>3, <1>4, <1>5, <1>6, <1>7, <1>8, Parts, Worked DEF Active

LEMMA FreezeArtifactsInv ==
    ASSUME ReviewInv, NEW evidence \in SUBSET Paths, FreezeArtifacts(evidence)
    PROVE  ReviewInv'
<1> DEFINE frozen == Freezable(evidence)
           m == [p \in Paths |-> IF p \in frozen THEN [content |-> file[p], provenance |-> None]
                                 ELSE NoItem]
<1>1. worker.pc = "freeze"
      /\ checkpoints' = checkpoints /\ file' = file /\ baseline' = baseline /\ writes' = writes
      /\ final' = final /\ receipt' = receipt /\ lock' = lock /\ thread' = thread
      /\ touched' = touched /\ scanned' = scanned /\ matched' = matched
      /\ unlinked' = unlinked /\ tampered' = tampered
  BY DEF FreezeArtifacts, history
<1>2. \/ /\ Append1([status |-> "failed", disposition |-> "unavailable"])
         /\ worker' = NoWorker
      \/ /\ worker' = [worker EXCEPT !.pc = "scan", !.version = Version, !.manifest = m]
         /\ events' = events /\ projection' = projection
  BY DEF FreezeArtifacts
<1>3. Unreviewed /\ projection.status \in Active
  BY <1>1, WorkerWorks
<1>4. projection.manifest = NoManifest /\ projection.disposition # "discarded"
  BY <1>3, Working
<1>5. LockInv'
  BY <1>1, Parts, LockSame
<1>6. ASSUME NEW p \in Paths PROVE TouchInv(p)'
  BY <1>1, Parts, TouchKept
<1>7. CASE /\ Append1([status |-> "failed", disposition |-> "unavailable"])
           /\ worker' = NoWorker
  <2>1. Grows
    BY <1>7, PatchTypes, Parts, OneEvent
  <2>2. projection'.status = "failed" /\ projection'.disposition = "unavailable"
        /\ projection'.manifest = projection.manifest
    BY <1>7, Parts, OutcomePatch DEF Append1
  <2>3. ASSUME NEW p \in Paths PROVE FrozenInv(p)' /\ ClaimInv(p)'
    BY <1>1, <1>7, <2>2, NoWorkerFields, Parts, FrozenKept, ClaimKept
  <2> QED
    BY <1>1, <1>3, <1>4, <1>5, <1>6, <1>7, <2>1, <2>2, <2>3, NoWorkerFields, Parts, Worked
<1>8. CASE /\ worker' = [worker EXCEPT !.pc = "scan", !.version = Version, !.manifest = m]
           /\ events' = events /\ projection' = projection
  <2>1. Same
    BY <1>8, Parts, NoEvent
  <2>2. \A p \in frozen : file[p] \in Contents
    BY Parts DEF Freezable, Bytes
  <2> HIDE DEF frozen
  <2>3. m \in Manifests
    BY <2>2, Constants DEF Manifests, ItemRecs, Bytes
  <2>4. \A p \in Paths : m[p] = IF p \in frozen THEN [content |-> file[p], provenance |-> None]
                                ELSE NoItem
    OBVIOUS
  <2> HIDE DEF m
  <2>5. worker' \in WorkerRecs /\ worker'.pc = "scan" /\ worker'.manifest = m
    <3>1. Version \in Nat
      BY <2>1 DEF Same, Extended, Version
    <3> QED
      BY <1>8, <2>3, <3>1, Parts DEF WorkerRecs
  <2>6. ASSUME NEW p \in Paths PROVE FrozenInv(p)'
    <3>1. p \in Items(m) => m[p].content = file[p] /\ file[p] \in Contents /\ file[p] # None
      <4>1. p \in Items(m) => p \in frozen
        BY <2>4 DEF Items
      <4>2. p \in frozen => m[p] = [content |-> file[p], provenance |-> None]
        BY <2>4
      <4>3. p \in frozen => file[p] \in Contents /\ file[p] # None
        BY <2>2, ReviewAssumption DEF None
      <4> QED
        BY <4>1, <4>2, <4>3
    <3>2. p \notin Items(projection'.manifest)
      BY <1>4, <1>8, RestingFields
    <3> QED
      BY <1>1, <2>5, <3>1, <3>2 DEF FrozenInv, Items
  <2>7. ASSUME NEW p \in Paths PROVE ClaimInv(p)'
    BY <1>1, <1>8, <2>5, Parts, ClaimKept
  <2>8. projection'.status \in {"running", "verifying", "paused", "failed", "waiting_user"}
    BY <1>3, <1>8 DEF Active
  <2> QED
    BY <1>1, <1>3, <1>4, <1>5, <1>6, <1>8, <2>1, <2>5, <2>6, <2>7, <2>8, Parts, Worked
<1> QED
  BY <1>2, <1>7, <1>8

LEMMA ScanAndClassifyInv ==
    ASSUME ReviewInv, NEW status \in Incomplete \cup {"complete"}, ScanAndClassify(status)
    PROVE  ReviewInv'
<1> DEFINE s == Snapshot(status)
           m == [p \in Paths |-> IF worker.manifest[p] = NoItem THEN NoItem
                    ELSE [content |-> worker.manifest[p].content,
                          provenance |-> Classify(p, worker.manifest[p].content, s)]]
<1>1. worker.pc = "scan" /\ scanned' = touched
      /\ events' = events /\ projection' = projection /\ checkpoints' = checkpoints
      /\ file' = file /\ baseline' = baseline /\ writes' = writes
      /\ final' = final /\ receipt' = receipt /\ lock' = lock /\ thread' = thread
      /\ touched' = touched /\ matched' = matched
      /\ unlinked' = unlinked /\ tampered' = tampered
  BY DEF ScanAndClassify, ledger
<1>2. worker' = [worker EXCEPT !.pc = "request", !.snapshot = s, !.manifest = m]
  BY DEF ScanAndClassify
<1>3. Unreviewed /\ projection.status \in Active
  BY <1>1, WorkerWorks
<1>4. receipt = NoReceipt /\ projection.manifest = NoManifest
      /\ projection.disposition # "discarded"
  BY <1>3, Working
<1>5. Same
  BY <1>1, Parts, NoEvent
<1>6. s \in Snapshots /\ (s.status = "complete" => s.entries = file)
  BY Parts DEF Snapshot, Snapshots, Bytes
<1> HIDE DEF s
<1>7. worker.manifest \in Manifests
  BY Parts DEF WorkerRecs
<1>8. m \in Manifests
  <2>1. \A p \in Paths : worker.manifest[p].content \in Bytes
    BY <1>7 DEF Manifests, ItemRecs
  <2> QED
    BY <2>1, Constants, ClassifyType DEF Manifests, ItemRecs
<1>9. \A p \in Paths : m[p] = IF worker.manifest[p] = NoItem THEN NoItem
         ELSE [content |-> worker.manifest[p].content,
               provenance |-> Classify(p, worker.manifest[p].content, s)]
  OBVIOUS
<1> HIDE DEF m
<1>10. worker' \in WorkerRecs /\ worker'.pc = "request" /\ worker'.manifest = m
       /\ worker'.snapshot = s
  BY <1>2, <1>6, <1>8, Parts DEF WorkerRecs
<1>11. ASSUME NEW p \in Paths, p \in Items(m)
       PROVE  /\ p \in Items(worker.manifest)
              /\ m[p].content = worker.manifest[p].content /\ m[p].content \in Contents
              /\ m[p].provenance = Classify(p, m[p].content, s)
  <2>1. p \in Items(worker.manifest)
    BY <1>9, <1>11 DEF Items
  <2>2. m[p] = [content |-> worker.manifest[p].content,
                provenance |-> Classify(p, worker.manifest[p].content, s)]
    BY <1>9, <2>1 DEF Items
  <2>3. worker.manifest[p].content \in Contents
    BY <2>1, Parts DEF FrozenInv
  <2> QED
    BY <2>1, <2>2, <2>3
<1>12. ASSUME NEW p \in Paths PROVE FrozenInv(p)'
  <2>1. p \notin Items(projection'.manifest)
    BY <1>1, <1>4, RestingFields
  <2>2. p \in Items(m) => m[p].content \in Contents /\ (file[p] = None => tampered)
    BY <1>11, Parts DEF FrozenInv
  <2> QED
    BY <1>1, <1>10, <2>1, <2>2 DEF FrozenInv, Items
<1>13. ASSUME NEW p \in Paths PROVE ClaimInv(p)'
  <2>1. p \notin Items(projection'.manifest)
    BY <1>1, <1>4, RestingFields
  <2>2. ASSUME p \in Items(m) PROVE ClaimTrue(p, m[p], s, touched[p])
    <3>1. TouchInv(p) /\ Types
      BY Parts
    <3>2. s.status = "complete" => s.entries[p] = file[p]
      BY <1>6
    <3> QED
      BY <1>4, <1>11, <2>2, <3>1, <3>2, ClassifyTrue
  <2> QED
    BY <1>1, <1>10, <2>1, <2>2, ChainKept DEF ClaimInv, ClaimTrue, Items
<1>14. ASSUME NEW p \in Paths PROVE TouchInv(p)'
  BY <1>1, Parts, TouchKept
<1>15. LockInv'
  BY <1>1, Parts, LockSame
<1>16. projection'.status \in {"running", "verifying", "paused", "failed", "waiting_user"}
  BY <1>1, <1>3 DEF Active
<1> QED
  BY <1>1, <1>3, <1>4, <1>5, <1>10, <1>12, <1>13, <1>14, <1>15, <1>16, Parts, Worked

LEMMA RequestReviewInv ==
    ASSUME ReviewInv, RequestReview
    PROVE  ReviewInv'
<1> DEFINE patch == [status |-> "waiting_user", disposition |-> "pending",
                     pending |-> TRUE, manifest |-> worker.manifest]
<1>1. worker.pc = "request" /\ worker' = NoWorker
      /\ checkpoints' = checkpoints /\ file' = file /\ baseline' = baseline /\ writes' = writes
      /\ receipt' = receipt /\ lock' = lock /\ thread' = thread
      /\ touched' = touched /\ scanned' = scanned
      /\ unlinked' = unlinked /\ tampered' = tampered
  BY DEF RequestReview
<1>2. \/ events' = events /\ projection' = projection /\ final' = final /\ matched' = matched
      \/ Append1([status |-> "failed"]) /\ final' = final /\ matched' = matched
      \/ /\ final' = [snapshot |-> worker.snapshot,
                      provenance |-> [p \in Paths |-> worker.manifest[p].provenance]]
         /\ Append1(patch)
         /\ matched' = {p \in Paths : file[p] = worker.manifest[p].content}
  BY DEF RequestReview
<1>3. Unreviewed /\ projection.status \in Active
  BY <1>1, WorkerWorks
<1>4. receipt = NoReceipt /\ projection.manifest = NoManifest
      /\ projection.disposition # "discarded"
  BY <1>3, Working
<1>5. LockInv'
  BY <1>1, Parts, LockSame
<1>6. ASSUME NEW p \in Paths PROVE TouchInv(p)'
  BY <1>1, Parts, TouchKept
<1>7. ASSUME projection'.manifest = projection.manifest, final' = final, matched' = matched,
             NEW p \in Paths
      PROVE  FrozenInv(p)' /\ ClaimInv(p)'
  BY <1>1, <1>7, NoWorkerFields, Parts, FrozenKept, ClaimKept
<1>8. CASE events' = events /\ projection' = projection /\ final' = final /\ matched' = matched
  <2>1. Same
    BY <1>8, Parts, NoEvent
  <2>2. projection'.status \in {"running", "verifying", "paused", "failed", "waiting_user"}
    BY <1>3, <1>8 DEF Active
  <2> QED
    BY <1>1, <1>3, <1>4, <1>5, <1>6, <1>7, <1>8, <2>1, <2>2, NoWorkerFields, Parts, Worked
<1>9. CASE Append1([status |-> "failed"]) /\ final' = final /\ matched' = matched
  <2>1. Grows
    BY <1>9, PatchTypes, Parts, OneEvent
  <2>2. projection'.status = "failed" /\ projection'.disposition = projection.disposition
        /\ projection'.manifest = projection.manifest
    BY <1>9, Parts, StatusPatch DEF Append1
  <2> QED
    BY <1>1, <1>3, <1>4, <1>5, <1>6, <1>7, <1>9, <2>1, <2>2, NoWorkerFields, Parts, Worked
<1>10. CASE /\ final' = [snapshot |-> worker.snapshot,
                         provenance |-> [p \in Paths |-> worker.manifest[p].provenance]]
            /\ Append1(patch)
            /\ matched' = {p \in Paths : file[p] = worker.manifest[p].content}
  <2>1. worker.manifest \in Manifests /\ worker.snapshot \in Snapshots
    BY Parts DEF WorkerRecs
  <2>2. patch \in Patches
    BY <2>1, PatchTypes
  <2>3. projection'.status = "waiting_user" /\ projection'.disposition = "pending"
        /\ projection'.manifest = worker.manifest
    BY <1>10, Parts, RequestPatch DEF Append1
  <2> HIDE DEF patch
  <2>4. Grows
    BY <1>10, <2>2, Parts, OneEvent
  <2>5. final' \in FinalRecs /\ final'.snapshot = worker.snapshot
    <3>1. \A p \in Paths : worker.manifest[p].provenance \in Provenances \cup {None}
      BY <2>1 DEF Manifests, ItemRecs
    <3>2. [p \in Paths |-> worker.manifest[p].provenance] \in [Paths -> Provenances \cup {None}]
      BY <3>1
    <3> QED
      BY <1>10, <2>1, <3>2 DEF FinalRecs
  <2>6. matched' \subseteq Paths
    BY <1>10
  <2>7. ASSUME NEW p \in Paths PROVE FrozenInv(p)'
    <3>1. p \notin Items(worker'.manifest)
      BY <1>1, NoWorkerFields, RestingFields
    <3>2. p \in Items(worker.manifest) =>
             worker.manifest[p].content \in Contents /\ (file[p] = None => tampered)
      BY Parts DEF FrozenInv
    <3> QED
      BY <1>1, <1>10, <2>3, <3>1, <3>2 DEF FrozenInv, Items
  <2>8. ASSUME NEW p \in Paths PROVE ClaimInv(p)'
    <3>1. p \in Items(worker.manifest) =>
             ClaimTrue(p, worker.manifest[p], worker.snapshot, scanned[p])
      BY <1>1, Parts DEF ClaimInv
    <3>2. worker'.pc # "request"
      BY <1>1, NoWorkerFields
    <3> QED
      BY <1>1, <2>3, <2>5, <3>1, <3>2, ChainKept DEF ClaimInv, ClaimTrue, Items
  <2>9. ~Unreviewed'
    BY <2>3 DEF Unreviewed
  <2> QED
    BY <1>1, <1>3, <1>5, <1>6, <2>3, <2>4, <2>5, <2>6, <2>7, <2>8, <2>9,
       NoWorkerFields, Parts, Worked
<1> QED
  BY <1>2, <1>8, <1>9, <1>10

LEMMA LoseLeaseInv ==
    ASSUME ReviewInv, LoseLease
    PROVE  ReviewInv'
<1>1. worker.pc = "request"
      /\ events' = events /\ projection' = projection /\ checkpoints' = checkpoints
      /\ file' = file /\ baseline' = baseline /\ writes' = writes /\ worker' = worker
      /\ final' = final /\ receipt' = receipt /\ lock' = lock /\ thread' = thread
      /\ touched' = touched /\ scanned' = scanned /\ matched' = matched
      /\ unlinked' = unlinked /\ tampered' = tampered
  BY DEF LoseLease, ledger, history
<1>2. Unreviewed /\ projection.status \in Active
  BY <1>1, WorkerWorks
<1>3. Same
  BY <1>1, Parts, NoEvent
<1>4. projection.manifest = NoManifest /\ projection.disposition # "discarded"
  BY <1>2, Working
<1>5. ASSUME NEW p \in Paths PROVE FrozenInv(p)' /\ TouchInv(p)' /\ ClaimInv(p)'
  BY <1>1, Parts, FrozenKept, TouchKept, ClaimKept
<1>6. LockInv'
  BY <1>1, Parts, LockSame
<1>7. projection'.status \in {"running", "verifying", "paused", "failed", "waiting_user"}
  BY <1>1, <1>2 DEF Active
<1> QED
  BY <1>1, <1>2, <1>3, <1>4, <1>5, <1>6, <1>7, Parts, Worked

LEMMA PauseQuestInv ==
    ASSUME ReviewInv, PauseQuest
    PROVE  ReviewInv'
<1>1. projection.status \in Active /\ Append1([paused |-> TRUE])
      /\ checkpoints' = checkpoints
      /\ file' = file /\ baseline' = baseline /\ writes' = writes /\ worker' = worker
      /\ final' = final /\ receipt' = receipt /\ lock' = lock /\ thread' = thread
      /\ touched' = touched /\ scanned' = scanned /\ matched' = matched
      /\ unlinked' = unlinked /\ tampered' = tampered
  BY DEF PauseQuest, history
<1>2. Unreviewed
  BY <1>1 DEF Active, Unreviewed
<1>3. Grows
  BY <1>1, PatchTypes, Parts, OneEvent
<1>4. projection.manifest = NoManifest /\ projection.disposition # "discarded"
  BY <1>2, Working
<1>5. projection'.status = projection.status /\ projection'.manifest = projection.manifest
      /\ projection'.disposition = projection.disposition
  BY <1>1, Parts, ApplyFields DEF Append1
<1>6. ASSUME NEW p \in Paths PROVE FrozenInv(p)' /\ TouchInv(p)' /\ ClaimInv(p)'
  BY <1>1, <1>5, Parts, FrozenKept, TouchKept, ClaimKept
<1>7. LockInv'
  BY <1>1, Parts, LockSame
<1>8. projection'.status \in {"running", "verifying", "paused", "failed", "waiting_user"}
  BY <1>1, <1>5 DEF Active
<1>9. worker.pc \in {"write", "freeze", "gone"} => worker.manifest = NoManifest
  BY DEF ReviewInv, PhaseInv
<1> QED
  BY <1>1, <1>2, <1>3, <1>4, <1>5, <1>6, <1>7, <1>8, <1>9, Parts, Worked

LEMMA PauseWorkerInv ==
    ASSUME ReviewInv, PauseWorker
    PROVE  ReviewInv'
<1>1. worker.pc = "write" /\ thread[Saver].pc = "idle"
      /\ Append1([status |-> "paused", paused |-> FALSE]) /\ worker' = NoWorker
      /\ thread' = [thread EXCEPT ![Saver].pc = "read"]
      /\ checkpoints' = checkpoints
      /\ file' = file /\ baseline' = baseline /\ writes' = writes
      /\ final' = final /\ receipt' = receipt /\ lock' = lock
      /\ touched' = touched /\ scanned' = scanned /\ matched' = matched
      /\ unlinked' = unlinked /\ tampered' = tampered
  BY DEF PauseWorker, history
<1>2. Unreviewed
  BY <1>1, WorkerWorks
<1>3. Grows
  BY <1>1, PatchTypes, Parts, OneEvent
<1>4. projection.manifest = NoManifest /\ projection.disposition # "discarded"
  BY <1>2, Working
<1>5. projection'.status = "paused" /\ projection'.manifest = projection.manifest
      /\ projection'.disposition = projection.disposition
  BY <1>1, Parts, StatusPausedPatch DEF Append1
<1>6. ASSUME NEW p \in Paths PROVE FrozenInv(p)' /\ TouchInv(p)' /\ ClaimInv(p)'
  BY <1>1, <1>5, NoWorkerFields, Parts, FrozenKept, TouchKept, ClaimKept
<1>7. PICK r : r = [thread[Saver] EXCEPT !.pc = "read"]
  OBVIOUS
<1>8. r \in ThreadRecs /\ r.pc = "read"
  BY <1>7, Parts, Names, ZenonT(60) DEF ThreadRecs
<1>9. Moves(Saver, r)
  <2>1. thread' = [thread EXCEPT ![Saver] = r]
    BY <1>1, <1>7, Parts, Names
  <2> QED
    BY <1>8, <2>1, Parts, Names, ThreadMoves
<1>10. LockInv'
  BY <1>1, <1>8, <1>9, Parts, Names DEF LockInv, Moves
<1>11. /\ thread' \in [Threads -> ThreadRecs]
       /\ \A t \in Threads : thread'[t] = thread[t] \/ thread'[t].pc \in {"idle", "read"}
  BY <1>8, <1>9 DEF Moves
<1> QED
  BY <1>1, <1>2, <1>3, <1>4, <1>5, <1>6, <1>10, <1>11, NoWorkerFields, Parts, Worked

LEMMA ResumeQuestInv ==
    ASSUME ReviewInv, ResumeQuest
    PROVE  ReviewInv'
<1> DEFINE first == [status |-> "recovering", paused |-> FALSE]
           second == [status |-> "running"]
<1>1. projection.status = "paused" /\ worker.pc = "gone"
      /\ Append2(first, second) /\ worker' = [NoWorker EXCEPT !.pc = "write"]
      /\ checkpoints' = checkpoints
      /\ file' = file /\ baseline' = baseline /\ writes' = writes
      /\ final' = final /\ receipt' = receipt /\ lock' = lock /\ thread' = thread
      /\ touched' = touched /\ scanned' = scanned /\ matched' = matched
      /\ unlinked' = unlinked /\ tampered' = tampered
  BY DEF ResumeQuest, history
<1>2. Unreviewed
  BY <1>1 DEF Unreviewed
<1>3. Grows
  BY <1>1, PatchTypes, Parts, TwoEvents
<1>4. projection.manifest = NoManifest /\ projection.disposition # "discarded"
  BY <1>2, Working
<1>5. projection'.status = "running" /\ projection'.manifest = projection.manifest
      /\ projection'.disposition = projection.disposition
  <2>1. PICK s : s = Apply(projection, first)
    OBVIOUS
  <2>2. s \in Projections /\ s.manifest = projection.manifest
        /\ s.disposition = projection.disposition
    <3>1. first \in Patches /\ projection \in Projections
      BY PatchTypes, Parts
    <3>2. s \in Projections
      BY <2>1, <3>1, ApplyType
    <3>3. s.manifest = projection.manifest /\ s.disposition = projection.disposition
      BY <2>1, <3>1, StatusPausedPatch
    <3> QED
      BY <3>2, <3>3
  <2>3. projection' = Apply(s, second)
    BY <1>1, <2>1 DEF Append2
  <2> QED
    BY <2>2, <2>3, StatusPatch
<1>6. ASSUME NEW p \in Paths PROVE FrozenInv(p)' /\ TouchInv(p)' /\ ClaimInv(p)'
  BY <1>1, <1>5, NoWorkerFields, Parts, FrozenKept, TouchKept, ClaimKept
<1>7. LockInv'
  BY <1>1, Parts, LockSame
<1> QED
  BY <1>1, <1>2, <1>3, <1>4, <1>5, <1>6, <1>7, NoWorkerFields, Parts, Worked DEF Active

----------------------------------------------------------------------------
(* The steps of the threads.                                               *)

\* What the steps of one thread t have in common.
LEMMA Served ==
    ASSUME ReviewInv, NEW t \in Threads, NEW r \in ThreadRecs, Moves(t, r), LockInv',
           Same \/ Grows, checkpoints' = checkpoints,
           baseline' = baseline, writes' = writes, worker' = worker, final' = final,
           touched' = touched, scanned' = scanned, tampered' = tampered,
           file' \in [Paths -> Bytes], receipt' \in ReceiptRecs,
           matched' \subseteq Paths, unlinked \subseteq unlinked', unlinked' \subseteq Paths,
           \A u \in Threads \ {t} : thread[u].pc \in {"look", "verify", "begin"} =>
              matched \subseteq matched',
           projection'.manifest = projection.manifest,
           receipt.decision = "discard" => receipt'.decision = "discard",
           receipt' = NoReceipt => receipt = NoReceipt,
           ~Unreviewed => ~Unreviewed',
           PhaseInv', DiscardInv', ThreadInv(t)',
           \A p \in Paths : FrozenInv(p)' /\ TouchInv(p)'
    PROVE  ReviewInv'
<1>1. Extended /\ Ledger'
  BY DEF Same, Grows, Extended
<1>2. LedgerInv'
  BY <1>1, LedgerStep DEF ReviewInv
<1>3. Types'
  BY <1>1 DEF ReviewInv, Types, Ledger, Moves
<1>4. ASSUME NEW u \in Threads PROVE ThreadInv(u)'
  <2>1. CASE u = t
    BY <2>1
  <2>2. CASE u # t /\ thread[u].pc \in {"look", "verify", "begin"}
    <3>1. matched \subseteq matched' /\ thread'[u] = thread[u]
      BY <2>2 DEF Moves
    <3> QED
      BY <3>1, ThreadKept DEF ReviewInv
  <2>3. CASE u # t /\ thread[u].pc \notin {"look", "verify", "begin"}
    <3>1. thread'[u] = thread[u] /\ ThreadInv(u) /\ Types
      BY <2>3 DEF Moves, ReviewInv
    <3>2. Deleting(u)'
      BY <3>1 DEF ThreadInv, Deleting, Items
    <3>3. thread[u].version \in Nat
      BY <3>1 DEF Types, ThreadRecs
    <3>4. thread[u].pc = "checkpoint" => thread[u].version <= Version'
      BY <3>1, <3>3 DEF ThreadInv, Deciding, Same, Grows, Extended, Version
    <3>5. Deciding(u)'
      BY <2>3, <3>1, <3>4 DEF Deciding
    <3> QED
      BY <3>2, <3>5 DEF ThreadInv
  <2> QED
    BY <2>1, <2>2, <2>3
<1>5. \A p \in Paths : FrozenInv(p)'
  OBVIOUS
<1>6. \A p \in Paths : TouchInv(p)'
  OBVIOUS
<1>7. \A p \in Paths : ClaimInv(p)'
  BY Parts, ClaimKept
<1> QED
  BY <1>2, <1>3, <1>4, <1>5, <1>6, <1>7 DEF ReviewInv

\* A step that only moves its thread.
LEMMA Waited ==
    ASSUME ReviewInv, NEW t \in Threads, NEW r \in ThreadRecs, Moves(t, r), LockInv',
           UNCHANGED <<ledger, file, baseline, writes, lease, worker, final, receipt, history>>,
           ThreadInv(t)'
    PROVE  ReviewInv'
<1>1. events' = events /\ projection' = projection /\ checkpoints' = checkpoints
      /\ file' = file /\ baseline' = baseline /\ writes' = writes /\ worker' = worker
      /\ final' = final /\ receipt' = receipt
      /\ touched' = touched /\ scanned' = scanned /\ matched' = matched
      /\ unlinked' = unlinked /\ tampered' = tampered
  BY DEF ledger, history
<1>2. Same
  BY <1>1, Parts, NoEvent
<1>3. PhaseInv'
  BY <1>1 DEF ReviewInv, PhaseInv, Unreviewed
<1>4. DiscardInv'
  BY <1>1 DEF ReviewInv, DiscardInv, Items
<1>5. \A p \in Paths : FrozenInv(p)' /\ TouchInv(p)'
  BY <1>1, Parts, FrozenKept, TouchKept
<1>6. Unreviewed' <=> Unreviewed
  BY <1>1 DEF Unreviewed
<1>7. receipt \in ReceiptRecs /\ unlinked \subseteq Paths
  BY DEF ReviewInv, Types
<1> QED
  BY <1>1, <1>2, <1>3, <1>4, <1>5, <1>6, <1>7, Parts, Served

LEMMA Leaves ==
    ASSUME ReviewInv, NEW t \in Threads, Leave(t),
           UNCHANGED <<ledger, file, baseline, writes, lease, worker, final, receipt, history>>
    PROVE  ReviewInv'
<1>1. Moves(t, Resting) /\ LockInv'
  BY Parts, LockLeave
<1>2. ThreadInv(t)'
  BY <1>1, RestingFields, ThreadIdles DEF Moves
<1> QED
  BY <1>1, <1>2, Constants, Waited

LEMMA ReviewArtifactsInv ==
    ASSUME ReviewInv, NEW t \in Clients, NEW d \in Decisions, ReviewArtifacts(t, d)
    PROVE  ReviewInv'
<1> DEFINE r == [Resting EXCEPT !.pc = "look", !.decision = d]
<1>1. Items(projection.manifest) # {} /\ thread[t].pc = "idle" /\ lock = None /\ lock' = t
      /\ thread' = [thread EXCEPT ![t] = r]
      /\ matched' = {p \in Paths : file[p] = projection.manifest[p].content}
      /\ events' = events /\ projection' = projection /\ checkpoints' = checkpoints
      /\ file' = file /\ baseline' = baseline /\ writes' = writes /\ worker' = worker
      /\ final' = final /\ receipt' = receipt
      /\ touched' = touched /\ scanned' = scanned
      /\ unlinked' = unlinked /\ tampered' = tampered
  BY DEF ReviewArtifacts, ledger
<1>2. r \in ThreadRecs /\ r.pc = "look" /\ r.decision = d
  BY Constants DEF ThreadRecs
<1> HIDE DEF r
<1>3. t \in Threads /\ t # Boot /\ t # Saver
  BY Names
<1>4. Moves(t, r)
  BY <1>1, <1>2, <1>3, Parts, ThreadMoves
<1>5. \A u \in Clients : thread[u].pc = "idle"
  BY <1>1, Names, Parts DEF LockInv
<1>6. LockInv'
  BY <1>1, <1>3, <1>4, <1>5, Names, Parts DEF LockInv, Moves
<1>7. ~Unreviewed /\ ~Unreviewed'
  BY <1>1, Working DEF Unreviewed
<1>8. ThreadInv(t)'
  BY <1>2, <1>4, <1>7 DEF ThreadInv, Deleting, Deciding, Moves
<1>9. \A u \in Threads \ {t} : thread[u].pc \notin {"look", "verify", "begin"}
  BY <1>5, Parts DEF Threads, LockInv
<1>10. Same
  BY <1>1, Parts, NoEvent
<1>11. PhaseInv'
  BY <1>1 DEF ReviewInv, PhaseInv, Unreviewed
<1>12. DiscardInv'
  BY <1>1 DEF ReviewInv, DiscardInv, Items
<1>13. ASSUME NEW p \in Paths PROVE FrozenInv(p)' /\ TouchInv(p)'
  <2>1. TouchInv(p)'
    BY <1>1, Parts, TouchKept
  <2>2. FrozenInv(p)
    BY Parts
  <2>3. FrozenInv(p)'
    BY <1>1, <2>2 DEF FrozenInv, Items
  <2> QED
    BY <2>1, <2>3
<1>14. receipt \in ReceiptRecs /\ unlinked \subseteq Paths
  BY DEF ReviewInv, Types
<1>15. matched' \subseteq Paths
  BY <1>1
<1> QED
  BY <1>1, <1>2, <1>3, <1>4, <1>6, <1>7, <1>8, <1>9, <1>10, <1>11, <1>12, <1>13, <1>14,
     <1>15, Parts, Served

LEMMA ReviewAgainInv ==
    ASSUME ReviewInv, NEW t \in Clients, ReviewAgain(t)
    PROVE  ReviewInv'
<1>1. UNCHANGED <<ledger, file, baseline, writes, lease, worker, final, receipt, history>>
  BY DEF ReviewAgain
<1>2. t \in Threads /\ t # Boot /\ t # Saver /\ thread[t].pc = "look"
  BY Names DEF ReviewAgain
<1>3. CASE Leave(t)
  BY <1>1, <1>2, <1>3, Leaves
<1>4. CASE ~Leave(t)
  <2>1. PICK r : r = [thread[t] EXCEPT !.pc = "delete", !.todo = Items(projection.manifest)]
    OBVIOUS
  <2>2. /\ receipt.decision = "discard" /\ lock' = lock
        /\ thread' = [thread EXCEPT ![t].pc = "delete", ![t].todo = Items(projection.manifest)]
    BY <1>4 DEF ReviewAgain
  <2>3. thread' = [thread EXCEPT ![t] = r]
    BY <1>2, <2>1, <2>2, Parts
  <2>4. r \in ThreadRecs /\ r.pc = "delete" /\ r.todo = Items(projection.manifest)
    <3>1. thread[t] \in ThreadRecs /\ Items(projection.manifest) \in SUBSET Paths
      BY <1>2, Parts DEF Items
    <3> QED
      BY <2>1, <3>1 DEF ThreadRecs
  <2>5. Moves(t, r)
    BY <1>2, <2>3, <2>4, Parts, ThreadMoves
  <2>6. LockInv'
    BY <1>2, <2>2, <2>4, <2>5, Parts, LockMoves
  <2>7. ThreadInv(t)'
    BY <1>1, <2>2, <2>4, <2>5 DEF ThreadInv, Deleting, Deciding, Items, Moves, ledger
  <2> QED
    BY <1>1, <1>2, <2>4, <2>5, <2>6, <2>7, Waited
<1> QED
  BY <1>3, <1>4

LEMMA ReviewFirstInv ==
    ASSUME ReviewInv, NEW t \in Clients, ReviewFirst(t)
    PROVE  ReviewInv'
<1>1. UNCHANGED <<ledger, file, baseline, writes, lease, worker, final, receipt, history>>
  BY DEF ReviewFirst
<1>2. t \in Threads /\ t # Boot /\ t # Saver /\ thread[t].pc = "look"
  BY Names DEF ReviewFirst
<1>3. CASE Leave(t)
  BY <1>1, <1>2, <1>3, Leaves
<1>4. CASE ~Leave(t)
  <2> DEFINE goal == IF thread[t].decision = "retain" THEN "verify" ELSE "begin"
  <2>1. PICK r : r = [thread[t] EXCEPT !.pc = goal, !.todo = Items(projection.manifest),
                                       !.version = Version]
    OBVIOUS
  <2>2. /\ ReviewPending /\ lock' = lock
        /\ thread' = [thread EXCEPT ![t].pc = goal, ![t].todo = Items(projection.manifest),
                                    ![t].version = Version]
    BY <1>4 DEF ReviewFirst
  <2>3. goal \in {"verify", "begin"} /\ (goal = "begin" => thread[t].decision # "retain")
    OBVIOUS
  <2> HIDE DEF goal
  <2>4. thread' = [thread EXCEPT ![t] = r]
    BY <1>2, <2>1, <2>2, Parts
  <2>5. Version \in Nat
    BY Parts DEF Ledger, Version
  <2>6. r \in ThreadRecs /\ r.pc = goal /\ r.todo = Items(projection.manifest)
        /\ r.decision = thread[t].decision /\ r.version = Version
    <3>1. thread[t] \in ThreadRecs /\ Items(projection.manifest) \in SUBSET Paths
      BY <1>2, Parts DEF Items
    <3> QED
      BY <2>1, <2>3, <2>5, <3>1 DEF ThreadRecs
  <2>7. Moves(t, r)
    BY <1>2, <2>4, <2>6, Parts, ThreadMoves
  <2>8. LockInv'
    BY <1>2, <2>2, <2>3, <2>6, <2>7, Parts, LockMoves
  <2>9. thread[t].decision \in Decisions /\ ~Unreviewed
    BY <1>2 DEF ReviewInv, ThreadInv, Deciding
  <2>10. /\ thread'[t] = r /\ projection' = projection /\ Version' = Version
         /\ Items(projection.manifest)' = Items(projection.manifest)
         /\ (ReviewPending' <=> ReviewPending) /\ (Unreviewed' <=> Unreviewed)
    BY <1>1, <2>7 DEF Moves, ledger, Version, Items, ReviewPending, Unreviewed
  <2>11. Deciding(t)'
    <3>1. r.version <= Version /\ (r.version = Version => ReviewPending)
      BY <2>2, <2>5, <2>6
    <3>2. \A q \in Items(projection.manifest) : q \in r.todo \/ q \in matched'
      BY <2>6
    <3>3. r.pc # "look" /\ r.pc # "checkpoint" /\ ~(r.pc = "begin" /\ r.decision = "retain")
      BY <2>3, <2>6
    <3>4. r.decision \in Decisions
      BY <2>6, <2>9
    <3> QED
      BY <2>9, <2>10, <3>1, <3>2, <3>3, <3>4 DEF Deciding
  <2>12. Deleting(t)'
    BY <2>3, <2>6, <2>10 DEF Deleting
  <2> QED
    BY <1>1, <1>2, <2>6, <2>7, <2>8, <2>11, <2>12, Waited DEF ThreadInv
<1> QED
  BY <1>3, <1>4

LEMMA VerifyItemInv ==
    ASSUME ReviewInv, NEW t \in Clients, NEW p \in Paths, VerifyItem(t, p)
    PROVE  ReviewInv'
<1>1. UNCHANGED <<ledger, file, baseline, writes, lease, worker, final, receipt, history>>
  BY DEF VerifyItem
<1>2. t \in Threads /\ t # Boot /\ t # Saver /\ thread[t].pc = "verify" /\ p \in thread[t].todo
  BY Names DEF VerifyItem
<1>3. CASE Leave(t)
  BY <1>1, <1>2, <1>3, Leaves
<1>4. CASE ~Leave(t)
  <2> DEFINE goal == IF thread[t].todo = {p} THEN "begin" ELSE "verify"
  <2>1. PICK r : r = [thread[t] EXCEPT !.todo = thread[t].todo \ {p}, !.pc = goal]
    OBVIOUS
  <2>2. /\ ItemIntact(p) /\ lock' = lock
        /\ thread' = [thread EXCEPT ![t].todo = @ \ {p}, ![t].pc = goal]
    BY <1>4 DEF VerifyItem
  <2>3. goal \in {"verify", "begin"} /\ (goal = "begin" => thread[t].todo = {p})
    OBVIOUS
  <2> HIDE DEF goal
  <2>4. thread' = [thread EXCEPT ![t] = r]
    BY <1>2, <2>1, <2>2, Parts
  <2>5. r \in ThreadRecs /\ r.pc = goal /\ r.todo = thread[t].todo \ {p}
        /\ r.decision = thread[t].decision /\ r.version = thread[t].version
    <3>1. thread[t] \in ThreadRecs
      BY <1>2, Parts
    <3> QED
      BY <2>1, <2>3, <3>1 DEF ThreadRecs
  <2>6. Moves(t, r)
    BY <1>2, <2>4, <2>5, Parts, ThreadMoves
  <2>7. LockInv'
    BY <1>2, <2>2, <2>3, <2>5, <2>6, Parts, LockMoves
  <2>8. /\ thread[t].decision \in Decisions /\ ~Unreviewed
        /\ thread[t].version <= Version
        /\ thread[t].version = Version => ReviewPending
        /\ \A q \in Items(projection.manifest) : q \in thread[t].todo \/ q \in matched
    BY <1>2 DEF ReviewInv, ThreadInv, Deciding
  <2>9. p \in Items(projection.manifest) => p \in matched
    <3>1. FrozenInv(p)
      BY Parts
    <3> QED
      BY <2>2, <3>1 DEF FrozenInv, ItemIntact
  <2>10. /\ thread'[t] = r /\ projection' = projection /\ Version' = Version
         /\ Items(projection.manifest)' = Items(projection.manifest) /\ matched' = matched
         /\ (ReviewPending' <=> ReviewPending) /\ (Unreviewed' <=> Unreviewed)
    BY <1>1, <2>6 DEF Moves, ledger, Version, Items, ReviewPending, Unreviewed, history
  <2>11. \A q \in Items(projection.manifest) : q \in r.todo \/ q \in matched
    BY <2>5, <2>8, <2>9
  <2>12. goal = "begin" => Items(projection.manifest) \subseteq matched
    BY <2>3, <2>8, <2>9
  <2>13. Deciding(t)'
    BY <2>3, <2>5, <2>8, <2>10, <2>11, <2>12 DEF Deciding
  <2>14. Deleting(t)'
    BY <2>3, <2>5, <2>10 DEF Deleting
  <2> QED
    BY <1>1, <1>2, <2>5, <2>6, <2>7, <2>13, <2>14, Waited DEF ThreadInv
<1> QED
  BY <1>3, <1>4

LEMMA CheckItemInv ==
    ASSUME ReviewInv, NEW t \in Clients \cup {Boot}, NEW p \in Paths, CheckItem(t, p)
    PROVE  ReviewInv'
<1>1. UNCHANGED <<ledger, file, baseline, writes, lease, worker, final, receipt, history>>
  BY DEF CheckItem
<1>2. t \in Threads /\ t # Saver /\ thread[t].pc = "delete" /\ p \in thread[t].todo
      /\ thread[t] \in ThreadRecs
  BY Names, Parts DEF CheckItem
<1>3. /\ receipt.decision = "discard"
      /\ \A q \in Items(projection.manifest) :
            q \in thread[t].todo \/ q \in unlinked \/ tampered
  BY <1>2 DEF ReviewInv, ThreadInv, Deleting
<1>4. /\ Items(projection.manifest)' = Items(projection.manifest)
      /\ receipt' = receipt /\ unlinked' = unlinked /\ tampered' = tampered
  BY <1>1 DEF ledger, history, Items
<1>5. CASE Leave(t)
  BY <1>1, <1>2, <1>5, Leaves
<1>6. CASE /\ file[p] = None /\ lock' = lock
           /\ thread' = [thread EXCEPT ![t].todo = @ \ {p}]
  <2>1. PICK r : r = [thread[t] EXCEPT !.todo = thread[t].todo \ {p}]
    OBVIOUS
  <2>2. thread' = [thread EXCEPT ![t] = r]
    BY <1>2, <1>6, <2>1, Parts
  <2>3. r \in ThreadRecs /\ r.pc = "delete" /\ r.todo = thread[t].todo \ {p}
    BY <1>2, <2>1 DEF ThreadRecs
  <2>4. Moves(t, r)
    BY <1>2, <2>2, <2>3, Parts, ThreadMoves
  <2>5. LockInv'
    BY <1>2, <1>6, <2>3, <2>4, Parts, LockMoves
  <2>6. p \in Items(projection.manifest) => p \in unlinked \/ tampered
    BY <1>6, Parts DEF FrozenInv
  <2>7. ThreadInv(t)'
    BY <1>3, <1>4, <2>3, <2>4, <2>6 DEF ThreadInv, Deleting, Deciding, Moves
  <2> QED
    BY <1>1, <1>2, <2>3, <2>4, <2>5, <2>7, Waited
<1>7. CASE /\ lock' = lock
           /\ thread' = [thread EXCEPT ![t].pc = "unlink", ![t].item = p]
  <2>1. PICK r : r = [thread[t] EXCEPT !.pc = "unlink", !.item = p]
    OBVIOUS
  <2>2. thread' = [thread EXCEPT ![t] = r]
    BY <1>2, <1>7, <2>1, Parts
  <2>3. r \in ThreadRecs /\ r.pc = "unlink" /\ r.todo = thread[t].todo /\ r.item = p
    BY <1>2, <2>1 DEF ThreadRecs
  <2>4. Moves(t, r)
    BY <1>2, <2>2, <2>3, Parts, ThreadMoves
  <2>5. LockInv'
    BY <1>2, <1>7, <2>3, <2>4, Parts, LockMoves
  <2>6. ThreadInv(t)'
    BY <1>3, <1>4, <2>3, <2>4 DEF ThreadInv, Deleting, Deciding, Moves
  <2> QED
    BY <1>1, <1>2, <2>3, <2>4, <2>5, <2>6, Waited
<1> QED
  BY <1>5, <1>6, <1>7 DEF CheckItem

LEMMA ReadRowInv ==
    ASSUME ReviewInv, NEW t \in Clients \cup {Saver}, ReadRow(t)
    PROVE  ReviewInv'
<1>1. UNCHANGED <<ledger, file, baseline, writes, lease, worker, final, receipt, history>>
      /\ lock' = lock /\ thread[t].pc = "read"
      /\ thread' = [thread EXCEPT ![t].pc = "checkpoint", ![t].version = Version]
  BY DEF ReadRow, Row
<1>2. t \in Threads /\ t # Boot /\ thread[t] \in ThreadRecs
  BY Names, Parts
<1>3. Version \in Nat /\ Version' = Version
  BY <1>1, Parts DEF Ledger, Version, ledger
<1>4. PICK r : r = [thread[t] EXCEPT !.pc = "checkpoint", !.version = Version]
  OBVIOUS
<1>5. thread' = [thread EXCEPT ![t] = r]
  BY <1>1, <1>2, <1>4, Parts
<1>6. r \in ThreadRecs /\ r.pc = "checkpoint" /\ r.version = Version
  BY <1>2, <1>3, <1>4 DEF ThreadRecs
<1>7. Moves(t, r)
  BY <1>2, <1>5, <1>6, Parts, ThreadMoves
<1>8. LockInv'
  BY <1>1, <1>2, <1>6, <1>7, Parts, LockMoves
<1>9. ThreadInv(t)'
  BY <1>3, <1>6, <1>7 DEF ThreadInv, Deleting, Deciding, Moves
<1> QED
  BY <1>1, <1>2, <1>6, <1>7, <1>8, <1>9, Waited

LEMMA StoreCheckpointInv ==
    ASSUME ReviewInv, NEW t \in Clients \cup {Saver}, StoreCheckpoint(t)
    PROVE  ReviewInv'
<1>1. thread[t].pc = "checkpoint" /\ SaveCheckpoint(CheckpointRow(t)) /\ Leave(t)
      /\ events' = events /\ projection' = projection
      /\ file' = file /\ baseline' = baseline /\ writes' = writes /\ worker' = worker
      /\ final' = final /\ receipt' = receipt
      /\ touched' = touched /\ scanned' = scanned /\ matched' = matched
      /\ unlinked' = unlinked /\ tampered' = tampered
  BY DEF StoreCheckpoint, history
<1>2. t \in Threads
  BY Names
<1>3. Same
  BY <1>1, Parts, NoEvent
<1>4. Moves(t, Resting) /\ LockInv'
  BY <1>1, <1>2, Parts, LockLeave
<1>5. thread[t].version \in 0..Len(events)
  <2>1. thread[t].version \in Nat
    BY <1>2, Parts DEF ThreadRecs
  <2>2. thread[t].version <= Len(events) /\ Len(events) \in Nat
    BY <1>1, <1>2, <1>3 DEF ReviewInv, ThreadInv, Deciding, Version, Same, Extended
  <2> QED
    BY <2>1, <2>2
<1>6. LedgerInv'
  <2>1. ASSUME NEW c \in checkpoints', c \notin checkpoints
        PROVE  /\ c.version \in 0..Len(events')
               /\ c.state = ReplayOf(events', 0, Drafted)[c.version]
    <3>1. c = CheckpointRow(t)
      BY <1>1, <2>1 DEF SaveCheckpoint
    <3>2. c.version = thread[t].version
          /\ c.state = ReplayOf(events, 0, Drafted)[thread[t].version]
      BY <3>1, ReplayIs DEF CheckpointRow
    <3> QED
      BY <1>1, <1>5, <3>2
  <2> QED
    BY <1>3, <2>1, LedgerStep DEF ReviewInv, Same
<1>7. Types'
  BY <1>1, <1>4 DEF ReviewInv, Types, Moves
<1>8. PhaseInv' /\ DiscardInv'
  BY <1>1 DEF ReviewInv, PhaseInv, DiscardInv, Items, Unreviewed
<1>9. Unreviewed' <=> Unreviewed
  BY <1>1 DEF Unreviewed
<1>10. ASSUME NEW u \in Threads PROVE ThreadInv(u)'
  <2>1. CASE u = t
    BY <1>4, <2>1, RestingFields, ThreadIdles DEF Moves
  <2>2. CASE u # t
    <3>1. thread'[u] = thread[u] /\ ThreadInv(u) /\ Types
      BY <1>4, <2>2 DEF Moves, ReviewInv
    <3> QED
      BY <1>1, <1>3, <1>9, <3>1, ThreadKept
  <2> QED
    BY <2>1, <2>2
<1>11. \A p \in Paths : FrozenInv(p)'
  BY <1>1, Parts, FrozenKept
<1>12. \A p \in Paths : TouchInv(p)'
  BY <1>1, Parts, TouchKept
<1>13. \A p \in Paths : ClaimInv(p)'
  BY <1>1, Parts, ClaimKept
<1> QED
  BY <1>4, <1>6, <1>7, <1>8, <1>10, <1>11, <1>12, <1>13 DEF ReviewInv

\* The first decision finds the review pending.
LEMMA Undecided ==
    ASSUME ReviewInv, NEW t \in Clients, BeginReview(t),
           receipt = NoReceipt, thread[t].version = Version
    PROVE  /\ projection.status = "waiting_user" /\ unlinked = {}
           /\ projection.disposition # "discarded"
           /\ thread[t].decision \in Decisions
           /\ thread[t].decision = "retain" => Items(projection.manifest) \subseteq matched
<1>1. t \in Threads /\ thread[t].pc = "begin"
  BY Names DEF BeginReview
<1>2. Deciding(t)
  BY <1>1 DEF ReviewInv, ThreadInv
<1>3. projection.status = "waiting_user"
  BY <1>1, <1>2 DEF Deciding, ReviewPending
<1>4. unlinked = {} /\ projection.disposition # "discarded"
  BY RestingFields DEF ReviewInv, PhaseInv, DiscardInv, None
<1> QED
  BY <1>1, <1>2, <1>3, <1>4 DEF Deciding

LEMMA BeginReviewInv ==
    ASSUME ReviewInv, NEW t \in Clients, BeginReview(t)
    PROVE  ReviewInv'
<1>1. thread[t].pc = "begin"
      /\ checkpoints' = checkpoints
      /\ file' = file /\ baseline' = baseline /\ writes' = writes /\ worker' = worker
      /\ lease' = lease /\ final' = final
      /\ touched' = touched /\ scanned' = scanned /\ matched' = matched
      /\ unlinked' = unlinked /\ tampered' = tampered
  BY DEF BeginReview, history
<1>2. t \in Threads /\ t # Boot /\ t # Saver /\ thread[t] \in ThreadRecs
  BY Names, Parts
<1>3. CASE receipt # NoReceipt \/ thread[t].version # Version
  <2>1. Leave(t) /\ events' = events /\ projection' = projection /\ receipt' = receipt
    BY <1>3 DEF BeginReview
  <2>2. UNCHANGED <<ledger, file, baseline, writes, lease, worker, final, receipt, history>>
    BY <1>1, <2>1 DEF ledger, history
  <2> QED
    BY <1>2, <2>1, <2>2, Leaves
<1>4. CASE receipt = NoReceipt /\ thread[t].version = Version
  <2>1. receipt' = [decision |-> thread[t].decision, completed |-> FALSE] /\ lock' = lock
    BY <1>4 DEF BeginReview
  <2>2. /\ projection.status = "waiting_user" /\ unlinked = {}
        /\ projection.disposition # "discarded"
        /\ thread[t].decision \in Decisions
    BY <1>4, Undecided
  <2>3. receipt' \in ReceiptRecs /\ receipt' # NoReceipt /\ receipt.decision # "discard"
        /\ receipt'.decision = thread[t].decision
    BY <1>4, <2>1, <2>2, RestingFields DEF ReceiptRecs, Decisions, None
  <2>4. worker.pc = "gone" /\ worker.manifest = NoManifest
    BY <2>2 DEF ReviewInv, PhaseInv, Active
  <2>5. \A p \in Paths : TouchInv(p)'
    BY <1>1, <2>3, Parts, TouchKept
  <2>6. unlinked \subseteq Paths
    BY <2>2
  <2>7. CASE thread[t].decision = "retain"
    <3> DEFINE first == [disposition |-> "retained", pending |-> FALSE]
               second == [status |-> "completed"]
    <3>1. Append2(first, second) /\ Goto(t, "read")
      BY <1>4, <2>7 DEF BeginReview
    <3>2. Grows
      BY <3>1, PatchTypes, Parts, TwoEvents
    <3>3. projection'.status = "completed" /\ projection'.disposition = "retained"
          /\ projection'.manifest = projection.manifest
      <4>1. PICK s : s = Apply(projection, first)
        OBVIOUS
      <4>2. first \in Patches /\ projection \in Projections
        BY PatchTypes, Parts
      <4>3. s \in Projections
        BY <4>1, <4>2, ApplyType
      <4>4. s.disposition = "retained" /\ s.manifest = projection.manifest
        BY <4>1, <4>2, DecidedPatch
      <4>5. projection' = Apply(s, second)
        BY <3>1, <4>1 DEF Append2
      <4> QED
        BY <4>3, <4>4, <4>5, StatusPatch
    <3>4. PICK r : r = [thread[t] EXCEPT !.pc = "read"]
      OBVIOUS
    <3>5. thread' = [thread EXCEPT ![t] = r]
      BY <1>2, <3>1, <3>4, Parts DEF Goto
    <3>6. r \in ThreadRecs /\ r.pc = "read"
      BY <1>2, <3>4 DEF ThreadRecs
    <3>7. Moves(t, r)
      BY <1>2, <3>5, <3>6, Parts, ThreadMoves
    <3>8. LockInv'
      BY <1>1, <1>2, <2>1, <3>6, <3>7, Parts, LockMoves
    <3>9. ThreadInv(t)'
      BY <1>2, <3>6, <3>7, ThreadIdles DEF Moves
    <3>10. ~Unreviewed'
      BY <3>3 DEF Unreviewed
    <3>11. PhaseInv'
      BY <1>1, <2>2, <2>4, <3>3, <3>10 DEF PhaseInv
    <3>12. DiscardInv'
      BY <3>3 DEF DiscardInv
    <3>13. \A p \in Paths : FrozenInv(p)'
      BY <1>1, <3>3, Parts, FrozenKept
    <3> QED
      BY <1>1, <1>2, <2>3, <2>5, <2>6, <3>2, <3>3, <3>6, <3>7, <3>8, <3>9, <3>10, <3>11,
         <3>12, <3>13, Parts, Served
  <2>8. CASE thread[t].decision = "discard"
    <3> DEFINE patch == [status |-> "discarding", disposition |-> "discarding",
                         pending |-> FALSE]
    <3>1. /\ Append1(patch)
          /\ thread' = [thread EXCEPT ![t].pc = "delete", ![t].todo = Items(projection.manifest)]
      BY <1>4, <2>8 DEF BeginReview
    <3>2. Grows
      BY <3>1, PatchTypes, Parts, OneEvent
    <3>3. projection'.status = "discarding" /\ projection'.disposition = "discarding"
          /\ projection'.manifest = projection.manifest
      BY <3>1, Parts, DiscardPatch DEF Append1
    <3>4. PICK r : r = [thread[t] EXCEPT !.pc = "delete", !.todo = Items(projection.manifest)]
      OBVIOUS
    <3>5. thread' = [thread EXCEPT ![t] = r]
      BY <1>2, <3>1, <3>4, Parts
    <3>6. r \in ThreadRecs /\ r.pc = "delete" /\ r.todo = Items(projection.manifest)
      <4>1. Items(projection.manifest) \in SUBSET Paths
        BY DEF Items
      <4> QED
        BY <1>2, <3>4, <4>1 DEF ThreadRecs
    <3>7. Moves(t, r)
      BY <1>2, <3>5, <3>6, Parts, ThreadMoves
    <3>8. LockInv'
      BY <1>1, <1>2, <2>1, <3>6, <3>7, Parts, LockMoves
    <3>9. ThreadInv(t)'
      BY <2>3, <2>8, <3>3, <3>6, <3>7 DEF ThreadInv, Deleting, Deciding, Moves, Items
    <3>10. ~Unreviewed'
      BY <3>3 DEF Unreviewed
    <3>11. PhaseInv'
      BY <1>1, <2>2, <2>3, <2>4, <2>8, <3>3, <3>10 DEF PhaseInv
    <3>12. DiscardInv'
      BY <3>3 DEF DiscardInv
    <3>13. \A p \in Paths : FrozenInv(p)'
      BY <1>1, <3>3, Parts, FrozenKept
    <3> QED
      BY <1>1, <1>2, <2>3, <2>5, <2>6, <3>2, <3>3, <3>6, <3>7, <3>8, <3>9, <3>10, <3>11,
         <3>12, <3>13, Parts, Served
  <2> QED
    BY <2>2, <2>7, <2>8 DEF Decisions
<1> QED
  BY <1>3, <1>4

LEMMA UnlinkItemInv ==
    ASSUME ReviewInv, NEW t \in Clients \cup {Boot}, UnlinkItem(t)
    PROVE  ReviewInv'
<1> DEFINE p == thread[t].item
<1>1. thread[t].pc = "unlink" /\ file' = [file EXCEPT ![p] = None]
      /\ unlinked' = unlinked \cup {p}
      /\ thread' = [thread EXCEPT ![t].pc = "delete", ![t].todo = @ \ {p}, ![t].item = None]
      /\ events' = events /\ projection' = projection /\ checkpoints' = checkpoints
      /\ baseline' = baseline /\ writes' = writes /\ worker' = worker
      /\ lease' = lease /\ lock' = lock /\ final' = final /\ receipt' = receipt
      /\ touched' = touched /\ scanned' = scanned /\ matched' = matched /\ tampered' = tampered
  BY DEF UnlinkItem, ledger
<1>2. t \in Threads /\ t # Saver /\ thread[t] \in ThreadRecs
  BY Names, Parts
<1>3. /\ receipt.decision = "discard" /\ p \in Paths
      /\ \A q \in Items(projection.manifest) :
            q \in thread[t].todo \/ q \in unlinked \/ tampered
  BY <1>1, <1>2 DEF ReviewInv, ThreadInv, Deleting
<1> HIDE DEF p
<1>4. receipt # NoReceipt
  BY <1>3, RestingFields DEF None
<1>5. ~Unreviewed /\ worker.pc = "gone" /\ worker.manifest = NoManifest
  BY <1>4 DEF ReviewInv, PhaseInv, Active, Unreviewed
<1>6. Same
  BY <1>1, Parts, NoEvent
<1>7. PICK r : r = [thread[t] EXCEPT !.pc = "delete", !.todo = thread[t].todo \ {p}, !.item = None]
  OBVIOUS
<1>8. thread' = [thread EXCEPT ![t] = r]
  BY <1>1, <1>2, <1>7, Parts
<1>9. r \in ThreadRecs /\ r.pc = "delete" /\ r.todo = thread[t].todo \ {p}
  BY <1>2, <1>7 DEF ThreadRecs
<1>10. Moves(t, r)
  BY <1>2, <1>8, <1>9, Parts, ThreadMoves
<1>11. LockInv'
  BY <1>1, <1>2, <1>9, <1>10, Parts, LockMoves
<1>12. Items(projection.manifest)' = Items(projection.manifest) /\ (Unreviewed' <=> Unreviewed)
  BY <1>1 DEF Items, Unreviewed
<1>13. ThreadInv(t)'
  BY <1>1, <1>3, <1>9, <1>10, <1>12 DEF ThreadInv, Deleting, Deciding, Moves
<1>14. PhaseInv'
  BY <1>1, <1>3, <1>12 DEF ReviewInv, PhaseInv
<1>15. DiscardInv'
  BY <1>1, <1>12 DEF ReviewInv, DiscardInv
<1>16. file' \in [Paths -> Bytes]
  BY <1>1, <1>3, Parts DEF Bytes
<1>17. ASSUME NEW q \in Paths PROVE FrozenInv(q)'
  <2>1. q \notin Items(worker'.manifest)
    BY <1>1, <1>5, RestingFields
  <2>2. FrozenInv(q)
    BY Parts
  <2>3. file'[q] = IF q = p THEN None ELSE file[q]
    BY <1>1, <1>3, Parts
  <2>4. q \in Items(projection.manifest) => projection.manifest[q].content # None
    BY <2>2, ReviewAssumption DEF FrozenInv, None
  <2> QED
    BY <1>1, <2>1, <2>2, <2>3, <2>4 DEF FrozenInv, Items
<1>18. ASSUME NEW q \in Paths PROVE TouchInv(q)'
  BY <1>1, <1>4 DEF TouchInv
<1>19. receipt \in ReceiptRecs /\ unlinked \subseteq Paths
  BY DEF ReviewInv, Types
<1>20. unlinked' \subseteq Paths /\ unlinked \subseteq unlinked'
  BY <1>1, <1>3, <1>19
<1> QED
  BY <1>1, <1>2, <1>5, <1>6, <1>9, <1>10, <1>11, <1>12, <1>13, <1>14, <1>15, <1>16, <1>17,
     <1>18, <1>19, <1>20, Parts, Served

LEMMA FinalizeDiscardInv ==
    ASSUME ReviewInv, NEW t \in Clients \cup {Boot}, FinalizeDiscard(t)
    PROVE  ReviewInv'
<1> DEFINE patch == [status |-> "failed", disposition |-> "discarded"]
<1>1. thread[t].pc = "delete" /\ thread[t].todo = {} /\ Leave(t)
      /\ checkpoints' = checkpoints
      /\ file' = file /\ baseline' = baseline /\ writes' = writes /\ worker' = worker
      /\ lease' = lease /\ final' = final
      /\ touched' = touched /\ scanned' = scanned /\ matched' = matched
      /\ unlinked' = unlinked /\ tampered' = tampered
  BY DEF FinalizeDiscard, AllDeleted, history
<1>2. t \in Threads
  BY Names
<1>3. CASE events' = events /\ projection' = projection /\ receipt' = receipt
  <2>1. UNCHANGED <<ledger, file, baseline, writes, lease, worker, final, receipt, history>>
    BY <1>1, <1>3 DEF ledger, history
  <2> QED
    BY <1>1, <1>2, <2>1, Leaves
<1>4. CASE /\ projection.status = "discarding" /\ Append1(patch)
           /\ receipt' = [receipt EXCEPT !.completed = TRUE]
  <2>1. /\ receipt.decision = "discard"
        /\ \A q \in Items(projection.manifest) : q \in unlinked \/ tampered
    BY <1>1, <1>2 DEF ReviewInv, ThreadInv, Deleting
  <2>2. Grows
    BY <1>4, PatchTypes, Parts, OneEvent
  <2>3. projection'.status = "failed" /\ projection'.disposition = "discarded"
        /\ projection'.manifest = projection.manifest
    BY <1>4, Parts, OutcomePatch DEF Append1
  <2>4. receipt \in ReceiptRecs /\ unlinked \subseteq Paths
    BY DEF ReviewInv, Types
  <2>5. receipt' \in ReceiptRecs /\ receipt'.decision = "discard" /\ receipt'.completed
    BY <1>4, <2>1, <2>4 DEF ReceiptRecs
  <2>6. receipt' # NoReceipt
    BY <2>5, RestingFields
  <2>7. worker.pc = "gone" /\ worker.manifest = NoManifest
    BY <1>4 DEF ReviewInv, PhaseInv, Active
  <2>8. ~Unreviewed'
    BY <2>3 DEF Unreviewed
  <2>9. PhaseInv'
    BY <1>1, <2>3, <2>5, <2>7, <2>8 DEF PhaseInv
  <2>10. DiscardInv'
    BY <1>1, <2>1, <2>3, <2>5 DEF DiscardInv, Items
  <2>11. Moves(t, Resting) /\ LockInv'
    BY <1>1, <1>2, Parts, LockLeave
  <2>12. ThreadInv(t)'
    BY <1>2, <2>11, RestingFields, ThreadIdles DEF Moves
  <2>13. \A p \in Paths : FrozenInv(p)' /\ TouchInv(p)'
    BY <1>1, <2>3, <2>6, Parts, FrozenKept, TouchKept
  <2> QED
    BY <1>1, <1>2, <2>2, <2>3, <2>4, <2>5, <2>6, <2>8, <2>9, <2>10, <2>11, <2>12, <2>13,
       Constants, Parts, Served
<1> QED
  BY <1>3, <1>4 DEF FinalizeDiscard

----------------------------------------------------------------------------
(* The surroundings.                                                       *)

LEMMA ExternalEditInv ==
    ASSUME ReviewInv, NEW p \in Paths, NEW c \in Contents \cup {None}, ExternalEdit(p, c)
    PROVE  ReviewInv'
<1>1. file[p] # c /\ file' = [file EXCEPT ![p] = c]
      /\ touched' = [touched EXCEPT ![p] = @ + 1]
      /\ tampered' = (tampered \/ projection.manifest[p] # NoItem \/ worker.manifest[p] # NoItem)
      /\ matched' = (IF c = projection.manifest[p].content THEN matched \cup {p} ELSE matched)
      /\ events' = events /\ projection' = projection /\ checkpoints' = checkpoints
      /\ baseline' = baseline /\ writes' = writes /\ worker' = worker
      /\ lock' = lock /\ thread' = thread /\ final' = final /\ receipt' = receipt
      /\ scanned' = scanned /\ unlinked' = unlinked
  BY DEF ExternalEdit, ledger
<1>2. Same
  BY <1>1, Parts, NoEvent
<1>3. LedgerInv'
  BY <1>1, <1>2, LedgerStep DEF ReviewInv, Same
<1>4. file' \in [Paths -> Bytes] /\ touched' \in [Paths -> Nat]
      /\ tampered' \in BOOLEAN /\ matched' \subseteq Paths
  <2>1. file' \in [Paths -> Bytes]
    BY <1>1, Parts DEF Bytes
  <2>2. touched' \in [Paths -> Nat]
    BY <1>1, Parts
  <2>3. tampered' \in BOOLEAN
    BY <1>1
  <2>4. matched' \subseteq Paths
    BY <1>1, Parts
  <2> QED
    BY <2>1, <2>2, <2>3, <2>4
<1>5. Types'
  BY <1>1, <1>4 DEF ReviewInv, Types
<1>6. Items(projection.manifest)' = Items(projection.manifest) /\ (Unreviewed' <=> Unreviewed)
      /\ matched \subseteq matched' /\ (tampered => tampered')
  BY <1>1 DEF Items, Unreviewed
<1>7. PhaseInv'
  BY <1>1, <1>6 DEF ReviewInv, PhaseInv
<1>8. DiscardInv'
  BY <1>1, <1>6 DEF ReviewInv, DiscardInv
<1>9. LockInv'
  BY <1>1, Parts, LockSame
<1>10. ASSUME NEW q \in Paths PROVE FrozenInv(q)'
  <2>1. FrozenInv(q)
    BY Parts
  <2>2. file'[q] = IF q = p THEN c ELSE file[q]
    BY <1>1, Parts
  <2>3. CASE q # p
    BY <1>1, <1>6, <2>1, <2>2, <2>3 DEF FrozenInv, Items
  <2>4. CASE q = p
    <3>1. q \in Items(projection.manifest) \/ q \in Items(worker.manifest) => tampered'
      BY <1>1, <2>4 DEF Items
    <3>2. c = projection.manifest[q].content => q \in matched'
      BY <1>1, <2>4
    <3> QED
      BY <1>1, <2>1, <2>2, <2>4, <3>1, <3>2 DEF FrozenInv, Items
  <2> QED
    BY <2>3, <2>4
<1>11. ASSUME NEW q \in Paths PROVE TouchInv(q)'
  <2>1. TouchInv(q) /\ touched[q] \in Nat
    BY Parts
  <2>2. CASE q # p
    <3>1. touched'[q] = touched[q] /\ file'[q] = file[q]
      BY <1>1, <2>2, Parts
    <3> QED
      BY <1>1, <2>1, <3>1, ChainKept DEF TouchInv
  <2>3. CASE q = p
    <3>1. touched'[q] = touched[q] + 1 /\ file'[q] = c /\ file[q] # c
      BY <1>1, <2>3, Parts
    <3>2. touched'[q] = 1 => touched[q] = 0
      BY <2>1, <3>1
    <3>3. touched'[q] # 0
      BY <2>1, <3>1
    <3> QED
      BY <1>1, <2>1, <3>1, <3>2, <3>3, ChainKept DEF TouchInv
  <2> QED
    BY <2>2, <2>3
<1>12. \A q \in Paths : ClaimInv(q)'
  BY <1>1, Parts, ClaimKept
<1>13. ASSUME NEW t \in Threads PROVE ThreadInv(t)'
  <2>1. ThreadInv(t) /\ Types
    BY DEF ReviewInv
  <2> QED
    BY <1>1, <1>2, <1>6, <2>1, ThreadKept
<1> QED
  BY <1>3, <1>5, <1>7, <1>8, <1>9, <1>10, <1>11, <1>12, <1>13 DEF ReviewInv

LEMMA CrashAndRestartInv ==
    ASSUME ReviewInv, CrashAndRestart
    PROVE  ReviewInv'
<1> DEFINE patch == [status |-> "paused", paused |-> FALSE]
<1>1. worker' = NoWorker /\ lock' = None
      /\ thread' = [t \in Threads |-> IF t = Boot THEN BootWork ELSE Resting] /\ Interrupted
      /\ file' = file /\ baseline' = baseline /\ writes' = writes
      /\ final' = final /\ receipt' = receipt
      /\ touched' = touched /\ scanned' = scanned /\ matched' = matched
      /\ unlinked' = unlinked /\ tampered' = tampered
  BY DEF CrashAndRestart, history
<1>2. BootWork \in ThreadRecs /\ BootWork.pc \in {"idle", "delete"}
      /\ (BootWork.pc = "delete" => /\ projection.status = "discarding"
                                    /\ BootWork.todo = Items(projection.manifest))
  <2>1. Items(projection.manifest) \in SUBSET Paths
    BY DEF Items
  <2> QED
    BY <2>1, Constants, RestingFields DEF BootWork, ThreadRecs
<1>3. /\ thread' \in [Threads -> ThreadRecs] /\ thread'[Boot] = BootWork
      /\ \A t \in Threads : t # Boot => thread'[t] = Resting
  BY <1>1, <1>2, Constants, Names
<1>4. LockInv'
  BY <1>2, <1>3, Names, RestingFields DEF LockInv
<1>5. /\ Same \/ Grows
      /\ LedgerInv' /\ projection' \in Projections
      /\ projection'.manifest = projection.manifest
      /\ projection'.disposition = projection.disposition
      /\ \/ projection.status \in Active /\ projection'.status = "paused"
         \/ projection.status \notin Active /\ projection'.status = projection.status
  <2>1. CASE projection.status \in Active
    <3>1. /\ Append1(patch)
          /\ checkpoints' = checkpoints \cup {[version |-> Version + 1,
                                               state |-> Apply(projection, patch)]}
      BY <1>1, <2>1 DEF Interrupted
    <3>2. Grows
      BY <3>1, PatchTypes, Parts, OneEvent
    <3>3. projection'.status = "paused" /\ projection'.manifest = projection.manifest
          /\ projection'.disposition = projection.disposition
      BY <3>1, Parts, StatusPausedPatch DEF Append1
    <3>4. /\ Len(events') = Version + 1 /\ Len(events') \in 0..Len(events')
          /\ ReplayOf(events', 0, Drafted)[Len(events')] = Apply(projection, patch)
          /\ projection' \in Projections
      <4>1. Len(events') = Len(events) + 1
        BY <3>1, Parts DEF Append1, Ledger
      <4>2. Len(events') \in Nat /\ Ledger'
        BY <3>2 DEF Grows, Extended
      <4> QED
        BY <3>1, <4>1, <4>2, LedgerReads DEF Append1, Version
    <3>5. LedgerInv'
      <4>1. \A c \in checkpoints' :
               \/ c \in checkpoints
               \/ /\ c.version \in 0..Len(events')
                  /\ c.state = ReplayOf(events', 0, Drafted)[c.version]
        BY <3>1, <3>4
      <4> QED
        BY <3>2, <4>1, LedgerStep DEF ReviewInv, Grows
    <3> QED
      BY <2>1, <3>2, <3>3, <3>4, <3>5
  <2>2. CASE projection.status \notin Active
    <3>1. events' = events /\ projection' = projection /\ checkpoints' = checkpoints
      BY <1>1, <2>2 DEF Interrupted, ledger
    <3>2. Same
      BY <3>1, Parts, NoEvent
    <3>3. LedgerInv'
      BY <3>1, <3>2, LedgerStep DEF ReviewInv, Same
    <3> QED
      BY <2>2, <3>1, <3>2, <3>3, Parts
  <2> QED
    BY <2>1, <2>2
<1>6. Types'
  BY <1>1, <1>3, <1>5, NoWorkerFields DEF ReviewInv, Types
<1>7. PhaseInv'
  <2>1. Unreviewed' => Unreviewed
    BY <1>5 DEF Unreviewed, Active
  <2>2. projection'.status = "waiting_user" => projection.status = "waiting_user"
    BY <1>5
  <2>3. projection'.status = "discarding" => projection.status = "discarding"
    BY <1>5
  <2> QED
    BY <1>1, <1>5, <2>1, <2>2, <2>3, NoWorkerFields DEF ReviewInv, PhaseInv
<1>8. DiscardInv'
  BY <1>1, <1>5 DEF ReviewInv, DiscardInv, Items
<1>9. \A p \in Paths : FrozenInv(p)'
  BY <1>1, <1>5, NoWorkerFields, Parts, FrozenKept
<1>10. \A p \in Paths : TouchInv(p)'
  BY <1>1, Parts, TouchKept
<1>11. \A p \in Paths : ClaimInv(p)'
  BY <1>1, <1>5, NoWorkerFields, Parts, ClaimKept
<1>12. ASSUME NEW t \in Threads PROVE ThreadInv(t)'
  <2>1. CASE t # Boot \/ BootWork.pc = "idle"
    BY <1>3, <2>1, RestingFields, ThreadIdles
  <2>2. CASE t = Boot /\ BootWork.pc = "delete"
    <3>1. receipt.decision = "discard"
      BY <1>2, <2>2 DEF ReviewInv, PhaseInv
    <3>2. Items(projection.manifest)' = Items(projection.manifest)
      BY <1>5 DEF Items
    <3> QED
      BY <1>1, <1>2, <1>3, <2>2, <3>1, <3>2 DEF ThreadInv, Deleting, Deciding
  <2> QED
    BY <1>2, <2>1, <2>2
<1> QED
  BY <1>4, <1>5, <1>6, <1>7, <1>8, <1>9, <1>10, <1>11, <1>12 DEF ReviewInv

----------------------------------------------------------------------------
(* The theorems.                                                           *)

LEMMA StutterInv ==
    ASSUME ReviewInv, UNCHANGED vars
    PROVE  ReviewInv'
<1>1. events' = events /\ projection' = projection /\ checkpoints' = checkpoints
      /\ file' = file /\ baseline' = baseline /\ writes' = writes /\ worker' = worker
      /\ lock' = lock /\ thread' = thread /\ final' = final /\ receipt' = receipt
      /\ touched' = touched /\ scanned' = scanned /\ matched' = matched
      /\ unlinked' = unlinked /\ tampered' = tampered
  BY DEF vars, ledger
<1>2. Same
  BY <1>1, Parts, NoEvent
<1>3. LedgerInv'
  BY <1>1, <1>2, LedgerStep DEF ReviewInv, Same
<1>4. Types'
  BY <1>1 DEF ReviewInv, Types
<1>5. PhaseInv' /\ DiscardInv'
  BY <1>1 DEF ReviewInv, PhaseInv, DiscardInv, Items, Unreviewed
<1>6. LockInv'
  BY <1>1, Parts, LockSame
<1>7. \A p \in Paths : FrozenInv(p)' /\ TouchInv(p)' /\ ClaimInv(p)'
  BY <1>1, Parts, FrozenKept, TouchKept, ClaimKept
<1>8. Unreviewed' <=> Unreviewed
  BY <1>1 DEF Unreviewed
<1>9. ASSUME NEW t \in Threads PROVE ThreadInv(t)'
  <2>1. ThreadInv(t) /\ Types
    BY DEF ReviewInv
  <2> QED
    BY <1>1, <1>2, <1>8, <2>1, ThreadKept
<1> QED
  BY <1>3, <1>4, <1>5, <1>6, <1>7, <1>9 DEF ReviewInv

LEMMA NextInv ==
    ASSUME ReviewInv, Next
    PROVE  ReviewInv'
<1>1. CASE WorkerStep
  BY <1>1, FinalizeQuestInv, FreezeArtifactsInv, ScanAndClassifyInv, RequestReviewInv
     DEF WorkerStep
<1>2. CASE LoseLease \/ PauseQuest \/ PauseWorker \/ ResumeQuest
  BY <1>2, LoseLeaseInv, PauseQuestInv, PauseWorkerInv, ResumeQuestInv
<1>3. CASE \E p \in Paths, c \in Contents : WriteFile(p, c)
  BY <1>3, WriteFileInv
<1>4. CASE \E t \in Clients, d \in Decisions : ReviewArtifacts(t, d)
  BY <1>4, ReviewArtifactsInv
<1>5. CASE \E t \in Clients : RequestStep(t)
  BY <1>5, ReviewAgainInv, ReviewFirstInv, VerifyItemInv, BeginReviewInv DEF RequestStep
<1>6. CASE \E t \in Clients \cup {Boot} : DiscardStep(t)
  BY <1>6, CheckItemInv, UnlinkItemInv, FinalizeDiscardInv DEF DiscardStep
<1>7. CASE \E t \in Clients \cup {Saver} : CheckpointStep(t)
  BY <1>7, ReadRowInv, StoreCheckpointInv DEF CheckpointStep
<1>8. CASE \E p \in Paths, c \in Contents \cup {None} : ExternalEdit(p, c)
  BY <1>8, ExternalEditInv
<1>9. CASE CrashAndRestart
  BY <1>9, CrashAndRestartInv
<1> QED
  BY <1>1, <1>2, <1>3, <1>4, <1>5, <1>6, <1>7, <1>8, <1>9 DEF Next

LEMMA ReviewInvariant == Spec => []ReviewInv
<1>1. Init => ReviewInv
  BY InitInv
<1>2. ReviewInv /\ [Next]_vars => ReviewInv'
  BY NextInv, StutterInv
<1> QED
  BY <1>1, <1>2, PTL DEF Spec

\* Every stored checkpoint is the state its version had, and the replay from it gives what
\* readers see: save_checkpoint, of a thread that was overtaken by any events included.
THEOREM CheckpointsAreTrue == Spec => []CheckpointsTrue
<1>1. ReviewInv => CheckpointsTrue
  <2> SUFFICES ASSUME ReviewInv PROVE CheckpointsTrue
    OBVIOUS
  <2> DEFINE n == Len(events)  f == ReplayOf(events, 0, Drafted)
  <2>1. n \in Nat /\ f[n] = projection /\ Replay(Drafted) = projection
    BY Parts, LedgerReads DEF Ledger
  <2>2. Replays(f, 0, n, Drafted, events)
    <3>1. 0 \in Nat /\ 0 <= Len(events)
      BY <2>1
    <3> QED
      BY <2>1, <3>1, ReplayUnfolds
  <2> HIDE DEF f
  <2>3. ASSUME NEW c \in checkpoints
        PROVE  /\ c.state = ReplayFrom(0, Drafted)[c.version]
               /\ ReplayFrom(c.version, c.state)[Version] = projection
    <3>1. c.version \in 0..n /\ c.state = ReplayFrom(0, Drafted)[c.version]
      BY DEF ReviewInv, LedgerInv
    <3>2. c.state = f[c.version]
      BY <3>1, ReplayIs DEF f
    <3>3. c.version \in Nat /\ c.version <= n
      BY <2>1, <3>1
    <3> DEFINE g == ReplayOf(events, c.version, c.state)
    <3>4. Replays(g, c.version, n, f[c.version], events)
      BY <2>1, <3>2, <3>3, ReplayUnfolds
    <3>5. g[n] = f[n]
      <4> HIDE DEF g
      <4> QED
        BY <2>1, <2>2, <3>3, <3>4, ReplayTail
    <3>6. ReplayFrom(c.version, c.state) = g
      BY ReplayIs
    <3> QED
      BY <2>1, <3>1, <3>5, <3>6 DEF Version
  <2> QED
    BY <2>1, <2>3 DEF CheckpointsTrue, CheckpointsReplay
<1> QED
  BY <1>1, ReviewInvariant, PTL

\* What classify_artifact_provenance says of a frozen file is so, whatever was written,
\* edited, paused, resumed and crashed before.
THEOREM ProvenanceIsTrue == Spec => []ProvenanceTrue
<1>1. ReviewInv => ProvenanceTrue
  <2> SUFFICES ASSUME ReviewInv PROVE ProvenanceTrue
    OBVIOUS
  <2>1. ASSUME NEW p \in Items(projection.manifest)
        PROVE  ClaimTrue(p, projection.manifest[p], final.snapshot, scanned[p])
    BY <2>1, Parts DEF ClaimInv, Items
  <2> QED
    BY <2>1 DEF ProvenanceTrue, ClaimTrue
<1> QED
  BY <1>1, ReviewInvariant, PTL

\* Nothing is deleted without a recorded decision to discard, and a Quest is recorded as
\* discarded only when its files were dealt with: _discard_artifacts and its recovery.
THEOREM DeletionIsDecided == Spec => []DeletedOnDecision
<1>1. ReviewInv => DeletedOnDecision
  BY DEF ReviewInv, PhaseInv, DiscardInv, DeletedOnDecision
<1> QED
  BY <1>1, ReviewInvariant, PTL

\* The status of the Quest becomes completed in begin_artifact_review alone.
LEMMA CompletedByReview ==
    ASSUME ReviewInv, Next, projection'.status = "completed", projection.status # "completed"
    PROVE  \E t \in Clients : BeginReview(t)
<1>1. projection' # projection
  OBVIOUS
<1>2. projection \in Projections
  BY Parts
<1>3. CASE WorkerStep
  <2>1. CASE FinalizeQuest
    BY <1>2, <2>1, StatusPatch DEF FinalizeQuest, Append1
  <2>2. CASE \E evidence \in SUBSET Paths : FreezeArtifacts(evidence)
    <3>1. Append1([status |-> "failed", disposition |-> "unavailable"])
      BY <1>1, <2>2 DEF FreezeArtifacts
    <3> QED
      BY <1>2, <3>1, OutcomePatch DEF Append1
  <2>3. CASE \E status \in Incomplete \cup {"complete"} : ScanAndClassify(status)
    BY <1>1, <2>3 DEF ScanAndClassify, ledger
  <2>4. CASE RequestReview
    <3>1. \/ Append1([status |-> "failed"])
          \/ Append1([status |-> "waiting_user", disposition |-> "pending",
                      pending |-> TRUE, manifest |-> worker.manifest])
      BY <1>1, <2>4 DEF RequestReview
    <3> QED
      BY <1>2, <3>1, StatusPatch, RequestPatch DEF Append1
  <2> QED
    BY <1>3, <2>1, <2>2, <2>3, <2>4 DEF WorkerStep
<1>4. CASE \E p \in Paths, c \in Contents : WriteFile(p, c)
  BY <1>1, <1>4 DEF WriteFile, ledger
<1>5. CASE LoseLease
  BY <1>1, <1>5 DEF LoseLease, ledger
<1>6. CASE PauseQuest
  BY <1>2, <1>6, ApplyFields DEF PauseQuest, Append1
<1>7. CASE PauseWorker
  BY <1>2, <1>7, StatusPausedPatch DEF PauseWorker, Append1
<1>8. CASE ResumeQuest
  <2>1. PICK s : s = Apply(projection, [status |-> "recovering", paused |-> FALSE])
    OBVIOUS
  <2>2. s \in Projections
    BY <1>2, <2>1, PatchTypes, ApplyType
  <2>3. projection' = Apply(s, [status |-> "running"])
    BY <1>8, <2>1 DEF ResumeQuest, Append2
  <2> QED
    BY <2>2, <2>3, StatusPatch
<1>9. CASE \E t \in Clients, d \in Decisions : ReviewArtifacts(t, d)
  BY <1>1, <1>9 DEF ReviewArtifacts, ledger
<1>10. CASE \E t \in Clients : RequestStep(t)
  BY <1>1, <1>10 DEF RequestStep, ReviewAgain, ReviewFirst, VerifyItem, ledger
<1>11. CASE \E t \in Clients \cup {Boot} : DiscardStep(t)
  <2>1. PICK t \in Clients \cup {Boot} : DiscardStep(t)
    BY <1>11
  <2>2. CASE (\E p \in Paths : CheckItem(t, p)) \/ UnlinkItem(t)
    BY <1>1, <2>2 DEF CheckItem, UnlinkItem, ledger
  <2>3. CASE FinalizeDiscard(t)
    <3>1. Append1([status |-> "failed", disposition |-> "discarded"])
      BY <1>1, <2>3 DEF FinalizeDiscard
    <3> QED
      BY <1>2, <3>1, OutcomePatch DEF Append1
  <2> QED
    BY <2>1, <2>2, <2>3 DEF DiscardStep
<1>12. CASE \E t \in Clients \cup {Saver} : CheckpointStep(t)
  BY <1>1, <1>12 DEF CheckpointStep, ReadRow, StoreCheckpoint, ledger
<1>13. CASE \E p \in Paths, c \in Contents \cup {None} : ExternalEdit(p, c)
  BY <1>1, <1>13 DEF ExternalEdit, ledger
<1>14. CASE CrashAndRestart
  <2>1. Append1([status |-> "paused", paused |-> FALSE])
    BY <1>1, <1>14 DEF CrashAndRestart, Interrupted, ledger
  <2> QED
    BY <1>2, <2>1, StatusPausedPatch DEF Append1
<1> QED
  BY <1>3, <1>4, <1>5, <1>6, <1>7, <1>8, <1>9, <1>10, <1>11, <1>12, <1>13, <1>14 DEF Next

\* A Quest is completed by a recorded decision to retain, and each of its files still had
\* its frozen content while that review was under way: _verify_artifact_manifest.
THEOREM RetainedFilesAreFrozen == Spec => RetainedAsFrozen
<1> DEFINE Retained ==
        projection'.status = "completed" /\ projection.status # "completed" =>
          /\ Items(projection.manifest) \subseteq matched
          /\ unlinked = {}
          /\ receipt'.decision = "retain"
<1>1. ReviewInv /\ [Next]_vars => [Retained]_vars
  <2> SUFFICES ASSUME ReviewInv, Next,
                      projection'.status = "completed", projection.status # "completed"
               PROVE  Retained
    OBVIOUS
  <2>1. PICK t \in Clients : BeginReview(t)
    BY CompletedByReview
  <2>2. projection' # projection
    OBVIOUS
  <2>3. receipt = NoReceipt /\ thread[t].version = Version
    BY <2>1, <2>2 DEF BeginReview
  <2>4. thread[t].decision = "retain"
    <3>1. CASE thread[t].decision # "retain"
      <4>1. Append1([status |-> "discarding", disposition |-> "discarding", pending |-> FALSE])
        BY <2>1, <2>3, <3>1 DEF BeginReview
      <4>2. projection'.status = "discarding"
        BY <4>1, Parts, DiscardPatch DEF Append1
      <4> QED
        BY <4>2
    <3> QED
      BY <3>1
  <2>5. Items(projection.manifest) \subseteq matched /\ unlinked = {}
    BY <2>1, <2>3, <2>4, Undecided
  <2>6. receipt'.decision = "retain"
    BY <2>1, <2>3, <2>4 DEF BeginReview
  <2> QED
    BY <2>5, <2>6
<1> QED
  BY <1>1, ReviewInvariant, PTL DEF Spec, RetainedAsFrozen
=============================================================================
