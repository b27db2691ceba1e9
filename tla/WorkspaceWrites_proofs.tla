----------------------- MODULE WorkspaceWrites_proofs -----------------------
(***************************************************************************)
(* OneWriter for any number of writers, lapses, crashes and intrusions.    *)
(***************************************************************************)
EXTENDS WorkspaceWrites, TLAPS

Inside(w) == writer[w].pc # "away"

\* The parts of the state the argument is about.
WritesType ==
    /\ writer \in [Writers -> [pc : {"away", "look", "replace", "release"},
                               overwrite : BOOLEAN, leased : BOOLEAN]]
    /\ row \in [holder : Writers \cup {NoWriter}, live : BOOLEAN]
    /\ row.live => row.holder \in Writers

\* A worker that was never left without its lease holds it as long as it is inside.
LeaseHeld == \A w \in Writers : Inside(w) /\ w \notin uncovered => row = [holder |-> w, live |-> TRUE]

\* What such a worker is about to replace without being allowed to overwrite was
\* not there when it looked, and only an uncovered worker can have put it there.
NothingToLose ==
    \A w \in Writers : writer[w].pc = "replace" /\ ~writer[w].overwrite /\ w \notin uncovered
                           => (file \in Writers => file \in uncovered)

LossExcused == \A pair \in clobbered : pair \cap uncovered # {}

WritesInv == WritesType /\ LeaseHeld /\ NothingToLose /\ LossExcused

LEMMA WritesInitially == WritesInit => WritesInv
  BY WritesAssumption
  DEF WritesInit, WritesInv, WritesType, LeaseHeld, NothingToLose, LossExcused, Inside, NoRow, Away

LEMMA WritesStep == WritesInv /\ [WritesNext]_writesVars => WritesInv'
<1> SUFFICES ASSUME WritesInv, [WritesNext]_writesVars PROVE WritesInv'
  OBVIOUS
<1> USE WritesAssumption DEF WritesInv, WritesType, LeaseHeld, NothingToLose, LossExcused, Inside
<1>1. ASSUME NEW w \in Writers, NEW overwrite \in BOOLEAN, AcquireResource(w, overwrite)
      PROVE WritesInv'
  <2>1. \A v \in Writers : Inside(v) => v \in uncovered
    BY <1>1 DEF AcquireResource, Grantable
  <2>2. WritesType'
    BY <1>1 DEF AcquireResource
  <2>3. LeaseHeld'
    BY <1>1, <2>1 DEF AcquireResource
  <2>4. NothingToLose' /\ LossExcused'
    BY <1>1 DEF AcquireResource
  <2> QED
    BY <2>2, <2>3, <2>4
<1>2. ASSUME NEW w \in Writers, RetryUnresolved(w) PROVE WritesInv'
  BY <1>2 DEF RetryUnresolved
<1>3. ASSUME NEW w \in Writers, LookForFile(w) PROVE WritesInv'
  BY <1>3 DEF LookForFile, Stage
<1>4. ASSUME NEW w \in Writers, ReplaceFile(w) PROVE WritesInv'
  <2>1. WritesType' /\ LeaseHeld'
    BY <1>4 DEF ReplaceFile, Stage
  <2>2. NothingToLose'
    BY <1>4 DEF ReplaceFile, Stage
  <2>3. LossExcused'
    BY <1>4 DEF ReplaceFile, Stage
  <2> QED
    BY <2>1, <2>2, <2>3
<1>5. ASSUME NEW w \in Writers, ReleaseResource(w) PROVE WritesInv'
  <2>1. \A v \in Writers : Inside(v)' => v # w /\ writer'[v] = writer[v]
    BY <1>5 DEF ReleaseResource, Away
  <2>2. row' = row \/ (row' = NoRow /\ row.holder = w)
    BY <1>5 DEF ReleaseResource, RowWithout
  <2>3. UNCHANGED <<file, uncovered, clobbered>>
    BY <1>5 DEF ReleaseResource
  <2>4. NoRow \in [holder : Writers \cup {NoWriter}, live : BOOLEAN] /\ ~NoRow.live
    BY DEF NoRow
  <2>5. Away \in [pc : {"away", "look", "replace", "release"}, overwrite : BOOLEAN, leased : BOOLEAN]
    BY DEF Away
  <2>6. WritesType'
    BY <1>5, <2>2, <2>4, <2>5 DEF ReleaseResource
  <2>7. LeaseHeld'
    BY <2>1, <2>2, <2>3
  <2>8. NothingToLose' /\ LossExcused'
    BY <2>1, <2>3
  <2> QED
    BY <2>6, <2>7, <2>8
<1>6. CASE Lapse
  <2>1. row' \in [holder : Writers \cup {NoWriter}, live : BOOLEAN] /\ ~row'.live
    BY <1>6 DEF Lapse
  <2>2. WritesType'
    BY <1>6, <2>1 DEF Lapse
  <2>3. \A v \in Writers : Inside(v) /\ v \notin uncovered => v = row.holder
    OBVIOUS
  <2>4. LeaseHeld'
    BY <1>6, <2>3 DEF Lapse
  <2>5. NothingToLose' /\ LossExcused'
    BY <1>6 DEF Lapse
  <2> QED
    BY <2>2, <2>5, <2>4
<1>7. CASE Intrude
  BY <1>7 DEF Intrude
<1>8. CASE KillWorkers
  BY <1>8 DEF KillWorkers, NoRow
<1>9. CASE UNCHANGED writesVars
  BY <1>9 DEF writesVars
<1> QED
  BY <1>1, <1>2, <1>3, <1>4, <1>5, <1>6, <1>7, <1>8, <1>9 DEF WritesNext

\* Two workers are never between acquire_resource_lease and the release of one file,
\* and no write without overwrite destroys another Quest's file, unless one of the two
\* went on after its lease ran out or repeated a write at a resume: for any number of
\* workers, crashes and lapses.
THEOREM OneWriterAtATime == WritesSpec => []OneWriter
<1>1. WritesInv => OneWriter
  BY DEF WritesInv, LeaseHeld, LossExcused, OneWriter, Inside
<1> QED
  BY <1>1, WritesInitially, WritesStep, PTL DEF WritesSpec

=============================================================================
