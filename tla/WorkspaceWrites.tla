-------------------------- MODULE WorkspaceWrites --------------------------
(***************************************************************************)
(* Quests that write one file of a shared workspace.  A worker takes a     *)
(* resource lease on the file before it calls the tool and gives it back   *)
(* afterwards; the heartbeat renews the lease of the Quest, not this one,  *)
(* so it may run out while the tool is at work.  write_file looks for the  *)
(* file and replaces it in two steps.                                      *)
(***************************************************************************)
EXTENDS Integers

CONSTANTS Writers,       \* workers, each with its own Quest and owner name
          MaxLapses,     \* bound on leases that run out
          MaxIntrusions, \* bound on files created by others
          MaxWriteKills  \* bound on crashes

NoWriter == "no writer"
Person == "person"

ASSUME WritesAssumption ==
    /\ {MaxLapses, MaxIntrusions, MaxWriteKills} \subseteq Nat
    /\ {NoWriter, Person} \cap Writers = {}

VARIABLES row,         \* the v1_resource_leases row of the file: holder, and not run out
          writer,      \* per worker the step of its write
          file,        \* who wrote the file, NoWriter while there is none
          uncovered,   \* workers that wrote without a live lease
          unresolved,  \* workers whose action a crash left unresolved
          clobbered,   \* pairs of workers, one's file lost to the other's write without overwrite
          lapses, intrusions, writeKills

writesVars == <<row, writer, file, uncovered, unresolved, clobbered, lapses, intrusions, writeKills>>

NoRow == [holder |-> NoWriter, live |-> FALSE]
Away == [pc |-> "away", overwrite |-> TRUE, leased |-> FALSE]

WritesInit ==
    /\ row = NoRow
    /\ writer = [w \in Writers |-> Away]
    /\ file = NoWriter
    /\ uncovered = {} /\ unresolved = {} /\ clobbered = {}
    /\ lapses = 0 /\ intrusions = 0 /\ writeKills = 0

Stage(w, pc) == writer' = [writer EXCEPT ![w].pc = pc]

\* acquire_resource_lease
Grantable(w) == row.live => row.holder = w

\* The worker asks for the lease; a refusal is ResourceBusy and leaves the Quest to
\* its user, who may send it here again.
AcquireResource(w, overwrite) ==
    /\ writer[w].pc = "away" /\ w \notin unresolved
    /\ Grantable(w)
    /\ row' = [holder |-> w, live |-> TRUE]
    /\ writer' = [writer EXCEPT ![w] = [pc |-> "look", overwrite |-> overwrite, leased |-> TRUE]]
    /\ UNCHANGED <<file, uncovered, unresolved, clobbered, lapses, intrusions, writeKills>>

\* A resume executes an unresolved action again, without the resource lease, unless
\* the gateway can settle it or has to ask.
RetryUnresolved(w) ==
    /\ writer[w].pc = "away" /\ w \in unresolved
    /\ unresolved' = unresolved \ {w}
    /\ \/ /\ writer' = [writer EXCEPT ![w].pc = "look", ![w].leased = FALSE]
          /\ uncovered' = uncovered \cup {w}
       \/ UNCHANGED <<writer, uncovered>>
    /\ UNCHANGED <<row, file, clobbered, lapses, intrusions, writeKills>>

\* write_file tests for the file; one that may not be overwritten is an error.
LookForFile(w) ==
    /\ writer[w].pc = "look"
    /\ Stage(w, IF file # NoWriter /\ ~writer[w].overwrite THEN "release" ELSE "replace")
    /\ UNCHANGED <<row, file, uncovered, unresolved, clobbered, lapses, intrusions, writeKills>>

\* os.replace, which takes whatever is there by now.
ReplaceFile(w) ==
    /\ writer[w].pc = "replace"
    /\ file' = w
    /\ clobbered' = clobbered \cup
           (IF file \in Writers /\ ~writer[w].overwrite THEN {{file, w}} ELSE {})
    /\ Stage(w, "release")
    /\ UNCHANGED <<row, uncovered, unresolved, lapses, intrusions, writeKills>>

\* Mutated: the row goes, whoever holds it.
RowWithoutAny(w) == NoRow

\* release_resource_lease deletes the row of this Quest and owner only.
RowWithout(w) == IF row.holder = w THEN NoRow ELSE row

\* The finally clause around the tool call.
ReleaseResource(w) ==
    /\ writer[w].pc = "release"
    /\ row' = (IF writer[w].leased THEN RowWithout(w) ELSE row)
    /\ writer' = [writer EXCEPT ![w] = Away]
    /\ UNCHANGED <<file, uncovered, unresolved, clobbered, lapses, intrusions, writeKills>>

\* The time to live of the row passes.
Lapse ==
    /\ row.live /\ lapses < MaxLapses
    /\ lapses' = lapses + 1
    /\ row' = [row EXCEPT !.live = FALSE]
    /\ uncovered' = uncovered \cup {row.holder}
    /\ UNCHANGED <<writer, file, unresolved, clobbered, intrusions, writeKills>>

\* A person, or a v0.1 Quest, which takes no lease, creates the file.
Intrude ==
    /\ file # Person /\ intrusions < MaxIntrusions
    /\ intrusions' = intrusions + 1
    /\ file' = Person
    /\ UNCHANGED <<row, writer, uncovered, unresolved, clobbered, lapses, writeKills>>

\* The process dies; the next one deletes all leases before it serves
\* (clear_runtime_leases_on_startup).
KillWorkers ==
    /\ writeKills < MaxWriteKills
    /\ writeKills' = writeKills + 1
    /\ unresolved' = unresolved \cup {w \in Writers : writer[w].pc # "away"}
    /\ writer' = [w \in Writers |-> [writer[w] EXCEPT !.pc = "away"]]
    /\ row' = NoRow
    /\ UNCHANGED <<file, uncovered, clobbered, lapses, intrusions>>

WritesNext ==
    \/ \E w \in Writers :
           \/ \E overwrite \in BOOLEAN : AcquireResource(w, overwrite)
           \/ RetryUnresolved(w) \/ LookForFile(w) \/ ReplaceFile(w) \/ ReleaseResource(w)
    \/ Lapse \/ Intrude \/ KillWorkers

WritesSpec == WritesInit /\ [][WritesNext]_writesVars

----------------------------------------------------------------------------
(* Properties.                                                             *)

\* Only one worker is between acquire_resource_lease and its release, and a write
\* that is not to overwrite destroys no file of another Quest, except next to a
\* worker whose lease ran out during its write or whose write a resume repeated.
\* A worker that comes back late takes nobody else's lease away.  Files of a person
\* have no such protection.
OneWriter ==
    /\ \A v, w \in Writers :
           v # w /\ "away" \notin {writer[v].pc, writer[w].pc} => {v, w} \cap uncovered # {}
    /\ \A pair \in clobbered : pair \cap uncovered # {}
=============================================================================
