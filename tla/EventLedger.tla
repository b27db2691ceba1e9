---------------------------- MODULE EventLedger ----------------------------
(***************************************************************************)
(* The event ledger of one Quest: an append-only sequence of patches, the  *)
(* projection they build, and checkpoints of the projection.  Every append *)
(* is a compare-and-swap on the state version, which is the number of      *)
(* events.                                                                 *)
(***************************************************************************)
EXTENDS Integers, Sequences

VARIABLES events,       \* v1_events: the patches, in order
          projection,   \* v1_quests.state_json
          checkpoints   \* v1_checkpoints: pairs of a version and a state

ledger == <<events, projection, checkpoints>>

Version == Len(events)

\* EventReducer.apply: the fields a patch names are replaced, the others are kept.
Apply(state, patch) ==
    [f \in DOMAIN state |-> IF f \in DOMAIN patch THEN patch[f] ELSE state[f]]

\* The state after each of the first n events, from a given state at version m.
ReplayFrom(m, state) ==
    LET after[n \in m..Len(events)] ==
            IF n = m THEN state ELSE Apply(after[n - 1], events[n])
    IN  after

\* replay, from the beginning (initial is the drafted Quest).
Replay(initial) == ReplayFrom(0, initial)[Version]

\* _append_locked, in the caller's transaction; the caller's guard is the version it expects.
Append1(patch) ==
    /\ events' = Append(events, patch)
    /\ projection' = Apply(projection, patch)

\* append_events and begin_artifact_review: two events in one transaction.
Append2(first, second) ==
    /\ events' = events \o <<first, second>>
    /\ projection' = Apply(Apply(projection, first), second)

\* save_checkpoint inserts the row it read, under the version it read; a later append
\* does not matter, and an existing checkpoint of that version is kept.
SaveCheckpoint(row) ==
    checkpoints' = IF \E c \in checkpoints : c.version = row.version
                   THEN checkpoints ELSE checkpoints \cup {row}

\* get_projection_row: what a reader of the ledger gets.
Row == [version |-> Version, state |-> projection]

Latest == CHOOSE c \in checkpoints : \A d \in checkpoints : d.version <= c.version

\* validate_checkpoint, with nothing appended between its reads.
ValidateCheckpoint(initial) ==
    /\ checkpoints # {}
    /\ Replay(initial) = projection
    /\ ReplayFrom(Latest.version, Latest.state)[Version] = projection

\* Every checkpoint is the state its version had: replaying the events up to it gives
\* it, and replaying the rest from it gives the projection that readers see.
CheckpointsReplay(initial) ==
    /\ Replay(initial) = projection
    /\ \A c \in checkpoints :
          /\ c.state = ReplayFrom(0, initial)[c.version]
          /\ ReplayFrom(c.version, c.state)[Version] = projection
=============================================================================
