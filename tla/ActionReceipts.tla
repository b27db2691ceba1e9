--------------------------- MODULE ActionReceipts ---------------------------
(***************************************************************************)
(* What a tool-action receipt promises its reader, whatever the gateway    *)
(* goes through to produce it.  A receipt is opened once, settled once,    *)
(* and then never changes:                                                 *)
(*   - "done" comes with exactly one event in the Quest ledger;            *)
(*   - "failed" is a promise that the tool left nothing behind.            *)
(* ToolGateway implements this specification (ImplementsReceipts).         *)
(***************************************************************************)
EXTENDS Sequences

CONSTANT Actions

VARIABLES
  phase,    \* phase[a]: "new", "open", "done" or "failed"
  touched,  \* touched[a]: the tool of a has changed the workspace
  log       \* the actions whose ToolCommitted event was appended, in order

vars == <<phase, touched, log>>

Init ==
  /\ phase = [a \in Actions |-> "new"]
  /\ touched = [a \in Actions |-> FALSE]
  /\ log = <<>>

Open(a) ==
  /\ phase[a] = "new"
  /\ phase' = [phase EXCEPT ![a] = "open"]
  /\ UNCHANGED <<touched, log>>

Touch(a) ==
  /\ phase[a] = "open"
  /\ touched' = [touched EXCEPT ![a] = TRUE]
  /\ UNCHANGED <<phase, log>>

Commit(a) ==
  /\ phase[a] = "open"
  /\ phase' = [phase EXCEPT ![a] = "done"]
  /\ log' = Append(log, a)
  /\ UNCHANGED touched

Fail(a) ==
  /\ phase[a] = "open"
  /\ ~touched[a]
  /\ phase' = [phase EXCEPT ![a] = "failed"]
  /\ UNCHANGED <<touched, log>>

Next == \E a \in Actions : Open(a) \/ Touch(a) \/ Commit(a) \/ Fail(a)

Spec == Init /\ [][Next]_vars
=============================================================================
