-------------------------- MODULE WorkspaceTasksMC --------------------------
(* Two processes, two sources; a user selects one or both.                 *)
EXTENDS WorkspaceTasks

MCSelections == {{"s"}, {"s", "t"}}
=============================================================================
