--------------------------- MODULE LocalPlanesMC ---------------------------
(* Two processes and one panel, with files a person may have written; two  *)
(* processes of the bridge on one operation; two tabs and one session; two *)
(* Quests of three milestones in a pool of one thread; three writers; one  *)
(* MCP caller.                                                             *)
EXTENDS LocalPlanes

MCKeyed == [dest |-> "ok", key |-> "k1"]
MCPersonWrites ==
    {Damaged, Misshapen, Holding([p \in Providers |-> IF p = "openai" THEN Unset ELSE MCKeyed]),
     Holding([p \in Providers |-> MCKeyed])}
MCMainAction == [o \in WebOps |-> "apply"]
=============================================================================
