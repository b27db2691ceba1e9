---------------------------- MODULE ToolGatewayMC ----------------------------
(***************************************************************************)
(* Instances of ToolGateway for TLC: two actions on one path, so that a    *)
(* late repetition of the first can meet the file of the second.           *)
(***************************************************************************)
EXTENDS ToolGateway

CONSTANTS p1, A, B

OnePath    == [a \in 1 .. N |-> p1]
TwoContent == [a \in 1 .. N |-> IF a = 1 THEN A ELSE B]
=============================================================================
