-------------------------- MODULE ArtifactReviewMC --------------------------
(* ArtifactReview for TLC: one file is there at the start, the other is not. *)
EXTENDS ArtifactReview

MCInitialFiles == {[f \in Paths |-> IF f = "p" THEN None ELSE "a"]}
=============================================================================
