-------------------------- MODULE QuestExecutionMC --------------------------
(* Instances of QuestExecution for TLC: a chain and a pair of milestones.   *)
EXTENDS QuestExecution, TLC

OneMilestone == <<{}>>
Chain == <<{}, {1}>>

SecondOnly == {2}
FirstOnly == {1}
Nobody == {}

(* Workers and clients are interchangeable.                                 *)
Symmetry == Permutations(Workers) \cup Permutations(Clients)

=============================================================================
