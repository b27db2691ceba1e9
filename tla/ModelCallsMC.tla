---------------------------- MODULE ModelCallsMC ----------------------------
EXTENDS ModelCalls, TLC

CONSTANTS c1, c2, k1, k2

\* Two reservations that do not fit together with a third in the budget; one
\* usage within a reservation, one beyond it.
MCQuotes == {[tokens |-> 2, in |-> 1, out |-> 1]}
MCUsages == {[in |-> 1, out |-> 0], [in |-> 1, out |-> 3]}

Symmetric == Permutations({k1, k2})
=============================================================================
