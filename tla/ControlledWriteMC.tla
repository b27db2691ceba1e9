------------------------- MODULE ControlledWriteMC -------------------------
EXTENDS ControlledWrite, TLC

CONSTANTS p1, p2, apply1, restore1

Perms == Permutations({p1, p2})
=============================================================================
