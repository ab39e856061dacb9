--------------------------- MODULE MCStaffSession ---------------------------
EXTENDS StaffSession, TLC
CONSTANTS b1, b2, c1, c2
MCSymmetry == Permutations(Tab) \cup Permutations(Call)
=============================================================================
