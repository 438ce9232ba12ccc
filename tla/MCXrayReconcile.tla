-------------------------- MODULE MCXrayReconcile --------------------------
EXTENDS XrayReconcile, TLC

CONSTANTS u1, u2, k1, k2, s1, s2

OneUser == {u1}
TwoUsers == {u1, u2}
OneKey == {k1}
TwoKeys == {k1, k2}
OneSection == {s1}
MCSections == {s1, s2}
NoFaults == {}
ApiFaults == {"api"}
AllFaults == {"api", "start", "config"}

Symm == Permutations(TwoUsers) \cup Permutations(TwoKeys) \cup Permutations(MCSections)

=============================================================================
