----------------------------- MODULE MCGateway -----------------------------
EXTENDS Gateway, TLC

ConnSymmetry == Permutations(Conns)
=============================================================================
