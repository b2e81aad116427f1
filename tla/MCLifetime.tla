----------------------------- MODULE MCLifetime -----------------------------
EXTENDS Lifetime, TLC

Anyone == Permutations(Objects)
=============================================================================
