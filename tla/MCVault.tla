------------------------------ MODULE MCVault -------------------------------
\* Three keys, so that createOrEncrypt can make a new one over a plaintext key
\* and over a sealed one it failed to see.
EXTENDS KeyVault, TLC

CONSTANTS k1, k2, k3, p1, p2

MCFaults   == FaultKind
MCSymmetry == Permutations({k1, k2, k3}) \cup Permutations({p1, p2})
=============================================================================
