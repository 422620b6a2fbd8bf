--------------------------- MODULE MCVaultRotation ---------------------------
EXTENDS VaultRotation

\* Two targets: the first takes two batches, the second one.
MCSizes == <<2, 1>>
=============================================================================
