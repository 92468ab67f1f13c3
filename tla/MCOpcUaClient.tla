--------------------------- MODULE MCOpcUaClient ---------------------------
EXTENDS OpcUaClient, TLC

\* The clients are alike.
Symmetry == Permutations(Clients)
=============================================================================
