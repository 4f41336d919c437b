--------------------------- MODULE MCKnowledgeBase ---------------------------
EXTENDS KnowledgeBase, TLC
CONSTANTS c1, c2, good, poor
AllFaults == {"io", "crash"}
\* Every property that asks whether a write failed holds of calls one by one
\* only: once calls have overlapped, the flag may be forgotten.
Unfailed == <<kb, connection, document, calls, overlapped, failed \/ overlapped>>
Symmetry == Permutations(Calls)
=============================================================================
