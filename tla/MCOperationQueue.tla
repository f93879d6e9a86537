--------------------------- MODULE MCOperationQueue ---------------------------
EXTENDS OperationQueue, TLC

\* Requests of one kind, and devices, are interchangeable.
Symmetry == Permutations(Clients) \cup Permutations(Handlers) \cup Permutations(Devices)

=============================================================================
