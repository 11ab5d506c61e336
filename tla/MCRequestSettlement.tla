------------------------ MODULE MCRequestSettlement ------------------------
\* TLC instance of RequestSettlement: which attempt or worker does what is
\* interchangeable.
EXTENDS RequestSettlement, TLC

Symmetry == Permutations(Attempts) \cup Permutations(Workers)
=============================================================================
