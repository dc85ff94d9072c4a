--------------------------- MODULE MCFieldSession ---------------------------
EXTENDS FieldSession, TLC

\* Requests, runs and entries are interchangeable.
Symmetry == Permutations(Request) \cup Permutations(Run) \cup Permutations(File)
=============================================================================
