------------------------------ MODULE MCRetention ------------------------------
EXTENDS Retention, TLC

CONSTANTS f1, f2, f3

\* Two files of the older session, one of the younger.
Owners == [f \in File |-> IF f = f3 THEN 2 ELSE 1]

\* Passes are interchangeable, and so are the two files of one session.
Alike == Permutations(Pass) \cup {[f \in File |-> IF f = f1 THEN f2 ELSE IF f = f2 THEN f1 ELSE f]}
=============================================================================
