------------------------------ MODULE MCReports ------------------------------
\* Model values for Reports: two sessions of one project, a group of another.
EXTENDS Reports, TLC

CONSTANTS s1, s2, g1, own, other

Projects == s1 :> own @@ s2 :> own
GroupProject == g1 :> other

Alike == Permutations(Request) \cup Permutations(Session)
=============================================================================
