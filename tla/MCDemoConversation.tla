------------------------- MODULE MCDemoConversation -------------------------
EXTENDS DemoConversation, TLC

\* Messages are interchangeable.
Symmetry == Permutations(Msg)
=============================================================================
