---------------------------- MODULE MCBatchAnalysis ----------------------------
\* Two batches at the same time, for one slot: one that may find a whole
\* session, one that finds little.  Images are over the cap of either; a video
\* is over that of the second, which is zero.
EXTENDS BatchAnalysis

CONSTANTS b1, b2, i1, i2, i3, v1, v2, a1

Kinds == [f \in File |-> IF f \in {v1, v2} THEN "video" ELSE IF f = a1 THEN "audio" ELSE "image"]

Inboxes ==
    [b \in Batch |-> IF b = b1 THEN {<<i1, i2, v1, i3>>, <<i1, v1, v2>>, <<v1, i1, a1>>, <<a1>>}
                     ELSE {<<i1, i2>>, <<v2>>}]

\* The second project has the numbers get_demo_caps corrects.
Caps == [b \in Batch |-> IF b = b1 THEN [image |-> 2, video |-> 2, audio |-> 1]
                         ELSE [image |-> 0, video |-> -1, audio |-> 0]]
=============================================================================
