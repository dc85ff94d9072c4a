-------------------------- MODULE FieldSession_proofs --------------------------
(***************************************************************************)
(* Proofs about FieldSession, for every number of requests, runs, files,   *)
(* visits, days, overrides and faults.                                     *)
(***************************************************************************)
EXTENDS FieldSession, TLAPS

USE DEF rowVars, reqVars, runVars, histVars, Status, Busy, Live, Ended

\* What idle requests and unused runs hold is well typed.
LEMMA IdleTypes ==
    /\ NoMsg \in [text : {"trigger", "note"}, day : Day, status : Status, files : SUBSET File]
    /\ NoJob \in [kind : {"process", "resume"}, origin : {"user", "admin"},
                  day : Day]
  BY BoundsAssumption DEF NoMsg, NoJob, Day

\* Every variable keeps its type (TypeOK) through every handler, run,
\* operator and fault step.
LEMMA TypeStep == TypeOK /\ [Next]_vars => TypeOK'
<1> SUFFICES ASSUME TypeOK, [Next]_vars PROVE TypeOK'
  OBVIOUS
<1> USE BoundsAssumption, IdleTypes DEF TypeOK
<1>1. ASSUME NEW f \in File, ReceiveMedia(f) PROVE TypeOK'
  BY <1>1 DEF ReceiveMedia, NewEntry
<1>2. ASSUME SwitchDemo PROVE TypeOK'
  BY <1>2 DEF SwitchDemo
<1>3. ASSUME NEW r \in Request, NEW txt \in {"trigger", "note"}, ReceiveText(r, txt) PROVE TypeOK'
  BY <1>3 DEF ReceiveText
<1>4. ASSUME NEW r \in Request, RefuseTrigger(r) PROVE TypeOK'
  BY <1>4 DEF RefuseTrigger, Release
<1>5. ASSUME NEW r \in Request, AcceptTrigger(r) PROVE TypeOK'
  BY <1>5 DEF AcceptTrigger, SetStatus
<1>6. ASSUME NEW r \in Request, NEW t \in Run, SpawnPipeline(r, t) PROVE TypeOK'
  BY <1>6 DEF SpawnPipeline, Start, Goto, Release
<1>7. ASSUME NEW r \in Request, NEW f \in File, AddNote(r, f) PROVE TypeOK'
  BY <1>7 DEF AddNote, NewEntry, Release
<1>8. ASSUME NEW r \in Request, NEW f \in File, AddClarification(r, f) PROVE TypeOK'
  BY <1>8 DEF AddClarification, NewEntry
<1>9. ASSUME NEW r \in Request, NEW t \in Run, SpawnResume(r, t) PROVE TypeOK'
  BY <1>9 DEF SpawnResume, Start, Goto, Release
<1>10. ASSUME NEW r \in Request, RequestFails(r) PROVE TypeOK'
  BY <1>10 DEF RequestFails, Release
<1>11. ASSUME NEW t \in Run, LoadSession(t) PROVE TypeOK'
  BY <1>11 DEF LoadSession, Goto
<1>12. ASSUME NEW t \in Run, MarkSegmenting(t) PROVE TypeOK'
  BY <1>12 DEF MarkSegmenting, SetStatus, Goto
<1>13. ASSUME NEW t \in Run, NEW n \in 0..MaxVisits, NEW asks \in BOOLEAN, Segmented(t, n, asks) PROVE TypeOK'
  BY <1>13 DEF Segmented, Goto
<1>14. ASSUME NEW t \in Run, SegmentationFailed(t) PROVE TypeOK'
  BY <1>14 DEF SegmentationFailed, Goto
<1>15. ASSUME NEW t \in Run, NEW worded \in BOOLEAN, AskUser(t, worded) PROVE TypeOK'
  BY <1>15 DEF AskUser, SetStatus, End, Goto
<1>16. ASSUME NEW t \in Run, MarkProcessing(t) PROVE TypeOK'
  BY <1>16 DEF MarkProcessing, SetStatus, Goto
<1>17. ASSUME NEW t \in Run, SaveReport(t) PROVE TypeOK'
  BY <1>17 DEF SaveReport
<1>18. ASSUME NEW t \in Run, Deliver(t) PROVE TypeOK'
  BY <1>18 DEF Deliver, Goto
<1>19. ASSUME NEW t \in Run, Complete(t) PROVE TypeOK'
  BY <1>19 DEF Complete, SetStatus, End, Goto
<1>20. ASSUME NEW t \in Run, ResumeLoad(t) PROVE TypeOK'
  BY <1>20 DEF ResumeLoad, Goto, Merged, NoSegments
<1>21. ASSUME NEW t \in Run, ResumeFindsNothing(t) PROVE TypeOK'
  BY <1>21 DEF ResumeFindsNothing, End, Goto
<1>22. ASSUME NEW t \in Run, RunFails(t) PROVE TypeOK'
  BY <1>22 DEF RunFails, SetStatus, End, Goto
<1>23. ASSUME NEW t \in Run, RunFailsUnrecorded(t) PROVE TypeOK'
  BY <1>23 DEF RunFailsUnrecorded, End, Goto
<1>32. ASSUME NEW t \in Run, AnalysisMissing(t) PROVE TypeOK'
  BY <1>32 DEF AnalysisMissing, SetStatus, End, Goto
<1>24. ASSUME NEW t \in Run, AdminSegmenting(t) PROVE TypeOK'
  BY <1>24 DEF AdminSegmenting, SetStatus, Goto
<1>25. ASSUME NEW t \in Run, NEW d \in Day, AdminTrigger(t, d) PROVE TypeOK'
  BY <1>25 DEF AdminTrigger, Start, Goto, SetStatus
<1>26. ASSUME Crash PROVE TypeOK'
  BY <1>26 DEF Crash
<1>27. ASSUME Midnight PROVE TypeOK'
  BY <1>27 DEF Midnight, Day
<1>28. CASE UNCHANGED vars
  BY <1>28 DEF vars
<1>29. ASSUME NEW r \in Request, RequestStep(r) PROVE TypeOK'
  BY <1>4, <1>5, <1>6, <1>7, <1>8, <1>9, <1>29 DEF RequestStep
<1>30. ASSUME NEW t \in Run, RunStep(t) PROVE TypeOK'
  BY <1>11, <1>12, <1>13, <1>14, <1>15, <1>16, <1>17, <1>18, <1>19, <1>20, <1>21, <1>22, <1>23, <1>24, <1>30, <1>32 DEF RunStep
<1> HIDE DEF TypeOK
<1>31. QED
  BY <1>1, <1>2, <1>3, <1>10, <1>25, <1>26, <1>27, <1>28, <1>29, <1>30 DEF Next

\* Every reachable state is well typed.
THEOREM TypeCorrect == Spec => []TypeOK
<1>1. Init => TypeOK
  BY BoundsAssumption, IdleTypes DEF Init, TypeOK, Day, NoSegments
<1>2. QED
  BY <1>1, TypeStep, PTL DEF Spec

-----------------------------------------------------------------------------
\* A busy status always has somebody who will settle it, or has lost its
\* coroutines to a fault or to midnight: inductive as it stands, given the types.
\* A run that moves, or starts, takes no other run's day from it.
LEMMA OwnerElsewhere ==
  ASSUME NEW t \in Run, NEW d \in Day, Owner(d), d # job[t].day \/ pc[t] \notin Settling,
         \A u \in Run \ {t} : pc'[u] = pc[u] /\ job'[u] = job[u],
         UNCHANGED reqVars
  PROVE  Owner(d)'
<1>1. CASE \E r \in Request : at[r] = "accepted" /\ msg[r].day = d
  BY <1>1 DEF Owner, reqVars
<1>2. CASE \E u \in Run : pc[u] \in Settling /\ OnDay(u, d)
  BY <1>2 DEF Owner, OnDay
<1>3. QED
  BY <1>1, <1>2 DEF Owner

\* A run that writes its day's status owns it afterwards, or the status is
\* not busy; the other days keep their owners.
LEMMA OwnerOfStatus ==
  ASSUME TypeOK, BusyHasOwner, NEW t \in Run, NEW e \in Day, NEW s \in Status, SetStatus(e, s),
         s \in Busy => pc'[t] \in Settling /\ job'[t].day = e,
         e = job[t].day \/ pc[t] \notin Settling,
         \A u \in Run \ {t} : pc'[u] = pc[u] /\ job'[u] = job[u],
         UNCHANGED reqVars
  PROVE  BusyHasOwner'
<1> SUFFICES ASSUME NEW d \in Day, status'[d] \in Busy, d \notin orphaned'
             PROVE  Owner(d)'
  BY DEF BusyHasOwner
<1>1. CASE d = e
  <2>1. status'[d] = s
    BY <1>1 DEF SetStatus, TypeOK
  <2>2. QED
    BY <1>1, <2>1 DEF Owner, OnDay
<1>2. CASE d # e
  <2>1. status[d] \in Busy /\ d \notin orphaned
    BY <1>2 DEF SetStatus, TypeOK
  <2>2. QED
    BY <1>2, <2>1, OwnerElsewhere DEF BusyHasOwner
<1>3. QED
  BY <1>1, <1>2

LEMMA OwnerStep == TypeOK /\ BusyHasOwner /\ [Next]_vars => BusyHasOwner'
<1> SUFFICES ASSUME TypeOK, BusyHasOwner, [Next]_vars PROVE BusyHasOwner'
  OBVIOUS
<1> USE DEF TypeOK, BusyHasOwner, Owner, OnDay, Settling
<1>1. ASSUME NEW f \in File, ReceiveMedia(f) PROVE BusyHasOwner'
  BY <1>1 DEF ReceiveMedia, NewEntry
<1>2. ASSUME SwitchDemo PROVE BusyHasOwner'
  BY <1>2 DEF SwitchDemo
<1>3. ASSUME NEW r \in Request, NEW txt \in {"trigger", "note"}, ReceiveText(r, txt) PROVE BusyHasOwner'
  BY <1>3 DEF ReceiveText
<1>4. ASSUME NEW r \in Request, RefuseTrigger(r) PROVE BusyHasOwner'
  BY <1>4 DEF RefuseTrigger, Release
<1>5. ASSUME NEW r \in Request, AcceptTrigger(r) PROVE BusyHasOwner'
  BY <1>5 DEF AcceptTrigger, SetStatus
<1>6. ASSUME NEW r \in Request, NEW t \in Run, SpawnPipeline(r, t) PROVE BusyHasOwner'
  <2> SUFFICES ASSUME NEW d \in Day, status'[d] \in Busy, d \notin orphaned'
               PROVE  Owner(d)'
    OBVIOUS
  <2>1. CASE msg[r].day = d
    BY <1>6, <2>1 DEF SpawnPipeline, Start, Goto, Release
  <2>2. CASE msg[r].day # d
    <3>1. d \notin orphaned /\ Owner(d)
      BY <1>6 DEF SpawnPipeline
    <3>2. CASE \E q \in Request : at[q] = "accepted" /\ msg[q].day = d
      BY <1>6, <2>2, <3>2 DEF SpawnPipeline, Release
    <3>3. CASE \E u \in Run : pc[u] \in Settling /\ OnDay(u, d)
      BY <1>6, <3>3 DEF SpawnPipeline, Start, Goto
    <3>4. QED
      BY <3>1, <3>2, <3>3
  <2>3. QED
    BY <2>1, <2>2
<1>7. ASSUME NEW r \in Request, NEW f \in File, AddNote(r, f) PROVE BusyHasOwner'
  BY <1>7 DEF AddNote, NewEntry, Release
<1>8. ASSUME NEW r \in Request, NEW f \in File, AddClarification(r, f) PROVE BusyHasOwner'
  BY <1>8 DEF AddClarification, NewEntry
<1>9. ASSUME NEW r \in Request, NEW t \in Run, SpawnResume(r, t) PROVE BusyHasOwner'
  BY <1>9 DEF SpawnResume, Start, Goto, Release
<1>10. ASSUME NEW r \in Request, RequestFails(r) PROVE BusyHasOwner'
  BY <1>10 DEF RequestFails, Release
<1>11. ASSUME NEW t \in Run, LoadSession(t) PROVE BusyHasOwner'
  BY <1>11 DEF LoadSession, Goto
<1>12. ASSUME NEW t \in Run, MarkSegmenting(t) PROVE BusyHasOwner'
  <2>1. SetStatus(job[t].day, "segmenting") /\ job[t].day \in Day /\ "segmenting" \in Status
    BY <1>12 DEF MarkSegmenting, TypeOK, Status, Busy
  <2>2. pc'[t] \in Settling /\ job'[t].day = job[t].day
    BY <1>12 DEF MarkSegmenting, Goto, TypeOK, Settling, Live
  <2>3. /\ \A u \in Run \ {t} : pc'[u] = pc[u] /\ job'[u] = job[u]
        /\ UNCHANGED reqVars
    BY <1>12 DEF MarkSegmenting, Goto, TypeOK
  <2>4. QED
    BY <2>1, <2>2, <2>3, OwnerOfStatus
<1>13. ASSUME NEW t \in Run, NEW n \in 0..MaxVisits, NEW asks \in BOOLEAN, Segmented(t, n, asks) PROVE BusyHasOwner'
  BY <1>13 DEF Segmented, Goto
<1>14. ASSUME NEW t \in Run, SegmentationFailed(t) PROVE BusyHasOwner'
  BY <1>14 DEF SegmentationFailed, Goto
<1>15. ASSUME NEW t \in Run, NEW worded \in BOOLEAN, AskUser(t, worded) PROVE BusyHasOwner'
  <2>1. SetStatus(job[t].day, "needs_clarification") /\ job[t].day \in Day /\ "needs_clarification" \in Status
    BY <1>15 DEF AskUser, TypeOK, Status, Busy
  <2>2. "needs_clarification" \notin Busy
    BY DEF Busy
  <2>3. /\ \A u \in Run \ {t} : pc'[u] = pc[u] /\ job'[u] = job[u]
        /\ UNCHANGED reqVars
    BY <1>15 DEF AskUser, End, Goto, TypeOK
  <2>4. QED
    BY <2>1, <2>2, <2>3, OwnerOfStatus
<1>16. ASSUME NEW t \in Run, MarkProcessing(t) PROVE BusyHasOwner'
  <2>1. SetStatus(job[t].day, "processing") /\ job[t].day \in Day /\ "processing" \in Status
    BY <1>16 DEF MarkProcessing, TypeOK, Status, Busy
  <2>2. pc'[t] \in Settling /\ job'[t].day = job[t].day
    BY <1>16 DEF MarkProcessing, Goto, TypeOK, Settling, Live
  <2>3. /\ \A u \in Run \ {t} : pc'[u] = pc[u] /\ job'[u] = job[u]
        /\ UNCHANGED reqVars
    BY <1>16 DEF MarkProcessing, Goto, TypeOK
  <2>4. QED
    BY <2>1, <2>2, <2>3, OwnerOfStatus
<1>17. ASSUME NEW t \in Run, SaveReport(t) PROVE BusyHasOwner'
  BY <1>17 DEF SaveReport
<1>18. ASSUME NEW t \in Run, Deliver(t) PROVE BusyHasOwner'
  BY <1>18 DEF Deliver, Goto
<1>19. ASSUME NEW t \in Run, Complete(t) PROVE BusyHasOwner'
  <2>1. SetStatus(job[t].day, "completed") /\ job[t].day \in Day /\ "completed" \in Status
    BY <1>19 DEF Complete, TypeOK, Status, Busy
  <2>2. "completed" \notin Busy
    BY DEF Busy
  <2>3. /\ \A u \in Run \ {t} : pc'[u] = pc[u] /\ job'[u] = job[u]
        /\ UNCHANGED reqVars
    BY <1>19 DEF Complete, End, Goto, TypeOK
  <2>4. QED
    BY <2>1, <2>2, <2>3, OwnerOfStatus
<1>20. ASSUME NEW t \in Run, ResumeLoad(t) PROVE BusyHasOwner'
  BY <1>20 DEF ResumeLoad, Goto
<1>21. ASSUME NEW t \in Run, ResumeFindsNothing(t) PROVE BusyHasOwner'
  BY <1>21 DEF ResumeFindsNothing, End, Goto
<1>22. ASSUME NEW t \in Run, RunFails(t) PROVE BusyHasOwner'
  <2>1. SetStatus(job[t].day, "failed") /\ job[t].day \in Day /\ "failed" \in Status
    BY <1>22 DEF RunFails, TypeOK, Status, Busy
  <2>2. "failed" \notin Busy
    BY DEF Busy
  <2>3. /\ \A u \in Run \ {t} : pc'[u] = pc[u] /\ job'[u] = job[u]
        /\ UNCHANGED reqVars
    BY <1>22 DEF RunFails, End, Goto, TypeOK
  <2>4. QED
    BY <2>1, <2>2, <2>3, OwnerOfStatus
<1>23. ASSUME NEW t \in Run, RunFailsUnrecorded(t) PROVE BusyHasOwner'
  BY <1>23 DEF RunFailsUnrecorded, End, Goto
<1>32. ASSUME NEW t \in Run, AnalysisMissing(t) PROVE BusyHasOwner'
  <2>1. SetStatus(job[t].day, "failed") /\ job[t].day \in Day /\ "failed" \in Status
    BY <1>32 DEF AnalysisMissing, TypeOK, Status, Busy
  <2>2. "failed" \notin Busy
    BY DEF Busy
  <2>3. /\ \A u \in Run \ {t} : pc'[u] = pc[u] /\ job'[u] = job[u]
        /\ UNCHANGED reqVars
    BY <1>32 DEF AnalysisMissing, End, Goto, TypeOK
  <2>4. QED
    BY <2>1, <2>2, <2>3, OwnerOfStatus
<1>24. ASSUME NEW t \in Run, AdminSegmenting(t) PROVE BusyHasOwner'
  <2>1. SetStatus(job[t].day, "segmenting") /\ job[t].day \in Day /\ "segmenting" \in Status
    BY <1>24 DEF AdminSegmenting, TypeOK, Status, Busy
  <2>2. pc'[t] \in Settling /\ job'[t].day = job[t].day
    BY <1>24 DEF AdminSegmenting, Goto, TypeOK, Settling, Live
  <2>3. /\ \A u \in Run \ {t} : pc'[u] = pc[u] /\ job'[u] = job[u]
        /\ UNCHANGED reqVars
    BY <1>24 DEF AdminSegmenting, Goto, TypeOK
  <2>4. QED
    BY <2>1, <2>2, <2>3, OwnerOfStatus
<1>25. ASSUME NEW t \in Run, NEW d \in Day, AdminTrigger(t, d) PROVE BusyHasOwner'
  <2>1. SetStatus(d, "accumulating") /\ d \in Day /\ "accumulating" \in Status
    BY <1>25 DEF AdminTrigger, TypeOK, Status, Busy
  <2>2. "accumulating" \notin Busy
    BY DEF Busy
  <2>3. /\ \A u \in Run \ {t} : pc'[u] = pc[u] /\ job'[u] = job[u]
        /\ UNCHANGED reqVars
    BY <1>25 DEF AdminTrigger, Start, Goto, TypeOK
  <2>4. pc[t] \notin Settling
    BY <1>25 DEF AdminTrigger, Start, Settling, Live
  <2>5. QED
    BY <2>1, <2>2, <2>3, <2>4, OwnerOfStatus
<1>26. ASSUME Crash PROVE BusyHasOwner'
  BY <1>26 DEF Crash
<1>27. ASSUME Midnight PROVE BusyHasOwner'
  BY <1>27 DEF Midnight
<1>28. CASE UNCHANGED vars
  BY <1>28 DEF vars
<1>29. ASSUME NEW r \in Request, RequestStep(r) PROVE BusyHasOwner'
  BY <1>4, <1>5, <1>6, <1>7, <1>8, <1>9, <1>29 DEF RequestStep
<1>30. ASSUME NEW t \in Run, RunStep(t) PROVE BusyHasOwner'
  BY <1>11, <1>12, <1>13, <1>14, <1>15, <1>16, <1>17, <1>18, <1>19, <1>20, <1>21, <1>22, <1>23, <1>24, <1>30, <1>32 DEF RunStep
<1> HIDE DEF TypeOK, BusyHasOwner
<1>31. QED
  BY <1>1, <1>2, <1>3, <1>10, <1>25, <1>26, <1>27, <1>28, <1>29, <1>30 DEF Next

\* No interleaving of handlers, runs and operators leaves a session that
\* refuses triggers without a coroutine that will settle it.
THEOREM BusyOwned == Spec => []BusyHasOwner
<1>1. Init => BusyHasOwner
  BY DEF Init, BusyHasOwner
<1>2. QED
  BY <1>1, TypeCorrect, OwnerStep, PTL DEF Spec

-----------------------------------------------------------------------------
\* The strengthening CompletedWasDelivered needs: a run about to write
\* "completed" has inserted all its rows and told the user.
AboutToComplete ==
    \A t \in Run : pc[t] = "finish" => reports[t] = plan[t] /\ t \in told

LEMMA DeliveredStep ==
    TypeOK /\ AboutToComplete /\ CompletedWasDelivered /\ [Next]_vars
        => AboutToComplete' /\ CompletedWasDelivered'
<1> SUFFICES ASSUME TypeOK, AboutToComplete, CompletedWasDelivered, [Next]_vars
             PROVE  AboutToComplete' /\ CompletedWasDelivered'
  OBVIOUS
<1> USE DEF TypeOK, AboutToComplete, CompletedWasDelivered, OnDay
<1>1. ASSUME NEW f \in File, ReceiveMedia(f) PROVE AboutToComplete' /\ CompletedWasDelivered'
  BY <1>1 DEF ReceiveMedia, NewEntry
<1>2. ASSUME SwitchDemo PROVE AboutToComplete' /\ CompletedWasDelivered'
  BY <1>2 DEF SwitchDemo
<1>3. ASSUME NEW r \in Request, NEW txt \in {"trigger", "note"}, ReceiveText(r, txt) PROVE AboutToComplete' /\ CompletedWasDelivered'
  BY <1>3 DEF ReceiveText
<1>4. ASSUME NEW r \in Request, RefuseTrigger(r) PROVE AboutToComplete' /\ CompletedWasDelivered'
  BY <1>4 DEF RefuseTrigger, Release
<1>5. ASSUME NEW r \in Request, AcceptTrigger(r) PROVE AboutToComplete' /\ CompletedWasDelivered'
  BY <1>5 DEF AcceptTrigger, SetStatus
<1>6. ASSUME NEW r \in Request, NEW t \in Run, SpawnPipeline(r, t) PROVE AboutToComplete' /\ CompletedWasDelivered'
  BY <1>6 DEF SpawnPipeline, Start, Goto, Release
<1>7. ASSUME NEW r \in Request, NEW f \in File, AddNote(r, f) PROVE AboutToComplete' /\ CompletedWasDelivered'
  BY <1>7 DEF AddNote, NewEntry, Release
<1>8. ASSUME NEW r \in Request, NEW f \in File, AddClarification(r, f) PROVE AboutToComplete' /\ CompletedWasDelivered'
  BY <1>8 DEF AddClarification, NewEntry
<1>9. ASSUME NEW r \in Request, NEW t \in Run, SpawnResume(r, t) PROVE AboutToComplete' /\ CompletedWasDelivered'
  BY <1>9 DEF SpawnResume, Start, Goto, Release
<1>10. ASSUME NEW r \in Request, RequestFails(r) PROVE AboutToComplete' /\ CompletedWasDelivered'
  BY <1>10 DEF RequestFails, Release
<1>11. ASSUME NEW t \in Run, LoadSession(t) PROVE AboutToComplete' /\ CompletedWasDelivered'
  BY <1>11 DEF LoadSession, Goto
<1>12. ASSUME NEW t \in Run, MarkSegmenting(t) PROVE AboutToComplete' /\ CompletedWasDelivered'
  BY <1>12 DEF MarkSegmenting, SetStatus, Goto
<1>13. ASSUME NEW t \in Run, NEW n \in 0..MaxVisits, NEW asks \in BOOLEAN, Segmented(t, n, asks) PROVE AboutToComplete' /\ CompletedWasDelivered'
  BY <1>13 DEF Segmented, Goto
<1>14. ASSUME NEW t \in Run, SegmentationFailed(t) PROVE AboutToComplete' /\ CompletedWasDelivered'
  BY <1>14 DEF SegmentationFailed, Goto
<1>15. ASSUME NEW t \in Run, NEW worded \in BOOLEAN, AskUser(t, worded) PROVE AboutToComplete' /\ CompletedWasDelivered'
  BY <1>15 DEF AskUser, SetStatus, End, Goto
<1>16. ASSUME NEW t \in Run, MarkProcessing(t) PROVE AboutToComplete' /\ CompletedWasDelivered'
  BY <1>16 DEF MarkProcessing, SetStatus, Goto
<1>17. ASSUME NEW t \in Run, SaveReport(t) PROVE AboutToComplete' /\ CompletedWasDelivered'
  BY <1>17 DEF SaveReport
<1>18. ASSUME NEW t \in Run, Deliver(t) PROVE AboutToComplete' /\ CompletedWasDelivered'
  BY <1>18 DEF Deliver, Goto
<1>19. ASSUME NEW t \in Run, Complete(t) PROVE AboutToComplete' /\ CompletedWasDelivered'
  BY <1>19 DEF Complete, SetStatus, End, Goto
<1>20. ASSUME NEW t \in Run, ResumeLoad(t) PROVE AboutToComplete' /\ CompletedWasDelivered'
  BY <1>20 DEF ResumeLoad, Goto
<1>21. ASSUME NEW t \in Run, ResumeFindsNothing(t) PROVE AboutToComplete' /\ CompletedWasDelivered'
  BY <1>21 DEF ResumeFindsNothing, End, Goto
<1>22. ASSUME NEW t \in Run, RunFails(t) PROVE AboutToComplete' /\ CompletedWasDelivered'
  BY <1>22 DEF RunFails, SetStatus, End, Goto
<1>23. ASSUME NEW t \in Run, RunFailsUnrecorded(t) PROVE AboutToComplete' /\ CompletedWasDelivered'
  BY <1>23 DEF RunFailsUnrecorded, End, Goto
<1>32. ASSUME NEW t \in Run, AnalysisMissing(t) PROVE AboutToComplete' /\ CompletedWasDelivered'
  BY <1>32 DEF AnalysisMissing, SetStatus, End, Goto
<1>24. ASSUME NEW t \in Run, AdminSegmenting(t) PROVE AboutToComplete' /\ CompletedWasDelivered'
  BY <1>24 DEF AdminSegmenting, SetStatus, Goto
<1>25. ASSUME NEW t \in Run, NEW d \in Day, AdminTrigger(t, d) PROVE AboutToComplete' /\ CompletedWasDelivered'
  BY <1>25 DEF AdminTrigger, Start, Goto, SetStatus
<1>26. ASSUME Crash PROVE AboutToComplete' /\ CompletedWasDelivered'
  <2>1. \A t \in Run : /\ pc'[t] = "finish" => pc[t] = "finish"
                       /\ pc[t] = "completed" => pc'[t] = "completed"
    BY <1>26 DEF Crash
  <2>2. UNCHANGED <<status, job, plan, reports, told>>
    BY <1>26 DEF Crash
  <2>3. QED
    BY <2>1, <2>2
<1>27. ASSUME Midnight PROVE AboutToComplete' /\ CompletedWasDelivered'
  BY <1>27 DEF Midnight
<1>28. CASE UNCHANGED vars
  BY <1>28 DEF vars
<1>29. ASSUME NEW r \in Request, RequestStep(r) PROVE AboutToComplete' /\ CompletedWasDelivered'
  BY <1>4, <1>5, <1>6, <1>7, <1>8, <1>9, <1>29 DEF RequestStep
<1>30. ASSUME NEW t \in Run, RunStep(t) PROVE AboutToComplete' /\ CompletedWasDelivered'
  BY <1>11, <1>12, <1>13, <1>14, <1>15, <1>16, <1>17, <1>18, <1>19, <1>20, <1>21, <1>22, <1>23, <1>24, <1>30, <1>32 DEF RunStep
<1> HIDE DEF TypeOK, AboutToComplete, CompletedWasDelivered
<1>31. QED
  BY <1>1, <1>2, <1>3, <1>10, <1>25, <1>26, <1>27, <1>28, <1>29, <1>30 DEF Next

\* A session reads "completed" only if a run inserted one row for each of its
\* visits and then told the user.
THEOREM CompletedDelivered == Spec => []CompletedWasDelivered
<1>1. Init => AboutToComplete /\ CompletedWasDelivered
  BY DEF Init, AboutToComplete, CompletedWasDelivered
<1>2. QED
  BY <1>1, TypeCorrect, DeliveredStep, PTL DEF Spec

-----------------------------------------------------------------------------
\* What one step may do to a session that refuses triggers and has nothing in
\* flight.
LEMMA ReopenStep ==
    ASSUME TypeOK, [Next]_vars,
           NEW d \in Day, Quiet(d), status[d] \in Busy \cup {"completed"}
    PROVE  status'[d] \in {status[d], "accumulating"}
<1> USE DEF TypeOK, Quiet, Refused, OnDay
<1>1. ASSUME NEW f \in File, ReceiveMedia(f) PROVE status'[d] \in {status[d], "accumulating"}
  BY <1>1 DEF ReceiveMedia, NewEntry
<1>2. ASSUME SwitchDemo PROVE status'[d] \in {status[d], "accumulating"}
  BY <1>2 DEF SwitchDemo
<1>3. ASSUME NEW r \in Request, NEW txt \in {"trigger", "note"}, ReceiveText(r, txt) PROVE status'[d] \in {status[d], "accumulating"}
  BY <1>3 DEF ReceiveText
<1>4. ASSUME NEW r \in Request, RefuseTrigger(r) PROVE status'[d] \in {status[d], "accumulating"}
  BY <1>4 DEF RefuseTrigger, Release
<1>5. ASSUME NEW r \in Request, AcceptTrigger(r) PROVE status'[d] \in {status[d], "accumulating"}
  BY <1>5 DEF AcceptTrigger, SetStatus
<1>6. ASSUME NEW r \in Request, NEW t \in Run, SpawnPipeline(r, t) PROVE status'[d] \in {status[d], "accumulating"}
  BY <1>6 DEF SpawnPipeline, Start, Goto, Release
<1>7. ASSUME NEW r \in Request, NEW f \in File, AddNote(r, f) PROVE status'[d] \in {status[d], "accumulating"}
  BY <1>7 DEF AddNote, NewEntry, Release
<1>8. ASSUME NEW r \in Request, NEW f \in File, AddClarification(r, f) PROVE status'[d] \in {status[d], "accumulating"}
  BY <1>8 DEF AddClarification, NewEntry
<1>9. ASSUME NEW r \in Request, NEW t \in Run, SpawnResume(r, t) PROVE status'[d] \in {status[d], "accumulating"}
  BY <1>9 DEF SpawnResume, Start, Goto, Release
<1>10. ASSUME NEW r \in Request, RequestFails(r) PROVE status'[d] \in {status[d], "accumulating"}
  BY <1>10 DEF RequestFails, Release
<1>11. ASSUME NEW t \in Run, LoadSession(t) PROVE status'[d] \in {status[d], "accumulating"}
  BY <1>11 DEF LoadSession, Goto
<1>12. ASSUME NEW t \in Run, MarkSegmenting(t) PROVE status'[d] \in {status[d], "accumulating"}
  BY <1>12 DEF MarkSegmenting, SetStatus, Goto
<1>13. ASSUME NEW t \in Run, NEW n \in 0..MaxVisits, NEW asks \in BOOLEAN, Segmented(t, n, asks) PROVE status'[d] \in {status[d], "accumulating"}
  BY <1>13 DEF Segmented, Goto
<1>14. ASSUME NEW t \in Run, SegmentationFailed(t) PROVE status'[d] \in {status[d], "accumulating"}
  BY <1>14 DEF SegmentationFailed, Goto
<1>15. ASSUME NEW t \in Run, NEW worded \in BOOLEAN, AskUser(t, worded) PROVE status'[d] \in {status[d], "accumulating"}
  BY <1>15 DEF AskUser, SetStatus, End, Goto
<1>16. ASSUME NEW t \in Run, MarkProcessing(t) PROVE status'[d] \in {status[d], "accumulating"}
  BY <1>16 DEF MarkProcessing, SetStatus, Goto
<1>17. ASSUME NEW t \in Run, SaveReport(t) PROVE status'[d] \in {status[d], "accumulating"}
  BY <1>17 DEF SaveReport
<1>18. ASSUME NEW t \in Run, Deliver(t) PROVE status'[d] \in {status[d], "accumulating"}
  BY <1>18 DEF Deliver, Goto
<1>19. ASSUME NEW t \in Run, Complete(t) PROVE status'[d] \in {status[d], "accumulating"}
  BY <1>19 DEF Complete, SetStatus, End, Goto
<1>20. ASSUME NEW t \in Run, ResumeLoad(t) PROVE status'[d] \in {status[d], "accumulating"}
  BY <1>20 DEF ResumeLoad, Goto
<1>21. ASSUME NEW t \in Run, ResumeFindsNothing(t) PROVE status'[d] \in {status[d], "accumulating"}
  BY <1>21 DEF ResumeFindsNothing, End, Goto
<1>22. ASSUME NEW t \in Run, RunFails(t) PROVE status'[d] \in {status[d], "accumulating"}
  BY <1>22 DEF RunFails, SetStatus, End, Goto
<1>23. ASSUME NEW t \in Run, RunFailsUnrecorded(t) PROVE status'[d] \in {status[d], "accumulating"}
  BY <1>23 DEF RunFailsUnrecorded, End, Goto
<1>32. ASSUME NEW t \in Run, AnalysisMissing(t) PROVE status'[d] \in {status[d], "accumulating"}
  BY <1>32 DEF AnalysisMissing, SetStatus, End, Goto
<1>24. ASSUME NEW t \in Run, AdminSegmenting(t) PROVE status'[d] \in {status[d], "accumulating"}
  BY <1>24 DEF AdminSegmenting, SetStatus, Goto
<1>25. ASSUME NEW t \in Run, NEW e \in Day, AdminTrigger(t, e) PROVE status'[d] \in {status[d], "accumulating"}
  BY <1>25 DEF AdminTrigger, Start, Goto, SetStatus
<1>26. ASSUME Crash PROVE status'[d] \in {status[d], "accumulating"}
  BY <1>26 DEF Crash
<1>27. ASSUME Midnight PROVE status'[d] \in {status[d], "accumulating"}
  BY <1>27 DEF Midnight
<1>28. CASE UNCHANGED vars
  BY <1>28 DEF vars
<1>29. ASSUME NEW r \in Request, RequestStep(r) PROVE status'[d] \in {status[d], "accumulating"}
  BY <1>4, <1>5, <1>6, <1>7, <1>8, <1>9, <1>29 DEF RequestStep
<1>30. ASSUME NEW t \in Run, RunStep(t) PROVE status'[d] \in {status[d], "accumulating"}
  BY <1>11, <1>12, <1>13, <1>14, <1>15, <1>16, <1>17, <1>18, <1>19, <1>20, <1>21, <1>22, <1>23, <1>24, <1>30, <1>32 DEF RunStep
<1> HIDE DEF TypeOK, Quiet
<1>31. QED
  BY <1>1, <1>2, <1>3, <1>10, <1>25, <1>26, <1>27, <1>28, <1>29, <1>30 DEF Next

\* Only the backoffice's trigger reopens a completed or an abandoned session.
THEOREM OperatorReopens == Spec => OnlyOperatorReopens
<1>1. TypeOK /\ [Next]_vars =>
        [\A d \in Day : Quiet(d) /\ status[d] \in Busy \cup {"completed"} =>
            status'[d] \in {status[d], "accumulating"}]_vars
  BY ReopenStep
<1>2. QED
  BY <1>1, TypeCorrect, PTL DEF Spec, OnlyOperatorReopens

-----------------------------------------------------------------------------
(***************************************************************************)
(* FieldSession implements ReportRun.                                      *)
(***************************************************************************)
\* What ReportRun sees of a state.
Phases == [t \in Run |-> PhaseOf(pc[t])]
Days == [t \in Run |-> job[t].day]
Shown == {d \in Day : status[d] = "completed"}

PromiseKept == Promise!Next \/ UNCHANGED <<Phases, Days, plan, reports, Shown>>

\* The phase of each point a run may be at.
LEMMA PhaseValues ==
    /\ PhaseOf("unused") = "idle"
    /\ \A w \in {"reset", "load", "loaded", "segment", "resume"} : PhaseOf(w) = "started"
    /\ \A w \in {"ask", "mark", "extract"} : PhaseOf(w) = "planned"
    /\ PhaseOf("finish") = "delivered"
    /\ PhaseOf("completed") = "closed"
    /\ \A w \in Ended \ {"completed"} : PhaseOf(w) = "stopped"
  BY DEF PhaseOf

\* A run moves, and no other.
LEMMA PhaseMoves ==
  ASSUME TypeOK, NEW t \in Run, NEW w, Goto(t, w)
  PROVE  Phases' = [Phases EXCEPT ![t] = PhaseOf(w)] /\ Phases[t] = PhaseOf(pc[t])
  BY DEF TypeOK, Goto, Phases

\* A write of a status other than "completed" shows no day.
LEMMA Hides ==
  ASSUME TypeOK, NEW d \in Day, NEW s, SetStatus(d, s), s # "completed"
  PROVE  Shown' \in SUBSET Shown
  BY DEF TypeOK, SetStatus, Shown

\* Such a write, or none, with every run where it was, in ReportRun's eyes.
LEMMA Hidden ==
  ASSUME Shown' \in SUBSET Shown, UNCHANGED <<Phases, Days, plan, reports>>
  PROVE  PromiseKept
  BY DEF PromiseKept, Promise!Next, Promise!Hide, Promise!MayHide, Phases, Days, Shown

LEMMA Begins ==
  ASSUME TypeOK, NEW t \in Run, NEW w \in {"load", "reset", "resume"},
         NEW j \in [kind : {"process", "resume"}, origin : {"user", "admin"}, day : Day],
         Start(t, w, j), Shown' \in SUBSET Shown
  PROVE  PromiseKept
<1>1. Phases[t] = "idle" /\ Phases' = [Phases EXCEPT ![t] = "started"]
  BY PhaseMoves, PhaseValues DEF Start
<1>2. Days' = [Days EXCEPT ![t] = j.day] /\ j.day \in Day
  BY DEF Start, Days, TypeOK
<1>3. Promise!Begin(t, j.day)
  BY <1>1, <1>2 DEF Promise!Begin, Promise!Move, Promise!MayHide, Start, Phases, Days, Shown
<1> QED
  BY <1>2, <1>3 DEF PromiseKept, Promise!Next

LEMMA Plans ==
  ASSUME TypeOK, NEW t \in Run, pc[t] \in {"segment", "resume"}, NEW w \in {"ask", "mark"}, Goto(t, w),
         NEW n \in 0..MaxVisits, plan' = [plan EXCEPT ![t] = n],
         UNCHANGED <<job, reports, status>>
  PROVE  PromiseKept
<1>1. Phases[t] = "started" /\ Phases' = [Phases EXCEPT ![t] = "planned"]
  BY PhaseMoves, PhaseValues
<1>2. Promise!Plan(t, n)
  BY <1>1 DEF Promise!Plan, Promise!Move, Phases, Days, Shown
<1> QED
  BY <1>2 DEF PromiseKept, Promise!Next

LEMMA Stops ==
  ASSUME TypeOK, NEW t \in Run, pc[t] \in Live, NEW w \in Ended \ {"completed"}, Goto(t, w),
         Shown' \in SUBSET Shown, UNCHANGED <<job, plan, reports>>
  PROVE  PromiseKept
<1>1. Phases[t] \in {"started", "planned", "delivered"} /\ Phases' = [Phases EXCEPT ![t] = "stopped"]
  BY PhaseMoves, PhaseValues
<1>2. Phases' = [u \in Run |-> IF u \in {t} THEN "stopped" ELSE Phases[u]]
  BY <1>1 DEF Phases
<1>3. Promise!Stop({t})
  BY <1>1, <1>2 DEF Promise!Stop, Promise!MayHide, Phases, Days, Shown
<1> QED
  BY <1>3 DEF PromiseKept, Promise!Next

\* A run goes on within its phase.
LEMMA Goes ==
  ASSUME TypeOK, NEW t \in Run, NEW w, Goto(t, w), PhaseOf(w) = PhaseOf(pc[t]),
         Shown' \in SUBSET Shown, UNCHANGED <<job, plan, reports>>
  PROVE  PromiseKept
<1>1. Phases' = Phases /\ Days' = Days
  BY PhaseMoves DEF Phases, Days
<1> QED
  BY <1>1, Hidden

\* Every step of the webhook, the pipeline, the backoffice and the faults is
\* one of ReportRun, or none of its business.
LEMMA PromiseStep == TypeOK /\ [Next]_vars => PromiseKept
<1> SUFFICES ASSUME TypeOK, [Next]_vars PROVE PromiseKept
  OBVIOUS
<1>0. ASSUME UNCHANGED <<pc, job, plan, reports, status>> PROVE PromiseKept
  BY <1>0 DEF PromiseKept, Phases, Days, Shown
<1>1. ASSUME NEW f \in File, ReceiveMedia(f) PROVE PromiseKept
  BY <1>0, <1>1 DEF ReceiveMedia
<1>2. ASSUME SwitchDemo PROVE PromiseKept
  BY <1>0, <1>2 DEF SwitchDemo
<1>3. ASSUME NEW r \in Request, NEW txt \in {"trigger", "note"}, ReceiveText(r, txt) PROVE PromiseKept
  BY <1>0, <1>3 DEF ReceiveText
<1>4. ASSUME NEW r \in Request, RequestStep(r) PROVE PromiseKept
  <2>1. ASSUME RefuseTrigger(r) \/ \E f \in File : AddNote(r, f) \/ AddClarification(r, f) PROVE PromiseKept
    BY <1>0, <2>1 DEF RefuseTrigger, AddNote, AddClarification
  <2>2. ASSUME AcceptTrigger(r) PROVE PromiseKept
    <3>1. msg[r].day \in Day /\ SetStatus(msg[r].day, "segmenting")
      BY <2>2 DEF AcceptTrigger, TypeOK
    <3>2. UNCHANGED <<Phases, Days, plan, reports>>
      BY <2>2 DEF AcceptTrigger, Phases, Days
    <3> QED
      BY <3>1, <3>2, Hides, Hidden
  <2>3. ASSUME NEW t \in Run, SpawnPipeline(r, t) PROVE PromiseKept
    <3>1. today \in Day /\ Shown' \in SUBSET Shown
      BY <2>3 DEF SpawnPipeline, TypeOK, Shown
    <3> QED
      BY <2>3, <3>1, Begins DEF SpawnPipeline
  <2>4. ASSUME NEW t \in Run, SpawnResume(r, t) PROVE PromiseKept
    <3>1. msg[r].day \in Day /\ Shown' \in SUBSET Shown
      BY <2>4 DEF SpawnResume, TypeOK, Shown
    <3> QED
      BY <2>4, <3>1, Begins DEF SpawnResume
  <2> QED
    BY <1>4, <2>1, <2>2, <2>3, <2>4 DEF RequestStep
<1>5. ASSUME NEW r \in Request, RequestFails(r) PROVE PromiseKept
  BY <1>0, <1>5 DEF RequestFails
<1>6. ASSUME NEW t \in Run, RunStep(t) PROVE PromiseKept
  <2>0. job[t].day \in Day /\ plan[t] \in 0..MaxVisits /\ (UNCHANGED status => Shown' \in SUBSET Shown)
    BY DEF TypeOK, Shown
  <2>1. ASSUME LoadSession(t) PROVE PromiseKept
    BY <2>0, <2>1, Goes, PhaseValues DEF LoadSession
  <2>2. ASSUME MarkSegmenting(t) PROVE PromiseKept
    BY <2>0, <2>2, Goes, Hides, PhaseValues DEF MarkSegmenting
  <2>3. ASSUME NEW n \in 0..MaxVisits, NEW asks \in BOOLEAN, Segmented(t, n, asks) PROVE PromiseKept
    BY <2>3, Plans DEF Segmented
  <2>4. ASSUME SegmentationFailed(t) PROVE PromiseKept
    <3>1. plan' = [plan EXCEPT ![t] = plan[t]]
      BY <2>4 DEF SegmentationFailed, TypeOK
    <3> QED
      BY <2>0, <2>4, <3>1, Plans DEF SegmentationFailed
  <2>5. ASSUME NEW worded \in BOOLEAN, AskUser(t, worded) PROVE PromiseKept
    BY <2>0, <2>5, Stops, Hides DEF AskUser, End
  <2>6. ASSUME MarkProcessing(t) PROVE PromiseKept
    BY <2>0, <2>6, Goes, Hides, PhaseValues DEF MarkProcessing
  <2>7. ASSUME SaveReport(t) PROVE PromiseKept
    <3>1. Promise!InsertRow(t)
      BY <2>7, PhaseValues DEF SaveReport, Promise!InsertRow, TypeOK
    <3> QED
      BY <3>1 DEF PromiseKept, Promise!Next
  <2>8. ASSUME AnalysisMissing(t) PROVE PromiseKept
    BY <2>0, <2>8, Stops, Hides DEF AnalysisMissing, End
  <2>9. ASSUME Deliver(t) PROVE PromiseKept
    <3>1. Phases[t] = "planned" /\ Phases' = [Phases EXCEPT ![t] = "delivered"]
      BY <2>9, PhaseMoves, PhaseValues DEF Deliver
    <3>2. Promise!Deliver(t)
      BY <2>9, <3>1 DEF Deliver, Promise!Deliver, Promise!Move, Phases, Days, Shown
    <3> QED
      BY <3>2 DEF PromiseKept, Promise!Next
  <2>10. ASSUME Complete(t) PROVE PromiseKept
    <3>1. Phases[t] = "delivered" /\ Phases' = [Phases EXCEPT ![t] = "closed"]
      BY <2>10, PhaseMoves, PhaseValues DEF Complete, End
    <3>2. Shown' = Shown \cup {job[t].day}
      BY <2>0, <2>10 DEF Complete, SetStatus, Shown, TypeOK
    <3>3. Promise!Close(t)
      BY <2>10, <3>1, <3>2 DEF Complete, Promise!Close, Promise!Move, Phases, Days, Shown
    <3> QED
      BY <3>3 DEF PromiseKept, Promise!Next
  <2>11. ASSUME ResumeLoad(t) PROVE PromiseKept
    <3>1. Merged(segments[job[t].day]) \in 0..MaxVisits
      BY <2>0, <2>11, BoundsAssumption DEF ResumeLoad, Merged, TypeOK, NoSegments
    <3> QED
      BY <2>11, <3>1, Plans DEF ResumeLoad
  <2>12. ASSUME ResumeFindsNothing(t) PROVE PromiseKept
    BY <2>0, <2>12, Stops DEF ResumeFindsNothing, End
  <2>13. ASSUME RunFails(t) PROVE PromiseKept
    BY <2>0, <2>13, Stops, Hides DEF RunFails, End
  <2>14. ASSUME RunFailsUnrecorded(t) PROVE PromiseKept
    BY <2>0, <2>14, Stops DEF RunFailsUnrecorded, End
  <2>15. ASSUME AdminSegmenting(t) PROVE PromiseKept
    BY <2>0, <2>15, Goes, Hides, PhaseValues DEF AdminSegmenting
  <2> QED
    BY <1>6, <2>1, <2>2, <2>3, <2>4, <2>5, <2>6, <2>7, <2>8, <2>9, <2>10, <2>11, <2>12, <2>13,
       <2>14, <2>15 DEF RunStep
<1>7. ASSUME NEW t \in Run, NEW d \in Day, AdminTrigger(t, d) PROVE PromiseKept
  BY <1>7, Hides, Begins DEF AdminTrigger
<1>8. ASSUME Crash PROVE PromiseKept
  <2> DEFINE S == {t \in Run : pc[t] \in Live}
  <2>1. Phases' = [t \in Run |-> IF t \in S THEN "stopped" ELSE Phases[t]]
    BY <1>8, PhaseValues DEF Crash, Phases
  <2>2. \A t \in S : Phases[t] \in {"started", "planned", "delivered"}
    BY PhaseValues DEF Phases
  <2>3. Promise!Stop(S)
    BY <1>8, <2>1, <2>2 DEF Crash, Promise!Stop, Promise!MayHide, Phases, Days, Shown
  <2> QED
    BY <2>3 DEF PromiseKept, Promise!Next
<1>9. ASSUME Midnight PROVE PromiseKept
  BY <1>0, <1>9 DEF Midnight
<1>10. ASSUME UNCHANGED vars PROVE PromiseKept
  BY <1>0, <1>10 DEF vars
<1> QED
  BY <1>1, <1>2, <1>3, <1>4, <1>5, <1>6, <1>7, <1>8, <1>9, <1>10 DEF Next

\* RunsKeepPromise: whatever handlers, operators and faults do, the runs of a
\* session keep what ReportRun promises of them.
THEOREM Refinement == Spec => RunsKeepPromise
<1>1. Init => Promise!Init
  BY BoundsAssumption, PhaseValues DEF Init, Promise!Init, NoJob, Day
<1>2. TypeOK /\ [Next]_vars => [Promise!Next]_(Promise!vars)
  BY PromiseStep DEF PromiseKept, Promise!vars, Phases, Days, Shown
<1> QED
  BY <1>1, <1>2, TypeCorrect, PTL DEF Spec, RunsKeepPromise, Promise!Spec

-----------------------------------------------------------------------------
(***************************************************************************)
(* What the promise is worth: ReportRun's own property, and what becomes   *)
(* of it in FieldSession.                                                  *)
(***************************************************************************)
\* A run that delivered has every row it planned, and a day shown as completed
\* has a run that closed it, which nothing reopens.
Honest ==
    /\ DOMAIN plan = Run /\ DOMAIN reports = Run
    /\ \A t \in Run : Phases[t] \in {"delivered", "closed"} => reports[t] = plan[t]
    /\ \A d \in Shown : \E t \in Run : Phases[t] = "closed" /\ Days[t] = d

\* The step of a run that is not closed, to a phase in which it owes nothing or
\* has paid, takes no closed run away.
LEMMA PhaseHonest ==
  ASSUME Honest, NEW t \in Run, NEW w, Phases[t] # "closed", Phases' = [Phases EXCEPT ![t] = w],
         UNCHANGED <<plan, reports>>,
         w \in {"delivered", "closed"} => reports[t] = plan[t],
         \A u \in Run \ {t} : Days'[u] = Days[u],
         \A d \in Shown' \ Shown : w = "closed" /\ Days'[t] = d
  PROVE  Honest'
<1>1. \A u \in Run \ {t} : Phases'[u] = Phases[u]
  BY DEF Phases
<1>2. Phases'[t] = w
  BY DEF Phases
<1>3. ASSUME NEW d \in Shown' PROVE \E u \in Run : Phases'[u] = "closed" /\ Days'[u] = d
  <2>1. CASE d \in Shown
    <3>1. PICK u \in Run : Phases[u] = "closed" /\ Days[u] = d
      BY <2>1 DEF Honest
    <3> QED
      BY <1>1, <3>1
  <2>2. CASE d \notin Shown
    BY <1>2, <2>2
  <2> QED
    BY <2>1, <2>2
<1> QED
  BY <1>1, <1>2, <1>3 DEF Honest

LEMMA HonestStep == Honest /\ [Promise!Next]_(Promise!vars) => Honest'
<1> SUFFICES ASSUME Honest, [Promise!Next]_(Promise!vars) PROVE Honest'
  OBVIOUS
<1> USE DEF Promise!Move, Promise!MayHide
<1>1. ASSUME NEW t \in Run, NEW d \in Day, Promise!Begin(t, d) PROVE Honest'
  <2>1. Phases[t] = "idle" /\ Phases' = [Phases EXCEPT ![t] = "started"] /\ Shown' \in SUBSET Shown
        /\ Days' = [Days EXCEPT ![t] = d] /\ UNCHANGED <<plan, reports>>
    BY <1>1 DEF Promise!Begin, Phases, Days, Shown
  <2>2. \A u \in Run \ {t} : Days'[u] = Days[u]
    BY <2>1 DEF Days
  <2> QED
    BY <2>1, <2>2, PhaseHonest
<1>2. ASSUME NEW t \in Run, NEW n \in 0..MaxVisits, Promise!Plan(t, n) PROVE Honest'
  <2>1. Phases[t] = "started" /\ Phases' = [Phases EXCEPT ![t] = "planned"] /\ Shown' = Shown
        /\ Days' = Days /\ plan' = [plan EXCEPT ![t] = n] /\ reports' = reports
    BY <1>2 DEF Promise!Plan, Phases, Days, Shown
  <2>2. \A u \in Run \ {t} : Phases'[u] = Phases[u] /\ plan'[u] = plan[u]
    BY <2>1 DEF Phases, Honest
  <2>3. Phases'[t] = "planned"
    BY <2>1 DEF Phases
  <2> QED
    BY <2>1, <2>2, <2>3 DEF Honest
<1>3. ASSUME NEW t \in Run, Promise!InsertRow(t) PROVE Honest'
  <2>1. Phases[t] = "planned" /\ Phases' = Phases /\ Shown' = Shown /\ Days' = Days /\ plan' = plan
        /\ reports' = [reports EXCEPT ![t] = @ + 1]
    BY <1>3 DEF Promise!InsertRow, Phases, Days, Shown
  <2> QED
    BY <2>1 DEF Honest
<1>4. ASSUME NEW t \in Run, Promise!Deliver(t) PROVE Honest'
  <2>1. Phases[t] = "planned" /\ Phases' = [Phases EXCEPT ![t] = "delivered"] /\ Shown' = Shown
        /\ Days' = Days /\ UNCHANGED <<plan, reports>> /\ reports[t] = plan[t]
    BY <1>4 DEF Promise!Deliver, Phases, Days, Shown
  <2> QED
    BY <2>1, PhaseHonest
<1>5. ASSUME NEW t \in Run, Promise!Close(t) PROVE Honest'
  <2>1. Phases[t] = "delivered" /\ Phases' = [Phases EXCEPT ![t] = "closed"]
        /\ Shown' = Shown \cup {Days[t]} /\ Days' = Days /\ UNCHANGED <<plan, reports>>
    BY <1>5 DEF Promise!Close, Phases, Days, Shown
  <2> QED
    BY <2>1, PhaseHonest DEF Honest
<1>6. ASSUME NEW S \in SUBSET Run, Promise!Stop(S) PROVE Honest'
  <2>1. /\ \A t \in S : Phases[t] \in {"started", "planned", "delivered"}
        /\ Phases' = [t \in Run |-> IF t \in S THEN "stopped" ELSE Phases[t]]
        /\ Shown' \in SUBSET Shown /\ Days' = Days /\ UNCHANGED <<plan, reports>>
    BY <1>6 DEF Promise!Stop, Phases, Days, Shown
  <2>2. \A t \in Run : Phases'[t] \in {"delivered", "closed"} => Phases'[t] = Phases[t]
    BY <2>1
  <2>3. \A t \in Run : Phases[t] = "closed" => Phases'[t] = "closed"
    BY <2>1
  <2> QED
    BY <2>1, <2>2, <2>3 DEF Honest
<1>7. ASSUME Promise!Hide PROVE Honest'
  <2>1. Phases' = Phases /\ Shown' \in SUBSET Shown /\ Days' = Days /\ UNCHANGED <<plan, reports>>
    BY <1>7 DEF Promise!Hide, Phases, Days, Shown
  <2> QED
    BY <2>1 DEF Honest
<1>8. ASSUME UNCHANGED Promise!vars PROVE Honest'
  BY <1>8 DEF Promise!vars, Honest, Phases, Days, Shown
<1> QED
  BY <1>1, <1>2, <1>3, <1>4, <1>5, <1>6, <1>7, <1>8 DEF Promise!Next

\* ReportRun promises what its name says: a day that reads "completed" has a run
\* that left one row for every visit it had planned, however runs stop, alone or
\* together, and whatever is hidden meanwhile.
THEOREM PromiseIsHonest == Promise!Spec => []Promise!ShownIsComplete
<1>1. Promise!Init => Honest
  BY DEF Promise!Init, Honest, Phases, Shown
<1>2. Honest => Promise!ShownIsComplete
  BY DEF Honest, Promise!ShownIsComplete, Phases, Days, Shown
<1> QED
  BY <1>1, <1>2, HonestStep, PTL DEF Promise!Spec

\* The field sessions inherit it by refinement: a session reads "completed" only
\* when a run of its day inserted every row it planned and ended by writing that
\* status, whatever the handlers, the operator, midnight and the faults do.
THEOREM ShownComplete == Spec => []Promise!ShownIsComplete
  BY Refinement, PromiseIsHonest, PTL DEF RunsKeepPromise
-----------------------------------------------------------------------------
(***************************************************************************)
(* The way of a run.                                                       *)
(***************************************************************************)
Held(t) == plan'[t] = plan[t] /\ reports'[t] = reports[t] /\ job'[t] = job[t]

\* Whoever is to hear of run t's end hears of it.
Heard(t) == job[t].kind = "process" /\ job[t].origin = "user" => t \in told'

Rests(t) == Held(t) /\ pc'[t] = pc[t]

Starts(t) ==
    /\ pc[t] = "unused" /\ pc'[t] \in {"reset", "load", "resume"}
    /\ pc'[t] = "resume" => job'[t].kind = "resume"
    /\ plan'[t] = plan[t] /\ reports'[t] = reports[t]

GoesOn(t) ==
    /\ Held(t)
    /\ \/ pc[t] = "reset" /\ pc'[t] = "load"
       \/ pc[t] = "load" /\ pc'[t] = "loaded"
       \/ pc[t] = "loaded" /\ pc'[t] = "segment"
       \/ pc[t] = "segment" /\ pc'[t] = "ask"
       \/ pc[t] = "mark" /\ pc'[t] = "extract"
       \/ pc[t] = "extract" /\ pc'[t] = "finish" /\ t \in told'

PlansVisits(t) ==
    /\ pc[t] \in {"segment", "resume"} /\ pc'[t] \in {"ask", "mark"}
    /\ plan'[t] \in 0..MaxVisits /\ reports'[t] = reports[t] /\ job'[t] = job[t]

InsertsRow(t) ==
    /\ pc[t] = "extract" /\ pc'[t] = pc[t]
    /\ reports[t] < plan[t] /\ reports'[t] = reports[t] + 1
    /\ plan'[t] = plan[t] /\ job'[t] = job[t]

ComesToEnd(t) ==
    /\ Held(t) /\ pc[t] \in Live
    /\ \/ pc'[t] \in {"killed", "asked"}
       \/ pc'[t] = "silent" /\ pc[t] = "resume"
       \/ pc'[t] \in {"failed", "unanalysed"} /\ Heard(t)
       \/ pc'[t] = "completed" /\ pc[t] = "finish"

Moves(t) == Rests(t) \/ Starts(t) \/ GoesOn(t) \/ PlansVisits(t) \/ InsertsRow(t) \/ ComesToEnd(t)

\* A step of one run moves that run, and no other.
LEMMA OwnStepMoves ==
  ASSUME TypeOK, NEW t \in Run, RunStep(t)
  PROVE  Moves(t) /\ ~Rests(t) /\ told \subseteq told' /\ \A u \in Run \ {t} : Rests(u)
<1> USE DEF TypeOK, Goto, Held
<1>1. ASSUME \/ LoadSession(t) \/ MarkSegmenting(t) \/ SegmentationFailed(t) \/ MarkProcessing(t)
             \/ AdminSegmenting(t) \/ Deliver(t)
      PROVE  GoesOn(t) /\ pc'[t] # pc[t] /\ told \subseteq told' /\ \A u \in Run \ {t} : Rests(u)
  BY <1>1 DEF LoadSession, MarkSegmenting, SegmentationFailed, MarkProcessing, AdminSegmenting, Deliver,
              GoesOn, Rests
<1>2. ASSUME NEW n \in 0..MaxVisits, NEW asks \in BOOLEAN, Segmented(t, n, asks)
      PROVE  PlansVisits(t) /\ pc'[t] # pc[t] /\ told \subseteq told' /\ \A u \in Run \ {t} : Rests(u)
  BY <1>2 DEF Segmented, PlansVisits, Rests
<1>3. ASSUME ResumeLoad(t)
      PROVE  PlansVisits(t) /\ pc'[t] # pc[t] /\ told \subseteq told' /\ \A u \in Run \ {t} : Rests(u)
  <2>1. Merged(segments[job[t].day]) \in 0..MaxVisits
    BY <1>3, BoundsAssumption DEF ResumeLoad, Merged, NoSegments
  <2>2. QED
    BY <1>3, <2>1 DEF ResumeLoad, PlansVisits, Rests
<1>4. ASSUME SaveReport(t)
      PROVE  InsertsRow(t) /\ reports'[t] # reports[t] /\ told \subseteq told' /\ \A u \in Run \ {t} : Rests(u)
  BY <1>4 DEF SaveReport, InsertsRow, Rests
<1>5. ASSUME \/ \E worded \in BOOLEAN : AskUser(t, worded)
             \/ ResumeFindsNothing(t) \/ Complete(t)
      PROVE  ComesToEnd(t) /\ pc'[t] # pc[t] /\ told \subseteq told' /\ \A u \in Run \ {t} : Rests(u)
  BY <1>5 DEF AskUser, ResumeFindsNothing, Complete, End, ComesToEnd, Rests
<1>6. ASSUME RunFails(t) \/ RunFailsUnrecorded(t) \/ AnalysisMissing(t)
      PROVE  ComesToEnd(t) /\ pc'[t] # pc[t] /\ told \subseteq told' /\ \A u \in Run \ {t} : Rests(u)
  BY <1>6 DEF RunFails, FailureIsTold, RunFailsUnrecorded, AnalysisMissing, End, ComesToEnd, Heard, Rests
<1>7. QED
  BY <1>1, <1>2, <1>3, <1>4, <1>5, <1>6 DEF RunStep, Moves, Rests

\* Whoever moves, each run rests or goes its way.
LEMMA StepMoves ==
  ASSUME TypeOK, [Next]_vars, NEW t \in Run
  PROVE  Moves(t) /\ told \subseteq told'
<1>1. ASSUME NEW u \in Run, RunStep(u) PROVE Moves(t) /\ told \subseteq told'
  BY <1>1, OwnStepMoves DEF Moves
<1>2. ASSUME UNCHANGED <<pc, job, plan, reports, told>> PROVE Moves(t) /\ told \subseteq told'
  BY <1>2 DEF Moves, Rests, Held
<1>3. ASSUME NEW u \in Run, NEW w \in {"reset", "load", "resume"}, NEW j, Start(u, w, j),
             w = "resume" => j.kind = "resume", told' = told
      PROVE  Moves(t) /\ told \subseteq told'
  BY <1>3 DEF Start, Goto, TypeOK, Moves, Rests, Held, Starts
<1>4. ASSUME NEW r \in Request, RequestStep(r) PROVE Moves(t) /\ told \subseteq told'
  <2>1. ASSUME NEW u \in Run, SpawnPipeline(r, u) PROVE Moves(t) /\ told \subseteq told'
    BY <1>3, <2>1 DEF SpawnPipeline
  <2>2. ASSUME NEW u \in Run, SpawnResume(r, u) PROVE Moves(t) /\ told \subseteq told'
    BY <1>3, <2>2 DEF SpawnResume
  <2>3. QED
    BY <1>2, <1>4, <2>1, <2>2 DEF RequestStep, RefuseTrigger, AcceptTrigger, AddNote, AddClarification
<1>5. ASSUME NEW u \in Run, NEW d \in Day, AdminTrigger(u, d) PROVE Moves(t) /\ told \subseteq told'
  BY <1>3, <1>5 DEF AdminTrigger
<1>6. ASSUME Crash PROVE Moves(t) /\ told \subseteq told'
  BY <1>6 DEF Crash, TypeOK, Moves, Rests, ComesToEnd, Held
<1>7. QED
  BY <1>1, <1>2, <1>4, <1>5, <1>6 DEF Next, ReceiveMedia, SwitchDemo, ReceiveText, RequestFails, Midnight, vars

Early == {"unused", "reset", "load", "loaded", "segment", "resume"}

\* A trigger's run does not end without a word, but for the two ends at which
\* the user is owed none: a question, and the death of the process.
EndIsTold ==
    \A t \in Run : pc[t] \in Ended /\ job[t].kind = "process" /\ job[t].origin = "user"
                       => t \in told \/ pc[t] \in {"killed", "asked"}

\* The rows a run inserts are of visits it planned.
RowsWithinPlan == \A t \in Run : reports[t] <= plan[t]

OnTheWay ==
    \A t \in Run : /\ pc[t] \in Early => reports[t] = 0
                   /\ pc[t] = "resume" => job[t].kind = "resume"
                   /\ pc[t] = "finish" => t \in told

LEMMA WayStep ==
    TypeOK /\ OnTheWay /\ EndIsTold /\ RowsWithinPlan /\ [Next]_vars
        => OnTheWay' /\ EndIsTold' /\ RowsWithinPlan'
<1> SUFFICES ASSUME TypeOK, OnTheWay, EndIsTold, RowsWithinPlan, [Next]_vars, NEW t \in Run
             PROVE  /\ pc'[t] \in Early => reports'[t] = 0
                    /\ pc'[t] = "resume" => job'[t].kind = "resume"
                    /\ pc'[t] = "finish" => t \in told'
                    /\ pc'[t] \in Ended /\ job'[t].kind = "process" /\ job'[t].origin = "user"
                           => t \in told' \/ pc'[t] \in {"killed", "asked"}
                    /\ reports'[t] <= plan'[t]
  BY DEF OnTheWay, EndIsTold, RowsWithinPlan
<1>1. told \subseteq told' /\ pc[t] \in {"unused"} \cup Live \cup Ended
      /\ plan[t] \in 0..MaxVisits /\ reports[t] \in 0..MaxVisits /\ MaxVisits \in Nat
  BY StepMoves, BoundsAssumption DEF TypeOK
<1>2. /\ pc[t] \in Early => reports[t] = 0
      /\ pc[t] = "resume" => job[t].kind = "resume"
      /\ pc[t] = "finish" => t \in told
      /\ pc[t] \in Ended /\ job[t].kind = "process" /\ job[t].origin = "user"
             => t \in told \/ pc[t] \in {"killed", "asked"}
      /\ reports[t] <= plan[t]
  BY DEF OnTheWay, EndIsTold, RowsWithinPlan
<1> USE DEF Early
<1>3. CASE Rests(t)
  BY <1>1, <1>2, <1>3 DEF Rests, Held
<1>4. CASE Starts(t)
  BY <1>1, <1>2, <1>4 DEF Starts
<1>5. CASE GoesOn(t)
  BY <1>1, <1>2, <1>5 DEF GoesOn, Held
<1>6. CASE PlansVisits(t)
  BY <1>1, <1>2, <1>6 DEF PlansVisits
<1>7. CASE InsertsRow(t)
  BY <1>1, <1>2, <1>7 DEF InsertsRow
<1>8. CASE ComesToEnd(t)
  BY <1>1, <1>2, <1>8 DEF ComesToEnd, Held, Heard
<1>9. QED
  BY <1>3, <1>4, <1>5, <1>6, <1>7, <1>8, StepMoves DEF Moves

LEMMA WayAlways == Spec => [](TypeOK /\ OnTheWay /\ EndIsTold /\ RowsWithinPlan)
<1>1. Init => OnTheWay /\ EndIsTold /\ RowsWithinPlan
  BY DEF Init, OnTheWay, EndIsTold, RowsWithinPlan
<1>2. QED
  BY <1>1, TypeCorrect, WayStep, PTL DEF Spec

\* A run started for a trigger is told how it ended, whatever became of it: what
\* TriggerIsAnswered promises of runs that end, and so all of it but that they do.
THEOREM TriggersAreTold == Spec => []EndIsTold
  BY WayAlways, PTL

\* The loop over visits never runs past the plan: at each turn either one more row
\* is due, or the last one is in and the run leaves it.
THEOREM RowsArePlanned == Spec => []RowsWithinPlan
  BY WayAlways, PTL

\* The steps run t still has before it, at most.
StepsLeft(where, due) ==
    CASE where = "unused" -> MaxVisits + 8
      [] where = "reset" -> MaxVisits + 7
      [] where = "load" -> MaxVisits + 6
      [] where = "loaded" -> MaxVisits + 5
      [] where \in {"segment", "resume"} -> MaxVisits + 4
      [] where \in {"ask", "mark"} -> MaxVisits + 3
      [] where = "extract" -> due + 2
      [] where = "finish" -> 1
      [] OTHER -> 0

Left(t) == StepsLeft(pc[t], plan[t] - reports[t])

LEMMA LeftType ==
  ASSUME TypeOK, RowsWithinPlan, NEW t \in Run
  PROVE  Left(t) \in Nat /\ (Left(t) = 0 <=> pc[t] \in Ended)
<1>1. plan[t] \in 0..MaxVisits /\ reports[t] \in 0..MaxVisits /\ MaxVisits \in Nat
      /\ reports[t] <= plan[t] /\ pc[t] \in {"unused"} \cup Live \cup Ended
  BY BoundsAssumption DEF TypeOK, RowsWithinPlan
<1> QED
  BY <1>1 DEF Left, StepsLeft

LEMMA MoveAdvances ==
  ASSUME TypeOK, OnTheWay, RowsWithinPlan, RowsWithinPlan', NEW t \in Run, Moves(t)
  PROVE  Rests(t) \/ Left(t)' < Left(t)
<1>1. plan[t] \in 0..MaxVisits /\ reports[t] \in 0..MaxVisits /\ MaxVisits \in Nat
      /\ reports[t] <= plan[t] /\ reports'[t] <= plan'[t]
      /\ (pc[t] = "resume" => job[t].kind = "resume")
      /\ (pc[t] \in Early => reports[t] = 0)
  BY BoundsAssumption DEF TypeOK, RowsWithinPlan, OnTheWay
<1>2. Left(t)' = StepsLeft(pc'[t], plan'[t] - reports'[t])
  BY DEF Left
<1> USE <1>1, <1>2 DEF Left, StepsLeft, Early
<1>3. CASE Starts(t)
  BY <1>3 DEF Starts
<1>4. CASE GoesOn(t)
  BY <1>4 DEF GoesOn, Held
<1>5. CASE PlansVisits(t)
  BY <1>5 DEF PlansVisits
<1>6. CASE InsertsRow(t)
  BY <1>6 DEF InsertsRow
<1>7. CASE ComesToEnd(t)
  BY <1>7 DEF ComesToEnd, Held
<1>8. QED
  BY <1>3, <1>4, <1>5, <1>6, <1>7 DEF Moves

\* No step of anyone sets a run back: whatever handlers, other runs, the operator,
\* midnight and the faults do, a run stands where it stood or is nearer its end, and
\* its own steps bring it nearer.  So a run takes at most MaxVisits + 8 steps: nothing
\* makes the pipeline process a visit twice or a task start over.
THEOREM RunsAdvance ==
    Spec => [][\A t \in Run : /\ Rests(t) \/ Left(t)' < Left(t)
                              /\ RunStep(t) => Left(t)' < Left(t)]_vars
<1>1. TypeOK /\ OnTheWay /\ RowsWithinPlan /\ RowsWithinPlan' /\ [Next]_vars
          => \A t \in Run : /\ Rests(t) \/ Left(t)' < Left(t)
                            /\ RunStep(t) => Left(t)' < Left(t)
  BY StepMoves, OwnStepMoves, MoveAdvances
<1>2. QED
  BY <1>1, WayAlways, PTL DEF Spec

\* A fair run whose steps may be taken while it lives.
Runs(t) ==
    /\ [](TypeOK /\ OnTheWay /\ EndIsTold /\ RowsWithinPlan) /\ [][Next]_vars
    /\ WF_vars(RunStep(t))
    /\ [](pc[t] \in Live => ENABLED <<RunStep(t)>>_vars)

Falls(t, n) == (pc[t] # "unused" /\ Left(t) = n) ~> (Left(t) < n)

LEMMA LeftFalls ==
  ASSUME NEW t \in Run, NEW n \in Nat \ {0}
  PROVE  Runs(t) => Falls(t, n)
<1> DEFINE Way == TypeOK /\ OnTheWay /\ EndIsTold /\ RowsWithinPlan
           Here == pc[t] # "unused" /\ Left(t) = n
<1>1. Way /\ Way' /\ Here /\ [Next]_vars => Here' \/ (Left(t) < n)'
  <2> SUFFICES ASSUME Way, Way', Here, [Next]_vars
               PROVE  (pc'[t] # "unused" /\ Left(t)' = n) \/ Left(t)' < n
    OBVIOUS
  <2>1. CASE Left(t)' < Left(t)
    BY <2>1
  <2>2. CASE Rests(t)
    <3>1. Left(t)' = Left(t)
      BY <2>2 DEF Rests, Held, Left
    <3> QED
      BY <2>2, <3>1 DEF Rests
  <2> QED
    BY <2>1, <2>2, StepMoves, MoveAdvances
<1>2. Way /\ Way' /\ Here /\ <<Next /\ RunStep(t)>>_vars => (Left(t) < n)'
  BY StepMoves, OwnStepMoves, MoveAdvances
<1>3. Way /\ Here => pc[t] \in Live
  BY LeftType DEF TypeOK
<1>4. RunStep(t) => Next
  BY DEF Next
<1> QED
  BY <1>1, <1>2, <1>3, <1>4, PTL DEF Runs, Falls

\* Guards decide: a run that lives may take a step.
RunsCanMove == \A t \in Run : pc[t] \in Live => ENABLED <<RunStep(t)>>_vars

RunsComeNearer == \A t \in Run : \A n \in Nat \ {0} : Falls(t, n)

\* From wherever it stands a run comes nearer its end, for every number of visits:
\* what is left to BusySettles and TriggerIsAnswered is to count down from n.
THEOREM RunsKeepMoving == FairSpec /\ []RunsCanMove => RunsComeNearer
<1> SUFFICES ASSUME NEW t \in Run, NEW n \in Nat \ {0}
             PROVE  FairSpec /\ []RunsCanMove => Falls(t, n)
  BY DEF RunsComeNearer
<1>1. Fairness => RunMoves(t)
  BY DEF Fairness
<1>2. RunMoves(t) => WF_vars(RunStep(t))
  BY PTL DEF RunMoves
<1>3. RunsCanMove => (pc[t] \in Live => ENABLED <<RunStep(t)>>_vars)
  BY DEF RunsCanMove
<1>4. FairSpec /\ []RunsCanMove => Runs(t)
  BY <1>1, <1>2, <1>3, WayAlways, PTL DEF FairSpec, Spec, Runs
<1>5. Runs(t) => Falls(t, n)
  BY LeftFalls
<1> QED
  BY <1>4, <1>5, PTL
=============================================================================
