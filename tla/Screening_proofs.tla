--------------------------- MODULE Screening_proofs ---------------------------
(***************************************************************************)
(* Proofs about Screening, for every number of images, readers, slots,     *)
(* tries and faults, and every cap.                                        *)
(***************************************************************************)
EXTENDS Screening, TLAPS, SequenceTheorems, FiniteSetTheorems

LEMMA BlankNotes == Blank \in Note /\ Unread \in [File -> Note]
  BY DEF Blank, Unread, Note

\* An annotation is an annotation again, and keeps the marks it had.
LEMMA AnnotatedKeeps ==
  ASSUME NEW n \in Note, NEW c \in Category
  PROVE  /\ Annotated(n, c) \in Note
         /\ Marked(n) => Marked(Annotated(n, c))
         /\ c \notin ALLOWED_FOR_DEMO => Marked(Annotated(n, c))
  BY ScreeningAssumption DEF Annotated, Note, Marked, NoVerdict, Blocking, Personal, ALLOWED_FOR_DEMO

\* The cap keeps a sequence of images.
LEMMA MostRecentType ==
  ASSUME NEW fs \in Seq(File)
  PROVE  MostRecent(fs, Cap) \in Seq(File)
<1> DEFINE m == IF Len(fs) > Cap THEN Len(fs) - Cap + 1 ELSE 1
<1>1. m \in 1..(Len(fs) + 1) /\ Len(fs) \in Nat
  BY ScreeningAssumption
<1>2. SubSeq(fs, m, Len(fs)) \in Seq(File)
  BY <1>1, SubSeqProperties
<1> QED
  BY <1>2 DEF MostRecent

\* The types of the jobs, which a step of one of them keeps.
JobTypes ==
    /\ job \in [Job -> {"none", "waiting", "done"} \cup Running]
    /\ verdict \in [Job -> Category \cup {NoVerdict}]
    /\ \A j \in Job : job[j] \in Inside \ {"screen"} => verdict[j] \in Category
    /\ slots \in Nat

LEMMA LeaveTypes ==
  ASSUME JobTypes, NEW j \in Job, Leave(j)
  PROVE  JobTypes'
  BY DEF JobTypes, Leave, Job, Running, Inside

LEMMA GotoTypes ==
  ASSUME JobTypes, NEW j \in Job, NEW where \in Inside, Goto(j, where), verdict[j] \in Category
  PROVE  JobTypes'
  BY DEF JobTypes, Goto, Job, Running, Inside

\* Every variable keeps its type (TypeOK) through every step of the queue,
\* of the screenings and of their readers.
LEMMA TypeStep == TypeOK /\ [Next]_vars => TypeOK'
<1> SUFFICES ASSUME TypeOK, [Next]_vars PROVE TypeOK'
  OBVIOUS
<1> USE ScreeningAssumption, BlankNotes
    DEF TypeOK, jobVars, noteVars, readVars, Job, Inside, Running, Reading, Outcome, Fault
<1>1. ASSUME NEW f \in File, Store(f) PROVE TypeOK'
  BY <1>1 DEF Store
<1>2. ASSUME NEW f \in File, NEW ways \in SUBSET {"redis", "inline"}, enqueue_preprocess(f, ways) PROVE TypeOK'
  BY <1>2 DEF enqueue_preprocess
<1>3. ASSUME NEW f \in File, Take(f) PROVE TypeOK'
  <2>1. <<f, "redis">> \in Job
    OBVIOUS
  <2>2. \/ job' = [job EXCEPT ![<<f, "redis">>] = "started"] /\ tries' = [tries EXCEPT ![f] = @ + 1] /\ tries[f] < MaxTries
        \/ job' = [job EXCEPT ![<<f, "redis">>] = "done"] /\ tries' = tries
    BY <1>3 DEF Take
  <2>3. UNCHANGED <<stored, pending, verdict, slots, noteVars, told, readVars, faults>>
    BY <1>3 DEF Take
  <2>4. tries' \in [File -> 0..MaxTries]
    <3>1. tries[f] < MaxTries => tries[f] + 1 \in 0..MaxTries
      OBVIOUS
    <3> QED
      BY <2>2, <3>1
  <2>5. job' \in [Job -> {"none", "waiting", "done"} \cup Running]
    BY <2>1, <2>2
  <2>6. \A j \in Job : job'[j] \in Inside \ {"screen"} => job'[j] = job[j]
    BY <2>1, <2>2
  <2> QED
    BY <2>3, <2>4, <2>5, <2>6
<1>4. ASSUME NEW f \in File, TimeOut(f) PROVE TypeOK'
  BY <1>4 DEF TimeOut, Leave
<1>5. ASSUME NEW j \in Job, Acquire(j) PROVE TypeOK'
  BY <1>5 DEF Acquire
<1>6. ASSUME NEW j \in Job, NEW c \in Category, Classify(j, c) PROVE TypeOK'
  BY <1>6 DEF Classify
<1>7. ASSUME NEW j \in Job, DownloadFails(j) PROVE TypeOK'
  BY <1>7 DEF DownloadFails, Leave
<1>8. ASSUME NEW j \in Job, NEW ok \in BOOLEAN, Describe(j, ok) PROVE TypeOK'
  <2>1. JobTypes /\ verdict[j] \in Category /\ "note" \in Inside
    BY <1>8 DEF Describe, JobTypes
  <2>2. Goto(j, "note") \/ Leave(j)
    BY <1>8 DEF Describe
  <2>3. JobTypes'
    BY ONLY <2>1, <2>2, LeaveTypes, GotoTypes
  <2> QED
    BY <1>8, <2>3 DEF Describe, JobTypes
<1>9. ASSUME NEW j \in Job, NEW ok \in BOOLEAN, RecordRow(j, ok) PROVE TypeOK'
  <2>1. j[1] \in File /\ Annotated(row[j[1]], verdict[j]) \in Note
    BY <1>9, AnnotatedKeeps DEF RecordRow
  <2> QED
    BY <1>9, <2>1 DEF RecordRow, Goto
<1>10. ASSUME NEW j \in Job, NEW ok \in BOOLEAN, RecordRaw(j, ok) PROVE TypeOK'
  <2>1. j[1] \in File /\ Annotated(copy[j][j[1]], verdict[j]) \in Note
    BY <1>10, AnnotatedKeeps DEF RecordRaw
  <2> QED
    <3>1. raw' \in [File -> Note] /\ copy' \in [Job -> [File -> Note]] /\ faults' \in 0..MaxFaults
      BY <1>10, <2>1 DEF RecordRaw
    <3>2. JobTypes /\ verdict[j] \in Category /\ "tell" \in Inside
      BY <1>10 DEF RecordRaw, JobTypes
    <3>3. Goto(j, "tell") \/ Leave(j)
      BY <1>10 DEF RecordRaw
    <3>4. JobTypes'
      BY ONLY <3>2, <3>3, LeaveTypes, GotoTypes
    <3> QED
      BY <1>10, <3>1, <3>4 DEF RecordRaw, JobTypes
<1>11. ASSUME NEW j \in Job, NEW ok \in BOOLEAN, Tell(j, ok) PROVE TypeOK'
  BY <1>11 DEF Tell, Leave
<1>12. ASSUME RestartWorker PROVE TypeOK'
  BY <1>12 DEF RestartWorker
<1>13. ASSUME RestartWeb PROVE TypeOK'
  BY <1>13 DEF RestartWeb
<1>14. ASSUME NEW r \in Reader, NEW fs \in Seq(File), NEW n \in [File -> Note],
              NEW promise \in SUBSET File, NEW next \in {"gate", "segment", "reanalyse", "ended"},
              Read(r, fs, n, promise, next), faults' \in 0..MaxFaults,
              UNCHANGED <<stored, jobVars, noteVars, told>>
       PROVE TypeOK'
  BY <1>14 DEF Read
<1>15. ASSUME NEW r \in Reader, NEW images \in SUBSET File, NEW next \in {"asked", "ended"},
              Finish(r, images, next), UNCHANGED <<stored, jobVars, noteVars, told, faults>>
       PROVE TypeOK'
  BY <1>15 DEF Finish
<1>16. ASSUME NEW r \in Reader, NEW ok \in BOOLEAN, StartBatch(r, ok) PROVE TypeOK'
  <2> DEFINE n == IF ok THEN row ELSE raw
             promise == IF ok THEN told ELSE {}
             next == IF stored = <<>> THEN "ended" ELSE "gate"
  <2>1. MostRecent(stored, Cap) \in Seq(File) /\ n \in [File -> Note] /\ promise \in SUBSET File
    BY MostRecentType
  <2>2. next \in {"gate", "segment", "reanalyse", "ended"} /\ faults' \in 0..MaxFaults
    BY <1>16 DEF StartBatch
  <2>3. Read(r, MostRecent(stored, Cap), n, promise, next) /\ UNCHANGED <<stored, jobVars, noteVars, told>>
    BY <1>16 DEF StartBatch
  <2> HIDE DEF n, promise, next
  <2> QED
    BY ONLY <2>1, <2>2, <2>3, <1>14
<1>17. \A r \in Reader : ToSet(files[r]) \subseteq File
  BY DEF ToSet
<1>18. ASSUME NEW r \in Reader, NEW inline \in [File -> Category], Gate(r, inline) PROVE TypeOK'
  BY ONLY <1>18, <1>17, <1>15 DEF Gate
<1>19. ASSUME NEW r \in Reader, StartRun(r) PROVE TypeOK'
  BY <1>19, <1>14 DEF StartRun
<1>20. ASSUME NEW r \in Reader, NEW asks \in BOOLEAN, Segment(r, asks) PROVE TypeOK'
  BY ONLY <1>20, <1>17, <1>15 DEF Segment
<1>21. ASSUME NEW r \in Reader, Resume(r) PROVE TypeOK'
  BY <1>21, <1>14 DEF Resume
<1>22. ASSUME NEW r \in Reader, NEW visits \in SUBSET File, Reanalyse(r, visits) PROVE TypeOK'
  BY ONLY <1>22, <1>15 DEF Reanalyse
<1>23. ASSUME UNCHANGED vars PROVE TypeOK'
  BY <1>23 DEF vars
<1> QED
  BY <1>1, <1>2, <1>3, <1>4, <1>5, <1>6, <1>7, <1>8, <1>9, <1>10, <1>11, <1>12, <1>13,
     <1>16, <1>18, <1>19, <1>20, <1>21, <1>22, <1>23
     DEF Next, Hand, JobStep, ReaderStep

\* Type correctness (TypeOK): in particular, what a job records is a verdict of
\* the classifier, however it was restarted.
THEOREM TypeCorrect == Spec => []TypeOK
<1>1. Init => TypeOK
  BY ScreeningAssumption, BlankNotes
     DEF Init, TypeOK, Job, Inside, Running, Reading
<1> QED
  BY <1>1, TypeStep, PTL DEF Spec

-----------------------------------------------------------------------------
(***************************************************************************)
(* What the user was told stands in the table.                             *)
(***************************************************************************)
\* A job that is about to tell the user has marked the image, unless the table
\* refused.
Convinced ==
    \A j \in Job : \/ job[j] = "write" /\ verdict[j] \notin ALLOWED_FOR_DEMO
                   \/ job[j] = "tell"
                   => j[1] \in unnoted \/ Marked(row[j[1]])

\* A batch that has read the table holds the marks of what had been told, and
\* has shown nothing yet.
SnapshotMarked ==
    \A r \in Reader : stage[r] = "gate" =>
        /\ analysed[r] = {}
        /\ \A f \in ToSet(files[r]) \cap (promised[r] \ unnoted) : Marked(notes[r][f])

MarkInv == TypeOK /\ Convinced /\ ToldIsMarked /\ SnapshotMarked

\* Only RecordRow writes the table, and no step takes a mark or a refusal away.
LEMMA MarksStay ==
  ASSUME TypeOK, [Next]_vars
  PROVE  /\ unnoted \subseteq unnoted'
         /\ \A f \in File : Marked(row[f]) => Marked(row'[f])
<1>1. ASSUME NEW j \in Job, NEW ok \in BOOLEAN, RecordRow(j, ok)
      PROVE  /\ unnoted \subseteq unnoted'
             /\ \A f \in File : Marked(row[f]) => Marked(row'[f])
  <2>1. j[1] \in File /\ row[j[1]] \in Note /\ verdict[j] \in Category
    BY <1>1 DEF RecordRow, TypeOK, Job, Inside
  <2>2. Marked(row[j[1]]) => Marked(Annotated(row[j[1]], verdict[j]))
    BY <2>1, AnnotatedKeeps
  <2>3. row \in [File -> Note]
    BY DEF TypeOK
  <2> QED
    BY <1>1, <2>1, <2>2, <2>3 DEF RecordRow
<1>2. (\E j \in Job, ok \in BOOLEAN : RecordRow(j, ok)) \/ UNCHANGED <<row, unnoted>>
  BY DEF Next, vars, noteVars, Hand, JobStep, ReaderStep, Store, enqueue_preprocess, Take, TimeOut,
         Acquire, Classify, DownloadFails, Describe, RecordRaw, Tell, RestartWorker, RestartWeb,
         StartBatch, Gate, StartRun, Segment, Resume, Reanalyse
<1> QED
  BY <1>1, <1>2

\* Where a job gets to "write" or to "tell".
LEMMA ConvincedStep == TypeOK /\ Convinced /\ [Next]_vars => Convinced'
<1> SUFFICES ASSUME TypeOK, Convinced, [Next]_vars,
                    NEW i \in Job,
                    \/ job'[i] = "write" /\ verdict'[i] \notin ALLOWED_FOR_DEMO
                    \/ job'[i] = "tell"
             PROVE  i[1] \in unnoted' \/ Marked(row'[i[1]])
  BY DEF Convinced
<1>0. i[1] \in File /\ job \in [Job -> {"none", "waiting", "done"} \cup Running] /\ verdict \in [Job -> Category \cup {NoVerdict}]
  BY DEF TypeOK, Job
<1>1. \/ job[i] = "write" /\ verdict[i] \notin ALLOWED_FOR_DEMO
      \/ job[i] = "tell"
      => i[1] \in unnoted' \/ Marked(row'[i[1]])
  BY <1>0, MarksStay DEF Convinced
<1>2. ASSUME NEW j \in Job, NEW ok \in BOOLEAN, RecordRow(j, ok) PROVE i[1] \in unnoted' \/ Marked(row'[i[1]])
  <2>1. CASE i = j
    <3>1. verdict[j] \in Category /\ row[j[1]] \in Note /\ j[1] \in File
      BY <1>2 DEF RecordRow, TypeOK, Job, Inside
    <3>2. verdict[j] \notin ALLOWED_FOR_DEMO
      BY <1>0, <1>2, <2>1 DEF RecordRow, Goto
    <3>3. Marked(Annotated(row[j[1]], verdict[j]))
      BY <3>1, <3>2, AnnotatedKeeps
    <3> QED
      BY <1>2, <2>1, <3>1, <3>3 DEF RecordRow, TypeOK
  <2>2. CASE i # j
    BY <1>0, <1>1, <1>2, <2>2 DEF RecordRow, Goto
  <2> QED
    BY <2>1, <2>2
<1>3. ASSUME NEW j \in Job, NEW ok \in BOOLEAN, RecordRaw(j, ok) PROVE i[1] \in unnoted' \/ Marked(row'[i[1]])
  <2>1. CASE ok /\ verdict[j] \notin ALLOWED_FOR_DEMO
    BY <1>0, <1>1, <1>3, <2>1 DEF RecordRaw, Goto
  <2>2. CASE ~(ok /\ verdict[j] \notin ALLOWED_FOR_DEMO)
    BY <1>0, <1>1, <1>3, <2>2 DEF RecordRaw, Leave
  <2> QED
    BY <2>1, <2>2
<1>4. ASSUME NEW j \in Job, JobStep(j) PROVE i[1] \in unnoted' \/ Marked(row'[i[1]])
  <2>1. ASSUME NEW ok \in BOOLEAN, Describe(j, ok) PROVE i[1] \in unnoted' \/ Marked(row'[i[1]])
    BY <1>0, <1>1, <2>1 DEF Describe, Goto, Leave
  <2>2. ASSUME NEW ok \in BOOLEAN, Tell(j, ok) PROVE i[1] \in unnoted' \/ Marked(row'[i[1]])
    BY <1>0, <1>1, <2>2 DEF Tell, Leave
  <2>3. ASSUME DownloadFails(j) PROVE i[1] \in unnoted' \/ Marked(row'[i[1]])
    BY <1>0, <1>1, <2>3 DEF DownloadFails, Leave
  <2>4. ASSUME NEW c \in Category, Classify(j, c) PROVE i[1] \in unnoted' \/ Marked(row'[i[1]])
    BY <1>0, <1>1, <2>4 DEF Classify
  <2>5. ASSUME Acquire(j) PROVE i[1] \in unnoted' \/ Marked(row'[i[1]])
    BY <1>0, <1>1, <2>5 DEF Acquire
  <2> QED
    BY <1>2, <1>3, <1>4, <2>1, <2>2, <2>3, <2>4, <2>5 DEF JobStep
<1>5. ASSUME NEW f \in File, NEW ways \in SUBSET {"redis", "inline"}, enqueue_preprocess(f, ways)
      PROVE i[1] \in unnoted' \/ Marked(row'[i[1]])
  BY <1>0, <1>1, <1>5 DEF enqueue_preprocess
<1>6. ASSUME NEW f \in File, Take(f) PROVE i[1] \in unnoted' \/ Marked(row'[i[1]])
  BY <1>0, <1>1, <1>6 DEF Take
<1>7. ASSUME NEW f \in File, TimeOut(f) PROVE i[1] \in unnoted' \/ Marked(row'[i[1]])
  BY <1>0, <1>1, <1>7 DEF TimeOut, Leave
<1>8. ASSUME RestartWorker PROVE i[1] \in unnoted' \/ Marked(row'[i[1]])
  BY <1>0, <1>1, <1>8 DEF RestartWorker, Running, Inside
<1>9. ASSUME RestartWeb PROVE i[1] \in unnoted' \/ Marked(row'[i[1]])
  BY <1>0, <1>1, <1>9 DEF RestartWeb
<1>10. ASSUME UNCHANGED <<job, verdict>> PROVE i[1] \in unnoted' \/ Marked(row'[i[1]])
  BY <1>1, <1>10
<1>11. ASSUME NEW r \in Reader, ReaderStep(r) PROVE UNCHANGED <<job, verdict>>
  BY <1>11 DEF ReaderStep, StartBatch, Gate, StartRun, Segment, Resume, Reanalyse, jobVars
<1>12. ASSUME NEW f \in File, Store(f) PROVE UNCHANGED <<job, verdict>>
  BY <1>12 DEF Store
<1>13. ASSUME UNCHANGED vars PROVE UNCHANGED <<job, verdict>>
  BY <1>13 DEF vars, jobVars
<1> QED
  BY <1>4, <1>5, <1>6, <1>7, <1>8, <1>9, <1>10, <1>11, <1>12, <1>13 DEF Next, Hand

\* Only Tell adds to what the user was told, and it follows the mark.
LEMMA ToldStep == TypeOK /\ Convinced /\ ToldIsMarked /\ [Next]_vars => ToldIsMarked'
<1> SUFFICES ASSUME TypeOK, Convinced, ToldIsMarked, [Next]_vars,
                    NEW f \in told' \ unnoted'
             PROVE  Marked(row'[f])
  BY DEF ToldIsMarked
<1>1. CASE f \in told
  BY <1>1, MarksStay DEF ToldIsMarked, TypeOK
<1>2. CASE f \notin told
  <2>1. PICK j \in Job, ok \in BOOLEAN : Tell(j, ok)
    BY <1>2 DEF Next, vars, noteVars, Hand, JobStep, ReaderStep, Store, enqueue_preprocess, Take, TimeOut,
         Acquire, Classify, DownloadFails, Describe, RecordRow, RecordRaw, RestartWorker, RestartWeb,
         StartBatch, Gate, StartRun, Segment, Resume, Reanalyse
  <2>2. f = j[1] /\ job[j] = "tell" /\ UNCHANGED <<row, unnoted>>
    BY <1>2, <2>1 DEF Tell, noteVars
  <2> QED
    BY <2>2 DEF Convinced
<1> QED
  BY <1>1, <1>2

\* A batch's snapshot is taken from a table that is marked, and then kept.
LEMMA SnapshotStep == TypeOK /\ ToldIsMarked /\ SnapshotMarked /\ [Next]_vars => SnapshotMarked'
<1> SUFFICES ASSUME TypeOK, ToldIsMarked, SnapshotMarked, [Next]_vars,
                    NEW r \in Reader, stage'[r] = "gate"
             PROVE  analysed'[r] = {} /\ \A f \in ToSet(files'[r]) \cap (promised'[r] \ unnoted') : Marked(notes'[r][f])
  BY DEF SnapshotMarked
<1> DEFINE Fine == analysed'[r] = {} /\ \A f \in ToSet(files'[r]) \cap (promised'[r] \ unnoted') : Marked(notes'[r][f])
<1>0. /\ stage \in [Reader -> {"idle", "asked", "ended"} \cup Reading] /\ files \in [Reader -> Seq(File)]
      /\ notes \in [Reader -> [File -> Note]] /\ promised \in [Reader -> SUBSET File]
      /\ analysed \in [Reader -> SUBSET File]
  BY DEF TypeOK
<1>1. CASE stage[r] = "gate" /\ UNCHANGED <<stage[r], files[r], notes[r], promised[r], analysed[r]>>
  BY <1>1, MarksStay DEF SnapshotMarked
<1>2. ASSUME NEW ok \in BOOLEAN, StartBatch(r, ok) PROVE Fine
  <2>1. promised'[r] = (IF ok THEN told ELSE {}) /\ analysed'[r] = {}
    BY <1>0, <1>2 DEF StartBatch, Read
  <2>2. ASSUME NEW f \in ToSet(files'[r]) \cap (promised'[r] \ unnoted') PROVE Marked(notes'[r][f])
    <3>1. ok /\ f \in told /\ f \in File
      BY <2>1, <2>2 DEF TypeOK
    <3>2. notes'[r][f] = row[f]
      BY <1>0, <1>2, <2>2, <3>1 DEF StartBatch, Read
    <3>3. UNCHANGED unnoted
      BY <1>2 DEF StartBatch, noteVars
    <3> QED
      BY <2>2, <3>1, <3>2, <3>3 DEF ToldIsMarked
  <2> QED
    BY <2>1, <2>2
<1>3. \/ \E ok \in BOOLEAN : StartBatch(r, ok)
      \/ stage[r] = "gate" /\ UNCHANGED <<stage[r], files[r], notes[r], promised[r], analysed[r]>>
  <2>1. ASSUME NEW s \in Reader, NEW fs, NEW n, NEW promise, NEW next, s # r, Read(s, fs, n, promise, next)
        PROVE  stage[r] = "gate" /\ UNCHANGED <<stage[r], files[r], notes[r], promised[r], analysed[r]>>
    BY <1>0, <2>1 DEF Read
  <2>2. ASSUME NEW s \in Reader, NEW images, NEW next, s # r, Finish(s, images, next)
        PROVE  stage[r] = "gate" /\ UNCHANGED <<stage[r], files[r], notes[r], promised[r], analysed[r]>>
    BY <1>0, <2>2 DEF Finish
  <2>3. ASSUME NEW s \in Reader, s # r, ReaderStep(s)
        PROVE  stage[r] = "gate" /\ UNCHANGED <<stage[r], files[r], notes[r], promised[r], analysed[r]>>
    BY ONLY <2>1, <2>2, <2>3 DEF ReaderStep, StartBatch, Gate, StartRun, Segment, Resume, Reanalyse
  <2>4. ASSUME ReaderStep(r) PROVE \E ok \in BOOLEAN : StartBatch(r, ok)
    BY <1>0, <2>4 DEF ReaderStep, Gate, StartRun, Segment, Resume, Reanalyse, Read, Finish
  <2>5. CASE RestartWeb
    BY <1>0, <2>5 DEF RestartWeb, Reading
  <2>6. CASE UNCHANGED readVars
    BY <2>6 DEF readVars
  <2>7. (\E s \in Reader : ReaderStep(s)) \/ RestartWeb \/ UNCHANGED readVars
    BY DEF Next, vars, Hand, JobStep, Store, enqueue_preprocess, Take, TimeOut,
         Acquire, Classify, DownloadFails, Describe, RecordRow, RecordRaw, Tell, RestartWorker
  <2> QED
    BY <2>3, <2>4, <2>5, <2>6, <2>7
<1> QED
  BY <1>1, <1>2, <1>3

LEMMA MarkInvariant == Spec => []MarkInv
<1>1. Init => MarkInv
  <2> SUFFICES ASSUME Init PROVE MarkInv
    OBVIOUS
  <2>1. TypeOK
    BY ScreeningAssumption, BlankNotes DEF Init, TypeOK, Job, Inside, Running, Reading
  <2>2. Convinced /\ ToldIsMarked /\ SnapshotMarked
    BY DEF Init, Convinced, ToldIsMarked, SnapshotMarked
  <2> QED
    BY <2>1, <2>2 DEF MarkInv
<1>2. MarkInv /\ [Next]_vars => MarkInv'
  BY TypeStep, ConvincedStep, ToldStep, SnapshotStep DEF MarkInv
<1> QED
  BY <1>1, <1>2, PTL DEF Spec

\* ToldIsMarked: whatever was screened twice, timed out or was restarted, an
\* image the user was told about stays marked in the table the gate reads.
THEOREM ToldMarked == Spec => []ToldIsMarked
<1>1. MarkInv => ToldIsMarked
  BY DEF MarkInv
<1> QED
  BY <1>1, MarkInvariant, PTL

\* BatchKeepsPromise: a demo batch that reads the table after the user was told
\* does not show the image to Vision.
THEOREM BatchPromise == Spec => BatchKeepsPromise
<1> DEFINE Kept == \A r \in Reader : stage[r] = "gate" => analysed'[r] \cap (promised[r] \ unnoted) = {}
<1>1. MarkInv /\ [Next]_vars => [Kept]_vars
  <2> SUFFICES ASSUME MarkInv, Next,
                      NEW r \in Reader, stage[r] = "gate",
                      NEW f \in analysed'[r] \cap (promised[r] \ unnoted)
               PROVE  FALSE
    OBVIOUS
  <2>1. /\ analysed \in [Reader -> SUBSET File] /\ notes \in [Reader -> [File -> Note]]
        /\ analysed[r] = {}
        /\ \A g \in ToSet(files[r]) \cap (promised[r] \ unnoted) : Marked(notes[r][g])
    BY DEF MarkInv, TypeOK, SnapshotMarked
  <2>2. ASSUME NEW inline \in [File -> Category], Gate(r, inline) PROVE FALSE
    <3>1. /\ f \in ToSet(files[r])
          /\ IF Cached(notes[r][f]) THEN Included(notes[r][f]) ELSE inline[f] \in ALLOWED_FOR_DEMO
      BY <2>1, <2>2 DEF Gate, Finish
    <3>2. Marked(notes[r][f])
      BY <2>1, <3>1
    <3> QED
      BY <3>1, <3>2 DEF Cached, Included, Marked
  <2>3. \/ UNCHANGED analysed
        \/ \E s \in Reader : ReaderStep(s)
    BY DEF Next, Hand, JobStep, readVars, Store, enqueue_preprocess, Take, TimeOut, Acquire, Classify,
           DownloadFails, Describe, RecordRow, RecordRaw, Tell, RestartWorker, RestartWeb
  <2>4. ASSUME NEW s \in Reader, ReaderStep(s), s # r PROVE analysed'[r] = analysed[r]
    BY <2>1, <2>4 DEF ReaderStep, StartBatch, Gate, StartRun, Segment, Resume, Reanalyse, Read, Finish
  <2>5. ASSUME ReaderStep(r) PROVE \E inline \in [File -> Category] : Gate(r, inline)
    BY <2>5 DEF ReaderStep, StartBatch, StartRun, Segment, Resume, Reanalyse
  <2> QED
    BY <2>1, <2>2, <2>3, <2>4, <2>5
<1>2. BatchKeepsPromise <=> [][Kept]_vars
  BY DEF BatchKeepsPromise
<1> QED
  BY <1>1, <1>2, MarkInvariant, PTL DEF Spec

-----------------------------------------------------------------------------
(***************************************************************************)
(* The semaphore.                                                          *)
(***************************************************************************)
\* The images whose job in Redis holds a slot.
Holders == {f \in File : job[<<f, "redis">>] \in Inside}

Balance ==
    /\ slots \in Nat
    /\ IsFiniteSet(Holders) /\ slots + Cardinality(Holders) = Slots

LEMMA BalanceKept ==
  ASSUME Balance, slots' = slots, Holders' = Holders
  PROVE  Balance'
  BY DEF Balance

\* A job that is given a stage inside the block moves no slot; others do not move.
LEMMA InsideKept ==
  ASSUME TypeOK, Balance, slots' = slots, NEW j \in Job, NEW where,
         job' = [job EXCEPT ![j] = where], j[2] = "redis" => (job[j] \in Inside <=> where \in Inside)
  PROVE  Balance'
<1>1. Holders' = Holders
  BY DEF Holders, TypeOK, Job
<1> QED
  BY <1>1, BalanceKept

\* The semaphore is taken by a job that did not hold it.
LEMMA SlotTaken ==
  ASSUME TypeOK, Balance, NEW f \in File, job[<<f, "redis">>] \notin Inside, slots > 0, slots' = slots - 1,
         NEW where \in Inside, job' = [job EXCEPT ![<<f, "redis">>] = where]
  PROVE  Balance'
<1>1. f \notin Holders /\ Holders' = Holders \cup {f}
  BY DEF Holders, TypeOK, Job
<1>2. IsFiniteSet(Holders) /\ Cardinality(Holders) \in Nat
  BY FS_CardinalityType DEF Balance
<1>3. IsFiniteSet(Holders') /\ Cardinality(Holders') = Cardinality(Holders) + 1
  BY <1>1, <1>2, FS_AddElement
<1> QED
  BY <1>2, <1>3 DEF Balance

\* However a job ends, it gives back the slot it holds, and no other.
LEMMA SlotGiven ==
  ASSUME TypeOK, Balance, NEW j \in Job, Leave(j)
  PROVE  Balance'
<1>1. CASE j[2] = "redis" /\ job[j] \in Inside
  <2>1. PICK f \in File : j = <<f, "redis">>
    BY <1>1 DEF Job
  <2>2. f \in Holders /\ Holders' = Holders \ {f}
    BY <1>1, <2>1 DEF Leave, Holders, TypeOK, Job, Inside
  <2>3. IsFiniteSet(Holders) /\ Cardinality(Holders) \in Nat
    BY FS_CardinalityType DEF Balance
  <2>4. IsFiniteSet(Holders') /\ Cardinality(Holders') = Cardinality(Holders) - 1
    BY <2>2, <2>3, FS_RemoveElement
  <2>5. slots' = slots + 1
    BY <1>1 DEF Leave
  <2> QED
    BY <2>3, <2>4, <2>5 DEF Balance
<1>2. CASE ~(j[2] = "redis" /\ job[j] \in Inside)
  BY <1>2, InsideKept DEF Leave, Inside
<1> QED
  BY <1>1, <1>2

\* An image that waits for its handler, or has not come, has no job yet.
Fresh ==
    /\ pending \subseteq ToSet(stored)
    /\ \A f \in File : f \in pending \/ f \notin ToSet(stored) => job[<<f, "redis">>] = "none"

LEMMA FreshStep == TypeOK /\ Fresh /\ [Next]_vars => Fresh'
<1> SUFFICES ASSUME TypeOK, Fresh, [Next]_vars PROVE Fresh'
  OBVIOUS
<1> USE DEF TypeOK, Fresh, Job, Inside, Running
<1>0. ASSUME UNCHANGED <<stored, pending>>,
             \A f \in File : job[<<f, "redis">>] = "none" => job'[<<f, "redis">>] = "none"
      PROVE Fresh'
  BY <1>0
<1>1. ASSUME NEW f \in File, Store(f) PROVE Fresh'
  <2>1. ToSet(stored') = ToSet(stored) \cup {f}
    <3>1. stored \in Seq(File) /\ stored' = Append(stored, f)
      BY <1>1 DEF Store
    <3>2. /\ Len(stored) \in Nat /\ DOMAIN stored = 1..Len(stored)
          /\ DOMAIN stored' = 1..(Len(stored) + 1)
          /\ stored'[Len(stored) + 1] = f /\ \A i \in 1..Len(stored) : stored'[i] = stored[i]
      BY ONLY <3>1, <1>1, AppendProperties
    <3> QED
      BY ONLY <3>2 DEF ToSet
  <2> QED
    BY <1>1, <2>1 DEF Store
<1>2. ASSUME NEW f \in File, NEW ways \in SUBSET {"redis", "inline"}, enqueue_preprocess(f, ways) PROVE Fresh'
  BY <1>2 DEF enqueue_preprocess
<1>3. ASSUME NEW f \in File, Take(f) PROVE Fresh'
  BY <1>0, <1>3 DEF Take
<1>4. ASSUME NEW f \in File, TimeOut(f) PROVE Fresh'
  BY <1>0, <1>4 DEF TimeOut, Leave
<1>5. ASSUME NEW j \in Job, JobStep(j) PROVE Fresh'
  <2>1. UNCHANGED <<stored, pending>> /\ job[j] # "none" /\ \E s \in {"done"} \cup Inside : job' = [job EXCEPT ![j] = s]
    BY <1>5 DEF JobStep, Acquire, Classify, DownloadFails, Describe, RecordRow, RecordRaw, Tell, Leave, Goto
  <2> QED
    BY <1>0, <2>1
<1>6. ASSUME RestartWorker PROVE Fresh'
  BY <1>0, <1>6 DEF RestartWorker
<1>7. ASSUME RestartWeb PROVE Fresh'
  BY <1>7 DEF RestartWeb
<1>8. ASSUME NEW r \in Reader, ReaderStep(r) PROVE Fresh'
  BY <1>0, <1>8 DEF ReaderStep, StartBatch, Gate, StartRun, Segment, Resume, Reanalyse, jobVars
<1>9. ASSUME UNCHANGED vars PROVE Fresh'
  BY <1>9 DEF vars, jobVars
<1> QED
  BY <1>1, <1>2, <1>3, <1>4, <1>5, <1>6, <1>7, <1>8, <1>9 DEF Next, Hand

LEMMA BalanceStep == TypeOK /\ Fresh /\ Balance /\ [Next]_vars => Balance'
<1> SUFFICES ASSUME TypeOK, Fresh, Balance, [Next]_vars PROVE Balance'
  OBVIOUS
<1>0. ASSUME UNCHANGED <<job, slots>> PROVE Balance'
  BY <1>0, BalanceKept DEF Holders
<1>1. ASSUME NEW f \in File, Store(f) PROVE Balance'
  BY <1>0, <1>1 DEF Store
<1>2. ASSUME NEW f \in File, NEW ways \in SUBSET {"redis", "inline"}, enqueue_preprocess(f, ways) PROVE Balance'
  <2>1. job[<<f, "redis">>] \notin Inside
    BY <1>2 DEF enqueue_preprocess, Fresh, Inside
  <2>2. Holders' = Holders
    BY <1>2, <2>1 DEF enqueue_preprocess, Holders, TypeOK, Job, Inside
  <2> QED
    BY <1>2, <2>2, BalanceKept DEF enqueue_preprocess
<1>3. ASSUME NEW f \in File, Take(f) PROVE Balance'
  <2>1. <<f, "redis">> \in Job /\ job[<<f, "redis">>] \notin Inside /\ slots' = slots
    BY <1>3 DEF Take, Job, Inside
  <2>2. \E s \in {"started", "done"} : job' = [job EXCEPT ![<<f, "redis">>] = s]
    BY <1>3 DEF Take
  <2> QED
    BY <2>1, <2>2, InsideKept DEF Inside
<1>4. ASSUME NEW f \in File, TimeOut(f) PROVE Balance'
  BY <1>4, SlotGiven DEF TimeOut, Job
<1>5. ASSUME NEW j \in Job, NEW where \in Inside, job[j] \in Inside, Goto(j, where) PROVE Balance'
  BY <1>5, InsideKept DEF Goto
<1>6. ASSUME NEW j \in Job, Acquire(j) PROVE Balance'
  <2>1. CASE j[2] = "redis"
    <3>1. PICK f \in File : j = <<f, "redis">>
      BY <2>1 DEF Job
    <3> QED
      BY <1>6, <2>1, <3>1, SlotTaken DEF Acquire, Inside
  <2>2. CASE j[2] # "redis"
    BY <1>6, <2>2, InsideKept DEF Acquire
  <2> QED
    BY <2>1, <2>2
<1>7. ASSUME NEW j \in Job, NEW c \in Category, Classify(j, c) PROVE Balance'
  <2>1. \E s \in Inside : job' = [job EXCEPT ![j] = s]
    BY <1>7 DEF Classify, Inside
  <2> QED
    BY <1>7, <2>1, InsideKept DEF Classify, Inside
<1>8. ASSUME NEW j \in Job, DownloadFails(j) \/ (\E ok \in BOOLEAN : Tell(j, ok)) PROVE Balance'
  BY <1>8, SlotGiven DEF DownloadFails, Tell
<1>9. ASSUME NEW j \in Job, NEW ok \in BOOLEAN, Describe(j, ok) \/ RecordRow(j, ok) \/ RecordRaw(j, ok) PROVE Balance'
  BY <1>9, <1>5, SlotGiven DEF Describe, RecordRow, RecordRaw, Inside
<1>10. ASSUME RestartWorker PROVE Balance'
  <2>1. Holders' = {}
    BY <1>10 DEF RestartWorker, Holders, TypeOK, Job, Inside, Running
  <2>2. slots' = Slots
    BY <1>10 DEF RestartWorker
  <2> QED
    BY <2>1, <2>2, FS_EmptySet, ScreeningAssumption DEF Balance
<1>11. ASSUME RestartWeb PROVE Balance'
  <2>1. Holders' = Holders
    BY <1>11 DEF RestartWeb, Holders, TypeOK, Job
  <2> QED
    BY <1>11, <2>1, BalanceKept DEF RestartWeb
<1>12. ASSUME NEW r \in Reader, ReaderStep(r) PROVE Balance'
  BY <1>0, <1>12 DEF ReaderStep, StartBatch, Gate, StartRun, Segment, Resume, Reanalyse, jobVars
<1>13. ASSUME UNCHANGED vars PROVE Balance'
  BY <1>0, <1>13 DEF vars, jobVars
<1> QED
  BY <1>1, <1>2, <1>3, <1>4, <1>6, <1>7, <1>8, <1>9, <1>10, <1>11, <1>12, <1>13
     DEF Next, Hand, JobStep

\* What every state of the queue satisfies.
LEMMA QueueAlways == Spec => [](TypeOK /\ Fresh /\ Balance)
<1>1. Init => Fresh /\ Balance
  <2> SUFFICES ASSUME Init PROVE Fresh /\ Balance
    OBVIOUS
  <2>1. Fresh
    BY DEF Init, Fresh, Job, ToSet
  <2>2. Holders = {}
    BY DEF Init, Holders, Job, Inside
  <2>3. Balance
    BY <2>2, FS_EmptySet, ScreeningAssumption DEF Init, Balance
  <2> QED
    BY <2>1, <2>3
<1> QED
  BY <1>1, TypeCorrect, FreshStep, BalanceStep, PTL DEF Spec

\* SlotsBalance: for every number of images and slots, whichever way jobs end,
\* time out or are run again, the slots not free are those of the jobs inside
\* the block.
THEOREM SlotsBalanced == Spec => []SlotsBalance
<1>1. Balance => SlotsBalance
  BY DEF Balance, Holders, SlotsBalance
<1> QED
  BY <1>1, QueueAlways, PTL

-----------------------------------------------------------------------------
(***************************************************************************)
(* The queue drains: the worker always has something it can do, and a job  *)
(* has only so many steps, which no restart gives back.                    *)
(***************************************************************************)
RedisJob(f) == job[<<f, "redis">>]

\* The guards of Take, of Acquire, and of the calls inside the block.
MayBeTaken(f) == RedisJob(f) = "waiting" /\ Cardinality({g \in File : RedisJob(g) \in Running}) < Slots
MayEnter(f) == RedisJob(f) = "started" /\ slots > 0
IsInside(f) == RedisJob(f) \in Inside

WorkerGoesOn ==
    (\E f \in File : RedisJob(f) \in {"waiting"} \cup Running)
        => \E f \in File : MayBeTaken(f) \/ MayEnter(f) \/ IsInside(f)

\* The worker never stands still over its queue.  When nothing waits for an answer,
\* every slot is free; then a started job can take one, and when none is started
\* the queue starts the next.  So max_jobs and the semaphore, which count the same
\* jobs at different moments, cannot block each other after a timeout or a restart.
THEOREM WorkerNeverBlocks == Spec => []WorkerGoesOn
<1>1. ASSUME TypeOK, Balance, NEW f \in File, RedisJob(f) \in {"waiting"} \cup Running,
             ~ \E g \in File : IsInside(g)
      PROVE  \E g \in File : MayBeTaken(g) \/ MayEnter(g)
  <2>1. slots > 0
    <3>1. Holders = {}
      BY <1>1 DEF Holders, IsInside, RedisJob
    <3> QED
      BY <1>1, <3>1, FS_EmptySet, ScreeningAssumption DEF Balance
  <2>2. CASE \E g \in File : RedisJob(g) = "started"
    BY <2>1, <2>2 DEF MayEnter
  <2>3. CASE ~ \E g \in File : RedisJob(g) = "started"
    <3>1. {g \in File : RedisJob(g) \in Running} = {}
      BY <1>1, <2>3 DEF IsInside, Running
    <3>2. RedisJob(f) = "waiting" /\ 0 < Slots
      BY <1>1, <2>3, ScreeningAssumption DEF IsInside, Running
    <3> QED
      BY <3>1, <3>2, FS_EmptySet DEF MayBeTaken
  <2> QED
    BY <2>2, <2>3
<1>2. TypeOK /\ Balance => WorkerGoesOn
  BY <1>1 DEF WorkerGoesOn
<1> QED
  BY <1>2, QueueAlways, PTL

\* The steps a job has before it: those of the attempt it is in, and at most eight
\* for each attempt it may still be given.
StepsLeft(where, attempts) ==
    CASE where = "done" -> 0
      [] where = "waiting" -> 8 * attempts + 1
      [] where = "tell" -> 8 * attempts + 2
      [] where = "write" -> 8 * attempts + 3
      [] where = "note" -> 8 * attempts + 4
      [] where = "vision" -> 8 * attempts + 5
      [] where = "screen" -> 8 * attempts + 6
      [] where = "started" -> 8 * attempts + 7
      [] OTHER -> 8 * attempts + 8

Left(f) == StepsLeft(RedisJob(f), MaxTries - tries[f])

Unmoved(f) == job'[<<f, "redis">>] = job[<<f, "redis">>] /\ tries'[f] = tries[f]

LEMMA LeftIs ==
  ASSUME TypeOK, NEW f \in File
  PROVE  /\ MaxTries \in Nat /\ tries[f] \in 0..MaxTries
         /\ RedisJob(f) \in {"none", "waiting", "done"} \cup Running
         /\ Left(f) \in Nat
<1>1. MaxTries \in Nat /\ tries[f] \in 0..MaxTries
      /\ RedisJob(f) \in {"none", "waiting", "done"} \cup Running
  BY ScreeningAssumption DEF TypeOK, Job, RedisJob
<1>2. Left(f) \in Nat
  BY <1>1 DEF Left, StepsLeft, Running, Inside
<1> QED
  BY <1>1, <1>2

\* A job that goes on within its attempt, or ends, or waits for the next.
LEMMA GoesDown ==
  ASSUME TypeOK, NEW f \in File, tries'[f] = tries[f],
         \/ job'[<<f, "redis">>] = "done" /\ RedisJob(f) # "done"
         \/ job'[<<f, "redis">>] = "waiting" /\ RedisJob(f) \in {"none"} \cup Running
         \/ job'[<<f, "redis">>] = "screen" /\ RedisJob(f) = "started"
         \/ job'[<<f, "redis">>] = "vision" /\ RedisJob(f) = "screen"
         \/ job'[<<f, "redis">>] = "note" /\ RedisJob(f) \in {"screen", "vision"}
         \/ job'[<<f, "redis">>] = "write" /\ RedisJob(f) = "note"
         \/ job'[<<f, "redis">>] = "tell" /\ RedisJob(f) = "write"
  PROVE  Left(f)' < Left(f)
<1>1. MaxTries - tries[f] \in Nat /\ Left(f)' = StepsLeft(job'[<<f, "redis">>], MaxTries - tries[f])
  BY LeftIs DEF Left, RedisJob
<1> QED
  BY <1>1 DEF Left, StepsLeft, Running, Inside

\* The step of job j of one image is of that image's job alone.
LEMMA JobStepAdvances ==
  ASSUME TypeOK, NEW j \in Job, JobStep(j), NEW f \in File
  PROVE  IF j = <<f, "redis">> THEN Left(f)' < Left(f) ELSE Unmoved(f)
<1> USE DEF TypeOK, Job
<1>1. tries' = tries /\ \E w : job' = [job EXCEPT ![j] = w]
  BY DEF JobStep, Acquire, Classify, DownloadFails, Describe, RecordRow, RecordRaw, Tell, Leave, Goto
<1>2. CASE j # <<f, "redis">>
  BY <1>1, <1>2 DEF Unmoved
<1>3. CASE j = <<f, "redis">>
  <2>0. j[2] = "redis" /\ job[j] = RedisJob(f)
    BY <1>3 DEF RedisJob
  <2>1. CASE Acquire(j)
    BY <1>3, <2>0, <2>1, GoesDown DEF Acquire
  <2>2. ASSUME NEW c \in Category, Classify(j, c) PROVE Left(f)' < Left(f)
    BY <1>3, <2>0, <2>2, GoesDown DEF Classify
  <2>3. CASE DownloadFails(j)
    BY <1>3, <2>0, <2>3, GoesDown DEF DownloadFails, Leave
  <2>4. ASSUME NEW ok \in BOOLEAN, Describe(j, ok) PROVE Left(f)' < Left(f)
    BY <1>3, <2>0, <2>4, GoesDown DEF Describe, Leave, Goto
  <2>5. ASSUME NEW ok \in BOOLEAN, RecordRow(j, ok) PROVE Left(f)' < Left(f)
    BY <1>3, <2>0, <2>5, GoesDown DEF RecordRow, Goto
  <2>6. ASSUME NEW ok \in BOOLEAN, RecordRaw(j, ok) PROVE Left(f)' < Left(f)
    BY <1>3, <2>0, <2>6, GoesDown DEF RecordRaw, Leave, Goto
  <2>7. ASSUME NEW ok \in BOOLEAN, Tell(j, ok) PROVE Left(f)' < Left(f)
    BY <1>3, <2>0, <2>7, GoesDown DEF Tell, Leave
  <2> QED
    BY <1>3, <2>1, <2>2, <2>3, <2>4, <2>5, <2>6, <2>7 DEF JobStep
<1> QED
  BY <1>2, <1>3

\* So is the step that starts an attempt, or gives the job up when there is none left.
LEMMA TakeAdvances ==
  ASSUME TypeOK, NEW g \in File, Take(g), NEW f \in File
  PROVE  IF g = f THEN Left(f)' < Left(f) ELSE Unmoved(f)
<1> USE DEF TypeOK, Job
<1>1. CASE g # f
  BY <1>1 DEF Take, Unmoved
<1>2. CASE g = f /\ tries[f] < MaxTries
  <2>1. job'[<<f, "redis">>] = "started" /\ tries'[f] = tries[f] + 1 /\ RedisJob(f) = "waiting"
    BY <1>2 DEF Take, RedisJob
  <2>2. Left(f)' = 8 * (MaxTries - (tries[f] + 1)) + 7 /\ Left(f) = 8 * (MaxTries - tries[f]) + 1
    BY <2>1 DEF Left, StepsLeft, RedisJob
  <2> QED
    BY <1>2, <2>2, LeftIs
<1>3. CASE g = f /\ ~(tries[f] < MaxTries)
  BY <1>3, GoesDown DEF Take, RedisJob
<1> QED
  BY <1>1, <1>2, <1>3

LEMMA NextAdvances ==
  ASSUME TypeOK, Fresh, [Next]_vars, NEW f \in File
  PROVE  Unmoved(f) \/ Left(f)' < Left(f)
<1> USE DEF TypeOK, Job
<1>0. ASSUME UNCHANGED <<job, tries>> PROVE Unmoved(f)
  BY <1>0 DEF Unmoved
<1>1. ASSUME NEW g \in File, Store(g) PROVE Unmoved(f)
  BY <1>0, <1>1 DEF Store
<1>2. ASSUME NEW g \in File, NEW ways \in SUBSET {"redis", "inline"}, enqueue_preprocess(g, ways)
      PROVE  Unmoved(f) \/ Left(f)' < Left(f)
  <2>1. CASE g = f /\ "redis" \in ways
    BY <1>2, <2>1, GoesDown DEF enqueue_preprocess, Fresh, RedisJob
  <2>2. CASE ~(g = f /\ "redis" \in ways)
    BY <1>2, <2>2 DEF enqueue_preprocess, Unmoved
  <2> QED
    BY <2>1, <2>2
<1>3. ASSUME NEW g \in File, TimeOut(g) PROVE Unmoved(f) \/ Left(f)' < Left(f)
  <2>1. CASE g = f
    BY <1>3, <2>1, GoesDown DEF TimeOut, Leave, RedisJob, Running, Inside
  <2>2. CASE g # f
    BY <1>3, <2>2 DEF TimeOut, Leave, Unmoved
  <2> QED
    BY <2>1, <2>2
<1>4. ASSUME RestartWorker PROVE Unmoved(f) \/ Left(f)' < Left(f)
  <2>1. CASE RedisJob(f) \in Running
    BY <1>4, <2>1, GoesDown DEF RestartWorker, RedisJob
  <2>2. CASE RedisJob(f) \notin Running
    BY <1>4, <2>2 DEF RestartWorker, RedisJob, Unmoved
  <2> QED
    BY <2>1, <2>2
<1>5. ASSUME RestartWeb PROVE Unmoved(f)
  BY <1>5 DEF RestartWeb, Unmoved
<1>6. ASSUME NEW r \in Reader, ReaderStep(r) PROVE Unmoved(f)
  BY <1>0, <1>6 DEF ReaderStep, StartBatch, Gate, StartRun, Segment, Resume, Reanalyse, jobVars
<1>7. ASSUME UNCHANGED vars PROVE Unmoved(f)
  BY <1>0, <1>7 DEF vars, jobVars
<1> QED
  BY <1>1, <1>2, <1>3, <1>4, <1>5, <1>6, <1>7, JobStepAdvances, TakeAdvances DEF Next, Hand

JobsOnlyAdvance ==
    [][/\ \A f \in File : Unmoved(f) \/ Left(f)' < Left(f)
       /\ WorkerStep => \E f \in File : Left(f)' < Left(f)]_vars

\* No step of anyone, not even a restart, gives a job back a step it has taken: the
\* attempt that a restart throws away was counted before it began.  Each step of the
\* worker takes one from a job's account.  With WorkerNeverBlocks this is QueueDrains
\* but for the fairness that makes the worker go on.
THEOREM JobsAdvance == Spec => JobsOnlyAdvance
<1>1. ASSUME TypeOK, Fresh, [Next]_vars
      PROVE  /\ \A f \in File : Unmoved(f) \/ Left(f)' < Left(f)
             /\ WorkerStep => \E f \in File : Left(f)' < Left(f)
  <2>1. ASSUME WorkerStep PROVE \E f \in File : Left(f)' < Left(f)
    <3>1. PICK f \in File : Take(f) \/ JobStep(<<f, "redis">>)
      BY <2>1 DEF WorkerStep
    <3>2. <<f, "redis">> \in Job
      BY DEF Job
    <3> QED
      BY <1>1, <3>1, <3>2, TakeAdvances, JobStepAdvances
  <2> QED
    BY <1>1, <2>1, NextAdvances
<1> QED
  BY <1>1, QueueAlways, PTL DEF Spec, JobsOnlyAdvance
=============================================================================
