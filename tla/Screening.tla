------------------------------ MODULE Screening ------------------------------
(***************************************************************************)
(* What happens to an image between its storage and its analysis: the job  *)
(* queue (worker.py), the screening of each image (preprocessor.py,        *)
(* content_safety.py), and the two readers of its verdict: the demo batch  *)
(* with its content gate (content_gate.py, demo_analyzer.py) and the field *)
(* pipeline (segmenter.py, resume_after_clarification in pipeline.py).     *)
(*                                                                         *)
(* An image may be screened more than once (a call to Redis that failed    *)
(* after Redis took the job, a worker that restarts), each time with       *)
(* another answer of the model, while readers come at any moment.  How an  *)
(* image gets into its two copies, session_files and raw_files, is opened  *)
(* up in SessionStore.                                                     *)
(***************************************************************************)
EXTENDS Naturals, Sequences, FiniteSets, SequencesExt

CONSTANTS
    File,       \* images of the session
    Reader,     \* demo batches and pipeline runs
    Category,   \* answers of the classifier told apart
    Slots,      \* MAX_CONCURRENT, and max_jobs
    MaxTries,   \* max_tries of the queue
    Cap,        \* demo_max_images_per_batch
    MaxFaults   \* failed calls, UPDATEs without a row, timeouts and restarts

Blocking == {"NSFW"}
Personal == {"PERSONAL", "CONFIDENTIAL"}
ALLOWED_FOR_DEMO == {"BUSINESS", "UNCLEAR"}

ASSUME ScreeningAssumption ==
    /\ Category \subseteq Blocking \cup Personal \cup ALLOWED_FOR_DEMO
    /\ "UNCLEAR" \in Category
    /\ Slots \in Nat \ {0} /\ MaxTries \in Nat \ {0} /\ Cap \in Nat \ {0}
    /\ MaxFaults \in Nat

VARIABLES
    stored,     \* the session's images, oldest first
    pending,    \* those whose handler has yet to hand them to the queue
    job,        \* where the job in Redis and the task in the web process stand
    verdict,    \* what the classifier answered to each
    tries,      \* job_try of each job in Redis
    slots,      \* value of the worker's semaphore
    row, raw,   \* annotations in session_files; in sessions.raw_files
    copy,       \* raw_files as each job or task has read it, to write it back
    told,       \* images the user was told will not be included
    stage,      \* where each reader stands
    files,      \* the images it read
    notes,      \* and their annotations
    analysed,   \* images it has sent to Vision in this reading
    promised,   \* history: what the user had been told when it began reading;
                \* nothing, of a batch that had to use raw_files
    unnoted,    \* history: images with an annotation that is not in session_files
    faults

jobVars == <<pending, job, verdict, tries, slots>>
noteVars == <<row, raw, copy, unnoted>>
readVars == <<stage, files, notes, analysed, promised>>
vars == <<stored, jobVars, noteVars, told, readVars, faults>>

Job == File \X {"redis", "inline"}
NoVerdict == "none"

Inside == {"screen", "vision", "note", "write", "tell"}
Running == {"started"} \cup Inside
Reading == {"gate", "segment", "reanalyse"}

Note == [category : Category \cup {NoVerdict}, blocked : BOOLEAN,
         flagged : BOOLEAN, described : BOOLEAN]
Blank == [category |-> NoVerdict, blocked |-> FALSE, flagged |-> FALSE, described |-> FALSE]
Unread == [f \in File |-> Blank]

TypeOK ==
    /\ stored \in Seq(File)
    /\ pending \subseteq File
    /\ job \in [Job -> {"none", "waiting", "done"} \cup Running]
    /\ verdict \in [Job -> Category \cup {NoVerdict}]
    /\ \A j \in Job : job[j] \in Inside \ {"screen"} => verdict[j] \in Category
    /\ tries \in [File -> 0..MaxTries]
    /\ slots \in Nat
    /\ row \in [File -> Note] /\ raw \in [File -> Note]
    /\ copy \in [Job -> [File -> Note]]
    /\ told \subseteq File /\ unnoted \subseteq File
    /\ stage \in [Reader -> {"idle", "asked", "ended"} \cup Reading]
    /\ files \in [Reader -> Seq(File)]
    /\ notes \in [Reader -> [File -> Note]]
    /\ analysed \in [Reader -> SUBSET File]
    /\ promised \in [Reader -> SUBSET File]
    /\ faults \in 0..MaxFaults

Init ==
    /\ stored = <<>> /\ pending = {}
    /\ job = [j \in Job |-> "none"]
    /\ verdict = [j \in Job |-> NoVerdict]
    /\ tries = [f \in File |-> 0]
    /\ slots = Slots
    /\ row = Unread /\ raw = Unread
    /\ copy = [j \in Job |-> Unread]
    /\ told = {} /\ unnoted = {}
    /\ stage = [r \in Reader |-> "idle"]
    /\ files = [r \in Reader |-> <<>>]
    /\ notes = [r \in Reader |-> Unread]
    /\ analysed = [r \in Reader |-> {}]
    /\ promised = [r \in Reader |-> {}]
    /\ faults = 0

Fault == faults < MaxFaults /\ faults' = faults + 1

\* A call returns, or it fails.
Outcome(ok) == IF ok THEN UNCHANGED faults ELSE Fault

(***************************************************************************)
(* The webhook stores an image and hands it to the queue.                  *)
(***************************************************************************)
Store(f) ==
    /\ f \notin ToSet(stored)
    /\ stored' = Append(stored, f)
    /\ pending' = pending \cup {f}
    /\ UNCHANGED <<job, verdict, tries, slots, noteVars, told, readVars, faults>>

\* enqueue_preprocess: to Redis; to a task of this process when there is no
\* pool or the call failed; to both when it failed after Redis took it.
enqueue_preprocess(f, ways) ==
    /\ f \in pending
    /\ pending' = pending \ {f}
    /\ job' = [j \in Job |-> IF j[1] = f /\ j[2] \in ways THEN "waiting" ELSE job[j]]
    /\ Outcome(ways # {"redis", "inline"})
    /\ UNCHANGED <<stored, verdict, tries, slots, noteVars, told, readVars>>

(***************************************************************************)
(* The worker.                                                             *)
(***************************************************************************)
\* The queue starts at most max_jobs jobs, each at most max_tries times.
Take(f) ==
    /\ job[<<f, "redis">>] = "waiting"
    /\ Cardinality({g \in File : job[<<g, "redis">>] \in Running}) < Slots
    /\ IF tries[f] < MaxTries
       THEN /\ tries' = [tries EXCEPT ![f] = @ + 1]
            /\ job' = [job EXCEPT ![<<f, "redis">>] = "started"]
       ELSE /\ job' = [job EXCEPT ![<<f, "redis">>] = "done"]
            /\ UNCHANGED tries
    /\ UNCHANGED <<stored, pending, verdict, slots, noteVars, told, readVars, faults>>

\* async with _semaphore, in process_file; an inline task takes no slot.
Acquire(j) ==
    /\ \/ j[2] = "redis" /\ job[j] = "started" /\ slots > 0 /\ slots' = slots - 1
       \/ j[2] = "inline" /\ job[j] = "waiting" /\ UNCHANGED slots
    /\ job' = [job EXCEPT ![j] = "screen"]
    /\ UNCHANGED <<stored, pending, verdict, tries, noteVars, told, readVars, faults>>

\* Mutant of Leave: the slot comes back only when preprocess_file returns.
LeaveKeepingSlot(j) ==
    /\ job' = [job EXCEPT ![j] = "done"]
    /\ verdict' = [verdict EXCEPT ![j] = NoVerdict]
    /\ UNCHANGED slots

\* Mutant of Leave: a slot is given back that the job had not taken yet.
LeaveReleasing(j) ==
    /\ job' = [job EXCEPT ![j] = "done"]
    /\ verdict' = [verdict EXCEPT ![j] = NoVerdict]
    /\ slots' = IF j[2] = "redis" THEN slots + 1 ELSE slots

\* The block ends, by a return or by an exception: the slot is released.
Leave(j) ==
    /\ job' = [job EXCEPT ![j] = "done"]
    /\ verdict' = [verdict EXCEPT ![j] = NoVerdict]
    /\ slots' = IF j[2] = "redis" /\ job[j] \in Inside THEN slots + 1 ELSE slots

Goto(j, where) == job' = [job EXCEPT ![j] = where] /\ UNCHANGED <<verdict, slots>>

(***************************************************************************)
(* _preprocess_image.                                                      *)
(***************************************************************************)
\* Mutant of Classify: an answer that is no category is taken as it stands.
ClassifyUnchecked(j, c) ==
    /\ job[j] = "screen"
    /\ \E v \in {c, NoVerdict} :
          /\ verdict' = [verdict EXCEPT ![j] = v]
          /\ job' = [job EXCEPT ![j] = IF v \in ALLOWED_FOR_DEMO THEN "vision" ELSE "note"]
    /\ UNCHANGED <<slots, stored, pending, tries, noteVars, told, readVars, faults>>

\* classify_image never raises: its own failure reads "UNCLEAR".
Classify(j, c) ==
    /\ job[j] = "screen"
    /\ verdict' = [verdict EXCEPT ![j] = c]
    /\ job' = [job EXCEPT ![j] = IF c \in ALLOWED_FOR_DEMO THEN "vision" ELSE "note"]
    /\ UNCHANGED <<slots, stored, pending, tries, noteVars, told, readVars, faults>>

\* The download for the classification fails: nothing is recorded.
DownloadFails(j) ==
    /\ job[j] = "screen"
    /\ Fault
    /\ Leave(j)
    /\ UNCHANGED <<stored, pending, tries, noteVars, told, readVars>>

\* Vision answers, or gives "[Error ...": then nothing is recorded, not even
\* the category.
Describe(j, ok) ==
    /\ job[j] = "vision"
    /\ IF ok THEN Goto(j, "note") ELSE Leave(j)
    /\ UNCHANGED <<stored, pending, tries, noteVars, told, readVars, faults>>

\* Mutant of Annotated: the entry is replaced, not merged.
Replaced(n, c) ==
    [category |-> c, blocked |-> c \in Blocking, flagged |-> c \in Personal, described |-> TRUE]

\* The updates are merged into what an earlier screening left.
Annotated(n, c) ==
    [category |-> c,
     blocked |-> n.blocked \/ c \in Blocking,
     flagged |-> n.flagged \/ c \in Personal,
     described |-> TRUE]

\* update_file_in_session: the annotation gets into session_files, or it does
\* not and nobody is told: the call failed, which is swallowed, or its UPDATE
\* matched no row (the image's was not inserted, is in another session, or has
\* been wiped), which is no error.  The array is read to be updated.
RecordRow(j, ok) ==
    /\ job[j] = "note"
    /\ Outcome(ok)
    /\ row' = IF ok THEN [row EXCEPT ![j[1]] = Annotated(@, verdict[j])] ELSE row
    /\ unnoted' = IF ok THEN unnoted ELSE unnoted \cup {j[1]}
    /\ copy' = [copy EXCEPT ![j] = raw]
    /\ Goto(j, "write")
    /\ UNCHANGED <<stored, pending, tries, raw, told, readVars>>

\* raw_files is written back whole; an error of the fallback too is raised.
RecordRaw(j, ok) ==
    /\ job[j] = "write"
    /\ Outcome(ok)
    /\ raw' = IF ok THEN [copy[j] EXCEPT ![j[1]] = Annotated(@, verdict[j])] ELSE raw
    /\ copy' = [copy EXCEPT ![j] = Unread]
    /\ IF ok /\ verdict[j] \notin ALLOWED_FOR_DEMO THEN Goto(j, "tell") ELSE Leave(j)
    /\ UNCHANGED <<stored, pending, tries, row, unnoted, told, readVars>>

\* _notify_content_issue: "No sera incluida en el analisis."
Tell(j, ok) ==
    /\ job[j] = "tell"
    /\ Outcome(ok)
    /\ told' = IF ok THEN told \cup {j[1]} ELSE told
    /\ Leave(j)
    /\ UNCHANGED <<stored, pending, tries, noteVars, readVars>>

(***************************************************************************)
(* job_timeout and restarts.                                               *)
(***************************************************************************)
\* The job is cancelled where it stands, for good.  (A database call it was
\* waiting for goes on in its thread: as if the timeout had come after it.)
TimeOut(f) ==
    /\ job[<<f, "redis">>] \in Running
    /\ Fault
    /\ copy' = [copy EXCEPT ![<<f, "redis">>] = Unread]
    /\ Leave(<<f, "redis">>)
    /\ UNCHANGED <<stored, pending, tries, row, raw, unnoted, told, readVars>>

\* Jobs that were running are run again.
RestartWorker ==
    /\ Fault
    /\ job' = [j \in Job |-> IF j[2] = "redis" /\ job[j] \in Running THEN "waiting" ELSE job[j]]
    /\ slots' = Slots
    /\ copy' = [j \in Job |-> IF j[2] = "redis" THEN Unread ELSE copy[j]]
    /\ verdict' = [j \in Job |-> IF j[2] = "redis" THEN NoVerdict ELSE verdict[j]]
    /\ UNCHANGED <<stored, pending, tries, row, raw, unnoted, told, readVars>>

\* Handlers, inline tasks and readers are gone.
RestartWeb ==
    /\ Fault
    /\ pending' = {}
    /\ job' = [j \in Job |-> IF j[2] = "inline" /\ job[j] # "none" THEN "done" ELSE job[j]]
    /\ copy' = [j \in Job |-> IF j[2] = "inline" THEN Unread ELSE copy[j]]
    /\ stage' = [r \in Reader |-> IF stage[r] \in Reading THEN "ended" ELSE stage[r]]
    /\ verdict' = [j \in Job |-> IF j[2] = "inline" THEN NoVerdict ELSE verdict[j]]
    /\ UNCHANGED <<stored, tries, slots, row, raw, unnoted, told, files, notes, analysed, promised>>

(***************************************************************************)
(* Readers.                                                                *)
(***************************************************************************)
Read(r, fs, annotations, promise, next) ==
    /\ files' = [files EXCEPT ![r] = fs]
    /\ notes' = [notes EXCEPT ![r] = [f \in File |-> IF f \in ToSet(fs) THEN annotations[f] ELSE Blank]]
    /\ promised' = [promised EXCEPT ![r] = promise]
    /\ analysed' = [analysed EXCEPT ![r] = {}]
    /\ stage' = [stage EXCEPT ![r] = next]

\* The reading ends with these images shown to Vision.
Finish(r, images, next) ==
    /\ analysed' = [analysed EXCEPT ![r] = images]
    /\ files' = IF next = "asked" THEN files ELSE [files EXCEPT ![r] = <<>>]
    /\ notes' = [notes EXCEPT ![r] = Unread]
    /\ promised' = [promised EXCEPT ![r] = {}]
    /\ stage' = [stage EXCEPT ![r] = next]

MostRecent(fs, n) == SubSeq(fs, IF Len(fs) > n THEN Len(fs) - n + 1 ELSE 1, Len(fs))

\* _run_demo_batch_safe: get_session_files, which reads raw_files when the
\* table cannot be read; then the cap.  (Images without a row, which the table
\* does not give, are left in the list.)
StartBatch(r, ok) ==
    /\ stage[r] = "idle"
    /\ Outcome(ok)
    /\ Read(r, MostRecent(stored, Cap), IF ok THEN row ELSE raw, IF ok THEN told ELSE {},
            IF stored = <<>> THEN "ended" ELSE "gate")
    /\ UNCHANGED <<stored, jobVars, noteVars, told>>

Cached(n) == n.category # NoVerdict \/ n.blocked

\* As the code is parsed: (cat or NSFW) if blocked else UNCLEAR.
CachedCategory(n) == IF n.blocked THEN n.category ELSE "UNCLEAR"

\* Mutant of Included: the flag is not looked at.
IncludedByCategory(n) == ~n.blocked /\ CachedCategory(n) \in ALLOWED_FOR_DEMO

Included(n) == ~n.blocked /\ CachedCategory(n) \in ALLOWED_FOR_DEMO /\ ~n.flagged

\* classify_session_images: a cached verdict, or an inline one; the decision
\* is "refuse" when nothing is allowed.  Vision then sees what is allowed.
Gate(r, inline) ==
    LET n == notes[r]
        allowed == {f \in ToSet(files[r]) :
                       IF Cached(n[f]) THEN Included(n[f]) ELSE inline[f] \in ALLOWED_FOR_DEMO}
    IN /\ stage[r] = "gate"
       /\ Finish(r, allowed, "ended")
       /\ UNCHANGED <<stored, jobVars, noteVars, told, faults>>

\* process_session reads the session's row.
StartRun(r) ==
    /\ stage[r] = "idle"
    /\ Read(r, stored, raw, told, IF stored = <<>> THEN "ended" ELSE "segment")
    /\ UNCHANGED <<stored, jobVars, noteVars, told, faults>>

\* segment_session describes what has no description yet, screened or not.
Segment(r, asks) ==
    /\ stage[r] = "segment"
    /\ Finish(r, {f \in ToSet(files[r]) : ~notes[r][f].described}, IF asks THEN "asked" ELSE "ended")
    /\ UNCHANGED <<stored, jobVars, noteVars, told, faults>>

\* resume_after_clarification reads the row again, the visits from segments.
Resume(r) ==
    /\ stage[r] = "asked"
    /\ Read(r, files[r], raw, told, "reanalyse")
    /\ UNCHANGED <<stored, jobVars, noteVars, told, faults>>

\* The images of the visits are described anew, with no look at their notes.
Reanalyse(r, visits) ==
    /\ stage[r] = "reanalyse"
    /\ visits \subseteq ToSet(files[r])
    /\ Finish(r, visits, "ended")
    /\ UNCHANGED <<stored, jobVars, noteVars, told, faults>>

JobStep(j) ==
    \/ Acquire(j)
    \/ \E c \in Category : Classify(j, c)
    \/ DownloadFails(j)
    \/ \E ok \in BOOLEAN : Describe(j, ok)
    \/ \E ok \in BOOLEAN : RecordRow(j, ok) \/ RecordRaw(j, ok)
    \/ \E ok \in BOOLEAN : Tell(j, ok)

Hand(f) == \E ways \in {{"redis"}, {"inline"}, {"redis", "inline"}} : enqueue_preprocess(f, ways)

ReaderStep(r) ==
    \/ \E ok \in BOOLEAN : StartBatch(r, ok)
    \/ \E inline \in [File -> Category] : Gate(r, inline)
    \/ StartRun(r)
    \/ \E asks \in BOOLEAN : Segment(r, asks)
    \/ Resume(r)
    \/ \E visits \in SUBSET File : Reanalyse(r, visits)

Next ==
    \/ \E f \in File : Store(f) \/ Hand(f) \/ Take(f) \/ TimeOut(f)
    \/ \E j \in Job : JobStep(j)
    \/ RestartWorker \/ RestartWeb
    \/ \E r \in Reader : ReaderStep(r)

WorkerStep == \E f \in File : Take(f) \/ JobStep(<<f, "redis">>)

\* The worker polls its queue, and every call it makes returns or fails.
Fairness == WF_vars(WorkerStep)

Spec == Init /\ [][Next]_vars
FairSpec == Spec /\ Fairness

-----------------------------------------------------------------------------
(***************************************************************************)
(* Properties.                                                             *)
(***************************************************************************)
Marked(n) == n.category # NoVerdict /\ (n.blocked \/ n.flagged)

\* What the user was told stands in the table the gate reads: neither a
\* second screening with another answer, nor a timeout or a restart between
\* two calls takes the mark away, since update_file_in_session merges; except
\* where an annotation did not get into session_files.
ToldIsMarked == \A f \in told \ unnoted : Marked(row[f])

\* "No sera incluida en el analisis": a demo batch that reads the table after
\* the user was told so does not show the image to Vision, however often and
\* with whatever answers the image was screened, before or meanwhile.
BatchKeepsPromise ==
    [][\A r \in Reader : stage[r] = "gate" => analysed'[r] \cap (promised[r] \ unnoted) = {}]_vars

\* The semaphore is neither leaked nor released twice, whichever way jobs end.
SlotsBalance ==
    slots + Cardinality({f \in File : job[<<f, "redis">>] \in Inside}) = Slots

\* "If the queue fills up, files wait and get processed": whatever fails or is
\* restarted, there comes a time again at which every job handed to the queue
\* has come to its end.
QueueDrains == []<>(\A f \in File : job[<<f, "redis">>] \in {"none", "done"})

\* "No sera incluida en el analisis", of every reading that begins after.
ToldStaysOut ==
    [][\A r \in Reader : stage[r] \in Reading => analysed'[r] \cap promised[r] = {}]_vars
=============================================================================
