----------------------------- MODULE BatchAnalysis -----------------------------
(***************************************************************************)
(* How a demo batch is analysed (demo_analyzer.py): the caps on the files  *)
(* read, the gate on the images, the videos one after the other, then one  *)
(* call per picture and recording in parallel (vision.py, transcriber.py)  *)
(* under the semaphore all AI calls share (ai_semaphore.py), and the       *)
(* synthesis of what came back.                                            *)
(*                                                                         *)
(* asyncio.gather returns results by position: which picture a text is     *)
(* about is known only by arithmetic on positions, over lists that the     *)
(* caps, the gate and the videos without a frame have made shorter, and    *)
(* that the gate has reordered.                                            *)
(***************************************************************************)
EXTENDS Integers, Sequences, FiniteSets, SequencesExt

CONSTANTS
    File,        \* entries of the sessions' lists of files
    Kind,        \* type of each
    Batch,       \* batches under way at the same time
    Inbox,       \* what each batch may find in its session, oldest first
    Configured,  \* demo_max_*_per_batch of its project
    Tiered,      \* batches of implementations that try Haiku first
    Slots,       \* MAX_CONCURRENT_AI
    Retries      \* max_retries of a call to Vision

Media == {"image", "video", "audio"}

\* Whatever object it names, each entry of a list is a file of its own: the code
\* never looks one up, and tells them apart by their place.
ASSUME BatchAssumption ==
    /\ Kind \in [File -> Media]
    /\ Inbox \in [Batch -> SUBSET Seq(File)]
    /\ \A b \in Batch : \A fs \in Inbox[b] : \A i, j \in DOMAIN fs : fs[i] = fs[j] => i = j
    /\ Configured \in [Batch -> [Media -> Int]]
    /\ Tiered \subseteq Batch
    /\ Slots \in Nat \ {0} /\ Retries \in Nat

NoText == "no text"     \* "[Error analizando imagen", an exception, or ""
Pending == "pending"

ASSUME NoFileAssumption == NoText \notin File /\ Pending \notin File

VARIABLES
    stage,      \* where each batch stands
    files,      \* what it read from the session
    images,     \* the images to analyse: capped, then those the gate allows
    videos,     \* the videos to analyse
    audios,     \* the recordings to transcribe
    seen,       \* how many videos are processed
    frames,     \* positions, in videos, of those that gave a frame
    task,       \* what asyncio.gather awaits, by position
    described,  \* descriptions for the synthesis: a label and what it is about
    reply,      \* what the batch answers
    excluded,   \* images the gate left out
    slots       \* value of the semaphore

own == <<stage, files, images, videos, audios, seen, frames, task, described, reply, excluded>>
vars == <<own, slots>>

Task == [of : File, at : {"download", "wait", "call", "transcribe", "done"},
         model : {"haiku", "sonnet"}, tries : 0..Retries,
         result : File \cup {NoText, Pending}]

Reply == {"none", "no_visual", "content_gate_refused", "all_visual_content_failed",
          "synthesis_failed", "report"}

TypeOK ==
    /\ stage \in [Batch -> {"idle", "gate", "videos", "gather", "synthesis", "writing", "ended"}]
    /\ files \in [Batch -> Seq(File)]
    /\ images \in [Batch -> Seq(File)]
    /\ videos \in [Batch -> Seq(File)]
    /\ audios \in [Batch -> Seq(File)]
    /\ seen \in [Batch -> Nat]
    /\ frames \in [Batch -> Seq(Nat)]
    /\ task \in [Batch -> Seq(Task)]
    /\ described \in [Batch -> SUBSET ([label : File, about : File])]
    /\ reply \in [Batch -> Reply]
    /\ excluded \in [Batch -> SUBSET File]
    /\ slots \in 0..Slots

Init ==
    /\ stage = [b \in Batch |-> "idle"]
    /\ files = [b \in Batch |-> <<>>]
    /\ images = [b \in Batch |-> <<>>]
    /\ videos = [b \in Batch |-> <<>>]
    /\ audios = [b \in Batch |-> <<>>]
    /\ seen = [b \in Batch |-> 0]
    /\ frames = [b \in Batch |-> <<>>]
    /\ task = [b \in Batch |-> <<>>]
    /\ described = [b \in Batch |-> {}]
    /\ reply = [b \in Batch |-> "none"]
    /\ excluded = [b \in Batch |-> {}]
    /\ slots = Slots

Enter(b, s) == stage' = [stage EXCEPT ![b] = s]

End(b, r) == Enter(b, "ended") /\ reply' = [reply EXCEPT ![b] = r]

(***************************************************************************)
(* Reading the session.                                                    *)
(***************************************************************************)
\* get_demo_caps: at least one image, and no less than none of the others.
Cap(b, kind) ==
    LET minimum == IF kind = "image" THEN 1 ELSE 0
    IN IF Configured[b][kind] < minimum THEN minimum ELSE Configured[b][kind]

\* Mutant of MostRecent: files[:n].
Oldest(fs, n) == IF Len(fs) > n /\ n > 0 THEN SubSeq(fs, 1, n) ELSE fs

\* files[-n:] when there are more than n; files[-0:] is all of them.
MostRecent(fs, n) ==
    IF Len(fs) > n /\ n > 0 THEN SubSeq(fs, Len(fs) - n + 1, Len(fs)) ELSE fs

\* [x for x in xs if ...]: element k is the one at the k-th smallest of the
\* positions.  SelectSeq says the same by a recursion over the list; here one
\* sees where each element comes from, which the proofs speak of.
Pick(xs, at) ==
    [k \in 1..Cardinality(at) |-> xs[CHOOSE i \in at : Cardinality({j \in at : j <= i}) = k]]

OfKind(fs, kind) == Pick(fs, {i \in 1..Len(fs) : Kind[fs[i]] = kind})
Kept(b, fs, kind) == MostRecent(OfKind(fs, kind), Cap(b, kind))

\* _run_demo_batch_safe reads the files; with no image and no video among
\* them the visitor is asked for some.
Read(b, fs) ==
    /\ stage[b] = "idle"
    /\ files' = [files EXCEPT ![b] = fs]
    /\ IF OfKind(fs, "image") = <<>> /\ OfKind(fs, "video") = <<>>
       THEN End(b, "no_visual") /\ UNCHANGED <<images, videos, audios>>
       ELSE /\ images' = [images EXCEPT ![b] = Kept(b, fs, "image")]
            /\ videos' = [videos EXCEPT ![b] = Kept(b, fs, "video")]
            /\ audios' = [audios EXCEPT ![b] = Kept(b, fs, "audio")]
            /\ Enter(b, "gate")
            /\ UNCHANGED reply
    /\ UNCHANGED <<seen, frames, task, described, excluded, slots>>

(***************************************************************************)
(* The gate.                                                               *)
(***************************************************************************)
\* Mutant of Gate: the refusal does not look for videos to fall back on.
GateRefusing(b, screened, allowed) ==
    /\ stage[b] = "gate"
    /\ excluded' = [excluded EXCEPT ![b] = ToSet(images[b]) \ allowed]
    /\ IF images[b] # <<>> /\ allowed = {}
       THEN End(b, "content_gate_refused")
       ELSE Enter(b, "videos") /\ UNCHANGED reply
    /\ images' = [images EXCEPT ![b] = Pick(@, {i \in 1..Len(@) : @[i] \in allowed})]
    /\ UNCHANGED <<files, videos, audios, seen, frames, task, described, slots>>

\* classify_session_images: verdicts on what was screened before come first,
\* then those of the inline calls, which never raise and take no slot.
Gate(b, screened, allowed) ==
    LET passed(fs) == Pick(images[b], {i \in 1..Len(images[b]) : images[b][i] \in fs})
        left == passed(screened \cap allowed) \o passed(allowed \ screened)
    IN /\ stage[b] = "gate"
       /\ excluded' = [excluded EXCEPT ![b] = ToSet(images[b]) \ allowed]
       /\ IF images[b] # <<>> /\ left = <<>> /\ videos[b] = <<>>
          THEN End(b, "content_gate_refused")
          ELSE Enter(b, "videos") /\ UNCHANGED reply
       /\ images' = [images EXCEPT ![b] = left]
       /\ UNCHANGED <<files, videos, audios, seen, frames, task, described, slots>>

(***************************************************************************)
(* Videos, one at a time.                                                  *)
(***************************************************************************)
\* process_video swallows its errors: the first frame, or nothing.  (Its
\* sound is transcribed beside; a transcript has no position to lose.)
ProcessVideo(b, framed) ==
    /\ stage[b] = "videos" /\ seen[b] < Len(videos[b])
    /\ seen' = [seen EXCEPT ![b] = @ + 1]
    /\ frames' = IF framed THEN [frames EXCEPT ![b] = Append(@, seen[b] + 1)] ELSE frames
    /\ UNCHANGED <<stage, files, images, videos, audios, task, described, reply, excluded, slots>>

(***************************************************************************)
(* The calls in parallel.                                                  *)
(***************************************************************************)
FirstModel(b) == IF b \in Tiered THEN "haiku" ELSE "sonnet"

Fresh(b, f, where) ==
    [of |-> f, at |-> where, model |-> FirstModel(b), tries |-> 0, result |-> Pending]

\* asyncio.gather(*storage_image_tasks, *frame_tasks, *audio_tasks).
Gather(b) ==
    LET n == Len(images[b])
        m == Len(frames[b])
    IN /\ stage[b] = "videos" /\ seen[b] = Len(videos[b])
       /\ task' = [task EXCEPT ![b] =
                     [i \in 1..(n + m + Len(audios[b])) |->
                        IF i <= n THEN Fresh(b, images[b][i], "download")
                        ELSE IF i <= n + m THEN Fresh(b, videos[b][frames[b][i - n]], "wait")
                        ELSE Fresh(b, audios[b][i - n - m], "transcribe")]]
       /\ Enter(b, "gather")
       /\ UNCHANGED <<files, images, videos, audios, seen, frames, described, reply, excluded, slots>>

\* A task goes on; nothing else of any batch moves.
Goes(b, i, t) ==
    /\ task' = [task EXCEPT ![b] = [@ EXCEPT ![i] = t]]
    /\ UNCHANGED <<stage, files, images, videos, audios, seen, frames, described, reply, excluded>>

At(b, i, where) == stage[b] = "gather" /\ i \in DOMAIN task[b] /\ task[b][i].at = where

Done(t, r) == [t EXCEPT !.at = "done", !.result = r]

\* analyze_from_storage raises when the download does.
Download(b, i, ok) ==
    /\ At(b, i, "download")
    /\ Goes(b, i, IF ok THEN [task[b][i] EXCEPT !.at = "wait"] ELSE Done(task[b][i], NoText))
    /\ UNCHANGED slots

\* async with get_ai_semaphore(), in _analyze_with_model.
Acquire(b, i) ==
    /\ At(b, i, "wait") /\ slots > 0
    /\ slots' = slots - 1
    /\ Goes(b, i, [task[b][i] EXCEPT !.at = "call"])

\* The call returns: the slot is given back before the answer is looked at,
\* before the pause and the next attempt, and before the next model.
Answer(b, i, t) ==
    /\ At(b, i, "call")
    /\ slots' = slots + 1
    /\ Goes(b, i, t)

Retry(t) == [t EXCEPT !.at = "wait", !.tries = @ + 1]
Escalate(t) == [t EXCEPT !.at = "wait", !.model = "sonnet", !.tries = 0]

\* A text; _analyze_tiered wants a long enough one of Haiku.
Text(b, i, shallow) ==
    LET t == task[b][i]
    IN Answer(b, i, IF shallow /\ t.model = "haiku" THEN Escalate(t) ELSE Done(t, t.of))

\* Mutant of CallFails: the slot comes back only when the call returns.
CallFailsKeepingSlot(b, i) ==
    LET t == task[b][i]
    IN /\ At(b, i, "call")
       /\ Goes(b, i, IF t.tries < Retries THEN Retry(t)
                     ELSE IF t.model = "haiku" THEN Escalate(t) ELSE Done(t, NoText))
       /\ UNCHANGED slots

\* An exception: again, until the attempts are used up.
CallFails(b, i) ==
    LET t == task[b][i]
    IN Answer(b, i, IF t.tries < Retries THEN Retry(t)
                    ELSE IF t.model = "haiku" THEN Escalate(t)
                    ELSE Done(t, NoText))

\* Mutant of Transcribe: it gives back a slot it has not taken.
TranscribeReleasing(b, i, ok) ==
    /\ At(b, i, "transcribe")
    /\ Goes(b, i, Done(task[b][i], IF ok THEN task[b][i].of ELSE NoText))
    /\ slots' = slots + 1

\* transcribe never raises; it takes no slot.
Transcribe(b, i, ok) ==
    /\ At(b, i, "transcribe")
    /\ Goes(b, i, Done(task[b][i], IF ok THEN task[b][i].of ELSE NoText))
    /\ UNCHANGED slots

(***************************************************************************)
(* The synthesis.                                                          *)
(***************************************************************************)
HasText(t) == t.result \in File

\* stored_results, labelled by the images they stand for.
OfPhotos(b) ==
    {[label |-> images[b][i], about |-> task[b][i].result] :
        i \in {j \in 1..Len(images[b]) : HasText(task[b][j])}}

\* Mutant of OfFrames: the frames are numbered, not the videos they come from.
OfFramesRenumbered(b) ==
    LET n == Len(images[b])
    IN {[label |-> videos[b][i], about |-> task[b][n + i].result] :
           i \in {j \in 1..Len(frames[b]) : HasText(task[b][n + j])}}

\* frame_results, labelled "Video i".
OfFrames(b) ==
    LET n == Len(images[b])
    IN {[label |-> videos[b][frames[b][i]], about |-> task[b][n + i].result] :
           i \in {j \in 1..Len(frames[b]) : HasText(task[b][n + j])}}

\* gather returns; the failures are skipped.
Collect(b) ==
    /\ stage[b] = "gather"
    /\ \A i \in DOMAIN task[b] : task[b][i].at = "done"
    /\ described' = [described EXCEPT ![b] = OfPhotos(b) \cup OfFrames(b)]
    /\ IF described'[b] = {} THEN End(b, "all_visual_content_failed")
       ELSE Enter(b, "synthesis") /\ UNCHANGED reply
    /\ UNCHANGED <<files, images, videos, audios, seen, frames, task, excluded, slots>>

\* The synthesis takes a slot too,
Synthesise(b) ==
    /\ stage[b] = "synthesis" /\ slots > 0
    /\ slots' = slots - 1
    /\ Enter(b, "writing")
    /\ UNCHANGED <<files, images, videos, audios, seen, frames, task, described, reply, excluded>>

\* and is not tried again.
Write(b, ok) ==
    /\ stage[b] = "writing"
    /\ slots' = slots + 1
    /\ End(b, IF ok THEN "report" ELSE "synthesis_failed")
    /\ UNCHANGED <<files, images, videos, audios, seen, frames, task, described, excluded>>

TaskStep(b, i) ==
    \/ \E ok \in BOOLEAN : Download(b, i, ok) \/ Transcribe(b, i, ok)
    \/ Acquire(b, i)
    \/ \E shallow \in BOOLEAN : Text(b, i, shallow)
    \/ CallFails(b, i)

BatchStep(b) ==
    \/ \E screened \in SUBSET ToSet(images[b]), allowed \in SUBSET ToSet(images[b]) :
          Gate(b, screened, allowed)
    \/ \E framed \in BOOLEAN : ProcessVideo(b, framed)
    \/ Gather(b)
    \/ \E i \in DOMAIN task[b] : TaskStep(b, i)
    \/ Collect(b)
    \/ Synthesise(b)
    \/ \E ok \in BOOLEAN : Write(b, ok)

Next == \E b \in Batch : BatchStep(b) \/ \E fs \in Inbox[b] : Read(b, fs)

\* Every call returns or raises (the clients' timeouts), and the event loop
\* leaves no task that can run aside.
Fairness == \A b \in Batch : WF_vars(BatchStep(b))

Spec == Init /\ [][Next]_vars
FairSpec == Spec /\ Fairness

-----------------------------------------------------------------------------
(***************************************************************************)
(* Properties.                                                             *)
(***************************************************************************)
\* A description stands under the name of the picture it describes, whatever
\* was capped, excluded, reordered by the gate, or gave no frame.
DescribedTruly == \A b \in Batch : \A d \in described[b] : d.about = d.label

\* Fewer than the cap are newer in the session.
Recent(b, kind) ==
    LET at == {i \in DOMAIN files[b] : Kind[files[b][i]] = kind}
    IN {files[b][i] : i \in {j \in at : Cardinality({k \in at : k > j}) < Cap(b, kind)}}

Visual(b) == Recent(b, "image") \cup Recent(b, "video")

Unframed(b) == {videos[b][j] : j \in 1..seen[b] \ ToSet(frames[b])}
Unanswered(b) == {t.of : t \in {u \in ToSet(task[b]) : u.result = NoText}}

\* Why a picture may be missing from what the synthesis is given.
Missing(b) == excluded[b] \cup Unframed(b) \cup Unanswered(b)

\* The synthesis is told to integrate "TODAS las fotos", of which the caps keep
\* the most recent: every recent image or video stands in what it is given,
\* unless the gate left it out, no frame came of it, or Vision did not answer for
\* it, and then it does not.  Nothing else does, except of a kind whose cap is
\* zero: files[-0:] cuts nothing, so there all of them may.
NoneLost ==
    \A b \in Batch : stage[b] \in {"synthesis", "writing"} =>
       LET told == {d.about : d \in described[b]} IN
       /\ Visual(b) \subseteq told \cup Missing(b)
       /\ told \cap Missing(b) = {}
       /\ \A f \in told \ Visual(b) : Cap(b, Kind[f]) = 0

\* The analysis of one picture is enough: a batch gives up before the synthesis
\* only when no image the gate allowed and no frame was described.
FailsWithNothing ==
    \A b \in Batch : reply[b] \in {"content_gate_refused", "all_visual_content_failed"} =>
       Visual(b) \subseteq Missing(b)

\* Whatever fails, and however many want the same slots, every batch comes to
\* its answer: no slot is lost by a failed call, and no call waits for a slot
\* while it holds one.
BatchEnds == \A b \in Batch : (stage[b] = "gate") ~> (stage[b] = "ended")
=============================================================================
