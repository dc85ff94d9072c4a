---------------------------- MODULE FieldSession ----------------------------
(***************************************************************************)
(* One phone's daily sessions: the webhook handlers that answer its text   *)
(* messages (session_manager.handle_text and the dispatch that follows it  *)
(* in webhook.py), the background pipeline runs they start (pipeline.py)   *)
(* and the backoffice's "trigger pipeline" button (admin.py).              *)
(*                                                                         *)
(* Handlers and runs are coroutines of one event loop.  Every database     *)
(* call is a thread hop (supabase_client._run), so another coroutine may   *)
(* move between any two of them: an action below ends at such a call.      *)
(* A row of `sessions' is indexed by its day; the model's days are counted *)
(* from 1, and a day's row exists from the start (its creation is in       *)
(* module SessionStore).                                                   *)
(***************************************************************************)
EXTENDS Integers, FiniteSets

CONSTANTS
    Request,    \* webhook requests that may be in flight at once
    Run,        \* pipeline runs that may ever be started
    File,       \* entries that may ever be put in raw_files
    Analysed,   \* days whose session belongs to an implementation with an analysis framework
    MaxVisits,  \* most visits a segmentation may return
    MaxDay,     \* days the model lives through
    MaxOverrides, \* triggers the backoffice may give
    MaxFaults   \* crashes and failed database calls the model suffers

ASSUME BoundsAssumption ==
    /\ Analysed \subseteq Nat
    /\ MaxVisits \in Nat
    /\ MaxDay \in Nat \ {0}
    /\ MaxOverrides \in Nat
    /\ MaxFaults \in Nat

VARIABLES
    today,      \* datetime.date.today()
    status,     \* sessions.status, by day
    raw,        \* sessions.raw_files, by day
    segments,   \* sessions.segments, by day: visits saved, or NoSegments
    at,         \* where each webhook request stands
    msg,        \* its text and the session row it has read
    pc,         \* where each run stands
    job,        \* what each run was started with
    input,      \* raw_files as each run has read it
    plan,       \* visits each run is to report
    reports,    \* visit_reports rows each run has inserted
    told,       \* history: runs whose outcome was handed to send_message
    orphaned,   \* history: days that lost a coroutine since their status was last written
    faults      \* history: faults suffered so far

rowVars == <<today, status, raw, segments>>
reqVars == <<at, msg>>
runVars == <<pc, job, input, plan, reports, told>>
histVars == <<orphaned, faults>>
vars == <<rowVars, reqVars, runVars, histVars>>

Day == 1..MaxDay

\* The statuses the code writes; the CHECK constraint allows two more that it never does.
Busy == {"segmenting", "processing"}
Status == Busy \cup {"accumulating", "needs_clarification", "completed", "failed"}

NoSegments == -1

Live == {"reset", "load", "loaded", "segment", "ask", "mark", "extract", "finish", "resume"}
Ended == {"completed", "asked", "failed", "unanalysed", "silent", "killed"}

\* The points from which a run, unless it is killed, goes on to write a
\* status that is not busy, or reports an error doing so.
Settling == Live \ {"reset", "resume"}

NoMsg == [text |-> "note", day |-> 1, status |-> "accumulating", files |-> {}]
NoJob == [kind |-> "process", origin |-> "user", day |-> 1]

TypeOK ==
    /\ today \in Day
    /\ status \in [Day -> Status]
    /\ raw \in [Day -> SUBSET File]
    /\ segments \in [Day -> {NoSegments} \cup (0..MaxVisits)]
    /\ at \in [Request -> {"idle", "read", "accepted", "clarified"}]
    /\ msg \in [Request -> [text : {"trigger", "note"}, day : Day,
                            status : Status, files : SUBSET File]]
    /\ pc \in [Run -> {"unused"} \cup Live \cup Ended]
    /\ job \in [Run -> [kind : {"process", "resume"}, origin : {"user", "admin"},
                        day : Day]]
    /\ input \in [Run -> SUBSET File]
    /\ plan \in [Run -> 0..MaxVisits]
    /\ reports \in [Run -> 0..MaxVisits]
    /\ told \in SUBSET Run
    /\ orphaned \in SUBSET Day
    /\ faults \in 0..MaxFaults

Init ==
    /\ today = 1
    /\ status = [d \in Day |-> "accumulating"]
    /\ raw = [d \in Day |-> {}]
    /\ segments = [d \in Day |-> NoSegments]
    /\ at = [r \in Request |-> "idle"]
    /\ msg = [r \in Request |-> NoMsg]
    /\ pc = [t \in Run |-> "unused"]
    /\ job = [t \in Run |-> NoJob]
    /\ input = [t \in Run |-> {}]
    /\ plan = [t \in Run |-> 0]
    /\ reports = [t \in Run |-> 0]
    /\ told = {}
    /\ orphaned = {}
    /\ faults = 0

SetStatus(d, s) ==
    /\ status' = [status EXCEPT ![d] = s]
    /\ orphaned' = orphaned \ {d}

Goto(t, where) == pc' = [pc EXCEPT ![t] = where]

\* A run returns; the list it had read goes with it.
End(t, how) ==
    /\ Goto(t, how)
    /\ input' = [input EXCEPT ![t] = {}]

\* A request is answered; what it had read goes with it.
Release(r) ==
    /\ at' = [at EXCEPT ![r] = "idle"]
    /\ msg' = [msg EXCEPT ![r] = NoMsg]

\* create_task: an unused run starts with these local variables.
Start(t, where, j) ==
    /\ pc[t] = "unused"
    /\ Goto(t, where)
    /\ job' = [job EXCEPT ![t] = j]
    /\ UNCHANGED <<input, plan, reports>>

(***************************************************************************)
(* Files.  handle_media appends to today's row; a demo keyword empties it. *)
(* Appends are atomic here (one UPDATE, sql/012); module SessionStore      *)
(* opens them up.  One File may stand for several entries.                 *)
(***************************************************************************)
NewEntry(d, f) == raw' = [raw EXCEPT ![d] = @ \cup {f}]

ReceiveMedia(f) ==
    /\ NewEntry(today, f)
    /\ UNCHANGED <<today, status, segments, reqVars, runVars, histVars>>

SwitchDemo ==
    /\ raw[today] # {}
    /\ raw' = [raw EXCEPT ![today] = {}]
    /\ UNCHANGED <<today, status, segments, reqVars, runVars, orphaned, faults>>

(***************************************************************************)
(* Text messages.  handle_text reads the session once and decides on what  *)
(* it read, after more awaits (the trigger words may be loaded from the    *)
(* database): the decision is on a snapshot.                               *)
(***************************************************************************)
\* Bound: a request or an operator arrives only while the model has a run
\* left for it, so that no accepted trigger waits for one.
Room == Cardinality({t \in Run : pc[t] = "unused"}) >
            Cardinality({r \in Request : at[r] # "idle"})

ReceiveText(r, txt) ==
    /\ Room
    /\ at[r] = "idle"
    /\ at' = [at EXCEPT ![r] = "read"]
    /\ msg' = [msg EXCEPT ![r] = [text |-> txt, day |-> today,
                                  status |-> status[today], files |-> raw[today]]]
    /\ UNCHANGED <<rowVars, runVars, histVars>>

\* Mutant of Refused: the "already completed" guard is missing.
RefusedWhileBusyOnly(s) == s \in Busy

Refused(s) == s \in Busy \cup {"completed"}

\* The three guards of handle_text answer "empty_session" and change nothing.
RefuseTrigger(r) ==
    /\ at[r] = "read" /\ msg[r].text = "trigger"
    /\ Refused(msg[r].status) \/ msg[r].files = {}
    /\ Release(r)
    /\ UNCHANGED <<rowVars, runVars, histVars>>

\* update_session_status(id, "segmenting"), whatever the row holds by now.
AcceptTrigger(r) ==
    /\ at[r] = "read" /\ msg[r].text = "trigger"
    /\ ~Refused(msg[r].status) /\ msg[r].files # {}
    /\ SetStatus(msg[r].day, "segmenting")
    /\ at' = [at EXCEPT ![r] = "accepted"]
    /\ UNCHANGED <<msg, today, raw, segments, runVars, faults>>

\* After the answer is sent the webhook asks for TODAY's session again and
\* starts the pipeline on that one: past midnight it is another row.
SpawnPipeline(r, t) ==
    /\ at[r] = "accepted"
    /\ Start(t, "load", [kind |-> "process", origin |-> "user", day |-> today])
    /\ orphaned' = IF today = msg[r].day THEN orphaned ELSE orphaned \cup {msg[r].day}
    /\ Release(r)
    /\ UNCHANGED <<rowVars, told, faults>>

AddNote(r, f) ==
    /\ at[r] = "read" /\ msg[r].text = "note"
    /\ msg[r].status # "needs_clarification"
    /\ NewEntry(msg[r].day, f)
    /\ Release(r)
    /\ UNCHANGED <<today, status, segments, runVars, histVars>>

\* The reply is stored; the status stays needs_clarification until the
\* resumed run writes its own.
AddClarification(r, f) ==
    /\ at[r] = "read" /\ msg[r].text = "note"
    /\ msg[r].status = "needs_clarification"
    /\ NewEntry(msg[r].day, f)
    /\ at' = [at EXCEPT ![r] = "clarified"]
    /\ UNCHANGED <<msg, today, status, segments, runVars, histVars>>

SpawnResume(r, t) ==
    /\ at[r] = "clarified"
    /\ Start(t, "resume", [kind |-> "resume", origin |-> "user", day |-> msg[r].day])
    /\ Release(r)
    /\ UNCHANGED <<rowVars, told, histVars>>

(***************************************************************************)
(* process_session.                                                        *)
(***************************************************************************)
\* The rows stay here, so the run finds its own: only the `reset' of a demo
\* deletes one, which a user of this flow has to enter a demo for.  (Without
\* it the run would return here and in ResumeLoad, and write and tell nothing.)
LoadSession(t) ==
    /\ pc[t] = "load"
    /\ input' = [input EXCEPT ![t] = raw[job[t].day]]
    /\ Goto(t, "loaded")
    /\ UNCHANGED <<rowVars, reqVars, job, plan, reports, told, histVars>>

MarkSegmenting(t) ==
    /\ pc[t] = "loaded"
    /\ SetStatus(job[t].day, "segmenting")
    /\ Goto(t, "segment")
    /\ UNCHANGED <<today, raw, segments, reqVars, job, input, plan, reports, told, faults>>

\* segment_session answers with n visits and perhaps a question, or with a
\* question and no segmentation at all: nothing readable, no JSON, no model.
Segmented(t, n, asks) ==
    /\ pc[t] = "segment"
    /\ input[t] # {}
    /\ segments' = [segments EXCEPT ![job[t].day] = n]
    /\ plan' = [plan EXCEPT ![t] = n]
    /\ Goto(t, IF asks THEN "ask" ELSE "mark")
    /\ UNCHANGED <<today, status, raw, reqVars, job, input, reports, told, histVars>>

SegmentationFailed(t) ==
    /\ pc[t] = "segment"
    /\ segments' = [segments EXCEPT ![job[t].day] = NoSegments]
    /\ Goto(t, "ask")
    /\ UNCHANGED <<today, status, raw, reqVars, job, input, plan, reports, told, histVars>>

\* Mutant of AskUser: the question is sent, the status is left as it was.
AskUserOnly(t, worded) ==
    /\ pc[t] = "ask"
    /\ told' = IF worded THEN told \cup {t} ELSE told
    /\ End(t, "asked")
    /\ UNCHANGED <<rowVars, reqVars, job, plan, reports, histVars>>

\* The question is sent unless the model left it empty.  send_message
\* swallows its errors and touches no row: it is no step of its own.
AskUser(t, worded) ==
    /\ pc[t] = "ask"
    /\ SetStatus(job[t].day, "needs_clarification")
    /\ told' = IF worded THEN told \cup {t} ELSE told
    /\ End(t, "asked")
    /\ UNCHANGED <<today, raw, segments, reqVars, job, plan, reports, faults>>

MarkProcessing(t) ==
    /\ pc[t] = "mark"
    /\ SetStatus(job[t].day, "processing")
    /\ Goto(t, "extract")
    /\ UNCHANGED <<today, raw, segments, reqVars, job, input, plan, reports, told, faults>>

\* Mutant of SaveReport: the loop does not stop at the last visit.
SaveReportForever(t) ==
    /\ pc[t] = "extract"
    /\ reports' = [reports EXCEPT ![t] = @ + 1]
    /\ UNCHANGED <<rowVars, reqVars, pc, job, input, plan, told, histVars>>

\* One turn of the loop over visits: extract, then insert a visit_reports row.
SaveReport(t) ==
    /\ pc[t] = "extract"
    /\ reports[t] < plan[t]
    /\ reports' = [reports EXCEPT ![t] = @ + 1]
    /\ UNCHANGED <<rowVars, reqVars, pc, job, input, plan, told, histVars>>

\* Mutant of Deliver: the summary goes out before the last row is in.
DeliverEarly(t) ==
    /\ pc[t] = "extract"
    /\ told' = told \cup {t}
    /\ Goto(t, "finish")
    /\ UNCHANGED <<rowVars, reqVars, job, input, plan, reports, histVars>>

\* "Phase 3 - Strategic Analysis (if framework configured)": only
\* process_session has it, a resumed run goes straight to its outputs.
NeedsAnalysis(t) == job[t].kind = "process" /\ job[t].day \in Analysed

\* It imports a function analyzer.py does not define: the ImportError takes
\* the error path, after every row has been inserted.
AnalysisMissing(t) ==
    /\ pc[t] = "extract"
    /\ reports[t] = plan[t]
    /\ NeedsAnalysis(t)
    /\ SetStatus(job[t].day, "failed")
    /\ told' = told \cup {t}
    /\ End(t, "unanalysed")
    /\ UNCHANGED <<today, raw, segments, reqVars, job, plan, reports, faults>>

\* Sheets and the WhatsApp summary swallow their own errors.
Deliver(t) ==
    /\ pc[t] = "extract"
    /\ reports[t] = plan[t]
    /\ ~NeedsAnalysis(t)
    /\ told' = told \cup {t}
    /\ Goto(t, "finish")
    /\ UNCHANGED <<rowVars, reqVars, job, input, plan, reports, histVars>>

\* Mutant of Complete: the status is written before the outputs are.
CompleteBeforeOutputs(t) ==
    /\ pc[t] \in {"extract", "finish"}
    /\ SetStatus(job[t].day, "completed")
    /\ End(t, "completed")
    /\ UNCHANGED <<today, raw, segments, reqVars, job, plan, reports, told, faults>>

Complete(t) ==
    /\ pc[t] = "finish"
    /\ SetStatus(job[t].day, "completed")
    /\ End(t, "completed")
    /\ UNCHANGED <<today, raw, segments, reqVars, job, plan, reports, told, faults>>

(***************************************************************************)
(* resume_after_clarification: joins process_session's path at "mark".     *)
(***************************************************************************)
Merged(n) == IF n > 1 THEN 1 ELSE n

ResumeLoad(t) ==
    /\ pc[t] = "resume"
    /\ segments[job[t].day] # NoSegments
    /\ input' = [input EXCEPT ![t] = raw[job[t].day]]
    /\ plan' = [plan EXCEPT ![t] = Merged(segments[job[t].day])]
    /\ Goto(t, "mark")
    /\ UNCHANGED <<rowVars, reqVars, job, reports, told, histVars>>

\* "No saved segments found": the run returns; no status, no message.
ResumeFindsNothing(t) ==
    /\ pc[t] = "resume"
    /\ segments[job[t].day] = NoSegments
    /\ End(t, "silent")
    /\ UNCHANGED <<rowVars, reqVars, job, plan, reports, told, histVars>>

\* Mutant of RunFails: the exception is logged, the status is not written.
RunFailsQuietly(t) ==
    /\ pc[t] \in Live \ {"reset"}
    /\ told' = told \cup {t}
    /\ End(t, "failed")
    /\ UNCHANGED <<rowVars, reqVars, job, plan, reports, histVars>>

\* Mutant of RunFails: process_session forgets the user as well.
RunFailsUntold(t) ==
    /\ pc[t] \in Live \ {"reset"}
    /\ SetStatus(job[t].day, "failed")
    /\ End(t, "failed")
    /\ UNCHANGED <<today, raw, segments, reqVars, job, plan, reports, told, faults>>

\* process_session's error message needs the session it loaded: when the
\* load itself failed, the name is unbound, and the second exception reaches
\* the wrapper of a run the user started, or the admin route's 500.
\* resume_after_clarification's error path tells nobody.
FailureIsTold(t) ==
    job[t].kind = "process" /\ (pc[t] # "load" \/ job[t].origin = "user")

\* An exception anywhere in a run: status "failed".
RunFails(t) ==
    /\ pc[t] \in Live \ {"reset"}
    /\ SetStatus(job[t].day, "failed")
    /\ told' = IF FailureIsTold(t) THEN told \cup {t} ELSE told
    /\ End(t, "failed")
    /\ UNCHANGED <<today, raw, segments, reqVars, job, plan, reports, faults>>

\* The write of "failed" fails too.  The exception leaves the run; the
\* wrapper around it sends a message, except under the admin route, which
\* answers 500.
RunFailsUnrecorded(t) ==
    /\ faults < MaxFaults
    /\ pc[t] \in Live
    /\ End(t, "failed")
    /\ told' = IF job[t].origin = "user" THEN told \cup {t} ELSE told
    /\ orphaned' = IF status[job[t].day] \in Busy /\ pc[t] \in Settling
                   THEN orphaned \cup {job[t].day} ELSE orphaned
    /\ faults' = faults + 1
    /\ UNCHANGED <<rowVars, reqVars, job, plan, reports>>

(***************************************************************************)
(* The backoffice's trigger: no guard; the row is put back to accumulating *)
(* and to segmenting before process_session runs inside the request.       *)
(***************************************************************************)
AdminTrigger(t, d) ==
    /\ Start(t, "reset", [kind |-> "process", origin |-> "admin", day |-> d])
    /\ Room
    /\ Cardinality({u \in Run : job[u].origin = "admin"}) < MaxOverrides
    /\ SetStatus(d, "accumulating")
    /\ UNCHANGED <<today, raw, segments, reqVars, told, faults>>

AdminSegmenting(t) ==
    /\ pc[t] = "reset"
    /\ SetStatus(job[t].day, "segmenting")
    /\ Goto(t, "load")
    /\ UNCHANGED <<today, raw, segments, reqVars, job, input, plan, reports, told, faults>>

(***************************************************************************)
(* The environment.                                                        *)
(***************************************************************************)
\* An exception in the handler: twilio_webhook logs it and answers 200.
RequestFails(r) ==
    /\ faults < MaxFaults
    /\ at[r] # "idle"
    /\ orphaned' = IF at[r] = "accepted" THEN orphaned \cup {msg[r].day} ELSE orphaned
    /\ faults' = faults + 1
    /\ Release(r)
    /\ UNCHANGED <<rowVars, runVars>>

\* The process dies and restarts: coroutines are gone, rows stay.
Crash ==
    /\ faults < MaxFaults
    /\ pc' = [t \in Run |-> IF pc[t] \in Live THEN "killed" ELSE pc[t]]
    /\ at' = [r \in Request |-> "idle"]
    /\ msg' = [r \in Request |-> NoMsg]
    /\ input' = [t \in Run |-> IF pc[t] \in Live THEN {} ELSE input[t]]
    /\ orphaned' = orphaned \cup {d \in Day : status[d] \in Busy}
    /\ faults' = faults + 1
    /\ UNCHANGED <<rowVars, job, plan, reports, told>>

Midnight ==
    /\ today < MaxDay
    /\ today' = today + 1
    /\ UNCHANGED <<status, raw, segments, reqVars, runVars, histVars>>

RequestStep(r) ==
    \/ RefuseTrigger(r)
    \/ AcceptTrigger(r)
    \/ \E t \in Run : SpawnPipeline(r, t)
    \/ \E f \in File : AddNote(r, f)
    \/ \E f \in File : AddClarification(r, f)
    \/ \E t \in Run : SpawnResume(r, t)

RunStep(t) ==
    \/ LoadSession(t)
    \/ MarkSegmenting(t)
    \/ \E n \in 0..MaxVisits, asks \in BOOLEAN : Segmented(t, n, asks)
    \/ SegmentationFailed(t)
    \/ \E worded \in BOOLEAN : AskUser(t, worded)
    \/ MarkProcessing(t)
    \/ SaveReport(t)
    \/ AnalysisMissing(t)
    \/ Deliver(t)
    \/ Complete(t)
    \/ ResumeLoad(t)
    \/ ResumeFindsNothing(t)
    \/ RunFails(t)
    \/ RunFailsUnrecorded(t)
    \/ AdminSegmenting(t)

Next ==
    \/ \E f \in File : ReceiveMedia(f)
    \/ SwitchDemo
    \/ \E r \in Request, txt \in {"trigger", "note"} : ReceiveText(r, txt)
    \/ \E r \in Request : RequestStep(r)
    \/ \E r \in Request : RequestFails(r)
    \/ \E t \in Run : RunStep(t)
    \/ \E t \in Run, d \in Day : AdminTrigger(t, d)
    \/ Crash
    \/ Midnight

\* Coroutines that hold the event loop's attention make progress: every await
\* ends, in a result or an exception.  Users, operators and faults owe nothing.
RunMoves(t) == WF_vars(RunStep(t))
RequestMoves(r) == WF_vars(RequestStep(r))

Fairness ==
    /\ \A t \in Run : RunMoves(t)
    /\ \A r \in Request : RequestMoves(r)

Spec == Init /\ [][Next]_vars
FairSpec == Spec /\ Fairness

-----------------------------------------------------------------------------
(***************************************************************************)
(* Properties.                                                             *)
(***************************************************************************)
OnDay(t, d) == job[t].day = d

\* Somebody will still write the day's status: a handler between accepting a
\* trigger and spawning its run, or a run on its way to a settled status.
Owner(d) ==
    \/ \E r \in Request : at[r] = "accepted" /\ msg[r].day = d
    \/ \E t \in Run : pc[t] \in Settling /\ OnDay(t, d)

\* handle_text refuses triggers while the status is segmenting or processing,
\* so a busy status nobody will settle blocks the user for good.  Whatever
\* handlers, runs and operators do to one another's status, this happens only
\* when a fault or midnight has taken away the coroutine that last wrote it.
BusyHasOwner ==
    \A d \in Day : status[d] \in Busy /\ d \notin orphaned => Owner(d)

\* process_session and resume_after_clarification write "completed" last: a
\* completed session has had a report delivered by a run that inserted one
\* row for each visit it was to report, whatever other runs do meanwhile.
CompletedWasDelivered ==
    \A d \in Day : status[d] = "completed" =>
        \E t \in Run : /\ pc[t] = "completed" /\ OnDay(t, d)
                       /\ reports[t] = plan[t] /\ t \in told

\* Nothing in flight for the day could act on an outdated view of it.
Quiet(d) ==
    /\ \A t \in Run : OnDay(t, d) => pc[t] \notin Live
    /\ \A r \in Request : msg[r].day = d =>
          at[r] = "idle" \/ (at[r] = "read" /\ msg[r].status = status[d])

\* The guards of handle_text, on both sides: once nothing is in flight, a
\* completed session stays completed for the user, and one left busy by a
\* fault stays busy.  Only the backoffice's trigger reopens either.
OnlyOperatorReopens ==
    [][\A d \in Day : Quiet(d) /\ status[d] \in Busy \cup {"completed"} =>
          status'[d] \in {status[d], "accumulating"}]_vars

\* "Phase 3 - Strategic Analysis (if framework configured)": a run that
\* nothing stops, neither a failing call nor a restart, and that asks its user
\* nothing, completes its session.
UnhinderedRunsComplete ==
    \A t \in Run : job[t].kind = "process" /\ pc[t] \in Ended \ {"failed", "killed", "asked"} =>
        pc[t] = "completed"

\* Every busy session settles, or its coroutines were lost to a fault.
BusySettles ==
    \A d \in Day : status[d] \in Busy ~> (status[d] \notin Busy \/ d \in orphaned)

\* A trigger that was accepted is answered by a run of its own, that ends
\* with a message to the user unless the process died or the segmentation
\* asked without a question.
TriggerIsAnswered ==
    \A t \in Run : (pc[t] = "load" /\ job[t].origin = "user")
        ~> (t \in told \/ pc[t] \in {"killed", "asked"})

\* Refinement: each run keeps the promise of module ReportRun.
PhaseOf(where) ==
    CASE where = "unused" -> "idle"
      [] where \in {"reset", "load", "loaded", "segment", "resume"} -> "started"
      [] where \in {"ask", "mark", "extract"} -> "planned"
      [] where = "finish" -> "delivered"
      [] where = "completed" -> "closed"
      [] OTHER -> "stopped"

Promise == INSTANCE ReportRun WITH
    phase <- [t \in Run |-> PhaseOf(pc[t])],
    day <- [t \in Run |-> job[t].day],
    planned <- plan,
    rows <- reports,
    shown <- {d \in Day : status[d] = "completed"}

\* Every behaviour of the webhook and the pipeline is one of ReportRun.
RunsKeepPromise == Promise!Spec
=============================================================================
