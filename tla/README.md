# Field Genius Engine: a TLA+ model

Field Genius Engine receives photos, audio and text over WhatsApp (Twilio), keeps
them in one session per phone and day (Supabase), and turns a session into visit
reports (the field pipeline) or into a demo report (the demo numbers). These
modules model the parts of it whose correctness depends on the order in which
handlers, background tasks, database calls and failures happen. What the language
models compute is a nondeterministic choice over the outcomes the code handles.

Source paths below are relative to `src/` of the repository.

## 1. Inventory

The web process (`Procfile`, `src/main.py`) is one asyncio event loop. The database
calls of the webhook, the pipeline and the store go through `supabase_client._run`, a
thread hop, so **any two of them in one coroutine may be separated by steps of
others**; that is the grain of `FieldSession`, `DemoConversation`, `SessionStore` and
`Screening`. `config_loader` and the routes in `admin.py` call the database with a
client that blocks the loop instead, and run alone between two awaits: so they do in
`ConfigCache` and `Reports`. A second process, the arq worker, runs preprocessing jobs;
without Redis they run as tasks of the web process. Nothing is retried by the code
except what the tables say.

| Component | Code | State | Operations | Hard part | Modelled in |
|---|---|---|---|---|---|
| Text handling, dispatch | `session_manager.handle_text`, end of `webhook._webhook_inner` | `sessions.status`, `raw_files` | accept or refuse a trigger, take a clarification reply, add a note, spawn a run | decisions on a row read some awaits ago | `FieldSession` |
| Report pipeline | `pipeline.py`, `segmenter.py` | `sessions.status`, `segments`; `visit_reports` | `process_session`, `resume_after_clarification` | two runs of one session, crashes, every error path | `FieldSession`, `ReportRun` |
| Backoffice trigger | `admin.trigger_pipeline` | the same rows | reset the status, run | no guard at all | `FieldSession` |
| Demo conversation | `webhook._webhook_inner`, `_complete_questionnaire_and_analyze`, `_run_demo_batch_safe` | the `users` row (demo, terms, three pending prompts), `_seen_sids`, `_pending_menu` | some twenty early returns | the order of the dispatch, a snapshot of the prompts, duplicates, restarts | `DemoConversation` |
| Session and file store | `supabase_client.py`, `sql/012`, `015`, `033` | `sessions`, `session_files`, `raw_files` | find or create, append, annotate, read, clear, reset | two copies of one list, no transaction | `SessionStore` |
| Preprocessing, queue | `preprocessor.py`, `worker.py`, `content_safety.py` | queue, semaphore, annotations of files | enqueue, take, classify, describe, write back, tell | two screenings of one image, late results, timeouts and restarts | `Screening`; its writes, statement by statement, in `SessionStore` |
| Content gate | `content_gate.py` | none | decide on a batch by its images' cached or inline categories | a verdict seen late, or not at all; the images come back in another order | `Screening`, `BatchAnalysis` |
| Demo analyzer | `demo_analyzer.py` | none | caps, gate, videos in turn, calls in parallel, synthesis | results known by their position in lists that have been cut and reordered | `BatchAnalysis`; what it shows Vision in `Screening`, its outcome in `DemoConversation` |
| AI clients | `vision.py`, `transcriber.py`, `video.py`, `ai_semaphore.py`, `extractor.py` | one semaphore | attempts, a second model, a slot per call | slots on every way out of a call | `BatchAnalysis` (Vision, transcription, frames); outcomes elsewhere |
| Configuration cache | `config_loader.py`, its callers in `admin.py` | `_cache`, `_keyword_index` in each process | load, index, edit, reload | two processes, an index built in a thread | `ConfigCache` |
| Backoffice reports | `admin.py`, `analyzer.py`, `sql/008` | `session_facts` | report of a session, of a group, of a project | facts several requests extract at once, of sessions that change meanwhile | `Reports` |
| Media retention | `retention.py` | `raw_files`, the bucket | page, remove, mark | two passes, stale arrays, deaths between a removal and its mark | `Retention` |
| Failed jobs, digest | `worker.py`, `admin.py`, `digest.py` | `failed_jobs` | list, retry; read and send | the handler that would fill the table is registered nowhere | not modelled |
| Exports, compliance | `admin.py`, `outputs/`, `utils/pdf.py` | stored reports | read, call a model, insert one row | none: no step depends on another's | not modelled |
| Authentication | `routes/auth.py` | none | check a permission | data, not behaviour | not modelled |
| Download and messages | `media_downloader.py`, `sender.py` | none | one call each | they fail | a failing step in `SessionStore`, the history `told` in `FieldSession` |
| Simulator, health, scripts | `simulate.py`, `main.py`, `scripts/` | none | | | not modelled |

How they interact: the webhook calls the store and the session manager and spawns
runs and batches (`asyncio.create_task`) which share nothing with it but the
database rows; jobs are handed files and write annotations to the store; the
backoffice writes the same rows from its own requests.

What makes each correct, in short: a session that refuses triggers is on its way to
a state that does not; a completed session has its reports and the user was told; a
message is taken in hand once and answered; an annotation reaches the row of its
file, no acknowledged file vanishes from the table its readers get, and a session's
files are of one demo; an image the user was told is left out
stays out; a description stands under the picture it is about; facts are never
replaced by older ones, nor counted twice; a file is marked as cleaned when it is
gone; a configuration served from memory is not older than its lifetime.
`PROJECT.json` lists the hazards behind these at their lines.

## 2. Modules

| Module | What it is |
|---|---|
| `FieldSession` | one phone: handlers, runs, operator, crash, midnight |
| `ReportRun` | the abstract promise of a run; `FieldSession` implements it |
| `DemoConversation` | one visitor of a demo number |
| `SessionStore` | the store under both, statement by statement |
| `Screening` | an image from the queue through its screening to the two readers of its verdict |
| `BatchAnalysis` | demo batches side by side, each from the files it read to its reply |
| `ConfigCache` | the configuration cache and keyword index of the two processes |
| `Reports` | the backoffice's reports on the facts of sessions |
| `Retention` | overlapping passes of the clean-up of old media |
| `MCFieldSession`, `MCDemoConversation`, `MCConfigCache`, `MCReports`, `MCBatchAnalysis`, `MCRetention` | values of function constants and symmetry sets for TLC; the others need none |
| `FieldSession_proofs`, `DemoConversation_proofs`, `Screening_proofs`, `ConfigCache_proofs`, `SessionStore_proofs`, `Reports_proofs`, `BatchAnalysis_proofs`, `Retention_proofs` | theorems about the module of that name |

### FieldSession

Rows are indexed by day (`status`, `raw`, `segments`). A request is `read` between
`get_or_create_session` and its decision, `accepted` between the write of
`segmenting` and the `create_task`, `clarified` between storing the reply and the
`create_task`. A run goes `load, loaded, segment, ask | mark, extract, finish` as
`process_session` does; `resume_after_clarification` enters at `resume` and joins at
`mark`; the operator's run enters at `reset`. `RunFails` is the `except` that writes
`failed`; `RunFailsUnrecorded` is the same when that write fails too, caught by
`_run_pipeline_safe`. `SpawnPipeline` uses `today`, as the code calls `date.today()`
again. `told` records runs whose outcome was handed to `send_message`, which
swallows its own errors. `orphaned` records the days whose status lost the coroutine
that last wrote it, to a fault or to midnight: it is what `BusyHasOwner` excepts.
`AnalysisMissing` is Phase 3 of `process_session` on a day in `Analysed`, whose
implementation has an analysis framework: the module it imports from has no such
function, so the run fails after its rows are in. That is what is mapped, and the run
`analysis_missing` shows it; a resumed run skips the phase.

Abstracted: which files, which words, what the reports say. A day's row exists from
the start (its creation is in `SessionStore`) and stays: only a demo's `reset` deletes
one, and a run that finds none returns without a word or a write. Appends are atomic
here and opened up there.

### ReportRun

Five phases and one rule: rows are inserted up to the planned number, delivery needs
them all, and only a delivered run may make its day read "completed". The refinement
mapping (`PhaseOf`, `Promise` in `FieldSession`) maps every status write that is not
"completed" to `Hide` or a stutter.

### DemoConversation

One variable per column of the `users` row the dispatch uses, the demos the
session's photos were sent to, the web process's memory, and per message the stage
of its handler, its snapshot of the row, the demo it is taken for (`under`, the code's
`resolved_impl`) and its batch. `Admitted`, `IsPlain`, `PassesPoc`, `PassesLoc`,
`PassesContact` are the fall-through conditions of the dispatch in the code's order;
each action guards with the last one its branch needs. A switch is three calls
(`SwitchTo`, `Wipe`, `Unflag`), an answered questionnaire two, "generar" up to three;
every other branch writes once.

Calls fail here as they do in the code. `get_user_by_phone` swallows a failed query and
returns None, and the handler goes on as for a visitor nobody knows; a visitor's demo
that does not load leaves the message with the number's (`ReadUser`). The setters of
prompts and the insert of a location row log their errors and return, so that after
any of them the prompt, or the row, may be what it was (`Cleared`, `Placed`). An
exception of the access check is caught at its end: the message goes on past it, with
the snapshot it had (`passed`), and with the number's demo and no configuration if
none was loaded by then (`bare`); a keyword whose demo does not load is no switch
(`stay`). `CompanyFails` and `OtroFails` are the switches that catch their exception
and say so. Without a configuration the demo's branches are closed, and a text ends in
the field agents' `handle_text`, which notes it without a word (`NoteAsField`); that a
trigger word among such texts starts a pipeline run is left to `FieldSession`. Any other
exception is `RequestFails`.

`mixed` remembers how two demos' photos may meet in one session although the code means
to keep them apart. There are four ways: handlers that overlap; a choice from the menu,
whose switch does not wipe; a switch whose wipe or `upsert_user` failed or whose handler
was lost between the two; and a handler that takes its message for another demo than
the row's, because it could not read the row or load the demo. It ends with the next
wipe of a handler that is alone. `OneDemoPerSession` is about everything else; a
report made of such a session (`work.mixed`) is excepted with it. No fairness is stated
here: no step of a handler leads back, so `EveryMessageAnswered` says, as an invariant,
that some branch of the dispatch is always open to a message in flight; a handler that
nothing stops then ends, which `MessagesComeToEnd` in the proofs derives from it.

The runbook of the demos (`runbooks/sprint-demo-poc.md`, 4.6) says that a photo sent
after the POC prompt is not processed. The model holds it back on what the handler has
read (`TakePhoto`), so it gets in when the prompt is set after the read, when the read
failed, and when setting it failed; as the guard is all there is, no property repeats it.

Left out: whitelist access and its fallback, signature checks, the instant mode,
abuse caps, captions, welcome messages, video. An expired prompt is the same as a
cleared one.

### SessionStore

A media file's handler finds or creates the day's session, downloads, looks the
session up *again* (`handle_media`), inserts the `session_files` row and appends to
`raw_files`; its preprocessing job then annotates the row and, by `sql/012`'s
function, reads the array and writes it back whole. That function's two statements
are two steps: it runs in READ COMMITTED and takes no lock before its UPDATE. The
fallbacks in Python are there with their own reads and writes. A switch deletes the
rows and empties the array; a reset deletes the session with what hangs on it.
Failures: a find that fails reads as "no row"; an insert that fails is swallowed; a
call may fail before or after the database executed it (`CreateBreaks`, `AppendBreaks`,
`UpdateBreaks`, `Rewrite`, `WipeFiles`); a handler may be lost anywhere.
`get_session_files(i, read)` is the reader: the table, or the array when the table has
nothing or could not be read. `json.dumps`-ed parameters are assumed to reach the
functions as the object they encode.

The histories that the properties except say what the code has no remedy for.
`unlisted` are the files whose row was not inserted: with other rows there, no reader
looks at the array. `rewrote` are the files on whose behalf an array was written back
whole: a reader left with the array may then lack a file, and after a wipe it may see
again one that was wiped, when a stale array is written back. A failed append that was
executed enters the file twice, which `NoDuplicates` leaves out. An annotation for a
session that was reset between the handler's two lookups reaches no row.

### Screening

The images of one session. A job is a pair of an image and the place that runs it:
`enqueue_preprocess` hands it to Redis, to a task of the web process, or to both
(the call failed after Redis took it). A job goes `waiting, started, screen,
vision | note, note, write, tell, done`; each stage is one external call. The
classifier may answer differently each time. An annotation goes to two copies: `row`
(`session_files`) and `raw` (the array, read into `copy` and written back whole, so
that two jobs may undo each other there). `slots` is the semaphore of
`process_file`. Readers take a snapshot (`files`, `notes`): a demo batch
(`StartBatch`, `Gate`) the table, or the array when the table cannot be read; a
pipeline run (`StartRun`, `Segment`, `Resume`, `Reanalyse`) the array.
`CachedCategory` keeps the precedence the code's conditional has, not the one its
layout suggests.

The queue library is modelled from how the worker configures it: at most `max_jobs`
at once, `max_tries` starts, jobs that were running are run again after a restart,
and a job cancelled by `job_timeout` is not. A batch that fell back to the array is
promised nothing (`promised` is empty), nor is an image whose annotation the table
refused (`unnoted`): that error is swallowed, and no statement in the code says what
should follow. An UPDATE that matches no row counts as refused too: the file's own
insert may have failed, or its row may belong to another session, both of which happen
in `SessionStore`; the database raises nothing then, and the code goes on alike. Only
images are modelled; audio and video jobs take the same steps without a verdict. A
timeout during a database call is the same as one just after it,
since the call goes on in its thread. The worker is assumed to start:
`WorkerSettings.redis_settings` (`worker.py:213`) is a static method, which the library
may not take for the settings it expects; whether it does is outside this code.

### ConfigCache

The content of a row is its version: how many writes the database had seen, with
the time of each in `written`. Version 0 is what the files in `src/implementations`
hold, or an index that is empty. `get_implementation` reads two tables
(`LoadRow`, `LoadTypes`) with calls that block the loop of its process, so
`LoopFree` guards every step that needs that loop; in the other process and in the
database anything may happen between. An edit in the backoffice and the reload that
follows it are one step for the same reason, unless the answer of the call is lost.
The keyword index is built in three steps (`Ask`, `ReadKeywords` in a thread,
`StoreIndex`) that several requests may interleave.

What the code does not give, and the properties therefore do not say: an edit never
reaches the worker's cache, creating or deleting an implementation and every write
of a visit type empty no cache at all, and an edit during a build of the index may
leave the keywords from before it. All three are bounded by the lifetime, which is
what `ConfigWithinTTL` and `KeywordsWithinTTL` say; only `WebSeesItsEdits` promises
more, of the row of an implementation in the web process.

### Reports

A row of `session_facts` belongs to a session and a framework and holds a version:
how often the session's evidence had changed when the request read it. The routes
call the database with a blocking client, so a request runs alone between two awaits
of a model's answer and one action is one such stretch: `NextSession`, for one, walks
over every session that says nothing up to the next one that does. `StoreFacts` is an
insert, because the code's upsert names no conflict target; who comes second is
refused and leaves the session out of its text (`GroupSessionLost`), which is why facts
do not go back, and also why they never go forward. A group's report stores the facts it
extracts under the project of the GROUP (`GroupImpl`), whatever the session's. A project's
report sums up its sessions by `sessions.group_id`, which nothing in the repository
writes: there is one summary, "Sin grupo asignado", and with it the report has every
session or none (`GroupsWritten`). The loop over several groups, and the total it does
not correct when one of them fails, cannot be reached.

Left out: date ranges, other filters, the texts. A stored report is read by no
request; `counted` keeps which projects counted a session. Single and group reports
read the array and "all" reads the table of files: both are `evidence` here, and where
the two differ is the subject of `SessionStore`.

### BatchAnalysis

Lists stay lists here, because `asyncio.gather` returns results by position: `images`
after caps and gate, `frames` as positions in `videos`, `task` as the concatenation.
What a call to Vision answers is the picture it was given, or nothing; `described`
pairs that with the label the code puts on it. A call goes `download, wait, call` with
a slot in `call` only; `CallFails` gives the slot back, tries again, or goes to the
second model. `Cap` is `get_demo_caps`' correction, `MostRecent` Python's `[-n:]`,
with what it does for zero. What the caps are to keep is said apart from that, in
`Recent`: the files of a kind fewer than the cap are newer than, none under a cap of
zero. `NoneLost` then asks that these be told or missing for a reason, and lets others be
told only of a kind whose cap is zero. The gate's own inline calls, transcriptions and
frames take no slot, as in the code, for all that `ai_semaphore.py:12` says of Anthropic and
OpenAI combined.

Left out: how the source of a picture is worded, the prompt, resizing, pauses between
attempts, the sound of a video. Which waiter the semaphore serves next is a choice;
asyncio serves them in order.

### Retention

Sessions are numbered by age. A pass pages through `Selected`, the rows of `Older`
sessions, by offset and without an ORDER BY: `order` is the order of the table, which
any update may change. `IsPage` says what a page is, row by row: the selected row that
`Rank` counts at that place. A pass then
removes objects one at a time and writes the page's array back with every entry
marked, if one removal succeeded (`removed`), the failed ones too. `Store`,
`ReadToNote` and `WriteNote` are the handler that appends and the job that writes an
array back whole. A pass dies anywhere (`Die`), two overlap, and the cutoff is any.
`refused` and `alone` are histories: removals that failed, and passes nobody disturbed.

Left out: entries that are not media, counts, the preview, which writes nothing.

## 3. Runs

`tlc -workers 2 -config X.cfg M`: `batch_analysis` takes about two minutes on two
workers, `config_cache`, `demo_conversation` and `screening` about one and a half, the others
one or less.

Passing:

| Run | Configuration | Shows |
|---|---|---|
| `field_session` | `MCFieldSession.cfg`: 2 requests, 2 runs, 2 days (one with a framework), 1 operator trigger, 1 fault | `BusyHasOwner`, `CompletedWasDelivered`, `OnlyOperatorReopens` under every interleaving of two of each |
| `field_session_progress` | `MCFieldSessionProgress.cfg`: 1 request, 2 runs, 2 visits, 1 operator trigger, 1 fault, fair | `BusySettles`, `TriggerIsAnswered`, and the refinement `RunsKeepPromise` |
| `demo_conversation` | `MCDemoConversation.cfg`: 3 deliveries, 2 handlers in flight, 1 restart and a redelivery more after it | `ProcessedOncePerLife`, `OneDemoPerSession`, `EveryMessageAnswered`; every call may fail |
| `session_store` | `SessionStore.cfg`: 2 files, 2 session ids, 1 wipe, 1 fault, fair | `AnnotationArrives`, `ReaderSeesKept`, `NoDuplicates`, `HandlerEnds` |
| `screening` | `Screening.cfg`: 2 images, 1 reader that is a batch or a run, 2 categories, 1 slot, 2 tries, 1 fault, fair | `ToldIsMarked`, `BatchKeepsPromise`, `SlotsBalance`, `QueueDrains` |
| `config_cache` | `MCConfigCache.cfg`: 1 implementation with files, 2 lookups, 1 edit, lifetime 2, time 3, 1 fault | `ConfigWithinTTL`, `KeywordsWithinTTL`, `WebSeesItsEdits` |
| `reports` | `MCReports.cfg`: 2 sessions of one project, a group of another, 1 framework, 2 requests of any kind, evidence changing twice | `CountedOnce`, `FactsNotRolledBack` |
| `batch_analysis` | `MCBatchAnalysis.cfg`: a batch of up to 3 images, 2 videos and a recording next to one of 2 images, or of a video over a cap of zero, whose project tries the cheaper model first, 1 slot, 1 retry, fair | `DescribedTruly`, `NoneLost`, `FailsWithNothing`, `BatchEnds` |
| `retention` | `MCRetention.cfg`: 2 passes, 2 sessions with 3 files, pages of 1, 1 fault | `MarkedIsGone`, `YoungUntouched`, `PassSweeps` |

Bounds. The hazards here are between two: two triggers, two runs, a run and an
operator, an append and an annotation, two passes, two requests for the same facts.
Two days are needed for midnight, two visits for a run that stops between inserts.
One fault separates "no fault" from "some fault" and, in the store, one failed insert
from a failed append. Three messages bring a visitor from any branch of the dispatch
to any other with a prompt pending: a photo, the prompt, its answer; two in flight are
what it takes to act on an outdated row, and a fourth delivery, after the restart, brings
one of the three again. In `screening` two images contend for one
slot and for the array, a category that is allowed and one that is not give every pair
of contradicting verdicts, and the batch's cap of one leaves an image out; `NSFW`,
which sets the other mark, is in `told_then_analysed`. In `config_cache` a clock that
goes one past the lifetime sees an entry expire, one edit is the version an entry may
lack, and two lookups are what it takes for one build to overwrite another; two
implementations do not share a cache entry, and the proofs cover any number. In
`reports` the cap on sessions without facts equals their number, so it never cuts
there; the proofs cover any cap. In `batch_analysis` the image cap
leaves one out of three, the second project's configured caps are 0 and -1, the
numbers `get_demo_caps` corrects, so that its video is over a cap of zero and is analysed
all the same, and one slot for two batches makes every call wait.
In `retention` a page of one session makes each pass page twice and see the rows move.

`CHECK_DEADLOCK FALSE` stands where the system may stop: the visitor may stop writing,
the files may all be in and screened, the batches answered, the passes done, the
clock's bound reached.

Violations (each is a `finding`, quoted there):

| Run | What happens |
|---|---|
| `analysis_missing` | nothing fails and the user is asked nothing; the run inserts its rows, imports `analyze_visit`, which does not exist, and ends as `failed` |
| `lost_append` | the annotation of file 1 selects the array, file 2 is appended, the annotation writes it back without it |
| `told_then_analysed` | the run asks for a clarification, the screening of an image ends and its user is told it is left out, the answer comes, and the resumed run describes the images of the visits anew, that one too |

### Fairness

`WF` on each request's, run's, handler's and batch's steps: coroutines of an event
loop and threads of a pool go on until their calls return or raise, and every
external call has a client timeout. In `Screening` it is `WF` on the worker as a
whole (`WorkerStep`): it polls its queue, and does something as long as there is
something to do. In `BatchAnalysis` one batch may hold the only slot again and again,
but its calls are finite in number, so weak fairness is enough for the other.
`DemoConversation`, `ConfigCache`, `Reports` and `Retention` state none: their
properties are of safety. Nothing is assumed of users, operators, Twilio, restarts or
faults, and no strong fairness is used.

### Disagreements that no run keeps

Met while modelling, in the models' actions, with no property of their own because the
text of the repository says too little, or because it would repeat the guard of one
branch:

* Two triggers that both read `accumulating` are both accepted and two pipelines run,
  for all the guard commented at `session_manager.py:154`; what remains true with both
  of them is `BusyHasOwner` and `CompletedWasDelivered`.
* A failed session that is triggered again inserts its `visit_reports` rows again.
* A reply to a clarification when the segmentation had failed is thanked for and then
  nothing is said (`pipeline.py:419`, `ResumeFindsNothing`).
* A trigger accepted before midnight starts a run on the next day's session
  (`SpawnPipeline`).
* The second "generar", said to skip the questionnaire, sends it again, because the
  prompt is cleared before the branch that looks for it (`webhook.py:1064`,
  `LookForContext`). The comment there, the message to the visitor (`webhook.py:1107`)
  and the runbook of the demos (`runbooks/sprint-demo-poc.md`, 1.C.2 and 2.2.C) all say
  that it skips. In the model, as in the code, the branch for it does not exist.
* Two answers to one questionnaire start two batches (`webhook.py:1296`).
* The keyword of the number's own demo does not bring back a visitor who switched away
  (`webhook.py:253`), and the menu's switch does not wipe.
* A cap of zero videos or recordings keeps them all (`demo_analyzer.py:212`, `[-0:]`),
  while the comments (38, 202) promise the most recent up to the cap and the log line
  above the cut (211) reports `kept=0` (`MostRecent`; `NoneLost` names the exception).
* `ai_semaphore.py:12` speaks of Anthropic and OpenAI calls combined; transcriptions and
  the content gate's own calls take no slot.
* A photo sent after the POC prompt may be processed, against 4.6 of the runbook (see
  `DemoConversation`).
* A file whose removal failed is marked as cleaned with the rest of its session and
  never tried again (`retention.py:91`), which `MarkedIsGone` has to except.
* Facts are never refreshed once stored, since the upsert of `session_facts` is an
  insert; and a session's facts may be counted to another project's report, by a group
  of that project.
* A build of the keyword index begun before an edit stores the keywords from before it
  after the reload (`StoreIndex`).

## 4. Proofs

Each proof module holds an inductive invariant, a lemma for each action or group of
actions that preserves it, and the theorems.

`FieldSession_proofs`, for every number of requests, runs, files, visits, days,
operator triggers and faults (`BoundsAssumption`):

* `TypeCorrect`: `Spec => []TypeOK`.
* `BusyOwned`: `Spec => []BusyHasOwner`. Inductive given the types. The two delicate
  steps are `SpawnPipeline`, where ownership passes from the request to the run
  unless midnight has come between, and the steps of one run that end the busy
  status under another: the status is then not busy and owes nothing.
* `CompletedDelivered`: `Spec => []CompletedWasDelivered`. Not inductive: a run about
  to write `completed` must already have inserted all its rows and told the user
  (`AboutToComplete`), and a finished run's record never changes.
* `OperatorReopens`: `Spec => OnlyOperatorReopens`, from the types and one lemma
  about a single step.
* `Refinement`: `Spec => RunsKeepPromise`. One lemma per kind of step (`Begins`,
  `Plans`, `Goes`, `Stops`, `Hidden`) shows the step of `ReportRun` it is, or that
  ReportRun sees nothing; a crash stops every live run at once.
* `PromiseIsHonest`: `Promise!Spec => []Promise!ShownIsComplete`, the abstract module's
  own property, from `Honest`; and `ShownComplete`, the same of `Spec`, which is those
  two theorems put together and looks at no action of `FieldSession`.
* `TriggersAreTold` and `RowsArePlanned`: the safety halves of `TriggerIsAnswered`. Both
  from `OnTheWay` and one lemma on what any step does to any run (`StepMoves`: it rests,
  starts, goes on, plans, inserts a row or ends).
* `RunsAdvance`: `Left`, the steps a run still has, falls whenever the run moves, and
  nothing raises it. `RunsKeepMoving`: with fairness it falls, from every value. The
  hypothesis `[]RunsCanMove` is that a live run is enabled (see below).

`DemoConversation_proofs`, for every number of messages, demos, restarts, and every set
of demos with terms or with a company, of two demos or more (`ImplAssumption`: "otro"
leads to another demo):

* `TypeCorrect`.
* `OncePerLife`: `Spec => []ProcessedOncePerLife`. Inductive as `Counted`, which tells
  apart the messages whose SID this life of the process has marked.
* `SessionOfOneDemo`: `Spec => []OneDemoPerSession`, from `Settled` and `ReadOne`: unless
  mixed, a handler in flight is alone, the demo it takes its message for is the row's,
  the photos are of one demo, and of that one unless a wipe is due; and what a batch
  read while nothing was mixed is of one demo. A failed call keeps `Settled` or sets
  `mixed`. Most branches preserve it for one reason
  (`QuietStep`); switches, wipes and new messages have lemmas of their own.
* `HandlersAdvance`: no step of a handler leads back (`Ahead`), so its end is at most
  six steps away once `EveryMessageAnswered` says that there is always one.
* `DispatchDecides`: for whatever a handler has read of the row, exactly one `Branch` of
  the dispatch is `Open`, and a step of that handler is one the branch does. The dispatch
  is a chain of conditions with early returns, split here into actions with guards of
  their own, and this is what says that the split is exact.
* `MessagesComeToEnd`: with weakly fair handlers, and `[]EveryMessageAnswered` as
  hypothesis, every handler ends.

`Screening_proofs`, for every number of images, readers, slots and tries, every cap
and number of faults, and every set of categories with `UNCLEAR` in it
(`ScreeningAssumption`):

* `TypeCorrect`. It says more than the shapes of the variables: a job past its
  screening has a verdict.
* `ToldMarked`: `Spec => []ToldIsMarked`. Inductive together with `Convinced`: a job
  about to write the array, or to tell the user, of an image the table has not
  refused stands for a mark the table already has. No later annotation takes a mark
  away (`AnnotatedKeeps`).
* `BatchPromise`: `Spec => BatchKeepsPromise`, with `SnapshotMarked`: a batch at its
  gate has in its snapshot the mark of each image it was promised.
* `SlotsBalanced`: `Spec => []SlotsBalance`. The jobs inside the block are finitely
  many and their number and `slots` add up to `Slots` (`Balance`): a step either
  leaves the set alone or adds or takes one job with its slot.
* `WorkerNeverBlocks` and `JobsAdvance`, what `QueueDrains` rests on. The guards of the
  worker's steps are never all shut: `Balance` frees the semaphore when nobody is inside
  the block, and with nobody started either the count of the queue is zero. A job's
  `StepsLeft` are eight for each try it has left and those of the try it is in; a try is
  counted when it begins, so a restart, which sends the job back to wait, costs it steps
  too.

`ConfigCache_proofs`, for every set of implementations and requests, every lifetime,
and every number of edits and faults (`CacheAssumption`):

* `TypeCorrect`.
* `ConfigIsRecent` and `KeywordsAreRecent`, from `Stamped`: each cache entry, load in
  progress, index and build in progress holds versions that were the database's at
  some moment since its stamp. The step lemmas rest on `SeenKept`: a later write is
  never earlier than a stamp already taken.
* `EditsAreSeen`: `Spec => []WebSeesItsEdits`, from `Edited`: a load in progress in
  the web process, too, has read a row no older than the last edit that returned.

`SessionStore_proofs`, for every number of files, wipes and faults, and of session ids
(`StoreAssumption`, `IdAssumption`):

* `TypeCorrect`: a handler past `get_or_create_session` holds an id (`Placed`).
* `AnnotationsArrive`: `Spec => []AnnotationArrives`, from `Links`: a session given out
  stays until a reset, and a handler's second lookup finds the session of the first one
  unless that is gone. So the UPDATE by session and path finds the file's row.
* `KeptIsRead`: `Spec => []ReaderSeesKept`. For a reader of the table from `Recorded`: a
  row of `session_files` that was inserted is there until a wipe. For a reader left with
  the array from `Entered`: while nothing is wiped and no other file's call writes back
  an array, the file stands in the array and in every copy its own job may write back.
* `EntriesOnce`: `Spec => []NoDuplicates`, from `Unfailed`: while no call has failed,
  every array and every stale copy a handler may write back holds acknowledged files
  only, each once, so an append adds a file none of them has.
* `NothingIsMissing`: a handler about to create the row has an id to give it and a wipe
  finds the row it is to empty. The first counts: each id given out, but that of the
  row there is, went with a wipe (`Spare`), and `IdAssumption` says that a finite set of ids has more of
  them than there are wipes, as uuid4 has.
* `HandlersAdvance`: whenever a handler moves, the steps it has left fall.
* `HandlersEnd`: `FairSpec /\ []GuardsDecide => HandlerEnds`, liveness for every number
  of files, wipes and faults. One rule of weak fairness for each of the eleven values of
  the steps left, put together by the temporal prover.

`Reports_proofs`, for every cap, every assignment of sessions and groups to projects,
and every number of everything (`ReportsAssumption`). `Good` says what the local
variables of a request are at each point of it:

* `TypeCorrect`.
* `FactsStay`: only an insert or a cascade changes a row of facts (`FactsChange`).
* `SessionsCountedOnce`: one project at most has counted a session's facts or is about
  to, and the facts stay filed under that one while the session lasts (`ClaimedOnce`).

`BatchAnalysis_proofs`, for every number of batches, files, slots and attempts, every
list a batch may find and all caps (`BatchAssumption`, `NoFileAssumption`):

* `TypeCorrect`: with `Balance` over `Holding`, as for `Screening`: the semaphore stays
  between zero and its slots.
* `DescriptionsTrue`: `Spec => []DescribedTruly`, from `Aligned` (position i of the
  tasks stands for position i of the images, then of the frames) and `Truthful`.
* `AllPicturesTold` (`NoneLost`) and `FailureMeansNothing` (`FailsWithNothing`), from
  `Accounts`. Until the results are collected every picture the caps let through is in
  the lists or excluded, and stands there once (`Listed`): those are the recent ones, and
  all of a kind whose cap is zero (`KeptRecent`, `RecentTaken`); the gate
  reorders and loses none (`GateKeeps`), a frame is of a video not seen before. When they are collected every task is done and has an answer or none
  (`Told`), so that the descriptions are these pictures less the lost ones
  (`AllTold`); an empty set of them is the failure the reply names. It rests on the
  assumption that each entry of a list is a file of its own: the code tells entries
  apart by their place alone.
* `BatchesAdvance`: each step takes one batch one place forward (`Rank` of a task, the
  videos seen, the stage) and no other batch back.
* `SlotsAreCalls`: `Balance`, of the calls to Vision and for a synthesis of all batches.
* `BatchesNeverBlock`: a batch under way has an open step, or wants a slot; if none is
  free, `Balance` names a holder, and a holder never wants one.
* The lemmas about `Pick` say that the list picked and the positions determine each
  other. That the k-th smallest position exists (`Ranked`) is an induction; it goes by
  the least counterexample, with the library's facts about well-founded orders that take
  no operator.

`Retention_proofs`, for every number of passes, sessions and faults and every page
size (`RetentionAssumption`). Arrays that were read, by a page or by a job, are good
however old they are (`RowGood`: their marked files are gone or refused):

* `TypeCorrect`, `MarksTrue` (`MarkedIsGone`) and `YoungKept` (`YoungUntouched`).
* `PassesSweep`: `Spec => PassSweeps`, from `Tracked`, which follows a pass that nobody
  disturbs: it knows the table as it is (`Rowed`, `Current`), its pages so far are the
  selected rows up to its offset, in the order of the table (`Paged`), so that at the
  last page every old session is in its list (`Covered`), and each file of the rows it
  has been through was tried (`Tried`).

Liveness. The prover has no rule for ENABLED and none for induction over temporal
formulas. Where the number of steps is fixed by the code the conclusion is proved all the
same, from the fairness of `FairSpec` and the one hypothesis that a guard that holds
enables its action (`GuardsDecide`, `RunsCanMove`, `EveryMessageAnswered`). TLC checks
`EveryMessageAnswered` in the run `demo_conversation`; the other two say the same of
`SessionStore` and `FieldSession`, and hold in every state of the instances of the runs
`session_store` and `field_session_progress`. To let the
proofs name it, the fairness of each process is a definition of its own (`FileMoves`,
`RunMoves`).

Only model-checked: `EveryMessageAnswered` itself, and `BusySettles`,
`TriggerIsAnswered`, `QueueDrains` and `BatchEnds`, whose number of steps grows with the
visits, tries, files or retries, so that they need an induction. Their safety content is
proved: the measure that falls (`RunsAdvance`, `JobsAdvance`, `BatchesAdvance`), that
nobody is stuck before it is zero (`RowsArePlanned`, `WorkerNeverBlocks`,
`BatchesNeverBlock`) and what holds at the end (`TriggersAreTold`). Every other property
of a passing run is a theorem.

## 5. Not modelled, and why

* Failed jobs: `worker.py:148` defines the handler that would record a job that failed
  for good, and no settings register it, so the table stays empty and its routes have
  nothing to retry. The digest is one read and one message.
* `consolidate-analysis` (`admin.py:1188`) imports a function that does not exist: it
  answers with an error and changes nothing.
* Exports, PDFs, compliance scores: reads, layout, one insert.
* Authentication: permissions are a table of data checked per request; nothing of it
  depends on an order of events.
* Prompts, parsing of answers, sizes and formats of media: a model's answer is a choice
  over the outcomes the code tells apart.
* Sending: Twilio's retries of an outgoing message are outside the code; `told` records
  that the code handed one over.
* The simulator, health checks and scripts keep no state.

## 6. Plan

Done: the modules of section 2 and the theorems of section 4. What could follow, in
this order:

1. The instant mode and the abuse caps of the demo numbers, and the whitelist with its
   fallback, in `DemoConversation`.
2. The composition of `SessionStore` with `Reports` and `Retention`, where some readers
   take the array and others the table of files.
