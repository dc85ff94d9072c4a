-------------------------- MODULE DemoConversation --------------------------
(***************************************************************************)
(* A visitor's conversation with a demo number: the dispatch of            *)
(* webhook._webhook_inner when the number is bound to an open demo (Home), *)
(* with the columns of the visitor's users row it reads and writes, the    *)
(* files of today's session and the batch analyses it spawns.              *)
(*                                                                         *)
(* Twilio may deliver a message more than once; the handlers of different  *)
(* messages interleave.  Each reads the user's row once, early, and acts   *)
(* on that snapshot after further awaits.  Any database call may fail: a   *)
(* failed read of the row reads as no row, a failed write of a prompt as   *)
(* nothing, and an exception goes to the nearest handler of the code.      *)
(***************************************************************************)
EXTENDS Naturals, FiniteSets

CONSTANTS
    Msg,        \* places for a message and its batch: how many may be in flight
    Impl,       \* implementations, all open demos in explicit batch mode
    Home,       \* the one bound to the WhatsApp number
    NoImpl,     \* users.implementation of nobody, or after a reset
    Terms,      \* implementations whose onboarding requires accepted terms
    Company,    \* implementations a POC visitor may name
    Retail,     \* the general demo: its keywords escape a pending prompt
    MaxSent,    \* bound: deliveries, and one redelivery more for each restart
    MaxRestarts \* restarts of the web process the model suffers

ASSUME ImplAssumption ==
    /\ Home \in Impl /\ Retail \in Impl /\ \E d \in Impl : d # Retail
    /\ NoImpl \notin Impl
    /\ Terms \subseteq Impl /\ Company \subseteq Impl
    /\ MaxSent \in Nat /\ MaxRestarts \in Nat

VARIABLES
    \* the users row
    known,      \* it exists
    impl,       \* implementation
    accepted,   \* accepted_terms
    poc,        \* pending_poc_selection_at is set and within its TTL
    loc,        \* pending_location_request_at, likewise
    contact,    \* pending_contact_request_at, likewise
    \* the session_files of today's session
    photos,     \* the demos its photos were sent to
    place,      \* a location row is among them: shared, or typed as an answer
    \* memory of the web process
    seen,       \* _seen_sids
    menu,       \* the phone is in _pending_menu
    \* handlers
    at,         \* where the handler of each message stands
    asks,       \* what each message says
    snap,       \* the users row as its handler read it
    under,      \* resolved_impl: the demo its handler takes it for
    batch,      \* the batch analysis it spawned, until that has told the visitor
    work,       \* while it runs: its demo, the demos of the photos it read,
                \* and whether they were mixed then
    \* history
    handled,    \* times each message was taken in hand
    sent,       \* deliveries so far
    mixed,      \* the session's files may be of two demos: a switch without
                \* a wipe (the menu's, or one cut short), two handlers at once, or
                \* one that takes its message for another demo than the row's
    restarts

userVars == <<known, impl, accepted, poc, loc, contact>>
fileVars == <<photos, place>>
webVars == <<seen, menu>>
batchVars == <<batch, work>>
histVars == <<handled, sent, restarts, mixed>>
vars == <<userVars, fileVars, webVars, at, asks, snap, under, batchVars, histVars>>

\* What a message can say; a keyword names a demo.  A digit picks a demo
\* from the menu.
Ask ==
    [says : {"photo", "audio", "place", "sample", "accept", "menu", "reset", "poc",
             "otro", "contacto", "generar", "other"}, demo : {NoImpl}]
    \cup [says : {"keyword", "digit"}, demo : Impl]

Row == [known : BOOLEAN, impl : Impl \cup {NoImpl}, accepted : BOOLEAN,
        poc : BOOLEAN, loc : BOOLEAN, contact : BOOLEAN]

User == [known |-> known, impl |-> impl, accepted |-> accepted,
         poc |-> poc, loc |-> loc, contact |-> contact]

NoRow == [known |-> FALSE, impl |-> NoImpl, accepted |-> FALSE,
          poc |-> FALSE, loc |-> FALSE, contact |-> FALSE]

NoWork == [demo |-> Home, of |-> {}, mixed |-> FALSE]

\* In the access check ("stay": past the keyword), or past it: as usual, after
\* an exception in it, or after one before any configuration was loaded.
Dispatching == {"read", "stay", "passed", "bare"}

InFlight == {"arrived", "wipe", "unflag", "look", "question", "saved"} \cup Dispatching

TypeOK ==
    /\ User \in Row
    /\ photos \in SUBSET Impl
    /\ place \in BOOLEAN
    /\ seen \in SUBSET Msg /\ menu \in BOOLEAN
    /\ at \in [Msg -> {"new", "done"} \cup InFlight]
    /\ asks \in [Msg -> Ask]
    /\ snap \in [Msg -> Row] /\ under \in [Msg -> Impl]
    /\ batch \in [Msg -> {"none", "spawned", "analysing"}]
    /\ work \in [Msg -> [demo : Impl, of : SUBSET Impl, mixed : BOOLEAN]]
    /\ handled \in [Msg -> Nat]
    /\ sent \in 0..(MaxSent + MaxRestarts)
    /\ mixed \in BOOLEAN
    /\ restarts \in 0..MaxRestarts

Init ==
    /\ known = FALSE /\ impl = NoImpl /\ accepted = FALSE
    /\ poc = FALSE /\ loc = FALSE /\ contact = FALSE
    /\ photos = {} /\ place = FALSE
    /\ seen = {} /\ menu = FALSE
    /\ at = [m \in Msg |-> "new"]
    /\ asks = [m \in Msg |-> [says |-> "other", demo |-> NoImpl]]
    /\ snap = [m \in Msg |-> NoRow] /\ under = [m \in Msg |-> Home]
    /\ batch = [m \in Msg |-> "none"]
    /\ work = [m \in Msg |-> NoWork]
    /\ handled = [m \in Msg |-> 0]
    /\ sent = 0
    /\ mixed = FALSE
    /\ restarts = 0

(***************************************************************************)
(* Delivery.  A SID is marked before anything else is known of the         *)
(* message, in memory: a redelivery is taken in hand only after a restart. *)
(* (Entries also age out, after five minutes, later than Twilio retries.)  *)
(***************************************************************************)
\* Mutant of IsDuplicate: the SID is never found.
NeverSeen(m) == FALSE

IsDuplicate(m) == m \in seen

\* No other handler is in flight.
Alone(m) == \A n \in Msg \ {m} : at[n] \notin InFlight

Take(m, times) ==
    /\ mixed' = (mixed \/ ~Alone(m))
    /\ seen' = seen \cup {m}
    /\ handled' = [handled EXCEPT ![m] = times]
    /\ at' = [at EXCEPT ![m] = "arrived"]
    /\ UNCHANGED <<userVars, fileVars, menu, snap, under, work, restarts>>

\* A message with a new SID.  Bound: it waits for a place.
Receive(m, a) ==
    /\ sent < MaxSent
    /\ sent' = sent + 1
    /\ at[m] \notin InFlight /\ batch[m] = "none"
    /\ asks' = [asks EXCEPT ![m] = a]
    /\ Take(m, 1)
    /\ UNCHANGED batch

Redeliver(m) ==
    /\ at[m] = "done"
    /\ ~IsDuplicate(m)
    /\ sent < MaxSent + restarts
    /\ sent' = sent + 1
    /\ Take(m, handled[m] + 1)
    /\ UNCHANGED <<batch, asks>>

(***************************************************************************)
(* What a message is taken for, in the order of the code's early returns.  *)
(***************************************************************************)
\* The handler is over; what it had read goes with it.
Leaves(m) ==
    /\ at' = [at EXCEPT ![m] = "done"]
    /\ snap' = [snap EXCEPT ![m] = NoRow]
    /\ under' = [under EXCEPT ![m] = Home]

\* It has sent its answer.
Answered(m) == Leaves(m)

\* The handler goes on to its next database call.
Onward(m, where) ==
    /\ at' = [at EXCEPT ![m] = where]
    /\ UNCHANGED <<snap, under>>

Says(m, word) == asks[m].says = word

\* Mutant of Resolved: a row without a demo is not sent to the number's.
ResolvedFromRow(row) == row.impl

\* Sticky switching: a row that names an open demo overrides the number's.
Resolved(row) == IF row.impl = NoImpl THEN Home ELSE row.impl

\* The demo of the row as it stands.
Demo == Resolved(User)

\* A failed query reads as no row; a user's demo that fails to load leaves the
\* message with the number's.
ReadUser(m, found, loads) ==
    /\ at[m] = "arrived"
    /\ snap' = [snap EXCEPT ![m] = IF found THEN User ELSE NoRow]
    /\ under' = [under EXCEPT ![m] = IF found /\ loads THEN Demo ELSE Home]
    /\ at' = [at EXCEPT ![m] = "read"]
    /\ mixed' = (mixed \/ under'[m] # Demo)
    /\ UNCHANGED <<userVars, fileVars, webVars, asks, batchVars, handled, sent, restarts>>

\* A keyword is compared with the number's demo, not with the visitor's.
IsSwitch(m) == Says(m, "keyword") /\ asks[m].demo # Home

\* No keyword has led away: there is none, or its demo does not load.
Unswitched(m) == at[m] = "stay" \/ (at[m] = "read" /\ ~IsSwitch(m))

\* Terms are asked of visitors who have a row and have not accepted them.
TermsPending(m) == snap[m].known /\ under[m] \in Terms /\ ~snap[m].accepted

\* The message gets past the keyword switch, the sample and the terms, or an
\* exception takes it past them.
Admitted(m) ==
    \/ at[m] \in {"passed", "bare"}
    \/ Unswitched(m) /\ ~Says(m, "sample") /\ ~TermsPending(m)

\* impl_config is there: every implementation of the model is a demo.
IsDemo(m) == at[m] # "bare"

IsText(m) == asks[m].says \notin {"photo", "audio", "place"}

\* Text that no menu, reset or POC request has claimed.
IsPlain(m) ==
    /\ Admitted(m) /\ IsText(m) /\ ~menu /\ ~Says(m, "menu")
    /\ IsDemo(m) => asks[m].says \notin {"reset", "poc"}

NamesCompany(m) == Says(m, "keyword") /\ asks[m].demo \in Company

\* DEMO_ESCAPE_KEYWORDS.
Escapes(m) ==
    \/ asks[m].says \in {"generar", "otro", "contacto"}
    \/ Says(m, "keyword") /\ asks[m].demo = Retail

\* The prompts concern demos only; the request for contact data does not.
AwaitsCompany(m) == IsDemo(m) /\ snap[m].poc

AwaitsPlace(m) == IsDemo(m) /\ snap[m].loc

PassesPoc(m) == IsPlain(m) /\ (AwaitsCompany(m) => ~NamesCompany(m) /\ Escapes(m))

PassesLoc(m) == PassesPoc(m) /\ (AwaitsPlace(m) => Escapes(m) \/ NamesCompany(m))

PassesContact(m) == PassesLoc(m) /\ ~snap[m].contact

\* What a flag may be after the code clears it: the update may have failed.
Cleared(flag) == {FALSE, flag}

\* The prompts a message has escaped are cleared on its way.
ClearEscaped(m) ==
    /\ poc' \in IF AwaitsCompany(m) THEN Cleared(poc) ELSE {poc}
    /\ loc' \in IF AwaitsPlace(m) THEN Cleared(loc) ELSE {loc}

\* upsert_user, called when the snapshot had no row.
EnsureUser(m) ==
    /\ known' = TRUE
    /\ impl' = IF snap[m].known THEN impl ELSE under[m]

(***************************************************************************)
(* Switching demos: the row, then the session's files, then the flags.     *)
(***************************************************************************)
SwitchTo(m, d) ==
    /\ known' = TRUE
    /\ impl' = d
    /\ Onward(m, "wipe")
    /\ UNCHANGED <<accepted, contact, fileVars, webVars, asks, batchVars, histVars>>

SwitchByKeyword(m) ==
    /\ at[m] = "read" /\ IsSwitch(m)
    /\ SwitchTo(m, asks[m].demo)
    /\ UNCHANGED <<poc, loc>>

\* The company named is the number's own demo: the keyword switch ignored it.
SwitchByCompany(m) ==
    /\ IsPlain(m) /\ AwaitsCompany(m) /\ NamesCompany(m)
    /\ SwitchTo(m, asks[m].demo)
    /\ UNCHANGED <<poc, loc>>

\* OTHER_DEMO_MAP, for two demos.
OtherDemo(d) == IF d = Retail THEN CHOOSE e \in Impl : e # Retail ELSE Retail

SwitchByOtro(m) ==
    /\ PassesContact(m) /\ IsDemo(m) /\ Says(m, "otro")
    /\ SwitchTo(m, OtherDemo(under[m]))
    /\ ClearEscaped(m)

\* Mutant of Wipe: "otro" keeps the session's files.
WipeUnlessOtro(m, ok) ==
    /\ at[m] = "wipe"
    /\ IF ok /\ ~Says(m, "otro") THEN photos' = {} /\ place' = FALSE ELSE UNCHANGED fileVars
    /\ mixed' = IF ok /\ Alone(m) THEN FALSE ELSE mixed \/ ~ok
    /\ IF Says(m, "otro") THEN Answered(m) ELSE Onward(m, "unflag")
    /\ UNCHANGED <<userVars, webVars, asks, batchVars, handled, sent, restarts>>

\* clear_session_files_today, whose errors are logged and swallowed.  "otro"
\* is done then.
Wipe(m, ok) ==
    /\ at[m] = "wipe"
    /\ IF ok THEN photos' = {} /\ place' = FALSE ELSE UNCHANGED fileVars
    /\ mixed' = IF ok /\ Alone(m) THEN FALSE ELSE mixed \/ ~ok
    /\ IF Says(m, "otro") THEN Answered(m) ELSE Onward(m, "unflag")
    /\ UNCHANGED <<userVars, webVars, asks, batchVars, handled, sent, restarts>>

Unflag(m) ==
    /\ at[m] = "unflag"
    /\ poc' \in Cleared(poc)
    /\ loc' \in IF IsSwitch(m) THEN Cleared(loc) ELSE {loc}
    /\ Answered(m)
    /\ UNCHANGED <<known, impl, accepted, contact, fileVars, webVars, asks, batchVars,
                   histVars>>

SendSample(m) ==
    /\ Unswitched(m) /\ Says(m, "sample")
    /\ Answered(m)
    /\ UNCHANGED <<userVars, fileVars, webVars, asks, batchVars, histVars>>

\* Whatever else the message is, it is answered with the terms.
AskTerms(m) ==
    /\ Unswitched(m) /\ ~Says(m, "sample") /\ TermsPending(m)
    /\ accepted' = (accepted \/ Says(m, "accept"))
    /\ Answered(m)
    /\ UNCHANGED <<known, impl, poc, loc, contact, fileVars, webVars, asks, batchVars,
                   histVars>>

(***************************************************************************)
(* Media.                                                                  *)
(***************************************************************************)
\* The POC prompt holds photos back.  A photo that cannot be downloaded is
\* answered too, and so is one whose row is not inserted.
TakePhoto(m, kept) ==
    /\ Admitted(m) /\ Says(m, "photo")
    /\ photos' = IF ~snap[m].poc /\ kept THEN photos \cup {under[m]} ELSE photos
    /\ Answered(m)
    /\ UNCHANGED <<userVars, place, webVars, asks, batchVars, histVars>>

\* What place may be after a location row is inserted: the insert may fail.
Placed == {TRUE, place}

\* Audio is the questionnaire's answer while one is awaited and the
\* transcript is not empty; otherwise it changes nothing that is modelled.
TakeAudio(m, heard) ==
    /\ Admitted(m) /\ Says(m, "audio")
    /\ IF AwaitsPlace(m) /\ heard
       THEN /\ place' \in Placed
            /\ Onward(m, "saved")
       ELSE /\ UNCHANGED place
            /\ Answered(m)
    /\ UNCHANGED <<userVars, photos, webVars, asks, batchVars, histVars>>

TakePlace(m) ==
    /\ Admitted(m) /\ Says(m, "place")
    /\ place' \in Placed
    /\ loc' \in Cleared(loc)
    /\ Answered(m)
    /\ UNCHANGED <<known, impl, accepted, poc, contact, photos, webVars, asks, batchVars,
                   histVars>>

(***************************************************************************)
(* Text.                                                                   *)
(***************************************************************************)
ShowMenu(m) ==
    /\ Admitted(m) /\ Says(m, "menu")
    /\ menu' = TRUE
    /\ Answered(m)
    /\ UNCHANGED <<userVars, fileVars, seen, asks, batchVars, histVars>>

\* With the menu up every other text is taken for a choice, valid or not.
PickFromMenu(m) ==
    /\ Admitted(m) /\ IsText(m) /\ menu /\ ~Says(m, "menu")
    /\ menu' = ~Says(m, "digit")
    /\ impl' = IF Says(m, "digit") /\ known THEN asks[m].demo ELSE impl
    /\ mixed' = (mixed \/ impl' # impl)
    /\ Answered(m)
    /\ UNCHANGED <<known, accepted, poc, loc, contact, fileVars, seen, asks, batchVars,
                   handled, sent, restarts>>

\* reset_demo_session deletes the session's row and empties the user's.  Each
\* statement's failure is logged, and the next one tried.
Reset(m, wiped, cleared) ==
    /\ Admitted(m) /\ IsDemo(m) /\ Says(m, "reset") /\ ~menu
    /\ IF wiped THEN photos' = {} /\ place' = FALSE ELSE UNCHANGED fileVars
    /\ IF cleared
       THEN /\ impl' = NoImpl
            /\ accepted' = FALSE /\ poc' = FALSE /\ loc' = FALSE /\ contact' = FALSE
       ELSE UNCHANGED <<impl, accepted, poc, loc, contact>>
    /\ mixed' = IF wiped /\ Alone(m) THEN FALSE ELSE mixed \/ ~wiped
    /\ Answered(m)
    /\ UNCHANGED <<known, webVars, asks, batchVars, handled, sent, restarts>>

AskCompany(m) ==
    /\ Admitted(m) /\ IsDemo(m) /\ Says(m, "poc") /\ ~menu
    /\ EnsureUser(m)
    /\ poc' \in {TRUE, poc}
    /\ Answered(m)
    /\ UNCHANGED <<accepted, loc, contact, fileVars, webVars, asks, batchVars, histVars>>

UnknownCompany(m) ==
    /\ IsPlain(m) /\ AwaitsCompany(m) /\ ~NamesCompany(m) /\ ~Escapes(m)
    /\ Answered(m)
    /\ UNCHANGED <<userVars, fileVars, webVars, asks, batchVars, histVars>>

\* Any other text answers the questionnaire: it is saved as a location row.
AnswerQuestionnaire(m) ==
    /\ PassesPoc(m) /\ AwaitsPlace(m) /\ ~Escapes(m) /\ ~NamesCompany(m)
    /\ place' \in Placed
    /\ Onward(m, "saved")
    /\ UNCHANGED <<userVars, photos, webVars, asks, batchVars, histVars>>

\* create_task(_run_demo_batch_safe).
Spawn(m) ==
    /\ batch' = [batch EXCEPT ![m] = "spawned"]
    /\ work' = [work EXCEPT ![m].demo = under[m]]

RunAfterAnswer(m) ==
    /\ at[m] = "saved"
    /\ loc' \in Cleared(loc)
    /\ Spawn(m)
    /\ Answered(m)
    /\ UNCHANGED <<known, impl, accepted, poc, contact, fileVars, webVars, asks, histVars>>

\* Any text, commands included, is the lead.
TakeLead(m) ==
    /\ PassesLoc(m) /\ snap[m].contact
    /\ ClearEscaped(m)
    /\ contact' \in Cleared(contact)
    /\ Answered(m)
    /\ UNCHANGED <<known, impl, accepted, fileVars, webVars, asks, batchVars, histVars>>

AskContact(m) ==
    /\ PassesContact(m) /\ IsDemo(m) /\ Says(m, "contacto")
    /\ ClearEscaped(m)
    /\ EnsureUser(m)
    /\ contact' \in {TRUE, contact}
    /\ Answered(m)
    /\ UNCHANGED <<accepted, fileVars, webVars, asks, batchVars, histVars>>

\* "generar" is an escape word, so a pending questionnaire is cleared here,
\* and the code's later test for one never succeeds.
Generar(m) ==
    /\ PassesContact(m) /\ IsDemo(m) /\ Says(m, "generar")
    /\ ClearEscaped(m)
    /\ Onward(m, "look")
    /\ UNCHANGED <<known, impl, accepted, contact, fileVars, webVars, asks, batchVars,
                   histVars>>

LookForContext(m) ==
    /\ at[m] = "look"
    /\ IF place THEN Spawn(m) /\ Answered(m)
       ELSE Onward(m, "question") /\ UNCHANGED batchVars
    /\ UNCHANGED <<userVars, fileVars, webVars, asks, histVars>>

\* set_pending_location_request updates the row, if there is one.
SendQuestionnaire(m) ==
    /\ at[m] = "question"
    /\ loc' \in {known, loc}
    /\ Answered(m)
    /\ UNCHANGED <<known, impl, accepted, poc, contact, fileVars, webVars, asks, batchVars,
                   histVars>>

\* Mutant of NotUnderstood: no help for a keyword of the number's own demo.
NotUnderstoodWords(m) ==
    /\ PassesContact(m) /\ IsDemo(m)
    /\ asks[m].says \in {"accept", "digit", "other"}
    /\ ClearEscaped(m)
    /\ Answered(m)
    /\ UNCHANGED <<known, impl, accepted, contact, fileVars, webVars, asks, batchVars,
                   histVars>>

NotUnderstood(m) ==
    /\ PassesContact(m) /\ IsDemo(m)
    /\ asks[m].says \notin {"otro", "contacto", "generar"}
    /\ ClearEscaped(m)
    /\ Answered(m)
    /\ UNCHANGED <<known, impl, accepted, contact, fileVars, webVars, asks, batchVars,
                   histVars>>

\* Without a configuration the text goes to the field agents' handle_text,
\* which notes it without a word.  (A trigger word among them starts a run of
\* module FieldSession.)
NoteAsField(m) ==
    /\ PassesContact(m) /\ ~IsDemo(m)
    /\ Leaves(m)
    /\ UNCHANGED <<userVars, fileVars, webVars, asks, batchVars, histVars>>

(***************************************************************************)
(* Batch analyses.                                                         *)
(***************************************************************************)
\* Without photos the visitor is told so at once.
BatchReads(m) ==
    /\ batch[m] = "spawned" /\ photos # {}
    /\ batch' = [batch EXCEPT ![m] = "analysing"]
    /\ work' = [work EXCEPT ![m].of = photos, ![m].mixed = mixed]
    /\ UNCHANGED <<userVars, fileVars, webVars, at, asks, snap, under, histVars>>

\* The report, the content gate's refusal, or an apology.
BatchTells(m) ==
    /\ batch[m] = "analysing" \/ (batch[m] = "spawned" /\ photos = {})
    /\ batch' = [batch EXCEPT ![m] = "none"]
    /\ work' = [work EXCEPT ![m] = NoWork]
    /\ UNCHANGED <<userVars, fileVars, webVars, at, asks, snap, under, histVars>>

(***************************************************************************)
(* The environment.                                                        *)
(***************************************************************************)
\* A pending prompt outlives its TTL.
Expire ==
    /\ \/ poc /\ poc' = FALSE /\ UNCHANGED <<loc, contact>>
       \/ loc /\ loc' = FALSE /\ UNCHANGED <<poc, contact>>
       \/ contact /\ contact' = FALSE /\ UNCHANGED <<poc, loc>>
    /\ UNCHANGED <<known, impl, accepted, fileVars, webVars, at, asks, snap, under,
                   batchVars, histVars>>

(***************************************************************************)
(* Exceptions.  Those of the access check are caught at its end, and the   *)
(* message goes on with what the handler knows by then.                    *)
(***************************************************************************)
\* The demo a keyword names does not load: no switch.
NoTarget(m) ==
    /\ at[m] = "read" /\ IsSwitch(m)
    /\ Onward(m, "stay")
    /\ UNCHANGED <<userVars, fileVars, webVars, asks, batchVars, histVars>>

\* The handler is left with the number's demo and no configuration.
GoesBare(m) ==
    /\ at' = [at EXCEPT ![m] = "bare"]
    /\ under' = [under EXCEPT ![m] = Home]
    /\ UNCHANGED snap

\* The keyword index or the number's implementation does not load.
AccessFails(m) ==
    /\ at[m] \in {"read", "stay"}
    /\ GoesBare(m)
    /\ mixed' = (mixed \/ Demo # Home)
    /\ UNCHANGED <<userVars, fileVars, webVars, asks, batchVars, handled, sent, restarts>>

\* upsert_user raises before its write, or after it was executed.
SwitchRaises(d, wrote) ==
    /\ known' = (known \/ wrote)
    /\ impl' = IF wrote THEN d ELSE impl
    /\ UNCHANGED <<accepted, contact, fileVars, webVars, asks, batchVars, handled, sent, restarts>>

KeywordFails(m, wrote) ==
    /\ at[m] = "read" /\ IsSwitch(m)
    /\ SwitchRaises(asks[m].demo, wrote)
    /\ GoesBare(m)
    /\ mixed' = (mixed \/ wrote \/ Demo # Home)
    /\ UNCHANGED <<poc, loc>>

\* The other switches catch it and say so.
CompanyFails(m, wrote) ==
    /\ IsPlain(m) /\ AwaitsCompany(m) /\ NamesCompany(m)
    /\ SwitchRaises(asks[m].demo, wrote)
    /\ mixed' = (mixed \/ wrote)
    /\ poc' \in Cleared(poc)
    /\ Answered(m)
    /\ UNCHANGED loc

OtroFails(m, wrote) ==
    /\ PassesContact(m) /\ IsDemo(m) /\ Says(m, "otro")
    /\ SwitchRaises(OtherDemo(under[m]), wrote)
    /\ mixed' = (mixed \/ wrote)
    /\ ClearEscaped(m)
    /\ Answered(m)

\* The call that records the acceptance raises, before or after it did.
AcceptFails(m, wrote) ==
    /\ Unswitched(m) /\ TermsPending(m) /\ Says(m, "accept")
    /\ accepted' = (accepted \/ wrote)
    /\ Onward(m, "passed")
    /\ UNCHANGED <<known, impl, poc, loc, contact, fileVars, webVars, asks, batchVars,
                   histVars>>

\* Any other exception is logged and answered 200 without a word.
RequestFails(m) ==
    /\ at[m] \in InFlight
    /\ Leaves(m)
    /\ mixed' = (mixed \/ at[m] = "wipe")
    /\ UNCHANGED <<userVars, fileVars, webVars, asks, batchVars, handled, sent, restarts>>

CallRaises(m) ==
    \/ NoTarget(m) \/ AccessFails(m) \/ RequestFails(m)
    \/ \E wrote \in BOOLEAN :
          KeywordFails(m, wrote) \/ CompanyFails(m, wrote) \/ OtroFails(m, wrote) \/ AcceptFails(m, wrote)

Restart ==
    /\ restarts < MaxRestarts
    /\ restarts' = restarts + 1
    /\ seen' = {} /\ menu' = FALSE
    /\ at' = [m \in Msg |-> IF at[m] \in InFlight THEN "done" ELSE at[m]]
    /\ snap' = [m \in Msg |-> NoRow] /\ under' = [m \in Msg |-> Home]
    /\ mixed' = (mixed \/ \E m \in Msg : at[m] = "wipe")
    /\ batch' = [m \in Msg |-> "none"]
    /\ work' = [m \in Msg |-> NoWork]
    /\ UNCHANGED <<userVars, fileVars, asks, handled, sent>>

HandlerStep(m) ==
    \/ \E found, loads \in BOOLEAN : ReadUser(m, found, loads)
    \/ SwitchByKeyword(m) \/ SwitchByCompany(m) \/ SwitchByOtro(m) \/ Unflag(m)
    \/ \E ok \in BOOLEAN : Wipe(m, ok)
    \/ SendSample(m)
    \/ AskTerms(m)
    \/ \E kept \in BOOLEAN : TakePhoto(m, kept)
    \/ \E heard \in BOOLEAN : TakeAudio(m, heard)
    \/ TakePlace(m)
    \/ ShowMenu(m) \/ PickFromMenu(m)
    \/ \E wiped, cleared \in BOOLEAN : Reset(m, wiped, cleared)
    \/ AskCompany(m) \/ UnknownCompany(m)
    \/ AnswerQuestionnaire(m) \/ RunAfterAnswer(m)
    \/ TakeLead(m) \/ AskContact(m)
    \/ Generar(m) \/ LookForContext(m) \/ SendQuestionnaire(m)
    \/ NotUnderstood(m) \/ NoteAsField(m)

BatchStep(m) == BatchReads(m) \/ BatchTells(m)

Next ==
    \/ \E m \in Msg, a \in Ask : Receive(m, a)
    \/ \E m \in Msg : Redeliver(m)
    \/ \E m \in Msg : HandlerStep(m)
    \/ \E m \in Msg : BatchStep(m)
    \/ Expire
    \/ \E m \in Msg : CallRaises(m)
    \/ Restart

Spec == Init /\ [][Next]_vars

-----------------------------------------------------------------------------
(***************************************************************************)
(* Properties.                                                             *)
(***************************************************************************)
\* "Prevents Twilio retry from re-processing the same message": each life of
\* the process takes a message in hand once at most.
ProcessedOncePerLife == \A m \in Msg : handled[m] <= restarts + 1

\* "Each demo switch wipes previously accumulated files so reports don't mix
\* contexts": whatever row of messages led there, with redeliveries, restarts and
\* writes that failed, the photos of the session are of the demo the user's row
\* names now, and a report is about one demo.  Four causes break it, until the
\* next wipe of a lone handler: handlers that overlap, a menu choice, a switch
\* whose wipe or upsert failed, and a handler that could not read the row or load
\* its demo.
OneDemoPerSession ==
    /\ ~mixed /\ (\A m \in Msg : at[m] # "wipe") => photos \subseteq {Demo}
    /\ \A m \in Msg : ~work[m].mixed => \A d, e \in work[m].of : d = e

\* No message is left between two branches: whatever the prompts pending when
\* its row was read, whatever other handlers have changed since, and wherever the
\* access check broke off, some branch of the dispatch takes it on.  (No handler
\* step leads back, so each then comes to its end: an answer, but for a text that
\* reaches the field agents' notes.)
EveryMessageAnswered ==
    \A m \in Msg : at[m] \in InFlight => ENABLED <<HandlerStep(m)>>_vars
=============================================================================
