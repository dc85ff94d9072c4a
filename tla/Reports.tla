------------------------------- MODULE Reports -------------------------------
(***************************************************************************)
(* The backoffice's reports (admin.py, analyzer.py): of one session, of a  *)
(* user group, of a whole project.  Each is built on the facts of          *)
(* sessions, rows of `session_facts' that whoever needs them first         *)
(* extracts and stores.                                                    *)
(*                                                                         *)
(* The routes call the database with a client that blocks the event loop,  *)
(* so a request runs alone from one await to the next: an action below     *)
(* ends where the code awaits a model's answer or, once, a thread.         *)
(* A report that is stored is read by no other request: what is kept of it *)
(* is only which projects have counted a session.                          *)
(***************************************************************************)
EXTENDS Integers, FiniteSets

CONSTANTS
    Session,    \* sessions, each of a user of its own
    Impl,       \* implementations (projects)
    Group,      \* user groups
    Framework,  \* analysis frameworks, the same in every implementation
    Request,    \* requests that may be in flight at once
    ImplOf,     \* sessions.implementation
    GroupImpl,  \* user_groups.implementation_id
    NoGroup,    \* users.group_id of a user without one
    NoImpl,     \* no implementation
    Cap,        \* sessions a group report extracts facts of: 20
    MaxVersion  \* bound: times the evidence of a session changes

ASSUME ReportsAssumption ==
    /\ ImplOf \in [Session -> Impl]
    /\ GroupImpl \in [Group -> Impl]
    /\ NoGroup \notin Group
    /\ NoImpl \notin Impl
    /\ Cap \in Nat
    /\ MaxVersion \in Nat

VARIABLES
    evidence,   \* version of what a session's files say; 0: nothing, Gone: deleted
    member,     \* users.group_id, by the user's session
    facts,      \* session_facts: by session and framework
    stage,      \* where each request stands
    job,        \* what it is about
    todo,       \* frameworks or sessions left of its loop
    now,        \* the one it is at
    read,       \* version of the evidence it writes about
    rows,       \* sessions whose facts are in the text
    counted     \* history: implementations whose project reports counted a session

dataVars == <<evidence, member, facts>>
reqVars == <<stage, job, todo, now, read, rows>>
vars == <<dataVars, reqVars, counted>>

Gone == -1
NoFacts == [impl |-> NoImpl, version |-> 0]
HasFacts(s, f) == facts[s][f] # NoFacts

NoJob == [kind |-> "none", about |-> NoGroup, frameworks |-> {}]

Item == Session \cup Framework \cup {NoGroup}

TypeOK ==
    /\ evidence \in [Session -> {Gone} \cup (0..MaxVersion)]
    /\ member \in [Session -> Group \cup {NoGroup}]
    /\ facts \in [Session -> [Framework ->
                    [impl : Impl \cup {NoImpl}, version : 0..MaxVersion]]]
    /\ stage \in [Request -> {"idle", "reading", "writing", "extracting",
                              "grouping", "merging"}]
    /\ job \in [Request -> [kind : {"none", "single", "all", "group", "project"},
                            about : Session \cup Group \cup Impl \cup {NoGroup},
                            frameworks : SUBSET Framework]]
    /\ todo \in [Request -> SUBSET Item]
    /\ now \in [Request -> Item]
    /\ read \in [Request -> 0..MaxVersion]
    /\ rows \in [Request -> SUBSET Session]
    /\ counted \in [Session -> [Framework -> SUBSET Impl]]

Init ==
    /\ evidence = [s \in Session |-> 0]
    /\ member = [s \in Session |-> NoGroup]
    /\ facts = [s \in Session |-> [f \in Framework |-> NoFacts]]
    /\ stage = [r \in Request |-> "idle"]
    /\ job = [r \in Request |-> NoJob]
    /\ todo = [r \in Request |-> {}]
    /\ now = [r \in Request |-> NoGroup]
    /\ read = [r \in Request |-> 0]
    /\ rows = [r \in Request |-> {}]
    /\ counted = [s \in Session |-> [f \in Framework |-> {}]]

\* What a request looks like after a step of its coroutine.
Becomes(r, where, j, t, n, v, w) ==
    /\ stage' = [stage EXCEPT ![r] = where]
    /\ job' = [job EXCEPT ![r] = j]
    /\ todo' = [todo EXCEPT ![r] = t]
    /\ now' = [now EXCEPT ![r] = n]
    /\ read' = [read EXCEPT ![r] = v]
    /\ rows' = [rows EXCEPT ![r] = w]

\* The route answers, and nothing of the request is left.
Answer(r) == Becomes(r, "idle", NoJob, {}, NoGroup, 0, {})

(***************************************************************************)
(* The rest of the system: files and annotations arrive, a demo session is *)
(* reset and its facts with it (ON DELETE CASCADE), users change groups.   *)
(***************************************************************************)
Annotate(s) ==
    /\ evidence[s] \in 0..(MaxVersion - 1)
    /\ evidence' = [evidence EXCEPT ![s] = @ + 1]
    /\ UNCHANGED <<member, facts, reqVars, counted>>

ResetSession(s) ==
    /\ evidence[s] # Gone
    /\ evidence' = [evidence EXCEPT ![s] = Gone]
    /\ facts' = [facts EXCEPT ![s] = [f \in Framework |-> NoFacts]]
    /\ UNCHANGED <<member, reqVars, counted>>

\* add_group_member takes any group, of whatever implementation.
AddMember(s, g) ==
    /\ member' = [member EXCEPT ![s] = g]
    /\ UNCHANGED <<evidence, facts, reqVars, counted>>

RemoveMember(s, g) ==
    /\ member[s] = g
    /\ member' = [member EXCEPT ![s] = NoGroup]
    /\ UNCHANGED <<evidence, facts, reqVars, counted>>

(***************************************************************************)
(* Storing facts.  The upsert names no conflict target, so it is an        *)
(* insert: UNIQUE (session_id, framework) and the foreign key decide.      *)
(***************************************************************************)
\* Mutant of Accepted: the upsert replaces the row of the session and framework.
AcceptedAgain(s, f) == evidence[s] # Gone

Accepted(s, f) == evidence[s] # Gone /\ ~HasFacts(s, f)

StoreFacts(s, f, i, v) ==
    /\ Accepted(s, f)
    /\ facts' = [facts EXCEPT ![s][f] = [impl |-> i, version |-> v]]

(***************************************************************************)
(* generate-report: one framework, or "all".                               *)
(***************************************************************************)
StartReport(r, s, k, fs) ==
    /\ stage[r] = "idle"
    /\ evidence[s] # Gone
    /\ Becomes(r, "reading", [kind |-> k, about |-> s, frameworks |-> fs],
               fs, NoGroup, evidence[s], {})
    /\ UNCHANGED <<dataVars, counted>>

\* Mutant of WritesAbout: a session deleted meanwhile is not expected.
WritesAboutGone(r) ==
    IF job[r].kind = "single" THEN read[r] ELSE evidence[job[r].about]

\* get_session_files has answered.  Only "all" writes about what it returned;
\* a single report is about the row read before.
WritesAbout(r) ==
    IF job[r].kind = "single" THEN read[r]
    ELSE IF evidence[job[r].about] = Gone THEN 0 ELSE evidence[job[r].about]

\* Without observations every report is None, at once.
FilesRead(r) ==
    /\ stage[r] = "reading"
    /\ IF WritesAbout(r) = 0
       THEN Answer(r)
       ELSE Becomes(r, "writing", job[r], todo[r], now[r], WritesAbout(r), {})
    /\ UNCHANGED <<dataVars, counted>>

\* The loop over the reports that were written: the next one is saved (a
\* failure is swallowed) and its facts are asked for.
NextReport(r, left) ==
    \/ left = {} /\ Answer(r)
    \/ \E f \in left : Becomes(r, "extracting", job[r], left \ {f}, f, read[r], {})

ReportsWritten(r, written) ==
    /\ stage[r] = "writing" /\ job[r].kind \in {"single", "all"}
    /\ written \subseteq todo[r]
    /\ NextReport(r, written)
    /\ UNCHANGED <<dataVars, counted>>

FactsOfReport(r) ==
    /\ stage[r] = "extracting" /\ job[r].kind \in {"single", "all"}
    /\ \/ UNCHANGED facts   \* no facts, or the insert failed
       \/ StoreFacts(job[r].about, now[r], ImplOf[job[r].about], read[r])
    /\ NextReport(r, todo[r])
    /\ UNCHANGED <<evidence, member, counted>>

(***************************************************************************)
(* generate-group-report.                                                  *)
(***************************************************************************)
FrameworkOf(r) == CHOOSE f \in Framework : job[r].frameworks = {f}

\* The loop over the sessions without facts: each is read when its turn
\* comes; one that is gone or says nothing is passed over.  With none left,
\* the report is written of the rows there are.
NextSession(r, j, left, w) ==
    LET speaks == {s \in left : evidence[s] > 0} IN
    \/ /\ speaks = {}
       /\ IF w = {} THEN Answer(r) ELSE Becomes(r, "merging", j, {}, NoGroup, 0, w)
    \/ \E s \in speaks, passed \in SUBSET (left \ speaks) :
          Becomes(r, "writing", j, left \ (passed \cup {s}), s, evidence[s], w)

StartGroupReport(r, g, f) ==
    /\ stage[r] = "idle"
    /\ LET found == {s \in Session : member[s] = g /\ evidence[s] # Gone}
           have == {s \in found : HasFacts(s, f)}
       IN  /\ found # {}
           /\ \E left \in SUBSET (found \ have) :
                /\ left = found \ have \/ Cardinality(left) = Cap
                /\ Cardinality(left) <= Cap
                /\ NextSession(r, [kind |-> "group", about |-> g, frameworks |-> {f}], left, have)
    /\ UNCHANGED <<dataVars, counted>>

GroupSessionWritten(r) ==
    /\ stage[r] = "writing" /\ job[r].kind = "group"
    /\ \/ NextSession(r, job[r], todo[r], rows[r])
       \/ Becomes(r, "extracting", job[r], todo[r], now[r], read[r], rows[r])
    /\ UNCHANGED <<dataVars, counted>>

\* The facts are stored under the GROUP's implementation.
GroupFactsStored(r) ==
    /\ stage[r] = "extracting" /\ job[r].kind = "group"
    /\ StoreFacts(now[r], FrameworkOf(r), GroupImpl[job[r].about], read[r])
    /\ NextSession(r, job[r], todo[r], rows[r] \cup {now[r]})
    /\ UNCHANGED <<evidence, member, counted>>

\* The session stays out of this report: the model gave no facts; the insert
\* was refused, as somebody stored the session's facts meanwhile or it is
\* gone; or the call failed, before or after it stored them.
GroupSessionLost(r) ==
    /\ stage[r] = "extracting" /\ job[r].kind = "group"
    /\ \/ UNCHANGED facts
       \/ StoreFacts(now[r], FrameworkOf(r), GroupImpl[job[r].about], read[r])
    /\ NextSession(r, job[r], todo[r], rows[r])
    /\ UNCHANGED <<evidence, member, counted>>

(***************************************************************************)
(* generate-project-report.                                                *)
(***************************************************************************)
StartProjectReport(r, i, f) ==
    /\ stage[r] = "idle"
    /\ LET found == {s \in Session : HasFacts(s, f) /\ facts[s][f].impl = i} IN
       /\ found # {}
       /\ Becomes(r, "grouping", [kind |-> "project", about |-> i, frameworks |-> {f}],
                  {}, NoGroup, 0, found)
    /\ UNCHANGED <<dataVars, counted>>

\* The summaries by group.  The groups are those of sessions.group_id, which
\* nothing in the system writes: every session falls in "Sin grupo asignado",
\* and with its one summary the report has all sessions, or none.
GroupsWritten(r) ==
    /\ stage[r] = "grouping"
    /\ Becomes(r, "merging", job[r], {}, NoGroup, 0, rows[r]) \/ Answer(r)
    /\ UNCHANGED <<dataVars, counted>>

\* The last model call.  Whether the text, if any, is stored or not, it is in
\* the answer.
Merged(r) ==
    /\ stage[r] = "merging"
    /\ \/ UNCHANGED counted
       \/ /\ job[r].kind = "project"
          /\ counted' = [s \in Session |-> [f \in Framework |->
                IF s \in rows[r] /\ f = FrameworkOf(r)
                THEN counted[s][f] \cup {job[r].about} ELSE counted[s][f]]]
    /\ Answer(r)
    /\ UNCHANGED dataVars

\* An exception is a 500; a restart is no answer at all.
RequestFails(r) ==
    /\ stage[r] # "idle"
    /\ Answer(r)
    /\ UNCHANGED <<dataVars, counted>>

RequestStep(r) ==
    \/ FilesRead(r)
    \/ \E written \in SUBSET Framework : ReportsWritten(r, written)
    \/ FactsOfReport(r)
    \/ GroupSessionWritten(r)
    \/ GroupFactsStored(r)
    \/ GroupSessionLost(r)
    \/ GroupsWritten(r)
    \/ Merged(r)
    \/ RequestFails(r)

Start(r) ==
    \/ \E s \in Session, f \in Framework : StartReport(r, s, "single", {f})
    \/ \E s \in Session : StartReport(r, s, "all", Framework)
    \/ \E g \in Group, f \in Framework : StartGroupReport(r, g, f)
    \/ \E i \in Impl, f \in Framework : StartProjectReport(r, i, f)

Next ==
    \/ \E s \in Session : Annotate(s)
    \/ \E s \in Session : ResetSession(s)
    \/ \E s \in Session, g \in Group : AddMember(s, g)
    \/ \E s \in Session, g \in Group : RemoveMember(s, g)
    \/ \E r \in Request : Start(r)
    \/ \E r \in Request : RequestStep(r)

Spec == Init /\ [][Next]_vars

-----------------------------------------------------------------------------
(***************************************************************************)
(* Properties.                                                             *)
(***************************************************************************)
\* session_facts: however the requests that read a session at different
\* times overtake one another, the facts stored of it never give way to
\* facts from older evidence.
FactsNotRolledBack ==
    [][\A s \in Session, f \in Framework : HasFacts(s, f) =>
          \/ facts'[s][f] = NoFacts /\ evidence'[s] = Gone
          \/ facts'[s][f].version >= facts[s][f].version]_vars

\* "UNIQUE(session_id, framework)": whichever reports extract the facts of a
\* session, of its own project or of a group of another, no two projects'
\* reports ever count it both.
CountedOnce ==
    \A s \in Session, f \in Framework :
        \A i, j \in counted[s][f] : i = j
=============================================================================
