---------------------------- MODULE Reports_proofs ----------------------------
(***************************************************************************)
(* Proofs about Reports, for every number of sessions, groups, projects,   *)
(* frameworks and requests, and every cap.                                 *)
(***************************************************************************)
EXTENDS Reports, TLAPS

Stage == {"idle", "reading", "writing", "extracting", "grouping", "merging"}
Kind == {"none", "single", "all", "group", "project"}
Job == [kind : Kind, about : Session \cup Group \cup Impl \cup {NoGroup},
        frameworks : SUBSET Framework]

\* What a request is about, by the route that took it.
SessionJob(j) == j.kind \in {"single", "all"} /\ j.about \in Session
GroupJob(j) == j.kind = "group" /\ j.about \in Group
                 /\ \E f \in Framework : j.frameworks = {f}
ProjectJob(j) == j.kind = "project" /\ j.about \in Impl
                 /\ \E f \in Framework : j.frameworks = {f}

\* The strengthening: what the local variables of a request are at each point
\* of its route.
Good(where, j, t, n, v, w) ==
    /\ where \in Stage /\ j \in Job /\ t \in SUBSET Item
    /\ n \in Item /\ v \in 0..MaxVersion /\ w \in SUBSET Session
    /\ where = "idle" => j = NoJob
    /\ where = "reading" => SessionJob(j) /\ t \subseteq Framework
    /\ where \in {"writing", "extracting"} =>
        \/ SessionJob(j) /\ t \subseteq Framework /\ (where = "extracting" => n \in Framework)
        \/ GroupJob(j) /\ t \subseteq Session /\ n \in Session
    /\ where = "grouping" => ProjectJob(j)
    /\ where = "merging" => GroupJob(j) \/ ProjectJob(j)

GoodRequest(r) ==
    Good(stage[r], job[r], todo[r], now[r], read[r], rows[r])

Functions ==
    /\ DOMAIN stage = Request /\ stage = [r \in Request |-> stage[r]]
    /\ DOMAIN job = Request /\ job = [r \in Request |-> job[r]]
    /\ DOMAIN todo = Request /\ todo = [r \in Request |-> todo[r]]
    /\ DOMAIN now = Request /\ now = [r \in Request |-> now[r]]
    /\ DOMAIN read = Request /\ read = [r \in Request |-> read[r]]
    /\ DOMAIN rows = Request /\ rows = [r \in Request |-> rows[r]]

DataOK ==
    /\ evidence \in [Session -> {Gone} \cup (0..MaxVersion)]
    /\ member \in [Session -> Group \cup {NoGroup}]
    /\ facts \in [Session -> [Framework ->
                    [impl : Impl \cup {NoImpl}, version : 0..MaxVersion]]]
    /\ counted \in [Session -> [Framework -> SUBSET Impl]]
    /\ \A s \in Session, f \in Framework : HasFacts(s, f) => evidence[s] # Gone

Inv == DataOK /\ Functions /\ \A r \in Request : GoodRequest(r)

LEMMA InvTypes == Inv => TypeOK
  BY DEF Inv, DataOK, Functions, GoodRequest, Good, TypeOK, Stage, Job, Kind

\* What one step may do to the data: evidence of a session that stays, facts
\* that stay with it.
Advances ==
    /\ DataOK'
    /\ \A s \in Session : evidence[s] = Gone => evidence'[s] = Gone
    /\ \A s \in Session, f \in Framework :
          HasFacts(s, f) => evidence'[s] = Gone \/ facts'[s][f] = facts[s][f]

\* What a request knows of the data stays true as the data advance.
LEMMA GoodStays ==
  ASSUME Inv, Advances, NEW where, NEW j, NEW t, NEW n, NEW v, NEW w,
         Good(where, j, t, n, v, w)
  PROVE  Good(where, j, t, n, v, w)'
  BY DEF Good, SessionJob, GroupJob, ProjectJob

\* A request that steps leaves the others as they are.
LEMMA StepOfOne ==
  ASSUME Inv, Advances, NEW r \in Request,
         NEW where, NEW j, NEW t, NEW n, NEW v, NEW w,
         Becomes(r, where, j, t, n, v, w),
         Good(where, j, t, n, v, w)
  PROVE  Inv'
<1>1. Functions'
  BY DEF Inv, Functions, Becomes
<1>2. GoodRequest(r)'
  <2>1. /\ stage'[r] = where /\ job'[r] = j /\ todo'[r] = t
        /\ now'[r] = n /\ read'[r] = v /\ rows'[r] = w
    BY DEF Inv, Functions, Becomes
  <2>2. QED
    BY <2>1, GoodStays DEF GoodRequest
<1>3. ASSUME NEW q \in Request \ {r} PROVE GoodRequest(q)'
  <2>1. /\ stage'[q] = stage[q] /\ job'[q] = job[q]
        /\ todo'[q] = todo[q] /\ now'[q] = now[q] /\ read'[q] = read[q]
        /\ rows'[q] = rows[q]
    BY <1>3 DEF Inv, Functions, Becomes
  <2>2. Good(stage[q], job[q], todo[q], now[q], read[q], rows[q])
    BY <1>3 DEF Inv, GoodRequest
  <2>3. QED
    BY <2>1, <2>2, GoodStays DEF GoodRequest
<1>4. QED
  BY <1>1, <1>2, <1>3 DEF Inv, Advances

LEMMA AnswerGood ==
  ASSUME Inv, Advances, NEW r \in Request, Answer(r)
  PROVE  Inv'
<1>1. Good("idle", NoJob, {}, NoGroup, 0, {})
  BY ReportsAssumption DEF Good, NoJob, Job, Kind, Stage, Item
<1>2. QED
  BY <1>1, StepOfOne DEF Answer

\* Nothing of the data changes, or a file or an annotation arrives.
LEMMA StillAdvances == Inv /\ UNCHANGED <<evidence, facts, counted>> /\ member' \in [Session -> Group \cup {NoGroup}]
                         => Advances
  BY DEF Inv, DataOK, Advances, HasFacts

LEMMA FactsAdvance ==
  ASSUME Inv, NEW s \in Session, NEW f \in Framework, NEW i \in Impl, NEW v \in 0..MaxVersion,
         StoreFacts(s, f, i, v), UNCHANGED <<evidence, member, counted>>
  PROVE  Advances
<1>1. facts'[s][f] = [impl |-> i, version |-> v]
  BY DEF Inv, DataOK, StoreFacts
<1>2. \A q \in Session, g \in Framework : q # s \/ g # f => facts'[q][g] = facts[q][g]
  BY DEF Inv, DataOK, StoreFacts
<1>3. facts' \in [Session -> [Framework -> [impl : Impl \cup {NoImpl}, version : 0..MaxVersion]]]
  BY DEF Inv, DataOK, StoreFacts
<1>4. QED
  BY <1>1, <1>2, <1>3 DEF Inv, DataOK, Advances, StoreFacts, Accepted, HasFacts

\* The loops.
LEMMA NextReportGood ==
  ASSUME Inv, Advances, NEW r \in Request, stage[r] \in {"writing", "extracting"},
         SessionJob(job[r]), NEW left, left \subseteq todo[r], NextReport(r, left)
  PROVE  Inv'
<1>1. CASE left = {} /\ Answer(r)
  BY <1>1, AnswerGood
<1>2. ASSUME NEW f \in left,
             Becomes(r, "extracting", job[r], left \ {f}, f, read[r], {})
      PROVE  Inv'
  <2>1. GoodRequest(r) /\ ~GroupJob(job[r])
    BY DEF Inv, SessionJob, GroupJob
  <2>2. Good("extracting", job[r], left \ {f}, f, read[r], {})
    BY <2>1 DEF GoodRequest, Good, Stage, Item, SessionJob
  <2>3. QED
    BY <1>2, <2>2, StepOfOne
<1>3. QED
  BY <1>1, <1>2 DEF NextReport

LEMMA NextSessionGood ==
  ASSUME Inv, Advances, NEW r \in Request, NEW j \in Job, GroupJob(j),
         NEW left \in SUBSET Session, NEW w \in SUBSET Session, NextSession(r, j, left, w)
  PROVE  Inv'
<1> DEFINE speaks == {s \in left : evidence[s] > 0}
<1>1. CASE w = {} /\ Answer(r)
  BY <1>1, AnswerGood
<1>2. CASE Becomes(r, "merging", j, {}, NoGroup, 0, w)
  <2>1. Good("merging", j, {}, NoGroup, 0, w)
    BY ReportsAssumption DEF Good, Stage, Item
  <2>2. QED
    BY <1>2, <2>1, StepOfOne
<1>3. ASSUME NEW s \in speaks, NEW passed \in SUBSET (left \ speaks),
             Becomes(r, "writing", j, left \ (passed \cup {s}), s, evidence[s], w)
      PROVE  Inv'
  <2>1. s \in Session /\ evidence[s] \in 0..MaxVersion
    <3>1. s \in left /\ evidence[s] > 0
      OBVIOUS
    <3>2. QED
      BY <3>1, ReportsAssumption DEF Inv, DataOK, Gone
  <2>2. Good("writing", j, left \ (passed \cup {s}), s, evidence[s], w)
    BY <2>1 DEF Good, Stage, Item
  <2>3. QED
    BY <1>3, <2>2, StepOfOne
<1>4. QED
  BY <1>1, <1>2, <1>3 DEF NextSession

-----------------------------------------------------------------------------
\* Every step advances the data and keeps what each request knows of them.
LEMMA InvInit == Init => Inv
<1> SUFFICES ASSUME Init PROVE Inv
  OBVIOUS
<1>1. DataOK
  BY ReportsAssumption DEF Init, DataOK, NoFacts, HasFacts
<1>2. Functions
  BY DEF Init, Functions
<1>3. Good("idle", NoJob, {}, NoGroup, 0, {})
  BY ReportsAssumption DEF Good, NoJob, Job, Kind, Stage, Item
<1>4. \A r \in Request : GoodRequest(r)
  BY <1>3 DEF Init, GoodRequest
<1>5. QED
  BY <1>1, <1>2, <1>4 DEF Inv

\* The steps of the rest of the system.
LEMMA DataStep ==
  ASSUME Inv, Advances, UNCHANGED reqVars
  PROVE  Inv'
<1>1. Functions'
  BY DEF Inv, Functions, reqVars
<1>2. ASSUME NEW r \in Request PROVE GoodRequest(r)'
  <2>1. Good(stage[r], job[r], todo[r], now[r], read[r], rows[r])
    BY DEF Inv, GoodRequest
  <2>2. QED
    BY <2>1, GoodStays DEF GoodRequest, reqVars
<1>3. QED
  BY <1>1, <1>2 DEF Inv, Advances

LEMMA InvStep == Inv /\ [Next]_vars => Inv'
<1> SUFFICES ASSUME Inv, [Next]_vars PROVE Inv'
  OBVIOUS
<1> USE ReportsAssumption
<1>1. ASSUME NEW s \in Session, Annotate(s) PROVE Inv'
  <2>1. evidence'[s] # Gone /\ evidence' \in [Session -> {Gone} \cup (0..MaxVersion)]
    BY <1>1 DEF Annotate, Inv, DataOK, Gone
  <2>2. \A q \in Session : evidence[q] = Gone <=> evidence'[q] = Gone
    BY <1>1, <2>1 DEF Annotate, Inv, DataOK, Gone
  <2>3. Advances
    BY <1>1, <2>1, <2>2 DEF Annotate, Inv, DataOK, Advances, HasFacts
  <2>4. QED
    BY <1>1, <2>3, DataStep DEF Annotate
<1>2. ASSUME NEW s \in Session, ResetSession(s) PROVE Inv'
  <2>1. /\ evidence'[s] = Gone /\ \A f \in Framework : facts'[s][f] = NoFacts
        /\ \A q \in Session \ {s} : evidence'[q] = evidence[q] /\ facts'[q] = facts[q]
        /\ evidence' \in [Session -> {Gone} \cup (0..MaxVersion)]
    BY <1>2 DEF ResetSession, Inv, DataOK
  <2>2. facts' \in [Session -> [Framework -> [impl : Impl \cup {NoImpl}, version : 0..MaxVersion]]]
    BY <1>2 DEF ResetSession, Inv, DataOK, NoFacts
  <2>3. Advances
    BY <1>2, <2>1, <2>2 DEF ResetSession, Inv, DataOK, Advances, HasFacts
  <2>4. QED
    BY <1>2, <2>3, DataStep DEF ResetSession
<1>3. ASSUME NEW s \in Session, NEW g \in Group, AddMember(s, g) \/ RemoveMember(s, g) PROVE Inv'
  <2>1. UNCHANGED <<evidence, facts, reqVars, counted>> /\ member' \in [Session -> Group \cup {NoGroup}]
    BY <1>3 DEF AddMember, RemoveMember, Inv, DataOK
  <2>2. QED
    BY <2>1, StillAdvances, DataStep
<1>4. ASSUME NEW r \in Request, NEW s \in Session, NEW k \in {"single", "all"},
             NEW fs \in SUBSET Framework, StartReport(r, s, k, fs)
      PROVE Inv'
  <2>1. Good("reading", [kind |-> k, about |-> s, frameworks |-> fs], fs, NoGroup, evidence[s], {})
    BY <1>4 DEF StartReport, Good, Inv, DataOK, Stage, Job, Kind, Item, SessionJob, Gone
  <2>2. Advances
    BY <1>4, StillAdvances DEF StartReport, dataVars, Inv, DataOK
  <2>3. QED
    BY <1>4, <2>1, <2>2, StepOfOne DEF StartReport
<1>5. ASSUME NEW r \in Request, FilesRead(r) PROVE Inv'
  <2>1. Advances
    BY <1>5, StillAdvances DEF FilesRead, dataVars, Inv, DataOK
  <2>2. CASE Answer(r)
    BY <2>1, <2>2, AnswerGood
  <2>3. CASE Becomes(r, "writing", job[r], todo[r], now[r], WritesAbout(r), {})
    <3>1. GoodRequest(r) /\ stage[r] = "reading"
      BY <1>5 DEF Inv, FilesRead
    <3>2. WritesAbout(r) \in 0..MaxVersion
      BY <3>1 DEF WritesAbout, GoodRequest, Good, SessionJob, Inv, DataOK, Gone
    <3>3. Good("writing", job[r], todo[r], now[r], WritesAbout(r), {})
      BY <3>1, <3>2 DEF GoodRequest, Good, Stage
    <3>4. QED
      BY <2>1, <2>3, <3>3, StepOfOne
  <2>4. QED
    BY <1>5, <2>2, <2>3 DEF FilesRead
<1>6. ASSUME NEW r \in Request, NEW written \in SUBSET Framework, ReportsWritten(r, written) PROVE Inv'
  <2>1. Advances
    BY <1>6, StillAdvances DEF ReportsWritten, dataVars, Inv, DataOK
  <2>2. SessionJob(job[r])
    BY <1>6 DEF ReportsWritten, Inv, GoodRequest, Good, GroupJob
  <2>3. QED
    BY <1>6, <2>1, <2>2, NextReportGood DEF ReportsWritten
<1>7. ASSUME NEW r \in Request, FactsOfReport(r) PROVE Inv'
  <2>1. GoodRequest(r)
    BY DEF Inv
  <2>2. SessionJob(job[r]) /\ now[r] \in Framework /\ read[r] \in 0..MaxVersion
    BY <1>7, <2>1 DEF FactsOfReport, GoodRequest, Good, GroupJob
  <2>3. ImplOf[job[r].about] \in Impl
    BY <2>2 DEF SessionJob
  <2>4. Advances
    <3>1. CASE UNCHANGED facts
      BY <1>7, <3>1, StillAdvances DEF FactsOfReport, Inv, DataOK
    <3>2. CASE StoreFacts(job[r].about, now[r], ImplOf[job[r].about], read[r])
      BY <1>7, <2>2, <2>3, <3>2, FactsAdvance DEF FactsOfReport, SessionJob
    <3>3. QED
      BY <1>7, <3>1, <3>2 DEF FactsOfReport
  <2>5. QED
    BY <1>7, <2>2, <2>4, NextReportGood DEF FactsOfReport
<1>8. ASSUME NEW r \in Request, NEW g \in Group, NEW f \in Framework, StartGroupReport(r, g, f) PROVE Inv'
  <2> DEFINE found == {s \in Session : member[s] = g /\ evidence[s] # Gone}
             have == {s \in found : HasFacts(s, f)}
             j == [kind |-> "group", about |-> g, frameworks |-> {f}]
  <2>1. Advances
    BY <1>8, StillAdvances DEF StartGroupReport, dataVars, Inv, DataOK
  <2>2. PICK left \in SUBSET (found \ have) :
          NextSession(r, j, left, have)
    BY <1>8 DEF StartGroupReport
  <2>3. j \in Job /\ GroupJob(j)
    BY DEF Job, Kind, GroupJob
  <2>5. left \in SUBSET Session /\ have \in SUBSET Session
    OBVIOUS
  <2> HIDE DEF found, have, j
  <2>6. QED
    BY <2>1, <2>2, <2>3, <2>5, NextSessionGood
\* A turn of the group's loop: what is known of the request before it.
<1>9. ASSUME NEW r \in Request, stage[r] \in {"writing", "extracting"}, job[r].kind = "group"
      PROVE /\ job[r] \in Job /\ GroupJob(job[r]) /\ todo[r] \in SUBSET Session
            /\ now[r] \in Session /\ read[r] \in 0..MaxVersion /\ rows[r] \in SUBSET Session
  <2>1. GoodRequest(r)
    BY <1>9 DEF Inv
  <2>2. QED
    BY <1>9, <2>1 DEF GoodRequest, Good, SessionJob
<1>10. ASSUME NEW r \in Request, GroupSessionWritten(r) PROVE Inv'
  <2>1. Advances
    BY <1>10, StillAdvances DEF GroupSessionWritten, dataVars, Inv, DataOK
  <2>2. CASE NextSession(r, job[r], todo[r], rows[r])
    BY <1>9, <1>10, <2>1, <2>2, NextSessionGood DEF GroupSessionWritten
  <2>3. CASE Becomes(r, "extracting", job[r], todo[r], now[r], read[r], rows[r])
    <3>1. GoodRequest(r)
      BY DEF Inv
    <3>2. Good("extracting", job[r], todo[r], now[r], read[r], rows[r])
      BY <1>9, <1>10, <3>1 DEF GroupSessionWritten, GoodRequest, Good, Stage
    <3>3. QED
      BY <2>1, <2>3, <3>2, StepOfOne
  <2>4. QED
    BY <1>10, <2>2, <2>3 DEF GroupSessionWritten
<1>11. ASSUME NEW r \in Request, GroupSessionLost(r) \/ GroupFactsStored(r) PROVE Inv'
  <2>1. /\ stage[r] = "extracting" /\ job[r].kind = "group"
        /\ UNCHANGED <<evidence, member, counted>>
    BY <1>11 DEF GroupSessionLost, GroupFactsStored
  <2>2. PICK f \in Framework : job[r].frameworks = {f}
    BY <1>9, <2>1 DEF GroupJob
  <2>3. FrameworkOf(r) = f /\ GroupImpl[job[r].about] \in Impl
    BY <1>9, <2>1, <2>2 DEF FrameworkOf, GroupJob
  <2>4. Advances
    <3>1. CASE UNCHANGED facts
      BY <2>1, <3>1, StillAdvances DEF Inv, DataOK
    <3>2. CASE StoreFacts(now[r], FrameworkOf(r), GroupImpl[job[r].about], read[r])
      BY <1>9, <2>1, <2>3, <3>2, FactsAdvance
    <3>3. QED
      BY <1>11, <3>1, <3>2 DEF GroupSessionLost, GroupFactsStored
  <2>5. CASE GroupSessionLost(r)
    BY <1>9, <2>1, <2>4, <2>5, NextSessionGood DEF GroupSessionLost
  <2>6. CASE GroupFactsStored(r)
    <3>1. rows[r] \cup {now[r]} \in SUBSET Session
      BY <1>9, <2>1
    <3>2. QED
      BY <1>9, <2>1, <2>4, <2>6, <3>1, NextSessionGood DEF GroupFactsStored
  <2>7. QED
    BY <1>11, <2>5, <2>6
<1>14. ASSUME NEW r \in Request, NEW i \in Impl, NEW f \in Framework, StartProjectReport(r, i, f) PROVE Inv'
  <2> DEFINE found == {s \in Session : HasFacts(s, f) /\ facts[s][f].impl = i}
             j == [kind |-> "project", about |-> i, frameworks |-> {f}]
  <2>1. Advances
    BY <1>14, StillAdvances DEF StartProjectReport, dataVars, Inv, DataOK
  <2>2. Good("grouping", j, {}, NoGroup, 0, found)
    BY DEF Good, Job, Kind, Stage, Item, ProjectJob
  <2>3. Becomes(r, "grouping", j, {}, NoGroup, 0, found)
    BY <1>14 DEF StartProjectReport
  <2> HIDE DEF found, j
  <2>4. QED
    BY <2>1, <2>2, <2>3, StepOfOne
<1>15. ASSUME NEW r \in Request, GroupsWritten(r) PROVE Inv'
  <2>1. Advances
    BY <1>15, StillAdvances DEF GroupsWritten, dataVars, Inv, DataOK
  <2>2. Good("merging", job[r], {}, NoGroup, 0, rows[r])
    BY <1>15 DEF GroupsWritten, Inv, GoodRequest, Good, Stage, Item
  <2>3. QED
    BY <1>15, <2>1, <2>2, AnswerGood, StepOfOne DEF GroupsWritten
<1>16. ASSUME NEW r \in Request, Merged(r) PROVE Inv'
  <2>1. counted' \in [Session -> [Framework -> SUBSET Impl]]
    <3>1. CASE UNCHANGED counted
      BY <3>1 DEF Inv, DataOK
    <3>2. CASE job[r].kind = "project"
      <4>1. job[r].about \in Impl
        BY <1>16, <3>2 DEF Merged, Inv, GoodRequest, Good, GroupJob, ProjectJob
      <4>2. DEFINE new(s, f) == IF s \in rows[r] /\ f = FrameworkOf(r)
                                THEN counted[s][f] \cup {job[r].about} ELSE counted[s][f]
      <4>3. \A s \in Session, f \in Framework : new(s, f) \in SUBSET Impl
        BY <4>1 DEF Inv, DataOK
      <4>4. UNCHANGED counted \/ counted' = [s \in Session |-> [f \in Framework |-> new(s, f)]]
        BY <1>16 DEF Merged
      <4> HIDE DEF new
      <4>5. QED
        BY <4>3, <4>4 DEF Inv, DataOK
    <3>3. QED
      BY <1>16, <3>1, <3>2 DEF Merged
  <2>2. Advances
    BY <1>16, <2>1 DEF Merged, dataVars, Inv, DataOK, Advances, HasFacts
  <2>3. QED
    BY <1>16, <2>2, AnswerGood DEF Merged
<1>17. ASSUME NEW r \in Request, RequestFails(r) PROVE Inv'
  <2>1. Advances
    BY <1>17, StillAdvances DEF RequestFails, dataVars, Inv, DataOK
  <2>2. QED
    BY <1>17, <2>1, AnswerGood DEF RequestFails
<1>18. CASE UNCHANGED vars
  BY <1>18, StillAdvances, DataStep DEF vars, dataVars, Inv, DataOK
<1>19. ASSUME NEW r \in Request, Start(r) PROVE Inv'
  <2>1. ASSUME NEW s \in Session, NEW f \in Framework, StartReport(r, s, "single", {f}) PROVE Inv'
    <3>1. {f} \in SUBSET Framework
      OBVIOUS
    <3>2. QED
      BY <1>4, <2>1, <3>1
  <2>2. ASSUME NEW s \in Session, StartReport(r, s, "all", Framework) PROVE Inv'
    <3>1. Framework \in SUBSET Framework
      OBVIOUS
    <3>2. QED
      BY <1>4, <2>2, <3>1
  <2>3. QED
    BY <1>8, <1>14, <1>19, <2>1, <2>2 DEF Start
<1>20. ASSUME NEW r \in Request, RequestStep(r) PROVE Inv'
  BY <1>5, <1>6, <1>7, <1>10, <1>11, <1>15, <1>16, <1>17, <1>20 DEF RequestStep
<1>21. QED
  BY <1>1, <1>2, <1>3, <1>18, <1>19, <1>20 DEF Next

LEMMA Invariant == Spec => []Inv
  BY InvInit, InvStep, PTL DEF Spec

\* Every reachable state of the data and of the requests is well typed.
THEOREM TypeCorrect == Spec => []TypeOK
  BY Invariant, InvTypes, PTL

-----------------------------------------------------------------------------
\* Facts change in two ways only.
LEMMA FactsChange ==
  [Next]_vars =>
    \/ UNCHANGED facts
    \/ \E s \in Session : ResetSession(s)
    \/ \E s, f, i, v : StoreFacts(s, f, i, v)
<1> SUFFICES ASSUME [Next]_vars, facts' # facts
             PROVE  \/ \E s \in Session : ResetSession(s)
                    \/ \E s, f, i, v : StoreFacts(s, f, i, v)
  OBVIOUS
<1> USE DEF dataVars
<1>1. ASSUME NEW r \in Request, RequestStep(r) PROVE \E s, f, i, v : StoreFacts(s, f, i, v)
  <2>1. FactsOfReport(r) \/ GroupSessionLost(r) \/ GroupFactsStored(r)
    BY <1>1 DEF RequestStep, FilesRead, ReportsWritten, GroupSessionWritten,
                GroupsWritten, Merged, RequestFails
  <2>2. QED
    BY <2>1 DEF FactsOfReport, GroupSessionLost, GroupFactsStored
<1>2. ASSUME NEW r \in Request, Start(r) PROVE FALSE
  BY <1>2 DEF Start, StartReport, StartGroupReport, StartProjectReport
<1>3. QED
  BY <1>1, <1>2 DEF Next, vars, Annotate, AddMember, RemoveMember

\* However the requests that read a session at different times overtake one
\* another, its stored facts never give way to facts from older evidence.
THEOREM FactsStay == Spec => FactsNotRolledBack
<1>1. ASSUME Inv, [Next]_vars, NEW s \in Session, NEW f \in Framework, HasFacts(s, f)
      PROVE  \/ facts'[s][f] = NoFacts /\ evidence'[s] = Gone
             \/ facts'[s][f].version >= facts[s][f].version
  <2>1. facts[s][f].version \in 0..MaxVersion
    BY <1>1 DEF Inv, DataOK
  <2>2. facts[s][f].version >= facts[s][f].version
    BY <2>1, ReportsAssumption
  <2>3. CASE UNCHANGED facts
    BY <2>2, <2>3
  <2>4. ASSUME NEW q \in Session, ResetSession(q)
        PROVE  \/ facts'[s][f] = NoFacts /\ evidence'[s] = Gone
               \/ facts'[s][f] = facts[s][f]
    <3>1. CASE q = s
      <4>1. evidence'[s] = Gone /\ facts'[s] = [g \in Framework |-> NoFacts]
        BY <1>1, <2>4, <3>1 DEF ResetSession, Inv, DataOK
      <4>2. QED
        BY <4>1
    <3>2. CASE q # s
      BY <1>1, <2>4, <3>2 DEF ResetSession, Inv, DataOK
    <3>3. QED
      BY <3>1, <3>2
  <2>5. ASSUME NEW q, NEW g, NEW i, NEW v, StoreFacts(q, g, i, v)
        PROVE  facts'[s][f] = facts[s][f]
    BY <1>1, <2>5 DEF StoreFacts, Accepted, Inv, DataOK
  <2>6. QED
    BY <1>1, <2>2, <2>3, <2>4, <2>5, FactsChange
<1>2. Inv /\ [Next]_vars =>
        [\A s \in Session, f \in Framework : HasFacts(s, f) =>
          \/ facts'[s][f] = NoFacts /\ evidence'[s] = Gone
          \/ facts'[s][f].version >= facts[s][f].version]_vars
  BY <1>1
<1>3. QED
  BY <1>2, Invariant, PTL DEF Spec, FactsNotRolledBack

-----------------------------------------------------------------------------
\* A project claims a session whose facts its report has counted, or is
\* about to count.
Claims(i, s, f) ==
    \/ i \in counted[s][f]
    \/ \E r \in Request : /\ job[r].kind = "project" /\ job[r].about = i
                          /\ job[r].frameworks = {f} /\ s \in rows[r]

\* The strengthening of CountedOnce: one project claims a session, and as
\* long as the session lasts its facts are filed under that one.
ClaimedOnce ==
    \A s \in Session, f \in Framework, i \in Impl, j \in Impl : Claims(i, s, f) =>
        /\ Claims(j, s, f) => i = j
        /\ evidence[s] = Gone \/ (HasFacts(s, f) /\ facts[s][f].impl = i)

\* No request takes up a project report, or another one, in this step.
NoNewClaim ==
    \A r \in Request : job'[r].kind = "project" => job'[r] = job[r] /\ rows'[r] = rows[r]

LEMMA BecomesNoClaim ==
  ASSUME Inv, NEW r \in Request,
         NEW where, NEW j, NEW t, NEW n, NEW v, NEW w,
         Becomes(r, where, j, t, n, v, w),
         j.kind = "project" => j = job[r] /\ w = rows[r]
  PROVE  NoNewClaim
  BY DEF Inv, Functions, Becomes, NoNewClaim

LEMMA AnswerNoClaim == ASSUME Inv, NEW r \in Request, Answer(r) PROVE NoNewClaim
<1>1. NoJob.kind # "project"
  BY DEF NoJob
<1>2. QED
  BY <1>1, BecomesNoClaim DEF Answer

LEMMA NextReportNoClaim ==
  ASSUME Inv, NEW r \in Request, job[r].kind # "project", NEW left, NextReport(r, left)
  PROVE  NoNewClaim
  BY AnswerNoClaim, BecomesNoClaim DEF NextReport

LEMMA NextSessionNoClaim ==
  ASSUME Inv, NEW r \in Request, NEW j, NEW left, NEW w,
         NextSession(r, j, left, w), j.kind = "project" => j = job[r] /\ w = rows[r]
  PROVE NoNewClaim
  BY AnswerNoClaim, BecomesNoClaim DEF NextSession

\* Where claims come from.
LEMMA ClaimStep ==
  ASSUME Inv, [Next]_vars
  PROVE  \A s \in Session, f \in Framework, i \in Impl : Claims(i, s, f)' =>
            \/ Claims(i, s, f)
            \/ HasFacts(s, f) /\ facts[s][f].impl = i /\ UNCHANGED <<evidence, facts>>
<1> DEFINE Kept == \A s \in Session, f \in Framework, i \in Impl : Claims(i, s, f)' => Claims(i, s, f)
<1>1. ASSUME NoNewClaim, UNCHANGED counted PROVE Kept
  BY <1>1 DEF NoNewClaim, Claims
<1>2. ASSUME UNCHANGED reqVars, UNCHANGED counted PROVE Kept
  BY <1>2 DEF reqVars, Claims
<1>3. ASSUME NEW r \in Request, NEW s \in Session, NEW k \in {"single", "all"}, NEW fs, StartReport(r, s, k, fs)
      PROVE  Kept
  <2>1. k # "project"
    OBVIOUS
  <2>2. [kind |-> k, about |-> s, frameworks |-> fs].kind # "project"
    BY <2>1
  <2>3. NoNewClaim
    BY <1>3, <2>2, BecomesNoClaim DEF StartReport
  <2>4. QED
    BY <1>1, <1>3, <2>3 DEF StartReport
<1>4. ASSUME NEW r \in Request, NEW g \in Group, NEW f \in Framework, StartGroupReport(r, g, f) PROVE Kept
  <2>1. [kind |-> "group", about |-> g, frameworks |-> {f}].kind # "project"
    OBVIOUS
  <2>2. NoNewClaim
    BY <1>4, <2>1, NextSessionNoClaim DEF StartGroupReport
  <2>3. QED
    BY <1>1, <1>4, <2>2 DEF StartGroupReport
<1>5. ASSUME NEW r \in Request, NEW i \in Impl, NEW f \in Framework, StartProjectReport(r, i, f)
      PROVE  \A s \in Session, g \in Framework, k \in Impl : Claims(k, s, g)' =>
                \/ Claims(k, s, g)
                \/ HasFacts(s, g) /\ facts[s][g].impl = k /\ UNCHANGED <<evidence, facts>>
  <2> DEFINE found == {s \in Session : HasFacts(s, f) /\ facts[s][f].impl = i}
  <2>1. /\ job'[r] = [kind |-> "project", about |-> i, frameworks |-> {f}] /\ rows'[r] = found
        /\ \A q \in Request \ {r} : job'[q] = job[q] /\ rows'[q] = rows[q]
        /\ UNCHANGED <<evidence, facts, counted>>
    BY <1>5 DEF StartProjectReport, Becomes, Inv, Functions, dataVars
  <2>2. QED
    BY <2>1 DEF Claims
<1>6. ASSUME NEW r \in Request, Merged(r) PROVE Kept
  <2>1. NoNewClaim
    BY <1>6, AnswerNoClaim DEF Merged
  <2>2. CASE UNCHANGED counted
    BY <1>1, <2>1, <2>2
  <2>3. CASE job[r].kind = "project" /\ counted' # counted
    <3>1. ProjectJob(job[r])
      BY <1>6, <2>3 DEF Merged, Inv, GoodRequest, Good, GroupJob
    <3>2. PICK g \in Framework : job[r].frameworks = {g}
      BY <3>1 DEF ProjectJob
    <3>3. FrameworkOf(r) = g
      BY <3>2 DEF FrameworkOf
    <3>4. \A s \in Session, f \in Framework, i \in Impl : i \in counted'[s][f] =>
            i \in counted[s][f] \/ (s \in rows[r] /\ f = g /\ i = job[r].about)
      BY <1>6, <2>3, <3>1, <3>3 DEF Merged
    <3>5. QED
      BY <2>1, <2>3, <3>2, <3>4 DEF NoNewClaim, Claims
  <2>4. QED
    BY <1>6, <2>2, <2>3 DEF Merged
<1>7. ASSUME NEW r \in Request, RequestStep(r), ~Merged(r) PROVE Kept
  <2>1. CASE FilesRead(r)
    <3>1. job[r].kind # "project"
      BY <2>1 DEF FilesRead, Inv, GoodRequest, Good, SessionJob
    <3>2. NoNewClaim
      BY <2>1, <3>1, AnswerNoClaim, BecomesNoClaim DEF FilesRead
    <3>3. QED
      BY <1>1, <2>1, <3>2 DEF FilesRead
  <2>2. ASSUME NEW written \in SUBSET Framework, ReportsWritten(r, written) PROVE Kept
    BY <1>1, <2>2, NextReportNoClaim DEF ReportsWritten
  <2>3. CASE FactsOfReport(r)
    BY <1>1, <2>3, NextReportNoClaim DEF FactsOfReport
  <2>4. CASE GroupSessionWritten(r)
    BY <1>1, <2>4, NextSessionNoClaim, BecomesNoClaim DEF GroupSessionWritten
  <2>5. CASE GroupSessionLost(r)
    BY <1>1, <2>5, NextSessionNoClaim DEF GroupSessionLost
  <2>6. CASE GroupFactsStored(r)
    BY <1>1, <2>6, NextSessionNoClaim DEF GroupFactsStored
  <2>8. CASE GroupsWritten(r)
    BY <1>1, <2>8, AnswerNoClaim, BecomesNoClaim DEF GroupsWritten
  <2>9. CASE RequestFails(r)
    BY <1>1, <2>9, AnswerNoClaim DEF RequestFails
  <2>10. QED
    BY <1>7, <2>1, <2>2, <2>3, <2>4, <2>5, <2>6, <2>8, <2>9 DEF RequestStep
<1>8. ASSUME NEW r \in Request, Start(r), ~\E i \in Impl, f \in Framework : StartProjectReport(r, i, f)
      PROVE Kept
  BY <1>3, <1>4, <1>8 DEF Start
<1>9. ASSUME \/ \E s \in Session : Annotate(s) \/ ResetSession(s)
             \/ \E s \in Session, g \in Group : AddMember(s, g) \/ RemoveMember(s, g)
             \/ UNCHANGED vars
      PROVE Kept
  BY <1>2, <1>9 DEF Annotate, ResetSession, AddMember, RemoveMember, vars
<1> HIDE DEF Kept
<1>10. \/ Kept
       \/ \E r \in Request, i \in Impl, f \in Framework : StartProjectReport(r, i, f)
  BY <1>6, <1>7, <1>8, <1>9 DEF Next
<1>11. QED
  BY <1>5, <1>10 DEF Kept

LEMMA ClaimedStep == Inv /\ ClaimedOnce /\ [Next]_vars => ClaimedOnce'
<1> SUFFICES ASSUME Inv, ClaimedOnce, [Next]_vars,
                    NEW s \in Session, NEW f \in Framework, NEW i \in Impl, NEW j \in Impl,
                    Claims(i, s, f)'
             PROVE  /\ Claims(j, s, f)' => i = j
                    /\ evidence'[s] = Gone \/ (HasFacts(s, f)' /\ facts'[s][f].impl = i)
  BY DEF ClaimedOnce
\* A claim is of the project the facts are filed under, if there are any.
<1>1. ASSUME NEW k \in Impl, Claims(k, s, f)'
      PROVE  \/ Claims(k, s, f)
             \/ HasFacts(s, f) /\ facts[s][f].impl = k /\ UNCHANGED <<evidence, facts>>
  BY <1>1, ClaimStep
<1>2. evidence[s] = Gone \/ (HasFacts(s, f) /\ facts[s][f].impl = i)
  BY <1>1 DEF ClaimedOnce
<1>3. HasFacts(s, f) => evidence[s] # Gone
  BY DEF Inv, DataOK
<1>4. Claims(j, s, f)' => i = j
  BY <1>1, <1>2, <1>3 DEF ClaimedOnce
<1>5. evidence[s] = Gone => evidence'[s] = Gone
  <2>1. UNCHANGED evidence \/ (\E q \in Session : Annotate(q) \/ ResetSession(q))
    BY DEF Next, Start, StartReport, StartGroupReport, StartProjectReport, RequestStep, FilesRead,
           ReportsWritten, FactsOfReport, GroupSessionWritten, GroupSessionLost, GroupFactsStored,
           GroupsWritten, Merged, RequestFails, AddMember, RemoveMember,
           vars, dataVars
  <2>2. QED
    BY <2>1, ReportsAssumption DEF Annotate, ResetSession, Inv, DataOK, Gone
<1>6. HasFacts(s, f) => evidence'[s] = Gone \/ facts'[s][f] = facts[s][f]
  <2>1. ASSUME NEW q \in Session, ResetSession(q), HasFacts(s, f)
        PROVE  evidence'[s] = Gone \/ facts'[s][f] = facts[s][f]
    BY <2>1 DEF ResetSession, Inv, DataOK
  <2>2. ASSUME NEW q, NEW g, NEW k, NEW v, StoreFacts(q, g, k, v), HasFacts(s, f)
        PROVE  facts'[s][f] = facts[s][f]
    BY <2>2 DEF StoreFacts, Accepted, Inv, DataOK
  <2>3. QED
    BY <2>1, <2>2, FactsChange
<1>7. QED
  BY <1>2, <1>4, <1>5, <1>6 DEF HasFacts, NoFacts

\* Whichever reports extract a session's facts, no two projects count it both.
THEOREM SessionsCountedOnce == Spec => []CountedOnce
<1>1. Init => ClaimedOnce
  BY DEF Init, ClaimedOnce, Claims, NoJob
<1>2. Inv /\ ClaimedOnce => CountedOnce
  BY DEF ClaimedOnce, Claims, CountedOnce, Inv, DataOK
<1>3. QED
  BY <1>1, <1>2, Invariant, ClaimedStep, PTL DEF Spec
=============================================================================
