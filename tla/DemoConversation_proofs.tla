------------------------ MODULE DemoConversation_proofs ------------------------
(***************************************************************************)
(* Proofs about DemoConversation, for every number of messages, demos,     *)
(* restarts, and every set of demos with terms or with a company.          *)
(***************************************************************************)
EXTENDS DemoConversation, TLAPS

Where == {"new", "done"} \cup InFlight
Fate == {"none", "spawned", "analysing"}
Work == [demo : Impl, of : SUBSET Impl, mixed : BOOLEAN]

\* The users row, column by column.
UserTypes ==
    /\ known \in BOOLEAN /\ impl \in Impl \cup {NoImpl} /\ accepted \in BOOLEAN
    /\ poc \in BOOLEAN /\ loc \in BOOLEAN /\ contact \in BOOLEAN

OtherTypes ==
    /\ photos \in SUBSET Impl /\ place \in BOOLEAN
    /\ seen \in SUBSET Msg /\ menu \in BOOLEAN
    /\ batch \in [Msg -> Fate] /\ work \in [Msg -> Work]
    /\ handled \in [Msg -> Nat] /\ sent \in 0..(MaxSent + MaxRestarts)
    /\ mixed \in BOOLEAN /\ restarts \in 0..MaxRestarts

HandlerTypes ==
    /\ at \in [Msg -> Where] /\ asks \in [Msg -> Ask]
    /\ snap \in [Msg -> Row] /\ under \in [Msg -> Impl]

Types == UserTypes /\ OtherTypes /\ HandlerTypes

LEMMA UserIsRow ==
    ASSUME UserTypes
    PROVE  User \in Row
  BY DEF UserTypes, User, Row

LEMMA TypesSuffice == Types => TypeOK
  BY UserIsRow DEF Types, UserTypes, OtherTypes, HandlerTypes, TypeOK, Where, Fate, Work

LEMMA DemoType ==
    ASSUME UserTypes
    PROVE  Demo \in Impl
  BY ImplAssumption DEF UserTypes, User, Demo, Resolved

LEMMA OtherDemoType ==
    ASSUME NEW d \in Impl
    PROVE  OtherDemo(d) \in Impl
  <1>1. PICK e \in Impl : e # Retail
    BY ImplAssumption
  <1> QED BY <1>1, ImplAssumption DEF OtherDemo

\* What a keyword or a digit names.
LEMMA AskType ==
    ASSUME HandlerTypes, NEW m \in Msg
    PROVE  asks[m].demo \in Impl \cup {NoImpl} /\ (asks[m].says \in {"keyword", "digit"} => asks[m].demo \in Impl)
  BY DEF HandlerTypes, Ask

-----------------------------------------------------------------------------
(***************************************************************************)
(* The types.                                                              *)
(***************************************************************************)
LEMMA InitTypes == Init => Types
  <1> SUFFICES ASSUME Init PROVE Types
    OBVIOUS
  <1>1. UserTypes
    BY DEF Init, UserTypes
  <1>2. NoRow \in Row /\ [says |-> "other", demo |-> NoImpl] \in Ask /\ NoWork \in Work
    BY ImplAssumption DEF NoRow, Row, Ask, Work, NoWork
  <1>3. OtherTypes
    <2>1. sent \in 0..(MaxSent + MaxRestarts) /\ restarts \in 0..MaxRestarts /\ handled \in [Msg -> Nat]
      BY ImplAssumption DEF Init
    <2>2. batch \in [Msg -> Fate] /\ work \in [Msg -> Work]
      BY <1>2 DEF Init, Fate
    <2> QED BY <2>1, <2>2 DEF Init, OtherTypes
  <1>4. HandlerTypes
    BY <1>2, ImplAssumption DEF Init, HandlerTypes, Where
  <1> QED BY <1>1, <1>3, <1>4 DEF Types

\* A handler moves, and keeps what it had read or forgets it.
LEMMA MoveTypes ==
    ASSUME HandlerTypes, NEW m \in Msg, NEW w \in Where, at' = [at EXCEPT ![m] = w],
           asks' = asks, snap' = snap \/ snap' = [snap EXCEPT ![m] = NoRow],
           under' = under \/ under' = [under EXCEPT ![m] = Home]
    PROVE  HandlerTypes'
  <1>1. NoRow \in Row /\ Home \in Impl
    BY ImplAssumption DEF NoRow, Row
  <1> QED BY <1>1 DEF HandlerTypes

LEMMA LeavesTypes ==
    ASSUME HandlerTypes, NEW m \in Msg, Leaves(m), asks' = asks
    PROVE  HandlerTypes'
  BY MoveTypes DEF Leaves, Where

LEMMA AnsweredTypes ==
    ASSUME HandlerTypes, NEW m \in Msg, Answered(m), asks' = asks
    PROVE  HandlerTypes'
  BY LeavesTypes DEF Answered

LEMMA OnwardTypes ==
    ASSUME HandlerTypes, NEW m \in Msg, NEW w \in InFlight, Onward(m, w), asks' = asks
    PROVE  HandlerTypes'
  BY MoveTypes DEF Onward, Where

LEMMA BareTypes ==
    ASSUME HandlerTypes, NEW m \in Msg, GoesBare(m), asks' = asks
    PROVE  HandlerTypes'
  BY MoveTypes DEF GoesBare, Where, InFlight, Dispatching

LEMMA SpawnTypes ==
    ASSUME Types, NEW m \in Msg, Spawn(m)
    PROVE  batch' \in [Msg -> Fate] /\ work' \in [Msg -> Work]
  <1>1. under[m] \in Impl
    BY DEF Types, HandlerTypes
  <1> QED BY <1>1 DEF Spawn, Types, OtherTypes, Fate, Work

LEMMA EnsureUserTypes ==
    ASSUME Types, NEW m \in Msg, EnsureUser(m)
    PROVE  known' \in BOOLEAN /\ impl' \in Impl \cup {NoImpl}
  <1>1. under[m] \in Impl
    BY DEF Types, HandlerTypes
  <1> QED BY <1>1 DEF EnsureUser, Types, UserTypes

LEMMA TakeTypes ==
    ASSUME Types, NEW m \in Msg, NEW a \in Ask,
           Receive(m, a) \/ Redeliver(m)
    PROVE  Types'
  <1>1. UserTypes'
    BY DEF Types, UserTypes, Receive, Redeliver, Take, userVars
  <1>2. HandlerTypes'
    BY DEF Types, HandlerTypes, Receive, Redeliver, Take, Where, InFlight
  <1>3. sent' \in 0..(MaxSent + MaxRestarts)
    BY ImplAssumption DEF Types, OtherTypes, Receive, Redeliver
  <1>4. batch' \in [Msg -> Fate] /\ handled' \in [Msg -> Nat]
    BY DEF Types, OtherTypes, Receive, Redeliver, Take, Fate
  <1>5. mixed' \in BOOLEAN
    BY DEF Types, OtherTypes, Receive, Redeliver, Take
  <1>6. OtherTypes'
    BY <1>3, <1>4, <1>5 DEF Types, OtherTypes, Receive, Redeliver, Take, fileVars
  <1> QED BY <1>1, <1>2, <1>6 DEF Types

LEMMA SwitchTypes ==
    ASSUME Types, NEW m \in Msg, NEW d \in Impl, SwitchTo(m, d),
           poc' \in BOOLEAN, loc' \in BOOLEAN
    PROVE  Types'
  <1>1. UserTypes'
    BY DEF Types, UserTypes, SwitchTo
  <1>2. HandlerTypes'
    BY OnwardTypes DEF SwitchTo, Types, InFlight
  <1>3. OtherTypes'
    BY DEF Types, OtherTypes, SwitchTo, fileVars, webVars, batchVars, histVars
  <1> QED BY <1>1, <1>2, <1>3 DEF Types

LEMMA ClearTypes ==
    ASSUME Types, NEW m \in Msg, ClearEscaped(m)
    PROVE  poc' \in BOOLEAN /\ loc' \in BOOLEAN
  BY DEF ClearEscaped, Cleared, Types, UserTypes

\* The steps that only change the row, the files, the menu or the batch.
LEMMA HandlerStepTypes ==
    ASSUME Types, NEW m \in Msg, HandlerStep(m)
    PROVE  Types'
  <1> USE DEF userVars, fileVars, webVars, batchVars, histVars
  <1>1. ASSUME NEW found \in BOOLEAN, NEW loads \in BOOLEAN, ReadUser(m, found, loads)
        PROVE  Types'
    <2>1. HandlerTypes'
      <3>1. User \in Row /\ NoRow \in Row /\ Demo \in Impl /\ Home \in Impl
        BY UserIsRow, DemoType, ImplAssumption DEF Types, NoRow, Row
      <3> QED BY <1>1, <3>1 DEF ReadUser, Types, HandlerTypes, Where, InFlight, Dispatching
    <2>2. mixed' \in BOOLEAN
      BY <1>1 DEF ReadUser
    <2> QED BY <1>1, <2>1, <2>2 DEF ReadUser, Types, UserTypes, OtherTypes
  <1>2. CASE SwitchByKeyword(m) \/ SwitchByCompany(m)
    <2>1. asks[m].demo \in Impl
      BY <1>2, AskType DEF SwitchByKeyword, SwitchByCompany, IsSwitch, NamesCompany, Says, Types
    <2>2. SwitchTo(m, asks[m].demo) /\ poc' = poc /\ loc' = loc
      BY <1>2 DEF SwitchByKeyword, SwitchByCompany
    <2> QED BY <2>1, <2>2, SwitchTypes DEF Types, UserTypes
  <1>3. CASE SwitchByOtro(m)
    <2>1. OtherDemo(under[m]) \in Impl
      BY OtherDemoType DEF Types, HandlerTypes
    <2> QED BY <1>3, <2>1, ClearTypes, SwitchTypes DEF SwitchByOtro
  <1>4. CASE Unflag(m)
    <2>1. HandlerTypes'
      BY <1>4, AnsweredTypes DEF Unflag, Types
    <2>2. UserTypes'
      BY <1>4 DEF Unflag, Cleared, Types, UserTypes
    <2> QED BY <1>4, <2>1, <2>2 DEF Unflag, Types, OtherTypes
  <1>5. ASSUME NEW ok \in BOOLEAN, Wipe(m, ok)
        PROVE  Types'
    <2>1. HandlerTypes'
      BY <1>5, AnsweredTypes, OnwardTypes DEF Wipe, Types, InFlight
    <2>2. UserTypes'
      BY <1>5 DEF Wipe, Types, UserTypes
    <2>3. photos' \in SUBSET Impl /\ place' \in BOOLEAN
      BY <1>5 DEF Wipe, Types, OtherTypes
    <2>4. mixed' \in BOOLEAN
      BY <1>5 DEF Wipe, Types, OtherTypes
    <2> QED BY <1>5, <2>1, <2>2, <2>3, <2>4 DEF Wipe, Types, OtherTypes
  <1>6. CASE SendSample(m) \/ UnknownCompany(m)
    <2>1. HandlerTypes'
      BY <1>6, AnsweredTypes DEF SendSample, UnknownCompany, Types
    <2> QED BY <1>6, <2>1 DEF SendSample, UnknownCompany, Types, UserTypes, OtherTypes
  <1>7. CASE AskTerms(m)
    <2>1. HandlerTypes'
      BY <1>7, AnsweredTypes DEF AskTerms, Types
    <2>2. UserTypes'
      BY <1>7 DEF AskTerms, Types, UserTypes
    <2> QED BY <1>7, <2>1, <2>2 DEF AskTerms, Types, OtherTypes
  <1>8. ASSUME NEW kept \in BOOLEAN, TakePhoto(m, kept)
        PROVE  Types'
    <2>1. HandlerTypes'
      BY <1>8, AnsweredTypes DEF TakePhoto, Types
    <2>2. photos' \in SUBSET Impl
      <3>1. under[m] \in Impl
        BY DEF Types, HandlerTypes
      <3> QED BY <1>8, <3>1 DEF TakePhoto, Types, OtherTypes
    <2> QED BY <1>8, <2>1, <2>2 DEF TakePhoto, Types, UserTypes, OtherTypes
  <1>9. ASSUME NEW heard \in BOOLEAN, TakeAudio(m, heard)
        PROVE  Types'
    <2>1. HandlerTypes'
      BY <1>9, AnsweredTypes, OnwardTypes DEF TakeAudio, Types, InFlight
    <2>2. place' \in BOOLEAN
      BY <1>9 DEF TakeAudio, Placed, Types, OtherTypes
    <2> QED BY <1>9, <2>1, <2>2 DEF TakeAudio, Types, UserTypes, OtherTypes
  <1>10. CASE TakePlace(m)
    <2>1. HandlerTypes'
      BY <1>10, AnsweredTypes DEF TakePlace, Types
    <2> QED BY <1>10, <2>1 DEF TakePlace, Placed, Cleared, Types, UserTypes, OtherTypes
  <1>11. CASE ShowMenu(m)
    <2>1. HandlerTypes'
      BY <1>11, AnsweredTypes DEF ShowMenu, Types
    <2> QED BY <1>11, <2>1 DEF ShowMenu, Types, UserTypes, OtherTypes
  <1>12. CASE PickFromMenu(m)
    <2>1. HandlerTypes'
      BY <1>12, AnsweredTypes DEF PickFromMenu, Types
    <2>2. impl' \in Impl \cup {NoImpl}
      BY <1>12, AskType DEF PickFromMenu, Types, UserTypes
    <2>3. menu' \in BOOLEAN /\ mixed' \in BOOLEAN
      BY <1>12 DEF PickFromMenu
    <2> QED BY <1>12, <2>1, <2>2, <2>3 DEF PickFromMenu, Types, UserTypes, OtherTypes
  <1>13. ASSUME NEW wiped \in BOOLEAN, NEW cleared \in BOOLEAN, Reset(m, wiped, cleared)
         PROVE  Types'
    <2>1. HandlerTypes'
      BY <1>13, AnsweredTypes DEF Reset, Types
    <2>2. UserTypes'
      BY <1>13 DEF Reset, Types, UserTypes
    <2>3. photos' \in SUBSET Impl /\ place' \in BOOLEAN
      BY <1>13 DEF Reset, Types, OtherTypes
    <2>4. mixed' \in BOOLEAN
      BY <1>13 DEF Reset, Types, OtherTypes
    <2> QED BY <1>13, <2>1, <2>2, <2>3, <2>4 DEF Reset, Types, OtherTypes
  <1>14. CASE AskCompany(m)
    <2>1. HandlerTypes'
      BY <1>14, AnsweredTypes DEF AskCompany, Types
    <2> QED BY <1>14, <2>1, EnsureUserTypes DEF AskCompany, Types, UserTypes, OtherTypes
  <1>15. CASE AnswerQuestionnaire(m)
    <2>1. HandlerTypes'
      BY <1>15, OnwardTypes DEF AnswerQuestionnaire, Types, InFlight
    <2> QED BY <1>15, <2>1 DEF AnswerQuestionnaire, Placed, Types, UserTypes, OtherTypes
  <1>16. CASE RunAfterAnswer(m)
    <2>1. HandlerTypes'
      BY <1>16, AnsweredTypes DEF RunAfterAnswer, Types
    <2> QED BY <1>16, <2>1, SpawnTypes DEF RunAfterAnswer, Cleared, Types, UserTypes, OtherTypes
  <1>17. CASE TakeLead(m)
    <2>1. HandlerTypes'
      BY <1>17, AnsweredTypes DEF TakeLead, Types
    <2>2. poc' \in BOOLEAN /\ loc' \in BOOLEAN
      BY <1>17, ClearTypes DEF TakeLead
    <2> QED BY <1>17, <2>1, <2>2 DEF TakeLead, Cleared, Types, UserTypes, OtherTypes
  <1>18. CASE AskContact(m)
    <2>1. HandlerTypes'
      BY <1>18, AnsweredTypes DEF AskContact, Types
    <2>2. poc' \in BOOLEAN /\ loc' \in BOOLEAN
      BY <1>18, ClearTypes DEF AskContact
    <2> QED BY <1>18, <2>1, <2>2, EnsureUserTypes DEF AskContact, Types, UserTypes, OtherTypes
  <1>19. CASE Generar(m)
    <2>1. HandlerTypes'
      BY <1>19, OnwardTypes DEF Generar, Types, InFlight
    <2>2. poc' \in BOOLEAN /\ loc' \in BOOLEAN
      BY <1>19, ClearTypes DEF Generar
    <2> QED BY <1>19, <2>1, <2>2 DEF Generar, Types, UserTypes, OtherTypes
  <1>20. CASE LookForContext(m)
    <2>1. HandlerTypes'
      BY <1>20, AnsweredTypes, OnwardTypes DEF LookForContext, Types, InFlight
    <2>2. batch' \in [Msg -> Fate] /\ work' \in [Msg -> Work]
      BY <1>20, SpawnTypes DEF LookForContext, Types, OtherTypes
    <2> QED BY <1>20, <2>1, <2>2 DEF LookForContext, Types, UserTypes, OtherTypes
  <1>21. CASE SendQuestionnaire(m)
    <2>1. HandlerTypes'
      BY <1>21, AnsweredTypes DEF SendQuestionnaire, Types
    <2> QED BY <1>21, <2>1 DEF SendQuestionnaire, Types, UserTypes, OtherTypes
  <1>22. CASE NotUnderstood(m)
    <2>1. HandlerTypes'
      BY <1>22, AnsweredTypes DEF NotUnderstood, Types
    <2>2. poc' \in BOOLEAN /\ loc' \in BOOLEAN
      BY <1>22, ClearTypes DEF NotUnderstood
    <2> QED BY <1>22, <2>1, <2>2 DEF NotUnderstood, Types, UserTypes, OtherTypes
  <1>23. CASE NoteAsField(m)
    <2>1. HandlerTypes'
      BY <1>23, LeavesTypes DEF NoteAsField, Types, Where
    <2> QED BY <1>23, <2>1 DEF NoteAsField, Types, UserTypes, OtherTypes
  <1> QED BY <1>1, <1>2, <1>3, <1>4, <1>5, <1>6, <1>7, <1>8, <1>9, <1>10, <1>11, <1>12, <1>13,
             <1>14, <1>15, <1>16, <1>17, <1>18, <1>19, <1>20, <1>21, <1>22, <1>23 DEF HandlerStep

LEMMA CallRaisesTypes ==
    ASSUME Types, NEW m \in Msg, CallRaises(m)
    PROVE  Types'
  <1> USE DEF userVars, fileVars, webVars, batchVars, histVars
  \* upsert_user raises: what it may leave of the row.
  <1>0. ASSUME NEW d \in Impl, NEW wrote \in BOOLEAN, SwitchRaises(d, wrote),
               poc' \in BOOLEAN, loc' \in BOOLEAN, mixed' \in BOOLEAN, HandlerTypes'
        PROVE  Types'
    BY <1>0 DEF SwitchRaises, Types, UserTypes, OtherTypes
  <1>1. CASE NoTarget(m)
    <2>1. HandlerTypes'
      BY <1>1, OnwardTypes DEF NoTarget, Types, InFlight, Dispatching
    <2> QED BY <1>1, <2>1 DEF NoTarget, Types, UserTypes, OtherTypes
  <1>2. CASE AccessFails(m)
    <2>1. HandlerTypes'
      BY <1>2, BareTypes DEF AccessFails, Types
    <2>2. mixed' \in BOOLEAN
      BY <1>2 DEF AccessFails
    <2> QED BY <1>2, <2>1, <2>2 DEF AccessFails, Types, UserTypes, OtherTypes
  <1>3. CASE RequestFails(m)
    <2>1. HandlerTypes'
      BY <1>3, LeavesTypes DEF RequestFails, Types, Where
    <2>2. mixed' \in BOOLEAN
      BY <1>3 DEF RequestFails
    <2> QED BY <1>3, <2>1, <2>2 DEF RequestFails, Types, UserTypes, OtherTypes
  <1>4. ASSUME NEW wrote \in BOOLEAN, KeywordFails(m, wrote)
        PROVE  Types'
    <2>1. asks[m].demo \in Impl
      BY <1>4, AskType DEF KeywordFails, IsSwitch, Says, Types
    <2>2. HandlerTypes'
      BY <1>4, BareTypes DEF KeywordFails, SwitchRaises, Types
    <2>3. mixed' \in BOOLEAN /\ poc' \in BOOLEAN /\ loc' \in BOOLEAN
      BY <1>4 DEF KeywordFails, Types, UserTypes
    <2>4. SwitchRaises(asks[m].demo, wrote)
      BY <1>4 DEF KeywordFails
    <2> QED BY <1>0, <2>1, <2>2, <2>3, <2>4
  <1>5. ASSUME NEW wrote \in BOOLEAN, CompanyFails(m, wrote)
        PROVE  Types'
    <2>1. asks[m].demo \in Impl
      BY <1>5, AskType DEF CompanyFails, NamesCompany, Says, Types
    <2>2. HandlerTypes'
      BY <1>5, AnsweredTypes DEF CompanyFails, SwitchRaises, Types
    <2>3. mixed' \in BOOLEAN /\ poc' \in BOOLEAN /\ loc' \in BOOLEAN
      BY <1>5 DEF CompanyFails, Cleared, Types, UserTypes
    <2>4. SwitchRaises(asks[m].demo, wrote)
      BY <1>5 DEF CompanyFails
    <2> QED BY <1>0, <2>1, <2>2, <2>3, <2>4
  <1>6. ASSUME NEW wrote \in BOOLEAN, OtroFails(m, wrote)
        PROVE  Types'
    <2>1. OtherDemo(under[m]) \in Impl
      BY OtherDemoType DEF Types, HandlerTypes
    <2>2. HandlerTypes'
      BY <1>6, AnsweredTypes DEF OtroFails, SwitchRaises, Types
    <2>3. mixed' \in BOOLEAN /\ poc' \in BOOLEAN /\ loc' \in BOOLEAN
      BY <1>6, ClearTypes DEF OtroFails
    <2>4. SwitchRaises(OtherDemo(under[m]), wrote)
      BY <1>6 DEF OtroFails
    <2> QED BY <1>0, <2>1, <2>2, <2>3, <2>4
  <1>7. ASSUME NEW wrote \in BOOLEAN, AcceptFails(m, wrote)
        PROVE  Types'
    <2>1. HandlerTypes'
      BY <1>7, OnwardTypes DEF AcceptFails, Types, InFlight, Dispatching
    <2>2. accepted' \in BOOLEAN
      BY <1>7 DEF AcceptFails
    <2> QED BY <1>7, <2>1, <2>2 DEF AcceptFails, Types, UserTypes, OtherTypes
  <1> QED BY <1>1, <1>2, <1>3, <1>4, <1>5, <1>6, <1>7 DEF CallRaises

LEMMA NextTypes ==
    ASSUME Types, [Next]_vars
    PROVE  Types'
  <1> USE DEF userVars, fileVars, webVars, batchVars, histVars
  <1>1. ASSUME NEW m \in Msg, BatchStep(m)
        PROVE  Types'
    <2>1. NoWork \in Work /\ photos \in SUBSET Impl /\ mixed \in BOOLEAN
      BY ImplAssumption DEF Types, OtherTypes, Work, NoWork
    <2>2. batch' \in [Msg -> Fate] /\ work' \in [Msg -> Work]
      BY <1>1, <2>1 DEF BatchStep, BatchReads, BatchTells, Types, OtherTypes, Fate, Work
    <2> QED BY <1>1, <2>2 DEF BatchStep, BatchReads, BatchTells, Types, UserTypes, OtherTypes, HandlerTypes
  <1>2. CASE Expire
    BY <1>2 DEF Expire, Types, UserTypes, OtherTypes, HandlerTypes
  <1>4. CASE Restart
    <2>1. HandlerTypes'
      <3>1. NoRow \in Row /\ Home \in Impl
        BY ImplAssumption DEF NoRow, Row
      <3> QED BY <1>4, <3>1 DEF Restart, Types, HandlerTypes, Where
    <2>2. restarts' \in 0..MaxRestarts
      BY <1>4, ImplAssumption DEF Restart, Types, OtherTypes
    <2>3. mixed' \in BOOLEAN /\ batch' \in [Msg -> Fate]
      BY <1>4 DEF Restart, Types, OtherTypes, Fate
    <2>4. work' \in [Msg -> Work]
      BY <1>4, ImplAssumption DEF Restart, Work, NoWork
    <2> QED BY <1>4, <2>1, <2>2, <2>3, <2>4 DEF Restart, Types, UserTypes, OtherTypes
  <1>5. CASE UNCHANGED vars
    BY <1>5 DEF vars, Types, UserTypes, OtherTypes, HandlerTypes
  <1>6. [says |-> "other", demo |-> NoImpl] \in Ask
    BY DEF Ask
  <1> QED BY <1>1, <1>2, <1>4, <1>5, <1>6, TakeTypes, HandlerStepTypes, CallRaisesTypes DEF Next

-----------------------------------------------------------------------------
(***************************************************************************)
(* Each life of the process takes a message in hand once.                  *)
(***************************************************************************)
\* A message whose SID this life has not seen was taken in hand by others only.
Counted == \A m \in Msg : handled[m] <= IF m \in seen THEN restarts + 1 ELSE restarts

LEMMA CountedInit == Init => Counted
  BY DEF Init, Counted

LEMMA NextCounted ==
    ASSUME Types, Counted, [Next]_vars
    PROVE  Counted'
  <1>0. restarts \in Nat /\ handled \in [Msg -> Nat] /\ \A m \in Msg : handled[m] \in Nat
    BY ImplAssumption DEF Types, OtherTypes
  <1>1. ASSUME NEW m \in Msg, NEW a \in Ask, Receive(m, a)
        PROVE  Counted'
    <2>1. seen' = seen \cup {m} /\ handled' = [handled EXCEPT ![m] = 1] /\ restarts' = restarts
      BY <1>1 DEF Receive, Take
    <2> QED BY <1>0, <2>1 DEF Counted
  <1>2. ASSUME NEW m \in Msg, Redeliver(m)
        PROVE  Counted'
    <2>1. /\ seen' = seen \cup {m} /\ handled' = [handled EXCEPT ![m] = handled[m] + 1]
          /\ restarts' = restarts /\ m \notin seen
      BY <1>2 DEF Redeliver, Take, IsDuplicate
    <2> QED BY <1>0, <2>1 DEF Counted
  <1>3. CASE Restart
    <2>1. seen' = {} /\ handled' = handled /\ restarts' = restarts + 1
      BY <1>3 DEF Restart
    <2>2. \A m \in Msg : handled[m] <= restarts + 1
      BY <1>0 DEF Counted
    <2> QED BY <2>1, <2>2 DEF Counted
  <1>4. CASE UNCHANGED <<seen, handled, restarts>>
    BY <1>4 DEF Counted
  <1>5. ASSUME NEW m \in Msg, HandlerStep(m)
        PROVE  UNCHANGED <<seen, handled, restarts>>
    <2> USE DEF webVars, histVars
    <2>1. CASE \/ \E found, loads \in BOOLEAN : ReadUser(m, found, loads)
               \/ SwitchByKeyword(m) \/ SwitchByCompany(m) \/ SwitchByOtro(m) \/ Unflag(m)
               \/ \E ok \in BOOLEAN : Wipe(m, ok)
      BY <2>1 DEF ReadUser, SwitchByKeyword, SwitchByCompany, SwitchByOtro, SwitchTo, Unflag, Wipe
    <2>2. CASE \/ SendSample(m) \/ AskTerms(m) \/ TakePlace(m) \/ ShowMenu(m) \/ PickFromMenu(m)
               \/ \E kept \in BOOLEAN : TakePhoto(m, kept)
               \/ \E heard \in BOOLEAN : TakeAudio(m, heard)
      BY <2>2 DEF SendSample, AskTerms, TakePlace, ShowMenu, PickFromMenu, TakePhoto, TakeAudio
    <2>3. CASE \/ \E wiped, cleared \in BOOLEAN : Reset(m, wiped, cleared)
               \/ AskCompany(m) \/ UnknownCompany(m) \/ AnswerQuestionnaire(m) \/ RunAfterAnswer(m)
               \/ TakeLead(m) \/ AskContact(m)
      BY <2>3 DEF Reset, AskCompany, UnknownCompany, AnswerQuestionnaire, RunAfterAnswer, TakeLead, AskContact
    <2>4. CASE Generar(m) \/ LookForContext(m) \/ SendQuestionnaire(m) \/ NotUnderstood(m) \/ NoteAsField(m)
      BY <2>4 DEF Generar, LookForContext, SendQuestionnaire, NotUnderstood, NoteAsField
    <2> QED BY <1>5, <2>1, <2>2, <2>3, <2>4 DEF HandlerStep
  <1>6. ASSUME \/ \E m \in Msg : BatchStep(m) \/ CallRaises(m)
               \/ Expire \/ UNCHANGED vars
        PROVE  UNCHANGED <<seen, handled, restarts>>
    BY <1>6 DEF BatchStep, BatchReads, BatchTells, Expire, vars, webVars, histVars, CallRaises, NoTarget, AccessFails,
                RequestFails, KeywordFails, CompanyFails, OtroFails, AcceptFails, SwitchRaises
  <1> QED BY <1>1, <1>2, <1>3, <1>4, <1>5, <1>6 DEF Next

-----------------------------------------------------------------------------
(***************************************************************************)
(* The session's photos are of one demo.                                   *)
(***************************************************************************)
\* Until one of the four causes comes about, one handler is in flight at most;
\* the demo it works for is what the row says; the photos are of one demo, and
\* of that one but between a switch of the row and its wipe.
Settled ==
    ~mixed =>
      /\ \A m \in Msg : at[m] \in InFlight => Alone(m)
      /\ \A m \in Msg : at[m] \in Dispatching => under[m] = Demo
      /\ \A d, e \in photos : d = e
      /\ (\A m \in Msg : at[m] # "wipe") => photos \subseteq {Demo}

LEMMA SettledInit == Init => Settled
  BY DEF Init, Settled, InFlight, Dispatching

\* The demo is a function of the row's column alone.
LEMMA DemoStays == impl' = impl => Demo' = Demo
  BY DEF Demo, Resolved, User

\* The row a handler creates is of the demo it had resolved.
LEMMA EnsureUserDemo ==
    ASSUME Types, NEW m \in Msg, EnsureUser(m), under[m] = Demo
    PROVE  Demo' = Demo
  <1>1. under[m] \in Impl /\ under[m] # NoImpl
    BY ImplAssumption DEF Types, HandlerTypes
  <1>2. CASE snap[m].known
    BY <1>2, DemoStays DEF EnsureUser
  <1>3. CASE ~ snap[m].known
    BY <1>1, <1>3 DEF EnsureUser, Demo, Resolved, User
  <1> QED BY <1>2, <1>3

\* A step of the handler of m.
Moves(m) ==
    /\ at[m] \in InFlight
    /\ \A n \in Msg \ {m} : at'[n] = at[n] /\ under'[n] = under[n]

LEMMA QuietStep ==
    ASSUME Types, Settled, NEW m \in Msg, Moves(m), ~mixed, at[m] # "wipe", at'[m] # "wipe",
           Demo' = Demo,
           \/ photos' \subseteq photos
           \/ at[m] \in Dispatching /\ photos' \subseteq photos \cup {under[m]},
           at'[m] \in Dispatching => under'[m] = Demo
    PROVE  Settled'
  <1>1. \A n \in Msg \ {m} : at[n] \notin InFlight
    BY DEF Settled, Moves, Alone
  <1>2. \A n \in Msg \ {m} : at'[n] \notin InFlight /\ at'[n] \notin Dispatching
    BY <1>1 DEF Moves, InFlight
  <1>3. \A n \in Msg : at'[n] \in InFlight => Alone(n)'
    BY <1>2 DEF Alone
  <1>4. \A n \in Msg : at'[n] \in Dispatching => under'[n] = Demo'
    BY <1>2
  <1>5. \A n \in Msg : at[n] # "wipe"
    BY <1>1 DEF InFlight
  <1>6. photos' \subseteq {Demo}
    BY <1>5 DEF Settled
  <1> QED BY <1>3, <1>4, <1>6 DEF Settled

\* The row is switched: the files are wiped next.
LEMMA SwitchSettled ==
    ASSUME Types, Settled, NEW m \in Msg, at[m] \in Dispatching, NEW d, SwitchTo(m, d)
    PROVE  Settled'
  <1> SUFFICES ASSUME ~mixed PROVE Settled'
    BY DEF SwitchTo, histVars, Settled
  <1>1. at' = [at EXCEPT ![m] = "wipe"] /\ at'[m] = "wipe"
    BY DEF SwitchTo, Onward, Types, HandlerTypes
  <1>2. \A n \in Msg \ {m} : at'[n] \notin InFlight /\ at'[n] \notin Dispatching
    BY <1>1 DEF Settled, Alone, InFlight, Types, HandlerTypes
  <1>3. photos' = photos /\ at'[m] \notin Dispatching
    BY <1>1 DEF SwitchTo, fileVars, Dispatching
  <1> QED BY <1>1, <1>2, <1>3 DEF Settled, Alone

\* The files are wiped, or not.
LEMMA WipedSettled ==
    ASSUME Types, Settled, NEW m \in Msg, Moves(m), at'[m] \notin Dispatching,
           NEW ok \in BOOLEAN, ok => photos' = {},
           mixed' = IF ok /\ Alone(m) THEN FALSE ELSE mixed \/ ~ok
    PROVE  Settled'
  <1> SUFFICES ASSUME ~mixed' PROVE Settled'
    BY DEF Settled
  <1>1. ok /\ photos' = {}
    OBVIOUS
  <1>2. Alone(m)
    BY DEF Settled, Moves
  <1>3. \A n \in Msg \ {m} : at'[n] \notin InFlight /\ at'[n] \notin Dispatching
    BY <1>2 DEF Alone, Moves, InFlight
  <1> QED BY <1>1, <1>3 DEF Settled, Alone

\* A message is taken in hand.
LEMMA TakeSettled ==
    ASSUME Types, Settled, NEW m \in Msg, NEW n, Take(m, n), at[m] \notin InFlight
    PROVE  Settled'
  <1> SUFFICES ASSUME ~mixed' PROVE Settled'
    BY DEF Settled
  <1>1. /\ ~mixed /\ Alone(m) /\ at'[m] = "arrived" /\ photos' = photos /\ impl' = impl
        /\ \A k \in Msg \ {m} : at'[k] = at[k]
    BY DEF Take, userVars, fileVars, Types, HandlerTypes
  <1>2. \A k \in Msg \ {m} : at'[k] \notin InFlight /\ at'[k] \notin Dispatching
    BY <1>1 DEF Alone, InFlight
  <1>3. \A k \in Msg : at[k] # "wipe"
    BY <1>1 DEF Alone, InFlight
  <1>4. at'[m] \notin Dispatching
    BY <1>1 DEF Dispatching
  <1> QED BY <1>1, <1>2, <1>3, <1>4, DemoStays DEF Settled, Alone

\* How the handler of m moves.
LEMMA MovesOn ==
    ASSUME Types, NEW m \in Msg, at[m] \in InFlight,
           Leaves(m) \/ (\E w : Onward(m, w)) \/ GoesBare(m)
    PROVE  Moves(m)
  BY DEF Leaves, Onward, GoesBare, Moves, Types, HandlerTypes

\* The handlers whose message is being dispatched.
LEMMA DispatchingFacts ==
    ASSUME NEW m \in Msg
    PROVE  /\ at[m] \in Dispatching => at[m] \in InFlight \ {"wipe"}
           /\ Unswitched(m) => at[m] \in Dispatching
           /\ Admitted(m) => at[m] \in Dispatching
           /\ IsPlain(m) => at[m] \in Dispatching
           /\ PassesPoc(m) => at[m] \in Dispatching
           /\ PassesLoc(m) => at[m] \in Dispatching
           /\ PassesContact(m) => at[m] \in Dispatching
  BY DEF InFlight, Dispatching, Unswitched, Admitted, IsPlain, PassesPoc, PassesLoc, PassesContact

\* A step that is neither a switch nor a wipe: what it does to what matters here.
LEMMA OrdinaryStep ==
    ASSUME Types, Settled, NEW m \in Msg, ~mixed, at[m] \in InFlight \ {"wipe"},
           NEW w \in {"done", "saved", "look", "question"}, (w = "done" /\ Leaves(m)) \/ Onward(m, w),
           Demo' = Demo,
           \/ photos' \subseteq photos
           \/ at[m] \in Dispatching /\ photos' \subseteq photos \cup {under[m]}
    PROVE  Settled'
  <1>1. Moves(m)
    BY MovesOn
  <1>2. at'[m] = w
    BY DEF Leaves, Onward, Types, HandlerTypes
  <1>3. at'[m] \notin Dispatching \cup {"wipe"}
    BY <1>2 DEF Dispatching
  <1> QED BY <1>1, <1>3, QuietStep

LEMMA HandlerStepSettled ==
    ASSUME Types, Settled, NEW m \in Msg, HandlerStep(m)
    PROVE  Settled'
  <1> USE DEF userVars, fileVars, webVars, batchVars, histVars
  <1>1. ASSUME at[m] \in InFlight \ {"wipe"}, ~mixed' => ~mixed /\ Demo' = Demo,
               NEW w \in {"done", "saved", "look", "question"}, (w = "done" /\ Leaves(m)) \/ Onward(m, w),
               \/ photos' \subseteq photos
               \/ at[m] \in Dispatching /\ photos' \subseteq photos \cup {under[m]}
        PROVE  Settled'
    <2>1. CASE mixed'
      BY <2>1 DEF Settled
    <2>2. CASE ~mixed'
      BY <1>1, <2>2, OrdinaryStep
    <2> QED BY <2>1, <2>2
  <1>2. Answered(m) => Leaves(m)
    BY DEF Answered
  <1>3. ASSUME NEW found \in BOOLEAN, NEW loads \in BOOLEAN, ReadUser(m, found, loads)
        PROVE  Settled'
    <2> SUFFICES ASSUME ~mixed' PROVE Settled'
      BY DEF Settled
    <2>1. /\ at[m] = "arrived" /\ at'[m] = "read" /\ photos' = photos /\ ~mixed /\ under'[m] = Demo
          /\ \A n \in Msg \ {m} : at'[n] = at[n] /\ under'[n] = under[n]
      BY <1>3 DEF ReadUser, Types, HandlerTypes
    <2>2. Moves(m) /\ Demo' = Demo
      BY <1>3, <2>1, DemoStays DEF Moves, InFlight, ReadUser
    <2> QED BY <2>1, <2>2, QuietStep
  <1>4. CASE SwitchByKeyword(m) \/ SwitchByCompany(m) \/ SwitchByOtro(m)
    <2>1. at[m] \in Dispatching
      BY <1>4, DispatchingFacts DEF SwitchByKeyword, SwitchByCompany, SwitchByOtro, Dispatching
    <2> QED BY <1>4, <2>1, SwitchSettled DEF SwitchByKeyword, SwitchByCompany, SwitchByOtro
  <1>5. ASSUME NEW ok \in BOOLEAN, Wipe(m, ok)
        PROVE  Settled'
    <2>1. Moves(m) /\ at'[m] \notin Dispatching
      <3>1. at[m] \in InFlight /\ (Leaves(m) \/ Onward(m, "unflag"))
        BY <1>5 DEF Wipe, InFlight, Answered
      <3>2. at'[m] \in {"done", "unflag"}
        BY <3>1 DEF Leaves, Onward, Types, HandlerTypes
      <3> QED BY <3>1, <3>2, MovesOn DEF Dispatching
    <2> QED BY <1>5, <2>1, WipedSettled DEF Wipe
  <1>6. ASSUME NEW wiped \in BOOLEAN, NEW cleared \in BOOLEAN, Reset(m, wiped, cleared)
        PROVE  Settled'
    <2>1. Moves(m) /\ at'[m] \notin Dispatching
      <3>1. at[m] \in InFlight /\ Leaves(m)
        BY <1>6, DispatchingFacts DEF Reset, Answered
      <3>2. at'[m] = "done"
        BY <3>1 DEF Leaves, Types, HandlerTypes
      <3> QED BY <3>1, <3>2, MovesOn DEF Dispatching
    <2> QED BY <1>6, <2>1, WipedSettled DEF Reset
  <1>7. CASE AskCompany(m) \/ AskContact(m)
    <2>1. at[m] \in Dispatching /\ EnsureUser(m) /\ Leaves(m) /\ photos' = photos /\ mixed' = mixed
      BY <1>2, <1>7, DispatchingFacts DEF AskCompany, AskContact
    <2>2. ~mixed => Demo' = Demo
      BY <2>1, EnsureUserDemo DEF Settled
    <2> QED BY <1>1, <2>1, <2>2, DispatchingFacts
  <1>8. ASSUME NEW kept \in BOOLEAN, TakePhoto(m, kept)
        PROVE  Settled'
    <2>1. /\ at[m] \in Dispatching /\ Leaves(m) /\ mixed' = mixed /\ impl' = impl
          /\ photos' \subseteq photos \cup {under[m]}
      BY <1>2, <1>8, DispatchingFacts DEF TakePhoto
    <2> QED BY <1>1, <2>1, DemoStays, DispatchingFacts
  <1>9. CASE PickFromMenu(m)
    <2>1. /\ at[m] \in Dispatching /\ Leaves(m) /\ photos' = photos
          /\ mixed' = (mixed \/ impl' # impl)
      BY <1>2, <1>9, DispatchingFacts DEF PickFromMenu
    <2>2. CASE mixed'
      BY <2>2 DEF Settled
    <2>3. CASE ~mixed'
      BY <1>1, <2>1, <2>3, DemoStays, DispatchingFacts
    <2> QED BY <2>2, <2>3
  <1>10. ASSUME at[m] \in Dispatching \cup {"unflag", "look", "question", "saved"},
                NEW w \in {"done", "saved", "look", "question"}, (w = "done" /\ Leaves(m)) \/ Onward(m, w),
                mixed' = mixed, impl' = impl, photos' = photos
         PROVE  Settled'
    BY <1>1, <1>10, DemoStays DEF InFlight, Dispatching
  <1>11. CASE SendSample(m) \/ AskTerms(m) \/ TakePlace(m) \/ ShowMenu(m) \/ UnknownCompany(m)
              \/ \E heard \in BOOLEAN : TakeAudio(m, heard)
    <2>1. /\ at[m] \in Dispatching /\ mixed' = mixed /\ impl' = impl /\ photos' = photos
          /\ Leaves(m) \/ Onward(m, "saved")
      BY <1>2, <1>11, DispatchingFacts DEF SendSample, AskTerms, TakePlace, ShowMenu, UnknownCompany, TakeAudio
    <2> QED BY <1>10, <2>1
  <1>12. CASE AnswerQuestionnaire(m) \/ TakeLead(m) \/ Generar(m) \/ NotUnderstood(m) \/ NoteAsField(m)
    <2>1. /\ at[m] \in Dispatching /\ mixed' = mixed /\ impl' = impl /\ photos' = photos
          /\ Leaves(m) \/ Onward(m, "saved") \/ Onward(m, "look")
      BY <1>2, <1>12, DispatchingFacts DEF AnswerQuestionnaire, TakeLead, Generar, NotUnderstood, NoteAsField
    <2> QED BY <1>10, <2>1
  <1>13. CASE Unflag(m) \/ RunAfterAnswer(m) \/ LookForContext(m) \/ SendQuestionnaire(m)
    <2>1. /\ at[m] \in {"unflag", "saved", "look", "question"} /\ mixed' = mixed /\ impl' = impl
          /\ photos' = photos
          /\ Leaves(m) \/ Onward(m, "question")
      BY <1>2, <1>13 DEF Unflag, RunAfterAnswer, LookForContext, SendQuestionnaire
    <2> QED BY <1>10, <2>1
  <1> QED BY <1>3, <1>4, <1>5, <1>6, <1>7, <1>8, <1>9, <1>11, <1>12, <1>13 DEF HandlerStep

\* An exception that changes neither the row's demo nor the files, or is a cause.
LEMMA CallRaisesSettled ==
    ASSUME Types, Settled, NEW m \in Msg, CallRaises(m)
    PROVE  Settled'
  <1> USE DEF userVars, fileVars, webVars, batchVars, histVars
  <1> SUFFICES ASSUME ~mixed' PROVE Settled'
    BY DEF Settled
  <1>0. ASSUME ~mixed, Moves(m), at[m] # "wipe", at'[m] # "wipe", impl' = impl, photos' = photos,
               at'[m] \in Dispatching => under'[m] = Demo
        PROVE  Settled'
    BY <1>0, QuietStep, DemoStays
  <1>1. CASE NoTarget(m) \/ \E wrote \in BOOLEAN : AcceptFails(m, wrote)
    <2>1. PICK w \in {"stay", "passed"} : Onward(m, w)
      BY <1>1 DEF NoTarget, AcceptFails
    <2>2. at[m] \in Dispatching /\ ~mixed /\ impl' = impl /\ photos' = photos
      BY <1>1, DispatchingFacts DEF NoTarget, AcceptFails, Dispatching
    <2>3. at'[m] = w /\ under' = under /\ under[m] = Demo
      BY <2>1, <2>2 DEF Onward, Settled, Types, HandlerTypes
    <2> QED BY <1>0, <2>1, <2>2, <2>3, MovesOn, DispatchingFacts
  <1>2. CASE AccessFails(m) \/ \E wrote \in BOOLEAN : KeywordFails(m, wrote)
    <2>1. GoesBare(m) /\ at[m] \in Dispatching /\ ~mixed /\ impl' = impl /\ photos' = photos /\ Demo = Home
      BY <1>2 DEF AccessFails, KeywordFails, SwitchRaises, Dispatching
    <2>2. at'[m] = "bare" /\ under'[m] = Home
      BY <2>1 DEF GoesBare, Types, HandlerTypes
    <2> QED BY <1>0, <2>1, <2>2, MovesOn, DispatchingFacts
  <1>3. CASE RequestFails(m) \/ \E wrote \in BOOLEAN : CompanyFails(m, wrote) \/ OtroFails(m, wrote)
    <2>1. at[m] \in InFlight \ {"wipe"}
      BY <1>3, DispatchingFacts DEF RequestFails, CompanyFails, OtroFails
    <2>2. Leaves(m)
      BY <1>3 DEF RequestFails, CompanyFails, OtroFails, Answered
    <2>3. ~mixed /\ impl' = impl /\ photos' = photos
      BY <1>3 DEF RequestFails, CompanyFails, OtroFails, SwitchRaises
    <2>4. at'[m] = "done"
      BY <2>2 DEF Leaves, Types, HandlerTypes
    <2> QED BY <1>0, <2>1, <2>2, <2>3, <2>4, MovesOn DEF Dispatching
  <1> QED BY <1>1, <1>2, <1>3 DEF CallRaises

\* A batch that found the photos unmixed read those of one demo.
ReadOne == \A m \in Msg : ~work[m].mixed => \A d, e \in work[m].of : d = e

LEMMA ReadOneInit == Init => ReadOne
  BY DEF Init, ReadOne, NoWork

LEMMA NextReadOne ==
    ASSUME Types, Settled, ReadOne, [Next]_vars
    PROVE  ReadOne'
  <1> USE DEF userVars, fileVars, webVars, batchVars, histVars
  <1>1. ASSUME NEW m \in Msg, work' = [work EXCEPT ![m].demo = under[m]] \/ work' = work
        PROVE  ReadOne'
    BY <1>1 DEF ReadOne, Types, OtherTypes, Work
  <1>2. ASSUME NEW m \in Msg, BatchReads(m)
        PROVE  ReadOne'
    BY <1>2 DEF BatchReads, ReadOne, Settled, Types, OtherTypes, Work
  <1>3. ASSUME NEW m \in Msg, BatchTells(m)
        PROVE  ReadOne'
    BY <1>3 DEF BatchTells, ReadOne, NoWork, Types, OtherTypes
  <1>4. CASE Restart
    BY <1>4 DEF Restart, ReadOne, NoWork
  <1>5. ASSUME NEW m \in Msg, HandlerStep(m)
        PROVE  work' = [work EXCEPT ![m].demo = under[m]] \/ work' = work
    <2>1. CASE \/ \E found, loads \in BOOLEAN : ReadUser(m, found, loads)
               \/ SwitchByKeyword(m) \/ SwitchByCompany(m) \/ SwitchByOtro(m) \/ Unflag(m)
               \/ \E ok \in BOOLEAN : Wipe(m, ok)
      BY <2>1 DEF ReadUser, SwitchByKeyword, SwitchByCompany, SwitchByOtro, SwitchTo, Unflag, Wipe
    <2>2. CASE \/ SendSample(m) \/ AskTerms(m) \/ TakePlace(m) \/ ShowMenu(m) \/ PickFromMenu(m)
               \/ \E kept \in BOOLEAN : TakePhoto(m, kept)
               \/ \E heard \in BOOLEAN : TakeAudio(m, heard)
      BY <2>2 DEF SendSample, AskTerms, TakePlace, ShowMenu, PickFromMenu, TakePhoto, TakeAudio
    <2>3. CASE \/ \E wiped, cleared \in BOOLEAN : Reset(m, wiped, cleared)
               \/ AskCompany(m) \/ UnknownCompany(m) \/ AnswerQuestionnaire(m) \/ RunAfterAnswer(m)
               \/ TakeLead(m) \/ AskContact(m)
      BY <2>3 DEF Reset, AskCompany, UnknownCompany, AnswerQuestionnaire, RunAfterAnswer, Spawn, TakeLead, AskContact
    <2>4. CASE Generar(m) \/ LookForContext(m) \/ SendQuestionnaire(m) \/ NotUnderstood(m) \/ NoteAsField(m)
      BY <2>4 DEF Generar, LookForContext, Spawn, SendQuestionnaire, NotUnderstood, NoteAsField
    <2> QED BY <1>5, <2>1, <2>2, <2>3, <2>4 DEF HandlerStep
  <1>6. ASSUME \/ \E m \in Msg : CallRaises(m) \/ Redeliver(m) \/ \E a \in Ask : Receive(m, a)
               \/ Expire \/ UNCHANGED vars
        PROVE  work' = work
    BY <1>6 DEF Receive, Redeliver, Take, Expire, vars, CallRaises, NoTarget, AccessFails,
                RequestFails, KeywordFails, CompanyFails, OtroFails, AcceptFails, SwitchRaises
  <1>7. work' = work => ReadOne'
    BY DEF ReadOne
  <1> QED BY <1>1, <1>2, <1>3, <1>4, <1>5, <1>6, <1>7 DEF Next, BatchStep

LEMMA NextSettled ==
    ASSUME Types, Settled, [Next]_vars
    PROVE  Settled'
  <1> USE DEF userVars, fileVars, webVars, batchVars, histVars
  <1>1. ASSUME UNCHANGED <<impl, photos, at, under, mixed>>
        PROVE  Settled'
    BY <1>1, DemoStays DEF Settled, Alone
  <1>2. ASSUME NEW m \in Msg, BatchStep(m)
        PROVE  Settled'
    BY <1>1, <1>2 DEF BatchStep, BatchReads, BatchTells
  <1>3. CASE Expire \/ UNCHANGED vars
    BY <1>1, <1>3 DEF Expire, vars
  <1>5. CASE Restart
    <2>1. /\ \A m \in Msg : at'[m] \notin InFlight /\ at'[m] \notin Dispatching
          /\ mixed' = (mixed \/ \E m \in Msg : at[m] = "wipe")
          /\ impl' = impl /\ photos' = photos
      BY <1>5 DEF Restart, InFlight, Dispatching
    <2> QED BY <2>1, DemoStays DEF Settled
  <1>6. ASSUME NEW m \in Msg, NEW a \in Ask, Receive(m, a)
        PROVE  Settled'
    BY <1>6, TakeSettled DEF Receive
  <1>7. ASSUME NEW m \in Msg, Redeliver(m)
        PROVE  Settled'
    BY <1>7, TakeSettled DEF Redeliver, InFlight, Dispatching
  <1> QED BY <1>2, <1>3, <1>5, <1>6, <1>7, HandlerStepSettled, CallRaisesSettled DEF Next

-----------------------------------------------------------------------------
(***************************************************************************)
(* The way of a message: exactly one branch of the dispatch takes it on,   *)
(* no step leads back, and, if the event loop goes on with each handler,   *)
(* it comes to its end.                                                    *)
(***************************************************************************)
\* Where a handler may go on to, other than to its end.
Ahead(where) ==
    CASE where = "arrived" -> {"read"}
      [] where = "read" -> {"stay", "passed", "bare", "wipe", "look", "saved"}
      [] where = "stay" -> {"passed", "bare", "wipe", "look", "saved"}
      [] where \in {"passed", "bare"} -> {"wipe", "look", "saved"}
      [] where = "wipe" -> {"unflag"}
      [] where = "look" -> {"question"}
      [] OTHER -> {}

\* Every step goes ahead or ends the handler: six are enough.  Only a new
\* delivery begins again, and only when no handler of the message is in flight.
NoHandlerGoesBack ==
    [][\A m \in Msg : at'[m] # at[m] =>
          \/ at[m] \notin InFlight /\ at'[m] = "arrived"
          \/ at[m] \in InFlight /\ at'[m] \in {"done"} \cup Ahead(at[m])]_vars

\* Only the handler of m moves, and it goes on.
Advances(m) ==
    /\ at[m] \in InFlight /\ at'[m] \in {"done"} \cup Ahead(at[m])
    /\ \A n \in Msg \ {m} : at'[n] = at[n]

\* However it moves, it gets there.
LEMMA MovesAhead ==
    ASSUME Types, NEW m \in Msg, at[m] \in InFlight,
           NEW w \in {"done"} \cup Ahead(at[m]),
           (w = "done" /\ Leaves(m)) \/ Onward(m, w) \/ (GoesBare(m) /\ w = "bare")
    PROVE  Advances(m)
  BY DEF Leaves, Onward, GoesBare, Advances, Types, HandlerTypes

\* A dispatched message may be put to more work.
LEMMA DispatchedAhead ==
    ASSUME NEW m \in Msg, at[m] \in Dispatching
    PROVE  at[m] \in InFlight /\ {"wipe", "look", "saved"} \subseteq Ahead(at[m])
  BY DEF Dispatching, InFlight, Ahead

LEMMA HandlerStepAdvances ==
    ASSUME Types, NEW m \in Msg, HandlerStep(m)
    PROVE  Advances(m)
  <1>1. Answered(m) => Leaves(m)
    BY DEF Answered
  <1>2. ASSUME NEW found \in BOOLEAN, NEW loads \in BOOLEAN, ReadUser(m, found, loads)
        PROVE  Advances(m)
    BY <1>2 DEF ReadUser, Advances, Ahead, InFlight, Dispatching, Types, HandlerTypes
  <1>3. CASE SwitchByKeyword(m) \/ SwitchByCompany(m) \/ SwitchByOtro(m)
    <2>1. at[m] \in Dispatching /\ Onward(m, "wipe")
      BY <1>3, DispatchingFacts DEF SwitchByKeyword, SwitchByCompany, SwitchByOtro, SwitchTo, Dispatching
    <2> QED BY <2>1, DispatchedAhead, MovesAhead
  <1>4. ASSUME NEW ok \in BOOLEAN, Wipe(m, ok)
        PROVE  Advances(m)
    <2>1. at[m] = "wipe" /\ (Leaves(m) \/ Onward(m, "unflag"))
      BY <1>1, <1>4 DEF Wipe
    <2>2. at[m] \in InFlight /\ "unflag" \in Ahead(at[m])
      BY <2>1 DEF InFlight, Ahead
    <2> QED BY <2>1, <2>2, MovesAhead
  <1>5. CASE Unflag(m) \/ RunAfterAnswer(m) \/ SendQuestionnaire(m)
    <2>1. at[m] \in InFlight /\ Leaves(m)
      BY <1>1, <1>5 DEF Unflag, RunAfterAnswer, SendQuestionnaire, InFlight
    <2> QED BY <2>1, MovesAhead
  <1>6. CASE \/ SendSample(m) \/ AskTerms(m) \/ TakePlace(m) \/ ShowMenu(m) \/ PickFromMenu(m)
             \/ \E kept \in BOOLEAN : TakePhoto(m, kept)
             \/ \E wiped, cleared \in BOOLEAN : Reset(m, wiped, cleared)
    <2>1. at[m] \in Dispatching /\ Leaves(m)
      BY <1>1, <1>6, DispatchingFacts DEF SendSample, AskTerms, TakePlace, ShowMenu, PickFromMenu, TakePhoto, Reset
    <2> QED BY <2>1, DispatchedAhead, MovesAhead
  <1>7. CASE AskCompany(m) \/ UnknownCompany(m) \/ TakeLead(m) \/ AskContact(m) \/ NotUnderstood(m)
             \/ NoteAsField(m)
    <2>1. at[m] \in Dispatching /\ Leaves(m)
      BY <1>1, <1>7, DispatchingFacts DEF AskCompany, UnknownCompany, TakeLead, AskContact, NotUnderstood,
                                          NoteAsField
    <2> QED BY <2>1, DispatchedAhead, MovesAhead
  <1>8. CASE \/ \E heard \in BOOLEAN : TakeAudio(m, heard)
             \/ AnswerQuestionnaire(m) \/ Generar(m)
    <2>1. at[m] \in Dispatching /\ (Leaves(m) \/ Onward(m, "saved") \/ Onward(m, "look"))
      BY <1>1, <1>8, DispatchingFacts DEF TakeAudio, AnswerQuestionnaire, Generar
    <2> QED BY <2>1, DispatchedAhead, MovesAhead
  <1>9. CASE LookForContext(m)
    <2>1. at[m] = "look" /\ (Leaves(m) \/ Onward(m, "question"))
      BY <1>1, <1>9 DEF LookForContext
    <2>2. at[m] \in InFlight /\ "question" \in Ahead(at[m])
      BY <2>1 DEF InFlight, Ahead
    <2> QED BY <2>1, <2>2, MovesAhead
  <1> QED BY <1>2, <1>3, <1>4, <1>5, <1>6, <1>7, <1>8, <1>9 DEF HandlerStep

LEMMA CallRaisesAdvances ==
    ASSUME Types, NEW m \in Msg, CallRaises(m)
    PROVE  Advances(m)
  <1>1. CASE NoTarget(m)
    <2>1. at[m] \in InFlight /\ "stay" \in Ahead(at[m]) /\ Onward(m, "stay")
      BY <1>1 DEF NoTarget, InFlight, Dispatching, Ahead
    <2> QED BY <2>1, MovesAhead
  <1>2. CASE AccessFails(m) \/ \E wrote \in BOOLEAN : KeywordFails(m, wrote)
    <2>1. at[m] \in InFlight /\ "bare" \in Ahead(at[m]) /\ GoesBare(m)
      BY <1>2 DEF AccessFails, KeywordFails, InFlight, Dispatching, Ahead
    <2> QED BY <2>1, MovesAhead
  <1>3. CASE RequestFails(m) \/ \E wrote \in BOOLEAN : CompanyFails(m, wrote) \/ OtroFails(m, wrote)
    <2>1. at[m] \in InFlight /\ Leaves(m)
      BY <1>3, DispatchingFacts DEF RequestFails, CompanyFails, OtroFails, Answered
    <2> QED BY <2>1, MovesAhead
  <1>4. CASE \E wrote \in BOOLEAN : AcceptFails(m, wrote)
    <2>1. at[m] \in {"read", "stay"} /\ Onward(m, "passed")
      BY <1>4 DEF AcceptFails, Unswitched
    <2>2. at[m] \in InFlight /\ "passed" \in Ahead(at[m])
      BY <2>1 DEF InFlight, Dispatching, Ahead
    <2> QED BY <2>1, <2>2, MovesAhead
  <1> QED BY <1>1, <1>2, <1>3, <1>4 DEF CallRaises

\* Where the handler of a message goes in a step of anyone.
LEMMA NextMoves ==
    ASSUME Types, [Next]_vars, NEW n \in Msg, at'[n] # at[n]
    PROVE  \/ at[n] \notin InFlight /\ at'[n] = "arrived"
           \/ at[n] \in InFlight /\ at'[n] \in {"done"} \cup Ahead(at[n])
  <1>1. ASSUME NEW m \in Msg, HandlerStep(m)
        PROVE  n = m /\ Advances(m)
    BY <1>1, HandlerStepAdvances DEF Advances
  <1>2. ASSUME NEW m \in Msg, NEW a \in Ask, Receive(m, a) \/ Redeliver(m)
        PROVE  at[n] \notin InFlight /\ at'[n] = "arrived"
    <2>1. m = n
      BY <1>2 DEF Receive, Redeliver, Take, Types, HandlerTypes
    <2> QED BY <1>2, <2>1 DEF Receive, Redeliver, Take, Types, HandlerTypes, InFlight, Dispatching
  <1>3. ASSUME NEW m \in Msg, CallRaises(m)
        PROVE  n = m /\ Advances(m)
    BY <1>3, CallRaisesAdvances DEF Advances
  <1>4. Restart => at[n] \in InFlight /\ at'[n] = "done"
    BY DEF Restart
  <1>5. Expire \/ (\E m \in Msg : BatchStep(m)) \/ UNCHANGED vars => at'[n] = at[n]
    BY DEF Expire, BatchStep, BatchReads, BatchTells, vars
  <1>6. (\E m \in Msg : HandlerStep(m) \/ CallRaises(m)) => Advances(n)
    BY <1>1, <1>3
  <1>7. (\E m \in Msg, a \in Ask : Receive(m, a)) \/ (\E m \in Msg : Redeliver(m))
          => at[n] \notin InFlight /\ at'[n] = "arrived"
    <2>1. [says |-> "other", demo |-> NoImpl] \in Ask
      BY DEF Ask
    <2> QED BY <1>2, <2>1
  <1> QED BY <1>4, <1>5, <1>6, <1>7 DEF Next, Advances

-----------------------------------------------------------------------------
(***************************************************************************)
(* The branches of the dispatch, each by the guard of its action.          *)
(***************************************************************************)
Branch == {"switch", "sample", "terms", "photo", "audio", "place", "menu", "pick", "reset", "poc",
           "company", "unknown", "answer", "lead", "otro", "contacto", "generar", "help", "note"}

BeforeText(m, b) ==
    \/ b = "switch" /\ at[m] = "read" /\ IsSwitch(m)
    \/ b = "sample" /\ Unswitched(m) /\ Says(m, "sample")
    \/ b = "terms" /\ Unswitched(m) /\ ~Says(m, "sample") /\ TermsPending(m)
    \/ b \in {"photo", "audio", "place"} /\ Admitted(m) /\ Says(m, b)

ForCommands(m, b) ==
    \/ b = "menu" /\ Admitted(m) /\ Says(m, "menu")
    \/ b = "pick" /\ Admitted(m) /\ IsText(m) /\ menu /\ ~Says(m, "menu")
    \/ b \in {"reset", "poc"} /\ Admitted(m) /\ IsDemo(m) /\ Says(m, b) /\ ~menu

ForPrompts(m, b) ==
    \/ b = "company" /\ IsPlain(m) /\ AwaitsCompany(m) /\ NamesCompany(m)
    \/ b = "unknown" /\ IsPlain(m) /\ AwaitsCompany(m) /\ ~NamesCompany(m) /\ ~Escapes(m)
    \/ b = "answer" /\ PassesPoc(m) /\ AwaitsPlace(m) /\ ~Escapes(m) /\ ~NamesCompany(m)
    \/ b = "lead" /\ PassesLoc(m) /\ snap[m].contact
    \/ b \in {"otro", "contacto", "generar"} /\ PassesContact(m) /\ IsDemo(m) /\ Says(m, b)
    \/ b = "help" /\ PassesContact(m) /\ IsDemo(m) /\ asks[m].says \notin {"otro", "contacto", "generar"}
    \/ b = "note" /\ PassesContact(m) /\ ~IsDemo(m)

Open(m) == {b \in Branch : BeforeText(m, b) \/ ForCommands(m, b) \/ ForPrompts(m, b)}

LEMMA OneBranchOpen ==
    ASSUME NEW m \in Msg, at[m] \in Dispatching
    PROVE  \E b \in Branch : Open(m) = {b}
  <1> USE DEF Branch
  <1>1. CASE at[m] = "read" /\ IsSwitch(m)
    <2>1. ~Admitted(m) /\ ~Unswitched(m)
      BY <1>1 DEF Admitted, Unswitched
    <2>2. Open(m) = {"switch"}
      BY <1>1, <2>1 DEF Open, BeforeText, ForCommands, ForPrompts, PassesContact, PassesLoc, PassesPoc, IsPlain
    <2> QED BY <2>2
  <1>2. CASE Unswitched(m) /\ Says(m, "sample")
    <2>1. ~Admitted(m) /\ ~(at[m] = "read" /\ IsSwitch(m))
      BY <1>2 DEF Admitted, Unswitched
    <2>2. Open(m) = {"sample"}
      BY <1>2, <2>1 DEF Open, BeforeText, ForCommands, ForPrompts, PassesContact, PassesLoc, PassesPoc, IsPlain
    <2> QED BY <2>2
  <1>3. CASE Unswitched(m) /\ ~Says(m, "sample") /\ TermsPending(m)
    <2>1. ~Admitted(m) /\ ~(at[m] = "read" /\ IsSwitch(m))
      BY <1>3 DEF Admitted, Unswitched
    <2>2. Open(m) = {"terms"}
      BY <1>3, <2>1 DEF Open, BeforeText, ForCommands, ForPrompts, PassesContact, PassesLoc, PassesPoc, IsPlain
    <2> QED BY <2>2
  <1>4. CASE Admitted(m)
    <2>1. /\ ~(at[m] = "read" /\ IsSwitch(m)) /\ ~(Unswitched(m) /\ Says(m, "sample"))
          /\ ~(Unswitched(m) /\ ~Says(m, "sample") /\ TermsPending(m))
      BY <1>4 DEF Admitted, Unswitched
    <2>2. CASE ~IsText(m)
      <3>1. asks[m].says \in {"photo", "audio", "place"} /\ ~IsPlain(m)
        BY <2>2 DEF IsText, IsPlain
      <3>2. Open(m) = {asks[m].says}
        BY <1>4, <2>1, <2>2, <3>1 DEF Open, BeforeText, ForCommands, ForPrompts, PassesContact, PassesLoc, PassesPoc, Says
      <3> QED BY <3>1, <3>2
    <2>3. CASE IsText(m) /\ ~IsPlain(m)
      <3>1. asks[m].says \notin {"photo", "audio", "place"}
        BY <2>3 DEF IsText
      <3>2. CASE Says(m, "menu")
        <4>1. Open(m) = {"menu"}
          BY <1>4, <2>1, <2>3, <3>1, <3>2 DEF Open, BeforeText, ForCommands, ForPrompts, PassesContact, PassesLoc, PassesPoc, Says
        <4> QED BY <4>1
      <3>3. CASE menu /\ ~Says(m, "menu")
        <4>1. Open(m) = {"pick"}
          BY <1>4, <2>1, <2>3, <3>1, <3>3 DEF Open, BeforeText, ForCommands, ForPrompts, PassesContact, PassesLoc, PassesPoc, Says
        <4> QED BY <4>1
      <3>4. CASE IsDemo(m) /\ ~menu /\ asks[m].says \in {"reset", "poc"}
        <4>1. Open(m) = {asks[m].says}
          BY <1>4, <2>1, <2>3, <3>1, <3>4 DEF Open, BeforeText, ForCommands, ForPrompts, PassesContact, PassesLoc, PassesPoc, Says
        <4> QED BY <3>4, <4>1
      <3> QED BY <1>4, <2>3, <3>2, <3>3, <3>4 DEF IsPlain
    <2>4. CASE IsPlain(m)
      <3>1. /\ asks[m].says \notin {"photo", "audio", "place", "menu"} /\ ~menu
            /\ IsDemo(m) => asks[m].says \notin {"reset", "poc"}
        BY <2>4 DEF IsText, IsPlain, Says
      <3>2. \A b : ~BeforeText(m, b) /\ ~ForCommands(m, b)
        BY <2>1, <3>1 DEF BeforeText, ForCommands, Says
      <3>3. CASE ~PassesPoc(m)
        <4> DEFINE b == IF NamesCompany(m) THEN "company" ELSE "unknown"
        <4>1. Open(m) = {b}
          BY <2>4, <3>2, <3>3 DEF Open, ForPrompts, PassesContact, PassesLoc, PassesPoc
        <4> QED BY <4>1
      <3>4. CASE PassesPoc(m) /\ ~PassesLoc(m)
        <4>1. Open(m) = {"answer"}
          BY <2>4, <3>2, <3>4 DEF Open, ForPrompts, PassesContact, PassesLoc, PassesPoc
        <4> QED BY <4>1
      <3>5. CASE PassesLoc(m) /\ ~PassesContact(m)
        <4>1. Open(m) = {"lead"}
          BY <2>4, <3>2, <3>5 DEF Open, ForPrompts, PassesContact, PassesLoc, PassesPoc
        <4> QED BY <4>1
      <3>6. CASE PassesContact(m)
        <4> DEFINE b == IF ~IsDemo(m) THEN "note"
                        ELSE IF asks[m].says \in {"otro", "contacto", "generar"} THEN asks[m].says ELSE "help"
        <4>1. b \in Branch /\ Open(m) = {b}
          BY <2>4, <3>2, <3>6 DEF Open, ForPrompts, PassesContact, PassesLoc, PassesPoc, Says
        <4> QED BY <4>1
      <3> QED BY <3>3, <3>4, <3>5, <3>6 DEF PassesContact, PassesLoc
    <2> QED BY <1>4, <2>2, <2>3, <2>4 DEF IsPlain
  <1> QED BY <1>1, <1>2, <1>3, <1>4 DEF Admitted, Unswitched, Dispatching

\* The action of each branch.
Acts(m, b) ==
    CASE b = "switch" -> SwitchByKeyword(m)
      [] b = "sample" -> SendSample(m)
      [] b = "terms" -> AskTerms(m)
      [] b = "photo" -> \E kept \in BOOLEAN : TakePhoto(m, kept)
      [] b = "audio" -> \E heard \in BOOLEAN : TakeAudio(m, heard)
      [] b = "place" -> TakePlace(m)
      [] b = "menu" -> ShowMenu(m)
      [] b = "pick" -> PickFromMenu(m)
      [] b = "reset" -> \E wiped, cleared \in BOOLEAN : Reset(m, wiped, cleared)
      [] b = "poc" -> AskCompany(m)
      [] b = "company" -> SwitchByCompany(m)
      [] b = "unknown" -> UnknownCompany(m)
      [] b = "answer" -> AnswerQuestionnaire(m)
      [] b = "lead" -> TakeLead(m)
      [] b = "otro" -> SwitchByOtro(m)
      [] b = "contacto" -> AskContact(m)
      [] b = "generar" -> Generar(m)
      [] b = "help" -> NotUnderstood(m)
      [] b = "note" -> NoteAsField(m)

LEMMA StepIsOfBranch ==
    ASSUME NEW m \in Msg, at[m] \in Dispatching, HandlerStep(m)
    PROVE  \E b \in Open(m) : Acts(m, b)
  <1>1. PICK b \in Branch : Acts(m, b)
    BY DEF HandlerStep, Branch, Acts, ReadUser, Wipe, Unflag, RunAfterAnswer, LookForContext,
           SendQuestionnaire, Dispatching
  <1>2. ASSUME b \in {"switch", "sample", "terms", "photo", "audio", "place"}
        PROVE  BeforeText(m, b)
    BY <1>1, <1>2 DEF Acts, BeforeText, SwitchByKeyword, SendSample, AskTerms, TakePhoto, TakeAudio, TakePlace
  <1>3. ASSUME b \in {"menu", "pick", "reset", "poc"}
        PROVE  ForCommands(m, b)
    BY <1>1, <1>3 DEF Acts, ForCommands, ShowMenu, PickFromMenu, Reset, AskCompany
  <1>4. ASSUME b \in {"company", "unknown", "answer", "lead"}
        PROVE  ForPrompts(m, b)
    BY <1>1, <1>4 DEF Acts, ForPrompts, SwitchByCompany, UnknownCompany, AnswerQuestionnaire, TakeLead
  <1>5. ASSUME b \in {"otro", "contacto", "generar", "help", "note"}
        PROVE  ForPrompts(m, b)
    BY <1>1, <1>5 DEF Acts, ForPrompts, SwitchByOtro, AskContact, Generar, NotUnderstood,
                        NoteAsField
  <1> QED BY <1>1, <1>2, <1>3, <1>4, <1>5 DEF Open, Branch

-----------------------------------------------------------------------------
(***************************************************************************)
(* The theorems.                                                           *)
(***************************************************************************)
\* The row, the flags, the snapshots and the batches have their types.
THEOREM TypeCorrect == Spec => []TypeOK
  <1> QED BY InitTypes, NextTypes, TypesSuffice, PTL DEF Spec

\* A redelivered message is taken in hand again only by another life of the
\* process (webhook marks its SID before anything else), however often Twilio
\* delivers it.
THEOREM OncePerLife == Spec => []ProcessedOncePerLife
  <1>1. ASSUME Types, Counted
        PROVE  ProcessedOncePerLife
    <2>1. restarts \in Nat
      BY <1>1, ImplAssumption DEF Types, OtherTypes
    <2>2. \A m \in Msg : handled[m] \in Nat
      BY <1>1 DEF Types, OtherTypes
    <2> QED BY <1>1, <2>1, <2>2 DEF Counted, ProcessedOncePerLife
  <1> QED BY <1>1, InitTypes, NextTypes, CountedInit, NextCounted, PTL DEF Spec

\* The photos of a session are of the demo the visitor's row names, and each
\* report is about one demo, whatever switches, resets, prompts, redeliveries and
\* failed calls led there, for any number of demos; the causes that break it are
\* those the property names.
THEOREM SessionOfOneDemo == Spec => []OneDemoPerSession
  <1>1. Settled /\ ReadOne => OneDemoPerSession
    BY DEF Settled, ReadOne, OneDemoPerSession
  <1> QED BY <1>1, InitTypes, NextTypes, SettledInit, NextSettled, ReadOneInit, NextReadOne, PTL DEF Spec

\* No step of a handler leads back, and a message is taken in hand again only
\* when no handler of it is in flight: whatever the other handlers, the batches
\* and the timers do in between, its end is at most six steps away.
THEOREM HandlersAdvance == Spec => NoHandlerGoesBack
  <1>1. Types /\ [Next]_vars =>
          [\A m \in Msg : at'[m] # at[m] =>
             \/ at[m] \notin InFlight /\ at'[m] = "arrived"
             \/ at[m] \in InFlight /\ at'[m] \in {"done"} \cup Ahead(at[m])]_vars
    BY NextMoves
  <1> QED BY <1>1, InitTypes, NextTypes, PTL DEF Spec, NoHandlerGoesBack

\* Whatever a message says, and whatever was pending when the visitor's row was
\* read, exactly one branch of the dispatch takes it: none falls between two early
\* returns and none is claimed by two, though the menu flag, which another handler
\* may change meanwhile, is read apart from the row.  The step the handler then
\* takes is that branch's.
THEOREM DispatchDecides ==
    Spec => /\ [](\A m \in Msg : at[m] \in Dispatching => \E b \in Branch : Open(m) = {b})
            /\ [][\A m \in Msg : at[m] \in Dispatching /\ HandlerStep(m)
                      => \E b \in Branch : Open(m) = {b} /\ Acts(m, b)]_vars
  <1>1. \A m \in Msg : at[m] \in Dispatching => \E b \in Branch : Open(m) = {b}
    BY OneBranchOpen
  <1>2. [\A m \in Msg : at[m] \in Dispatching /\ HandlerStep(m)
            => \E b \in Branch : Open(m) = {b} /\ Acts(m, b)]_vars
    BY OneBranchOpen, StepIsOfBranch
  <1> QED BY <1>1, <1>2, PTL

\* Steps left to a handler, at most.
Left(m) ==
    CASE at[m] = "arrived" -> 6
      [] at[m] = "read" -> 5
      [] at[m] = "stay" -> 4
      [] at[m] \in {"passed", "bare"} -> 3
      [] at[m] \in {"wipe", "look", "saved"} -> 2
      [] at[m] \in {"unflag", "question"} -> 1
      [] OTHER -> 0

LEMMA LeftType ==
    ASSUME Types, NEW m \in Msg
    PROVE  /\ Left(m) \in 0..6
           /\ at[m] \in InFlight <=> Left(m) # 0
  <1>1. at[m] \in Where
    BY DEF Types, HandlerTypes
  <1> QED BY <1>1 DEF Left, Where, InFlight, Dispatching

\* Whoever moves, a handler in flight does not come to have more steps left;
\* when it moves itself it has fewer.
LEMMA LeftShrinks ==
    ASSUME Types, [Next]_vars, NEW m \in Msg, at[m] \in InFlight
    PROVE  /\ Left(m)' <= Left(m)
           /\ HandlerStep(m) => Left(m)' < Left(m)
  <1>1. Left(m)' < Left(m) \/ at'[m] = at[m]
    <2> SUFFICES ASSUME at'[m] # at[m] PROVE Left(m)' < Left(m)
      OBVIOUS
    <2>1. at'[m] \in {"done"} \cup Ahead(at[m])
      BY NextMoves
    <2> QED BY <2>1 DEF Left, Ahead, InFlight, Dispatching
  <1>2. HandlerStep(m) => at'[m] # at[m]
    <2> SUFFICES ASSUME HandlerStep(m) PROVE at'[m] # at[m]
      OBVIOUS
    <2>1. at'[m] \in {"done"} \cup Ahead(at[m])
      BY HandlerStepAdvances DEF Advances
    <2> QED BY <2>1 DEF Ahead, InFlight, Dispatching
  <1>3. at'[m] = at[m] => Left(m)' = Left(m)
    BY DEF Left
  <1>4. Left(m) \in 0..6 /\ Left(m)' \in 0..6
    BY DEF Left
  <1> QED BY <1>1, <1>2, <1>3, <1>4

\* The event loop goes on with each handler, and every call it awaits returns
\* or fails.
HandlerMoves(m) == WF_vars(HandlerStep(m))
FairSpec == Spec /\ \A m \in Msg : HandlerMoves(m)

\* The handler of each message in flight comes to an end: it has answered, or failed,
\* or gone with its process.
MessagesEnd == \A m \in Msg : (at[m] \in InFlight) ~> (at[m] = "done")

Runs(m) ==
    /\ []Types /\ [][Next]_vars
    /\ WF_vars(HandlerStep(m))
    /\ [](at[m] \in InFlight => ENABLED <<HandlerStep(m)>>_vars)

Falls(m, n) == (Left(m) = n) ~> (Left(m) < n)

LEMMA LeftFalls ==
    ASSUME NEW m \in Msg, NEW n \in 1..6
    PROVE  Runs(m) => Falls(m, n)
  <1>1. Types /\ (Left(m) = n) => (at[m] \in InFlight)
    BY LeftType
  <1>2. Types /\ (Left(m) = n) /\ [Next]_vars => (Left(m) = n)' \/ (Left(m) < n)'
    <2> SUFFICES ASSUME Types, Left(m) = n, [Next]_vars
                 PROVE  Left(m)' = n \/ Left(m)' < n
      OBVIOUS
    <2>1. Left(m) \in 0..6 /\ Left(m)' \in 0..6
      BY DEF Left
    <2> QED BY <1>1, <2>1, LeftShrinks
  <1>3. Types /\ (Left(m) = n) /\ [Next]_vars /\ <<HandlerStep(m)>>_vars => (Left(m) < n)'
    BY <1>1, LeftShrinks
  <1> QED BY <1>1, <1>2, <1>3, PTL DEF Runs, Falls

\* A message that is taken in hand comes to its end, whatever the other handlers
\* and the timers change meanwhile, for any number of messages and demos.  That
\* some branch is open is the invariant EveryMessageAnswered: with ENABLED in
\* it, it is a hypothesis here and checked by TLC.
THEOREM MessagesComeToEnd == FairSpec /\ []EveryMessageAnswered => MessagesEnd
  <1> SUFFICES ASSUME NEW m \in Msg
               PROVE  FairSpec /\ []EveryMessageAnswered
                      => ((at[m] \in InFlight) ~> (at[m] = "done"))
    BY DEF MessagesEnd
  <1>1. FairSpec => HandlerMoves(m)
    BY DEF FairSpec
  <1>2. HandlerMoves(m) => WF_vars(HandlerStep(m))
    BY PTL DEF HandlerMoves
  <1>3. EveryMessageAnswered => (at[m] \in InFlight => ENABLED <<HandlerStep(m)>>_vars)
    BY DEF EveryMessageAnswered
  <1>4. FairSpec => Spec
    BY DEF FairSpec
  <1>5. Spec => []Types /\ [][Next]_vars
    BY InitTypes, NextTypes, PTL DEF Spec
  <1>6. FairSpec /\ []EveryMessageAnswered => Runs(m)
    BY <1>1, <1>2, <1>3, <1>4, <1>5, PTL DEF Runs
  <1>7. /\ Runs(m) => Falls(m, 1)
        /\ Runs(m) => Falls(m, 2)
        /\ Runs(m) => Falls(m, 3)
        /\ Runs(m) => Falls(m, 4)
        /\ Runs(m) => Falls(m, 5)
        /\ Runs(m) => Falls(m, 6)
    BY LeftFalls
  <1>8. Types => /\ Left(m) < 6 => Left(m) = 5 \/ Left(m) < 5
                 /\ Left(m) < 5 => Left(m) = 4 \/ Left(m) < 4
                 /\ Left(m) < 4 => Left(m) = 3 \/ Left(m) < 3
                 /\ Left(m) < 3 => Left(m) = 2 \/ Left(m) < 2
                 /\ Left(m) < 2 => Left(m) = 1 \/ Left(m) < 1
    BY LeftType
  <1>9. Types /\ (at[m] \in InFlight) => (Left(m) = 6) \/ (Left(m) < 6)
    BY LeftType
  <1>10. Types /\ (Left(m) < 1) => ~(at[m] \in InFlight)
    BY LeftType
  <1>11. Types /\ [Next]_vars /\ (at[m] \in InFlight) => (at[m] \in InFlight)' \/ (at[m] = "done")'
    BY NextMoves DEF Ahead, InFlight, Dispatching
  <1> QED BY <1>6, <1>7, <1>8, <1>9, <1>10, <1>11, PTL DEF Runs, Falls
=============================================================================
