--------------------------- MODULE Retention_proofs ---------------------------
(***************************************************************************)
(* Proofs about Retention, for every number of sessions, files, passes and *)
(* faults, and every size of a page.                                       *)
(***************************************************************************)
EXTENDS Retention, FiniteSetTheorems, SequenceTheorems, TLAPS

Stage == {"idle", "paging", "sweeping", "failed", "done"}

\* An array as somebody has read it, however long ago: its entries were sent,
\* and what it has marked is gone, or could not be removed.
RowGood(r, o, x, n) ==
    /\ r \in Row /\ r.files \subseteq Files(r.session) /\ r.files \subseteq n
    /\ r.cleaned \subseteq r.files /\ r.cleaned \cap o \subseteq x

\* What the local variables of a pass are at each point of it, for a bucket o,
\* refused removals x and files n sent so far.
PassGood(st, c, off, fo, to, re, o, x, n) ==
    /\ st \in Stage /\ c \in 0..Sessions /\ off \in Nat /\ fo \in Seq(Row)
    /\ to \in SUBSET File /\ re \in BOOLEAN
    /\ \A i \in 1..Len(fo) : RowGood(fo[i], o, x, n) /\ fo[i].session <= c
    /\ st = "idle" => fo = <<>> /\ c = 0
    /\ st = "sweeping" /\ fo # <<>> =>
          to \subseteq fo[1].files /\ (fo[1].files \ to) \cap o \subseteq x
    /\ st # "sweeping" \/ fo = <<>> => to = {}

Good(p) ==
    PassGood(stage[p], cutoff[p], offset[p], found[p], todo[p], removed[p], object, refused, sent)

\* Some pass was meant to sweep the session of this file.
Meant(f) == \E p \in Pass : Owner[f] <= cutoff[p]

Functions ==
    /\ DOMAIN stage = Pass /\ stage = [p \in Pass |-> stage[p]]
    /\ DOMAIN cutoff = Pass /\ cutoff = [p \in Pass |-> cutoff[p]]
    /\ DOMAIN offset = Pass /\ offset = [p \in Pass |-> offset[p]]
    /\ DOMAIN found = Pass /\ found = [p \in Pass |-> found[p]]
    /\ DOMAIN todo = Pass /\ todo = [p \in Pass |-> todo[p]]
    /\ DOMAIN removed = Pass /\ removed = [p \in Pass |-> removed[p]]

Counters == faults \in 0..MaxFaults /\ alone \in [Pass -> BOOLEAN] /\ order \in Seq(Session)

Table ==
    /\ sent \in SUBSET File /\ object \subseteq sent /\ listed \subseteq sent
    /\ refused \in SUBSET File
    /\ marked \subseteq listed /\ marked \cap object \subseteq refused
    /\ \A f \in (sent \ object) \cup marked : Meant(f)

JobGood ==
    \/ job = NoRow
    \/ RowGood(job, object, refused, sent) /\ \A f \in job.cleaned : Meant(f)

Inv == Functions /\ Counters /\ Table /\ JobGood /\ \A p \in Pass : Good(p)

LEMMA InvSafe == Inv => TypeOK /\ MarkedIsGone /\ YoungUntouched
  <1> SUFFICES ASSUME Inv PROVE TypeOK /\ MarkedIsGone /\ YoungUntouched
    OBVIOUS
  <1>1. TypeOK
    BY DEF Inv, Functions, Counters, Table, JobGood, Good, PassGood, RowGood, TypeOK, Stage
  <1> QED BY <1>1 DEF Inv, Table, MarkedIsGone, YoungUntouched, Meant

LEMMA InitGood == Init => Inv
  <1> SUFFICES ASSUME Init PROVE Inv
    OBVIOUS
  <1>1. Functions
    BY DEF Init, Functions
  <1>2. Counters
    <2>1. [s \in Session |-> s] \in Seq(Session)
      BY RetentionAssumption DEF Session
    <2> QED BY <2>1, RetentionAssumption DEF Init, Counters
  <1>3. Table /\ JobGood
    BY DEF Init, Table, JobGood
  <1>4. ASSUME NEW p \in Pass PROVE Good(p)
    <2>1. <<>> \in Seq(Row) /\ Len(<<>>) = 0 /\ 0 \in 0..Sessions
      BY RetentionAssumption
    <2> QED BY <2>1 DEF Init, Good, PassGood, Stage
  <1> QED BY <1>1, <1>2, <1>3, <1>4 DEF Inv

-----------------------------------------------------------------------------
(***************************************************************************)
(* What one does not disturb of the others.                                *)
(***************************************************************************)
\* Objects go, or come that were never sent; removals that failed and files
\* that were sent stay so; cutoffs are set once.
Grows ==
    /\ object' \subseteq object \cup (File \ sent) /\ object' \subseteq File
    /\ refused \subseteq refused' /\ sent \subseteq sent'
    /\ \A f \in File : Meant(f) => Meant(f)'

LEMMA RowStays ==
    ASSUME Grows, NEW r, RowGood(r, object, refused, sent)
    PROVE  RowGood(r, object', refused', sent')
  BY DEF Grows, RowGood

LEMMA PassStays ==
    ASSUME Inv, Grows, NEW p \in Pass,
           stage'[p] = stage[p], cutoff'[p] = cutoff[p], offset'[p] = offset[p],
           found'[p] = found[p], todo'[p] = todo[p], removed'[p] = removed[p]
    PROVE  Good(p)'
  <1>1. PassGood(stage[p], cutoff[p], offset[p], found[p], todo[p], removed[p], object, refused, sent)
    BY DEF Inv, Good
  <1>2. \A i \in 1..Len(found[p]) : RowGood(found[p][i], object', refused', sent')
    BY <1>1, RowStays DEF PassGood
  <1>3. stage[p] = "sweeping" /\ found[p] # <<>> => (found[p][1].files \ todo[p]) \cap object' \subseteq refused'
    <2> SUFFICES ASSUME stage[p] = "sweeping", found[p] # <<>>
                 PROVE  (found[p][1].files \ todo[p]) \cap object' \subseteq refused'
      OBVIOUS
    <2>1. 1 \in 1..Len(found[p])
      BY <1>1 DEF PassGood
    <2>2. found[p][1].files \subseteq sent /\ (found[p][1].files \ todo[p]) \cap object \subseteq refused
      BY <1>1, <2>1 DEF PassGood, RowGood
    <2> QED BY <2>2 DEF Grows
  <1> QED BY <1>1, <1>2, <1>3 DEF Good, PassGood

LEMMA JobStays ==
    ASSUME Inv, Grows, job' = job
    PROVE  JobGood'
  <1>1. CASE job = NoRow
    BY <1>1 DEF JobGood
  <1>2. CASE RowGood(job, object, refused, sent) /\ \A f \in job.cleaned : Meant(f)
    <2>1. job.cleaned \subseteq File
      BY <1>2 DEF RowGood, Row
    <2> QED BY <1>2, <2>1, RowStays DEF JobGood, Grows
  <1> QED BY <1>1, <1>2 DEF Inv, JobGood

\* A row that moves is still in the table, and so are the others.
LEMMA ReorderedKeeps ==
    ASSUME Inv, NEW s \in Session, Reordered(s)
    PROVE  /\ order' \in Seq(Session)
           /\ \A j \in 1..Len(order) : \E k \in 1..Len(order') : order'[k] = order[j]
  <1>1. order \in Seq(Session) /\ Len(order) \in Nat
    BY DEF Inv, Counters
  <1>2. CASE order' = order
    BY <1>1, <1>2
  <1>3. CASE order' # order
    <2>1. PICK i \in 1..Len(order) :
             /\ order[i] = s
             /\ order' = Append(SubSeq(order, 1, i - 1) \o SubSeq(order, i + 1, Len(order)), s)
      BY <1>3 DEF Reordered
    <2> DEFINE before == SubSeq(order, 1, i - 1)
               after == SubSeq(order, i + 1, Len(order))
               rest == before \o after
    <2>2. /\ before \in Seq(Session) /\ Len(before) = i - 1
          /\ \A k \in 1..(i - 1) : before[k] = order[k]
      <3>1. \A k \in 1..(i - 1) : order[k] \in Session
        BY <1>1
      <3>2. 1 \in Int /\ i - 1 \in Int /\ i \in Nat
        BY <1>1
      <3> QED BY <1>1, <3>1, <3>2, SubSeqProperties
    <2>3. /\ after \in Seq(Session) /\ Len(after) = Len(order) - i
          /\ \A k \in 1..(Len(order) - i) : after[k] = order[i + k]
      <3>1. \A k \in (i + 1)..Len(order) : order[k] \in Session
        BY <1>1
      <3>2. i + 1 \in Int /\ Len(order) \in Int
        BY <1>1
      <3> QED BY <1>1, <3>1, <3>2, SubSeqProperties
    <2> HIDE DEF before, after
    <2>4. /\ rest \in Seq(Session) /\ Len(rest) = Len(order) - 1
          /\ \A k \in 1..Len(rest) : rest[k] = IF k <= Len(before) THEN before[k]
                                                ELSE after[k - Len(before)]
      <3>1. before \in Seq(Session) /\ after \in Seq(Session)
        BY <2>2, <2>3
      <3>2. /\ rest \in Seq(Session) /\ Len(rest) = Len(before) + Len(after)
            /\ \A k \in 1..(Len(before) + Len(after)) :
                  rest[k] = IF k <= Len(before) THEN before[k] ELSE after[k - Len(before)]
        BY <3>1, ConcatProperties
      <3>3. Len(before) + Len(after) = Len(order) - 1
        BY ONLY <1>1, <2>2, <2>3, i \in 1..Len(order)
      <3> HIDE DEF rest
      <3> QED BY <3>2, <3>3
    <2>5. order' = Append(rest, s)
      BY <2>1 DEF before, after
    <2> HIDE DEF rest
    <2>6. /\ order' \in Seq(Session) /\ Len(order') = Len(order)
          /\ order'[Len(order)] = s
          /\ \A k \in 1..Len(rest) : order'[k] = rest[k]
      BY <1>1, <2>4, <2>5, AppendProperties
    <2> SUFFICES ASSUME NEW j \in 1..Len(order)
                 PROVE  \E k \in 1..Len(order') : order'[k] = order[j]
      BY <2>6
    <2>7. CASE j < i
      <3>1. j \in 1..Len(rest) /\ j \in 1..Len(order') /\ j <= Len(before) /\ j \in 1..(i - 1)
        BY <1>1, <2>2, <2>4, <2>6, <2>7
      <3> QED BY <2>2, <2>4, <2>6, <3>1
    <2>8. CASE j = i
      <3>1. Len(order) \in 1..Len(order')
        BY <1>1, <2>6
      <3> QED BY <2>1, <2>6, <2>8, <3>1
    <2>9. CASE j > i
      <3>1. /\ j - 1 \in 1..Len(rest) /\ j - 1 \in 1..Len(order')
            /\ ~ (j - 1 <= Len(before)) /\ (j - 1) - Len(before) = j - i
            /\ j - i \in 1..(Len(order) - i) /\ i + (j - i) = j
        BY <1>1, <2>2, <2>4, <2>6, <2>9
      <3>2. order'[j - 1] = order[j]
        BY <2>3, <2>4, <2>6, <3>1
      <3> QED BY <3>1, <3>2
    <2> QED BY <1>1, <2>7, <2>8, <2>9
  <1> QED BY <1>2, <1>3

\* A row read now.
LEMMA RowNow ==
    ASSUME Inv, NEW s \in Session
    PROVE  RowGood(RowOf(s), object, refused, sent) /\ RowOf(s).session = s
             /\ \A f \in RowOf(s).cleaned : Meant(f)
  BY DEF Inv, Table, RowGood, RowOf, Row, Files

\* An array that is good is written, with marks on what is gone.
LEMMA WrittenKeeps ==
    ASSUME Inv, NEW s \in Session, NEW fs \in SUBSET (Files(s) \cap sent), NEW ms \in SUBSET fs,
           ms \cap object \subseteq refused, \A f \in ms : Meant(f),
           Written(s, fs, ms), UNCHANGED <<object, refused, sent, cutoff>>
    PROVE  Table' /\ order' \in Seq(Session)
  <1>1. order' \in Seq(Session)
    BY ReorderedKeeps DEF Written
  <1>2. Table'
    BY DEF Inv, Table, Written, Meant, Files
  <1> QED BY <1>1, <1>2

-----------------------------------------------------------------------------
(***************************************************************************)
(* Everybody else's steps.                                                 *)
(***************************************************************************)
LEMMA OthersKeep ==
    ASSUME Inv, Grows, UNCHANGED passVars
    PROVE  Functions' /\ \A p \in Pass : Good(p)'
  <1>1. \A p \in Pass : Good(p)'
    BY PassStays DEF passVars
  <1> QED BY <1>1 DEF Inv, Functions, passVars

LEMMA StoreStep ==
    ASSUME Inv, NEW f \in File, Store(f)
    PROVE  Inv'
  <1> USE DEF Store
  <1>1. Grows
    BY DEF Inv, Table, Grows, passVars, Meant
  <1>2. Counters'
    <2>1. Owner[f] \in Session
      BY RetentionAssumption
    <2>2. order' \in Seq(Session)
      BY <2>1, ReorderedKeeps
    <2> QED BY <2>2 DEF Inv, Counters, DisturbAll
  <1>3. Table'
    BY DEF Inv, Table, Meant, passVars
  <1> QED BY <1>1, <1>2, <1>3, OthersKeep, JobStays DEF Inv

LEMMA ReadToNoteStep ==
    ASSUME Inv, NEW s \in Session, ReadToNote(s)
    PROVE  Inv'
  <1> USE DEF ReadToNote
  <1>1. Grows
    BY DEF Inv, Table, Grows, passVars, Meant
  <1>2. Counters' /\ Table'
    BY DEF Inv, Counters, Table, Meant, passVars, tableVars
  <1>3. JobGood'
    BY RowNow DEF JobGood, Meant, passVars
  <1> QED BY <1>1, <1>2, <1>3, OthersKeep DEF Inv

LEMMA WriteNoteStep ==
    ASSUME Inv, WriteNote
    PROVE  Inv'
  <1> USE DEF WriteNote
  <1>1. Grows
    BY DEF Inv, Table, Grows, passVars, Meant
  <1>2. Table' /\ order' \in Seq(Session)
    <2>1. RowGood(job, object, refused, sent) /\ \A f \in job.cleaned : Meant(f)
      BY DEF Inv, JobGood
    <2>2. /\ job.session \in Session
          /\ job.files \in SUBSET (Files(job.session) \cap sent)
          /\ job.cleaned \in SUBSET job.files
          /\ job.cleaned \cap object \subseteq refused
      BY <2>1 DEF RowGood, Row
    <2>3. UNCHANGED <<object, refused, sent, cutoff>>
      BY DEF passVars
    <2> QED BY <2>1, <2>2, <2>3, WrittenKeeps
  <1>3. Counters'
    BY <1>2 DEF Inv, Counters, DisturbAll
  <1>4. JobGood'
    BY DEF JobGood
  <1> QED BY <1>1, <1>2, <1>3, <1>4, OthersKeep DEF Inv

-----------------------------------------------------------------------------
(***************************************************************************)
(* The steps of a pass.                                                    *)
(***************************************************************************)
\* A step of p leaves the variables of the other passes alone.
Local(p) ==
    /\ Functions'
    /\ \A q \in Pass \ {p} :
          /\ stage'[q] = stage[q] /\ cutoff'[q] = cutoff[q] /\ offset'[q] = offset[q]
          /\ found'[q] = found[q] /\ todo'[q] = todo[q] /\ removed'[q] = removed[q]

LEMMA Together ==
    ASSUME Inv, NEW p \in Pass, Local(p), Grows, Good(p)', Counters', Table', job' = job
    PROVE  Inv'
  <1>1. ASSUME NEW q \in Pass PROVE Good(q)'
    <2>1. CASE q = p
      BY <2>1
    <2>2. CASE q # p
      BY <2>2, PassStays DEF Local
    <2> QED BY <2>1, <2>2
  <1> QED BY <1>1, JobStays DEF Inv, Local

LEMMA OutcomeType ==
    ASSUME Inv, NEW ok, Outcome(ok)
    PROVE  faults' \in 0..MaxFaults
  BY RetentionAssumption DEF Inv, Counters, Outcome, Fault

LEMMA StartStep ==
    ASSUME Inv, NEW p \in Pass, NEW c \in 0..Sessions, Start(p, c)
    PROVE  Inv'
  <1> USE DEF Start, Enter
  <1>1. Local(p)
    BY DEF Inv, Functions, Local
  <1>2. PassGood(stage[p], cutoff[p], offset[p], found[p], todo[p], removed[p], object, refused, sent)
    BY DEF Inv, Good
  <1>3. stage[p] = "idle" /\ cutoff[p] = 0 /\ found[p] = <<>> /\ todo[p] = {} /\ Len(found[p]) = 0
    BY <1>2 DEF PassGood
  <1>4. stage'[p] = "paging" /\ cutoff'[p] = c /\ \A q \in Pass \ {p} : cutoff'[q] = cutoff[q]
    BY DEF Inv, Functions
  <1>5. ASSUME NEW f \in File, Meant(f)
        PROVE  Meant(f)'
    <2>1. PICK q \in Pass : Owner[f] <= cutoff[q]
      BY <1>5 DEF Meant
    <2>2. Owner[f] \in Nat \ {0}
      BY RetentionAssumption DEF Session
    <2>3. q # p
      BY <1>3, <2>1, <2>2
    <2> QED BY <1>4, <2>1, <2>3 DEF Meant
  <1>6. Grows
    BY <1>5 DEF Inv, Table, Grows
  <1>7. Good(p)'
    BY <1>2, <1>3, <1>4 DEF Good, PassGood, Stage
  <1>8. Counters'
    BY DEF Inv, Counters, tableVars
  <1>9. Table'
    BY <1>5 DEF Inv, Table, tableVars
  <1> QED BY <1>1, <1>6, <1>7, <1>8, <1>9, Together

LEMMA PageType ==
    ASSUME Inv, NEW p \in Pass, NEW page, IsPage(p, page)
    PROVE  /\ PageSize(p) \in Int
           /\ page \in Seq(Session) /\ DOMAIN page = 1..Len(page)
           /\ Len(page) = IF PageSize(p) < 0 THEN 0 ELSE PageSize(p)
           /\ \A k \in 1..Len(page) : page[k] \in Session /\ page[k] <= cutoff[p]
  <1>1. /\ order \in Seq(Session) /\ Len(order) \in Nat /\ offset[p] \in Nat
        /\ cutoff[p] \in 0..Sessions /\ BATCH_SIZE \in Nat
    BY RetentionAssumption DEF Inv, Counters, Good, PassGood
  <1>2. IsFiniteSet(Selected(p)) /\ Cardinality(Selected(p)) \in Nat
    <2>1. IsFiniteSet(1..Len(order)) /\ Selected(p) \in SUBSET (1..Len(order))
      BY <1>1, FS_Interval DEF Selected
    <2> QED BY <2>1, FS_Subset, FS_CardinalityType
  <1>3. PageSize(p) \in Int
    BY <1>1, <1>2 DEF PageSize
  <1>4. \A s \in Older(p) : s \in Session /\ s <= cutoff[p]
    BY <1>1, RetentionAssumption DEF Older, Session
  <1> DEFINE n == IF PageSize(p) < 0 THEN 0 ELSE PageSize(p)
  <1>5. 1..PageSize(p) = 1..n /\ n \in Nat
    BY <1>3
  <1> HIDE DEF n
  <1>6. page \in [1..n -> Older(p)]
    BY <1>5 DEF IsPage
  <1>7. page \in [1..n -> Session] /\ \A k \in 1..n : page[k] <= cutoff[p]
    BY <1>4, <1>6
  <1>8. page \in Seq(Session) /\ Len(page) = n /\ DOMAIN page = 1..n
    BY <1>5, <1>7
  <1>9. \A k \in 1..n : page[k] \in Session
    BY <1>7
  <1> QED BY <1>3, <1>7, <1>8, <1>9 DEF n

LEMMA FetchPageStep ==
    ASSUME Inv, NEW p \in Pass, NEW page, FetchPage(p, page)
    PROVE  Inv'
  <1> USE DEF FetchPage, Enter
  <1> DEFINE new == [i \in 1..Len(page) |-> RowOf(page[i])]
             fo == found[p] \o new
  <1>1. Local(p)
    BY DEF Inv, Functions, Local
  <1>2. PassGood(stage[p], cutoff[p], offset[p], found[p], todo[p], removed[p], object, refused, sent)
    BY DEF Inv, Good
  <1>3. stage[p] = "paging" /\ found'[p] = fo /\ found[p] \in Seq(Row) /\ todo[p] = {}
    BY <1>2 DEF Inv, Functions, PassGood
  <1>4. /\ offset'[p] \in Nat /\ stage'[p] \in {"paging", "sweeping"}
        /\ stage'[p] = "sweeping" /\ fo # <<>> => todo'[p] = fo[1].files \ fo[1].cleaned
        /\ stage'[p] # "sweeping" \/ fo = <<>> => todo'[p] = {}
    BY <1>2, <1>3, RetentionAssumption DEF Inv, Functions, PassGood
  <1>5. Grows
    BY DEF Inv, Table, Grows, Meant
  <1>6. \A i \in 1..Len(page) : RowGood(new[i], object, refused, sent) /\ new[i].session <= cutoff[p]
    BY PageType, RowNow
  <1>7. new \in Seq(Row) /\ Len(new) = Len(page)
    <2>1. \A i \in 1..Len(page) : new[i] \in Row
      BY <1>6 DEF RowGood
    <2>2. new \in [1..Len(page) -> Row]
      BY <2>1
    <2> HIDE DEF new
    <2> QED BY <2>2, PageType
  <1> HIDE DEF new
  <1>8. fo \in Seq(Row) /\ \A i \in 1..Len(fo) : RowGood(fo[i], object, refused, sent) /\ fo[i].session <= cutoff[p]
    <2>1. /\ fo \in Seq(Row) /\ Len(fo) = Len(found[p]) + Len(new)
          /\ \A i \in 1..Len(fo) : fo[i] = IF i <= Len(found[p]) THEN found[p][i] ELSE new[i - Len(found[p])]
      <3>1. found[p] \in Seq(Row) /\ new \in Seq(Row)
        BY <1>3, <1>7
      <3>2. fo = found[p] \o new
        OBVIOUS
      <3> HIDE DEF fo
      <3> QED BY <3>1, <3>2, ConcatProperties, SMTT(60)
    <2>2. Len(found[p]) \in Nat /\ Len(new) \in Nat
      BY <1>3, <1>7
    <2> HIDE DEF fo
    <2> SUFFICES ASSUME NEW i \in 1..Len(fo)
                 PROVE  RowGood(fo[i], object, refused, sent) /\ fo[i].session <= cutoff[p]
      BY <2>1
    <2>3. CASE i <= Len(found[p])
      <3>1. i \in 1..Len(found[p])
        BY <2>1, <2>2, <2>3
      <3> QED BY <1>2, <2>1, <2>3, <3>1 DEF PassGood
    <2>4. CASE ~ (i <= Len(found[p]))
      <3>1. i - Len(found[p]) \in 1..Len(page)
        BY <1>7, <2>1, <2>2, <2>4
      <3> QED BY <1>6, <2>1, <2>4, <3>1
    <2> QED BY <2>3, <2>4
  <1> HIDE DEF fo
  <1>9. Good(p)'
    <2>1. cutoff'[p] = cutoff[p] /\ removed'[p] = removed[p]
      OBVIOUS
    <2>2. /\ stage'[p] = "sweeping" /\ fo # <<>> =>
                todo'[p] \subseteq fo[1].files /\ (fo[1].files \ todo'[p]) \cap object \subseteq refused
          /\ todo'[p] \in SUBSET File
      <3>1. fo # <<>> => 1 \in 1..Len(fo)
        BY <1>8
      <3> QED BY <1>4, <1>8, <3>1 DEF RowGood, Row
    <2> QED BY <1>2, <1>3, <1>4, <1>8, <2>1, <2>2 DEF Good, PassGood, Stage
  <1>10. Counters' /\ Table'
    BY DEF Inv, Counters, Table, Meant, tableVars
  <1> QED BY <1>1, <1>5, <1>9, <1>10, Together

LEMMA DieStep ==
    ASSUME Inv, NEW p \in Pass, Die(p)
    PROVE  Inv'
  <1> USE DEF Die, Enter
  <1>1. Local(p)
    BY DEF Inv, Functions, Local
  <1>2. Grows
    BY DEF Inv, Table, Grows, Meant
  <1>3. Good(p)'
    <2>1. stage'[p] = "failed" /\ found'[p] = <<>> /\ todo'[p] = {}
      BY DEF Inv, Functions
    <2>2. <<>> \in Seq(Row) /\ Len(<<>>) = 0
      OBVIOUS
    <2> QED BY <2>1, <2>2 DEF Inv, Good, PassGood, Stage
  <1>4. Counters'
    <2>1. faults' \in 0..MaxFaults
      BY RetentionAssumption DEF Inv, Counters, Fault
    <2> QED BY <2>1 DEF Inv, Counters, tableVars
  <1>5. Table'
    BY DEF Inv, Table, Meant, tableVars
  <1> QED BY <1>1, <1>2, <1>3, <1>4, <1>5, Together

LEMMA RemoveStep ==
    ASSUME Inv, NEW p \in Pass, NEW f \in File, NEW ok \in BOOLEAN, Remove(p, f, ok)
    PROVE  Inv'
  <1> USE DEF Remove
  <1>1. Local(p)
    BY DEF Inv, Functions, Local
  <1>2. PassGood(stage[p], cutoff[p], offset[p], found[p], todo[p], removed[p], object, refused, sent)
    BY DEF Inv, Good
  <1>3. Grows
    BY DEF Inv, Table, Grows, Meant
  <1>4. found[p] # <<>> /\ 1 \in 1..Len(found[p])
    BY <1>2 DEF PassGood
  <1>5. /\ RowGood(found[p][1], object, refused, sent) /\ found[p][1].session <= cutoff[p]
        /\ todo[p] \subseteq found[p][1].files
        /\ (found[p][1].files \ todo[p]) \cap object \subseteq refused
    BY <1>2, <1>4 DEF PassGood
  <1>6. Meant(f)
    BY <1>5 DEF RowGood, Files, Meant
  <1>7. /\ todo'[p] = todo[p] \ {f} /\ removed'[p] \in BOOLEAN
        /\ stage'[p] = stage[p] /\ cutoff'[p] = cutoff[p] /\ offset'[p] = offset[p] /\ found'[p] = found[p]
    BY <1>2 DEF Inv, Functions, PassGood
  <1>8. Good(p)'
    <2>1. \A i \in 1..Len(found[p]) : RowGood(found[p][i], object', refused', sent')
      BY <1>2, <1>3, RowStays DEF PassGood
    <2>2. (found[p][1].files \ todo'[p]) \cap object' \subseteq refused'
      BY <1>5, <1>7
    <2> QED BY <1>2, <1>5, <1>7, <2>1, <2>2 DEF Good, PassGood
  <1>9. Counters'
    BY OutcomeType DEF Inv, Counters, tableVars
  <1>10. Table'
    BY <1>6 DEF Inv, Table, Meant, tableVars
  <1> QED BY <1>1, <1>3, <1>8, <1>9, <1>10, Together

\* The pass goes on to the next session of those it found.
LEMMA AdvanceKeeps ==
    ASSUME Inv, NEW p \in Pass, stage[p] = "sweeping", found[p] # <<>>, Advance(p)
    PROVE  Local(p) /\ Grows /\ Good(p)'
  <1> USE DEF Advance
  <1>1. Local(p)
    BY DEF Inv, Functions, Local
  <1>2. PassGood(stage[p], cutoff[p], offset[p], found[p], todo[p], removed[p], object, refused, sent)
    BY DEF Inv, Good
  <1>3. Grows
    BY DEF Inv, Table, Grows, Meant
  <1> DEFINE fo == Tail(found[p])
  <1>4. /\ found[p] \in Seq(Row) /\ fo \in Seq(Row) /\ Len(fo) = Len(found[p]) - 1
        /\ \A i \in 1..Len(fo) : fo[i] = found[p][i + 1]
        /\ Len(found[p]) \in Nat \ {0}
    BY <1>2, HeadTailProperties DEF PassGood
  <1>5. /\ found'[p] = fo /\ removed'[p] = FALSE /\ stage'[p] = stage[p]
        /\ cutoff'[p] = cutoff[p] /\ offset'[p] = offset[p]
        /\ todo'[p] = IF Len(found[p]) > 1 THEN found[p][2].files \ found[p][2].cleaned ELSE {}
    BY DEF Inv, Functions
  <1> HIDE DEF fo
  <1>6. \A i \in 1..Len(fo) : RowGood(fo[i], object, refused, sent) /\ fo[i].session <= cutoff[p]
    <2> TAKE i \in 1..Len(fo)
    <2>1. i + 1 \in 1..Len(found[p])
      BY <1>4
    <2> QED BY <1>2, <1>4, <2>1 DEF PassGood
  <1>7. /\ fo # <<>> => Len(found[p]) > 1 /\ fo[1] = found[p][2] /\ 1 \in 1..Len(fo)
        /\ fo = <<>> => ~ (Len(found[p]) > 1)
    BY <1>4
  <1>8. /\ fo # <<>> => todo'[p] \subseteq fo[1].files /\ (fo[1].files \ todo'[p]) \cap object \subseteq refused
        /\ fo = <<>> => todo'[p] = {}
        /\ todo'[p] \in SUBSET File
    BY <1>5, <1>6, <1>7 DEF RowGood, Row
  <1>9. Good(p)'
    BY <1>2, <1>4, <1>5, <1>6, <1>8 DEF Good, PassGood
  <1> QED BY <1>1, <1>3, <1>9

LEMMA WriteBackStep ==
    ASSUME Inv, NEW p \in Pass, NEW ok \in BOOLEAN, WriteBack(p, ok)
    PROVE  Inv'
  <1> USE DEF WriteBack
  <1>1. Local(p) /\ Grows /\ Good(p)'
    BY AdvanceKeeps
  <1>2. PassGood(stage[p], cutoff[p], offset[p], found[p], todo[p], removed[p], object, refused, sent)
    BY DEF Inv, Good
  <1> DEFINE r == found[p][1]
  <1>3. Head(found[p]) = r /\ 1 \in 1..Len(found[p])
    BY <1>2 DEF PassGood
  <1>4. RowGood(r, object, refused, sent) /\ r.session <= cutoff[p] /\ r.files \cap object \subseteq refused
    BY <1>2, <1>3 DEF PassGood
  <1>5. /\ r.session \in Session /\ r.files \in SUBSET (Files(r.session) \cap sent)
        /\ \A f \in r.files : Meant(f)
    BY <1>4 DEF RowGood, Row, Files, Meant
  <1>6. UNCHANGED <<object, refused, sent, cutoff>> /\ job' = job
    BY DEF Advance
  <1>7. Table' /\ order' \in Seq(Session)
    <2>1. CASE ok
      <3>1. Written(r.session, r.files, r.files)
        BY <1>3, <2>1
      <3> QED BY <1>4, <1>5, <1>6, <3>1, WrittenKeeps
    <2>2. CASE ~ok
      BY <1>6, <2>2 DEF Inv, Table, Counters, Meant, tableVars
    <2> QED BY <2>1, <2>2
  <1>8. Counters'
    <2>1. alone' \in [Pass -> BOOLEAN]
      BY DEF Disturb, Inv, Counters
    <2> QED BY <1>7, <2>1, OutcomeType DEF Inv, Counters
  <1> QED BY <1>1, <1>6, <1>7, <1>8, Together

LEMMA SkipStep ==
    ASSUME Inv, NEW p \in Pass, Skip(p)
    PROVE  Inv'
  <1> USE DEF Skip
  <1>1. Local(p) /\ Grows /\ Good(p)'
    BY AdvanceKeeps
  <1>2. Counters' /\ Table' /\ job' = job
    BY DEF Advance, Inv, Counters, Table, Meant, tableVars
  <1> QED BY <1>1, <1>2, Together

LEMMA FinishStep ==
    ASSUME Inv, NEW p \in Pass, Finish(p)
    PROVE  Inv'
  <1> USE DEF Finish, Enter
  <1>1. Local(p)
    BY DEF Inv, Functions, Local
  <1>2. Grows
    BY DEF Inv, Table, Grows, Meant
  <1>3. Good(p)'
    <2>1. stage'[p] = "done"
      BY DEF Inv, Functions
    <2> QED BY <2>1 DEF Inv, Good, PassGood, Stage
  <1>4. Counters' /\ Table'
    BY DEF Inv, Counters, Table, Meant, tableVars
  <1> QED BY <1>1, <1>2, <1>3, <1>4, Together

LEMMA NextGood ==
    ASSUME Inv, [Next]_vars
    PROVE  Inv'
  <1>1. ASSUME NEW p \in Pass, PassStep(p)
        PROVE  Inv'
    BY <1>1, StartStep, FetchPageStep, DieStep, RemoveStep, WriteBackStep, SkipStep, FinishStep
       DEF PassStep
  <1>2. CASE UNCHANGED vars
    BY <1>2 DEF vars, tableVars, passVars, Inv, Functions, Counters, Table, JobGood, Meant, Good
  <1> QED BY <1>1, <1>2, StoreStep, ReadToNoteStep, WriteNoteStep DEF Next

-----------------------------------------------------------------------------
(***************************************************************************)
(* A pass that nobody disturbs sweeps what its cutoff selects.             *)
(***************************************************************************)
Rowed == \A s \in Session : \E i \in 1..Len(order) : order[i] = s

Has(p, s) == \E k \in 1..Len(found[p]) : found[p][k].session = s

\* Nothing of this session is left but what could not be removed.
Swept(s) == \A f \in (listed \cap Files(s)) \ refused : f \notin object /\ f \in marked

\* The arrays a pass has still to write are those of the table.
Current(p) ==
    \A k \in 1..Len(found[p]) : /\ found[p][k].files = listed \cap Files(found[p][k].session)
                                /\ found[p][k].cleaned \subseteq marked

\* The pages so far hold the sessions up to the offset.
Paged(p) ==
    stage[p] = "paging" => \A i \in Selected(p) : Rank(p, i) <= offset[p] => Has(p, order[i])

\* A session the cutoff selects is swept, or still to come.
Covered(p) == stage[p] = "sweeping" => \A s \in Older(p) : Has(p, s) \/ Swept(s)

\* While no removal has succeeded for a session, those tried have failed.
Tried(p) ==
    stage[p] = "sweeping" /\ found[p] # <<>> /\ ~removed[p] =>
        found[p][1].files \ (found[p][1].cleaned \cup todo[p]) \subseteq refused

Unstarted(p) == stage[p] = "idle" => offset[p] = 0

Track(p) ==
    /\ alone[p] => Current(p) /\ Paged(p) /\ Covered(p)
    /\ Tried(p) /\ Unstarted(p)

Tracked == Rowed /\ \A p \in Pass : Track(p)

Shrinks == object' \subseteq object \cup (File \ sent) /\ refused \subseteq refused'

\* The local variables of p are as they were.
Still(p) ==
    /\ stage'[p] = stage[p] /\ cutoff'[p] = cutoff[p] /\ offset'[p] = offset[p]
    /\ found'[p] = found[p] /\ todo'[p] = todo[p] /\ removed'[p] = removed[p]

LEMMA SweptStays ==
    ASSUME Inv, Shrinks, NEW s, Swept(s), listed' = listed, marked \subseteq marked'
    PROVE  Swept(s)'
  <1>1. listed \subseteq sent
    BY DEF Inv, Table
  <1> QED BY <1>1 DEF Swept, Shrinks, Files

LEMMA TriedStays ==
    ASSUME NEW p \in Pass, Track(p), Still(p), refused \subseteq refused'
    PROVE  Tried(p)' /\ Unstarted(p)'
  BY DEF Track, Tried, Unstarted, Still

\* Nobody has written a session, and p has not moved.
LEMMA TrackStays ==
    ASSUME Inv, NEW p \in Pass, Track(p), Still(p), UNCHANGED tableVars, Shrinks,
           alone'[p] => alone[p]
    PROVE  Track(p)'
  <1>1. Tried(p)' /\ Unstarted(p)'
    BY TriedStays DEF Shrinks
  <1>2. ASSUME alone'[p]
        PROVE  Current(p)' /\ Paged(p)' /\ Covered(p)'
    <2>1. Current(p) /\ Paged(p) /\ Covered(p)
      BY <1>2 DEF Track
    <2>2. Current(p)'
      BY <2>1 DEF Current, Still, tableVars
    <2>3. Older(p)' = Older(p) /\ \A s : Has(p, s)' <=> Has(p, s)
      BY DEF Still, Older, Has
    <2>4. Selected(p)' = Selected(p) /\ order' = order
      BY <2>3 DEF Selected, tableVars
    <2>5. \A i : Rank(p, i)' = Rank(p, i)
      BY <2>4 DEF Rank
    <2>6. Paged(p)'
      BY <2>1, <2>3, <2>4, <2>5 DEF Paged, Still
    <2>7. Covered(p)'
      BY <2>1, <2>3, SweptStays DEF Covered, Still, tableVars
    <2> QED BY <2>2, <2>6, <2>7
  <1> QED BY <1>1, <1>2 DEF Track

\* Somebody else has written one.
LEMMA TrackEnds ==
    ASSUME NEW p \in Pass, Track(p), Still(p), refused \subseteq refused', ~ alone'[p]
    PROVE  Track(p)'
  BY TriedStays DEF Track

LEMMA RowedStays ==
    ASSUME Inv, Rowed, order' = order \/ (\E s \in Session : Reordered(s))
    PROVE  Rowed'
  <1>1. CASE order' = order
    BY <1>1 DEF Rowed
  <1>2. ASSUME NEW s \in Session, Reordered(s)
        PROVE  Rowed'
    BY <1>2, ReorderedKeeps DEF Rowed
  <1> QED BY <1>1, <1>2

LEMMA TrackedInit == Init => Tracked
  <1> SUFFICES ASSUME Init PROVE Tracked
    OBVIOUS
  <1>1. Rowed
    <2>1. Len(order) = Sessions /\ \A s \in Session : s \in 1..Len(order) /\ order[s] = s
      BY RetentionAssumption DEF Init, Session
    <2> QED BY <2>1 DEF Rowed
  <1>2. \A p \in Pass : Track(p)
    BY DEF Init, Track, Tried, Unstarted
  <1> QED BY <1>1, <1>2 DEF Tracked

LEMMA OthersTracked ==
    ASSUME Inv, Tracked, \/ \E f \in File : Store(f)
                         \/ \E s \in Session : ReadToNote(s)
                         \/ WriteNote
    PROVE  Tracked'
  <1>1. \A p \in Pass : Track(p) /\ Still(p)
    BY DEF Tracked, Store, ReadToNote, WriteNote, passVars, Still
  <1>2. ASSUME NEW f \in File, Store(f)
        PROVE  Tracked'
    <2>1. Owner[f] \in Session
      BY RetentionAssumption
    <2>2. Rowed'
      BY <1>2, <2>1, RowedStays DEF Store, Tracked
    <2>3. \A p \in Pass : ~ alone'[p]
      BY <1>2 DEF Store, DisturbAll
    <2> QED BY <1>1, <1>2, <2>2, <2>3, TrackEnds DEF Store, Tracked
  <1>3. ASSUME NEW s \in Session, ReadToNote(s)
        PROVE  Tracked'
    <2>1. UNCHANGED <<tableVars, alone, refused, object>>
      BY <1>3 DEF ReadToNote
    <2>2. Rowed'
      BY <2>1, RowedStays DEF tableVars, Tracked
    <2>3. Shrinks
      BY <2>1 DEF Shrinks
    <2>4. \A p \in Pass : Track(p)'
      BY <1>1, <2>1, <2>3, TrackStays
    <2> QED BY <2>2, <2>4 DEF Tracked
  <1>4. ASSUME WriteNote
        PROVE  Tracked'
    <2>1. job.session \in Session /\ Reordered(job.session)
      BY <1>4 DEF WriteNote, Written, Inv, JobGood, RowGood, Row
    <2>2. Rowed'
      BY <2>1, RowedStays DEF Tracked
    <2>3. \A p \in Pass : ~ alone'[p]
      BY <1>4 DEF WriteNote, DisturbAll
    <2> QED BY <1>1, <1>4, <2>2, <2>3, TrackEnds DEF WriteNote, Tracked
  <1> QED BY <1>2, <1>3, <1>4

LEMMA LocalStill ==
    ASSUME NEW p \in Pass, Local(p), NEW q \in Pass \ {p}
    PROVE  Still(q)
  BY DEF Local, Still

\* A step of p that writes no session.
LEMMA ReadingStep ==
    ASSUME Inv, Tracked, NEW p \in Pass, Local(p), UNCHANGED tableVars, Shrinks,
           \A q \in Pass \ {p} : alone'[q] => alone[q], Track(p)'
    PROVE  Tracked'
  <1>1. Rowed'
    BY RowedStays DEF Tracked, tableVars
  <1>2. ASSUME NEW q \in Pass \ {p}
        PROVE  Track(q)'
    BY LocalStill, TrackStays DEF Tracked
  <1> QED BY <1>1, <1>2 DEF Tracked

\* The place of a row among those the query selects.
LEMMA RankBound ==
    ASSUME NEW n \in Nat, NEW S \in SUBSET (1..n)
    PROVE  /\ IsFiniteSet(S) /\ Cardinality(S) \in Nat
           /\ \A i \in S : Cardinality({j \in S : j <= i}) \in 1..Cardinality(S)
  <1>1. IsFiniteSet(S) /\ Cardinality(S) \in Nat
    <2>1. IsFiniteSet(1..n)
      BY FS_Interval
    <2> QED BY <2>1, FS_Subset, FS_CardinalityType
  <1>2. ASSUME NEW i \in S
        PROVE  Cardinality({j \in S : j <= i}) \in 1..Cardinality(S)
    <2> DEFINE upTo == {j \in S : j <= i}
    <2>1. i \in upTo /\ upTo \in SUBSET S
      OBVIOUS
    <2> HIDE DEF upTo
    <2>2. /\ IsFiniteSet(upTo) /\ Cardinality(upTo) \in Nat
          /\ Cardinality(upTo) <= Cardinality(S)
      BY <1>1, <2>1, FS_Subset, FS_CardinalityType
    <2>3. Cardinality(upTo) # 0
      BY <2>1, <2>2, FS_EmptySet
    <2>4. Cardinality(upTo) \in 1..Cardinality(S)
      BY <1>1, <2>2, <2>3
    <2> QED BY <2>4 DEF upTo
  <1> QED BY <1>1, <1>2

LEMMA RankType ==
    ASSUME Inv, NEW p \in Pass
    PROVE  /\ Cardinality(Selected(p)) \in Nat
           /\ \A i \in Selected(p) : Rank(p, i) \in 1..Cardinality(Selected(p))
  <1>1. Len(order) \in Nat /\ Selected(p) \in SUBSET (1..Len(order))
    BY DEF Inv, Counters, Selected
  <1> QED BY <1>1, RankBound DEF Rank

LEMMA StartTracked ==
    ASSUME Inv, Tracked, NEW p \in Pass, NEW c \in 0..Sessions, Start(p, c)
    PROVE  Tracked'
  <1> USE DEF Start, Enter
  <1>1. Local(p) /\ Shrinks /\ UNCHANGED tableVars
    BY DEF Inv, Functions, Local, Shrinks, tableVars
  <1>2. \A q \in Pass \ {p} : alone'[q] => alone[q]
    BY DEF Inv, Counters
  <1>3. /\ stage[p] = "idle" /\ stage'[p] = "paging" /\ found'[p] = <<>> /\ offset'[p] = 0
        /\ Len(<<>>) = 0
    BY DEF Inv, Functions, Good, PassGood, Tracked, Track, Unstarted
  <1>4. Current(p)'
    BY <1>3 DEF Current
  <1>5. Paged(p)'
    <2>1. order' = order /\ Len(order) \in Nat
      BY DEF Inv, Counters, tableVars
    <2> DEFINE S == Selected(p)'
    <2>2. \A i \in S : Cardinality({j \in S : j <= i}) \in 1..Cardinality(S)
      <3>1. S \in SUBSET (1..Len(order))
        BY <2>1 DEF Selected
      <3> HIDE DEF S
      <3> QED BY <2>1, <3>1, RankBound
    <2>3. Cardinality(S) \in Nat
      <3>1. S \in SUBSET (1..Len(order))
        BY <2>1 DEF Selected
      <3> HIDE DEF S
      <3> QED BY <2>1, <3>1, RankBound
    <2>4. \A i \in S : Rank(p, i)' = Cardinality({j \in S : j <= i})
      BY DEF Rank
    <2> HIDE DEF S
    <2>5. \A i \in S : ~ (Rank(p, i)' <= offset'[p])
      <3> TAKE i \in S
      <3> DEFINE n == Cardinality({j \in S : j <= i})
      <3>1. Rank(p, i)' = n /\ n \in 1..Cardinality(S)
        BY <2>2, <2>4
      <3> HIDE DEF n
      <3>2. ~ (n <= 0)
        BY <2>3, <3>1
      <3> QED BY <1>3, <3>1, <3>2
    <2> QED BY <2>5 DEF Paged, S
  <1>6. Track(p)'
    BY <1>3, <1>4, <1>5 DEF Track, Covered, Tried, Unstarted
  <1> QED BY <1>1, <1>2, <1>6, ReadingStep

\* What a page adds to the arrays found.
LEMMA PageFound ==
    ASSUME Inv, NEW p \in Pass, NEW page, FetchPage(p, page)
    PROVE  /\ Len(found[p]) \in Nat /\ Len(page) \in Nat
           /\ Len(found'[p]) = Len(found[p]) + Len(page)
           /\ \A k \in 1..Len(found[p]) : found'[p][k] = found[p][k]
           /\ \A k \in 1..Len(page) : found'[p][Len(found[p]) + k] = RowOf(page[k])
  <1> DEFINE new == [i \in 1..Len(page) |-> RowOf(page[i])]
             fo == found[p] \o new
  <1>1. found'[p] = fo /\ found[p] \in Seq(Row) /\ Len(found[p]) \in Nat
    BY DEF FetchPage, Inv, Functions, Good, PassGood
  <1>2. IsPage(p, page)
    BY DEF FetchPage
  <1>3. Len(page) \in Nat /\ \A i \in 1..Len(page) : page[i] \in Session
    BY <1>2, PageType
  <1>4. \A i \in 1..Len(page) : new[i] \in Row
    BY <1>3, RowNow DEF RowGood
  <1>5. /\ new \in Seq(Row) /\ Len(new) = Len(page)
        /\ \A i \in 1..Len(page) : new[i] = RowOf(page[i])
    <2>1. new \in [1..Len(page) -> Row] /\ \A i \in 1..Len(page) : new[i] = RowOf(page[i])
      BY <1>4
    <2> HIDE DEF new
    <2> QED BY <1>3, <2>1
  <1> HIDE DEF new
  <1>6. /\ Len(fo) = Len(found[p]) + Len(new)
        /\ \A i \in 1..(Len(found[p]) + Len(new)) :
              fo[i] = IF i <= Len(found[p]) THEN found[p][i] ELSE new[i - Len(found[p])]
    <2>1. found[p] \in Seq(Row) /\ new \in Seq(Row)
      BY <1>1, <1>5
    <2>2. fo = found[p] \o new
      OBVIOUS
    <2> HIDE DEF fo
    <2> QED BY <2>1, <2>2, ConcatProperties, SMTT(60)
  <1> HIDE DEF fo
  <1>7. ASSUME NEW k \in 1..Len(found[p])
        PROVE  fo[k] = found[p][k]
    <2>1. k \in 1..(Len(found[p]) + Len(new)) /\ k <= Len(found[p])
      BY <1>1, <1>3, <1>5
    <2> QED BY <1>6, <2>1
  <1>8. ASSUME NEW k \in 1..Len(page)
        PROVE  fo[Len(found[p]) + k] = RowOf(page[k])
    <2>1. /\ Len(found[p]) + k \in 1..(Len(found[p]) + Len(new))
          /\ ~ (Len(found[p]) + k <= Len(found[p])) /\ (Len(found[p]) + k) - Len(found[p]) = k
      BY <1>1, <1>3, <1>5
    <2> QED BY <1>5, <1>6, <2>1
  <1> QED BY <1>1, <1>3, <1>5, <1>6, <1>7, <1>8

LEMMA FetchPageTracked ==
    ASSUME Inv, Tracked, NEW p \in Pass, NEW page, FetchPage(p, page)
    PROVE  Tracked'
  <1>1. /\ Len(found[p]) \in Nat /\ Len(page) \in Nat
        /\ Len(found'[p]) = Len(found[p]) + Len(page)
        /\ \A k \in 1..Len(found[p]) : found'[p][k] = found[p][k]
        /\ \A k \in 1..Len(page) : found'[p][Len(found[p]) + k] = RowOf(page[k])
    BY PageFound
  <1>2. /\ stage[p] = "paging" /\ IsPage(p, page) /\ UNCHANGED <<tableVars, object, refused, cutoff, alone>>
        /\ order' = order /\ listed' = listed /\ marked' = marked
    BY DEF FetchPage, tableVars
  <1>3. /\ Len(page) < BATCH_SIZE => stage'[p] = "sweeping"
        /\ ~ (Len(page) < BATCH_SIZE) => stage'[p] = "paging" /\ offset'[p] = offset[p] + BATCH_SIZE
        /\ stage'[p] = "sweeping" /\ found'[p] # <<>> => todo'[p] = found'[p][1].files \ found'[p][1].cleaned
    BY <1>2 DEF FetchPage, Enter, Inv, Functions
  <1>4. Local(p)
    BY DEF FetchPage, Enter, Inv, Functions, Local
  <1>5. /\ Older(p)' = Older(p) /\ Selected(p)' = Selected(p)
        /\ \A i : Rank(p, i)' = Rank(p, i)
    <2>1. Older(p)' = Older(p)
      BY <1>2 DEF Older
    <2>2. Selected(p)' = Selected(p)
      BY <1>2, <2>1 DEF Selected
    <2> QED BY <2>1, <2>2 DEF Rank
  <1>6. /\ offset[p] \in Nat /\ BATCH_SIZE \in Nat \ {0} /\ DOMAIN page = 1..Len(page)
        /\ PageSize(p) \in Int
        /\ Len(page) = IF PageSize(p) < 0 THEN 0 ELSE PageSize(p)
        /\ Cardinality(Selected(p)) \in Nat
        /\ \A i \in Selected(p) : Rank(p, i) \in 1..Cardinality(Selected(p))
    BY <1>2, RetentionAssumption, PageType, RankType DEF Inv, Good, PassGood
  <1>7. ASSUME alone[p]
        PROVE  Current(p)' /\ Paged(p)' /\ Covered(p)'
    <2>1. Current(p) /\ Paged(p)
      BY <1>7 DEF Tracked, Track
    <2>2. ASSUME NEW s, Has(p, s) PROVE Has(p, s)'
      <3>1. PICK k \in 1..Len(found[p]) : found[p][k].session = s
        BY <2>2 DEF Has
      <3>2. k \in 1..Len(found'[p])
        BY <1>1
      <3>3. found'[p][k].session = s
        BY <1>1, <3>1
      <3> QED BY <3>2, <3>3 DEF Has
    <2>3. ASSUME NEW i \in Selected(p), Rank(p, i) <= offset[p] + Len(page)
          PROVE  Has(p, order[i])'
      <3>1. CASE Rank(p, i) <= offset[p]
        BY <1>2, <2>1, <2>2, <3>1 DEF Paged
      <3>2. CASE ~ (Rank(p, i) <= offset[p])
        <4> DEFINE k == Rank(p, i) - offset[p]
        <4>1. k \in 1..Len(page) /\ Len(found[p]) + k \in 1..Len(found'[p])
          BY <1>1, <1>6, <2>3, <3>2
        <4>2. page[k] = order[i]
          BY <1>2, <1>6, <4>1 DEF IsPage
        <4> HIDE DEF k
        <4>3. found'[p][Len(found[p]) + k] = RowOf(order[i])
          BY <1>1, <4>1, <4>2
        <4>4. found'[p][Len(found[p]) + k].session = order[i]
          BY <4>3 DEF RowOf
        <4> QED BY <1>2, <4>1, <4>4 DEF Has
      <3> QED BY <3>1, <3>2
    <2>4. Current(p)'
      <3> SUFFICES ASSUME NEW k \in 1..Len(found'[p])
                   PROVE  /\ found'[p][k].files = listed \cap Files(found'[p][k].session)
                          /\ found'[p][k].cleaned \subseteq marked
        BY <1>2 DEF Current, Files
      <3>1. CASE k \in 1..Len(found[p])
        BY <1>1, <2>1, <3>1 DEF Current
      <3>2. CASE k \notin 1..Len(found[p])
        <4> DEFINE j == k - Len(found[p])
        <4>1. j \in 1..Len(page) /\ k = Len(found[p]) + j
          BY <1>1, <3>2
        <4> HIDE DEF j
        <4>2. found'[p][k] = RowOf(page[j])
          BY <1>1, <4>1
        <4> QED BY <4>2 DEF RowOf
      <3> QED BY <3>1, <3>2
    <2>5. Paged(p)'
      <3> SUFFICES ASSUME stage'[p] = "paging", NEW i \in Selected(p), Rank(p, i) <= offset'[p]
                   PROVE  Has(p, order[i])'
        BY <1>2, <1>5 DEF Paged
      <3>1. offset'[p] = offset[p] + Len(page)
        BY <1>3, <1>6 DEF PageSize
      <3> QED BY <2>3, <3>1
    <2>6. Covered(p)'
      <3> SUFFICES ASSUME stage'[p] = "sweeping", NEW s \in Older(p)
                   PROVE  Has(p, s)'
        BY <1>5 DEF Covered
      <3>1. s \in Session
        BY RetentionAssumption DEF Older, Session, Inv, Good, PassGood
      <3>2. PICK i \in 1..Len(order) : order[i] = s
        BY <3>1 DEF Tracked, Rowed
      <3>3. i \in Selected(p)
        BY <3>2 DEF Selected
      <3>4. Len(page) < BATCH_SIZE
        BY <1>3
      <3>5. Rank(p, i) <= offset[p] + Len(page)
        BY <1>6, <3>3, <3>4 DEF PageSize
      <3>6. Has(p, order[i])'
        BY <2>3, <3>3, <3>5
      <3> QED BY <1>2, <3>2, <3>6
    <2> QED BY <2>4, <2>5, <2>6
  <1>8. Tried(p)' /\ Unstarted(p)'
    BY <1>3 DEF Tried, Unstarted
  <1>9. Track(p)'
    BY <1>2, <1>7, <1>8 DEF Track
  <1>10. Shrinks
    BY <1>2 DEF Shrinks
  <1> QED BY <1>2, <1>4, <1>9, <1>10, ReadingStep

LEMMA DieTracked ==
    ASSUME Inv, Tracked, NEW p \in Pass, Die(p)
    PROVE  Tracked'
  <1> USE DEF Die, Enter
  <1>1. Local(p) /\ Shrinks /\ UNCHANGED tableVars
    BY DEF Inv, Functions, Local, Shrinks, tableVars
  <1>2. /\ stage'[p] = "failed" /\ ~ alone'[p]
        /\ \A q \in Pass \ {p} : alone'[q] => alone[q]
    BY DEF Inv, Functions, Counters
  <1>3. Track(p)'
    BY <1>2 DEF Track, Tried, Unstarted
  <1> QED BY <1>1, <1>2, <1>3, ReadingStep

LEMMA RemoveTracked ==
    ASSUME Inv, Tracked, NEW p \in Pass, NEW f \in File, NEW ok \in BOOLEAN, Remove(p, f, ok)
    PROVE  Tracked'
  <1> USE DEF Remove
  <1>1. Local(p) /\ Shrinks /\ UNCHANGED <<tableVars, alone>>
    BY DEF Inv, Functions, Local, Shrinks, tableVars
  <1>2. /\ stage[p] = "sweeping" /\ stage'[p] = "sweeping" /\ cutoff'[p] = cutoff[p]
        /\ found'[p] = found[p] /\ todo'[p] = todo[p] \ {f} /\ removed'[p] = (removed[p] \/ ok)
    BY DEF Inv, Functions
  <1>3. ASSUME alone[p]
        PROVE  Current(p)' /\ Paged(p)' /\ Covered(p)'
    <2>1. Current(p) /\ Covered(p)
      BY <1>3 DEF Tracked, Track
    <2>2. Current(p)'
      BY <1>1, <1>2, <2>1 DEF Current, tableVars
    <2>3. Older(p)' = Older(p) /\ \A s : Has(p, s)' <=> Has(p, s)
      BY <1>2 DEF Older, Has
    <2>4. Covered(p)'
      BY <1>1, <1>2, <2>1, <2>3, SweptStays DEF Covered, tableVars
    <2> QED BY <1>2, <2>2, <2>4 DEF Paged
  <1>4. Tried(p)'
    <2> SUFFICES ASSUME found[p] # <<>>, ~ removed'[p]
                 PROVE  found[p][1].files \ (found[p][1].cleaned \cup todo'[p]) \subseteq refused'
      BY <1>2 DEF Tried
    <2>1. ~ ok /\ ~ removed[p] /\ refused' = refused \cup {f}
      BY <1>2
    <2>2. found[p][1].files \ (found[p][1].cleaned \cup todo[p]) \subseteq refused
      BY <1>2, <2>1 DEF Tracked, Track, Tried
    <2> QED BY <1>2, <2>1, <2>2
  <1>5. Track(p)'
    BY <1>1, <1>2, <1>3, <1>4 DEF Track, Unstarted
  <1> QED BY <1>1, <1>5, ReadingStep

\* What is left of a sequence when its head is gone: the same entries, one place down.
LEMMA TailShifts ==
    ASSUME NEW S, NEW q \in Seq(S), q # <<>>
    PROVE  /\ Len(q) \in Nat \ {0} /\ Len(Tail(q)) = Len(q) - 1
           /\ \A k \in 1..Len(Tail(q)) : Tail(q)[k] = q[k + 1]
           /\ Tail(q) # <<>> => Len(q) > 1 /\ Tail(q)[1] = q[2]
  <1>1. /\ Len(q) \in Nat \ {0} /\ Tail(q) \in Seq(S) /\ Len(Tail(q)) = Len(q) - 1
        /\ \A k \in 1..Len(Tail(q)) : Tail(q)[k] = q[k + 1]
    BY HeadTailProperties, EmptySeq
  <1>2. ASSUME Tail(q) # <<>> PROVE Len(q) > 1 /\ Tail(q)[1] = q[2]
    <2>1. Len(Tail(q)) \in Nat \ {0}
      BY <1>1, <1>2, EmptySeq
    <2>2. Len(q) > 1 /\ 1 \in 1..Len(Tail(q)) /\ 1 + 1 = 2
      BY <1>1, <2>1
    <2> QED BY <1>1, <2>2
  <1> QED BY <1>1, <1>2

\* On to the next of the sessions found.
LEMMA AdvanceFound ==
    ASSUME Inv, NEW p \in Pass, stage[p] = "sweeping", found[p] # <<>>, Advance(p)
    PROVE  /\ Len(found[p]) \in Nat \ {0} /\ Len(found'[p]) = Len(found[p]) - 1
           /\ \A k \in 1..Len(found'[p]) : found'[p][k] = found[p][k + 1]
           /\ stage'[p] = "sweeping" /\ cutoff'[p] = cutoff[p] /\ Local(p)
           /\ found'[p] # <<>> => todo'[p] = found'[p][1].files \ found'[p][1].cleaned
  <1> USE DEF Advance
  <1>1. Local(p)
    BY AdvanceKeeps
  <1>2. found[p] \in Seq(Row)
    BY DEF Inv, Good, PassGood
  <1>3. /\ found'[p] = Tail(found[p]) /\ stage'[p] = "sweeping" /\ cutoff'[p] = cutoff[p]
        /\ todo'[p] = IF Len(found[p]) > 1 THEN found[p][2].files \ found[p][2].cleaned ELSE {}
    BY DEF Inv, Functions
  <1> HIDE DEF Advance
  <1>4. /\ Len(found[p]) \in Nat \ {0} /\ Len(found'[p]) = Len(found[p]) - 1
        /\ \A k \in 1..Len(found'[p]) : found'[p][k] = found[p][k + 1]
        /\ found'[p] # <<>> => Len(found[p]) > 1 /\ found'[p][1] = found[p][2]
    BY <1>2, <1>3, TailShifts
  <1> QED BY <1>1, <1>3, <1>4

\* The pass has left a session swept.
LEMMA AdvanceTracked ==
    ASSUME Inv, Tracked, NEW p \in Pass, stage[p] = "sweeping", found[p] # <<>>, Advance(p),
           NEW left, left = found[p][1].session,
           alone'[p] => /\ alone[p] /\ listed' = listed /\ marked \subseteq marked'
                        /\ Swept(left)'
    PROVE  Track(p)'
  <1>1. /\ Len(found[p]) \in Nat \ {0} /\ Len(found'[p]) = Len(found[p]) - 1
        /\ \A k \in 1..Len(found'[p]) : found'[p][k] = found[p][k + 1]
        /\ stage'[p] = "sweeping" /\ cutoff'[p] = cutoff[p]
        /\ found'[p] # <<>> => todo'[p] = found'[p][1].files \ found'[p][1].cleaned
    BY AdvanceFound
  <1>2. Tried(p)' /\ Unstarted(p)' /\ Paged(p)'
    BY <1>1 DEF Tried, Unstarted, Paged
  <1>3. ASSUME alone'[p]
        PROVE  Current(p)' /\ Covered(p)'
    <2>1. /\ alone[p] /\ listed' = listed /\ marked \subseteq marked'
          /\ Swept(left)' /\ object' = object /\ refused' = refused
      BY <1>3 DEF Advance
    <2>2. Current(p) /\ Covered(p)
      BY <2>1 DEF Tracked, Track
    <2>3. Current(p)'
      <3> SUFFICES ASSUME NEW k \in 1..Len(found'[p])
                   PROVE  /\ found'[p][k].files = listed \cap Files(found'[p][k].session)
                          /\ found'[p][k].cleaned \subseteq marked'
        BY <2>1 DEF Current, Files
      <3>1. k + 1 \in 1..Len(found[p]) /\ found'[p][k] = found[p][k + 1]
        BY <1>1
      <3> QED BY <2>1, <2>2, <3>1 DEF Current
    <2>4. Covered(p)'
      <3> SUFFICES ASSUME NEW s \in Older(p)
                   PROVE  Has(p, s)' \/ Swept(s)'
        BY <1>1 DEF Covered, Older
      <3>1. CASE Swept(s)
        <4>1. Shrinks
          BY <2>1 DEF Shrinks
        <4> QED BY <2>1, <3>1, <4>1, SweptStays
      <3>2. CASE Has(p, s)
        <4>1. PICK k \in 1..Len(found[p]) : found[p][k].session = s
          BY <3>2 DEF Has
        <4>2. CASE k = 1
          <5>1. s = left
            BY <4>1, <4>2
          <5> QED BY <2>1, <5>1
        <4>3. CASE k # 1
          <5>1. k - 1 \in 1..Len(found'[p]) /\ found'[p][k - 1] = found[p][(k - 1) + 1]
            BY <1>1, <4>3
          <5>2. (k - 1) + 1 = k
            BY <1>1
          <5> QED BY <4>1, <5>1, <5>2 DEF Has
        <4> QED BY <4>2, <4>3
      <3> QED BY <2>2, <3>1, <3>2 DEF Covered
    <2> QED BY <2>3, <2>4
  <1> QED BY <1>2, <1>3 DEF Track

\* The array the pass is at, its removals done: what is left of it could not be removed.
LEMMA HeadGone ==
    ASSUME Inv, NEW p \in Pass, stage[p] = "sweeping", found[p] # <<>>, todo[p] = {}
    PROVE  /\ found[p][1].session \in Session /\ found[p][1].files \cap object \subseteq refused
           /\ found[p][1].cleaned \cap object \subseteq refused
           /\ 1 \in 1..Len(found[p]) /\ Head(found[p]) = found[p][1]
  <1>1. PassGood(stage[p], cutoff[p], offset[p], found[p], todo[p], removed[p], object, refused, sent)
    BY DEF Inv, Good
  <1>2. 1 \in 1..Len(found[p]) /\ Head(found[p]) = found[p][1]
    BY <1>1 DEF PassGood
  <1> QED BY <1>1, <1>2 DEF PassGood, RowGood, Row

LEMMA WriteBackTracked ==
    ASSUME Inv, Tracked, NEW p \in Pass, NEW ok \in BOOLEAN, WriteBack(p, ok)
    PROVE  Tracked'
  <1> USE DEF WriteBack
  <1> DEFINE r == found[p][1]
  <1>0. PICK s : s = r.session
    OBVIOUS
  <1>1. /\ r.session \in Session /\ r.files \cap object \subseteq refused
        /\ 1 \in 1..Len(found[p]) /\ Head(found[p]) = r
    BY HeadGone
  <1>2. Local(p) /\ object' = object /\ refused' = refused
    BY AdvanceFound DEF Advance
  <1>3. CASE ok
    <2>1. Written(r.session, r.files, r.files) /\ Disturb(p)
      BY <1>1, <1>3
    <2>2. Rowed'
      BY <1>1, <2>1, RowedStays DEF Written, Tracked
    <2>3. /\ alone'[p] => alone[p]
          /\ \A q \in Pass \ {p} : ~ alone'[q]
      BY <2>1 DEF Disturb
    <2>4. ASSUME alone[p]
          PROVE  listed' = listed /\ marked \subseteq marked' /\ Swept(s)'
      <3>1. r.files = listed \cap Files(r.session)
        BY <1>1, <2>4 DEF Tracked, Track, Current
      <3>2. listed' = listed
        BY <2>1, <3>1 DEF Written, Inv, Table, Files
      <3>3. marked \subseteq marked' /\ r.files \subseteq marked'
        BY <2>1, <3>1 DEF Written, Inv, Table
      <3> QED BY <1>0, <1>1, <1>2, <3>1, <3>2, <3>3 DEF Swept, Files
    <2>5. Track(p)'
      BY <1>0, <2>3, <2>4, AdvanceTracked
    <2>6. \A q \in Pass \ {p} : Track(q)'
      BY <1>2, <2>3, LocalStill, TrackEnds DEF Tracked
    <2> QED BY <2>2, <2>5, <2>6 DEF Tracked
  <1>4. CASE ~ok
    <2>1. UNCHANGED tableVars /\ Shrinks /\ ~ alone'[p]
      BY <1>2, <1>4 DEF Shrinks, Inv, Counters
    <2>2. \A q \in Pass \ {p} : alone'[q] => alone[q]
      BY <1>4 DEF Inv, Counters
    <2>3. Track(p)'
      BY <1>0, <2>1, AdvanceTracked
    <2> QED BY <1>2, <2>1, <2>2, <2>3, ReadingStep
  <1> QED BY <1>3, <1>4

LEMMA SkipTracked ==
    ASSUME Inv, Tracked, NEW p \in Pass, Skip(p)
    PROVE  Tracked'
  <1> USE DEF Skip
  <1> DEFINE r == found[p][1]
  <1>0. PICK s : s = r.session
    OBVIOUS
  <1>1. /\ r.session \in Session /\ r.cleaned \cap object \subseteq refused
        /\ 1 \in 1..Len(found[p])
    BY HeadGone
  <1>2. Local(p) /\ Shrinks /\ UNCHANGED <<tableVars, alone, object, refused>>
    BY AdvanceFound DEF Advance, Shrinks
  <1>3. ASSUME alone[p]
        PROVE  Swept(s)'
    <2>1. r.files = listed \cap Files(r.session) /\ r.cleaned \subseteq marked
      BY <1>1, <1>3 DEF Tracked, Track, Current
    <2>2. r.files \ r.cleaned \subseteq refused
      BY DEF Tracked, Track, Tried
    <2> QED BY <1>0, <1>1, <1>2, <2>1, <2>2 DEF Swept, Files, tableVars
  <1>4. Track(p)'
    BY <1>0, <1>2, <1>3, AdvanceTracked DEF tableVars
  <1> QED BY <1>2, <1>4, ReadingStep

LEMMA FinishTracked ==
    ASSUME Inv, Tracked, NEW p \in Pass, Finish(p)
    PROVE  Tracked'
  <1> USE DEF Finish, Enter
  <1>1. Local(p) /\ Shrinks /\ UNCHANGED <<tableVars, alone>>
    BY DEF Inv, Functions, Local, Shrinks, tableVars
  <1>2. stage'[p] = "done" /\ found'[p] = <<>> /\ Len(<<>>) = 0
    BY DEF Inv, Functions
  <1>3. Track(p)'
    BY <1>2 DEF Track, Current, Paged, Covered, Tried, Unstarted
  <1> QED BY <1>1, <1>3, ReadingStep

LEMMA NextTracked ==
    ASSUME Inv, Tracked, [Next]_vars
    PROVE  Tracked'
  <1>1. ASSUME NEW p \in Pass, PassStep(p)
        PROVE  Tracked'
    BY <1>1, StartTracked, FetchPageTracked, DieTracked, RemoveTracked, WriteBackTracked,
       SkipTracked, FinishTracked DEF PassStep
  <1>2. CASE UNCHANGED vars
    <2>1. /\ UNCHANGED <<tableVars, alone>> /\ Shrinks
          /\ \A p \in Pass : Still(p) /\ Track(p)
      BY <1>2 DEF vars, passVars, Still, Shrinks, Tracked
    <2>2. Rowed'
      BY <2>1, RowedStays DEF tableVars, Tracked
    <2> QED BY <2>1, <2>2, TrackStays DEF Tracked
  <1> QED BY <1>1, <1>2, OthersTracked DEF Next

\* Only Finish takes a pass from sweeping to done.
LEMMA Done ==
    ASSUME Inv, [Next]_vars, NEW p \in Pass, stage[p] = "sweeping", stage'[p] = "done"
    PROVE  Finish(p)
  <1>1. ASSUME NEW q \in Pass, PassStep(q)
        PROVE  q = p /\ Finish(p)
    <2>1. \A s : Enter(q, s) => stage'[q] = s /\ (q # p => stage'[p] = stage[p])
      BY DEF Enter, Inv, Functions
    <2> QED BY <1>1, <2>1 DEF PassStep, Start, FetchPage, Die, Remove, WriteBack, Skip, Advance, Finish
  <1>2. ~ UNCHANGED stage
    OBVIOUS
  <1> QED BY <1>1, <1>2 DEF Next, Store, ReadToNote, WriteNote, vars, passVars

LEMMA FinishSweeps ==
    ASSUME Inv, Tracked, NEW p \in Pass, Finish(p), alone[p]
    PROVE  \A f \in listed \ refused : Owner[f] <= cutoff[p] => f \notin object /\ f \in marked
  <1>1. \A s \in Older(p) : Swept(s)
    <2>1. Len(found[p]) = 0
      BY DEF Finish
    <2> QED BY <2>1 DEF Finish, Tracked, Track, Covered, Has
  <1> SUFFICES ASSUME NEW f \in listed \ refused, Owner[f] <= cutoff[p]
               PROVE  f \notin object /\ f \in marked
    OBVIOUS
  <1>2. f \in File /\ Owner[f] \in Session
    BY RetentionAssumption DEF Inv, Table, Counters
  <1>3. Owner[f] \in Older(p)
    BY <1>2, RetentionAssumption DEF Older, Session, Inv, Good, PassGood
  <1> QED BY <1>1, <1>2, <1>3 DEF Swept, Files

-----------------------------------------------------------------------------
(***************************************************************************)
(* The theorems.                                                           *)
(***************************************************************************)
\* The lists of a pass have their types, and an entry is marked only while it
\* is in the array.
THEOREM TypeCorrect == Spec => []TypeOK
  <1>1. Inv => TypeOK
    BY InvSafe
  <1> QED BY <1>1, InitGood, NextGood, PTL DEF Spec

\* An entry says its media is cleaned only when the object is gone or could not
\* be removed, however passes overlap and die and whatever stale array is
\* written back (retention.py marks first, in memory, and writes last).
THEOREM MarksTrue == Spec => []MarkedIsGone
  <1>1. Inv => MarkedIsGone
    BY InvSafe
  <1> QED BY <1>1, InitGood, NextGood, PTL DEF Spec

\* Nothing younger than the cutoffs that were asked for is removed or marked.
THEOREM YoungKept == Spec => []YoungUntouched
  <1>1. Inv => YoungUntouched
    BY InvSafe
  <1> QED BY <1>1, InitGood, NextGood, PTL DEF Spec

\* A pass undisturbed from its first page to its last write leaves every file its
\* cutoff selects gone and marked, but those some pass failed to remove, for
\* every size of the pages and every order of the rows: it pages by offset, and
\* no row moves while nobody writes.
THEOREM PassesSweep == Spec => PassSweeps
  <1>1. ASSUME Inv, Tracked, [Next]_vars
        PROVE  \A p \in Pass : stage[p] = "sweeping" /\ stage'[p] = "done" /\ alone[p] =>
                 \A f \in listed \ refused : Owner[f] <= cutoff[p] => f \notin object /\ f \in marked
    BY <1>1, Done, FinishSweeps
  <1>2. Init => Inv /\ Tracked
    BY InitGood, TrackedInit
  <1>3. Inv /\ Tracked /\ [Next]_vars => Inv' /\ Tracked'
    BY NextGood, NextTracked
  <1> QED BY <1>1, <1>2, <1>3, PTL DEF Spec, PassSweeps
=============================================================================
