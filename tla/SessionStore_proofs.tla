------------------------- MODULE SessionStore_proofs -------------------------
(***************************************************************************)
(* Proofs about SessionStore, for every set of files and ids, and every    *)
(* number of wipes and faults.                                             *)
(***************************************************************************)
EXTENDS SessionStore, FiniteSetTheorems, SequenceTheorems, TLAPS

Stage == {"new", "failed"} \cup Storing \cup Acknowledged
Array == Seq(Entry)
IdOrNone == Id \cup {NoId}

\* The insert of the file's row in session_files is behind it.
Tabled == {"append", "reread", "rewrite"} \cup Acknowledged

\* Only a failed call leads here.
Mending == {"reread", "rewrite", "reselect", "reupdate"}

Types ==
    /\ rows \in Seq(Id) /\ used \in SUBSET Id
    /\ \A k \in 1..Len(rows) : rows[k] \in used
    /\ table \in SUBSET File /\ noted \in SUBSET table
    /\ raw \in [Id -> Array]
    /\ stage \in [File -> Stage]
    /\ session \in [File -> IdOrNone] /\ target \in [File -> IdOrNone]
    /\ copy \in [File -> Array]
    /\ wipe \in [step : {"none", "files", "row"}, kind : {"switch", "reset"}, id : IdOrNone]
    /\ unlisted \in SUBSET File /\ erased \in SUBSET File
    /\ wipes \in 0..MaxWipes /\ faults \in 0..MaxFaults

Placed ==
    \A f \in File : /\ stage[f] \in HasSession => session[f] # NoId
                    /\ stage[f] \in HasTarget => target[f] # NoId

\* The day has one row at most.
OneRow == \A j, k \in 1..Len(rows) : rows[j] = rows[k]

\* A row of session_files outlives everything but a wipe.
Recorded ==
    \A f \in File : stage[f] \in Tabled /\ f \notin unlisted \cup erased => f \in table

\* An array, or a copy of one however old, has acknowledged files only, each once.
Clean(a, st) ==
    \A k \in 1..Len(a) : /\ st[a[k].file] \in Acknowledged
                         /\ \A j \in 1..Len(a) : a[j].file = a[k].file => j = k

Unfailed ==
    faults = 0 => /\ \A i \in Id : Clean(raw[i], stage)
                  /\ \A f \in File : Clean(copy[f], stage) /\ stage[f] \notin Mending

Inv == Types /\ Placed /\ OneRow /\ Recorded /\ Unfailed

LEMMA InvNoDuplicates == Inv => NoDuplicates
  <1> SUFFICES ASSUME Inv, faults = 0, NEW i \in Id, NEW j \in DOMAIN raw[i], NEW k \in DOMAIN raw[i],
                      raw[i][j].file = raw[i][k].file
               PROVE  j = k
    BY DEF NoDuplicates
  <1>1. DOMAIN raw[i] = 1..Len(raw[i])
    BY DEF Inv, Types, Array
  <1> QED BY <1>1 DEF Inv, Unfailed, Clean

LEMMA InitGood == Init => Inv
  <1> SUFFICES ASSUME Init PROVE Inv
    OBVIOUS
  <1> USE DEF Init
  <1>1. <<>> \in Array /\ <<>> \in Seq(Id) /\ Len(<<>>) = 0
    BY DEF Array
  <1>2. Types
    BY <1>1, StoreAssumption DEF Types, Stage, IdOrNone, NoWipe
  <1>3. Placed /\ OneRow /\ Recorded /\ Unfailed
    BY <1>1 DEF Placed, OneRow, Recorded, Unfailed, Clean, HasSession, HasTarget, Acknowledged,
                Noting, Tabled, Mending
  <1> QED BY <1>2, <1>3 DEF Inv

-----------------------------------------------------------------------------
(***************************************************************************)
(* Steps of one file's handler or job.                                     *)
(***************************************************************************)
LEMMA OutcomeType ==
    ASSUME Types, NEW ok \in BOOLEAN, Outcome(ok)
    PROVE  /\ faults' \in 0..MaxFaults
           /\ faults' = 0 => faults = 0 /\ ok
  BY StoreAssumption DEF Types, Outcome

\* What a move of one stage keeps of an array.
LEMMA CleanStays ==
    ASSUME Types, NEW f \in File, NEW s \in Stage, Goto(f, s),
           stage[f] \in Acknowledged => s \in Acknowledged,
           NEW a \in Array, Clean(a, stage)
    PROVE  Clean(a, stage')
  <1>1. \A k \in 1..Len(a) : a[k].file \in File
    <2>1. \A k \in 1..Len(a) : a[k] \in Entry
      BY DEF Array
    <2> QED BY <2>1 DEF Entry
  <1> QED BY <1>1 DEF Clean, Goto, Types

\* A step that leaves the rows and the files listed as they are.
LEMMA FileStep ==
    ASSUME Inv, NEW f \in File, NEW s \in Stage, Goto(f, s),
           UNCHANGED <<rows, used, table, session, target, wipe, unlisted, erased, wipes>>,
           noted' \in SUBSET table,
           faults' \in 0..MaxFaults, faults' = 0 => faults = 0 /\ s \notin Mending,
           s \in HasSession => session[f] # NoId,
           s \in HasTarget => target[f] # NoId,
           s \in Tabled => stage[f] \in Tabled,
           stage[f] \in Acknowledged => s \in Acknowledged,
           raw' \in [Id -> Array],
           copy' \in [File -> Array],
           \A i \in Id : raw'[i] = raw[i] \/ (faults' = 0 => Clean(raw'[i], stage')),
           \A g \in File : copy'[g] = copy[g] \/ (faults' = 0 => Clean(copy'[g], stage'))
    PROVE  Inv'
  <1>1. Types'
    BY DEF Inv, Types, Goto
  <1>2. \A g \in File : g # f => stage'[g] = stage[g]
    BY DEF Inv, Types, Goto
  <1>3. stage'[f] = s
    BY DEF Inv, Types, Goto
  <1>4. Placed'
    BY <1>2, <1>3 DEF Inv, Placed
  <1>5. OneRow'
    BY DEF Inv, OneRow
  <1>6. Recorded'
    BY <1>2, <1>3 DEF Inv, Recorded
  <1>7. Unfailed'
    <2> SUFFICES ASSUME faults' = 0
                 PROVE  /\ \A i \in Id : Clean(raw'[i], stage')
                        /\ \A g \in File : Clean(copy'[g], stage') /\ stage'[g] \notin Mending
      BY DEF Unfailed
    <2>1. ASSUME NEW i \in Id PROVE Clean(raw'[i], stage')
      BY CleanStays DEF Inv, Unfailed, Types
    <2>2. ASSUME NEW g \in File PROVE Clean(copy'[g], stage')
      BY CleanStays DEF Inv, Unfailed, Types
    <2> QED BY <1>2, <1>3, <2>1, <2>2 DEF Inv, Unfailed
  <1> QED BY <1>1, <1>4, <1>5, <1>6, <1>7 DEF Inv

\* A step after which nothing but the stage and the handler's copy differ.
LEMMA QuietStep ==
    ASSUME Inv, NEW f \in File, NEW s \in Stage, Goto(f, s),
           UNCHANGED <<storeVars, session, target, wipe, histVars, wipes>>,
           faults' \in 0..MaxFaults, faults' = 0 => faults = 0 /\ s \notin Mending,
           s \in HasSession => session[f] # NoId,
           s \in HasTarget => target[f] # NoId,
           s \in Tabled => stage[f] \in Tabled,
           stage[f] \in Acknowledged => s \in Acknowledged,
           \/ copy' = copy
           \/ copy' = [copy EXCEPT ![f] = <<>>]
           \/ \E i \in Id : copy' = [copy EXCEPT ![f] = raw[i]]
    PROVE  Inv'
  <1>1. UNCHANGED <<rows, used, table, noted, raw, session, target, wipe, unlisted, erased, wipes>>
    BY DEF storeVars, histVars
  <1>2. <<>> \in Array /\ Clean(<<>>, stage')
    BY DEF Array, Clean
  <1>3. copy' \in [File -> Array]
    BY <1>2 DEF Inv, Types
  <1>4. ASSUME NEW g \in File, faults' = 0, copy'[g] # copy[g]
        PROVE  Clean(copy'[g], stage')
    <2>1. \A i \in Id : raw[i] \in Array /\ Clean(raw[i], stage)
      BY <1>4 DEF Inv, Types, Unfailed
    <2>2. \A i \in Id : Clean(raw[i], stage')
      BY <2>1, CleanStays DEF Inv
    <2>3. copy'[g] = <<>> \/ \E i \in Id : copy'[g] = raw[i]
      BY <1>4 DEF Inv, Types
    <2> QED BY <1>2, <2>2, <2>3
  <1>5. noted' \in SUBSET table /\ raw' \in [Id -> Array]
    BY <1>1 DEF Inv, Types
  <1> QED BY <1>1, <1>3, <1>4, <1>5, FileStep

\* An UPDATE of one row's array.
LEMMA WriteRawType ==
    ASSUME Types, NEW i \in IdOrNone, NEW a \in Array, WriteRaw(i, a)
    PROVE  /\ raw' \in [Id -> Array]
           /\ \A j \in Id : raw'[j] = raw[j] \/ raw'[j] = a
  BY DEF Types, WriteRaw

LEMMA ExistsType ==
    ASSUME Types, NEW i, Exists(i)
    PROVE  i \in Id
  BY DEF Types, Exists, ToSet

LEMMA ArriveStep ==
    ASSUME Inv, NEW f \in File, Arrive(f)
    PROVE  Inv'
  <1>1. "find" \in Stage /\ "find" \notin Tabled \cup HasSession \cup HasTarget \cup Mending
    BY DEF Stage, Storing, Tabled, HasSession, HasTarget, Acknowledged, Noting, Mending
  <1>2. stage[f] \notin Acknowledged
    BY DEF Arrive, Acknowledged, Noting
  <1>3. faults' = faults /\ faults' \in 0..MaxFaults
    BY DEF Arrive, Inv, Types
  <1> QED BY <1>1, <1>2, <1>3, QuietStep DEF Arrive

\* get_or_create_session returns an id.
LEMMA LocatedStep ==
    ASSUME Inv, NEW f \in File, NEW i \in Id, Located(f, i), stage[f] \in {"find", "create", "refind"},
           UNCHANGED <<table, noted, raw, wipe, histVars, wipes>>,
           rows' \in Seq(Id), used' \in SUBSET Id,
           \A k \in 1..Len(rows') : rows'[k] \in used',
           \A j, k \in 1..Len(rows') : rows'[j] = rows'[k],
           faults' \in 0..MaxFaults, faults' = 0 => faults = 0
    PROVE  Inv'
  <1> DEFINE s == IF session[f] = NoId THEN "download" ELSE "list"
  <1>1. /\ s \in Stage /\ s \notin Tabled \cup Mending \cup Acknowledged
        /\ stage[f] \notin Acknowledged \cup Tabled \cup HasSession
    BY DEF Stage, Storing, Tabled, Acknowledged, Noting, Mending, HasSession
  <1>2. Goto(f, s) /\ copy' = copy /\ i # NoId
    BY StoreAssumption DEF Located
  <1>3. /\ session'[f] # NoId
        /\ s \in HasTarget => target'[f] # NoId
        /\ \A g \in File : g # f => session'[g] = session[g] /\ target'[g] = target[g]
        /\ session' \in [File -> IdOrNone] /\ target' \in [File -> IdOrNone]
    BY <1>2 DEF Inv, Types, Located, HasTarget, IdOrNone
  <1>4. /\ stage' \in [File -> Stage] /\ stage'[f] = s
        /\ \A g \in File : g # f => stage'[g] = stage[g]
    BY <1>1, <1>2 DEF Inv, Types, Goto
  <1> HIDE DEF s
  <1>5. Types'
    BY <1>2, <1>3, <1>4 DEF Inv, Types, histVars
  <1>6. Placed'
    BY <1>1, <1>3, <1>4 DEF Inv, Placed
  <1>7. OneRow'
    BY DEF OneRow
  <1>8. Recorded'
    BY <1>1, <1>4 DEF Inv, Recorded, histVars
  <1>9. Unfailed'
    <2> SUFFICES ASSUME faults' = 0
                 PROVE  /\ \A j \in Id : Clean(raw'[j], stage')
                        /\ \A g \in File : Clean(copy'[g], stage') /\ stage'[g] \notin Mending
      BY DEF Unfailed
    <2>1. ASSUME NEW j \in Id PROVE Clean(raw'[j], stage')
      BY <1>1, <1>2, CleanStays DEF Inv, Unfailed, Types
    <2>2. ASSUME NEW g \in File PROVE Clean(copy'[g], stage')
      BY <1>1, <1>2, CleanStays DEF Inv, Unfailed, Types
    <2> QED BY <1>1, <1>4, <2>1, <2>2 DEF Inv, Unfailed
  <1> QED BY <1>5, <1>6, <1>7, <1>8, <1>9 DEF Inv

LEMMA FindStep ==
    ASSUME Inv, NEW f \in File, NEW ok \in BOOLEAN, Find(f, ok)
    PROVE  Inv'
  <1>1. faults' \in 0..MaxFaults /\ (faults' = 0 => faults = 0)
    BY OutcomeType DEF Inv, Find
  <1>2. CASE ok /\ rows # <<>>
    <2>1. Head(rows) \in Id /\ Located(f, Head(rows))
      BY <1>2 DEF Inv, Types, Find
    <2>2. UNCHANGED <<rows, used, table, noted, raw, wipe, histVars, wipes>> /\ stage[f] = "find"
      BY DEF Find, storeVars
    <2> QED BY <1>1, <2>1, <2>2, LocatedStep DEF Inv, Types, OneRow
  <1>3. CASE ~ (ok /\ rows # <<>>)
    <2>1. "create" \in Stage /\ "create" \notin Tabled \cup HasSession \cup HasTarget \cup Mending
      BY DEF Stage, Storing, Tabled, HasSession, HasTarget, Acknowledged, Noting, Mending
    <2>2. stage[f] \notin Acknowledged /\ Goto(f, "create") /\ copy' = copy
      BY <1>3 DEF Find, Acknowledged, Noting
    <2>3. UNCHANGED <<storeVars, session, target, wipe, histVars, wipes>>
      BY <1>3 DEF Find
    <2> QED BY <1>1, <2>1, <2>2, <2>3, QuietStep
  <1> QED BY <1>2, <1>3

LEMMA CreateBreaksStep ==
    ASSUME Inv, NEW f \in File, CreateBreaks(f)
    PROVE  Inv'
  <1>1. PICK i \in Id \ used : rows' = Append(rows, i) /\ used' = used \cup {i}
    BY DEF CreateBreaks
  <1>2. rows = <<>>
    BY DEF CreateBreaks, Taken
  <1>3. rows' = <<i>>
    BY <1>1, <1>2
  <1>4. Len(rows') = 1 /\ rows'[1] = i /\ rows' \in Seq(Id)
    BY <1>3
  <1>5. used' \in SUBSET Id
    BY <1>1 DEF Inv, Types
  <1>6. faults' \in 0..MaxFaults /\ faults' # 0
    BY OutcomeType DEF CreateBreaks, Inv
  <1>7. "failed" \in Stage /\ "failed" \notin Tabled \cup HasSession \cup HasTarget
    BY DEF Stage, Storing, Tabled, HasSession, HasTarget, Acknowledged, Noting
  <1>8. UNCHANGED <<table, noted, raw, session, target, copy, wipe, unlisted, erased, wipes>>
    BY DEF CreateBreaks, histVars
  <1>9. /\ stage' \in [File -> Stage] /\ stage'[f] = "failed"
        /\ \A g \in File : g # f => stage'[g] = stage[g]
    BY <1>7 DEF CreateBreaks, Inv, Types, Goto
  <1>10. Types'
    BY <1>1, <1>4, <1>5, <1>6, <1>8, <1>9 DEF Inv, Types
  <1>11. Placed'
    BY <1>7, <1>8, <1>9 DEF Inv, Placed
  <1>12. OneRow'
    BY <1>4 DEF OneRow
  <1>13. Recorded'
    BY <1>7, <1>8, <1>9 DEF Inv, Recorded
  <1>14. Unfailed'
    BY <1>6 DEF Unfailed
  <1> QED BY <1>10, <1>11, <1>12, <1>13, <1>14 DEF Inv

LEMMA CreateStep ==
    ASSUME Inv, NEW f \in File, Create(f)
    PROVE  Inv'
  <1>1. PICK i \in Id \ used : rows' = Append(rows, i) /\ used' = used \cup {i} /\ Located(f, i)
    BY DEF Create
  <1>2. rows = <<>>
    BY DEF Create, Taken
  <1>3. rows' = <<i>>
    BY <1>1, <1>2
  <1>4. Len(rows') = 1 /\ rows'[1] = i /\ rows' \in Seq(Id)
    BY <1>3
  <1>5. used' \in SUBSET Id
    BY <1>1 DEF Inv, Types
  <1>6. faults' = faults /\ faults' \in 0..MaxFaults
    BY DEF Create, Inv, Types
  <1>7. stage[f] = "create" /\ UNCHANGED <<table, noted, raw, wipe, histVars, wipes>>
    BY DEF Create
  <1> QED BY <1>1, <1>4, <1>5, <1>6, <1>7, LocatedStep

LEMMA LoseRaceStep ==
    ASSUME Inv, NEW f \in File, LoseRace(f)
    PROVE  Inv'
  <1>1. "refind" \in Stage /\ "refind" \notin Tabled \cup HasSession \cup HasTarget \cup Mending
    BY DEF Stage, Storing, Tabled, HasSession, HasTarget, Acknowledged, Noting, Mending
  <1>2. stage[f] \notin Acknowledged
    BY DEF LoseRace, Acknowledged, Noting
  <1>3. faults' = faults /\ faults' \in 0..MaxFaults
    BY DEF LoseRace, Inv, Types
  <1> QED BY <1>1, <1>2, <1>3, QuietStep DEF LoseRace

LEMMA RefindStep ==
    ASSUME Inv, NEW f \in File, Refind(f)
    PROVE  Inv'
  <1>1. faults' = faults /\ faults' \in 0..MaxFaults /\ stage[f] = "refind"
    BY DEF Refind, Inv, Types
  <1>2. CASE rows # <<>>
    <2>1. Head(rows) \in Id /\ Located(f, Head(rows))
      BY <1>2 DEF Inv, Types, Refind
    <2>2. UNCHANGED <<rows, used, table, noted, raw, wipe, histVars, wipes>>
      BY DEF Refind, storeVars
    <2> QED BY <1>1, <2>1, <2>2, LocatedStep DEF Inv, Types, OneRow
  <1>3. CASE rows = <<>>
    <2>1. "failed" \in Stage /\ "failed" \notin Tabled \cup HasSession \cup HasTarget \cup Mending
      BY DEF Stage, Storing, Tabled, HasSession, HasTarget, Acknowledged, Noting, Mending
    <2>2. stage[f] \notin Acknowledged /\ Goto(f, "failed") /\ copy' = copy
      BY <1>1, <1>3 DEF Refind, Acknowledged, Noting
    <2>3. UNCHANGED <<storeVars, session, target, wipe, histVars, wipes>>
      BY <1>3 DEF Refind
    <2> QED BY <1>1, <2>1, <2>2, <2>3, QuietStep
  <1> QED BY <1>2, <1>3

LEMMA DownloadStep ==
    ASSUME Inv, NEW f \in File, Download(f)
    PROVE  Inv'
  <1>1. "find" \in Stage /\ "find" \notin Tabled \cup HasSession \cup HasTarget \cup Mending
    BY DEF Stage, Storing, Tabled, HasSession, HasTarget, Acknowledged, Noting, Mending
  <1>2. stage[f] \notin Acknowledged
    BY DEF Download, Acknowledged, Noting
  <1>3. faults' = faults /\ faults' \in 0..MaxFaults
    BY DEF Download, Inv, Types
  <1> QED BY <1>1, <1>2, <1>3, QuietStep DEF Download

-----------------------------------------------------------------------------
(***************************************************************************)
(* Storing a file, and its annotation.                                     *)
(***************************************************************************)
LEMMA ListFileStep ==
    ASSUME Inv, NEW f \in File, NEW ok \in BOOLEAN, ListFile(f, ok)
    PROVE  Inv'
  <1>1. /\ "append" \in Stage /\ "append" \notin Mending \cup Acknowledged
        /\ stage[f] = "list" /\ "list" \notin Acknowledged
        /\ "list" \in HasSession \cap HasTarget
    BY DEF ListFile, Stage, Storing, Tabled, HasSession, HasTarget, Acknowledged, Noting, Mending
  <1>2. Goto(f, "append") /\ faults' \in 0..MaxFaults /\ (faults' = 0 => faults = 0)
    BY OutcomeType DEF Inv, ListFile
  <1>3. /\ stage' \in [File -> Stage] /\ stage'[f] = "append"
        /\ \A g \in File : g # f => stage'[g] = stage[g]
    BY <1>1, <1>2 DEF Inv, Types, Goto
  <1>4. /\ table \subseteq table' /\ table' \in SUBSET File
        /\ unlisted \subseteq unlisted' /\ unlisted' \in SUBSET File
        /\ f \in table' \cup unlisted'
    BY DEF Inv, Types, ListFile
  <1>5. UNCHANGED <<rows, used, noted, raw, session, target, copy, wipe, erased, wipes>>
    BY DEF ListFile
  <1>6. Types'
    BY <1>2, <1>3, <1>4, <1>5 DEF Inv, Types
  <1>7. Placed'
    BY <1>1, <1>3, <1>5 DEF Inv, Placed
  <1>8. OneRow'
    BY <1>5 DEF Inv, OneRow
  <1>9. Recorded'
    BY <1>3, <1>4, <1>5 DEF Inv, Recorded
  <1>10. Unfailed'
    <2> SUFFICES ASSUME faults' = 0
                 PROVE  /\ \A j \in Id : Clean(raw[j], stage')
                        /\ \A g \in File : Clean(copy[g], stage') /\ stage'[g] \notin Mending
      BY <1>5 DEF Unfailed
    <2>1. ASSUME NEW j \in Id PROVE Clean(raw[j], stage')
      BY <1>1, <1>2, CleanStays DEF Inv, Unfailed, Types
    <2>2. ASSUME NEW g \in File PROVE Clean(copy[g], stage')
      BY <1>1, <1>2, CleanStays DEF Inv, Unfailed, Types
    <2> QED BY <1>1, <1>2, <1>3, <2>1, <2>2 DEF Inv, Unfailed
  <1> QED BY <1>6, <1>7, <1>8, <1>9, <1>10 DEF Inv

LEMMA AppendType ==
    ASSUME NEW a \in Array, NEW f \in File
    PROVE  Append(a, New(f)) \in Array
  BY DEF Array, Entry, New

\* A file on its way to the array is in it and in its copies nowhere yet.
LEMMA AppendClean ==
    ASSUME Types, NEW f \in File, NEW a \in Array, Clean(a, stage),
           stage[f] \notin Acknowledged, Goto(f, "acked")
    PROVE  Clean(Append(a, New(f)), stage')
  <1>1. \A k \in 1..Len(a) : a[k].file \in File /\ a[k].file # f
    <2>1. \A k \in 1..Len(a) : a[k] \in Entry
      BY DEF Array
    <2> QED BY <2>1 DEF Clean, Entry
  <1>2. stage'[f] \in Acknowledged /\ \A g \in File : g # f => stage'[g] = stage[g]
    BY DEF Types, Goto, Acknowledged
  <1> DEFINE b == Append(a, New(f))
  <1>3. /\ Len(b) = Len(a) + 1 /\ Len(a) \in Nat
        /\ b[Len(a) + 1].file = f
        /\ \A k \in 1..Len(a) : b[k] = a[k]
    BY DEF Array, New
  <1> HIDE DEF b
  <1>4. \A k \in 1..Len(b) : k \in 1..Len(a) \/ k = Len(a) + 1
    BY <1>3
  <1>5. Clean(b, stage')
    <2> SUFFICES ASSUME NEW k \in 1..Len(b)
                 PROVE  /\ stage'[b[k].file] \in Acknowledged
                        /\ \A j \in 1..Len(b) : b[j].file = b[k].file => j = k
      BY DEF Clean
    <2>1. stage'[b[k].file] \in Acknowledged
      BY <1>1, <1>2, <1>3, <1>4 DEF Clean
    <2>2. ASSUME NEW j \in 1..Len(b), b[j].file = b[k].file
          PROVE  j = k
      <3>1. CASE j \in 1..Len(a) /\ k \in 1..Len(a)
        BY <1>3, <2>2, <3>1 DEF Clean
      <3>2. CASE ~ (j \in 1..Len(a) /\ k \in 1..Len(a))
        BY <1>1, <1>3, <1>4, <2>2, <3>2
      <3> QED BY <3>1, <3>2
    <2> QED BY <2>1, <2>2
  <1> QED BY <1>5 DEF b

LEMMA AppendFileStep ==
    ASSUME Inv, NEW f \in File, AppendFile(f)
    PROVE  Inv'
  <1>1. /\ "acked" \in Stage /\ "acked" \notin Mending
        /\ stage[f] = "append" /\ stage[f] \in Tabled /\ stage[f] \notin Acknowledged
        /\ "append" \in HasSession \cap HasTarget
    BY DEF AppendFile, Stage, Storing, Tabled, HasSession, HasTarget, Acknowledged, Noting, Mending
  <1>2. Goto(f, "acked") /\ target[f] \in IdOrNone /\ copy' \in [File -> Array] /\ copy' = copy
    BY DEF AppendFile, Inv, Types
  <1>3. UNCHANGED <<rows, used, table, session, target, wipe, unlisted, erased, wipes>>
    BY DEF AppendFile, histVars
  <1>4. noted' \in SUBSET table /\ faults' \in 0..MaxFaults /\ faults' = faults
    BY DEF AppendFile, Inv, Types
  <1>5. /\ raw' \in [Id -> Array]
        /\ \A i \in Id : raw'[i] = raw[i] \/ (faults' = 0 => Clean(raw'[i], stage'))
    <2>1. CASE Exists(target[f])
      <3>1. target[f] \in Id
        BY <2>1, ExistsType DEF Inv
      <3>2. raw[target[f]] \in Array /\ Append(raw[target[f]], New(f)) \in Array
        BY <3>1, AppendType DEF Inv, Types
      <3>3. faults = 0 => Clean(Append(raw[target[f]], New(f)), stage')
        BY <1>1, <1>2, <3>1, <3>2, AppendClean DEF Inv, Unfailed
      <3> QED BY <1>2, <1>4, <3>2, <3>3, WriteRawType DEF Inv, AppendFile
    <2>2. CASE ~Exists(target[f])
      BY <2>2 DEF AppendFile, WriteRaw, Inv, Types
    <2> QED BY <2>1, <2>2
  <1>6. session[f] # NoId /\ target[f] # NoId
    BY <1>1 DEF Inv, Placed
  <1> QED BY <1>1, <1>2, <1>3, <1>4, <1>5, <1>6, FileStep

LEMMA AppendBreaksStep ==
    ASSUME Inv, NEW f \in File, AppendBreaks(f)
    PROVE  Inv'
  <1>1. /\ "reread" \in Stage /\ "reread" \notin Acknowledged
        /\ stage[f] = "append" /\ stage[f] \in Tabled /\ stage[f] \notin Acknowledged
        /\ "append" \in HasSession \cap HasTarget
    BY DEF AppendBreaks, Stage, Storing, Tabled, HasSession, HasTarget, Acknowledged, Noting, Mending
  <1>2. Goto(f, "reread") /\ target[f] \in IdOrNone /\ copy' \in [File -> Array] /\ copy' = copy
    BY DEF AppendBreaks, Inv, Types
  <1>3. UNCHANGED <<rows, used, table, session, target, wipe, unlisted, erased, wipes>>
    BY DEF AppendBreaks, histVars
  <1>4. noted' \in SUBSET table /\ faults' \in 0..MaxFaults /\ faults' # 0
    BY OutcomeType DEF AppendBreaks, Inv, Types
  <1>5. raw' \in [Id -> Array]
    <2>1. CASE Exists(target[f])
      <3>1. target[f] \in Id
        BY <2>1, ExistsType DEF Inv
      <3>2. raw[target[f]] \in Array /\ Append(raw[target[f]], New(f)) \in Array
        BY <3>1, AppendType DEF Inv, Types
      <3> QED BY <1>2, <3>2, WriteRawType DEF Inv, Types, AppendBreaks
    <2>2. CASE ~Exists(target[f])
      BY <2>2 DEF AppendBreaks, WriteRaw, Inv, Types
    <2> QED BY <2>1, <2>2
  <1>6. session[f] # NoId /\ target[f] # NoId
    BY <1>1 DEF Inv, Placed
  <1> QED BY <1>1, <1>2, <1>3, <1>4, <1>5, <1>6, FileStep

\* The fallback of a failed call: it is reached with faults only.
LEMMA RereadStep ==
    ASSUME Inv, NEW f \in File, Reread(f)
    PROVE  Inv'
  <1> DEFINE s == IF Exists(target[f]) THEN "rewrite" ELSE "failed"
  <1>1. /\ s \in Stage /\ stage[f] = "reread" /\ stage[f] \notin Acknowledged
        /\ s \in Tabled => stage[f] \in Tabled
        /\ stage[f] \in HasSession \cap HasTarget \cap Mending
    BY DEF Reread, Stage, Storing, Tabled, HasSession, HasTarget, Acknowledged, Noting, Mending
  <1>2. Goto(f, s)
    BY DEF Reread
  <1> HIDE DEF s
  <1>3. faults' = faults /\ faults' \in 0..MaxFaults /\ faults # 0
    BY <1>1 DEF Reread, Inv, Types, Unfailed
  <1>4. copy' = copy \/ \E i \in Id : copy' = [copy EXCEPT ![f] = raw[i]]
    BY ExistsType DEF Reread, Inv
  <1>5. session[f] # NoId /\ target[f] # NoId
    BY <1>1 DEF Inv, Placed
  <1> QED BY <1>1, <1>2, <1>3, <1>4, <1>5, QuietStep DEF Reread

LEMMA RewriteStep ==
    ASSUME Inv, NEW f \in File, NEW ok \in BOOLEAN, Rewrite(f, ok)
    PROVE  Inv'
  <1> DEFINE s == IF ok THEN "acked" ELSE "failed"
  <1>1. /\ s \in Stage
        /\ stage[f] = "rewrite" /\ stage[f] \in Tabled /\ stage[f] \notin Acknowledged
        /\ stage[f] \in HasSession \cap HasTarget \cap Mending
    BY DEF Rewrite, Stage, Storing, Tabled, HasSession, HasTarget, Acknowledged, Noting, Mending
  <1>2. Goto(f, s) /\ target[f] \in IdOrNone
    BY DEF Rewrite, Inv, Types
  <1> HIDE DEF s
  <1>3. UNCHANGED <<rows, used, table, session, target, wipe, unlisted, erased, wipes>>
    BY DEF Rewrite
  <1>4. noted' \in SUBSET table /\ faults' \in 0..MaxFaults /\ faults' # 0
    <2>1. faults' \in 0..MaxFaults /\ (faults' = 0 => faults = 0)
      BY OutcomeType DEF Rewrite, Inv
    <2> QED BY <1>1, <2>1 DEF Rewrite, Inv, Types, Unfailed
  <1>5. raw' \in [Id -> Array]
    <2>1. copy[f] \in Array /\ Append(copy[f], New(f)) \in Array
      BY AppendType DEF Inv, Types
    <2> QED BY <1>2, <2>1, WriteRawType DEF Inv, Rewrite, WriteBack
  <1>6. copy' \in [File -> Array]
    <2>1. <<>> \in Array
      BY DEF Array
    <2> QED BY <2>1 DEF Rewrite, Inv, Types
  <1>7. session[f] # NoId /\ target[f] # NoId
    BY <1>1 DEF Inv, Placed
  <1> QED BY <1>1, <1>2, <1>3, <1>4, <1>5, <1>6, <1>7, FileStep

\* After the acknowledgement a step of the job goes on to another stage of it.
LEMMA JobStays ==
    ASSUME Inv, NEW f \in File, stage[f] \in Acknowledged
    PROVE  session[f] # NoId /\ target[f] # NoId /\ stage[f] \in Tabled
  BY DEF Inv, Placed, HasSession, HasTarget, Tabled, Acknowledged, Noting

LEMMA PreprocessStep ==
    ASSUME Inv, NEW f \in File, NEW says \in BOOLEAN, Preprocess(f, says)
    PROVE  Inv'
  <1> DEFINE s == IF says THEN "annotate" ELSE "done"
  <1>1. s \in Stage /\ s \in Acknowledged /\ s \notin Mending /\ stage[f] \in Acknowledged
    BY DEF Preprocess, Stage, Storing, Tabled, HasSession, HasTarget, Acknowledged, Noting, Mending
  <1>2. Goto(f, s)
    BY DEF Preprocess
  <1> HIDE DEF s
  <1>3. faults' = faults /\ faults' \in 0..MaxFaults
    BY DEF Preprocess, Inv, Types
  <1> QED BY <1>1, <1>2, <1>3, JobStays, QuietStep DEF Preprocess

LEMMA AnnotateRowStep ==
    ASSUME Inv, NEW f \in File, NEW ok \in BOOLEAN, AnnotateRow(f, ok)
    PROVE  Inv'
  <1>1. "select" \in Stage /\ "select" \in Acknowledged /\ "select" \notin Mending /\ stage[f] \in Acknowledged
    BY DEF AnnotateRow, Stage, Storing, Tabled, HasSession, HasTarget, Acknowledged, Noting, Mending
  <1>2. Goto(f, "select") /\ faults' \in 0..MaxFaults /\ (faults' = 0 => faults = 0)
    BY OutcomeType DEF AnnotateRow, Inv
  <1>3. /\ UNCHANGED <<rows, used, table, session, target, wipe, unlisted, erased, wipes>>
        /\ noted' \in SUBSET table /\ raw' = raw /\ copy' = copy
        /\ raw' \in [Id -> Array] /\ copy' \in [File -> Array]
    BY DEF AnnotateRow, histVars, Inv, Types
  <1> QED BY <1>1, <1>2, <1>3, JobStays, FileStep

LEMMA SelectRawStep ==
    ASSUME Inv, NEW f \in File, SelectRaw(f)
    PROVE  Inv'
  <1> DEFINE s == IF Exists(session[f]) THEN "update" ELSE "done"
  <1>1. s \in Stage /\ s \in Acknowledged /\ s \notin Mending /\ stage[f] \in Acknowledged
    BY DEF SelectRaw, Stage, Storing, Tabled, HasSession, HasTarget, Acknowledged, Noting, Mending
  <1>2. Goto(f, s)
    BY DEF SelectRaw
  <1> HIDE DEF s
  <1>3. faults' = faults /\ faults' \in 0..MaxFaults
    BY DEF SelectRaw, Inv, Types
  <1>4. copy' = copy \/ \E i \in Id : copy' = [copy EXCEPT ![f] = raw[i]]
    BY ExistsType DEF SelectRaw, Inv
  <1> QED BY <1>1, <1>2, <1>3, <1>4, JobStays, QuietStep DEF SelectRaw

\* An annotation changes no file name.
LEMMA AnnotatedClean ==
    ASSUME NEW a \in Array, NEW f \in File
    PROVE  /\ Annotated(a, f) \in Array
           /\ \A st : Clean(a, st) => Clean(Annotated(a, f), st)
  <1> DEFINE b == Annotated(a, f)
  <1>1. DOMAIN a = 1..Len(a) /\ Len(a) \in Nat /\ \A k \in 1..Len(a) : a[k] \in Entry
    BY DEF Array
  <1>2. \A k \in 1..Len(a) : b[k] \in Entry /\ b[k].file = a[k].file
    BY <1>1 DEF Annotated, Entry
  <1>3. b \in [1..Len(a) -> Entry]
    BY <1>1, <1>2 DEF Annotated
  <1>4. b \in Array /\ Len(b) = Len(a)
    BY <1>1, <1>3 DEF Array
  <1> HIDE DEF b
  <1>5. ASSUME NEW st, Clean(a, st) PROVE Clean(b, st)
    BY <1>2, <1>4, <1>5 DEF Clean
  <1> QED BY <1>4, <1>5 DEF b

\* The array is written back whole, as it was read.
LEMMA WriteBackType ==
    ASSUME Inv, NEW f \in File, WriteBack(f, session[f], Annotated(copy[f], f)) \/ UNCHANGED <<raw, rewrote>>
    PROVE  /\ copy[f] \in Array /\ Annotated(copy[f], f) \in Array
           /\ raw' \in [Id -> Array]
           /\ \A i \in Id : raw'[i] = raw[i] \/ raw'[i] = Annotated(copy[f], f)
  <1>1. copy[f] \in Array /\ Annotated(copy[f], f) \in Array /\ session[f] \in IdOrNone
    BY AnnotatedClean DEF Inv, Types
  <1> QED BY <1>1, WriteRawType DEF Inv, Types, WriteBack

LEMMA WriteBackStep ==
    ASSUME Inv, NEW f \in File, stage[f] \in Acknowledged, Goto(f, "done"),
           WriteBack(f, session[f], Annotated(copy[f], f)) \/ UNCHANGED <<raw, rewrote>>,
           copy' = [copy EXCEPT ![f] = <<>>],
           UNCHANGED <<rows, used, table, noted, session, target, wipe, unlisted, erased, wipes, faults>>
    PROVE  Inv'
  <1>1. "done" \in Stage /\ "done" \in Acknowledged /\ "done" \notin Mending
    BY DEF Stage, Storing, Acknowledged, Noting, Mending
  <1>2. /\ copy[f] \in Array /\ Annotated(copy[f], f) \in Array
        /\ raw' \in [Id -> Array]
        /\ \A i \in Id : raw'[i] = raw[i] \/ raw'[i] = Annotated(copy[f], f)
    BY WriteBackType
  <1>3. faults = 0 => Clean(Annotated(copy[f], f), stage')
    BY <1>1, <1>2, AnnotatedClean, CleanStays DEF Inv, Unfailed
  <1>4. <<>> \in Array /\ Clean(<<>>, stage')
    BY DEF Array, Clean
  <1>5. /\ copy' \in [File -> Array]
        /\ \A g \in File : copy'[g] = copy[g] \/ Clean(copy'[g], stage')
    BY <1>4 DEF Inv, Types
  <1>6. noted' \in SUBSET table /\ faults' \in 0..MaxFaults /\ faults' = faults
    BY DEF Inv, Types
  <1> QED BY <1>1, <1>2, <1>3, <1>5, <1>6, JobStays, FileStep

LEMMA UpdateRawStep ==
    ASSUME Inv, NEW f \in File, UpdateRaw(f)
    PROVE  Inv'
  <1>1. stage[f] \in Acknowledged
    BY DEF UpdateRaw, Acknowledged, Noting
  <1> QED BY <1>1, WriteBackStep DEF UpdateRaw, WriteAnnotated

LEMMA ReupdateStep ==
    ASSUME Inv, NEW f \in File, Reupdate(f)
    PROVE  Inv'
  <1>1. stage[f] \in Acknowledged
    BY DEF Reupdate, Acknowledged, Noting
  <1> QED BY <1>1, WriteBackStep DEF Reupdate

LEMMA UpdateBreaksStep ==
    ASSUME Inv, NEW f \in File, UpdateBreaks(f)
    PROVE  Inv'
  <1>1. "reselect" \in Stage /\ "reselect" \in Acknowledged /\ stage[f] \in Acknowledged
    BY DEF UpdateBreaks, Stage, Storing, Tabled, HasSession, HasTarget, Acknowledged, Noting, Mending
  <1>2. faults' \in 0..MaxFaults /\ faults' # 0
    BY OutcomeType DEF UpdateBreaks, Inv
  <1>3. raw' \in [Id -> Array]
    BY WriteBackType DEF UpdateBreaks, WriteAnnotated
  <1>4. copy' \in [File -> Array]
    <2>1. <<>> \in Array
      BY DEF Array
    <2> QED BY <2>1 DEF UpdateBreaks, Inv, Types
  <1>5. /\ UNCHANGED <<rows, used, table, session, target, wipe, unlisted, erased, wipes>>
        /\ noted' \in SUBSET table /\ Goto(f, "reselect")
    BY DEF UpdateBreaks, Inv, Types
  <1> QED BY <1>1, <1>2, <1>3, <1>4, <1>5, JobStays, FileStep

LEMMA ReselectStep ==
    ASSUME Inv, NEW f \in File, Reselect(f)
    PROVE  Inv'
  <1> DEFINE s == IF Exists(session[f]) THEN "reupdate" ELSE "done"
  <1>1. s \in Stage /\ s \in Acknowledged /\ stage[f] \in Acknowledged \cap Mending
    BY DEF Reselect, Stage, Storing, Tabled, HasSession, HasTarget, Acknowledged, Noting, Mending
  <1>2. Goto(f, s)
    BY DEF Reselect
  <1> HIDE DEF s
  <1>3. faults' = faults /\ faults' \in 0..MaxFaults /\ faults # 0
    BY <1>1 DEF Reselect, Inv, Types, Unfailed
  <1>4. copy' = copy \/ \E i \in Id : copy' = [copy EXCEPT ![f] = raw[i]]
    BY ExistsType DEF Reselect, Inv
  <1> QED BY <1>1, <1>2, <1>3, <1>4, JobStays, QuietStep DEF Reselect

LEMMA LostStep ==
    ASSUME Inv, NEW f \in File, Lost(f)
    PROVE  Inv'
  <1>1. faults' \in 0..MaxFaults /\ faults' # 0
    BY OutcomeType DEF Lost, Inv
  <1>2. CASE stage[f] \in Storing
    <2>1. /\ "failed" \in Stage /\ "failed" \notin HasSession \cup HasTarget \cup Tabled
          /\ stage[f] \notin Acknowledged
      BY <1>2 DEF Stage, Storing, Tabled, HasSession, HasTarget, Acknowledged, Noting
    <2>2. Goto(f, "failed") /\ copy' = [copy EXCEPT ![f] = <<>>]
      BY <1>2 DEF Lost
    <2> QED BY <1>1, <2>1, <2>2, QuietStep DEF Lost
  <1>3. CASE stage[f] \notin Storing
    <2>1. "done" \in Stage /\ "done" \in Acknowledged /\ stage[f] \in Acknowledged
      BY <1>3 DEF Lost, Stage, Acknowledged
    <2>2. Goto(f, "done") /\ copy' = [copy EXCEPT ![f] = <<>>]
      BY <1>3 DEF Lost
    <2> QED BY <1>1, <2>1, <2>2, JobStays, QuietStep DEF Lost
  <1> QED BY <1>2, <1>3

-----------------------------------------------------------------------------
(***************************************************************************)
(* Switches and resets.                                                    *)
(***************************************************************************)
\* A step of a wipe: what it takes from the table goes into the history.
LEMMA WipeKeeps ==
    ASSUME Inv, UNCHANGED <<stage, session, target, copy, used, unlisted>>,
           rows' \in Seq(Id),
           \A k \in 1..Len(rows') : \E j \in 1..Len(rows) : rows'[k] = rows[j],
           table' \in SUBSET table, noted' \in SUBSET table',
           \A f \in File : f \in table \ table' => f \in erased',
           erased \subseteq erased', erased' \in SUBSET File,
           raw' \in [Id -> Array],
           \A i \in Id : raw'[i] = raw[i] \/ raw'[i] = <<>>,
           wipe' \in [step : {"none", "files", "row"}, kind : {"switch", "reset"}, id : IdOrNone],
           wipes' \in 0..MaxWipes,
           faults' \in 0..MaxFaults, faults' = 0 => faults = 0
    PROVE  Inv'
  <1>1. Types'
    <2>1. \A k \in 1..Len(rows') : rows'[k] \in used'
      BY DEF Inv, Types
    <2> QED BY <2>1 DEF Inv, Types
  <1>2. Placed'
    BY DEF Inv, Placed
  <1>3. OneRow'
    BY DEF Inv, OneRow
  <1>4. Recorded'
    BY DEF Inv, Recorded
  <1>5. Unfailed'
    <2>1. Clean(<<>>, stage)
      BY DEF Clean
    <2> QED BY <2>1 DEF Inv, Unfailed
  <1> QED BY <1>1, <1>2, <1>3, <1>4, <1>5 DEF Inv

LEMMA StartWipeStep ==
    ASSUME Inv, NEW kind \in {"switch", "reset"}, StartWipe(kind)
    PROVE  Inv'
  <1>1. Head(rows) \in IdOrNone
    BY DEF StartWipe, Inv, Types, IdOrNone
  <1>2. wipe' \in [step : {"none", "files", "row"}, kind : {"switch", "reset"}, id : IdOrNone]
    BY <1>1 DEF StartWipe
  <1>3. wipes' \in 0..MaxWipes /\ faults' = faults /\ faults' \in 0..MaxFaults
    BY StoreAssumption DEF StartWipe, Inv, Types
  <1>4. UNCHANGED <<rows, used, table, noted, raw, stage, session, target, copy, unlisted, erased>>
    BY DEF StartWipe, storeVars, fileVars, histVars
  <1> QED BY <1>2, <1>3, <1>4, WipeKeeps DEF Inv, Types

LEMMA WipeFilesStep ==
    ASSUME Inv, NEW done \in BOOLEAN, NEW ok \in BOOLEAN, WipeFiles(done, ok)
    PROVE  Inv'
  <1>1. faults' \in 0..MaxFaults /\ (faults' = 0 => faults = 0)
    BY OutcomeType DEF WipeFiles, Inv
  <1>2. wipe' \in [step : {"none", "files", "row"}, kind : {"switch", "reset"}, id : IdOrNone]
    <2>1. [wipe EXCEPT !.step = "row"] \in
              [step : {"none", "files", "row"}, kind : {"switch", "reset"}, id : IdOrNone]
      BY DEF Inv, Types
    <2>2. NoWipe \in [step : {"none", "files", "row"}, kind : {"switch", "reset"}, id : IdOrNone]
      BY DEF NoWipe, IdOrNone
    <2> QED BY <2>1, <2>2 DEF WipeFiles
  <1>3. /\ table' \in SUBSET table /\ noted' \in SUBSET table'
        /\ \A f \in File : f \in table \ table' => f \in erased'
        /\ erased \subseteq erased' /\ erased' \in SUBSET File
    BY DEF WipeFiles, Unlist, Listed, Inv, Types
  <1>4. UNCHANGED <<rows, used, raw, stage, session, target, copy, unlisted, wipes>>
    BY DEF WipeFiles, fileVars
  <1> QED BY <1>1, <1>2, <1>3, <1>4, WipeKeeps DEF Inv, Types

LEMMA EmptyRawStep ==
    ASSUME Inv, EmptyRaw
    PROVE  Inv'
  <1>1. NoWipe \in [step : {"none", "files", "row"}, kind : {"switch", "reset"}, id : IdOrNone]
    BY DEF NoWipe, IdOrNone
  <1>2. raw' \in [Id -> Array] /\ \A i \in Id : raw'[i] = raw[i] \/ raw'[i] = <<>>
    <2>1. <<>> \in Array /\ wipe.id \in IdOrNone
      BY DEF Array, Inv, Types
    <2> QED BY <2>1, WriteRawType DEF Inv, EmptyRaw
  <1>3. UNCHANGED <<rows, used, table, noted, stage, session, target, copy, unlisted, erased, wipes, faults>>
    BY DEF EmptyRaw, fileVars, histVars
  <1>4. wipe' = NoWipe
    BY DEF EmptyRaw
  <1> QED BY <1>1, <1>2, <1>3, <1>4, WipeKeeps DEF Inv, Types

\* A reset's DELETE brings no row.
LEMMA DropRowKeeps ==
    ASSUME Inv, DropRow
    PROVE  rows' \in Seq(Id) /\ \A k \in 1..Len(rows') : \E j \in 1..Len(rows) : rows'[k] = rows[j]
  <1>1. PICK k \in 1..Len(rows) : rows' = RemoveAt(rows, k)
    BY DEF DropRow
  <1>2. rows \in Seq(Id) /\ Len(rows) \in Nat /\ \A j \in 1..Len(rows) : rows[j] \in Id
    BY DEF Inv, Types
  <1> DEFINE before == SubSeq(rows, 1, k - 1)
             after == SubSeq(rows, k + 1, Len(rows))
  <1>3. /\ before \in Seq(Id) /\ Len(before) = k - 1
        /\ \A j \in 1..(k - 1) : before[j] = rows[j]
    <2>1. \A j \in 1..(k - 1) : rows[j] \in Id
      BY <1>2
    <2> QED BY <1>2, <2>1, SubSeqProperties
  <1>4. /\ after \in Seq(Id) /\ Len(after) = Len(rows) - k
        /\ \A j \in 1..(Len(rows) - k) : after[j] = rows[k + j]
    <2>1. \A j \in (k + 1)..Len(rows) : rows[j] \in Id
      BY <1>2
    <2> QED BY <1>2, <2>1, SubSeqProperties
  <1>5. rows' = before \o after
    BY <1>1 DEF RemoveAt
  <1> HIDE DEF before, after
  <1>6. /\ rows' \in Seq(Id) /\ Len(rows') = Len(before) + Len(after)
        /\ \A j \in 1..(Len(before) + Len(after)) :
              rows'[j] = IF j <= Len(before) THEN before[j] ELSE after[j - Len(before)]
    BY <1>3, <1>4, <1>5, ConcatProperties
  <1>7. ASSUME NEW j \in 1..Len(rows')
        PROVE  \E i \in 1..Len(rows) : rows'[j] = rows[i]
    <2>1. CASE j <= Len(before)
      <3>1. j \in 1..(k - 1) /\ j \in 1..Len(rows) /\ rows'[j] = before[j]
        BY <1>2, <1>3, <1>4, <1>6, <2>1
      <3> QED BY <1>3, <3>1
    <2>2. CASE ~ (j <= Len(before))
      <3>1. /\ j - (k - 1) \in 1..(Len(rows) - k) /\ k + (j - (k - 1)) \in 1..Len(rows)
            /\ rows'[j] = after[j - (k - 1)]
        BY <1>2, <1>3, <1>4, <1>6, <2>2
      <3> QED BY <1>4, <3>1
    <2> QED BY <2>1, <2>2
  <1> QED BY <1>6, <1>7

LEMMA DropRowStep ==
    ASSUME Inv, DropRow
    PROVE  Inv'
  <1>1. NoWipe \in [step : {"none", "files", "row"}, kind : {"switch", "reset"}, id : IdOrNone]
    BY DEF NoWipe, IdOrNone
  <1>2. rows' \in Seq(Id) /\ \A k \in 1..Len(rows') : \E j \in 1..Len(rows) : rows'[k] = rows[j]
    BY DropRowKeeps
  <1>3. raw' \in [Id -> Array] /\ \A i \in Id : raw'[i] = raw[i] \/ raw'[i] = <<>>
    <2>1. <<>> \in Array
      BY DEF Array
    <2> QED BY <2>1 DEF DropRow, Inv, Types
  <1>4. /\ table' \in SUBSET table /\ noted' \in SUBSET table'
        /\ \A f \in File : f \in table \ table' => f \in erased'
        /\ erased \subseteq erased' /\ erased' \in SUBSET File
    BY DEF DropRow, Unlist, Listed, Inv, Types
  <1>5. UNCHANGED <<used, stage, session, target, copy, unlisted, wipes, faults>> /\ wipe' = NoWipe
    BY DEF DropRow, fileVars
  <1> QED BY <1>1, <1>2, <1>3, <1>4, <1>5, WipeKeeps DEF Inv, Types

LEMMA WipeBreaksStep ==
    ASSUME Inv, WipeBreaks
    PROVE  Inv'
  <1>1. NoWipe \in [step : {"none", "files", "row"}, kind : {"switch", "reset"}, id : IdOrNone]
    BY DEF NoWipe, IdOrNone
  <1>2. faults' \in 0..MaxFaults /\ (faults' = 0 => faults = 0)
    BY OutcomeType DEF WipeBreaks, Inv
  <1>3. UNCHANGED <<rows, used, table, noted, raw, stage, session, target, copy, unlisted, erased, wipes>>
    BY DEF WipeBreaks, storeVars, fileVars, histVars
  <1>4. wipe' = NoWipe
    BY DEF WipeBreaks
  <1> QED BY <1>1, <1>2, <1>3, <1>4, WipeKeeps DEF Inv, Types

LEMMA NextGood ==
    ASSUME Inv, [Next]_vars
    PROVE  Inv'
  <1>1. ASSUME NEW f \in File, StoreStep(f)
        PROVE  Inv'
    BY <1>1, FindStep, CreateStep, CreateBreaksStep, LoseRaceStep, RefindStep, DownloadStep, ListFileStep,
       AppendFileStep, AppendBreaksStep, RereadStep, RewriteStep, PreprocessStep, AnnotateRowStep,
       SelectRawStep, UpdateRawStep, UpdateBreaksStep, ReselectStep, ReupdateStep, LostStep
       DEF StoreStep
  <1>2. CASE WipeStep
    BY <1>2, WipeFilesStep, EmptyRawStep, DropRowStep, WipeBreaksStep DEF WipeStep
  <1>3. CASE UNCHANGED vars
    BY <1>3 DEF vars, storeVars, fileVars, histVars, Inv, Types, Placed, OneRow, Recorded, Unfailed
  <1> QED BY <1>1, <1>2, <1>3, ArriveStep, StartWipeStep DEF Next

-----------------------------------------------------------------------------
(***************************************************************************)
(* The two lookups of one file, and where its annotation goes.             *)
(***************************************************************************)
\* The ids the lookups returned were given out, the webhook's first.
Given ==
    \A f \in File : /\ session[f] # NoId => session[f] \in used
                    /\ target[f] # NoId => target[f] \in used /\ session[f] # NoId

\* The second lookup returned another row than the first only when that one
\* is gone for good.
Follows == \A f \in File : target[f] \notin {NoId, session[f]} => ~Exists(session[f])

\* No row goes before the first wipe.
Standing ==
    wipes = 0 => /\ wipe.step = "none"
                 /\ \A f \in File : /\ session[f] # NoId => Exists(session[f])
                                    /\ target[f] # NoId => Exists(target[f])

Arrived ==
    \A f \in sent : /\ session[f] # NoId
                    /\ f \in noted \/ f \in erased \cup unlisted \/ ~Exists(session[f])

Links == /\ sent \in SUBSET File /\ rewrote \in SUBSET File
         /\ Given /\ Follows /\ Standing /\ Arrived

LEMMA InitLinks == Init => Links
  BY DEF Init, Links, Given, Follows, Standing, Arrived, NoWipe

\* The rows and the lookups stay, and the histories but grow.
LEMMA LinksStay ==
    ASSUME Links, UNCHANGED <<rows, used, session, target, wipe, wipes>>,
           sent' = sent, rewrote' \in SUBSET File, noted \subseteq noted',
           unlisted \subseteq unlisted', erased \subseteq erased'
    PROVE  Links'
  BY DEF Links, Given, Follows, Standing, Arrived, Exists

\* The day's row is the one it was, or it is new; a lookup may return it.
LEMMA LinksMove ==
    ASSUME Inv, Links, NEW f \in File, NEW i \in Id,
           Located(f, i) \/ UNCHANGED <<session, target>>,
           i \in used', used \subseteq used', Exists(i)', \A j : Exists(j)' => j = i,
           Exists(i) \/ (i \notin used /\ \A j : ~Exists(j)),
           UNCHANGED <<table, noted, wipe, histVars, wipes>>
    PROVE  Links'
  <1>1. i # NoId
    BY StoreAssumption
  <1>2. /\ session \in [File -> IdOrNone] /\ target \in [File -> IdOrNone]
        /\ \A g \in File : session'[g] = session[g] \/ (g = f /\ session[g] = NoId /\ session'[g] = i)
        /\ \A g \in File : \/ target'[g] = target[g] /\ (target[g] # NoId => session'[g] = session[g])
                           \/ g = f /\ session[g] # NoId /\ session'[g] = session[g] /\ target'[g] = i
    <2>1. session \in [File -> IdOrNone] /\ target \in [File -> IdOrNone]
      BY DEF Inv, Types
    <2>2. CASE UNCHANGED <<session, target>>
      BY <2>1, <2>2
    <2>3. CASE Located(f, i) /\ session[f] = NoId
      <3>1. target[f] = NoId /\ session' = [session EXCEPT ![f] = i] /\ target' = target
        BY <2>3 DEF Located, Links, Given
      <3> QED BY <2>1, <2>3, <3>1
    <2>4. CASE Located(f, i) /\ session[f] # NoId
      <3>1. target' = [target EXCEPT ![f] = i] /\ session' = session
        BY <2>4 DEF Located
      <3> QED BY <2>1, <2>4, <3>1
    <2> QED BY <2>2, <2>3, <2>4
  <1>3. \A j \in used : Exists(j)' => Exists(j)
    OBVIOUS
  <1>4. \A j : Exists(j) => Exists(j)'
    BY DEF Inv, OneRow, Exists, ToSet, Types
  <1>5. UNCHANGED <<noted, wipe, unlisted, erased, sent, rewrote, wipes>>
    BY DEF histVars
  <1>6. Given'
    BY <1>1, <1>2 DEF Links, Given
  <1>7. Follows'
    <2> SUFFICES ASSUME NEW g \in File, target'[g] \notin {NoId, session'[g]}
                 PROVE  ~Exists(session[g])' /\ session'[g] = session[g]
      BY DEF Follows, Exists
    <2>1. session'[g] = session[g] /\ session[g] \in used
      BY <1>2, <2>1 DEF Links, Given
    <2>2. CASE target'[g] = i
      BY <2>1, <2>2
    <2>3. CASE target'[g] = target[g]
      BY <1>3, <2>1, <2>3 DEF Links, Follows
    <2> QED BY <1>2, <2>1, <2>2, <2>3
  <1>8. Standing'
    BY <1>2, <1>4, <1>5 DEF Links, Standing
  <1>9. Arrived'
    <2> SUFFICES ASSUME NEW g \in sent
                 PROVE  /\ session'[g] = session[g] /\ session[g] # NoId
                        /\ g \in noted \/ g \in erased \cup unlisted \/ ~Exists(session[g])'
      BY <1>5 DEF Arrived, Exists
    <2>1. g \in File /\ session[g] # NoId /\ session[g] \in used
      BY DEF Links, Arrived, Given
    <2> QED BY <1>2, <1>3, <2>1 DEF Links, Arrived
  <1> QED BY <1>5, <1>6, <1>7, <1>8, <1>9 DEF Links

\* The rows of the day are one and the same: the one a lookup returns.
LEMMA HeadExists ==
    ASSUME Inv, rows # <<>>
    PROVE  /\ Head(rows) \in Id /\ Head(rows) \in used /\ Exists(Head(rows))
           /\ \A j : Exists(j) => j = Head(rows)
  <1>1. rows \in Seq(Id) /\ Len(rows) \in Nat /\ 1 \in 1..Len(rows) /\ Head(rows) = rows[1]
    <2>1. rows \in Seq(Id) /\ Len(rows) \in Nat \ {0}
      BY EmptySeq DEF Inv, Types
    <2> QED BY <2>1
  <1>2. DOMAIN rows = 1..Len(rows)
    BY <1>1
  <1> QED BY <1>1, <1>2 DEF Inv, Types, OneRow, Exists, ToSet

LEMMA StoreStepLinks ==
    ASSUME Inv, Links, NEW f \in File, Arrive(f) \/ StoreStep(f)
    PROVE  Links'
  <1> USE DEF histVars
  <1>1. ASSUME Create(f) \/ CreateBreaks(f)
        PROVE  Links'
    <2>1. PICK i \in Id \ used : /\ rows' = Append(rows, i) /\ used' = used \cup {i}
                                 /\ Located(f, i) \/ UNCHANGED <<session, target>>
      BY <1>1 DEF Create, CreateBreaks
    <2>2. rows = <<>>
      BY <1>1 DEF Create, CreateBreaks, Taken
    <2>3. rows' = <<i>>
      BY <2>1, <2>2
    <2>4. Exists(i)' /\ (\A j : Exists(j)' => j = i) /\ \A j : ~Exists(j)
      <3>1. DOMAIN rows' = {1} /\ rows'[1] = i /\ DOMAIN rows = {}
        BY <2>2, <2>3
      <3>2. ToSet(rows') = {i} /\ ToSet(rows) = {}
        BY <3>1 DEF ToSet
      <3> QED BY <3>2 DEF Exists
    <2>5. UNCHANGED <<table, noted, wipe, histVars, wipes>>
      BY <1>1 DEF Create, CreateBreaks
    <2> QED BY <2>1, <2>4, <2>5, LinksMove
  <1>2. ASSUME Refind(f) \/ \E ok \in BOOLEAN : Find(f, ok), rows # <<>>, Located(f, Head(rows))
        PROVE  Links'
    <2>1. UNCHANGED <<rows, used, table, noted, wipe, histVars, wipes>>
      BY <1>2 DEF Refind, Find, storeVars
    <2>2. \A j : Exists(j)' <=> Exists(j)
      BY <2>1 DEF Exists
    <2>3. /\ Head(rows) \in Id /\ Head(rows) \in used /\ Exists(Head(rows))
          /\ \A j : Exists(j) => j = Head(rows)
      BY <1>2, HeadExists
    <2>0. PICK i : i = Head(rows)
      OBVIOUS
    <2>4. /\ i \in Id /\ i \in used' /\ used \subseteq used' /\ Exists(i)
          /\ \A j : Exists(j) => j = i
          /\ Located(f, i)
      BY <1>2, <2>0, <2>1, <2>3
    <2>5. rows' = rows
      BY <2>1
    <2>6. Exists(i)' /\ \A j : Exists(j)' => j = i
      BY <2>4, <2>5 DEF Exists
    <2> QED BY <2>1, <2>4, <2>6, LinksMove
  <1>3. ASSUME Refind(f) \/ \E ok \in BOOLEAN : Find(f, ok), UNCHANGED <<session, target>>
        PROVE  Links'
    <2>1. UNCHANGED <<rows, used, noted, session, target, wipe, wipes, sent, rewrote, unlisted, erased>>
      BY <1>3 DEF Refind, Find, storeVars
    <2> QED BY <2>1, LinksStay DEF Links
  <1>4. ASSUME NEW done \in BOOLEAN, NEW ok \in BOOLEAN, AnnotateRow(f, ok)
        PROVE  Links'
    <2>1. /\ UNCHANGED <<rows, used, session, target, wipe, wipes, unlisted, erased, rewrote>>
          /\ stage[f] = "annotate" /\ noted \subseteq noted'
      BY <1>4 DEF AnnotateRow
    <2>2. CASE ~ok
      BY <1>4, <2>1, <2>2, LinksStay DEF AnnotateRow, Links
    <2>3. CASE ok
      <3>1. sent' = sent \cup {f}
        BY <1>4, <2>3 DEF AnnotateRow
      <3>2. session[f] # NoId /\ target[f] # NoId /\ (f \in table \/ f \in unlisted \cup erased)
        BY <2>1 DEF Inv, Placed, Recorded, HasSession, HasTarget, Tabled, Acknowledged, Noting
      <3>3. f \in noted' \/ f \in erased \cup unlisted \/ ~Exists(session[f])
        BY <1>4, <2>3, <3>2 DEF AnnotateRow, Links, Follows
      <3>4. Arrived'
        BY <2>1, <3>1, <3>2, <3>3 DEF Links, Arrived, Exists
      <3> QED BY <2>1, <3>1, <3>4 DEF Links, Given, Follows, Standing, Exists
    <2> QED BY <2>2, <2>3
  <1>5. ASSUME \/ Arrive(f) \/ LoseRace(f) \/ Download(f) \/ (\E ok \in BOOLEAN : ListFile(f, ok))
               \/ AppendFile(f) \/ AppendBreaks(f) \/ Reread(f)
               \/ (\E found \in BOOLEAN : Preprocess(f, found))
               \/ SelectRaw(f) \/ Reselect(f) \/ Lost(f)
        PROVE  Links'
    <2>1. /\ UNCHANGED <<rows, used, noted, session, target, wipe, wipes, sent, rewrote, erased>>
          /\ unlisted \subseteq unlisted'
      BY <1>5 DEF Arrive, LoseRace, Download, ListFile, AppendFile, AppendBreaks, Reread, Preprocess,
                  SelectRaw, Reselect, Lost, storeVars
    <2> QED BY <2>1, LinksStay DEF Links
  <1>6. ASSUME (\E ok \in BOOLEAN : Rewrite(f, ok)) \/ UpdateRaw(f) \/ UpdateBreaks(f) \/ Reupdate(f)
        PROVE  Links'
    <2>1. /\ UNCHANGED <<rows, used, noted, session, target, wipe, wipes, sent, unlisted, erased>>
          /\ rewrote' \in SUBSET File
      BY <1>6 DEF Rewrite, UpdateRaw, UpdateBreaks, Reupdate, WriteAnnotated, WriteBack, Links
    <2> QED BY <2>1, LinksStay
  <1>7. ASSUME Refind(f) \/ \E ok \in BOOLEAN : Find(f, ok)
        PROVE  Links'
    BY <1>2, <1>3, <1>7 DEF Refind, Find
  <1> QED BY <1>1, <1>4, <1>5, <1>6, <1>7 DEF StoreStep

\* A wipe takes rows and files away, and records the files.
LEMMA WipeLinks ==
    ASSUME Inv, Links, WipeStep \/ \E kind \in {"switch", "reset"} : StartWipe(kind)
    PROVE  Links'
  <1>1. UNCHANGED <<used, session, target, unlisted, sent, rewrote>> /\ wipes' # 0
    <2>1. ASSUME NEW kind \in {"switch", "reset"}, StartWipe(kind)
          PROVE  wipes' # 0
      BY <2>1, StoreAssumption DEF StartWipe, Inv, Types
    <2>2. ASSUME WipeStep
          PROVE  wipes # 0 /\ wipes' = wipes
      BY <2>2 DEF WipeStep, WipeFiles, EmptyRaw, DropRow, WipeBreaks, Links, Standing
    <2> QED BY <2>1, <2>2 DEF WipeStep, WipeFiles, EmptyRaw, DropRow, WipeBreaks, StartWipe, fileVars,
                              histVars, storeVars
  <1>2. \A j : Exists(j)' => Exists(j)
    <2>1. CASE DropRow
      BY <2>1, DropRowKeeps DEF Exists, ToSet
    <2>2. CASE ~DropRow
      <3>1. rows' = rows
        BY <2>2 DEF WipeStep, WipeFiles, EmptyRaw, WipeBreaks, StartWipe, storeVars
      <3> QED BY <3>1 DEF Exists
    <2> QED BY <2>1, <2>2
  <1>3. erased \subseteq erased' /\ \A f \in noted : f \in noted' \cup erased'
    BY DEF WipeStep, WipeFiles, EmptyRaw, DropRow, WipeBreaks, StartWipe, Unlist, Listed, histVars,
           storeVars, Inv, Types
  <1> QED BY <1>1, <1>2, <1>3 DEF Links, Given, Follows, Standing, Arrived

LEMMA NextLinks ==
    ASSUME Inv, Links, [Next]_vars
    PROVE  Links'
  <1>1. CASE UNCHANGED vars
    BY <1>1, LinksStay DEF vars, storeVars, fileVars, histVars, Links
  <1> QED BY <1>1, StoreStepLinks, WipeLinks DEF Next

-----------------------------------------------------------------------------
(***************************************************************************)
(* The array, while only the file's own calls write it back.               *)
(***************************************************************************)
Holds(a, f) == \E k \in 1..Len(a) : a[k].file = f

Alone(f) == wipes = 0 /\ rewrote \subseteq {f}

Entered ==
    \A f \in File : Alone(f) =>
        /\ stage[f] \in Acknowledged => Holds(raw[target[f]], f)
        /\ stage[f] \in {"update", "reupdate"} => Holds(copy[f], f)

LEMMA InitEntered == Init => Entered
  BY DEF Init, Entered, Acknowledged, Noting

\* Until the first wipe the two lookups returned the one row there is.
LEMMA AloneTargets ==
    ASSUME Inv, Links, NEW f \in File, wipes = 0, stage[f] \in HasTarget
    PROVE  target[f] = session[f] /\ Exists(target[f]) /\ target[f] \in Id
  <1>1. session[f] # NoId /\ target[f] # NoId
    BY DEF Inv, Placed, HasTarget
  <1> QED BY <1>1, ExistsType DEF Inv, Links, Standing, Follows

\* A step of g's takes no file out of an array but by writing one back.
LEMMA EnteredStep ==
    ASSUME Inv, Entered, NEW g \in File, NEW s \in Stage, Goto(g, s),
           \A f \in File : f # g => target'[f] = target[f] /\ copy'[f] = copy[f],
           wipes' = wipes, rewrote \subseteq rewrote',
           g \in rewrote' \/ \A i \in Id : \A f \in File : Holds(raw[i], f) => Holds(raw'[i], f),
           \A f \in File : Alone(f) /\ stage[f] \in Acknowledged => target[f] \in Id,
           Alone(g)' /\ s \in Acknowledged => Holds(raw'[target'[g]], g),
           Alone(g)' /\ s \in {"update", "reupdate"} => Holds(copy'[g], g)
    PROVE  Entered'
  <1>1. /\ stage'[g] = s
        /\ \A f \in File : f # g => stage'[f] = stage[f]
    BY DEF Inv, Types, Goto
  <1> SUFFICES ASSUME NEW f \in File, Alone(f)'
               PROVE  /\ stage'[f] \in Acknowledged => Holds(raw'[target'[f]], f)
                      /\ stage'[f] \in {"update", "reupdate"} => Holds(copy'[f], f)
    BY DEF Entered, Holds
  <1>2. CASE f = g
    BY <1>1, <1>2 DEF Alone, Holds
  <1>3. CASE f # g
    <2>1. g \notin rewrote' /\ Alone(f)
      BY <1>3 DEF Alone
    <2>2. ASSUME stage'[f] \in Acknowledged
          PROVE  Holds(raw'[target'[f]], f)
      BY <1>1, <1>3, <2>1, <2>2 DEF Entered
    <2> QED BY <1>1, <1>3, <2>1, <2>2 DEF Entered, Holds
  <1> QED BY <1>2, <1>3

LEMMA AppendHolds ==
    ASSUME NEW a \in Array, NEW g \in File
    PROVE  /\ Holds(Append(a, New(g)), g)
           /\ \A f : Holds(a, f) => Holds(Append(a, New(g)), f)
  <1> DEFINE b == Append(a, New(g))
  <1>1. /\ Len(b) = Len(a) + 1 /\ Len(a) \in Nat /\ b[Len(a) + 1].file = g
        /\ \A k \in 1..Len(a) : b[k] = a[k]
    BY DEF Array, New
  <1> HIDE DEF b
  <1>2. Holds(b, g)
    BY <1>1 DEF Holds
  <1>3. ASSUME NEW f, Holds(a, f) PROVE Holds(b, f)
    <2>1. PICK k \in 1..Len(a) : a[k].file = f
      BY <1>3 DEF Holds
    <2>2. k \in 1..Len(b) /\ b[k] = a[k]
      BY <1>1
    <2> QED BY <2>1, <2>2 DEF Holds
  <1> QED BY <1>2, <1>3 DEF b

LEMMA AnnotatedHolds ==
    ASSUME NEW a \in Array, NEW g \in File, NEW f, Holds(a, f)
    PROVE  Holds(Annotated(a, g), f)
  <1> DEFINE b == Annotated(a, g)
  <1>1. DOMAIN a = 1..Len(a) /\ Len(a) \in Nat /\ \A k \in 1..Len(a) : a[k] \in Entry
    BY DEF Array
  <1>2. \A k \in 1..Len(a) : b[k] \in Entry /\ b[k].file = a[k].file
    BY <1>1 DEF Annotated, Entry
  <1>3. b \in [1..Len(a) -> Entry]
    BY <1>1, <1>2 DEF Annotated
  <1>4. Len(b) = Len(a)
    BY <1>1, <1>3
  <1> HIDE DEF b
  <1>5. Holds(b, f)
    BY <1>2, <1>4 DEF Holds
  <1> QED BY <1>5 DEF b

\* A step that leaves the arrays and the lookups as they are.
LEMMA EnteredQuiet ==
    ASSUME Inv, Links, Entered, NEW g \in File, NEW s \in Stage, Goto(g, s),
           UNCHANGED <<raw, target, wipes, rewrote>>,
           \A f \in File : f # g => copy'[f] = copy[f],
           s \in Acknowledged => stage[g] \in Acknowledged,
           s \in {"update", "reupdate"} => Exists(session[g]) /\ copy'[g] = raw[session[g]]
    PROVE  Entered'
  <1>1. \A f \in File : Alone(f) /\ stage[f] \in Acknowledged => target[f] \in Id /\ target[f] = session[f]
    BY AloneTargets DEF Alone, HasTarget, HasSession, Acknowledged, Noting
  <1>2. Alone(g)' => Alone(g)
    BY DEF Alone
  <1>3. s \in {"update", "reupdate"} => s \in Acknowledged
    BY DEF Acknowledged, Noting
  <1>4. Alone(g)' /\ s \in Acknowledged => Holds(raw'[target'[g]], g)
    BY <1>2 DEF Entered
  <1>5. Alone(g)' /\ s \in {"update", "reupdate"} => Holds(copy'[g], g)
    BY <1>1, <1>2, <1>3, <1>4 DEF Holds
  <1>6. \A i \in Id : \A f \in File : Holds(raw[i], f) => Holds(raw'[i], f)
    OBVIOUS
  <1> QED BY <1>1, <1>4, <1>5, <1>6, EnteredStep

LEMMA StoreStepEntered ==
    ASSUME Inv, Links, Entered, NEW f \in File, Arrive(f) \/ StoreStep(f)
    PROVE  Entered'
  <1> USE DEF histVars
  <1>1. /\ \A g \in File : Alone(g) /\ stage[g] \in Acknowledged => target[g] \in Id
        /\ copy \in [File -> Array] /\ target \in [File -> IdOrNone] /\ raw \in [Id -> Array]
        /\ session \in [File -> IdOrNone]
    BY AloneTargets DEF Alone, HasTarget, HasSession, Acknowledged, Noting, Inv, Types
  <1>2. ASSUME NEW i, Located(f, i), UNCHANGED <<raw, wipes, rewrote>>,
               stage[f] \in {"find", "create", "refind"}
        PROVE  Entered'
    <2> DEFINE s == IF session[f] = NoId THEN "download" ELSE "list"
    <2>1. Goto(f, s) /\ s \in Stage /\ s \notin Acknowledged /\ copy' = copy
      BY <1>2 DEF Located, Stage, Storing, Acknowledged, Noting
    <2>2. s \notin {"update", "reupdate"}
      OBVIOUS
    <2>3. \A g \in File : g # f => target'[g] = target[g]
      BY <1>1, <1>2 DEF Located
    <2> HIDE DEF s
    <2> QED BY <1>1, <1>2, <2>1, <2>2, <2>3, EnteredStep
  <1>3. ASSUME Refind(f) \/ (\E ok \in BOOLEAN : Find(f, ok)) \/ Create(f)
        PROVE  Entered'
    <2>1. UNCHANGED <<raw, wipes, rewrote>> /\ stage[f] \in {"find", "create", "refind"}
      BY <1>3 DEF Refind, Find, Create, storeVars
    <2>2. \/ \E i : Located(f, i)
          \/ \E s \in {"create", "failed"} : Goto(f, s) /\ UNCHANGED <<target, copy>>
      BY <1>3 DEF Refind, Find, Create
    <2>3. \A s \in {"create", "failed"} : s \in Stage /\ s \notin Acknowledged
      BY DEF Stage, Storing, Acknowledged, Noting
    <2> QED BY <1>2, <2>1, <2>2, <2>3, EnteredQuiet
  <1>4. ASSUME \/ Arrive(f) \/ CreateBreaks(f) \/ LoseRace(f) \/ Download(f)
               \/ (\E ok \in BOOLEAN : ListFile(f, ok)) \/ Reread(f)
        PROVE  Entered'
    <2>1. /\ UNCHANGED <<raw, target, wipes, rewrote>>
          /\ \A g \in File : g # f => copy'[g] = copy[g]
      BY <1>1, <1>4 DEF Arrive, CreateBreaks, LoseRace, Download, ListFile, Reread, storeVars
    <2>2. \E s \in {"find", "failed", "refind", "append", "rewrite"} : Goto(f, s)
      BY <1>4 DEF Arrive, CreateBreaks, LoseRace, Download, ListFile, Reread
    <2>3. \A s \in {"find", "failed", "refind", "append", "rewrite"} : s \in Stage /\ s \notin Acknowledged
      BY DEF Stage, Storing, Acknowledged, Noting
    <2> QED BY <2>1, <2>2, <2>3, EnteredQuiet
  <1>5. ASSUME \/ (\E found \in BOOLEAN : Preprocess(f, found)) \/ (\E ok \in BOOLEAN : AnnotateRow(f, ok))
               \/ SelectRaw(f) \/ Reselect(f) \/ Lost(f)
        PROVE  Entered'
    <2>1. /\ UNCHANGED <<raw, target, wipes, rewrote>>
          /\ \A g \in File : g # f => copy'[g] = copy[g]
      BY <1>1, <1>5 DEF Preprocess, AnnotateRow, SelectRaw, Reselect, Lost, storeVars
    <2>2. PICK s \in Stage :
              /\ Goto(f, s)
              /\ s \in Acknowledged => stage[f] \in Acknowledged
              /\ s \in {"update", "reupdate"} => Exists(session[f]) /\ copy'[f] = raw[session[f]]
      <3>1. ASSUME Lost(f), stage[f] \in Storing
            PROVE  Goto(f, "failed") /\ "failed" \in Stage /\ "failed" \notin Acknowledged
        BY <3>1 DEF Lost, Stage, Acknowledged, Noting
      <3>2. ASSUME \/ (\E found \in BOOLEAN : Preprocess(f, found)) \/ (\E ok \in BOOLEAN : AnnotateRow(f, ok))
                   \/ SelectRaw(f) \/ Reselect(f) \/ (Lost(f) /\ stage[f] \notin Storing)
            PROVE  /\ stage[f] \in Acknowledged
                   /\ \E s \in {"annotate", "done", "select", "update", "reupdate"} :
                          /\ Goto(f, s)
                          /\ s \in {"update", "reupdate"} => Exists(session[f]) /\ copy'[f] = raw[session[f]]
        BY <1>1, <3>2 DEF Preprocess, AnnotateRow, SelectRaw, Reselect, Lost, Acknowledged, Noting
      <3>3. \A s \in {"annotate", "done", "select", "update", "reupdate"} : s \in Stage
        BY DEF Stage, Acknowledged, Noting
      <3> QED BY <1>5, <3>1, <3>2, <3>3
    <2> QED BY <2>1, <2>2, EnteredQuiet
  <1>6. ASSUME AppendFile(f) \/ AppendBreaks(f)
        PROVE  Entered'
    <2> DEFINE a == raw[target[f]]
    <2>1. /\ UNCHANGED <<target, copy, wipes, rewrote>> /\ stage[f] = "append"
          /\ raw' = raw \/ WriteRaw(target[f], Append(a, New(f)))
      BY <1>6 DEF AppendFile, AppendBreaks
    <2>2. \A i \in Id : \A g \in File : Holds(raw[i], g) => Holds(raw'[i], g)
      <3>1. CASE Exists(target[f]) /\ WriteRaw(target[f], Append(a, New(f)))
        <4>1. target[f] \in Id /\ a \in Array
          BY <1>1, <3>1, ExistsType DEF Inv
        <4>2. raw' = [raw EXCEPT ![target[f]] = Append(a, New(f))]
          BY <3>1 DEF WriteRaw
        <4>3. \A g : Holds(a, g) => Holds(Append(a, New(f)), g)
          BY <4>1, AppendHolds
        <4> QED BY <1>1, <4>1, <4>2, <4>3
      <3>2. CASE raw' = raw
        BY <3>2
      <3> QED BY <2>1, <3>1, <3>2 DEF WriteRaw
    <2>3. CASE AppendFile(f)
      <3>1. Goto(f, "acked") /\ "acked" \in Stage
        BY <2>3 DEF AppendFile, Stage, Acknowledged
      <3>2. ASSUME Alone(f)'
            PROVE  Holds(raw'[target'[f]], f)
        <4>1. Exists(target[f]) /\ target[f] \in Id
          BY <2>1, <3>2, AloneTargets DEF Alone, HasTarget, HasSession
        <4>2. raw'[target[f]] = Append(a, New(f)) /\ a \in Array
          BY <1>1, <2>3, <4>1 DEF AppendFile, WriteRaw
        <4> QED BY <2>1, <4>2, AppendHolds
      <3> QED BY <1>1, <2>1, <2>2, <3>1, <3>2, EnteredStep
    <2>4. CASE AppendBreaks(f)
      <3>1. Goto(f, "reread") /\ "reread" \in Stage /\ "reread" \notin Acknowledged
        BY <2>4 DEF AppendBreaks, Stage, Storing, Acknowledged, Noting
      <3> QED BY <1>1, <2>1, <2>2, <3>1, EnteredStep
    <2> QED BY <1>6, <2>3, <2>4
  <1>7. ASSUME NEW ok \in BOOLEAN, Rewrite(f, ok)
        PROVE  Entered'
    <2> DEFINE s == IF ok THEN "acked" ELSE "failed"
    <2>1. /\ Goto(f, s) /\ s \in Stage /\ s \notin {"update", "reupdate"}
          /\ stage[f] = "rewrite"
          /\ UNCHANGED <<target, wipes>> /\ rewrote' = rewrote \cup {f}
          /\ WriteRaw(target[f], Append(copy[f], New(f)))
          /\ \A g \in File : g # f => copy'[g] = copy[g]
      BY <1>1, <1>7 DEF Rewrite, WriteBack, Stage, Acknowledged
    <2> HIDE DEF s
    <2>2. ASSUME Alone(f)'
          PROVE  Holds(raw'[target'[f]], f)
      <3>1. Exists(target[f]) /\ target[f] \in Id
        BY <2>1, <2>2, AloneTargets DEF Alone, HasTarget, HasSession
      <3>2. raw'[target[f]] = Append(copy[f], New(f))
        BY <1>1, <2>1, <3>1 DEF WriteRaw
      <3> QED BY <1>1, <2>1, <3>2, AppendHolds
    <2> QED BY <1>1, <2>1, <2>2, EnteredStep
  <1>8. ASSUME UpdateRaw(f) \/ UpdateBreaks(f) \/ Reupdate(f)
        PROVE  Entered'
    <2>1. /\ UNCHANGED <<target, session, wipes>> /\ rewrote \subseteq rewrote'
          /\ \A g \in File : g # f => copy'[g] = copy[g]
          /\ stage[f] \in Acknowledged
      BY <1>1, <1>8 DEF UpdateRaw, UpdateBreaks, Reupdate, WriteAnnotated, WriteBack, Acknowledged, Noting
    <2>2. PICK s \in {"done", "reselect"} : Goto(f, s)
      BY <1>8 DEF UpdateRaw, UpdateBreaks, Reupdate
    <2>3. s \in Stage /\ s \notin {"update", "reupdate"}
      BY <2>2 DEF Stage, Acknowledged, Noting
    <2>4. CASE UNCHANGED <<raw, rewrote>>
      BY <2>1, <2>2, <2>3, <2>4, EnteredQuiet
    <2>5. CASE /\ WriteBack(f, session[f], Annotated(copy[f], f))
               /\ stage[f] \in {"update", "reupdate"}
      <3>1. ASSUME Alone(f)'
            PROVE  Holds(raw'[target'[f]], f)
        <4>1. Alone(f)
          BY <2>1, <3>1 DEF Alone
        <4>2. Exists(target[f]) /\ target[f] \in Id /\ session[f] = target[f]
          BY <2>1, <4>1, AloneTargets DEF Alone, HasTarget, HasSession, Acknowledged, Noting
        <4>3. Holds(copy[f], f)
          BY <2>5, <4>1 DEF Entered
        <4>4. raw'[target[f]] = Annotated(copy[f], f)
          BY <1>1, <2>5, <4>2 DEF WriteBack, WriteRaw
        <4> QED BY <1>1, <2>1, <4>3, <4>4, AnnotatedHolds
      <3>2. f \in rewrote'
        BY <2>5 DEF WriteBack
      <3> QED BY <1>1, <2>1, <2>2, <2>3, <3>1, <3>2, EnteredStep
    <2> QED BY <1>8, <2>4, <2>5 DEF UpdateRaw, UpdateBreaks, Reupdate, WriteAnnotated
  <1> QED BY <1>3, <1>4, <1>5, <1>6, <1>7, <1>8 DEF StoreStep

LEMMA NextEntered ==
    ASSUME Inv, Links, Entered, [Next]_vars
    PROVE  Entered'
  <1>1. ASSUME WipeStep \/ \E kind \in {"switch", "reset"} : StartWipe(kind)
        PROVE  wipes' # 0
    <2>1. ASSUME NEW kind \in {"switch", "reset"}, StartWipe(kind)
          PROVE  wipes' # 0
      BY <2>1, StoreAssumption DEF StartWipe, Inv, Types
    <2>2. ASSUME WipeStep
          PROVE  wipes # 0 /\ wipes' = wipes
      BY <2>2 DEF WipeStep, WipeFiles, EmptyRaw, DropRow, WipeBreaks, Links, Standing
    <2> QED BY <1>1, <2>1, <2>2
  <1>2. CASE UNCHANGED vars
    BY <1>2 DEF vars, storeVars, fileVars, histVars, Entered, Alone, Holds
  <1>3. CASE wipes' # 0
    BY <1>3 DEF Entered, Alone
  <1> QED BY <1>1, <1>2, <1>3, StoreStepEntered DEF Next

LEMMA Safe == Inv /\ Links /\ Entered => TypeOK /\ AnnotationArrives /\ ReaderSeesKept
  <1> SUFFICES ASSUME Inv, Links, Entered PROVE TypeOK /\ AnnotationArrives /\ ReaderSeesKept
    OBVIOUS
  <1>1. TypeOK
    <2>1. DOMAIN rows = 1..Len(rows)
      BY DEF Inv, Types
    <2>2. ToSet(rows) \subseteq used
      BY <2>1 DEF Inv, Types, ToSet
    <2> QED BY <2>2 DEF Inv, Types, Placed, Links, TypeOK, Stage, Array, IdOrNone
  <1>2. AnnotationArrives
    BY DEF Links, Arrived, AnnotationArrives
  <1>3. ASSUME NEW f \in File, Kept(f), f \notin unlisted
        PROVE  f \in get_session_files(target[f], TRUE)
    BY <1>3 DEF Inv, Recorded, Kept, get_session_files, Listed, Tabled
  <1>4. ASSUME NEW f \in File, Kept(f), wipes = 0, rewrote \subseteq {f}
        PROVE  f \in get_session_files(target[f], FALSE)
    <2>1. target[f] \in Id
      BY <1>4, AloneTargets DEF Kept, HasTarget, HasSession, Acknowledged, Noting
    <2>2. DOMAIN raw[target[f]] = 1..Len(raw[target[f]])
      BY <2>1 DEF Inv, Types, Array
    <2>3. PICK k \in 1..Len(raw[target[f]]) : raw[target[f]][k].file = f
      BY <1>4 DEF Entered, Alone, Holds, Kept
    <2>4. f \in InRaw(target[f])
      BY <2>2, <2>3 DEF InRaw, ToSet
    <2> QED BY <2>4 DEF get_session_files
  <1> QED BY <1>1, <1>2, <1>3, <1>4 DEF ReaderSeesKept

-----------------------------------------------------------------------------
(***************************************************************************)
(* How a handler comes to its end.                                         *)
(***************************************************************************)
\* Statements left to the handler, then to the job, at most.  A lookup has
\* three, and the webhook's comes with the download and with handle_media's.
StepsLeft(where, id) ==
    CASE where = "new" -> 18
      [] where = "find" -> IF id = NoId THEN 17 ELSE 13
      [] where = "create" -> IF id = NoId THEN 16 ELSE 12
      [] where = "refind" -> IF id = NoId THEN 15 ELSE 11
      [] where = "download" -> 14
      [] where = "list" -> 10
      [] where = "append" -> 9
      [] where = "reread" -> 8
      [] where = "rewrite" -> 7
      [] where = "acked" -> 6
      [] where = "annotate" -> 5
      [] where = "select" -> 4
      [] where = "update" -> 3
      [] where = "reselect" -> 2
      [] where = "reupdate" -> 1
      [] OTHER -> 0

Left(f) == StepsLeft(stage[f], session[f])

LEMMA LeftType ==
    ASSUME NEW f \in File
    PROVE  Left(f) \in 0..18
  BY DEF Left, StepsLeft

\* The handler is over when no more than the job's steps are left.
LEMMA LeftStoring ==
    ASSUME Inv, NEW f \in File
    PROVE  /\ stage[f] \in Storing <=> Left(f) \in 7..17
           /\ Left(f) <= 6 => stage[f] \in Acknowledged \cup {"failed"}
  <1>1. \/ stage[f] = "new" /\ Left(f) = 18
        \/ stage[f] \in {"find", "create", "refind", "download"} /\ Left(f) \in 11..17
        \/ stage[f] \in {"list", "append", "reread", "rewrite"} /\ Left(f) \in 7..10
        \/ stage[f] \in Acknowledged \cup {"failed"} /\ Left(f) \in 0..6
    <2>1. stage[f] \in Stage
      BY DEF Inv, Types
    <2> QED BY <2>1 DEF Left, StepsLeft, Stage, Storing, Acknowledged, Noting
  <1> QED BY <1>1 DEF Storing, Acknowledged, Noting

\* Whatever a step of the handler or the job does, less is left of it.
LEMMA StoreStepAdvances ==
    ASSUME Inv, NEW f \in File, StoreStep(f)
    PROVE  Left(f)' < Left(f)
  <1>1. stage \in [File -> Stage] /\ session \in [File -> IdOrNone] /\ rows \in Seq(Id) /\ NoId \notin Id
    BY StoreAssumption DEF Inv, Types
  <1>2. \A w \in Stage : Goto(f, w) => stage'[f] = w
    BY <1>1 DEF Goto
  <1>3. ASSUME NEW i \in Id, Located(f, i), stage[f] \in {"find", "create", "refind"}
        PROVE  Left(f)' < Left(f)
    <2>1. CASE session[f] = NoId
      <3>1. stage'[f] = "download"
        BY <1>1, <1>3, <2>1 DEF Located, Goto
      <3>2. Left(f) \in {15, 16, 17}
        BY <1>3, <2>1 DEF Left, StepsLeft
      <3> QED BY <3>1, <3>2 DEF Left, StepsLeft
    <2>2. CASE session[f] # NoId
      <3>1. stage'[f] = "list"
        BY <1>1, <1>3, <2>2 DEF Located, Goto
      <3>2. Left(f) \in {11, 12, 13}
        BY <1>3, <2>2 DEF Left, StepsLeft
      <3> QED BY <3>1, <3>2 DEF Left, StepsLeft
    <2> QED BY <2>1, <2>2
  <1>4. ASSUME NEW ok \in BOOLEAN, Find(f, ok)
        PROVE  Left(f)' < Left(f)
    <2>1. CASE ok /\ rows # <<>>
      BY <1>1, <1>3, <1>4, <2>1 DEF Find
    <2>2. CASE ~ (ok /\ rows # <<>>)
      <3>1. stage[f] = "find" /\ stage'[f] = "create" /\ session'[f] = session[f]
        BY <1>1, <1>4, <2>2 DEF Find, Goto
      <3> QED BY <3>1 DEF Left, StepsLeft
    <2> QED BY <2>1, <2>2
  <1>5. ASSUME Create(f)
        PROVE  Left(f)' < Left(f)
    BY <1>3, <1>5 DEF Create
  <1>6. ASSUME Refind(f)
        PROVE  Left(f)' < Left(f)
    <2>1. CASE rows # <<>>
      BY <1>1, <1>3, <1>6, <2>1 DEF Refind
    <2>2. CASE rows = <<>>
      <3>1. stage[f] = "refind" /\ stage'[f] = "failed"
        BY <1>1, <1>6, <2>2 DEF Refind, Goto
      <3> QED BY <3>1 DEF Left, StepsLeft
    <2> QED BY <2>1, <2>2
  <1>7. ASSUME LoseRace(f) \/ Download(f)
        PROVE  Left(f)' < Left(f)
    <2>1. session' = session
      BY <1>7 DEF LoseRace, Download
    <2>2. CASE LoseRace(f)
      <3>1. stage[f] = "create" /\ stage'[f] = "refind"
        BY <1>1, <2>2 DEF LoseRace, Goto
      <3> QED BY <2>1, <3>1 DEF Left, StepsLeft
    <2>3. CASE Download(f)
      <3>1. stage[f] = "download" /\ stage'[f] = "find" /\ session[f] # NoId
        BY <1>1, <2>3 DEF Download, Goto, Inv, Placed, HasSession
      <3> QED BY <2>1, <3>1 DEF Left, StepsLeft
    <2> QED BY <1>7, <2>2, <2>3
  <1>8. ASSUME \/ AppendFile(f) \/ AppendBreaks(f) \/ Reread(f)
               \/ \E ok \in BOOLEAN : ListFile(f, ok) \/ Rewrite(f, ok)
        PROVE  Left(f)' < Left(f)
    <2>1. \/ stage[f] = "list" /\ stage'[f] = "append"
          \/ stage[f] = "append" /\ stage'[f] \in {"acked", "reread"}
          \/ stage[f] = "reread" /\ stage'[f] \in {"rewrite", "failed"}
          \/ stage[f] = "rewrite" /\ stage'[f] \in {"acked", "failed"}
      BY <1>1, <1>8 DEF AppendFile, AppendBreaks, Reread, Rewrite, ListFile, Goto
    <2> QED BY <2>1 DEF Left, StepsLeft
  <1>9. ASSUME \/ \E found \in BOOLEAN : Preprocess(f, found)
               \/ \E ok \in BOOLEAN : AnnotateRow(f, ok)
               \/ SelectRaw(f) \/ UpdateRaw(f) \/ UpdateBreaks(f) \/ Reselect(f) \/ Reupdate(f)
        PROVE  Left(f)' < Left(f)
    <2>1. \/ stage[f] = "acked" /\ stage'[f] \in {"annotate", "done"}
          \/ stage[f] = "annotate" /\ stage'[f] = "select"
          \/ stage[f] = "select" /\ stage'[f] \in {"update", "done", "reselect"}
          \/ stage[f] = "update" /\ stage'[f] \in {"done", "reselect"}
          \/ stage[f] = "reselect" /\ stage'[f] \in {"reupdate", "done"}
          \/ stage[f] = "reupdate" /\ stage'[f] = "done"
      BY <1>1, <1>9 DEF Preprocess, AnnotateRow, SelectRaw, UpdateRaw, UpdateBreaks, Reselect,
                        Reupdate, Goto
    <2> QED BY <2>1 DEF Left, StepsLeft
  <1>10. ASSUME Lost(f)
         PROVE  Left(f)' < Left(f)
    <2>1. stage[f] \in Storing \cup Noting /\ stage'[f] \in {"failed", "done"}
      BY <1>1, <1>10 DEF Lost, Goto
    <2>2. Left(f) > 0
      BY <2>1 DEF Left, StepsLeft, Storing, Noting
    <2>3. Left(f)' = 0
      BY <2>1 DEF Left, StepsLeft
    <2> QED BY <2>2, <2>3
  <1>11. ASSUME CreateBreaks(f)
         PROVE  Left(f)' < Left(f)
    <2>1. stage[f] = "create" /\ stage'[f] = "failed"
      BY <1>1, <1>11 DEF CreateBreaks, Goto
    <2> QED BY <2>1 DEF Left, StepsLeft
  <1> QED BY <1>4, <1>5, <1>6, <1>7, <1>8, <1>9, <1>10, <1>11 DEF StoreStep

\* The steps of other files, and the wipes, leave this one where it stands.
LEMMA OthersStay ==
    ASSUME Inv, NEW f \in File, [Next]_vars, ~StoreStep(f), ~Arrive(f)
    PROVE  stage'[f] = stage[f] /\ session'[f] = session[f]
  <1>1. stage \in [File -> Stage] /\ session \in [File -> IdOrNone]
    BY DEF Inv, Types
  <1>2. ASSUME NEW g \in File, g # f, Arrive(g) \/ StoreStep(g)
        PROVE  stage'[f] = stage[f] /\ session'[f] = session[f]
    <2>1. \A w : Goto(g, w) => stage'[f] = stage[f]
      BY <1>1, <1>2 DEF Goto
    <2>2. \A i : Located(g, i) => stage'[f] = stage[f] /\ session'[f] = session[f]
      BY <1>1, <1>2, <2>1 DEF Located
    <2> HIDE DEF Goto, Located
    <2>3. ASSUME Arrive(g) \/ CreateBreaks(g) \/ LoseRace(g) \/ Download(g) \/ Lost(g)
          PROVE  stage'[f] = stage[f] /\ session'[f] = session[f]
      BY <2>1, <2>3 DEF Arrive, CreateBreaks, LoseRace, Download, Lost
    <2>4. ASSUME Create(g) \/ Refind(g) \/ \E ok \in BOOLEAN : Find(g, ok)
          PROVE  stage'[f] = stage[f] /\ session'[f] = session[f]
      BY <2>1, <2>2, <2>4 DEF Create, Refind, Find
    <2>5. ASSUME \/ AppendFile(g) \/ AppendBreaks(g) \/ Reread(g)
                 \/ \E ok \in BOOLEAN : ListFile(g, ok) \/ Rewrite(g, ok)
          PROVE  stage'[f] = stage[f] /\ session'[f] = session[f]
      BY <2>1, <2>5 DEF AppendFile, AppendBreaks, Reread, Rewrite, ListFile
    <2>6. ASSUME \/ \E found \in BOOLEAN : Preprocess(g, found)
                 \/ \E ok \in BOOLEAN : AnnotateRow(g, ok)
                 \/ SelectRaw(g) \/ UpdateRaw(g) \/ UpdateBreaks(g) \/ Reselect(g) \/ Reupdate(g)
          PROVE  stage'[f] = stage[f] /\ session'[f] = session[f]
      BY <2>1, <2>6 DEF Preprocess, AnnotateRow, SelectRaw, UpdateRaw, UpdateBreaks, Reselect, Reupdate
    <2> QED BY <1>2, <2>3, <2>4, <2>5, <2>6 DEF StoreStep
  <1>3. ASSUME WipeStep \/ \E kind \in {"switch", "reset"} : StartWipe(kind)
        PROVE  stage'[f] = stage[f] /\ session'[f] = session[f]
    BY <1>3 DEF WipeStep, WipeFiles, EmptyRaw, DropRow, WipeBreaks, StartWipe, fileVars
  <1>4. CASE UNCHANGED vars
    BY <1>4 DEF vars, fileVars
  <1> QED BY <1>2, <1>3, <1>4 DEF Next

LEMMA NextAdvances ==
    ASSUME Inv, NEW f \in File, [Next]_vars
    PROVE  Left(f)' < Left(f) \/ (stage'[f] = stage[f] /\ session'[f] = session[f])
  <1>1. CASE Arrive(f)
    <2>1. stage[f] = "new" /\ stage'[f] = "find"
      BY <1>1 DEF Arrive, Goto, Inv, Types
    <2> QED BY <2>1 DEF Left, StepsLeft
  <1> QED BY <1>1, StoreStepAdvances, OthersStay

-----------------------------------------------------------------------------
(***************************************************************************)
(* What a handler and a wipe need to go on.                                *)
(***************************************************************************)
\* The row a wipe works on is there until it is done; each id given out but
\* the row's own was taken away by a reset.
Spare ==
    /\ Len(rows) <= 1
    /\ wipe.step # "none" => rows = <<wipe.id>>
    /\ IsFiniteSet(used)
    /\ Cardinality(used) <= IF rows # <<>> /\ wipe.step = "none" THEN wipes + 1 ELSE wipes

LEMMA InitSpare == Init => Spare
  BY FS_EmptySet DEF Init, Spare, NoWipe

\* A step that neither creates the row nor wipes.
LEMMA SpareStays ==
    ASSUME Spare, UNCHANGED <<rows, used, wipe, wipes>>
    PROVE  Spare'
  BY DEF Spare

LEMMA StoreStepSpare ==
    ASSUME Inv, Spare, NEW f \in File, Arrive(f) \/ StoreStep(f)
    PROVE  Spare'
  <1>1. CASE Create(f) \/ CreateBreaks(f)
    <2>1. PICK i \in Id \ used : rows' = Append(rows, i) /\ used' = used \cup {i}
      BY <1>1 DEF Create, CreateBreaks
    <2>2. rows = <<>> /\ wipe' = wipe /\ wipes' = wipes
      BY <1>1 DEF Create, CreateBreaks, Taken
    <2>3. rows' = <<i>> /\ Len(rows') = 1 /\ rows' # <<>>
      BY <2>1, <2>2
    <2>4. wipe.step = "none" /\ IsFiniteSet(used) /\ Cardinality(used) <= wipes
      BY <2>2 DEF Spare
    <2>5. IsFiniteSet(used') /\ Cardinality(used') = Cardinality(used) + 1
      BY <2>1, <2>4, FS_AddElement
    <2>6. Cardinality(used) \in Nat /\ wipes \in Nat
      BY <2>4, FS_CardinalityType, StoreAssumption DEF Inv, Types
    <2>7. Cardinality(used') <= wipes' + 1
      BY <2>2, <2>4, <2>5, <2>6
    <2> QED BY <2>2, <2>3, <2>4, <2>5, <2>7 DEF Spare
  <1>2. CASE ~ (Create(f) \/ CreateBreaks(f))
    <2>1. UNCHANGED <<rows, used, wipe, wipes>>
      BY <1>2 DEF StoreStep, Arrive, Find, LoseRace, Refind, Download, ListFile, AppendFile,
                  AppendBreaks, Reread, Rewrite, Preprocess, AnnotateRow, SelectRaw, UpdateRaw,
                  UpdateBreaks, Reselect, Reupdate, Lost, storeVars
    <2> QED BY <2>1, SpareStays
  <1> QED BY <1>1, <1>2

LEMMA NextSpare ==
    ASSUME Inv, Spare, [Next]_vars
    PROVE  Spare'
  <1>1. wipes \in Nat /\ Cardinality(used) \in Nat
    BY FS_CardinalityType, StoreAssumption DEF Inv, Types, Spare
  <1>2. ASSUME NEW kind \in {"switch", "reset"}, StartWipe(kind)
        PROVE  Spare'
    <2>1. /\ rows # <<>> /\ wipe.step = "none" /\ wipes' = wipes + 1
          /\ rows' = rows /\ used' = used
          /\ wipe'.step = "files" /\ wipe'.id = Head(rows)
      BY <1>2 DEF StartWipe, storeVars
    <2>2. rows = <<Head(rows)>>
      <3>0. rows \in Seq(Id) /\ Len(rows) <= 1
        BY DEF Inv, Types, Spare
      <3>1. rows \in Seq(Id) /\ Len(rows) = 1
        <4>1. Len(rows) \in Nat \ {0}
          BY <2>1, <3>0, EmptySeq
        <4> QED BY <3>0, <4>1
      <3>2. /\ rows[1] \in Id /\ <<rows[1]>> \in Seq(Id) /\ Len(<<rows[1]>>) = 1
            /\ \A k \in 1..1 : <<rows[1]>>[k] = rows[k]
        BY <3>1
      <3> QED BY <3>1, <3>2, SeqEqual
    <2> QED BY <1>1, <2>1, <2>2 DEF Spare
  <1>3. ASSUME NEW done \in BOOLEAN, NEW ok \in BOOLEAN, WipeFiles(done, ok)
        PROVE  Spare'
    <2>1. /\ wipe.step # "none" /\ rows' = rows /\ used' = used /\ wipes' = wipes
          /\ wipe' = NoWipe \/ wipe' = [wipe EXCEPT !.step = "row"]
      BY <1>3 DEF WipeFiles
    <2>2. wipe'.step = "none" \/ wipe'.id = wipe.id
      BY <2>1 DEF Inv, Types, NoWipe
    <2>3. Cardinality(used') <= wipes'
      BY <2>1 DEF Spare
    <2> QED BY <1>1, <2>1, <2>2, <2>3 DEF Spare
  <1>4. ASSUME EmptyRaw \/ WipeBreaks
        PROVE  Spare'
    <2>1. wipe.step # "none" /\ wipe' = NoWipe /\ rows' = rows /\ used' = used /\ wipes' = wipes
      BY <1>4 DEF EmptyRaw, WipeBreaks, storeVars
    <2> QED BY <1>1, <2>1 DEF Spare, NoWipe
  <1>5. ASSUME DropRow
        PROVE  Spare'
    <2>1. /\ wipe.step # "none" /\ wipe' = NoWipe /\ used' = used /\ wipes' = wipes
          /\ \E k \in 1..Len(rows) : rows' = RemoveAt(rows, k)
      BY <1>5 DEF DropRow
    <2>2. rows = <<wipe.id>> /\ Len(rows) = 1 /\ wipe.id \in Id
      BY <2>1 DEF Spare, Inv, Types
    <2>3. rows' = RemoveAt(rows, 1)
      BY <2>1, <2>2
    <2>4. rows' = <<>>
      <3>1. rows' = SubSeq(rows, 1, 0) \o SubSeq(rows, 2, 1)
        BY <2>2, <2>3 DEF RemoveAt
      <3>2. SubSeq(rows, 1, 0) = <<>> /\ SubSeq(rows, 2, 1) = <<>>
        BY <2>2
      <3> QED BY <3>1, <3>2
    <2> QED BY <1>1, <2>1, <2>4 DEF Spare, NoWipe
  <1>6. CASE UNCHANGED vars
    BY <1>6, SpareStays DEF vars, storeVars
  <1> QED BY <1>2, <1>3, <1>4, <1>5, <1>6, StoreStepSpare DEF Next, WipeStep

\* An id is left whenever a row may have to be created, and the row of a wipe
\* in progress is there to be deleted.
IdToGive == rows = <<>> => Id \ used # {}
RowToWipe == wipe.step # "none" => \E k \in 1..Len(rows) : rows[k] = wipe.id

LEMMA SpareSuffices == Inv /\ Spare => IdToGive /\ RowToWipe
  <1> SUFFICES ASSUME Inv, Spare PROVE IdToGive /\ RowToWipe
    OBVIOUS
  <1>1. IdToGive
    <2> SUFFICES ASSUME rows = <<>>, Id \ used = {} PROVE FALSE
      BY DEF IdToGive
    <2>1. Id = used
      BY DEF Inv, Types
    <2>2. Cardinality(Id) <= wipes /\ IsFiniteSet(Id)
      BY <2>1 DEF Spare
    <2>3. Cardinality(Id) \in Nat /\ wipes \in 0..MaxWipes
      BY <2>2, FS_CardinalityType DEF Inv, Types
    <2> QED BY <2>2, <2>3, IdAssumption, StoreAssumption
  <1>2. RowToWipe
    <2> SUFFICES ASSUME wipe.step # "none" PROVE \E k \in 1..Len(rows) : rows[k] = wipe.id
      BY DEF RowToWipe
    <2>1. rows = <<wipe.id>>
      BY DEF Spare
    <2>2. 1 \in 1..Len(rows) /\ rows[1] = wipe.id
      BY <2>1
    <2> QED BY <2>2
  <1> QED BY <1>1, <1>2

-----------------------------------------------------------------------------
(***************************************************************************)
(* The theorems.                                                           *)
(***************************************************************************)
LEMMA InvAlways == Spec => []Inv
  BY InitGood, NextGood, PTL DEF Spec

LEMMA LinksAlways == Spec => []Links
  BY InvAlways, InitLinks, NextLinks, PTL DEF Spec

LEMMA EnteredAlways == Spec => []Entered
  BY InvAlways, LinksAlways, InitEntered, NextEntered, PTL DEF Spec

\* A handler that is past get_or_create_session holds an id, whatever row it
\* raced for or lost.
THEOREM TypeCorrect == Spec => []TypeOK
  BY InvAlways, LinksAlways, EnteredAlways, Safe, PTL

\* An annotation goes to the session the webhook found, its file to the one
\* handle_media found a download later: however many handlers race for the
\* day's row and however often it is reset, what the table accepted is in the
\* row of its file, unless a wipe took it, the row was not inserted, or the
\* first session is gone.
THEOREM AnnotationsArrive == Spec => []AnnotationArrives
  BY InvAlways, LinksAlways, EnteredAlways, Safe, PTL

\* What was acknowledged is what get_session_files returns from the table,
\* unless the row could not be inserted or a wipe took it; and from the array,
\* when the table cannot be read, as long as there was no wipe and no call of
\* another file's wrote the array back whole.
THEOREM KeptIsRead == Spec => []ReaderSeesKept
  BY InvAlways, LinksAlways, EnteredAlways, Safe, PTL

\* Without failed calls no array holds a file twice, however stale the array is
\* that an annotation or its fallback writes back whole.
THEOREM EntriesOnce == Spec => []NoDuplicates
  <1>1. Inv => NoDuplicates
    BY InvNoDuplicates
  <1> QED BY <1>1, InitGood, NextGood, PTL DEF Spec

LEMMA SpareAlways == Spec => []Spare
  BY InvAlways, InitSpare, NextSpare, PTL DEF Spec

\* No handler and no wipe is ever without the row or the id it needs: however
\* often handlers lose the row they raced for and resets delete it, a handler
\* that has to create it finds an id, and a wipe finds the row it began with.
THEOREM NothingIsMissing == Spec => [](IdToGive /\ RowToWipe)
  BY InvAlways, SpareAlways, SpareSuffices, PTL

\* Each step that moves a handler or its job, failures and lost races included,
\* leaves less of it to do, by a count that starts at 18: none runs in a circle
\* between find, create and the second find.
THEOREM HandlersAdvance ==
    Spec => [][\A f \in File : Left(f)' < Left(f) \/ stage'[f] = stage[f]]_vars
  <1>1. Inv /\ [Next]_vars => [\A f \in File : Left(f)' < Left(f) \/ stage'[f] = stage[f]]_vars
    BY NextAdvances
  <1> QED BY <1>1, InvAlways, PTL DEF Spec

\* What opens a statement of a handler: creating the row needs an id to give it.
Open(f) == stage[f] \in Storing /\ (stage[f] = "create" => IdToGive)

\* A fair handler whose open statements may be executed.
Runs(f) ==
    /\ []Inv /\ []Spare /\ [][Next]_vars
    /\ WF_vars(StoreStep(f))
    /\ [](Open(f) => ENABLED <<StoreStep(f)>>_vars)

Falls(f, n) == (Left(f) = n) ~> (Left(f) < n)

LEMMA LeftFalls ==
    ASSUME NEW f \in File, NEW n \in 7..17
    PROVE  Runs(f) => Falls(f, n)
  <1>1. Inv /\ (Left(f) = n) /\ [Next]_vars => (Left(f) = n)' \/ (Left(f) < n)'
    <2> SUFFICES ASSUME Inv, Left(f) = n, [Next]_vars
                 PROVE  Left(f)' = n \/ Left(f)' < n
      OBVIOUS
    <2>1. CASE Left(f)' < Left(f)
      BY <2>1
    <2>2. CASE stage'[f] = stage[f] /\ session'[f] = session[f]
      <3>1. Left(f)' = Left(f)
        BY <2>2 DEF Left
      <3> QED BY <3>1
    <2> QED BY <2>1, <2>2, NextAdvances
  <1>2. Inv /\ (Left(f) = n) /\ <<StoreStep(f)>>_vars => (Left(f) < n)'
    BY StoreStepAdvances
  <1>3. Inv /\ Spare /\ (Left(f) = n) => Open(f)
    BY LeftStoring, SpareSuffices DEF Open
  <1> QED BY <1>1, <1>2, <1>3, PTL DEF Runs, Falls

\* From the first lookup to the acknowledgement: eleven steps at most.
LEMMA HandlerComesToEnd ==
    ASSUME NEW f \in File
    PROVE  Runs(f) => ((stage[f] \in Storing) ~> (stage[f] \in Acknowledged \cup {"failed"}))
  <1>1. /\ Runs(f) => Falls(f, 7)
        /\ Runs(f) => Falls(f, 8)
        /\ Runs(f) => Falls(f, 9)
        /\ Runs(f) => Falls(f, 10)
        /\ Runs(f) => Falls(f, 11)
        /\ Runs(f) => Falls(f, 12)
        /\ Runs(f) => Falls(f, 13)
        /\ Runs(f) => Falls(f, 14)
        /\ Runs(f) => Falls(f, 15)
        /\ Runs(f) => Falls(f, 16)
        /\ Runs(f) => Falls(f, 17)
    BY LeftFalls
  <1>2. /\ Left(f) < 17 => Left(f) = 16 \/ Left(f) < 16
        /\ Left(f) < 16 => Left(f) = 15 \/ Left(f) < 15
        /\ Left(f) < 15 => Left(f) = 14 \/ Left(f) < 14
        /\ Left(f) < 14 => Left(f) = 13 \/ Left(f) < 13
        /\ Left(f) < 13 => Left(f) = 12 \/ Left(f) < 12
        /\ Left(f) < 12 => Left(f) = 11 \/ Left(f) < 11
        /\ Left(f) < 11 => Left(f) = 10 \/ Left(f) < 10
        /\ Left(f) < 10 => Left(f) = 9 \/ Left(f) < 9
        /\ Left(f) < 9 => Left(f) = 8 \/ Left(f) < 8
        /\ Left(f) < 8 => Left(f) = 7 \/ Left(f) < 7
    BY LeftType
  <1>3. Inv /\ (stage[f] \in Storing) => (Left(f) = 17) \/ (Left(f) < 17)
    BY LeftStoring
  <1>4. Inv /\ (Left(f) < 7) => (stage[f] \in Acknowledged \cup {"failed"})
    BY LeftStoring, LeftType
  <1> QED BY <1>1, <1>2, <1>3, <1>4, PTL DEF Runs, Falls

\* Guards decide: a statement whose guard holds may be executed.
GuardsDecide == \A f \in File : Open(f) => ENABLED <<StoreStep(f)>>_vars

\* The handler of a file comes to an end, for every number of files, wipes and
\* faults: it is acknowledged or has failed, whatever it loses races to.  What
\* the prover has no rule for, that an action whose guard holds is enabled, is
\* a hypothesis.
THEOREM HandlersEnd == FairSpec /\ []GuardsDecide => HandlerEnds
  <1> SUFFICES ASSUME NEW f \in File
               PROVE  FairSpec /\ []GuardsDecide
                      => ((stage[f] \in Storing) ~> (stage[f] \in Acknowledged \cup {"failed"}))
    BY DEF HandlerEnds
  <1>1. Fairness => FileMoves(f)
    BY DEF Fairness
  <1>2. FileMoves(f) => WF_vars(StoreStep(f))
    BY PTL DEF FileMoves
  <1>3. GuardsDecide => (Open(f) => ENABLED <<StoreStep(f)>>_vars)
    BY DEF GuardsDecide
  <1>4. FairSpec /\ []GuardsDecide => Runs(f)
    BY <1>1, <1>2, <1>3, InvAlways, SpareAlways, PTL DEF FairSpec, Spec, Runs
  <1> QED BY <1>4, HandlerComesToEnd, PTL
=============================================================================
