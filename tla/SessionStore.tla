----------------------------- MODULE SessionStore -----------------------------
(***************************************************************************)
(* Where a phone's media of one day is kept (supabase_client.py, sql/012,  *)
(* 015 and 033): the day's row of `sessions', created on demand; one row   *)
(* of `session_files' per file; and the same files again in the JSONB      *)
(* array sessions.raw_files, which the field pipeline reads.               *)
(*                                                                         *)
(* One webhook handler stores each file and one preprocessing job then     *)
(* annotates it.  They run on threads and in two processes (web, worker):  *)
(* each statement the database executes is a step, and the two statements  *)
(* of update_file_in_session are steps of their own.  A demo switch or a   *)
(* reset may empty or delete the row meanwhile.                            *)
(***************************************************************************)
EXTENDS Naturals, FiniteSets, Sequences, SequencesExt

CONSTANTS
    File,       \* media files the phone sends
    Id,         \* session ids that may ever be given out
    NoId,
    MaxWipes,   \* demo switches and resets
    MaxFaults   \* failed database calls and lost handlers

ASSUME StoreAssumption ==
    /\ NoId \notin Id
    /\ MaxWipes \in Nat
    /\ MaxFaults \in Nat

\* A row is created when there is none, and only a reset takes one away: the
\* ids, which the database makes up, are never all given out.
ASSUME IdAssumption == IsFiniteSet(Id) => Cardinality(Id) > MaxWipes

VARIABLES
    rows,       \* ids of the day's rows, oldest first
    used,       \* ids given out so far
    table,      \* files with a row in session_files
    noted,      \* of those, the ones whose row carries its annotation
    raw,        \* raw_files of each session
    stage,      \* where the handler or the job of each file stands
    session,    \* the session the webhook found for it
    target,     \* the one handle_media found, a download later
    copy,       \* the array its handler or job has read, to write it back
    wipe,       \* the switch or reset in progress
    unlisted,   \* history: files whose session_files row could not be inserted
    erased,     \* history: files a switch or a reset took away
    sent,       \* history: files whose annotation the table accepted
    rewrote,    \* history: files on whose behalf an array was written back whole
    wipes, faults

fileVars == <<stage, session, target, copy>>
storeVars == <<rows, used, table, noted, raw>>
histVars == <<unlisted, erased, sent, rewrote>>
vars == <<storeVars, fileVars, wipe, histVars, wipes, faults>>

Entry == [file : File, noted : BOOLEAN]

Storing == {"find", "create", "refind", "download", "list", "append", "reread", "rewrite"}
Noting == {"annotate", "select", "update", "reselect", "reupdate"}
Acknowledged == {"acked", "done"} \cup Noting

\* The handler is past its first lookup; past its second.
HasSession == {"download", "list", "append", "reread", "rewrite"} \cup Acknowledged
HasTarget == HasSession \ {"download"}

NoWipe == [step |-> "none", kind |-> "switch", id |-> NoId]

TypeOK ==
    /\ rows \in Seq(Id) /\ ToSet(rows) \subseteq used /\ used \subseteq Id
    /\ noted \subseteq table /\ table \subseteq File
    /\ \A i \in Id : raw[i] \in Seq(Entry)
    /\ stage \in [File -> {"new", "failed"} \cup Storing \cup Acknowledged]
    /\ session \in [File -> Id \cup {NoId}]
    /\ target \in [File -> Id \cup {NoId}]
    /\ \A f \in File : /\ stage[f] \in HasSession => session[f] # NoId
                       /\ stage[f] \in HasTarget => target[f] # NoId
    /\ \A f \in File : copy[f] \in Seq(Entry)
    /\ wipe \in [step : {"none", "files", "row"}, kind : {"switch", "reset"}, id : Id \cup {NoId}]
    /\ unlisted \subseteq File /\ erased \subseteq File
    /\ sent \subseteq File /\ rewrote \subseteq File
    /\ wipes \in 0..MaxWipes /\ faults \in 0..MaxFaults

Init ==
    /\ rows = <<>> /\ used = {}
    /\ table = {} /\ noted = {}
    /\ raw = [i \in Id |-> <<>>]
    /\ stage = [f \in File |-> "new"]
    /\ session = [f \in File |-> NoId]
    /\ target = [f \in File |-> NoId]
    /\ copy = [f \in File |-> <<>>]
    /\ wipe = NoWipe
    /\ unlisted = {} /\ erased = {} /\ sent = {} /\ rewrote = {}
    /\ wipes = 0 /\ faults = 0

Exists(i) == i \in ToSet(rows)

Goto(f, where) == stage' = [stage EXCEPT ![f] = where]

\* A database call returns, or it fails.  That the database executed a call
\* that failed is told apart where it leaves another state than the answer does.
Outcome(ok) ==
    \/ ok /\ UNCHANGED faults
    \/ ~ok /\ faults < MaxFaults /\ faults' = faults + 1

(***************************************************************************)
(* get_or_create_session, called by the webhook before the download and    *)
(* again by handle_media after it.                                         *)
(***************************************************************************)
Arrive(f) ==
    /\ stage[f] = "new"
    /\ Goto(f, "find")
    /\ UNCHANGED <<storeVars, session, target, copy, wipe, histVars, wipes, faults>>

\* The call returns this id.
Located(f, i) ==
    IF session[f] = NoId
    THEN /\ session' = [session EXCEPT ![f] = i]
         /\ Goto(f, "download")
         /\ UNCHANGED <<target, copy>>
    ELSE /\ target' = [target EXCEPT ![f] = i]
         /\ Goto(f, "list")
         /\ UNCHANGED <<session, copy>>

\* _find swallows its errors: no answer is taken for no row.
Find(f, ok) ==
    /\ stage[f] = "find"
    /\ Outcome(ok)
    /\ IF ok /\ rows # <<>>
       THEN Located(f, Head(rows))
       ELSE Goto(f, "create") /\ UNCHANGED <<session, target, copy>>
    /\ UNCHANGED <<storeVars, wipe, histVars, wipes>>

\* Mutant of Taken: the table has no UNIQUE (user_phone, date).
NeverTaken == FALSE

Taken == rows # <<>>

Create(f) ==
    /\ stage[f] = "create" /\ ~Taken
    /\ \E i \in Id \ used :
          /\ rows' = Append(rows, i)
          /\ used' = used \cup {i}
          /\ Located(f, i)
    /\ UNCHANGED <<table, noted, raw, wipe, histVars, wipes, faults>>

\* The row is inserted and the answer lost: not a 23505, it raises.
CreateBreaks(f) ==
    /\ stage[f] = "create" /\ ~Taken
    /\ Outcome(FALSE)
    /\ \E i \in Id \ used : rows' = Append(rows, i) /\ used' = used \cup {i}
    /\ Goto(f, "failed")
    /\ UNCHANGED <<table, noted, raw, session, target, copy, wipe, histVars, wipes>>

\* 23505: another request has inserted the day's row.
LoseRace(f) ==
    /\ stage[f] = "create" /\ Taken
    /\ Goto(f, "refind")
    /\ UNCHANGED <<storeVars, session, target, copy, wipe, histVars, wipes, faults>>

\* Mutant of Refind: the handler asks until it finds a row.
RefindUntilFound(f) ==
    /\ stage[f] = "refind" /\ rows # <<>>
    /\ Located(f, Head(rows))
    /\ UNCHANGED <<storeVars, wipe, histVars, wipes, faults>>

\* Mutant of Refind: what the second look finds is returned unchecked.
RefindUnchecked(f) ==
    /\ stage[f] = "refind"
    /\ Located(f, IF rows # <<>> THEN Head(rows) ELSE NoId)
    /\ UNCHANGED <<storeVars, wipe, histVars, wipes, faults>>

\* The winner's row, unless a reset has deleted it since: then it raises.
Refind(f) ==
    /\ stage[f] = "refind"
    /\ IF rows # <<>>
       THEN Located(f, Head(rows))
       ELSE Goto(f, "failed") /\ UNCHANGED <<session, target, copy>>
    /\ UNCHANGED <<storeVars, wipe, histVars, wipes, faults>>

\* download_and_store; handle_media then asks for today's session again.
Download(f) ==
    /\ stage[f] = "download"
    /\ Goto(f, "find")
    /\ UNCHANGED <<storeVars, session, target, copy, wipe, histVars, wipes, faults>>

(***************************************************************************)
(* add_file_to_session.                                                    *)
(***************************************************************************)
\* The session_files row: its errors, a deleted session among them, are
\* logged and swallowed.
ListFile(f, ok) ==
    /\ stage[f] = "list"
    /\ Outcome(ok)
    /\ IF ok /\ Exists(target[f])
       THEN table' = table \cup {f} /\ UNCHANGED unlisted
       ELSE unlisted' = unlisted \cup {f} /\ UNCHANGED table
    /\ Goto(f, "append")
    /\ UNCHANGED <<rows, used, noted, raw, session, target, copy, wipe, erased, sent, rewrote, wipes>>

\* UPDATE ... WHERE id = i: no row, no effect, no error.
WriteRaw(i, array) == raw' = IF Exists(i) THEN [raw EXCEPT ![i] = array] ELSE raw

New(f) == [file |-> f, noted |-> FALSE]

\* Mutant of AppendFile: the fallback runs after a successful append too.
AppendAndFallBack(f) ==
    /\ stage[f] = "append"
    /\ WriteRaw(target[f], Append(raw[target[f]], New(f)))
    /\ Goto(f, "reread")
    /\ UNCHANGED <<rows, used, table, noted, session, target, copy, wipe, histVars, wipes, faults>>

\* rpc append_file_to_session: one UPDATE.
AppendFile(f) ==
    /\ stage[f] = "append"
    /\ WriteRaw(target[f], Append(raw[target[f]], New(f)))
    /\ Goto(f, "acked")
    /\ UNCHANGED <<rows, used, table, noted, session, target, copy, wipe, histVars, wipes, faults>>

\* The call fails, before the database executed it or after.
AppendBreaks(f) ==
    /\ stage[f] = "append"
    /\ Outcome(FALSE)
    /\ \/ UNCHANGED raw
       \/ WriteRaw(target[f], Append(raw[target[f]], New(f)))
    /\ Goto(f, "reread")
    /\ UNCHANGED <<rows, used, table, noted, session, target, copy, wipe, histVars, wipes>>

\* .single() raises when the row is gone.
Reread(f) ==
    /\ stage[f] = "reread"
    /\ Goto(f, IF Exists(target[f]) THEN "rewrite" ELSE "failed")
    /\ copy' = IF Exists(target[f]) THEN [copy EXCEPT ![f] = raw[target[f]]] ELSE copy
    /\ UNCHANGED <<storeVars, session, target, wipe, histVars, wipes, faults>>

\* A whole array, as it was read, takes the place of the row's.
WriteBack(f, i, array) ==
    /\ WriteRaw(i, array)
    /\ rewrote' = rewrote \cup {f}

\* The answer may be lost: then it raises.
Rewrite(f, ok) ==
    /\ stage[f] = "rewrite"
    /\ Outcome(ok)
    /\ WriteBack(f, target[f], Append(copy[f], New(f)))
    /\ copy' = [copy EXCEPT ![f] = <<>>]
    /\ Goto(f, IF ok THEN "acked" ELSE "failed")
    /\ UNCHANGED <<rows, used, table, noted, session, target, wipe, unlisted, erased, sent, wipes>>

(***************************************************************************)
(* update_file_in_session, called by the file's preprocessing with the     *)
(* session the webhook found.                                              *)
(***************************************************************************)
\* The job has an annotation to store, or nothing to say.
Preprocess(f, found) ==
    /\ stage[f] = "acked"
    /\ Goto(f, IF found THEN "annotate" ELSE "done")
    /\ UNCHANGED <<storeVars, session, target, copy, wipe, histVars, wipes, faults>>

AnnotateRow(f, ok) ==
    /\ stage[f] = "annotate"
    /\ Outcome(ok)
    /\ noted' = IF ok /\ f \in table /\ target[f] = session[f] THEN noted \cup {f} ELSE noted
    /\ sent' = IF ok THEN sent \cup {f} ELSE sent
    /\ Goto(f, "select")
    /\ UNCHANGED <<rows, used, table, raw, session, target, copy, wipe, unlisted, erased, rewrote, wipes>>

\* The first entry of that name carries the annotation.
Annotated(array, f) ==
    [k \in DOMAIN array |->
        IF array[k].file = f /\ \A j \in 1..(k - 1) : array[j].file # f
        THEN [array[k] EXCEPT !.noted = TRUE] ELSE array[k]]

\* rpc update_file_in_session, first statement: no lock is taken.
SelectRaw(f) ==
    /\ stage[f] = "select"
    /\ Goto(f, IF Exists(session[f]) THEN "update" ELSE "done")
    /\ copy' = IF Exists(session[f]) THEN [copy EXCEPT ![f] = raw[session[f]]] ELSE copy
    /\ UNCHANGED <<storeVars, session, target, wipe, histVars, wipes, faults>>

\* Second statement: the whole array, as it was read.  It is not reached
\* when the array has no such file.
WriteAnnotated(f) ==
    IF \E k \in DOMAIN copy[f] : copy[f][k].file = f
    THEN WriteBack(f, session[f], Annotated(copy[f], f))
    ELSE UNCHANGED <<raw, rewrote>>

UpdateRaw(f) ==
    /\ stage[f] = "update"
    /\ WriteAnnotated(f)
    /\ copy' = [copy EXCEPT ![f] = <<>>]
    /\ Goto(f, "done")
    /\ UNCHANGED <<rows, used, table, noted, session, target, wipe, unlisted, erased, sent, wipes, faults>>

\* The call fails: neither statement was executed, or both were.
UpdateBreaks(f) ==
    /\ stage[f] \in {"select", "update"}
    /\ Outcome(FALSE)
    /\ \/ UNCHANGED <<raw, rewrote>>
       \/ stage[f] = "update" /\ WriteAnnotated(f)
    /\ copy' = [copy EXCEPT ![f] = <<>>]
    /\ Goto(f, "reselect")
    /\ UNCHANGED <<rows, used, table, noted, session, target, wipe, unlisted, erased, sent, wipes>>

\* The fallback does the same from Python, and writes in either case.
Reselect(f) ==
    /\ stage[f] = "reselect"
    /\ Goto(f, IF Exists(session[f]) THEN "reupdate" ELSE "done")
    /\ copy' = IF Exists(session[f]) THEN [copy EXCEPT ![f] = raw[session[f]]] ELSE copy
    /\ UNCHANGED <<storeVars, session, target, wipe, histVars, wipes, faults>>

Reupdate(f) ==
    /\ stage[f] = "reupdate"
    /\ WriteBack(f, session[f], Annotated(copy[f], f))
    /\ copy' = [copy EXCEPT ![f] = <<>>]
    /\ Goto(f, "done")
    /\ UNCHANGED <<rows, used, table, noted, session, target, wipe, unlisted, erased, sent, wipes, faults>>

\* An exception nobody mends, or the end of the process.
Lost(f) ==
    /\ stage[f] \in Storing \cup Noting
    /\ Outcome(FALSE)
    /\ Goto(f, IF stage[f] \in Storing THEN "failed" ELSE "done")
    /\ copy' = [copy EXCEPT ![f] = <<>>]
    /\ UNCHANGED <<storeVars, session, target, wipe, histVars, wipes>>

(***************************************************************************)
(* clear_session_files_today and reset_demo_session.                       *)
(***************************************************************************)
StartWipe(kind) ==
    /\ wipe.step = "none" /\ wipes < MaxWipes
    /\ rows # <<>>
    /\ wipe' = [step |-> "files", kind |-> kind, id |-> Head(rows)]
    /\ wipes' = wipes + 1
    /\ UNCHANGED <<storeVars, fileVars, histVars, faults>>

Listed(i) == {f \in table : target[f] = i}

Unlist(i) ==
    /\ table' = table \ Listed(i)
    /\ noted' = noted \ Listed(i)

\* A failed DELETE, executed or not, ends the switch's wipe; the reset goes on.
WipeFiles(done, ok) ==
    /\ wipe.step = "files"
    /\ ok => done
    /\ Outcome(ok)
    /\ IF done THEN Unlist(wipe.id) /\ erased' = erased \cup Listed(wipe.id)
       ELSE UNCHANGED <<table, noted, erased>>
    /\ wipe' = IF ok \/ wipe.kind = "reset" THEN [wipe EXCEPT !.step = "row"] ELSE NoWipe
    /\ UNCHANGED <<rows, used, raw, fileVars, unlisted, sent, rewrote, wipes>>

EmptyRaw ==
    /\ wipe.step = "row" /\ wipe.kind = "switch"
    /\ WriteRaw(wipe.id, <<>>)
    /\ wipe' = NoWipe
    /\ UNCHANGED <<rows, used, table, noted, fileVars, histVars, wipes, faults>>

\* The row goes, its session_files with it (ON DELETE CASCADE), and with
\* them whatever is still on its way to it.
DropRow ==
    /\ wipe.step = "row" /\ wipe.kind = "reset"
    /\ \E k \in 1..Len(rows) : rows[k] = wipe.id /\ rows' = RemoveAt(rows, k)
    /\ Unlist(wipe.id)
    /\ raw' = [raw EXCEPT ![wipe.id] = <<>>]
    /\ erased' = erased \cup {f \in File : target[f] = wipe.id}
    /\ wipe' = NoWipe
    /\ UNCHANGED <<used, fileVars, unlisted, sent, rewrote, wipes, faults>>

\* Either last statement may fail: it is logged, and the row stays as it was.
WipeBreaks ==
    /\ wipe.step = "row"
    /\ Outcome(FALSE)
    /\ wipe' = NoWipe
    /\ UNCHANGED <<storeVars, fileVars, histVars, wipes>>

StoreStep(f) ==
    \/ \E ok \in BOOLEAN : Find(f, ok)
    \/ Create(f) \/ CreateBreaks(f) \/ LoseRace(f) \/ Refind(f)
    \/ Download(f)
    \/ \E ok \in BOOLEAN : ListFile(f, ok)
    \/ AppendFile(f) \/ AppendBreaks(f) \/ Reread(f)
    \/ \E ok \in BOOLEAN : Rewrite(f, ok)
    \/ \E found \in BOOLEAN : Preprocess(f, found)
    \/ \E ok \in BOOLEAN : AnnotateRow(f, ok)
    \/ SelectRaw(f) \/ UpdateRaw(f) \/ UpdateBreaks(f) \/ Reselect(f) \/ Reupdate(f)
    \/ Lost(f)

WipeStep == (\E done, ok \in BOOLEAN : WipeFiles(done, ok)) \/ EmptyRaw \/ DropRow \/ WipeBreaks

Next ==
    \/ \E f \in File : Arrive(f) \/ StoreStep(f)
    \/ \E kind \in {"switch", "reset"} : StartWipe(kind)
    \/ WipeStep

\* Threads and jobs run: every call returns or fails.
FileMoves(f) == WF_vars(StoreStep(f))
WipeMoves == WF_vars(WipeStep)

Fairness == WipeMoves /\ \A f \in File : FileMoves(f)

Spec == Init /\ [][Next]_vars
FairSpec == Spec /\ Fairness

-----------------------------------------------------------------------------
(***************************************************************************)
(* Readers and properties.                                                 *)
(***************************************************************************)
InRaw(i) == {e.file : e \in ToSet(raw[i])}

\* Mutant of get_session_files: the array is read first.
RawFirst(i, read) == IF raw[i] # <<>> THEN InRaw(i) ELSE Listed(i)

\* get_session_files: the table if it could be read, or the array when the
\* table has nothing or could not.
get_session_files(i, read) == IF read /\ Listed(i) # {} THEN Listed(i) ELSE InRaw(i)

Kept(f) == stage[f] \in Acknowledged /\ f \notin erased

\* "All requests converge on the oldest row, preventing orphaned files": the
\* webhook looks the session up before the download and handle_media after
\* it, and the annotation goes to the one, the file's row to the other.
\* Whatever races for the day's row, an annotation the table accepted stands
\* in the row of its file; unless a wipe took the file, its row was never
\* inserted, or a reset deleted the session the webhook had found.
AnnotationArrives ==
    \A f \in sent : f \in noted \/ f \in erased \cup unlisted \/ ~Exists(session[f])

\* "Reads check session_files first": a file that was acknowledged, and no
\* switch or reset has taken away, is what a reader gets, whatever becomes of
\* the array, if its row was inserted and the table can be read.  A reader
\* whose read of the table fails is left with the array: it gets the file for
\* sure only while there was no wipe and no other file's call wrote the
\* array back whole.
ReaderSeesKept ==
    \A f \in File : Kept(f) =>
        /\ f \notin unlisted => f \in get_session_files(target[f], TRUE)
        /\ wipes = 0 /\ rewrote \subseteq {f} => f \in get_session_files(target[f], FALSE)

\* Unless a call has failed, no interleaving of appends, annotations written
\* back whole and wipes enters a file in the array twice.
NoDuplicates ==
    faults = 0 => \A i \in Id : \A j, k \in DOMAIN raw[i] :
                      raw[i][j].file = raw[i][k].file => j = k

\* The handler of a file comes to an end, whatever it loses races to.
HandlerEnds == \A f \in File : (stage[f] \in Storing) ~> (stage[f] \in Acknowledged \cup {"failed"})

\* "Atomic file append + update to prevent race conditions": with no call
\* failing, an acknowledged file that nobody took away is in the array.
RawKeepsFiles ==
    faults = 0 /\ wipes = 0 => \A f \in File : Kept(f) => f \in InRaw(target[f])
=============================================================================
