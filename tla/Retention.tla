------------------------------- MODULE Retention -------------------------------
(***************************************************************************)
(* The clean-up of old media (retention.py): a pass pages through the      *)
(* sessions older than its cutoff, removes their objects from the bucket   *)
(* one by one, and then writes each session's raw_files back, every media  *)
(* entry marked as cleaned.                                                *)
(*                                                                         *)
(* The array written back is the one the page returned, however long ago.  *)
(* Nothing keeps two passes apart, the cutoff is a parameter of the route  *)
(* (0 days: today's sessions too), and a pass may die anywhere; a handler  *)
(* may append a file meanwhile, and a preprocessing job write back an      *)
(* array of its own.  A preview (dry_run) makes the same reads and writes  *)
(* nothing.                                                                *)
(***************************************************************************)
EXTENDS Integers, Sequences, FiniteSets

CONSTANTS
    Sessions,   \* number of sessions; they are numbered from the oldest on
    File,       \* media files
    Owner,      \* the session of each
    Pass,       \* requests to run the clean-up
    BATCH_SIZE, \* sessions of a page
    MaxFaults   \* calls that fail, and passes that die

Session == 1..Sessions

ASSUME RetentionAssumption ==
    /\ Sessions \in Nat
    /\ Owner \in [File -> Session]
    /\ BATCH_SIZE \in Nat \ {0}
    /\ MaxFaults \in Nat

VARIABLES
    order,      \* the order in which the table returns its rows: none is asked for
    object,     \* files in the bucket
    listed,     \* files with an entry in the raw_files of their session
    marked,     \* of those, the ones whose entry is marked as cleaned
    stage,      \* where each pass stands
    cutoff,     \* sessions up to this one are older than its cutoff
    offset,     \* rows of the pages before
    found,      \* sessions it has to sweep, with their arrays as the pages had them
    todo,       \* files it has to remove for the session it is at
    removed,    \* has a removal succeeded for it?
    job,        \* the array a preprocessing job has read, to write it back
    sent,       \* history: files stored so far
    refused,    \* history: files whose removal failed
    alone,      \* history: no call of the pass but a removal has failed, and
                \* nobody else has written a session since it began
    faults

passVars == <<stage, cutoff, offset, found, todo, removed>>
tableVars == <<order, listed, marked>>
vars == <<tableVars, object, passVars, job, sent, refused, alone, faults>>

Files(s) == {f \in File : Owner[f] = s}

\* A session as a query returned it: which files were listed, which marked.
Row == [session : Session, files : SUBSET File, cleaned : SUBSET File]
RowOf(s) == [session |-> s, files |-> listed \cap Files(s), cleaned |-> marked \cap Files(s)]
NoRow == [session |-> 0]

TypeOK ==
    /\ order \in Seq(Session)
    /\ object \subseteq File /\ listed \subseteq File /\ marked \subseteq listed
    /\ stage \in [Pass -> {"idle", "paging", "sweeping", "failed", "done"}]
    /\ cutoff \in [Pass -> 0..Sessions]
    /\ offset \in [Pass -> Nat]
    /\ found \in [Pass -> Seq(Row)]
    /\ todo \in [Pass -> SUBSET File]
    /\ removed \in [Pass -> BOOLEAN]
    /\ job \in {NoRow} \cup Row
    /\ sent \subseteq File /\ refused \subseteq File
    /\ alone \in [Pass -> BOOLEAN]
    /\ faults \in 0..MaxFaults

Init ==
    /\ order = [s \in Session |-> s]
    /\ object = {} /\ listed = {} /\ marked = {}
    /\ stage = [p \in Pass |-> "idle"]
    /\ cutoff = [p \in Pass |-> 0]
    /\ offset = [p \in Pass |-> 0]
    /\ found = [p \in Pass |-> <<>>]
    /\ todo = [p \in Pass |-> {}]
    /\ removed = [p \in Pass |-> FALSE]
    /\ job = NoRow
    /\ sent = {} /\ refused = {}
    /\ alone = [p \in Pass |-> FALSE]
    /\ faults = 0

Fault == faults < MaxFaults /\ faults' = faults + 1

\* A call returns, or it fails.
Outcome(ok) == IF ok THEN UNCHANGED faults ELSE Fault

\* The update of a row may move it to the end of the table.
Reordered(s) ==
    \/ order' = order
    \/ \E i \in 1..Len(order) :
          /\ order[i] = s
          /\ order' = Append(SubSeq(order, 1, i - 1) \o SubSeq(order, i + 1, Len(order)), s)

\* A session is written by someone who is not p.
Disturb(p) == alone' = [q \in Pass |-> alone[q] /\ q = p]
DisturbAll == alone' = [q \in Pass |-> FALSE]

\* Mutant of Written: the marks are merged into those of the table.
WrittenMerged(s, files, cleaned) ==
    /\ listed' = (listed \ Files(s)) \cup files
    /\ marked' = marked \cup cleaned
    /\ Reordered(s)

\* raw_files of a session becomes this array.
Written(s, files, cleaned) ==
    /\ listed' = (listed \ Files(s)) \cup files
    /\ marked' = (marked \ Files(s)) \cup cleaned
    /\ Reordered(s)

(***************************************************************************)
(* Everybody else.                                                         *)
(***************************************************************************)
\* handle_media: the object is stored and its entry appended.
Store(f) ==
    /\ f \notin sent
    /\ sent' = sent \cup {f}
    /\ object' = object \cup {f}
    /\ listed' = listed \cup {f}
    /\ Reordered(Owner[f])
    /\ DisturbAll
    /\ UNCHANGED <<marked, passVars, job, refused, faults>>

\* update_file_in_session reads the array of a session that has a file,
ReadToNote(s) ==
    /\ job = NoRow /\ listed \cap Files(s) # {}
    /\ job' = RowOf(s)
    /\ UNCHANGED <<tableVars, object, passVars, sent, refused, alone, faults>>

\* and writes it back.
WriteNote ==
    /\ job # NoRow
    /\ Written(job.session, job.files, job.cleaned)
    /\ DisturbAll
    /\ job' = NoRow
    /\ UNCHANGED <<object, passVars, sent, refused, faults>>

(***************************************************************************)
(* A pass.                                                                 *)
(***************************************************************************)
Enter(p, s) == stage' = [stage EXCEPT ![p] = s]

Start(p, c) ==
    /\ stage[p] = "idle"
    /\ Enter(p, "paging")
    /\ cutoff' = [cutoff EXCEPT ![p] = c]
    /\ alone' = [alone EXCEPT ![p] = TRUE]
    /\ UNCHANGED <<tableVars, object, offset, found, todo, removed, job, sent, refused, faults>>

\* Mutant of Older: the cutoff is not in the query.
OlderOrNot(p) == Session

\* .lt("created_at", cutoff)
Older(p) == 1..cutoff[p]

\* Where the rows the query selects stand in the table, and which it is of them.
Selected(p) == {i \in 1..Len(order) : order[i] \in Older(p)}
Rank(p, i) == Cardinality({j \in Selected(p) : j <= i})

\* .range(offset, offset + BATCH_SIZE - 1): BATCH_SIZE of them, or what is left.
PageSize(p) ==
    LET left == Cardinality(Selected(p)) - offset[p]
    IN IF left < BATCH_SIZE THEN left ELSE BATCH_SIZE

IsPage(p, page) ==
    /\ page \in [1..PageSize(p) -> Older(p)]
    /\ \A i \in Selected(p) : Rank(p, i) - offset[p] \in DOMAIN page =>
          page[Rank(p, i) - offset[p]] = order[i]

\* Mutant of FetchPage: a page that is full is the last one too.
FetchFirstPage(p, page) ==
    /\ stage[p] = "paging" /\ IsPage(p, page)
    /\ found' = [found EXCEPT ![p] = @ \o [i \in 1..Len(page) |-> RowOf(page[i])]]
    /\ Enter(p, "sweeping")
    /\ todo' = IF found'[p] # <<>>
               THEN [todo EXCEPT ![p] = found'[p][1].files \ found'[p][1].cleaned] ELSE todo
    /\ UNCHANGED <<tableVars, object, cutoff, offset, removed, job, sent, refused, alone, faults>>

\* The last page is the one that is not full.
FetchPage(p, page) ==
    /\ stage[p] = "paging" /\ IsPage(p, page)
    /\ found' = [found EXCEPT ![p] = @ \o [i \in 1..Len(page) |-> RowOf(page[i])]]
    /\ IF Len(page) < BATCH_SIZE
       THEN Enter(p, "sweeping") /\ UNCHANGED offset
       ELSE offset' = [offset EXCEPT ![p] = @ + BATCH_SIZE] /\ UNCHANGED stage
    /\ todo' = IF stage'[p] = "sweeping" /\ found'[p] # <<>>
               THEN [todo EXCEPT ![p] = found'[p][1].files \ found'[p][1].cleaned] ELSE todo
    /\ UNCHANGED <<tableVars, object, cutoff, removed, job, sent, refused, alone, faults>>

\* The request dies: a page cannot be read, or the process restarts.
Die(p) ==
    /\ stage[p] \in {"paging", "sweeping"}
    /\ Fault
    /\ Enter(p, "failed")
    /\ found' = [found EXCEPT ![p] = <<>>]
    /\ todo' = [todo EXCEPT ![p] = {}]
    /\ alone' = [alone EXCEPT ![p] = FALSE]
    /\ UNCHANGED <<tableVars, object, cutoff, offset, removed, job, sent, refused>>

\* Removing an object that is gone already is no error.
Remove(p, f, ok) ==
    /\ stage[p] = "sweeping" /\ f \in todo[p]
    /\ Outcome(ok)
    /\ todo' = [todo EXCEPT ![p] = @ \ {f}]
    /\ object' = IF ok THEN object \ {f} ELSE object
    /\ refused' = IF ok THEN refused ELSE refused \cup {f}
    /\ removed' = [removed EXCEPT ![p] = @ \/ ok]
    /\ UNCHANGED <<tableVars, stage, cutoff, offset, found, job, sent, alone>>

\* On to the next session.
Advance(p) ==
    /\ found' = [found EXCEPT ![p] = Tail(@)]
    /\ removed' = [removed EXCEPT ![p] = FALSE]
    /\ todo' = [todo EXCEPT ![p] = IF Len(found[p]) > 1
                                    THEN found[p][2].files \ found[p][2].cleaned ELSE {}]
    /\ UNCHANGED <<object, stage, cutoff, offset, job, sent, refused>>

\* Mutant of WriteBack: the array is written before the objects are removed.
WriteBackFirst(p, ok) ==
    /\ stage[p] = "sweeping" /\ found[p] # <<>>
    /\ Outcome(ok)
    /\ IF ok
       THEN Written(Head(found[p]).session, Head(found[p]).files, Head(found[p]).files) /\ Disturb(p)
       ELSE UNCHANGED tableVars /\ alone' = [alone EXCEPT ![p] = FALSE]
    /\ UNCHANGED <<passVars, object, job, sent, refused>>

\* The array is written when a removal has succeeded: all its media entries
\* marked, those whose removal failed with them.  An error is only noted.
WriteBack(p, ok) ==
    /\ stage[p] = "sweeping" /\ todo[p] = {} /\ found[p] # <<>> /\ removed[p]
    /\ Outcome(ok)
    /\ IF ok
       THEN Written(Head(found[p]).session, Head(found[p]).files, Head(found[p]).files) /\ Disturb(p)
       ELSE UNCHANGED tableVars /\ alone' = [alone EXCEPT ![p] = FALSE]
    /\ Advance(p)

Skip(p) ==
    /\ stage[p] = "sweeping" /\ todo[p] = {} /\ found[p] # <<>> /\ ~removed[p]
    /\ Advance(p)
    /\ UNCHANGED <<tableVars, alone, faults>>

Finish(p) ==
    /\ stage[p] = "sweeping" /\ todo[p] = {} /\ found[p] = <<>>
    /\ Enter(p, "done")
    /\ UNCHANGED <<tableVars, object, cutoff, offset, found, todo, removed, job, sent, refused,
                   alone, faults>>

PassStep(p) ==
    \/ \E c \in 0..Sessions : Start(p, c)
    \/ \E page \in UNION {[1..n -> Older(p)] : n \in 0..BATCH_SIZE} : FetchPage(p, page)
    \/ Die(p)
    \/ \E f \in File, ok \in BOOLEAN : Remove(p, f, ok)
    \/ \E ok \in BOOLEAN : WriteBack(p, ok)
    \/ Skip(p)
    \/ Finish(p)

Next ==
    \/ \E f \in File : Store(f)
    \/ \E s \in Session : ReadToNote(s)
    \/ WriteNote
    \/ \E p \in Pass : PassStep(p)

Spec == Init /\ [][Next]_vars

-----------------------------------------------------------------------------
(***************************************************************************)
(* Properties.                                                             *)
(***************************************************************************)
\* An entry is marked only when its object is gone, or its removal failed: the
\* mark is written a removal later, by a pass that may overlap others and die
\* between the two, from an array that may be stale by then.
MarkedIsGone == marked \cap object \subseteq refused

\* "Safe to run multiple times": whatever passes before it did or left undone,
\* a pass in which only removals fail, and during which nobody else writes a
\* session, leaves every file its cutoff selects gone and marked, but those some
\* pass failed to remove.
PassSweeps ==
    [][\A p \in Pass : stage[p] = "sweeping" /\ stage'[p] = "done" /\ alone[p] =>
          \A f \in listed \ refused : Owner[f] <= cutoff[p] => f \notin object /\ f \in marked]_vars

\* Only what is older than the cutoff of some pass loses its object or its path.
YoungUntouched ==
    \A f \in (sent \ object) \cup marked : \E p \in Pass : Owner[f] <= cutoff[p]
=============================================================================
