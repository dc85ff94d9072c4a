----------------------------- MODULE ConfigCache -----------------------------
(***************************************************************************)
(* The configuration of the implementations as each process caches it      *)
(* (config_loader.py), against the backoffice that edits it (admin.py).    *)
(*                                                                         *)
(* The web process and the worker have a cache each; an edit empties the   *)
(* web process's only.  A configuration is loaded with calls that block    *)
(* the event loop, so nothing else happens in that process meanwhile; the  *)
(* keyword index is read in a thread, and everything may happen meanwhile. *)
(* What a row holds is abstracted to its version: the number of writes     *)
(* the database had seen.                                                  *)
(***************************************************************************)
EXTENDS Naturals, Sequences

CONSTANTS
    Impl,       \* implementations
    FileImpl,   \* those with schemas in src/implementations
    Request,    \* messages whose first word is looked up as a keyword
    TTL,        \* _CACHE_TTL
    MaxTime,    \* bound of the clock
    MaxWrites,  \* bound of the edits
    MaxFaults   \* bound of the failed calls

ASSUME CacheAssumption ==
    /\ FileImpl \subseteq Impl
    /\ TTL \in Nat \ {0} /\ MaxTime \in Nat
    /\ MaxWrites \in Nat /\ MaxFaults \in Nat

VARIABLES
    clock,
    written,    \* when each version of the database was written
    active,     \* implementations whose status is "active"; the others are
                \* inactive, or not there yet
    cache,      \* _cache with _cache_ts, of each process
    loading,    \* the loads each process is in
    index,      \* _keyword_index with _keyword_index_ts, of the web process
    lookup,     \* where each request's lookup stands
    acked,      \* history: version of the last edit of each implementation
                \* that the web process has reloaded after
    faults

vars == <<clock, written, active, cache, loading, index, lookup, acked, faults>>

Process == {"web", "worker"}
Time == 0..MaxTime
Version == 0..MaxWrites + 1
Now == Len(written)     \* the version the database is at

\* version 0 of a row: what the files hold.
Entry == [cached : BOOLEAN, row : Version, types : Version, at : Time]
NoEntry == [cached |-> FALSE, row |-> 0, types |-> 0, at |-> 0]

\* row is 0 when nothing is being loaded.
Load == [row : Version, at : Time]
NoLoad == [row |-> 0, at |-> 0]

Lookup == [step : {"new", "asked", "read", "done"}, version : Version, at : Time]
NoLookup(step) == [step |-> step, version |-> 0, at |-> 0]

TypeOK ==
    /\ clock \in Time
    /\ written \in Seq(Time) /\ Now \in 1..MaxWrites + 1
    /\ active \subseteq Impl
    /\ cache \in [Process -> [Impl -> Entry]]
    /\ loading \in [Process -> [Impl -> Load]]
    /\ index \in [version : Version, at : Time]
    /\ lookup \in [Request -> Lookup]
    /\ acked \in [Impl -> Version]
    /\ faults \in 0..MaxFaults

Init ==
    /\ clock = 0
    /\ written = <<0>>
    /\ active \in SUBSET Impl
    /\ cache = [p \in Process |-> [i \in Impl |-> NoEntry]]
    /\ loading = [p \in Process |-> [i \in Impl |-> NoLoad]]
    /\ index = [version |-> 0, at |-> 0]
    /\ lookup = [r \in Request |-> NoLookup("new")]
    /\ acked = [i \in Impl |-> 0]
    /\ faults = 0

Fault == faults < MaxFaults /\ faults' = faults + 1

Tick ==
    /\ clock < MaxTime
    /\ clock' = clock + 1
    /\ UNCHANGED <<written, active, cache, loading, index, lookup, acked, faults>>

(***************************************************************************)
(* Loading a configuration.                                                *)
(***************************************************************************)
\* Mutant of LoopFree: the load awaits, and other coroutines run.
LoopShared(p) == p \in Process

\* The supabase client's calls block: no coroutine of the process runs.
LoopFree(p) == \A i \in Impl : loading[p][i] = NoLoad

Fresh(p, i) == cache[p][i].cached /\ clock - cache[p][i].at < TTL

\* The configuration of i as of its rows, stamped with the time at which
\* get_implementation was called.
Keep(p, i, row, types, now) ==
    cache' = [cache EXCEPT ![p][i] = [cached |-> TRUE, row |-> row, types |-> types, at |-> now]]

\* _load_from_files; where there are none the caller gets a ValueError.
_load_from_files(p, i, now) ==
    IF i \in FileImpl THEN Keep(p, i, 0, 0, now) ELSE UNCHANGED cache

\* get_implementation with nothing fresh: the row is read, or cannot be, or
\* is not active.
LoadRow(p, i) ==
    /\ LoopFree(p) /\ loading[p][i] = NoLoad
    /\ ~Fresh(p, i)
    /\ \/ /\ i \in active
          /\ loading' = [loading EXCEPT ![p][i] = [row |-> Now, at |-> clock]]
          /\ UNCHANGED <<cache, faults>>
       \/ /\ IF i \in active THEN Fault ELSE UNCHANGED faults
          /\ _load_from_files(p, i, clock)
          /\ UNCHANGED loading
    /\ UNCHANGED <<clock, written, active, index, lookup, acked>>

\* Mutant of LoadTypes: the entry is stamped when it is stored.
LoadTypesStampedLate(p, i) ==
    /\ loading[p][i] # NoLoad
    /\ Keep(p, i, loading[p][i].row, Now, clock)
    /\ loading' = [loading EXCEPT ![p][i] = NoLoad]
    /\ UNCHANGED <<clock, written, active, index, lookup, acked, faults>>

\* Mutant of LoadTypes: the expiry is stored for the time of the load.
LoadTypesWithExpiry(p, i) ==
    /\ loading[p][i] # NoLoad
    /\ Keep(p, i, loading[p][i].row, Now, loading[p][i].at + TTL)
    /\ loading' = [loading EXCEPT ![p][i] = NoLoad]
    /\ UNCHANGED <<clock, written, active, index, lookup, acked, faults>>

\* Then the visit types, which may fail: the row is dropped with them.
LoadTypes(p, i) ==
    /\ loading[p][i] # NoLoad
    /\ \/ Keep(p, i, loading[p][i].row, Now, loading[p][i].at) /\ UNCHANGED faults
       \/ Fault /\ _load_from_files(p, i, loading[p][i].at)
    /\ loading' = [loading EXCEPT ![p][i] = NoLoad]
    /\ UNCHANGED <<clock, written, active, index, lookup, acked>>

(***************************************************************************)
(* The backoffice, in the web process.                                     *)
(***************************************************************************)
Write ==
    /\ LoopFree("web")
    /\ Now <= MaxWrites
    /\ written' = Append(written, clock)

\* reload(impl_id), or reload of all: the index goes in any case.
reload(impls) ==
    /\ cache' = [cache EXCEPT !["web"] = [i \in Impl |-> IF i \in impls THEN NoEntry ELSE @[i]]]
    /\ index' = [version |-> 0, at |-> 0]

\* The row is written and the caches emptied in one turn of the loop; when
\* the answer is lost, the row may be written and nothing is emptied.
update_implementation(i) ==
    /\ Write
    /\ \E status \in {active \cup {i}, active \ {i}, active} : active' = status
    /\ \/ reload({i}) /\ acked' = [acked EXCEPT ![i] = Now + 1] /\ UNCHANGED faults
       \/ Fault /\ UNCHANGED <<cache, index, acked>>
    /\ UNCHANGED <<clock, loading, lookup>>

\* Neither empties a cache.
create_implementation(i) ==
    /\ i \notin active
    /\ Write
    /\ active' = active \cup {i}
    /\ UNCHANGED <<clock, cache, loading, index, lookup, acked, faults>>

delete_implementation(i) ==
    /\ i \in active
    /\ Write
    /\ active' = active \ {i}
    /\ UNCHANGED <<clock, cache, loading, index, lookup, acked, faults>>

\* A visit type is created, updated or deleted: no cache is emptied.
WriteVisitType ==
    /\ Write
    /\ UNCHANGED <<clock, active, cache, loading, index, lookup, acked, faults>>

reload_config(impls) ==
    /\ LoopFree("web")
    /\ reload(impls)
    /\ acked' = [i \in Impl |-> IF i \in impls THEN Now ELSE acked[i]]
    /\ UNCHANGED <<clock, written, active, loading, lookup, faults>>

(***************************************************************************)
(* get_impl_by_keyword.                                                    *)
(***************************************************************************)
IndexFresh == index.version # 0 /\ clock - index.at <= TTL

\* A fresh index answers at once; otherwise its build begins.
Ask(r) ==
    /\ LoopFree("web")
    /\ lookup[r].step = "new"
    /\ lookup' = [lookup EXCEPT ![r] =
          IF IndexFresh THEN NoLookup("done") ELSE [NoLookup("asked") EXCEPT !.at = clock]]
    /\ UNCHANGED <<clock, written, active, cache, loading, index, acked, faults>>

\* The thread reads the active implementations; when it cannot, or when no
\* row has a keyword, the index is empty.
ReadKeywords(r) ==
    /\ lookup[r].step = "asked"
    /\ \E version \in {Now, 0} :
          lookup' = [lookup EXCEPT ![r].step = "read", ![r].version = version]
    /\ UNCHANGED <<clock, written, active, cache, loading, index, acked, faults>>

\* Mutant of StoreIndex: the index is stamped when it is stored.
StoreIndexStampedLate(r) ==
    /\ LoopFree("web")
    /\ lookup[r].step = "read"
    /\ index' = [version |-> lookup[r].version, at |-> clock]
    /\ lookup' = [lookup EXCEPT ![r] = NoLookup("done")]
    /\ UNCHANGED <<clock, written, active, cache, loading, acked, faults>>

\* The coroutine goes on, and stamps the index with the time of the question.
StoreIndex(r) ==
    /\ LoopFree("web")
    /\ lookup[r].step = "read"
    /\ index' = [version |-> lookup[r].version, at |-> lookup[r].at]
    /\ lookup' = [lookup EXCEPT ![r] = NoLookup("done")]
    /\ UNCHANGED <<clock, written, active, cache, loading, acked, faults>>

Edit ==
    \/ \E i \in Impl : update_implementation(i) \/ create_implementation(i) \/ delete_implementation(i)
    \/ WriteVisitType
    \/ \E impls \in {Impl} \cup {{i} : i \in Impl} : reload_config(impls)

Next ==
    \/ Tick
    \/ \E p \in Process, i \in Impl : LoadRow(p, i) \/ LoadTypes(p, i)
    \/ Edit
    \/ \E r \in Request : Ask(r) \/ ReadKeywords(r) \/ StoreIndex(r)

Spec == Init /\ [][Next]_vars

-----------------------------------------------------------------------------
(***************************************************************************)
(* Properties.                                                             *)
(***************************************************************************)
\* Version n was the database's at some moment since t.
CurrentSince(n, t) == n = Now \/ written[n + 1] >= t

\* "auto-invalidates after 5min": what get_implementation gives without a
\* load, in the worker too, which no edit reaches, was in both tables less
\* than a TTL ago, although the rows are read some time after the stamp.
ConfigWithinTTL ==
    \A p \in Process, i \in Impl :
        Fresh(p, i) /\ cache[p][i].row # 0 =>
            /\ CurrentSince(cache[p][i].row, clock - TTL + 1)
            /\ CurrentSince(cache[p][i].types, clock - TTL + 1)

\* The same of the keywords, although builds of several requests overlap,
\* with edits in between, and the last to end overwrites the others.
KeywordsWithinTTL ==
    IndexFresh => \A t \in Time : t + TTL <= clock => CurrentSince(index.version, t)

\* "Clear cache, forcing next access to reload": once an edit or a reload of
\* an implementation has returned, the web process has no older row of it,
\* not even from a load that overlapped it.
WebSeesItsEdits ==
    \A i \in Impl : cache["web"][i].cached /\ cache["web"][i].row # 0 =>
        cache["web"][i].row >= acked[i]
=============================================================================
