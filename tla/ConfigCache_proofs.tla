-------------------------- MODULE ConfigCache_proofs --------------------------
(***************************************************************************)
(* Proofs about ConfigCache, for every number of implementations, lookups  *)
(* and failed calls, every TTL and every bound.                            *)
(***************************************************************************)
EXTENDS ConfigCache, TLAPS, SequenceTheorems

\* CurrentSince, of a history of writes given as w.
Since(w, n, t) == n = Len(w) \/ w[n + 1] >= t

\* A version the history has that was current since t.
Seen(w, n, t) == n \in 1..Len(w) /\ t \in Nat /\ Since(w, n, t)

\* Another write, now, ends the last version no earlier than now.
LEMMA SeenKept ==
  ASSUME NEW w \in Seq(Nat), NEW now \in Nat, NEW t \in 0..now, NEW n \in Nat, Seen(w, n, t)
  PROVE  Seen(Append(w, now), n, t)
<1>1. Len(Append(w, now)) = Len(w) + 1 /\ Len(w) \in Nat
  OBVIOUS
<1>2. Append(w, now)[Len(w) + 1] = now
  OBVIOUS
<1>3. CASE n = Len(w)
  BY <1>1, <1>2, <1>3 DEF Seen, Since
<1>4. CASE n # Len(w)
  <2>1. n + 1 \in 1..Len(w) /\ w[n + 1] >= t
    BY <1>1, <1>4 DEF Seen, Since
  <2>2. Append(w, now)[n + 1] = w[n + 1]
    BY <2>1
  <2> QED
    BY <1>1, <2>1, <2>2 DEF Seen, Since
<1> QED
  BY <1>3, <1>4

\* The last version is current, whatever t.
LEMMA LastSeen ==
  ASSUME NEW w \in Seq(Nat), Len(w) # 0, NEW t \in Nat
  PROVE  Seen(w, Len(w), t)
  BY DEF Seen, Since

\* Keep keeps the type; _load_from_files changes one entry or none.
LEMMA KeepType ==
  ASSUME TypeOK, NEW p \in Process, NEW i \in Impl,
         NEW row \in Version, NEW types \in Version, NEW now \in Time, Keep(p, i, row, types, now)
  PROVE  cache' \in [Process -> [Impl -> Entry]]
<1>1. [cached |-> TRUE, row |-> row, types |-> types, at |-> now] \in Entry
  BY DEF Entry
<1> QED
  BY <1>1 DEF Keep, TypeOK

LEMMA FilesOne ==
  ASSUME TypeOK, NEW p \in Process, NEW i \in Impl, NEW now \in Time, _load_from_files(p, i, now)
  PROVE  /\ cache' \in [Process -> [Impl -> Entry]]
         /\ cache'[p][i] = cache[p][i] \/ (cache'[p][i].row = 0 /\ cache'[p][i].at = now)
         /\ \A q \in Process, k \in Impl : q # p \/ k # i => cache'[q][k] = cache[q][k]
<1>1. 0 \in Version
  BY CacheAssumption DEF Version
<1>2. CASE Keep(p, i, 0, 0, now)
  <2>1. [cached |-> TRUE, row |-> 0, types |-> 0, at |-> now] \in Entry
    BY <1>1 DEF Entry
  <2> QED
    BY <1>2, <2>1 DEF Keep, TypeOK
<1>3. CASE UNCHANGED cache
  BY <1>3 DEF TypeOK
<1> QED
  BY <1>2, <1>3 DEF _load_from_files

\* A load begins or ends.
LEMMA LoadOne ==
  ASSUME TypeOK, NEW p \in Process, NEW i \in Impl, NEW load \in Load, loading' = [loading EXCEPT ![p][i] = load]
  PROVE  /\ loading' \in [Process -> [Impl -> Load]]
         /\ loading'[p][i] = load
         /\ \A q \in Process, k \in Impl : q # p \/ k # i => loading'[q][k] = loading[q][k]
  BY DEF TypeOK

\* reload empties entries of the web process.
LEMMA ReloadSome ==
  ASSUME TypeOK, NEW impls \in SUBSET Impl, reload(impls)
  PROVE  /\ cache' \in [Process -> [Impl -> Entry]]
         /\ index' \in [version : Version, at : Time]
         /\ \A q \in Process, k \in Impl : cache'[q][k] = IF q = "web" /\ k \in impls THEN NoEntry ELSE cache[q][k]
<1>1. NoEntry \in Entry /\ 0 \in Version /\ 0 \in Time
  BY CacheAssumption DEF NoEntry, Entry, Version, Time
<1>2. index' \in [version : Version, at : Time]
  BY <1>1 DEF reload
<1>3. cache["web"] \in [Impl -> Entry]
  BY DEF TypeOK, Process
<1> DEFINE web == [i \in Impl |-> IF i \in impls THEN NoEntry ELSE cache["web"][i]]
<1>4. web \in [Impl -> Entry]
  BY <1>1, <1>3
<1>5. cache' = [cache EXCEPT !["web"] = web]
  BY DEF reload
<1> HIDE DEF web
<1>6. cache' \in [Process -> [Impl -> Entry]] /\ cache'["web"] = web
  BY <1>4, <1>5 DEF TypeOK, Process
<1>7. \A q \in Process : q # "web" => cache'[q] = cache[q]
  BY <1>5 DEF TypeOK
<1> QED
  BY <1>2, <1>6, <1>7 DEF web

\* The version of the database is one more after a write.
LEMMA WriteNow ==
  ASSUME TypeOK, Write
  PROVE  written' \in Seq(Time) /\ Now' = Now + 1 /\ Now' \in 1..MaxWrites + 1 /\ Now + 1 \in Version
<1>1. /\ written \in Seq(Time) /\ clock \in Time
      /\ written' = Append(written, clock)
      /\ Len(written) \in 1..MaxWrites + 1 /\ Len(written) <= MaxWrites
  BY DEF TypeOK, Write, Now
<1>2. written' \in Seq(Time) /\ Len(written') = Len(written) + 1
  BY <1>1
<1> QED
  BY <1>1, <1>2, CacheAssumption DEF Now, Version

-----------------------------------------------------------------------------
\* What a step does to the type of every variable.
LEMMA TypeStep == TypeOK /\ [Next]_vars => TypeOK'
<1> SUFFICES ASSUME TypeOK, [Next]_vars PROVE TypeOK'
  OBVIOUS
<1>n. Now \in Version /\ Now # 0 /\ 0 \in Version /\ 0 \in Time /\ clock \in Time
  BY CacheAssumption DEF TypeOK, Version, Time
<1>w. UNCHANGED written => Now' = Now
  BY DEF Now
<1>f. Fault => faults' \in 0..MaxFaults
  BY CacheAssumption DEF TypeOK, Fault
<1>1. CASE Tick
  <2>1. clock + 1 \in Time
    BY <1>1, CacheAssumption DEF Tick, TypeOK, Time
  <2> QED
    BY <1>1, <1>w, <2>1 DEF Tick, TypeOK
<1>2. ASSUME NEW p \in Process, NEW i \in Impl, LoadRow(p, i) PROVE TypeOK'
  <2>1. CASE loading' = [loading EXCEPT ![p][i] = [row |-> Now, at |-> clock]] /\ UNCHANGED <<cache, faults>>
    <3>1. [row |-> Now, at |-> clock] \in Load
      BY <1>n DEF Load
    <3>2. loading' \in [Process -> [Impl -> Load]]
      BY <2>1, <3>1, LoadOne
    <3> QED
      BY <1>2, <1>w, <2>1, <3>2 DEF LoadRow, TypeOK
  <2>2. CASE _load_from_files(p, i, clock) /\ UNCHANGED loading /\ (Fault \/ UNCHANGED faults)
    <3>1. cache' \in [Process -> [Impl -> Entry]]
      BY <1>n, <2>2, FilesOne
    <3> QED
      BY <1>2, <1>w, <1>f, <2>2, <3>1 DEF LoadRow, TypeOK
  <2> QED
    BY <1>2, <2>1, <2>2 DEF LoadRow
<1>3. ASSUME NEW p \in Process, NEW i \in Impl, LoadTypes(p, i) PROVE TypeOK'
  <2>1. loading[p][i].row \in Version /\ loading[p][i].at \in Time
    BY DEF TypeOK, Load
  <2>2. cache' \in [Process -> [Impl -> Entry]]
    BY <1>3, <1>n, <2>1, KeepType, FilesOne DEF LoadTypes
  <2>3. NoLoad \in Load
    BY <1>n DEF NoLoad, Load
  <2>4. loading' \in [Process -> [Impl -> Load]]
    BY <1>3, <2>3, LoadOne DEF LoadTypes
  <2> QED
    BY <1>3, <1>w, <1>f, <2>2, <2>4 DEF LoadTypes, TypeOK
<1>6. ASSUME NEW i \in Impl, update_implementation(i) PROVE TypeOK'
  <2>1. written' \in Seq(Time) /\ Now' \in 1..MaxWrites + 1 /\ Now + 1 \in Version
    BY <1>6, WriteNow DEF update_implementation
  <2>2. acked' \in [Impl -> Version] /\ faults' \in 0..MaxFaults
    BY <1>6, <1>f, <2>1 DEF update_implementation, TypeOK
  <2>3. cache' \in [Process -> [Impl -> Entry]] /\ index' \in [version : Version, at : Time]
    <3>1. CASE reload({i})
      BY <3>1, ReloadSome
    <3>2. CASE UNCHANGED <<cache, index>>
      BY <3>2 DEF TypeOK
    <3> QED
      BY <1>6, <3>1, <3>2 DEF update_implementation
  <2>4. active' \subseteq Impl
    BY <1>6 DEF update_implementation, TypeOK
  <2> QED
    BY <1>6, <2>1, <2>2, <2>3, <2>4 DEF update_implementation, TypeOK
<1>7. ASSUME NEW i \in Impl, create_implementation(i) PROVE TypeOK'
  BY <1>7, WriteNow DEF create_implementation, TypeOK
<1>8. ASSUME NEW i \in Impl, delete_implementation(i) PROVE TypeOK'
  BY <1>8, WriteNow DEF delete_implementation, TypeOK
<1>9. CASE WriteVisitType
  BY <1>9, WriteNow DEF WriteVisitType, TypeOK
<1>10. ASSUME NEW impls \in SUBSET Impl, reload_config(impls) PROVE TypeOK'
  <2>1. cache' \in [Process -> [Impl -> Entry]] /\ index' \in [version : Version, at : Time]
    BY <1>10, ReloadSome DEF reload_config
  <2>2. acked' \in [Impl -> Version]
    BY <1>10, <1>n DEF reload_config, TypeOK
  <2> QED
    BY <1>10, <1>w, <2>1, <2>2 DEF reload_config, TypeOK
<1>11. ASSUME NEW r \in Request, Ask(r) PROVE TypeOK'
  BY <1>11, <1>w, <1>n DEF Ask, TypeOK, Lookup, NoLookup
<1>12. ASSUME NEW r \in Request, ReadKeywords(r) PROVE TypeOK'
  <2>1. PICK version \in Version : lookup' = [lookup EXCEPT ![r].step = "read", ![r].version = version]
    BY <1>12, <1>n DEF ReadKeywords
  <2>2. lookup' \in [Request -> Lookup]
    BY <2>1 DEF TypeOK, Lookup
  <2> QED
    BY <1>12, <1>w, <2>2 DEF ReadKeywords, TypeOK
<1>13. ASSUME NEW r \in Request, StoreIndex(r) PROVE TypeOK'
  BY <1>13, <1>w, <1>n DEF StoreIndex, TypeOK, Lookup, NoLookup
<1>14. CASE UNCHANGED vars
  BY <1>14, <1>w DEF vars, TypeOK
<1> QED
  BY <1>1, <1>2, <1>3, <1>6, <1>7, <1>8, <1>9, <1>10, <1>11, <1>12, <1>13, <1>14 DEF Next, Edit

LEMMA TypeInit == Init => TypeOK
  BY CacheAssumption DEF Init, TypeOK, Now, Time, Version, Process, Entry, NoEntry, Load, NoLoad, Lookup, NoLookup

\* In every reachable state every variable has its type: the versions kept
\* anywhere are versions, the stamps times, the calls that failed bounded.
THEOREM TypeCorrect == Spec => []TypeOK
<1> QED
  BY TypeInit, TypeStep, PTL DEF Spec

-----------------------------------------------------------------------------
(***************************************************************************)
(* The strengthening: what is cached, being loaded or being built was      *)
(* current at its stamp, and no stamp lies in the future.                  *)
(***************************************************************************)
CacheSeen ==
    \A p \in Process, i \in Impl :
        /\ cache[p][i].at <= clock
        /\ cache[p][i].row # 0 =>
              /\ Seen(written, cache[p][i].row, cache[p][i].at)
              /\ Seen(written, cache[p][i].types, cache[p][i].at)

LoadSeen ==
    \A p \in Process, i \in Impl :
        /\ loading[p][i].at <= clock
        /\ loading[p][i].row # 0 => Seen(written, loading[p][i].row, loading[p][i].at)
        /\ loading[p][i].row = 0 => loading[p][i] = NoLoad

IndexSeen ==
    /\ index.at <= clock
    /\ index.version # 0 => Seen(written, index.version, index.at)

LookupSeen ==
    \A r \in Request :
        /\ lookup[r].at <= clock
        /\ lookup[r].version # 0 => Seen(written, lookup[r].version, lookup[r].at)

Stamped == CacheSeen /\ LoadSeen /\ IndexSeen /\ LookupSeen

\* A write leaves all four as they are.
LEMMA WriteKeeps ==
  ASSUME TypeOK, Stamped, written' = Append(written, clock), UNCHANGED clock
  PROVE  /\ UNCHANGED cache => CacheSeen'
         /\ UNCHANGED loading => LoadSeen'
         /\ UNCHANGED index => IndexSeen'
         /\ UNCHANGED lookup => LookupSeen'
         /\ \A n, t \in Nat : t <= clock /\ Seen(written, n, t) => Seen(written', n, t)
<1> USE CacheAssumption
<1>1. written \in Seq(Nat) /\ clock \in Nat
  BY DEF TypeOK, Time
<1>2. ASSUME NEW n \in Nat, NEW t \in Nat, t <= clock, Seen(written, n, t) PROVE Seen(written', n, t)
  BY <1>1, <1>2, SeenKept
<1>3. ASSUME UNCHANGED cache PROVE CacheSeen'
  BY <1>2, <1>3 DEF CacheSeen, Stamped, TypeOK, Entry, Version, Time
<1>4. ASSUME UNCHANGED loading PROVE LoadSeen'
  BY <1>2, <1>4 DEF LoadSeen, Stamped, TypeOK, Load, Version, Time
<1>5. ASSUME UNCHANGED index PROVE IndexSeen'
  BY <1>2, <1>5 DEF IndexSeen, Stamped, TypeOK, Version, Time
<1>6. ASSUME UNCHANGED lookup PROVE LookupSeen'
  BY <1>2, <1>6 DEF LookupSeen, Stamped, TypeOK, Lookup, Version, Time
<1> QED
  BY <1>2, <1>3, <1>4, <1>5, <1>6

LEMMA StampedStep == TypeOK /\ Stamped /\ [Next]_vars => Stamped'
<1> SUFFICES ASSUME TypeOK, Stamped, [Next]_vars PROVE Stamped'
  OBVIOUS
<1>t. /\ written \in Seq(Nat) /\ clock \in Nat
      /\ Now \in Nat \ {0} /\ Now = Len(written)
  BY CacheAssumption DEF TypeOK, Time, Now
<1>n. \A t \in Nat : Seen(written, Now, t)
  BY <1>t, LastSeen
<1>1. CASE Tick
  BY <1>1, <1>t DEF Tick, Stamped, CacheSeen, LoadSeen, IndexSeen, LookupSeen, TypeOK, Entry, Load, Lookup, Time
<1>2. ASSUME NEW p \in Process, NEW i \in Impl, LoadRow(p, i) PROVE Stamped'
  <2>1. UNCHANGED <<clock, written, index, lookup>>
    BY <1>2 DEF LoadRow
  <2>2. CacheSeen'
    <3>1. CASE UNCHANGED cache
      BY <2>1, <3>1 DEF CacheSeen, Stamped
    <3>2. CASE _load_from_files(p, i, clock)
      <4>1. clock \in Time
        BY DEF TypeOK
      <4>2. /\ cache'[p][i] = cache[p][i] \/ (cache'[p][i].row = 0 /\ cache'[p][i].at = clock)
            /\ \A q \in Process, k \in Impl : q # p \/ k # i => cache'[q][k] = cache[q][k]
        BY <3>2, <4>1, FilesOne
      <4> QED
        BY <1>t, <2>1, <4>2 DEF CacheSeen, Stamped
    <3> QED
      BY <1>2, <3>1, <3>2 DEF LoadRow
  <2>3. LoadSeen'
    <3>1. CASE UNCHANGED loading
      BY <2>1, <3>1 DEF LoadSeen, Stamped
    <3>2. CASE loading' = [loading EXCEPT ![p][i] = [row |-> Now, at |-> clock]]
      <4>1. [row |-> Now, at |-> clock] \in Load
        BY CacheAssumption DEF TypeOK, Load, Version
      <4>2. /\ loading'[p][i] = [row |-> Now, at |-> clock]
            /\ \A q \in Process, k \in Impl : q # p \/ k # i => loading'[q][k] = loading[q][k]
        BY <3>2 DEF TypeOK
      <4> QED
        BY <1>t, <1>n, <2>1, <4>2 DEF LoadSeen, Stamped
    <3> QED
      BY <1>2, <3>1, <3>2 DEF LoadRow
  <2> QED
    BY <2>1, <2>2, <2>3 DEF Stamped, IndexSeen, LookupSeen
<1>3. ASSUME NEW p \in Process, NEW i \in Impl, LoadTypes(p, i) PROVE Stamped'
  <2>1. UNCHANGED <<clock, written, index, lookup>>
    BY <1>3 DEF LoadTypes
  <2>2. loading[p][i].row # 0 /\ loading[p][i].at \in Nat
    BY <1>3 DEF LoadTypes, Stamped, LoadSeen, TypeOK, Load, Time
  <2>v. loading[p][i].row \in Version /\ loading[p][i].at \in Time /\ Now \in Version
    BY CacheAssumption DEF TypeOK, Load, Version
  <2>3. CacheSeen'
    <3>1. CASE Keep(p, i, loading[p][i].row, Now, loading[p][i].at)
      <4>1. /\ cache'[p][i].row = loading[p][i].row /\ cache'[p][i].types = Now /\ cache'[p][i].at = loading[p][i].at
            /\ \A q \in Process, k \in Impl : q # p \/ k # i => cache'[q][k] = cache[q][k]
        BY <3>1 DEF Keep, TypeOK
      <4>2. /\ loading[p][i].at <= clock
            /\ Seen(written, loading[p][i].row, loading[p][i].at)
            /\ Seen(written, Now, loading[p][i].at)
        BY <1>n, <2>2 DEF Stamped, LoadSeen
      <4> QED
        BY <2>1, <4>1, <4>2 DEF CacheSeen, Stamped
    <3>2. CASE _load_from_files(p, i, loading[p][i].at)
      <4>1. /\ cache'[p][i] = cache[p][i] \/ (cache'[p][i].row = 0 /\ cache'[p][i].at = loading[p][i].at)
            /\ \A q \in Process, k \in Impl : q # p \/ k # i => cache'[q][k] = cache[q][k]
        BY <2>v, <3>2, FilesOne
      <4>2. loading[p][i].at <= clock
        BY DEF Stamped, LoadSeen
      <4> QED
        BY <2>1, <4>1, <4>2 DEF CacheSeen, Stamped
    <3> QED
      BY <1>3, <3>1, <3>2 DEF LoadTypes
  <2>4. LoadSeen'
    <3>1. NoLoad \in Load
      BY CacheAssumption DEF NoLoad, Load, Version, Time
    <3>2. /\ loading'[p][i] = NoLoad
          /\ \A q \in Process, k \in Impl : q # p \/ k # i => loading'[q][k] = loading[q][k]
      BY <1>3 DEF LoadTypes, TypeOK
    <3>3. NoLoad.row = 0 /\ NoLoad.at <= clock
      BY <1>t DEF NoLoad
    <3> QED
      BY <2>1, <3>2, <3>3 DEF LoadSeen, Stamped
  <2> QED
    BY <2>1, <2>3, <2>4 DEF Stamped, IndexSeen, LookupSeen
<1>4. ASSUME NEW impls \in SUBSET Impl, reload(impls), UNCHANGED clock,
             UNCHANGED cache => CacheSeen',
             written' = written \/ written' = Append(written, clock)
      PROVE  CacheSeen' /\ IndexSeen'
  <2>1. ASSUME NEW n \in Nat, NEW t \in Nat, t <= clock, Seen(written, n, t) PROVE Seen(written', n, t)
    BY <1>4, <2>1, WriteKeeps
  <2>2. \A p \in Process, i \in Impl : cache'[p][i] = NoEntry \/ cache'[p][i] = cache[p][i]
    BY <1>4, ReloadSome
  <2>v. ASSUME NEW p \in Process, NEW i \in Impl
        PROVE  cache[p][i].row \in Nat /\ cache[p][i].types \in Nat /\ cache[p][i].at \in Nat
    BY CacheAssumption DEF TypeOK, Entry, Version, Time
  <2>e. NoEntry.row = 0 /\ NoEntry.at <= clock
    BY <1>t DEF NoEntry
  <2>3. CacheSeen'
    <3> SUFFICES ASSUME NEW p \in Process, NEW i \in Impl
                 PROVE  /\ cache'[p][i].at <= clock
                        /\ cache'[p][i].row # 0 =>
                              /\ Seen(written', cache'[p][i].row, cache'[p][i].at)
                              /\ Seen(written', cache'[p][i].types, cache'[p][i].at)
      BY <1>4 DEF CacheSeen
    <3>1. CASE cache'[p][i] = NoEntry
      BY <2>e, <3>1
    <3>2. CASE cache'[p][i] = cache[p][i]
      BY <2>1, <2>v, <3>2 DEF CacheSeen, Stamped
    <3> QED
      BY <2>2, <3>1, <3>2
  <2> QED
    BY <1>4, <1>t, <2>3 DEF reload, IndexSeen
<1>5. ASSUME NEW i \in Impl, update_implementation(i) PROVE Stamped'
  <2>1. written' = Append(written, clock) /\ UNCHANGED <<clock, loading, lookup>>
    BY <1>5 DEF update_implementation, Write
  <2>2. LoadSeen' /\ LookupSeen'
    BY <2>1, WriteKeeps
  <2>3. CASE reload({i})
    BY <1>4, <2>1, <2>2, <2>3, WriteKeeps DEF Stamped
  <2>4. CASE UNCHANGED <<cache, index>>
    BY <2>1, <2>2, <2>4, WriteKeeps DEF Stamped
  <2> QED
    BY <1>5, <2>3, <2>4 DEF update_implementation
<1>6. ASSUME NEW i \in Impl, create_implementation(i) \/ delete_implementation(i) PROVE Stamped'
  BY <1>6, WriteKeeps DEF create_implementation, delete_implementation, Write, Stamped
<1>7. CASE WriteVisitType
  BY <1>7, WriteKeeps DEF WriteVisitType, Write, Stamped
<1>8. ASSUME NEW impls \in SUBSET Impl, reload_config(impls) PROVE Stamped'
  <2>1. UNCHANGED <<clock, written, loading, lookup>> /\ reload(impls)
    BY <1>8 DEF reload_config
  <2>2. UNCHANGED cache => CacheSeen'
    BY <2>1 DEF Stamped, CacheSeen
  <2>3. CacheSeen' /\ IndexSeen'
    BY <1>4, <2>1, <2>2
  <2> QED
    BY <2>1, <2>3 DEF Stamped, LoadSeen, LookupSeen
<1>9. ASSUME NEW r \in Request, Ask(r) PROVE Stamped'
  BY <1>9, <1>t DEF Ask, NoLookup, Stamped, CacheSeen, LoadSeen, IndexSeen, LookupSeen, TypeOK
<1>10. ASSUME NEW r \in Request, ReadKeywords(r) PROVE Stamped'
  <2>1. UNCHANGED <<clock, written, cache, loading, index>>
    BY <1>10 DEF ReadKeywords
  <2>2. lookup[r].at \in Nat
    BY DEF TypeOK, Lookup, Time
  <2>3. LookupSeen'
    BY <1>10, <1>n, <2>1, <2>2 DEF ReadKeywords, LookupSeen, Stamped, TypeOK, Lookup
  <2> QED
    BY <2>1, <2>3 DEF Stamped, CacheSeen, LoadSeen, IndexSeen
<1>11. ASSUME NEW r \in Request, StoreIndex(r) PROVE Stamped'
  BY <1>11, <1>t DEF StoreIndex, NoLookup, Stamped, CacheSeen, LoadSeen, IndexSeen, LookupSeen, TypeOK
<1>12. CASE UNCHANGED vars
  BY <1>12 DEF vars, Stamped, CacheSeen, LoadSeen, IndexSeen, LookupSeen
<1> QED
  BY <1>1, <1>2, <1>3, <1>5, <1>6, <1>7, <1>8, <1>9, <1>10, <1>11, <1>12 DEF Next, Edit

LEMMA StampedInit == Init => Stamped
  BY DEF Init, Stamped, CacheSeen, LoadSeen, IndexSeen, LookupSeen, NoEntry, NoLoad, NoLookup

LEMMA AlwaysStamped == Spec => [](TypeOK /\ Stamped)
<1> QED
  BY TypeInit, TypeStep, StampedInit, StampedStep, PTL DEF Spec

\* ConfigWithinTTL: what either process serves without a load was in both
\* tables less than a TTL ago.
THEOREM ConfigIsRecent == Spec => []ConfigWithinTTL
<1>1. ASSUME TypeOK, Stamped PROVE ConfigWithinTTL
  <2> SUFFICES ASSUME NEW p \in Process, NEW i \in Impl, Fresh(p, i), cache[p][i].row # 0
               PROVE  /\ CurrentSince(cache[p][i].row, clock - TTL + 1)
                      /\ CurrentSince(cache[p][i].types, clock - TTL + 1)
    BY DEF ConfigWithinTTL
  <2>1. clock \in Nat /\ TTL \in Nat /\ cache[p][i].at \in Nat /\ written \in Seq(Nat)
    BY <1>1, CacheAssumption DEF TypeOK, Entry, Time
  <2>2. cache[p][i].at >= clock - TTL + 1
    BY <2>1 DEF Fresh
  <2>3. ASSUME NEW n \in 1..Len(written), Since(written, n, cache[p][i].at) PROVE CurrentSince(n, clock - TTL + 1)
    <3>1. CASE n = Len(written)
      BY <3>1 DEF CurrentSince, Now
    <3>2. CASE n # Len(written)
      BY <2>1, <2>2, <2>3, <3>2 DEF CurrentSince, Since
    <3> QED
      BY <3>1, <3>2
  <2> QED
    BY <1>1, <2>3 DEF Stamped, CacheSeen, Seen
<1> QED
  BY <1>1, AlwaysStamped, PTL

\* KeywordsWithinTTL: a lookup that does not wait is answered from keywords
\* that were in the table at most a TTL ago.
THEOREM KeywordsAreRecent == Spec => []KeywordsWithinTTL
<1>1. TypeOK /\ Stamped => KeywordsWithinTTL
  BY CacheAssumption
     DEF KeywordsWithinTTL, Stamped, IndexSeen, Seen, Since, CurrentSince, IndexFresh, TypeOK, Time, Now
<1> QED
  BY <1>1, AlwaysStamped, PTL

-----------------------------------------------------------------------------
(***************************************************************************)
(* The web process sees its edits: no load of it is in flight across one.  *)
(***************************************************************************)
Edited ==
    \A i \in Impl :
        /\ acked[i] <= Now
        /\ loading["web"][i].row # 0 => loading["web"][i].row >= acked[i]
        /\ cache["web"][i].row # 0 => cache["web"][i].row >= acked[i]

LEMMA EditedStep == TypeOK /\ Stamped /\ Edited /\ [Next]_vars => Edited'
<1> SUFFICES ASSUME TypeOK, Stamped, Edited, [Next]_vars PROVE Edited'
  OBVIOUS
<1>t. /\ Now \in Nat
      /\ \A i \in Impl : acked[i] \in Nat
      /\ \A p \in Process, i \in Impl : cache[p][i].row \in Nat /\ loading[p][i].row \in Nat
      /\ "web" \in Process
  <2>1. Version \subseteq Nat /\ Now \in Version /\ "web" \in Process
    BY CacheAssumption DEF Version, TypeOK, Process
  <2>2. \A p \in Process, i \in Impl : cache[p][i].row \in Version /\ loading[p][i].row \in Version
    BY DEF TypeOK, Entry, Load
  <2>3. \A i \in Impl : acked[i] \in Version
    BY DEF TypeOK
  <2> QED
    BY <2>1, <2>2, <2>3
<1>w. Write => Now' = Now + 1
  BY WriteNow
<1>1. CASE Tick
  BY <1>1 DEF Tick, Edited, Now
<1>2. ASSUME NEW p \in Process, NEW i \in Impl, LoadRow(p, i) PROVE Edited'
  <2>1. UNCHANGED <<written, acked>> /\ Now' = Now
    BY <1>2 DEF LoadRow, Now
  <2>2. CASE UNCHANGED cache /\ loading' = [loading EXCEPT ![p][i] = [row |-> Now, at |-> clock]]
    <3>1. [row |-> Now, at |-> clock] \in Load
      BY CacheAssumption DEF TypeOK, Load, Version
    <3>2. /\ loading'[p][i] = [row |-> Now, at |-> clock]
          /\ \A q \in Process, k \in Impl : q # p \/ k # i => loading'[q][k] = loading[q][k]
      BY <2>2 DEF TypeOK
    <3> QED
      BY <1>t, <2>1, <2>2, <3>2 DEF Edited
  <2>3. CASE UNCHANGED loading /\ _load_from_files(p, i, clock)
    <3>1. clock \in Time
      BY DEF TypeOK
    <3>2. /\ cache'[p][i] = cache[p][i] \/ cache'[p][i].row = 0
          /\ \A q \in Process, k \in Impl : q # p \/ k # i => cache'[q][k] = cache[q][k]
      BY <2>3, <3>1, FilesOne
    <3> QED
      BY <1>t, <2>1, <2>3, <3>2 DEF Edited
  <2> QED
    BY <1>2, <2>2, <2>3 DEF LoadRow
<1>3. ASSUME NEW p \in Process, NEW i \in Impl, LoadTypes(p, i) PROVE Edited'
  <2>1. UNCHANGED <<written, acked>> /\ Now' = Now
    BY <1>3 DEF LoadTypes, Now
  <2>2. loading[p][i].row \in Version /\ loading[p][i].at \in Time /\ Now \in Version
    BY CacheAssumption DEF TypeOK, Load, Version
  <2>3. NoLoad \in Load /\ NoLoad.row = 0
    BY CacheAssumption DEF NoLoad, Load, Version, Time
  <2>4. /\ loading'[p][i].row = 0
        /\ \A q \in Process, k \in Impl : q # p \/ k # i => loading'[q][k] = loading[q][k]
    BY <1>3, <2>3, LoadOne DEF LoadTypes
  <2>5. /\ \/ cache'[p][i] = cache[p][i] \/ cache'[p][i].row = 0
           \/ cache'[p][i].row = loading[p][i].row
        /\ \A q \in Process, k \in Impl : q # p \/ k # i => cache'[q][k] = cache[q][k]
    <3>1. CASE Keep(p, i, loading[p][i].row, Now, loading[p][i].at)
      <4>1. /\ cache'[p][i].row = loading[p][i].row
            /\ \A q \in Process, k \in Impl : q # p \/ k # i => cache'[q][k] = cache[q][k]
        BY <3>1 DEF Keep, TypeOK
      <4> QED
        BY <4>1
    <3>2. CASE _load_from_files(p, i, loading[p][i].at)
      BY <2>2, <3>2, FilesOne
    <3> QED
      BY <1>3, <3>1, <3>2 DEF LoadTypes
  <2> QED
    BY <1>t, <2>1, <2>4, <2>5 DEF Edited
<1>4. ASSUME LoopFree("web") PROVE \A i \in Impl : loading["web"][i].row = 0
  BY <1>4 DEF LoopFree, NoLoad
<1>5. ASSUME NEW impls \in SUBSET Impl, reload(impls)
      PROVE  \A i \in Impl : cache'["web"][i].row = IF i \in impls THEN 0 ELSE cache["web"][i].row
  BY <1>5, <1>t, ReloadSome DEF NoEntry
<1>6. ASSUME NEW i \in Impl, update_implementation(i) PROVE Edited'
  <2>1. /\ Now' = Now + 1 /\ loading' = loading
        /\ \A k \in Impl : loading["web"][k].row = 0
    BY <1>4, <1>6, <1>w DEF update_implementation, Write
  <2>2. CASE reload({i}) /\ acked' = [acked EXCEPT ![i] = Now + 1]
    <3>1. \A k \in Impl : cache'["web"][k].row = IF k \in {i} THEN 0 ELSE cache["web"][k].row
      BY <1>5, <2>2
    <3>2. \A k \in Impl : acked'[k] = IF k = i THEN Now + 1 ELSE acked[k]
      BY <2>2 DEF TypeOK
    <3> QED
      BY <1>t, <2>1, <3>1, <3>2 DEF Edited
  <2>3. CASE UNCHANGED <<cache, acked>>
    BY <1>t, <2>1, <2>3 DEF Edited
  <2> QED
    BY <1>6, <2>2, <2>3 DEF update_implementation
<1>7. ASSUME NEW i \in Impl, create_implementation(i) \/ delete_implementation(i) PROVE Edited'
  BY <1>7, <1>t, <1>w DEF create_implementation, delete_implementation, Edited
<1>8. CASE WriteVisitType
  BY <1>8, <1>t, <1>w DEF WriteVisitType, Edited
<1>9. ASSUME NEW impls \in SUBSET Impl, reload_config(impls) PROVE Edited'
  <2>1. /\ UNCHANGED <<written, loading>>
        /\ \A k \in Impl : loading["web"][k].row = 0
        /\ acked' = [k \in Impl |-> IF k \in impls THEN Now ELSE acked[k]]
    BY <1>4, <1>9 DEF reload_config
  <2> QED
    BY <1>5, <1>9, <1>t, <2>1 DEF reload_config, Edited, Now
<1>10. ASSUME NEW r \in Request, Ask(r) \/ ReadKeywords(r) \/ StoreIndex(r) PROVE Edited'
  BY <1>10 DEF Ask, ReadKeywords, StoreIndex, Edited, Now
<1>11. CASE UNCHANGED vars
  BY <1>11 DEF vars, Edited, Now
<1> QED
  BY <1>1, <1>2, <1>3, <1>6, <1>7, <1>8, <1>9, <1>10, <1>11 DEF Next, Edit

LEMMA EditedInit == Init => Edited
<1> SUFFICES ASSUME Init, NEW i \in Impl
             PROVE  acked[i] = 0 /\ 0 <= Now /\ loading["web"][i].row = 0 /\ cache["web"][i].row = 0
  BY DEF Edited
<1>1. Now = 1
  BY DEF Init, Now
<1> QED
  BY <1>1 DEF Init, NoEntry, NoLoad, Process

\* WebSeesItsEdits: once an edit has returned, the web process caches no
\* older row of the implementation.
THEOREM EditsAreSeen == Spec => []WebSeesItsEdits
<1>1. Edited => WebSeesItsEdits
  BY DEF Edited, WebSeesItsEdits
<1> QED
  BY <1>1, TypeInit, TypeStep, StampedInit, StampedStep, EditedInit, EditedStep, PTL DEF Spec
=============================================================================
