------------------------- MODULE BatchAnalysis_proofs -------------------------
(***************************************************************************)
(* Proofs about BatchAnalysis, for every number of batches, files, slots   *)
(* and attempts, and every cap.                                            *)
(***************************************************************************)
EXTENDS BatchAnalysis, FiniteSetTheorems, SequenceTheorems, TLAPS

(***************************************************************************)
(* Pick.  That the k-th smallest element of a finite set of numbers exists *)
(* is an induction on k; it is done here as a search for a least           *)
(* counterexample, with the well-foundedness of < on Nat.                  *)
(***************************************************************************)
\* The least number principle, from the well-foundedness of < on Nat.
LEMMA Least ==
    ASSUME NEW T \in SUBSET Nat, T # {}
    PROVE  \E m \in T : \A k \in T : m <= k
  <1> DEFINE R == {p \in Nat \X Nat : p[1] < p[2]}
  <1>1. IsWellFoundedOn(R, Nat)
    <2>1. R = OpToRel(<, Nat)
      BY DEF OpToRel
    <2> QED BY <2>1, NatLessThanWellFounded
  <1>2. \E x \in T : \A y \in T : ~ (<<y, x>> \in R)
    <2> HIDE DEF R
    <2> QED BY <1>1, WFMin
  <1>3. PICK x \in T : \A y \in T : ~ (<<y, x>> \in R)
    BY <1>2
  <1>4. \A y \in T : <<y, x>>[1] = y /\ <<y, x>>[2] = x /\ <<y, x>> \in Nat \X Nat
    OBVIOUS
  <1>5. \A y \in T : ~ (y < x)
    BY <1>3, <1>4
  <1> QED BY <1>5

UpTo(S, i) == {j \in S : j <= i}

LEMMA Ranked ==
    ASSUME NEW S \in SUBSET Nat, IsFiniteSet(S), NEW k \in 1..Cardinality(S)
    PROVE  \E i \in S : Cardinality(UpTo(S, i)) = k
  <1> DEFINE Bad == {n \in 1..Cardinality(S) : \A i \in S : Cardinality(UpTo(S, i)) # n}
  <1>0. Cardinality(S) \in Nat
    BY FS_CardinalityType
  <1> SUFFICES ASSUME Bad # {} PROVE FALSE
    BY <1>0
  <1>1. PICK n \in Bad : \A m \in Bad : n <= m
    <2>1. Bad \in SUBSET Nat
      BY <1>0
    <2> HIDE DEF Bad
    <2> QED BY <2>1, Least
  <1>2. \E B \in SUBSET S : /\ Cardinality(B) = n - 1
                            /\ \A i \in S \ B, j \in B : j < i
    <2>1. CASE n = 1
      BY <2>1, FS_EmptySet
    <2>2. CASE n # 1
      <3>1. n - 1 \in 1..Cardinality(S) /\ n - 1 \notin Bad
        BY <1>0, <1>1, <2>2
      <3>2. PICK i \in S : Cardinality(UpTo(S, i)) = n - 1
        BY <3>1
      <3> QED BY <3>2 DEF UpTo
    <2> QED BY <2>1, <2>2
  <1>3. PICK B \in SUBSET S : Cardinality(B) = n - 1 /\ \A i \in S \ B, j \in B : j < i
    BY <1>2
  <1>4. S \ B # {}
    <2>1. S \ B = {} => B = S
      OBVIOUS
    <2>2. Cardinality(B) # Cardinality(S)
      BY <1>0, <1>3
    <2> QED BY <2>1, <2>2
  <1>5. PICK m \in S \ B : \A i \in S \ B : m <= i
    <2>1. S \ B \in SUBSET Nat
      OBVIOUS
    <2> QED BY <1>4, <2>1, Least
  <1>6. UpTo(S, m) = B \cup {m}
    <2>1. \A j \in S : j \in Nat
      OBVIOUS
    <2>2. ASSUME NEW j \in S, j <= m, j \notin B
          PROVE  j = m
      BY <1>5, <2>1, <2>2
    <2>3. ASSUME NEW j \in B
          PROVE  j <= m
      BY <1>3, <1>5, <2>1
    <2> QED BY <1>5, <2>1, <2>2, <2>3 DEF UpTo
  <1>7. Cardinality(UpTo(S, m)) = n
    <2>1. IsFiniteSet(B)
      BY FS_Subset
    <2> QED BY <1>3, <1>6, <2>1, FS_AddElement
  <1> QED BY <1>1, <1>7

\* Two positions of a set with as many up to them are the same.
LEMMA RankApart ==
    ASSUME NEW S \in SUBSET Nat, IsFiniteSet(S), NEW i \in S, NEW j \in S,
           Cardinality(UpTo(S, i)) = Cardinality(UpTo(S, j))
    PROVE  i = j
  <1>1. ASSUME NEW x \in S, NEW y \in S, x < y, Cardinality(UpTo(S, x)) = Cardinality(UpTo(S, y))
        PROVE  FALSE
    <2>1. UpTo(S, x) \in SUBSET UpTo(S, y) /\ y \in UpTo(S, y) /\ y \notin UpTo(S, x)
      <3>1. x \in Nat /\ y \in Nat /\ \A z \in S : z \in Nat
        OBVIOUS
      <3>2. \A z \in S : z <= x => z <= y
        BY <1>1, <3>1
      <3>3. y <= y /\ ~ (y <= x)
        BY <1>1, <3>1
      <3> QED BY <3>2, <3>3 DEF UpTo
    <2>2. IsFiniteSet(UpTo(S, y))
      <3>1. UpTo(S, y) \in SUBSET S
        BY DEF UpTo
      <3> QED BY <3>1, FS_Subset
    <2> QED BY <1>1, <2>1, <2>2, FS_Subset
  <1>2. i \in Nat /\ j \in Nat
    OBVIOUS
  <1> QED BY <1>1, <1>2

\* What is up to a position of a set, and what is beyond it.
LEMMA RankSplit ==
    ASSUME NEW S \in SUBSET Nat, IsFiniteSet(S), NEW i \in S
    PROVE  /\ Cardinality(UpTo(S, i)) \in 1..Cardinality(S)
           /\ Cardinality({j \in S : j > i}) = Cardinality(S) - Cardinality(UpTo(S, i))
  <1> DEFINE low == UpTo(S, i)
             high == {j \in S : j > i}
  <1>1. /\ low \in SUBSET S /\ high \in SUBSET S /\ i \in low
        /\ low \cup high = S /\ low \cap high = {}
    <2>1. i \in Nat /\ \A z \in S : z \in Nat
      OBVIOUS
    <2>2. i <= i /\ \A z \in S : z > i <=> ~ (z <= i)
      BY <2>1
    <2> QED BY <2>2 DEF UpTo
  <1> HIDE DEF low, high
  <1>2. /\ IsFiniteSet(low) /\ IsFiniteSet(high)
        /\ Cardinality(low) \in Nat /\ Cardinality(high) \in Nat /\ Cardinality(S) \in Nat
    BY <1>1, FS_Subset, FS_CardinalityType
  <1>3. Cardinality(S) = Cardinality(low) + Cardinality(high)
    <2>1. Cardinality(low \cap high) = 0
      BY <1>1, FS_EmptySet
    <2>2. Cardinality(low \cup high) = Cardinality(low) + Cardinality(high) - Cardinality(low \cap high)
      BY <1>2, FS_Union
    <2>3. Cardinality(S) = Cardinality(low) + Cardinality(high) - 0
      BY <1>1, <2>1, <2>2
    <2> QED BY <1>2, <2>3
  <1>4. Cardinality(low) # 0
    BY <1>1, <1>2, FS_EmptySet
  <1>5. Cardinality(low) \in 1..Cardinality(S) /\ Cardinality(high) = Cardinality(S) - Cardinality(low)
    BY <1>2, <1>3, <1>4
  <1> QED BY <1>5 DEF low, high

\* Element k of Pick is the one at the k-th of the positions.
LEMMA PickAt ==
    ASSUME NEW S, NEW fs \in Seq(S), NEW at \in SUBSET (1..Len(fs))
    PROVE  /\ at \in SUBSET Nat /\ IsFiniteSet(at) /\ Cardinality(at) \in Nat
           /\ Pick(fs, at) \in Seq(S) /\ Len(Pick(fs, at)) = Cardinality(at)
           /\ \A k \in 1..Cardinality(at) : \E i \in at :
                 Cardinality(UpTo(at, i)) = k /\ Pick(fs, at)[k] = fs[i]
           /\ \A i \in at : /\ Cardinality(UpTo(at, i)) \in 1..Cardinality(at)
                            /\ Pick(fs, at)[Cardinality(UpTo(at, i))] = fs[i]
  <1>1. at \in SUBSET Nat /\ IsFiniteSet(at) /\ Cardinality(at) \in Nat
    <2>1. IsFiniteSet(1..Len(fs)) /\ at \in SUBSET Nat
      BY FS_Interval
    <2>2. IsFiniteSet(at)
      BY <2>1, FS_Subset
    <2> QED BY <2>1, <2>2, FS_CardinalityType
  <1> DEFINE pos(k) == CHOOSE i \in at : Cardinality(UpTo(at, i)) = k
  <1>2. \A k \in 1..Cardinality(at) : pos(k) \in at /\ Cardinality(UpTo(at, pos(k))) = k
    <2> TAKE k \in 1..Cardinality(at)
    <2>1. \E i \in at : Cardinality(UpTo(at, i)) = k
      BY <1>1, Ranked
    <2> QED BY <2>1
  <1>3. Pick(fs, at) = [k \in 1..Cardinality(at) |-> fs[pos(k)]]
    BY DEF Pick, UpTo
  <1> HIDE DEF pos
  <1>4. \A k \in 1..Cardinality(at) : fs[pos(k)] \in S
    <2>1. \A i \in at : fs[i] \in S
      BY ElementOfSeq
    <2> QED BY <1>2, <2>1
  <1>5. Pick(fs, at) \in [1..Cardinality(at) -> S]
    BY <1>3, <1>4
  <1>6. Pick(fs, at) \in Seq(S) /\ Len(Pick(fs, at)) = Cardinality(at)
    BY <1>1, <1>5
  <1>7. \A k \in 1..Cardinality(at) : Pick(fs, at)[k] = fs[pos(k)]
    BY <1>3
  <1>8. ASSUME NEW i \in at
        PROVE  /\ Cardinality(UpTo(at, i)) \in 1..Cardinality(at)
               /\ Pick(fs, at)[Cardinality(UpTo(at, i))] = fs[i]
    <2> DEFINE k == Cardinality(UpTo(at, i))
    <2>1. k \in 1..Cardinality(at)
      BY <1>1, RankSplit
    <2>2. pos(k) = i
      BY <1>1, <1>2, <2>1, RankApart
    <2> QED BY <1>7, <2>1, <2>2
  <1> QED BY <1>1, <1>2, <1>6, <1>7, <1>8

Distinct(s) == \A i, j \in 1..Len(s) : s[i] = s[j] => i = j

\* No element is lost, none comes twice.
LEMMA PickKeeps ==
    ASSUME NEW S, NEW fs \in Seq(S), NEW at \in SUBSET (1..Len(fs))
    PROVE  /\ Pick(fs, at) \in Seq(S)
           /\ ToSet(Pick(fs, at)) = {fs[i] : i \in at}
           /\ Distinct(fs) => Distinct(Pick(fs, at))
  <1> DEFINE xs == Pick(fs, at)
             N == Cardinality(at)
             rank(i) == Cardinality(UpTo(at, i))
  <1>1. /\ at \in SUBSET Nat /\ IsFiniteSet(at) /\ N \in Nat
        /\ xs \in Seq(S) /\ Len(xs) = N
        /\ \A k \in 1..N : \E i \in at : rank(i) = k /\ xs[k] = fs[i]
        /\ \A i \in at : rank(i) \in 1..N /\ xs[rank(i)] = fs[i]
    BY PickAt
  <1>2. ToSet(xs) = {xs[k] : k \in 1..N}
    BY <1>1 DEF ToSet
  <1> HIDE DEF xs, N, rank
  <1>3. ToSet(xs) = {fs[i] : i \in at}
    BY <1>1, <1>2
  <1>4. ASSUME Distinct(fs)
        PROVE  Distinct(xs)
    <2> SUFFICES ASSUME NEW k \in 1..N, NEW l \in 1..N, xs[k] = xs[l]
                 PROVE  k = l
      BY <1>1 DEF Distinct
    <2>1. PICK i \in at : rank(i) = k /\ xs[k] = fs[i]
      BY <1>1
    <2>2. PICK j \in at : rank(j) = l /\ xs[l] = fs[j]
      BY <1>1
    <2>3. i = j
      BY <1>4, <2>1, <2>2 DEF Distinct
    <2> QED BY <2>1, <2>2, <2>3
  <1> QED BY <1>1, <1>3, <1>4 DEF xs

\* Two lists with nothing in common, one after the other.
LEMMA ConcatKeeps ==
    ASSUME NEW S, NEW s \in Seq(S), NEW t \in Seq(S)
    PROVE  /\ s \o t \in Seq(S)
           /\ ToSet(s \o t) = ToSet(s) \cup ToSet(t)
           /\ Distinct(s) /\ Distinct(t) /\ ToSet(s) \cap ToSet(t) = {} => Distinct(s \o t)
  <1> DEFINE u == s \o t
             n == Len(s)
             m == Len(t)
  <1>1. /\ u \in Seq(S) /\ Len(u) = n + m /\ n \in Nat /\ m \in Nat
        /\ \A i \in 1..(n + m) : u[i] = IF i <= n THEN s[i] ELSE t[i - n]
    BY ConcatProperties
  <1>2. /\ ToSet(u) = {u[i] : i \in 1..(n + m)}
        /\ ToSet(s) = {s[i] : i \in 1..n} /\ ToSet(t) = {t[i] : i \in 1..m}
    BY <1>1 DEF ToSet
  <1> HIDE DEF u, n, m
  <1>3. \A i \in 1..(n + m) : \/ i \in 1..n /\ u[i] = s[i]
                              \/ i - n \in 1..m /\ u[i] = t[i - n]
    <2> TAKE i \in 1..(n + m)
    <2>1. CASE i <= n
      BY <1>1, <2>1
    <2>2. CASE ~ (i <= n)
      BY <1>1, <2>2
    <2> QED BY <2>1, <2>2
  <1>4. \A i \in 1..n : i \in 1..(n + m) /\ u[i] = s[i]
    BY <1>1
  <1>5. \A i \in 1..m : n + i \in 1..(n + m) /\ u[n + i] = t[i]
    <2> TAKE i \in 1..m
    <2>1. n + i \in 1..(n + m) /\ ~ (n + i <= n) /\ (n + i) - n = i
      BY <1>1
    <2> QED BY <1>1, <2>1
  <1>6. ToSet(u) = ToSet(s) \cup ToSet(t)
    <2>1. \A x \in ToSet(u) : x \in ToSet(s) \cup ToSet(t)
      BY <1>2, <1>3
    <2>2. \A x \in ToSet(s) : x \in ToSet(u)
      BY <1>2, <1>4
    <2>3. \A x \in ToSet(t) : x \in ToSet(u)
      BY <1>2, <1>5
    <2> QED BY <2>1, <2>2, <2>3
  <1>7. ASSUME Distinct(s), Distinct(t), ToSet(s) \cap ToSet(t) = {}
        PROVE  Distinct(u)
    <2> SUFFICES ASSUME NEW i \in 1..(n + m), NEW j \in 1..(n + m), u[i] = u[j]
                 PROVE  i = j
      BY <1>1 DEF Distinct
    <2>1. CASE i \in 1..n /\ u[i] = s[i] /\ j \in 1..n /\ u[j] = s[j]
      BY <1>7, <2>1 DEF Distinct, n
    <2>2. CASE i - n \in 1..m /\ u[i] = t[i - n] /\ j - n \in 1..m /\ u[j] = t[j - n]
      <3>1. i - n = j - n
        BY <1>7, <2>2 DEF Distinct, m
      <3> QED BY <1>1, <3>1
    <2>3. CASE i \in 1..n /\ u[i] = s[i] /\ j - n \in 1..m /\ u[j] = t[j - n]
      BY <1>2, <1>7, <2>3
    <2>4. CASE i - n \in 1..m /\ u[i] = t[i - n] /\ j \in 1..n /\ u[j] = s[j]
      BY <1>2, <1>7, <2>4
    <2> QED BY <1>3, <2>1, <2>2, <2>3, <2>4
  <1> QED BY <1>1, <1>6, <1>7 DEF u

\* files[-n:], by how many it leaves out at the start.
LEMMA MostRecentIs ==
    ASSUME NEW S, NEW fs \in Seq(S), NEW n \in Nat
    PROVE  \E d \in 0..Len(fs) :
              /\ MostRecent(fs, n) \in Seq(S) /\ Len(MostRecent(fs, n)) = Len(fs) - d
              /\ \A k \in 1..(Len(fs) - d) : MostRecent(fs, n)[k] = fs[d + k]
              /\ \A r \in 1..Len(fs) : r > d <=> (n = 0 \/ Len(fs) - r < n)
  <1>1. Len(fs) \in Nat
    OBVIOUS
  <1>2. CASE Len(fs) > n /\ n > 0
    <2> DEFINE d == Len(fs) - n
               ys == SubSeq(fs, d + 1, Len(fs))
    <2>1. MostRecent(fs, n) = ys
      BY <1>2 DEF MostRecent
    <2>2. d \in 0..Len(fs) /\ \A i \in (d + 1)..Len(fs) : fs[i] \in S
      BY <1>1, <1>2
    <2>3. ys \in Seq(S) /\ Len(ys) = Len(fs) - d /\ \A k \in 1..(Len(fs) - d) : ys[k] = fs[d + k]
      <3>1. d + 1 \in Int /\ Len(fs) \in Int
        BY <1>1, <2>2
      <3>2. /\ ys \in Seq(S)
            /\ Len(ys) = IF d + 1 <= Len(fs) THEN Len(fs) - (d + 1) + 1 ELSE 0
            /\ \A k \in 1..(Len(fs) - (d + 1) + 1) : ys[k] = fs[(d + 1) + k - 1]
        BY <2>2, <3>1, SubSeqProperties
      <3> HIDE DEF ys
      <3>3. \A k \in Int : (d + 1) + k - 1 = d + k
        BY <1>1
      <3> QED BY <1>1, <1>2, <3>2, <3>3
    <2>4. \A r \in 1..Len(fs) : r > d <=> (n = 0 \/ Len(fs) - r < n)
      BY <1>1, <1>2
    <2> HIDE DEF d, ys
    <2> QED BY <2>1, <2>2, <2>3, <2>4
  <1>3. CASE ~ (Len(fs) > n /\ n > 0)
    <2>1. MostRecent(fs, n) = fs
      BY <1>3 DEF MostRecent
    <2>2. \A r \in 1..Len(fs) : r > 0 <=> (n = 0 \/ Len(fs) - r < n)
      BY <1>1, <1>3
    <2>3. 0 \in 0..Len(fs) /\ Len(fs) - 0 = Len(fs) /\ \A k \in 1..(Len(fs) - 0) : 0 + k = k
      BY <1>1
    <2> QED BY <2>1, <2>2, <2>3
  <1> QED BY <1>2, <1>3

-----------------------------------------------------------------------------
(***************************************************************************)
(* The lists read from the session.                                        *)
(***************************************************************************)
LEMMA MostRecentType ==
    ASSUME NEW S, NEW fs \in Seq(S), NEW n \in Int
    PROVE  MostRecent(fs, n) \in Seq(S)
  BY SubSeqProperties DEF MostRecent

LEMMA CapType ==
    ASSUME NEW b \in Batch, NEW kind \in Media
    PROVE  Cap(b, kind) \in Int
  BY BatchAssumption DEF Cap

LEMMA KeptType ==
    ASSUME NEW b \in Batch, NEW kind \in Media, NEW fs \in Seq(File)
    PROVE  Kept(b, fs, kind) \in Seq(File)
  <1>1. OfKind(fs, kind) \in Seq(File)
    BY PickKeeps DEF OfKind
  <1> QED BY <1>1, CapType, MostRecentType DEF Kept

-----------------------------------------------------------------------------
(***************************************************************************)
(* The inductive invariant.                                                *)
(***************************************************************************)
Stage == {"idle", "gate", "videos", "gather", "synthesis", "writing", "ended"}

\* Position i of the tasks stands for position i of the images, then of the
\* frames, while the results are awaited.
Aligned(im, vi, au, fr, tk) ==
    /\ Len(tk) = Len(im) + Len(fr) + Len(au)
    /\ \A i \in 1..Len(im) : tk[i].of = im[i]
    /\ \A j \in 1..Len(fr) : tk[Len(im) + j].of = vi[fr[j]]

Truthful(tk) == \A i \in 1..Len(tk) : tk[i].result \in File => tk[i].result = tk[i].of

\* What the local variables of a batch are at each point of it.
Good(st, fi, im, vi, au, sn, fr, tk, de, re, ex) ==
    /\ st \in Stage
    /\ fi \in Seq(File) /\ im \in Seq(File) /\ vi \in Seq(File) /\ au \in Seq(File)
    /\ sn \in 0..Len(vi) /\ fr \in Seq(1..Len(vi))
    /\ tk \in Seq(Task) /\ Truthful(tk)
    /\ de \in SUBSET [label : File, about : File] /\ \A d \in de : d.about = d.label
    /\ re \in Reply /\ ex \in SUBSET File
    /\ st \in {"idle", "gate"} => sn = 0 /\ fr = <<>>
    /\ st \in {"idle", "gate", "videos"} => tk = <<>>
    /\ st = "gather" => Aligned(im, vi, au, fr, tk)
    /\ st # "gather" => \A i \in 1..Len(tk) : tk[i].at # "call"

GoodBatch(b) ==
    Good(stage[b], files[b], images[b], videos[b], audios[b], seen[b], frames[b],
         task[b], described[b], reply[b], excluded[b])

Functions ==
    /\ DOMAIN stage = Batch /\ stage = [b \in Batch |-> stage[b]]
    /\ DOMAIN files = Batch /\ files = [b \in Batch |-> files[b]]
    /\ DOMAIN images = Batch /\ images = [b \in Batch |-> images[b]]
    /\ DOMAIN videos = Batch /\ videos = [b \in Batch |-> videos[b]]
    /\ DOMAIN audios = Batch /\ audios = [b \in Batch |-> audios[b]]
    /\ DOMAIN seen = Batch /\ seen = [b \in Batch |-> seen[b]]
    /\ DOMAIN frames = Batch /\ frames = [b \in Batch |-> frames[b]]
    /\ DOMAIN task = Batch /\ task = [b \in Batch |-> task[b]]
    /\ DOMAIN described = Batch /\ described = [b \in Batch |-> described[b]]
    /\ DOMAIN reply = Batch /\ reply = [b \in Batch |-> reply[b]]
    /\ DOMAIN excluded = Batch /\ excluded = [b \in Batch |-> excluded[b]]

\* Who holds a slot: the calls to Vision, by position, and, as position 0, the
\* calls for a synthesis.
Calls(b, i) ==
    \/ i = 0 /\ stage[b] = "writing"
    \/ i \in 1..Len(task[b]) /\ task[b][i].at = "call"
Holding == {p \in Batch \X Nat : Calls(p[1], p[2])}

Balance ==
    /\ slots \in Nat
    /\ IsFiniteSet(Holding) /\ slots + Cardinality(Holding) = Slots

Inv == Functions /\ (\A b \in Batch : GoodBatch(b)) /\ Balance

LEMMA InvTypes == Inv => TypeOK /\ DescribedTruly
  <1> SUFFICES ASSUME Inv PROVE TypeOK /\ DescribedTruly
    OBVIOUS
  <1> USE DEF Inv, GoodBatch, Good
  <1>1. slots \in 0..Slots
    BY FS_CardinalityType, BatchAssumption DEF Balance
  <1>2. \A b \in Batch : seen[b] \in Nat /\ frames[b] \in Seq(Nat)
    <2> TAKE b \in Batch
    <2>1. Len(videos[b]) \in Nat
      OBVIOUS
    <2>2. \A S, T : S \subseteq T => Seq(S) \subseteq Seq(T)
      BY SeqMonotonic
    <2> QED BY <2>1, <2>2
  <1>3. TypeOK
    BY <1>1, <1>2 DEF TypeOK, Functions, Stage
  <1>4. DescribedTruly
    BY DEF DescribedTruly
  <1> QED BY <1>3, <1>4

LEMMA InitGood == Init => Inv
  <1> SUFFICES ASSUME Init PROVE Inv
    OBVIOUS
  <1>1. Functions
    BY DEF Init, Functions
  <1>2. \A b \in Batch : GoodBatch(b)
    <2> TAKE b \in Batch
    <2>1. <<>> \in Seq(File) /\ <<>> \in Seq(Task) /\ <<>> \in Seq(1..0) /\ Len(<<>>) = 0
      OBVIOUS
    <2> QED BY <2>1 DEF Init, GoodBatch, Good, Stage, Reply, Truthful
  <1>3. Balance
    <2>1. Holding = {}
      BY DEF Init, Holding, Calls
    <2> QED BY <2>1, FS_EmptySet, BatchAssumption DEF Init, Balance
  <1> QED BY <1>1, <1>2, <1>3 DEF Inv

-----------------------------------------------------------------------------
(***************************************************************************)
(* The semaphore.                                                          *)
(***************************************************************************)
LEMMA NobodyMoves ==
    ASSUME Balance, slots' = slots, Holding' = Holding
    PROVE  Balance'
  BY DEF Balance

LEMMA SlotTaken ==
    ASSUME Balance, slots > 0, slots' = slots - 1,
           NEW p, p \notin Holding, Holding' = Holding \cup {p}
    PROVE  Balance'
  <1>1. IsFiniteSet(Holding) /\ Cardinality(Holding) \in Nat
    BY FS_CardinalityType DEF Balance
  <1>2. IsFiniteSet(Holding') /\ Cardinality(Holding') = Cardinality(Holding) + 1
    BY <1>1, FS_AddElement
  <1> QED BY <1>1, <1>2 DEF Balance

LEMMA SlotGiven ==
    ASSUME Balance, slots' = slots + 1,
           NEW p, p \in Holding, Holding' = Holding \ {p}
    PROVE  Balance'
  <1>1. IsFiniteSet(Holding) /\ Cardinality(Holding) \in Nat
    BY FS_CardinalityType DEF Balance
  <1>2. IsFiniteSet(Holding') /\ Cardinality(Holding') = Cardinality(Holding) - 1
    BY <1>1, FS_RemoveElement
  <1> QED BY <1>1, <1>2 DEF Balance

-----------------------------------------------------------------------------
(***************************************************************************)
(* Each step.                                                              *)
(***************************************************************************)
\* A step of batch b leaves the variables of the others alone.
Local(b) ==
    /\ Functions'
    /\ \A c \in Batch \ {b} :
          /\ stage'[c] = stage[c] /\ files'[c] = files[c] /\ images'[c] = images[c]
          /\ videos'[c] = videos[c] /\ audios'[c] = audios[c] /\ seen'[c] = seen[c]
          /\ frames'[c] = frames[c] /\ task'[c] = task[c] /\ described'[c] = described[c]
          /\ reply'[c] = reply[c] /\ excluded'[c] = excluded[c]

LEMMA Together ==
    ASSUME Inv, NEW b \in Batch, Local(b), GoodBatch(b)', Balance'
    PROVE  Inv'
  <1>1. ASSUME NEW c \in Batch PROVE GoodBatch(c)'
    <2>1. CASE c = b
      BY <2>1
    <2>2. CASE c # b
      BY <2>2 DEF Inv, GoodBatch, Local
    <2> QED BY <2>1, <2>2
  <1> QED BY <1>1 DEF Inv, Local

\* The holders are those of before, where neither the stage nor the tasks of
\* b hold or held any slot.
LEMMA QuietBatch ==
    ASSUME Inv, NEW b \in Batch, Local(b), slots' = slots,
           \A i \in Nat : Calls(b, i)' <=> Calls(b, i)
    PROVE  Balance'
  <1>1. \A c \in Batch, i \in Nat : Calls(c, i)' <=> Calls(c, i)
    BY DEF Local, Calls
  <1>2. Holding' = Holding
    BY <1>1 DEF Holding
  <1> QED BY <1>2, NobodyMoves DEF Inv

LEMMA ReadStep ==
    ASSUME Inv, NEW b \in Batch, NEW fs \in Inbox[b], Read(b, fs)
    PROVE  Inv'
  <1> USE DEF Read, End, Enter
  <1>1. Local(b)
    BY DEF Inv, Functions, Local
  <1>2. fs \in Seq(File)
    BY BatchAssumption
  <1>3. \A kind \in Media : Kept(b, fs, kind) \in Seq(File)
    BY <1>2, KeptType
  <1>4. GoodBatch(b)'
    <2>1. Good(stage[b], files[b], images[b], videos[b], audios[b], seen[b], frames[b],
               task[b], described[b], reply[b], excluded[b])
      BY DEF Inv, GoodBatch
    <2>2. /\ seen[b] = 0 /\ frames[b] = <<>> /\ task[b] = <<>>
      BY <2>1 DEF Good
    <2>3. /\ files'[b] = fs /\ stage'[b] \in {"gate", "ended"} /\ reply'[b] \in Reply
          /\ images'[b] \in Seq(File) /\ videos'[b] \in Seq(File) /\ audios'[b] \in Seq(File)
      BY <1>3, <2>1 DEF Inv, Functions, Media, Good, Reply
    <2>4. <<>> \in Seq(1..Len(videos'[b])) /\ 0 \in 0..Len(videos'[b]) /\ Len(<<>>) = 0
      BY <2>3
    <2> QED BY <1>2, <2>1, <2>2, <2>3, <2>4 DEF GoodBatch, Good, Stage, Truthful
  <1>5. \A i \in Nat : Calls(b, i)' <=> Calls(b, i)
    BY <1>1 DEF Calls, Inv, Functions
  <1> QED BY <1>1, <1>4, <1>5, QuietBatch, Together

LEMMA GateStep ==
    ASSUME Inv, NEW b \in Batch, NEW screened, NEW allowed, Gate(b, screened, allowed)
    PROVE  Inv'
  <1> USE DEF Gate, End, Enter
  <1>1. Local(b)
    BY DEF Inv, Functions, Local
  <1>2. Good(stage[b], files[b], images[b], videos[b], audios[b], seen[b], frames[b],
             task[b], described[b], reply[b], excluded[b])
    BY DEF Inv, GoodBatch
  <1>3. \A fs : Pick(images[b], {i \in 1..Len(images[b]) : images[b][i] \in fs}) \in Seq(File)
    <2> TAKE fs
    <2>1. {i \in 1..Len(images[b]) : images[b][i] \in fs} \in SUBSET (1..Len(images[b]))
      OBVIOUS
    <2>2. images[b] \in Seq(File)
      BY <1>2 DEF Good
    <2> QED BY <2>1, <2>2, PickKeeps
  <1>4. images'[b] \in Seq(File)
    <2> DEFINE passed(fs) == Pick(images[b], {i \in 1..Len(images[b]) : images[b][i] \in fs})
               first == passed(screened \cap allowed)
               second == passed(allowed \ screened)
    <2>1. images'[b] = first \o second
      BY DEF Inv, Functions
    <2>2. first \in Seq(File) /\ second \in Seq(File)
      BY <1>3
    <2> HIDE DEF first, second
    <2> QED BY <2>1, <2>2, ConcatProperties
  <1>5. ToSet(images[b]) \subseteq File
    BY <1>2 DEF Good, ToSet
  <1>6. /\ stage'[b] \in {"videos", "ended"} /\ reply'[b] \in Reply /\ excluded'[b] \in SUBSET File
        /\ stage[b] = "gate"
    BY <1>2, <1>5 DEF Inv, Functions, Good, Reply
  <1>7. GoodBatch(b)'
    BY <1>2, <1>4, <1>6 DEF GoodBatch, Good, Stage
  <1>8. \A i \in Nat : Calls(b, i)' <=> Calls(b, i)
    BY <1>6 DEF Calls
  <1> QED BY <1>1, <1>7, <1>8, QuietBatch, Together

LEMMA VideoStep ==
    ASSUME Inv, NEW b \in Batch, NEW framed, ProcessVideo(b, framed)
    PROVE  Inv'
  <1> USE DEF ProcessVideo
  <1>1. Local(b)
    BY DEF Inv, Functions, Local
  <1>2. Good(stage[b], files[b], images[b], videos[b], audios[b], seen[b], frames[b],
             task[b], described[b], reply[b], excluded[b])
    BY DEF Inv, GoodBatch
  <1>3. seen'[b] \in 0..Len(videos[b]) /\ frames'[b] \in Seq(1..Len(videos[b]))
    <2>1. frames[b] \in Seq(1..Len(videos[b])) /\ seen[b] + 1 \in 1..Len(videos[b])
      BY <1>2 DEF Good
    <2>2. Append(frames[b], seen[b] + 1) \in Seq(1..Len(videos[b]))
      BY <2>1, AppendProperties
    <2>3. seen'[b] = seen[b] + 1 /\ frames'[b] \in {frames[b], Append(frames[b], seen[b] + 1)}
      BY DEF Inv, Functions
    <2>4. seen[b] + 1 \in 0..Len(videos[b])
      BY <2>1
    <2>5. frames'[b] \in Seq(1..Len(videos[b]))
      BY <2>1, <2>2, <2>3
    <2> QED BY <2>3, <2>4, <2>5
  <1>4. GoodBatch(b)'
    BY <1>2, <1>3 DEF GoodBatch, Good
  <1>5. \A i \in Nat : Calls(b, i)' <=> Calls(b, i)
    BY DEF Calls
  <1> QED BY <1>1, <1>4, <1>5, QuietBatch, Together

LEMMA FreshType ==
    ASSUME NEW b \in Batch, NEW f \in File, NEW where \in {"download", "wait", "transcribe"}
    PROVE  Fresh(b, f, where) \in Task /\ Fresh(b, f, where).of = f
             /\ Fresh(b, f, where).result = Pending
             /\ Fresh(b, f, where).at \notin {"call", "done"}
  BY BatchAssumption DEF Fresh, Task, FirstModel

\* The tasks awaited: one per image, frame and recording, in that order, none
\* of them started.
LEMMA Gathered ==
    ASSUME Inv, NEW b \in Batch, Gather(b)
    PROVE  /\ Len(images[b]) \in Nat /\ Len(frames[b]) \in Nat /\ Len(audios[b]) \in Nat
           /\ task'[b] \in Seq(Task)
           /\ Len(task'[b]) = Len(images[b]) + Len(frames[b]) + Len(audios[b])
           /\ \A i \in 1..Len(task'[b]) :
                 task'[b][i].result = Pending /\ task'[b][i].at \notin {"call", "done"}
           /\ \A i \in 1..Len(images[b]) : task'[b][i].of = images[b][i]
           /\ \A j \in 1..Len(frames[b]) : task'[b][Len(images[b]) + j].of = videos[b][frames[b][j]]
           /\ \A j \in 1..Len(audios[b]) :
                 task'[b][Len(images[b]) + Len(frames[b]) + j].of = audios[b][j]
  <1> USE DEF Gather, Enter
  <1>1. Good(stage[b], files[b], images[b], videos[b], audios[b], seen[b], frames[b],
             task[b], described[b], reply[b], excluded[b])
    BY DEF Inv, GoodBatch
  <1> DEFINE n == Len(images[b])
             m == Len(frames[b])
             k == Len(audios[b])
             t == task'[b]
             vid(j) == videos[b][frames[b][j]]
  <1>2. n \in Nat /\ m \in Nat /\ k \in Nat
    BY <1>1 DEF Good
  <1>3. t = [i \in 1..(n + m + k) |->
               IF i <= n THEN Fresh(b, images[b][i], "download")
               ELSE IF i <= n + m THEN Fresh(b, vid(i - n), "wait")
               ELSE Fresh(b, audios[b][i - n - m], "transcribe")]
    BY DEF Inv, Functions
  <1>4. /\ \A i \in 1..n : images[b][i] \in File
        /\ \A i \in 1..m : vid(i) \in File
        /\ \A i \in 1..k : audios[b][i] \in File
    BY <1>1 DEF Good
  <1> HIDE DEF n, m, k, t, vid
  <1>5. ASSUME NEW i \in 1..(n + m + k)
        PROVE  /\ t[i] \in Task /\ t[i].result = Pending /\ t[i].at \notin {"call", "done"}
               /\ i <= n => t[i].of = images[b][i]
               /\ i > n /\ i <= n + m => t[i].of = vid(i - n)
               /\ i > n + m => t[i].of = audios[b][i - n - m]
    <2>1. CASE i <= n
      <3>1. t[i] = Fresh(b, images[b][i], "download") /\ i \in 1..n /\ ~ (i > n + m)
        BY <1>2, <1>3, <2>1
      <3> QED BY <1>2, <1>4, <2>1, <3>1, FreshType
    <2>2. CASE i > n /\ i <= n + m
      <3>1. i - n \in 1..m /\ ~ (i <= n) /\ ~ (i > n + m)
        BY <1>2, <2>2
      <3>2. t[i] = Fresh(b, vid(i - n), "wait")
        BY <1>3, <2>2, <3>1
      <3> QED BY <1>2, <1>4, <2>2, <3>1, <3>2, FreshType
    <2>3. CASE i > n + m
      <3>1. t[i] = Fresh(b, audios[b][i - n - m], "transcribe") /\ i - n - m \in 1..k
        BY <1>2, <1>3, <2>3
      <3>2. ~ (i <= n) /\ ~ (i <= n + m)
        BY <1>2, <2>3
      <3> QED BY <1>2, <1>4, <2>3, <3>1, <3>2, FreshType
    <2> QED BY <1>2, <2>1, <2>2, <2>3
  <1>6. t \in Seq(Task) /\ Len(t) = n + m + k
    <2>1. t \in [1..(n + m + k) -> Task]
      BY <1>3, <1>5
    <2> QED BY <1>2, <2>1
  <1>7. \A i \in 1..n : t[i].of = images[b][i]
    <2> TAKE i \in 1..n
    <2>1. i \in 1..(n + m + k) /\ i <= n
      BY <1>2
    <2> QED BY <1>5, <2>1
  <1>8. \A j \in 1..m : t[n + j].of = vid(j)
    <2> TAKE j \in 1..m
    <2>1. n + j \in 1..(n + m + k) /\ n + j > n /\ n + j <= n + m /\ (n + j) - n = j
      BY <1>2
    <2> QED BY <1>5, <2>1
  <1>9. \A j \in 1..k : t[n + m + j].of = audios[b][j]
    <2> TAKE j \in 1..k
    <2>1. n + m + j \in 1..(n + m + k) /\ n + m + j > n + m /\ (n + m + j) - n - m = j
      BY <1>2
    <2> QED BY <1>5, <2>1
  <1> QED BY <1>2, <1>5, <1>6, <1>7, <1>8, <1>9 DEF n, m, k, t, vid

LEMMA GatherStep ==
    ASSUME Inv, NEW b \in Batch, Gather(b)
    PROVE  Inv'
  <1> USE DEF Gather, Enter
  <1>1. Local(b)
    BY DEF Inv, Functions, Local
  <1>2. Good(stage[b], files[b], images[b], videos[b], audios[b], seen[b], frames[b],
             task[b], described[b], reply[b], excluded[b])
    BY DEF Inv, GoodBatch
  <1>3. Aligned(images[b], videos[b], audios[b], frames[b], task'[b])
    BY Gathered DEF Aligned
  <1>4. Truthful(task'[b])
    BY Gathered, NoFileAssumption DEF Truthful
  <1>5. stage'[b] = "gather"
    BY DEF Inv, Functions
  <1>6. GoodBatch(b)'
    BY <1>2, <1>3, <1>4, <1>5, Gathered DEF GoodBatch, Good, Stage
  <1>7. \A i \in Nat : Calls(b, i)' <=> Calls(b, i)
    <2>1. task[b] = <<>> /\ stage[b] = "videos" /\ Len(task[b]) = 0
      BY <1>2 DEF Good
    <2>2. \A i \in 1..Len(task'[b]) : task'[b][i].at # "call"
      BY Gathered
    <2>3. \A i \in Nat : i \notin 1..Len(task[b])
      BY <2>1
    <2> QED BY <1>5, <2>1, <2>2, <2>3 DEF Calls
  <1> QED BY <1>1, <1>6, <1>7, QuietBatch, Together

\* What a task may become: still about the same file, and true to it.
Follows(t, u) == u \in Task /\ u.of = t.of /\ (u.result \in File => u.result = u.of)

LEMMA TaskGoes ==
    ASSUME Inv, NEW b \in Batch, stage[b] = "gather", NEW i \in DOMAIN task[b],
           NEW t, Follows(task[b][i], t), Goes(b, i, t)
    PROVE  /\ Local(b) /\ GoodBatch(b)'
           /\ stage'[b] = "gather" /\ i \in 1..Len(task[b]) /\ Len(task'[b]) = Len(task[b])
           /\ task'[b][i] = t
           /\ \A j \in 1..Len(task[b]) : j # i => task'[b][j] = task[b][j]
  <1>1. Local(b)
    BY DEF Goes, Inv, Functions, Local
  <1>2. Good(stage[b], files[b], images[b], videos[b], audios[b], seen[b], frames[b],
             task[b], described[b], reply[b], excluded[b])
    BY DEF Inv, GoodBatch
  <1>3. /\ task[b] \in Seq(Task) /\ Truthful(task[b])
        /\ Aligned(images[b], videos[b], audios[b], frames[b], task[b])
    BY <1>2 DEF Good
  <1>4. task'[b] = [task[b] EXCEPT ![i] = t] /\ i \in 1..Len(task[b]) /\ t \in Task
    BY <1>3 DEF Goes, Inv, Functions, Follows
  <1>5. /\ task'[b] \in Seq(Task) /\ Len(task'[b]) = Len(task[b])
        /\ task'[b][i] = t
        /\ \A j \in 1..Len(task[b]) : j # i => task'[b][j] = task[b][j]
    BY <1>3, <1>4
  <1>6. \A j \in 1..Len(task[b]) : task'[b][j].of = task[b][j].of
    BY <1>5 DEF Follows
  <1>7. Truthful(task'[b])
    <2> SUFFICES ASSUME NEW j \in 1..Len(task[b]), task'[b][j].result \in File
                 PROVE  task'[b][j].result = task'[b][j].of
      BY <1>5 DEF Truthful
    <2> QED BY <1>3, <1>5 DEF Truthful, Follows
  <1>8. Aligned(images[b], videos[b], audios[b], frames[b], task'[b])
    <2> DEFINE n == Len(images[b])
               m == Len(frames[b])
               k == Len(audios[b])
    <2>1. n \in Nat /\ m \in Nat /\ k \in Nat
      BY <1>2 DEF Good
    <2>2. Len(task[b]) = n + m + k
      BY <1>3 DEF Aligned
    <2> HIDE DEF n, m, k
    <2>3. \A j \in 1..n : j \in 1..Len(task[b])
      BY <2>1, <2>2
    <2>4. \A j \in 1..m : n + j \in 1..Len(task[b])
      BY <2>1, <2>2
    <2> QED BY <1>3, <1>5, <1>6, <2>3, <2>4 DEF Aligned, n, m, k
  <1>9. /\ stage'[b] = stage[b] /\ files'[b] = files[b] /\ images'[b] = images[b]
        /\ videos'[b] = videos[b] /\ audios'[b] = audios[b] /\ seen'[b] = seen[b]
        /\ frames'[b] = frames[b] /\ described'[b] = described[b]
        /\ reply'[b] = reply[b] /\ excluded'[b] = excluded[b]
    BY DEF Goes
  <1>10. GoodBatch(b)'
    BY <1>2, <1>5, <1>7, <1>8, <1>9 DEF GoodBatch, Good
  <1> QED BY <1>1, <1>4, <1>5, <1>9, <1>10

\* The holders after a task of b went on: with it or without it.
LEMMA TaskHolds ==
    ASSUME Inv, NEW b \in Batch, stage[b] = "gather", NEW i \in DOMAIN task[b],
           NEW t, Follows(task[b][i], t), Goes(b, i, t)
    PROVE  /\ <<b, i>> \in Holding <=> task[b][i].at = "call"
           /\ Holding' = IF t.at = "call" THEN Holding \cup {<<b, i>>} ELSE Holding \ {<<b, i>>}
  <1>1. /\ Local(b)
        /\ stage'[b] = "gather" /\ i \in 1..Len(task[b]) /\ Len(task'[b]) = Len(task[b])
        /\ task'[b][i] = t
        /\ \A j \in 1..Len(task[b]) : j # i => task'[b][j] = task[b][j]
    BY TaskGoes
  <1>2. Len(task[b]) \in Nat
    BY DEF Inv, GoodBatch, Good
  <1>3. i \in Nat \ {0}
    BY <1>1, <1>2
  <1>4. \A c \in Batch, j \in Nat : <<c, j>> # <<b, i>> => (Calls(c, j)' <=> Calls(c, j))
    <2> TAKE c \in Batch, j \in Nat
    <2>1. CASE c # b
      BY <2>1, <1>1 DEF Calls, Local
    <2>2. CASE c = b /\ j # i
      BY <2>2, <1>1 DEF Calls
    <2> QED BY <2>1, <2>2
  <1>5. Calls(b, i) <=> task[b][i].at = "call"
    BY <1>1, <1>3 DEF Calls
  <1>6. Calls(b, i)' <=> t.at = "call"
    BY <1>1, <1>3 DEF Calls
  <1>7. \A p \in Batch \X Nat : p = <<p[1], p[2]>> /\ p[1] \in Batch /\ p[2] \in Nat
    OBVIOUS
  <1>8. <<b, i>> \in Batch \X Nat /\ <<b, i>>[1] = b /\ <<b, i>>[2] = i
    BY <1>3
  <1>9. <<b, i>> \in Holding <=> task[b][i].at = "call"
    BY <1>5, <1>8 DEF Holding
  <1>10. \A p \in Batch \X Nat : p # <<b, i>> => (p \in Holding' <=> p \in Holding)
    BY <1>4, <1>7 DEF Holding
  <1>11. <<b, i>> \in Holding' <=> t.at = "call"
    BY <1>6, <1>8 DEF Holding
  <1>12. Holding \subseteq Batch \X Nat /\ Holding' \subseteq Batch \X Nat
    BY DEF Holding
  <1> QED BY <1>8, <1>9, <1>10, <1>11, <1>12

\* What each step of a task makes of it, and of the slots.
LEMMA TaskBecomes ==
    ASSUME Inv, NEW b \in Batch, NEW i \in DOMAIN task[b], TaskStep(b, i)
    PROVE  /\ stage[b] = "gather"
           /\ \E u : /\ Follows(task[b][i], u) /\ Goes(b, i, u)
                     /\ u.at = "done" => u.result # Pending
                     /\ \/ slots' = slots /\ task[b][i].at # "call" /\ u.at # "call"
                        \/ slots > 0 /\ slots' = slots - 1 /\ task[b][i].at # "call" /\ u.at = "call"
                        \/ slots' = slots + 1 /\ task[b][i].at = "call" /\ u.at # "call"
  <1> DEFINE t == task[b][i]
             Becomes(u) == /\ Follows(t, u) /\ Goes(b, i, u)
                           /\ u.at = "done" => u.result # Pending
                           /\ \/ slots' = slots /\ t.at # "call" /\ u.at # "call"
                              \/ slots > 0 /\ slots' = slots - 1 /\ t.at # "call" /\ u.at = "call"
                              \/ slots' = slots + 1 /\ t.at = "call" /\ u.at # "call"
             Proper(u) == Follows(t, u) /\ u.at # "call" /\ (u.at = "done" => u.result # Pending)
  <1>1. stage[b] = "gather" /\ t \in Task /\ (t.result \in File => t.result = t.of)
    <2>1. stage[b] = "gather"
      BY DEF TaskStep, Download, Transcribe, Acquire, Text, CallFails, Answer, At
    <2>2. task[b] \in Seq(Task) /\ Truthful(task[b])
      BY DEF Inv, GoodBatch, Good
    <2>3. i \in 1..Len(task[b])
      BY <2>2
    <2> QED BY <2>1, <2>2, <2>3 DEF Truthful
  <1>2. \A r \in File \cup {NoText} : (r \in File => r = t.of) => Proper(Done(t, r))
    <2> TAKE r \in File \cup {NoText}
    <2> HIDE DEF t
    <2>1. /\ Done(t, r) \in Task /\ Done(t, r).of = t.of
          /\ Done(t, r).result = r /\ Done(t, r).at = "done"
      BY <1>1 DEF Done, Task
    <2>2. r # Pending
      BY NoFileAssumption DEF NoText, Pending
    <2> QED BY <2>1, <2>2 DEF Follows
  <1>3. Proper(Done(t, NoText)) /\ Proper(Done(t, t.of))
    BY <1>1, <1>2, NoFileAssumption DEF Task
  <1>4. Proper([t EXCEPT !.at = "wait"])
    BY <1>1 DEF Follows, Task
  <1>5. Proper(Escalate(t))
    <2>1. 0 \in 0..Retries
      BY BatchAssumption
    <2> HIDE DEF t
    <2> QED BY <1>1, <2>1 DEF Escalate, Follows, Task
  <1>6. t.tries < Retries => Proper(Retry(t))
    <2>1. t.tries < Retries => t.tries + 1 \in 0..Retries
      BY <1>1, BatchAssumption DEF Task
    <2> HIDE DEF t
    <2> QED BY <1>1, <2>1 DEF Retry, Follows, Task
  <1>7. ASSUME NEW ok \in BOOLEAN, Download(b, i, ok)
        PROVE  \E u : Becomes(u)
    <2>1. Becomes(IF ok THEN [t EXCEPT !.at = "wait"] ELSE Done(t, NoText))
      BY <1>3, <1>4, <1>7 DEF Download, At
    <2> QED BY <2>1
  <1>8. ASSUME NEW ok \in BOOLEAN, Transcribe(b, i, ok)
        PROVE  \E u : Becomes(u)
    <2>1. Becomes(Done(t, IF ok THEN t.of ELSE NoText))
      BY <1>3, <1>8 DEF Transcribe, At
    <2> QED BY <2>1
  <1>9. ASSUME Acquire(b, i)
        PROVE  \E u : Becomes(u)
    <2>1. Follows(t, [t EXCEPT !.at = "call"]) /\ [t EXCEPT !.at = "call"].at = "call"
      BY <1>1 DEF Follows, Task
    <2>2. Becomes([t EXCEPT !.at = "call"])
      BY <1>9, <2>1 DEF Acquire, At
    <2> QED BY <2>2
  <1>10. ASSUME NEW u, Proper(u), Answer(b, i, u)
         PROVE  \E v : Becomes(v)
    <2>1. Becomes(u)
      BY <1>10 DEF Answer, At
    <2> QED BY <2>1
  <1>11. ASSUME NEW shallow \in BOOLEAN, Text(b, i, shallow)
         PROVE  \E u : Becomes(u)
    <2> HIDE DEF Becomes, Proper
    <2> QED BY <1>3, <1>5, <1>10, <1>11 DEF Text
  <1>12. ASSUME CallFails(b, i)
         PROVE  \E u : Becomes(u)
    <2> HIDE DEF Becomes, Proper
    <2> QED BY <1>3, <1>5, <1>6, <1>10, <1>12 DEF CallFails
  <1> HIDE DEF Becomes, Proper
  <1>13. \E u : Becomes(u)
    BY <1>7, <1>8, <1>9, <1>11, <1>12 DEF TaskStep
  <1> QED BY <1>1, <1>13 DEF Becomes

LEMMA TaskStepKeeps ==
    ASSUME Inv, NEW b \in Batch, NEW i \in DOMAIN task[b], TaskStep(b, i)
    PROVE  Inv'
  <1> DEFINE t == task[b][i]
  <1>1. PICK u : /\ Follows(t, u) /\ Goes(b, i, u)
                 /\ \/ slots' = slots /\ t.at # "call" /\ u.at # "call"
                    \/ slots > 0 /\ slots' = slots - 1 /\ t.at # "call" /\ u.at = "call"
                    \/ slots' = slots + 1 /\ t.at = "call" /\ u.at # "call"
    BY TaskBecomes
  <1>2. stage[b] = "gather"
    BY TaskBecomes
  <1>3. CASE slots' = slots /\ t.at # "call" /\ u.at # "call"
    <2>1. Holding' = Holding
      BY <1>1, <1>2, <1>3, TaskHolds
    <2> QED BY <1>1, <1>2, <1>3, <2>1, TaskGoes, NobodyMoves, Together DEF Inv
  <1>4. CASE slots > 0 /\ slots' = slots - 1 /\ t.at # "call" /\ u.at = "call"
    <2>1. <<b, i>> \notin Holding /\ Holding' = Holding \cup {<<b, i>>}
      BY <1>1, <1>2, <1>4, TaskHolds
    <2> QED BY <1>1, <1>2, <1>4, <2>1, TaskGoes, SlotTaken, Together DEF Inv
  <1>5. CASE slots' = slots + 1 /\ t.at = "call" /\ u.at # "call"
    <2>1. <<b, i>> \in Holding /\ Holding' = Holding \ {<<b, i>>}
      BY <1>1, <1>2, <1>5, TaskHolds
    <2> QED BY <1>1, <1>2, <1>5, <2>1, TaskGoes, SlotGiven, Together DEF Inv
  <1> QED BY <1>1, <1>3, <1>4, <1>5

\* The results are read at the positions they were awaited at.
LEMMA SlicesTrue ==
    ASSUME Inv, NEW b \in Batch, stage[b] = "gather"
    PROVE  \A d \in OfPhotos(b) \cup OfFrames(b) :
              d \in [label : File, about : File] /\ d.about = d.label
  <1>1. Good(stage[b], files[b], images[b], videos[b], audios[b], seen[b], frames[b],
             task[b], described[b], reply[b], excluded[b])
    BY DEF Inv, GoodBatch
  <1> DEFINE n == Len(images[b])
             m == Len(frames[b])
             k == Len(audios[b])
  <1>2. n \in Nat /\ m \in Nat /\ k \in Nat
    BY <1>1 DEF Good
  <1>3. /\ Len(task[b]) = n + m + k
        /\ \A i \in 1..n : task[b][i].of = images[b][i]
        /\ \A j \in 1..m : task[b][n + j].of = videos[b][frames[b][j]]
        /\ Truthful(task[b])
    BY <1>1 DEF Good, Aligned
  <1>4. ASSUME NEW d \in OfPhotos(b)
        PROVE  d \in [label : File, about : File] /\ d.about = d.label
    <2>1. PICK i \in 1..n : /\ task[b][i].result \in File
                            /\ d = [label |-> images[b][i], about |-> task[b][i].result]
      BY <1>4 DEF OfPhotos, HasText
    <2> HIDE DEF n, m, k
    <2>2. i \in 1..Len(task[b])
      BY <1>2, <1>3
    <2>3. task[b][i].result = images[b][i]
      BY <1>3, <2>1, <2>2 DEF Truthful
    <2> QED BY <2>1, <2>3
  <1>5. ASSUME NEW d \in OfFrames(b)
        PROVE  d \in [label : File, about : File] /\ d.about = d.label
    <2>1. PICK j \in 1..m : /\ task[b][n + j].result \in File
                            /\ d = [label |-> videos[b][frames[b][j]], about |-> task[b][n + j].result]
      BY <1>5 DEF OfFrames, HasText
    <2> HIDE DEF n, m, k
    <2>2. n + j \in 1..Len(task[b])
      BY <1>2, <1>3
    <2>3. task[b][n + j].result = videos[b][frames[b][j]]
      BY <1>3, <2>1, <2>2 DEF Truthful
    <2> QED BY <2>1, <2>3
  <1> QED BY <1>4, <1>5

LEMMA CollectStep ==
    ASSUME Inv, NEW b \in Batch, Collect(b)
    PROVE  Inv'
  <1> USE DEF Collect, End, Enter
  <1>1. Local(b)
    BY DEF Inv, Functions, Local
  <1>2. Good(stage[b], files[b], images[b], videos[b], audios[b], seen[b], frames[b],
             task[b], described[b], reply[b], excluded[b])
    BY DEF Inv, GoodBatch
  <1>3. /\ stage[b] = "gather" /\ stage'[b] \in {"synthesis", "ended"} /\ reply'[b] \in Reply
        /\ described'[b] = OfPhotos(b) \cup OfFrames(b)
    BY <1>2 DEF Inv, Functions, Good, Reply
  <1>4. \A i \in 1..Len(task[b]) : task[b][i].at # "call"
    BY <1>2 DEF Good
  <1>5. /\ described'[b] \in SUBSET [label : File, about : File]
        /\ \A d \in described'[b] : d.about = d.label
    BY <1>3, SlicesTrue
  <1>6. GoodBatch(b)'
    BY <1>2, <1>3, <1>4, <1>5 DEF GoodBatch, Good, Stage
  <1>7. \A i \in Nat : Calls(b, i)' <=> Calls(b, i)
    BY <1>3 DEF Calls
  <1> QED BY <1>1, <1>6, <1>7, QuietBatch, Together

\* The holders after the synthesis of b took or gave its slot.
LEMMA SynthesisHolds ==
    ASSUME Inv, NEW b \in Batch, Local(b), task'[b] = task[b]
    PROVE  /\ <<b, 0>> \in Holding <=> stage[b] = "writing"
           /\ Holding' = IF stage'[b] = "writing" THEN Holding \cup {<<b, 0>>} ELSE Holding \ {<<b, 0>>}
  <1>1. Len(task[b]) \in Nat
    BY DEF Inv, GoodBatch, Good
  <1>2. 0 \notin 1..Len(task[b])
    BY <1>1
  <1>3. \A c \in Batch, j \in Nat : <<c, j>> # <<b, 0>> => (Calls(c, j)' <=> Calls(c, j))
    <2> TAKE c \in Batch, j \in Nat
    <2>1. CASE c # b
      BY <2>1 DEF Calls, Local
    <2>2. CASE c = b /\ j # 0
      BY <2>2 DEF Calls
    <2> QED BY <2>1, <2>2
  <1>4. (Calls(b, 0) <=> stage[b] = "writing") /\ (Calls(b, 0)' <=> stage'[b] = "writing")
    BY <1>2 DEF Calls
  <1>5. \A p \in Batch \X Nat : p = <<p[1], p[2]>> /\ p[1] \in Batch /\ p[2] \in Nat
    OBVIOUS
  <1>6. <<b, 0>> \in Batch \X Nat /\ <<b, 0>>[1] = b /\ <<b, 0>>[2] = 0
    OBVIOUS
  <1>7. <<b, 0>> \in Holding <=> stage[b] = "writing"
    BY <1>4, <1>6 DEF Holding
  <1>8. \A p \in Batch \X Nat : p # <<b, 0>> => (p \in Holding' <=> p \in Holding)
    BY <1>3, <1>5 DEF Holding
  <1>9. <<b, 0>> \in Holding' <=> stage'[b] = "writing"
    BY <1>4, <1>6 DEF Holding
  <1>10. Holding \subseteq Batch \X Nat /\ Holding' \subseteq Batch \X Nat
    BY DEF Holding
  <1> QED BY <1>6, <1>7, <1>8, <1>9, <1>10

LEMMA SynthesiseStep ==
    ASSUME Inv, NEW b \in Batch, Synthesise(b)
    PROVE  Inv'
  <1> USE DEF Synthesise, Enter
  <1>1. Local(b)
    BY DEF Inv, Functions, Local
  <1>2. stage[b] = "synthesis" /\ stage'[b] = "writing"
    BY DEF Inv, Functions
  <1>3. GoodBatch(b)'
    BY <1>2 DEF Inv, GoodBatch, Good, Stage
  <1>4. Balance'
    <2>1. <<b, 0>> \notin Holding /\ Holding' = Holding \cup {<<b, 0>>}
      BY <1>1, <1>2, SynthesisHolds
    <2> QED BY <2>1, SlotTaken DEF Inv
  <1> QED BY <1>1, <1>3, <1>4, Together

LEMMA WriteStep ==
    ASSUME Inv, NEW b \in Batch, NEW ok \in BOOLEAN, Write(b, ok)
    PROVE  Inv'
  <1> USE DEF Write, End, Enter
  <1>1. Local(b)
    BY DEF Inv, Functions, Local
  <1>2. stage[b] = "writing" /\ stage'[b] = "ended" /\ reply'[b] \in Reply
    BY DEF Inv, Functions, Reply
  <1>3. GoodBatch(b)'
    BY <1>2 DEF Inv, GoodBatch, Good, Stage
  <1>4. Balance'
    <2>1. <<b, 0>> \in Holding /\ Holding' = Holding \ {<<b, 0>>}
      BY <1>1, <1>2, SynthesisHolds
    <2> QED BY <2>1, SlotGiven DEF Inv
  <1> QED BY <1>1, <1>3, <1>4, Together

LEMMA NextGood ==
    ASSUME Inv, [Next]_vars
    PROVE  Inv'
  <1>1. ASSUME NEW b \in Batch, BatchStep(b)
        PROVE  Inv'
    <2>1. ASSUME NEW screened, NEW allowed, Gate(b, screened, allowed)
          PROVE  Inv'
      BY <2>1, GateStep
    <2>2. ASSUME NEW framed \in BOOLEAN, ProcessVideo(b, framed)
          PROVE  Inv'
      BY <2>2, VideoStep
    <2>3. ASSUME NEW i \in DOMAIN task[b], TaskStep(b, i)
          PROVE  Inv'
      BY <2>3, TaskStepKeeps
    <2> QED BY <1>1, <2>1, <2>2, <2>3, GatherStep, CollectStep, SynthesiseStep, WriteStep DEF BatchStep
  <1>2. CASE UNCHANGED vars
    <2>1. Holding' = Holding
      BY <1>2 DEF vars, own, Holding, Calls
    <2>2. Balance'
      BY <1>2, <2>1, NobodyMoves DEF vars, own, Inv
    <2> QED BY <1>2, <2>2 DEF vars, own, Inv, Functions, GoodBatch
  <1> QED BY <1>1, <1>2, ReadStep DEF Next

-----------------------------------------------------------------------------
(***************************************************************************)
(* Every picture is accounted for.                                         *)
(***************************************************************************)
\* What the caps let through of a list read from the session: the recent ones,
\* and under a zero cap all of them.
TakenOf(b, fi, kind) ==
    LET at == {i \in DOMAIN fi : Kind[fi[i]] = kind}
    IN {fi[i] : i \in {j \in at : \/ Cap(b, kind) = 0
                                  \/ Cardinality({k \in at : k > j}) < Cap(b, kind)}}

Pictures(b, fi) == TakenOf(b, fi, "image") \cup TakenOf(b, fi, "video")

LEMMA RecentTaken ==
    ASSUME NEW b, NEW kind
    PROVE  /\ Recent(b, kind) \subseteq TakenOf(b, files[b], kind)
           /\ \A f \in TakenOf(b, files[b], kind) :
                 Kind[f] = kind /\ (f \in Recent(b, kind) \/ Cap(b, kind) = 0)
  BY DEF Recent, TakenOf

LEMMA TakenKind ==
    ASSUME NEW b, NEW fi, NEW kind
    PROVE  \A f \in TakenOf(b, fi, kind) : Kind[f] = kind
  BY DEF TakenOf

\* The list analysed holds the recent files, each once.
LEMMA KeptRecent ==
    ASSUME NEW b \in Batch, NEW kind \in Media, NEW fs \in Seq(File), Distinct(fs)
    PROVE  /\ ToSet(Kept(b, fs, kind)) = TakenOf(b, fs, kind)
           /\ Distinct(Kept(b, fs, kind))
           /\ \A i \in 1..Len(Kept(b, fs, kind)) : Kind[Kept(b, fs, kind)[i]] = kind
           /\ OfKind(fs, kind) = <<>> => TakenOf(b, fs, kind) = {}
  <1> DEFINE at == {i \in 1..Len(fs) : Kind[fs[i]] = kind}
             N == Cardinality(at)
             n == Cap(b, kind)
             xs == Pick(fs, at)
             ys == MostRecent(xs, n)
             rank(i) == Cardinality(UpTo(at, i))
             above(i) == Cardinality({k \in at : k > i})
  <1>1. n \in Nat
    BY BatchAssumption DEF Cap, Media
  <1>2. xs = OfKind(fs, kind) /\ ys = Kept(b, fs, kind)
    BY DEF OfKind, Kept
  <1>3. /\ at \in SUBSET (1..Len(fs)) /\ at \in SUBSET Nat /\ IsFiniteSet(at) /\ N \in Nat
        /\ xs \in Seq(File) /\ Len(xs) = N
        /\ \A k \in 1..N : \E i \in at : rank(i) = k /\ xs[k] = fs[i]
        /\ \A i \in at : rank(i) \in 1..N /\ xs[rank(i)] = fs[i]
    <2>1. at \in SUBSET (1..Len(fs))
      OBVIOUS
    <2> HIDE DEF at
    <2>2. /\ at \in SUBSET Nat /\ IsFiniteSet(at) /\ N \in Nat
          /\ xs \in Seq(File) /\ Len(xs) = N
      BY <2>1, PickAt
    <2>3. /\ \A k \in 1..N : \E i \in at : rank(i) = k /\ xs[k] = fs[i]
          /\ \A i \in at : rank(i) \in 1..N /\ xs[rank(i)] = fs[i]
      BY <2>1, PickAt
    <2> QED BY <2>1, <2>2, <2>3
  <1>4. Distinct(xs)
    BY PickKeeps
  <1>5. \A i \in at : above(i) = N - rank(i)
    BY <1>3, RankSplit
  <1>6. TakenOf(b, fs, kind) = {fs[i] : i \in {j \in at : n = 0 \/ above(j) < n}}
    <2>1. DOMAIN fs = 1..Len(fs)
      OBVIOUS
    <2> QED BY <2>1 DEF TakenOf
  <1>7. \A i \in at : Kind[fs[i]] = kind
    OBVIOUS
  <1> HIDE DEF at, xs, ys, rank, above, n, N
  <1>8. PICK d \in 0..N : /\ ys \in Seq(File) /\ Len(ys) = N - d
                          /\ \A k \in 1..(N - d) : ys[k] = xs[d + k]
                          /\ \A r \in 1..N : r > d <=> (n = 0 \/ N - r < n)
    BY <1>1, <1>3, MostRecentIs DEF ys
  <1>9. ToSet(ys) = {ys[k] : k \in 1..(N - d)}
    BY <1>8 DEF ToSet
  <1>10. \A k \in 1..(N - d) : d + k \in 1..N /\ d + k > d
    BY <1>3
  <1>11. \A r \in 1..N : r > d => r - d \in 1..(N - d) /\ d + (r - d) = r
    BY <1>3
  <1>12. ASSUME NEW k \in 1..(N - d)
         PROVE  \E i \in at : ys[k] = fs[i] /\ (n = 0 \/ above(i) < n)
    <2>1. PICK i \in at : rank(i) = d + k /\ xs[d + k] = fs[i]
      BY <1>3, <1>10
    <2>2. n = 0 \/ N - rank(i) < n
      BY <1>8, <1>10, <2>1
    <2> QED BY <1>5, <1>8, <2>1, <2>2
  <1>13. ASSUME NEW i \in at, n = 0 \/ above(i) < n
         PROVE  \E k \in 1..(N - d) : ys[k] = fs[i]
    <2>1. rank(i) \in 1..N /\ xs[rank(i)] = fs[i]
      BY <1>3
    <2>2. n = 0 \/ N - rank(i) < n
      BY <1>5, <1>13
    <2>3. rank(i) > d
      BY <1>8, <2>1, <2>2
    <2>4. rank(i) - d \in 1..(N - d) /\ d + (rank(i) - d) = rank(i)
      BY <1>11, <2>1, <2>3
    <2> QED BY <1>8, <2>1, <2>4
  <1>14. ToSet(ys) = TakenOf(b, fs, kind)
    BY <1>6, <1>9, <1>12, <1>13
  <1>15. Distinct(ys)
    <2> SUFFICES ASSUME NEW k \in 1..(N - d), NEW l \in 1..(N - d), ys[k] = ys[l]
                 PROVE  k = l
      BY <1>8 DEF Distinct
    <2>1. xs[d + k] = xs[d + l]
      BY <1>8
    <2>2. d + k = d + l
      BY <1>3, <1>4, <1>10, <2>1 DEF Distinct
    <2> QED BY <2>2
  <1>16. \A k \in 1..Len(ys) : Kind[ys[k]] = kind
    BY <1>7, <1>8, <1>12
  <1>17. xs = <<>> => TakenOf(b, fs, kind) = {}
    <2> SUFFICES ASSUME xs = <<>> PROVE at = {}
      BY <1>6
    <2>1. N = 0
      BY <1>3
    <2> QED BY <1>3, <2>1
  <1> QED BY <1>2, <1>14, <1>15, <1>16, <1>17

\* What the synthesis is not given: what the gate left out, the videos of which
\* no frame came, what Vision did not answer for.
Lost(vi, sn, fr, tk, ex) ==
    ex \cup {vi[j] : j \in (1..sn) \ ToSet(fr)} \cup {t.of : t \in {u \in ToSet(tk) : u.result = NoText}}

\* Every picture the caps let through is in the lists, or excluded, once.
Listed(b, fi, im, vi, au, sn, fr, ex) ==
    /\ Distinct(im) /\ Distinct(vi) /\ Distinct(fr)
    /\ ToSet(vi) = TakenOf(b, fi, "video")
    /\ ToSet(im) = TakenOf(b, fi, "image") \ ex
    /\ ex \subseteq TakenOf(b, fi, "image")
    /\ \A i \in 1..Len(au) : Kind[au[i]] = "audio"
    /\ \A j \in 1..Len(fr) : fr[j] <= sn

Told(tk) == \A i \in 1..Len(tk) : tk[i].at = "done" => tk[i].result # Pending

AudiosLast(im, au, fr, tk) == \A i \in 1..Len(au) : tk[Len(im) + Len(fr) + i].of = au[i]

\* So it is until the results are collected; from then on every one of them is
\* described or lost.
Accounted(b, st, fi, im, vi, au, sn, fr, tk, de, re, ex) ==
    /\ st \in {"gate", "videos", "gather"} => Listed(b, fi, im, vi, au, sn, fr, ex)
    /\ st \in {"idle", "gate"} => ex = {}
    /\ st = "gather" => sn = Len(vi) /\ AudiosLast(im, au, fr, tk)
    /\ Told(tk)
    /\ st \in {"synthesis", "writing"} =>
          {d.about : d \in de} = Pictures(b, fi) \ Lost(vi, sn, fr, tk, ex)
    /\ re \in {"content_gate_refused", "all_visual_content_failed"} =>
          Pictures(b, fi) \subseteq Lost(vi, sn, fr, tk, ex)
    /\ re # "none" => st = "ended"

Account(b) ==
    Accounted(b, stage[b], files[b], images[b], videos[b], audios[b], seen[b], frames[b],
              task[b], described[b], reply[b], excluded[b])

Accounts == \A b \in Batch : Account(b)

LEMMA AccountsSuffice == Accounts => NoneLost /\ FailsWithNothing
  <1> SUFFICES ASSUME Accounts, NEW b \in Batch
               PROVE  /\ stage[b] \in {"synthesis", "writing"} =>
                            /\ Visual(b) \subseteq {d.about : d \in described[b]} \cup Missing(b)
                            /\ {d.about : d \in described[b]} \cap Missing(b) = {}
                            /\ \A f \in {d.about : d \in described[b]} \ Visual(b) : Cap(b, Kind[f]) = 0
                      /\ reply[b] \in {"content_gate_refused", "all_visual_content_failed"} =>
                            Visual(b) \subseteq Missing(b)
    BY DEF NoneLost, FailsWithNothing
  <1> DEFINE told == {d.about : d \in described[b]}
  <1>1. /\ stage[b] \in {"synthesis", "writing"} => told = Pictures(b, files[b]) \ Missing(b)
        /\ reply[b] \in {"content_gate_refused", "all_visual_content_failed"} =>
              Pictures(b, files[b]) \subseteq Missing(b)
    <2>1. Account(b)
      BY DEF Accounts
    <2>2. Lost(videos[b], seen[b], frames[b], task[b], excluded[b]) = Missing(b)
      BY DEF Lost, Missing, Unframed, Unanswered
    <2> QED BY <2>1, <2>2 DEF Account, Accounted
  <1> HIDE DEF told
  <1>2. Visual(b) \subseteq Pictures(b, files[b])
    BY RecentTaken DEF Visual, Pictures
  <1>3. \A f \in Pictures(b, files[b]) \ Visual(b) : Cap(b, Kind[f]) = 0
    <2> SUFFICES ASSUME NEW f \in Pictures(b, files[b]), f \notin Visual(b)
                 PROVE  Cap(b, Kind[f]) = 0
      OBVIOUS
    <2>1. PICK kind \in {"image", "video"} : f \in TakenOf(b, files[b], kind)
      BY DEF Pictures
    <2>2. f \notin Recent(b, kind)
      BY <2>1 DEF Visual
    <2> QED BY <2>1, <2>2, RecentTaken
  <1> QED BY <1>1, <1>2, <1>3 DEF told

LEMMA AccountsInit == Init => Accounts
  <1> SUFFICES ASSUME Init, NEW b \in Batch PROVE Account(b)
    BY DEF Accounts
  <1>1. /\ stage[b] = "idle" /\ excluded[b] = {} /\ task[b] = <<>> /\ reply[b] = "none"
        /\ Len(<<>>) = 0
    BY DEF Init
  <1> QED BY <1>1 DEF Account, Accounted, Told

LEMMA AccountsTogether ==
    ASSUME Accounts, NEW b \in Batch, Local(b), Account(b)'
    PROVE  Accounts'
  <1> SUFFICES ASSUME NEW c \in Batch PROVE Account(c)'
    BY DEF Accounts
  <1>1. CASE c = b
    BY <1>1
  <1>2. CASE c # b
    BY <1>2 DEF Accounts, Account, Local
  <1> QED BY <1>1, <1>2

LEMMA AtHome ==
    ASSUME Inv, NEW b \in Batch
    PROVE  Good(stage[b], files[b], images[b], videos[b], audios[b], seen[b], frames[b],
                task[b], described[b], reply[b], excluded[b])
  BY DEF Inv, GoodBatch

LEMMA ReadAccounts ==
    ASSUME Inv, Accounts, NEW b \in Batch, NEW fs \in Inbox[b], Read(b, fs)
    PROVE  Accounts'
  <1> USE DEF Read, End, Enter
  <1>1. Local(b)
    BY DEF Inv, Functions, Local
  <1>2. Account(b)
    BY DEF Accounts
  <1>3. /\ fs \in Seq(File) /\ Distinct(fs) /\ "image" \in Media /\ "video" \in Media /\ "audio" \in Media
    BY BatchAssumption DEF Distinct, Media
  <1>4. /\ stage[b] = "idle" /\ excluded[b] = {} /\ reply[b] = "none"
        /\ frames[b] = <<>> /\ task[b] = <<>> /\ Len(<<>>) = 0
    BY <1>2, AtHome DEF Account, Accounted, Good
  <1>5. /\ files'[b] = fs /\ seen'[b] = seen[b] /\ frames'[b] = <<>> /\ task'[b] = <<>>
        /\ excluded'[b] = {} /\ described'[b] = described[b]
    BY <1>4 DEF Inv, Functions
  <1>6. CASE OfKind(fs, "image") = <<>> /\ OfKind(fs, "video") = <<>>
    <2>1. stage'[b] = "ended" /\ reply'[b] = "no_visual"
      BY <1>6 DEF Inv, Functions
    <2>2. Account(b)'
      BY <1>4, <1>5, <2>1 DEF Account, Accounted, Told
    <2> QED BY <1>1, <2>2, AccountsTogether
  <1>7. CASE ~ (OfKind(fs, "image") = <<>> /\ OfKind(fs, "video") = <<>>)
    <2>1. /\ stage'[b] = "gate" /\ reply'[b] = "none"
          /\ images'[b] = Kept(b, fs, "image") /\ videos'[b] = Kept(b, fs, "video")
          /\ audios'[b] = Kept(b, fs, "audio")
      BY <1>4, <1>7 DEF Inv, Functions
    <2>2. /\ Distinct(images'[b]) /\ Distinct(videos'[b]) /\ Distinct(frames'[b])
          /\ ToSet(videos'[b]) = TakenOf(b, fs, "video") /\ ToSet(images'[b]) = TakenOf(b, fs, "image")
          /\ \A i \in 1..Len(audios'[b]) : Kind[audios'[b][i]] = "audio"
      BY <1>3, <1>4, <1>5, <2>1, KeptRecent DEF Distinct
    <2>3. Listed(b, files'[b], images'[b], videos'[b], audios'[b], seen'[b], frames'[b], excluded'[b])
      BY <1>4, <1>5, <2>2 DEF Listed
    <2>4. Account(b)'
      BY <1>4, <1>5, <2>1, <2>3 DEF Account, Accounted, Told
    <2> QED BY <1>1, <2>4, AccountsTogether
  <1> QED BY <1>6, <1>7

\* What the gate leaves of the images.
Left(im, screened, allowed) ==
    LET passed(fs) == Pick(im, {i \in 1..Len(im) : im[i] \in fs})
    IN passed(screened \cap allowed) \o passed(allowed \ screened)

\* It puts them in another order, and loses none it allows.
LEMMA GateKeeps ==
    ASSUME NEW im \in Seq(File), Distinct(im), NEW screened, NEW allowed
    PROVE  /\ Left(im, screened, allowed) \in Seq(File)
           /\ ToSet(Left(im, screened, allowed)) = ToSet(im) \cap allowed
           /\ Distinct(Left(im, screened, allowed))
  <1> DEFINE at(fs) == {i \in 1..Len(im) : im[i] \in fs}
             first == Pick(im, at(screened \cap allowed))
             second == Pick(im, at(allowed \ screened))
  <1>1. ToSet(im) = {im[i] : i \in 1..Len(im)}
    BY DEF ToSet
  <1>2. \A fs : /\ Pick(im, at(fs)) \in Seq(File)
                /\ ToSet(Pick(im, at(fs))) = ToSet(im) \cap fs
                /\ Distinct(Pick(im, at(fs)))
    <2> TAKE fs
    <2>1. at(fs) \in SUBSET (1..Len(im))
      OBVIOUS
    <2>2. {im[i] : i \in at(fs)} = ToSet(im) \cap fs
      BY <1>1
    <2> HIDE DEF at
    <2> QED BY <2>1, <2>2, PickKeeps
  <1>3. /\ first \in Seq(File) /\ ToSet(first) = ToSet(im) \cap (screened \cap allowed) /\ Distinct(first)
        /\ second \in Seq(File) /\ ToSet(second) = ToSet(im) \cap (allowed \ screened) /\ Distinct(second)
    BY <1>2
  <1>4. first \o second \in Seq(File) /\ ToSet(first \o second) = ToSet(im) \cap allowed
          /\ Distinct(first \o second)
    <2> HIDE DEF first, second
    <2>1. ToSet(first) \cap ToSet(second) = {}
      BY <1>3
    <2>2. ToSet(first) \cup ToSet(second) = ToSet(im) \cap allowed
      BY <1>3
    <2> QED BY <1>3, <2>1, <2>2, ConcatKeeps
  <1> QED BY <1>4 DEF Left

LEMMA GateAccounts ==
    ASSUME Inv, Accounts, NEW b \in Batch, NEW screened \in SUBSET ToSet(images[b]),
           NEW allowed \in SUBSET ToSet(images[b]), Gate(b, screened, allowed)
    PROVE  Accounts'
  <1> DEFINE im == images[b]
             left == Left(im, screened, allowed)
             RI == TakenOf(b, files[b], "image")
             RV == TakenOf(b, files[b], "video")
  <1>1. Local(b)
    BY DEF Inv, Functions, Local, Gate, End, Enter
  <1>2. stage[b] = "gate" /\ Account(b)
    BY DEF Gate, Accounts
  <1>3. /\ Listed(b, files[b], images[b], videos[b], audios[b], seen[b], frames[b], excluded[b])
        /\ reply[b] = "none" /\ excluded[b] = {}
    BY <1>2 DEF Account, Accounted
  <1>4. im \in Seq(File) /\ task[b] = <<>>
    BY <1>2, AtHome DEF Good
  <1>5. Distinct(im) /\ ToSet(im) = RI /\ ToSet(videos[b]) = RV
    BY <1>3 DEF Listed
  <1>6. ToSet(left) = ToSet(im) \cap allowed /\ Distinct(left)
    BY <1>4, <1>5, GateKeeps
  <1>7. /\ images'[b] = left /\ excluded'[b] = ToSet(im) \ allowed
        /\ files'[b] = files[b] /\ videos'[b] = videos[b] /\ audios'[b] = audios[b]
        /\ seen'[b] = seen[b] /\ frames'[b] = frames[b] /\ task'[b] = <<>>
        /\ described'[b] = described[b]
    BY <1>4 DEF Inv, Functions, Gate, Left
  <1>8. \/ /\ stage'[b] = "ended" /\ reply'[b] = "content_gate_refused"
           /\ left = <<>> /\ videos[b] = <<>>
        \/ stage'[b] = "videos" /\ reply'[b] = "none"
    BY <1>3 DEF Inv, Functions, Gate, End, Enter, Left
  <1> HIDE DEF left, im, RI, RV
  <1>9. Told(<<>>)
    BY DEF Told
  <1>10. CASE stage'[b] = "ended" /\ reply'[b] = "content_gate_refused" /\ left = <<>> /\ videos[b] = <<>>
    <2>1. ToSet(<<>>) = {}
      BY DEF ToSet
    <2>2. RV = {} /\ RI \subseteq excluded'[b]
      BY <1>5, <1>6, <1>7, <1>10, <2>1
    <2>3. Pictures(b, files'[b]) \subseteq Lost(videos'[b], seen'[b], frames'[b], task'[b], excluded'[b])
      BY <1>7, <2>2 DEF Pictures, Lost, RI, RV
    <2>4. Account(b)'
      BY <1>7, <1>9, <1>10, <2>3 DEF Account, Accounted
    <2> QED BY <1>1, <2>4, AccountsTogether
  <1>11. CASE stage'[b] = "videos" /\ reply'[b] = "none"
    <2>1. ToSet(left) = RI \ excluded'[b] /\ excluded'[b] \subseteq RI
      BY <1>5, <1>6, <1>7
    <2>2. Listed(b, files'[b], images'[b], videos'[b], audios'[b], seen'[b], frames'[b], excluded'[b])
      BY <1>3, <1>6, <1>7, <2>1 DEF Listed, RI
    <2>3. Account(b)'
      BY <1>7, <1>9, <1>11, <2>2 DEF Account, Accounted
    <2> QED BY <1>1, <2>3, AccountsTogether
  <1> QED BY <1>8, <1>10, <1>11

\* A frame stands for a video not seen before.
LEMMA VideoAccounts ==
    ASSUME Inv, Accounts, NEW b \in Batch, NEW framed, ProcessVideo(b, framed)
    PROVE  Accounts'
  <1>1. Local(b)
    BY DEF Inv, Functions, Local, ProcessVideo
  <1>2. stage[b] = "videos" /\ Account(b)
    BY DEF ProcessVideo, Accounts
  <1>3. /\ Listed(b, files[b], images[b], videos[b], audios[b], seen[b], frames[b], excluded[b])
        /\ reply[b] = "none"
    BY <1>2 DEF Account, Accounted
  <1>4. task[b] = <<>> /\ seen[b] \in Nat /\ frames[b] \in Seq(Nat)
    <2>1. task[b] = <<>> /\ seen[b] \in Nat /\ frames[b] \in Seq(1..Len(videos[b])) /\ Len(videos[b]) \in Nat
      BY <1>2, AtHome DEF Good
    <2>2. 1..Len(videos[b]) \subseteq Nat
      BY <2>1
    <2>3. Seq(1..Len(videos[b])) \subseteq Seq(Nat)
      BY <2>2, SeqMonotonic
    <2> QED BY <2>1, <2>3
  <1>5. /\ Distinct(frames[b])
        /\ \A j \in 1..Len(frames[b]) : frames[b][j] \in Nat /\ frames[b][j] <= seen[b]
    <2>1. \A j \in 1..Len(frames[b]) : frames[b][j] \in Nat
      BY <1>4, ElementOfSeq
    <2> QED BY <1>3, <2>1 DEF Listed
  <1>6. /\ stage'[b] = "videos" /\ files'[b] = files[b] /\ images'[b] = images[b]
        /\ videos'[b] = videos[b] /\ audios'[b] = audios[b] /\ task'[b] = <<>>
        /\ described'[b] = described[b] /\ reply'[b] = "none" /\ excluded'[b] = excluded[b]
        /\ seen'[b] = seen[b] + 1
        /\ frames'[b] \in {frames[b], Append(frames[b], seen[b] + 1)}
    BY <1>2, <1>3, <1>4 DEF Inv, Functions, ProcessVideo
  <1>7. Distinct(frames'[b]) /\ \A j \in 1..Len(frames'[b]) : frames'[b][j] <= seen'[b]
    <2>1. CASE frames'[b] = frames[b]
      BY <1>4, <1>5, <1>6, <2>1
    <2>2. CASE frames'[b] = Append(frames[b], seen[b] + 1)
      <3> DEFINE fr == Append(frames[b], seen[b] + 1)
                 n == Len(frames[b])
      <3>1. Len(fr) = n + 1 /\ fr[n + 1] = seen[b] + 1 /\ \A j \in 1..n : fr[j] = frames[b][j]
        BY <1>4, AppendProperties
      <3>2. n \in Nat /\ \A j \in 1..(n + 1) : j = n + 1 \/ j \in 1..n
        BY <1>4
      <3> HIDE DEF fr
      <3>3. \A j \in 1..n : fr[j] \in Nat /\ fr[j] # seen[b] + 1 /\ fr[j] <= seen[b] + 1
        BY <1>4, <1>5, <3>1
      <3> HIDE DEF n
      <3>4. \A j \in 1..(n + 1) : fr[j] <= seen[b] + 1
        BY <1>4, <3>1, <3>2, <3>3
      <3>5. Distinct(fr)
        <4>1. \A i, j \in 1..n : fr[i] = fr[j] => i = j
          BY <1>5, <3>1 DEF Distinct, n
        <4> QED BY <3>1, <3>2, <3>3, <4>1 DEF Distinct
      <3> QED BY <1>6, <2>2, <3>1, <3>4, <3>5 DEF fr
    <2> QED BY <1>6, <2>1, <2>2
  <1>8. Listed(b, files'[b], images'[b], videos'[b], audios'[b], seen'[b], frames'[b], excluded'[b])
    BY <1>3, <1>6, <1>7 DEF Listed
  <1>9. Told(<<>>)
    BY DEF Told
  <1> QED BY <1>1, <1>6, <1>8, <1>9, AccountsTogether DEF Account, Accounted


LEMMA GatherAccounts ==
    ASSUME Inv, Accounts, NEW b \in Batch, Gather(b)
    PROVE  Accounts'
  <1>1. Local(b)
    BY DEF Inv, Functions, Local, Gather, Enter
  <1>2. stage[b] = "videos" /\ seen[b] = Len(videos[b]) /\ Account(b)
    BY DEF Gather, Accounts
  <1>3. /\ Listed(b, files[b], images[b], videos[b], audios[b], seen[b], frames[b], excluded[b])
        /\ reply[b] = "none"
    BY <1>2 DEF Account, Accounted
  <1>4. /\ stage'[b] = "gather" /\ files'[b] = files[b] /\ images'[b] = images[b]
        /\ videos'[b] = videos[b] /\ audios'[b] = audios[b] /\ seen'[b] = seen[b]
        /\ frames'[b] = frames[b] /\ reply'[b] = "none" /\ excluded'[b] = excluded[b]
    BY <1>3 DEF Inv, Functions, Gather, Enter
  <1>5. Told(task'[b]) /\ AudiosLast(images[b], audios[b], frames[b], task'[b])
    BY Gathered DEF Told, AudiosLast
  <1> QED BY <1>1, <1>2, <1>3, <1>4, <1>5, AccountsTogether DEF Account, Accounted

LEMMA TaskAccounts ==
    ASSUME Inv, Accounts, NEW b \in Batch, NEW i \in DOMAIN task[b], TaskStep(b, i)
    PROVE  Accounts'
  <1>1. PICK u : /\ Follows(task[b][i], u) /\ Goes(b, i, u)
                 /\ u.at = "done" => u.result # Pending
    BY TaskBecomes
  <1>2. stage[b] = "gather" /\ Account(b)
    BY TaskBecomes DEF Accounts
  <1>3. /\ Listed(b, files[b], images[b], videos[b], audios[b], seen[b], frames[b], excluded[b])
        /\ reply[b] = "none" /\ seen[b] = Len(videos[b])
        /\ AudiosLast(images[b], audios[b], frames[b], task[b]) /\ Told(task[b])
    BY <1>2 DEF Account, Accounted
  <1>4. /\ Local(b) /\ stage'[b] = "gather" /\ i \in 1..Len(task[b])
        /\ Len(task'[b]) = Len(task[b]) /\ task'[b][i] = u
        /\ \A j \in 1..Len(task[b]) : j # i => task'[b][j] = task[b][j]
    BY <1>1, <1>2, TaskGoes
  <1>5. /\ files'[b] = files[b] /\ images'[b] = images[b] /\ videos'[b] = videos[b]
        /\ audios'[b] = audios[b] /\ seen'[b] = seen[b] /\ frames'[b] = frames[b]
        /\ reply'[b] = "none" /\ excluded'[b] = excluded[b]
    BY <1>1, <1>3 DEF Goes
  <1>6. Told(task'[b])
    BY <1>1, <1>3, <1>4 DEF Told
  <1>7. AudiosLast(images[b], audios[b], frames[b], task'[b])
    <2> DEFINE n == Len(images[b])
               m == Len(frames[b])
               k == Len(audios[b])
    <2>1. /\ n \in Nat /\ m \in Nat /\ k \in Nat /\ Len(task[b]) = n + m + k
      <3>1. /\ images[b] \in Seq(File) /\ audios[b] \in Seq(File) /\ frames[b] \in Seq(1..Len(videos[b]))
            /\ Aligned(images[b], videos[b], audios[b], frames[b], task[b])
        BY <1>2, AtHome DEF Good
      <3> QED BY <3>1 DEF Aligned
    <2> HIDE DEF n, m, k
    <2>2. \A j \in 1..k : n + m + j \in 1..Len(task[b])
      BY <2>1
    <2>3. \A j \in 1..k : task'[b][n + m + j].of = task[b][n + m + j].of
      BY <1>1, <1>4, <2>2 DEF Follows
    <2> QED BY <1>3, <2>3 DEF AudiosLast, n, m, k
  <1> QED BY <1>3, <1>4, <1>5, <1>6, <1>7, AccountsTogether DEF Account, Accounted

\* What gather returned is those pictures less the lost ones: position by
\* position, each answer is of one picture and of no other.
LEMMA AllTold ==
    ASSUME Inv, Accounts, NEW b \in Batch, stage[b] = "gather",
           \A i \in DOMAIN task[b] : task[b][i].at = "done"
    PROVE  {d.about : d \in OfPhotos(b) \cup OfFrames(b)}
             = Pictures(b, files[b]) \ Lost(videos[b], seen[b], frames[b], task[b], excluded[b])
  <1> DEFINE im == images[b]
             vi == videos[b]
             fr == frames[b]
             au == audios[b]
             tk == task[b]
             ex == excluded[b]
             n == Len(im)
             m == Len(fr)
             k == Len(au)
             Silent(i) == tk[i].result = NoText
             RI == TakenOf(b, files[b], "image")
             RV == TakenOf(b, files[b], "video")
             given == {im[i] : i \in {j \in 1..n : ~ Silent(j)}}
                        \cup {vi[fr[j]] : j \in {i \in 1..m : ~ Silent(n + i)}}
             unframed == {vi[j] : j \in (1..Len(vi)) \ ToSet(fr)}
             unanswered == {tk[i].of : i \in {j \in 1..(n + m + k) : Silent(j)}}
  <1>1. Account(b)
    BY DEF Accounts
  <1>2. /\ Distinct(im) /\ Distinct(vi) /\ Distinct(fr)
        /\ ToSet(vi) = RV /\ ToSet(im) = RI \ ex /\ ex \subseteq RI
        /\ \A i \in 1..k : Kind[au[i]] = "audio"
        /\ seen[b] = Len(vi) /\ \A i \in 1..k : tk[n + m + i].of = au[i]
        /\ Told(tk)
    BY <1>1 DEF Account, Accounted, Listed, AudiosLast
  <1>3. /\ im \in Seq(File) /\ vi \in Seq(File) /\ fr \in Seq(1..Len(vi)) /\ au \in Seq(File)
        /\ tk \in Seq(Task) /\ Truthful(tk) /\ Aligned(im, vi, au, fr, tk)
    BY AtHome DEF Good
  <1>4. /\ n \in Nat /\ m \in Nat /\ k \in Nat /\ Len(tk) = n + m + k
        /\ \A i \in 1..n : tk[i].of = im[i]
        /\ \A j \in 1..m : tk[n + j].of = vi[fr[j]]
    <2>1. n \in Nat /\ m \in Nat /\ k \in Nat
      BY <1>3
    <2>2. /\ Len(tk) = n + m + k
          /\ \A i \in 1..n : tk[i].of = im[i]
          /\ \A j \in 1..m : tk[n + j].of = vi[fr[j]]
      BY <1>3 DEF Aligned
    <2> QED BY <2>1, <2>2
  <1>5. \A i \in 1..(n + m + k) : /\ tk[i].result = tk[i].of \/ Silent(i)
                                  /\ HasText(tk[i]) <=> ~ Silent(i)
    <2> TAKE i \in 1..(n + m + k)
    <2>1. i \in 1..Len(tk) /\ i \in DOMAIN tk /\ tk[i] \in Task
      <3>1. Len(tk) = n + m + k /\ tk \in Seq(Task)
        BY <1>3, <1>4
      <3> HIDE DEF tk, n, m, k
      <3>2. i \in 1..Len(tk)
        BY <3>1
      <3> QED BY <3>1, <3>2
    <2>2. tk[i].at = "done" /\ tk[i].result # Pending
      BY <1>2, <2>1 DEF Told
    <2>3. tk[i].result \in File \/ Silent(i)
      BY <2>1, <2>2 DEF Task
    <2>4. tk[i].result \in File => tk[i].result = tk[i].of
      BY <1>3, <2>1 DEF Truthful
    <2> QED BY <2>3, <2>4, NoFileAssumption DEF HasText
  <1>6. /\ ToSet(im) = {im[i] : i \in 1..n} /\ ToSet(vi) = {vi[i] : i \in 1..Len(vi)}
        /\ ToSet(fr) = {fr[j] : j \in 1..m} /\ ToSet(tk) = {tk[i] : i \in 1..(n + m + k)}
        /\ \A j \in 1..m : fr[j] \in 1..Len(vi)
    <2>1. DOMAIN im = 1..n /\ DOMAIN vi = 1..Len(vi) /\ DOMAIN fr = 1..m /\ DOMAIN tk = 1..(n + m + k)
      <3>1. Len(tk) = n + m + k
        BY <1>4
      <3>2. DOMAIN im = 1..n /\ DOMAIN vi = 1..Len(vi) /\ DOMAIN fr = 1..m /\ DOMAIN tk = 1..Len(tk)
        BY <1>3
      <3> HIDE DEF im, vi, fr, tk, n, m, k
      <3> QED BY <3>1, <3>2
    <2>2. \A j \in 1..m : fr[j] \in 1..Len(vi)
      BY <1>3, ElementOfSeq
    <2> HIDE DEF im, vi, fr, tk, n, m, k
    <2> QED BY <2>1, <2>2 DEF ToSet
  <1>7. /\ \A f \in RI : Kind[f] = "image"
        /\ \A f \in RV : Kind[f] = "video"
    BY TakenKind
  <1> HIDE DEF n, m, k, RI, RV
  <1>8. /\ \A i \in 1..n : i \in 1..(n + m + k)
        /\ \A j \in 1..m : n + j \in 1..(n + m + k)
        /\ \A j \in 1..k : n + m + j \in 1..(n + m + k)
        /\ \A i \in 1..(n + m + k) : \/ i \in 1..n
                                     \/ i - n \in 1..m /\ n + (i - n) = i
                                     \/ i - n - m \in 1..k /\ n + m + (i - n - m) = i
    BY <1>4
  <1>9. {d.about : d \in OfPhotos(b) \cup OfFrames(b)} = given
    <2>1. {d.about : d \in OfPhotos(b)} = {im[i] : i \in {j \in 1..n : ~ Silent(j)}}
      <3> DEFINE S == {j \in 1..n : ~ Silent(j)}
      <3>1. OfPhotos(b) = {[label |-> im[i], about |-> im[i]] : i \in S}
        <4>1. \A i \in 1..n : HasText(tk[i]) <=> ~ Silent(i)
          BY <1>5, <1>8
        <4>2. \A i \in 1..n : ~ Silent(i) => tk[i].result = im[i]
          BY <1>4, <1>5, <1>8
        <4> HIDE DEF Silent
        <4> QED BY <4>1, <4>2 DEF OfPhotos, n
      <3> HIDE DEF S, im, vi, fr
      <3>2. {d.about : d \in OfPhotos(b)} = {im[i] : i \in S}
        <4>1. ASSUME NEW d \in OfPhotos(b)
              PROVE  \E i \in S : d.about = im[i]
          <5>1. PICK i \in S : d = [label |-> im[i], about |-> im[i]]
            BY <3>1
          <5> QED BY <5>1
        <4>2. ASSUME NEW i \in S
              PROVE  \E d \in OfPhotos(b) : d.about = im[i]
          <5>1. [label |-> im[i], about |-> im[i]] \in OfPhotos(b)
            BY <3>1
          <5> QED BY <5>1
        <4> QED BY <4>1, <4>2
      <3> QED BY <3>2 DEF S
    <2>2. {d.about : d \in OfFrames(b)} = {vi[fr[j]] : j \in {i \in 1..m : ~ Silent(n + i)}}
      <3> DEFINE S == {i \in 1..m : ~ Silent(n + i)}
      <3>1. OfFrames(b) = {[label |-> vi[fr[j]], about |-> vi[fr[j]]] : j \in S}
        <4>1. \A j \in 1..m : HasText(tk[n + j]) <=> ~ Silent(n + j)
          BY <1>5, <1>8
        <4>2. \A j \in 1..m : ~ Silent(n + j) => tk[n + j].result = vi[fr[j]]
          BY <1>4, <1>5, <1>8
        <4> HIDE DEF Silent
        <4> QED BY <4>1, <4>2 DEF OfFrames, n, m
      <3> HIDE DEF S, im, vi, fr
      <3>2. {d.about : d \in OfFrames(b)} = {vi[fr[j]] : j \in S}
        <4>1. ASSUME NEW d \in OfFrames(b)
              PROVE  \E j \in S : d.about = vi[fr[j]]
          <5>1. PICK j \in S : d = [label |-> vi[fr[j]], about |-> vi[fr[j]]]
            BY <3>1
          <5> QED BY <5>1
        <4>2. ASSUME NEW j \in S
              PROVE  \E d \in OfFrames(b) : d.about = vi[fr[j]]
          <5>1. [label |-> vi[fr[j]], about |-> vi[fr[j]]] \in OfFrames(b)
            BY <3>1
          <5> QED BY <5>1
        <4> QED BY <4>1, <4>2
      <3> QED BY <3>2 DEF S
    <2> QED BY <2>1, <2>2
  <1>10. Lost(vi, seen[b], fr, tk, ex) = ex \cup unframed \cup unanswered
    BY <1>2, <1>6 DEF Lost
  <1>11. \A f \in unanswered : \/ \E i \in 1..n : f = im[i] /\ Silent(i)
                               \/ \E j \in 1..m : f = vi[fr[j]] /\ Silent(n + j)
                               \/ Kind[f] = "audio"
    <2> TAKE f \in unanswered
    <2>1. PICK i \in 1..(n + m + k) : f = tk[i].of /\ Silent(i)
      OBVIOUS
    <2>2. CASE i \in 1..n
      BY <1>4, <2>1, <2>2
    <2>3. CASE i - n \in 1..m /\ n + (i - n) = i
      BY <1>4, <2>1, <2>3
    <2>4. CASE i - n - m \in 1..k /\ n + m + (i - n - m) = i
      BY <1>2, <2>1, <2>4
    <2> QED BY <1>8, <2>1, <2>2, <2>3, <2>4
  <1>12. /\ \A i \in 1..n : Silent(i) => im[i] \in unanswered
         /\ \A j \in 1..m : Silent(n + j) => vi[fr[j]] \in unanswered
    BY <1>4, <1>8
  <1>13. /\ \A i \in 1..n : im[i] \in RI \ ex /\ Kind[im[i]] = "image"
         /\ \A j \in 1..Len(vi) : vi[j] \in RV /\ Kind[vi[j]] = "video"
    BY <1>2, <1>6, <1>7
  <1> HIDE DEF im, vi, fr, au, tk, ex, Silent, unanswered
  <1>14. ASSUME NEW i \in 1..n, ~ Silent(i)
         PROVE  im[i] \in (RI \cup RV) \ (ex \cup unframed \cup unanswered)
    <2>1. im[i] \notin unframed
      BY <1>13
    <2>2. im[i] \notin unanswered
      <3>1. \A l \in 1..n : im[i] = im[l] => i = l
        BY <1>2 DEF Distinct, n
      <3> QED BY <1>6, <1>11, <1>13, <1>14, <3>1
    <2> QED BY <1>13, <2>1, <2>2
  <1>15. ASSUME NEW j \in 1..m, ~ Silent(n + j)
         PROVE  vi[fr[j]] \in (RI \cup RV) \ (ex \cup unframed \cup unanswered)
    <2>1. \A l \in 1..Len(vi) : vi[fr[j]] = vi[l] => fr[j] = l
      BY <1>2, <1>6 DEF Distinct
    <2>2. vi[fr[j]] \notin unframed
      BY <1>6, <2>1
    <2>3. vi[fr[j]] \notin unanswered
      <3>1. \A l \in 1..m : vi[fr[j]] = vi[fr[l]] => j = l
        BY <1>2, <1>6, <2>1 DEF Distinct, m
      <3> QED BY <1>6, <1>11, <1>13, <1>15, <3>1
    <2>4. vi[fr[j]] \notin ex
      BY <1>2, <1>6, <1>7, <1>13
    <2> QED BY <1>6, <1>13, <2>2, <2>3, <2>4
  <1>16. ASSUME NEW f \in RI, f \notin ex \cup unframed \cup unanswered
         PROVE  f \in given
    <2>1. PICK i \in 1..n : f = im[i]
      BY <1>2, <1>6, <1>16
    <2> QED BY <1>12, <1>16, <2>1
  <1>17. ASSUME NEW f \in RV, f \notin ex \cup unframed \cup unanswered
         PROVE  f \in given
    <2>1. PICK l \in 1..Len(vi) : f = vi[l]
      BY <1>2, <1>6
    <2>2. l \in ToSet(fr)
      BY <1>17, <2>1
    <2>3. PICK j \in 1..m : l = fr[j]
      BY <1>6, <2>2
    <2> QED BY <1>12, <1>17, <2>1, <2>3
  <1>18. given = (RI \cup RV) \ (ex \cup unframed \cup unanswered)
    BY <1>14, <1>15, <1>16, <1>17
  <1> QED BY <1>9, <1>10, <1>18 DEF Pictures, RI, RV, vi, fr, tk, ex

LEMMA CollectAccounts ==
    ASSUME Inv, Accounts, NEW b \in Batch, Collect(b)
    PROVE  Accounts'
  <1> DEFINE lost == Lost(videos[b], seen[b], frames[b], task[b], excluded[b])
  <1>1. Local(b)
    BY DEF Inv, Functions, Local, Collect, End, Enter
  <1>2. /\ stage[b] = "gather" /\ \A i \in DOMAIN task[b] : task[b][i].at = "done"
        /\ Account(b)
    BY DEF Collect, Accounts
  <1>3. reply[b] = "none" /\ Told(task[b])
    BY <1>2 DEF Account, Accounted
  <1>4. /\ files'[b] = files[b] /\ videos'[b] = videos[b] /\ seen'[b] = seen[b]
        /\ frames'[b] = frames[b] /\ task'[b] = task[b] /\ excluded'[b] = excluded[b]
        /\ described'[b] = OfPhotos(b) \cup OfFrames(b)
    BY DEF Inv, Functions, Collect
  <1>5. \/ /\ described'[b] = {} /\ stage'[b] = "ended" /\ reply'[b] = "all_visual_content_failed"
        \/ stage'[b] = "synthesis" /\ reply'[b] = "none"
    BY <1>3 DEF Inv, Functions, Collect, End, Enter
  <1>6. {d.about : d \in described'[b]} = Pictures(b, files[b]) \ lost
    BY <1>2, <1>4, AllTold
  <1> HIDE DEF lost
  <1>7. described'[b] = {} => Pictures(b, files[b]) \subseteq lost
    BY <1>6
  <1>8. Account(b)'
    BY <1>3, <1>4, <1>5, <1>6, <1>7 DEF Account, Accounted, lost
  <1> QED BY <1>1, <1>8, AccountsTogether

LEMMA SynthesiseAccounts ==
    ASSUME Inv, Accounts, NEW b \in Batch, Synthesise(b)
    PROVE  Accounts'
  <1>1. Local(b)
    BY DEF Inv, Functions, Local, Synthesise, Enter
  <1>2. stage[b] = "synthesis" /\ stage'[b] = "writing" /\ Account(b)
    BY DEF Inv, Functions, Synthesise, Enter, Accounts
  <1>3. Account(b)'
    BY <1>2 DEF Synthesise, Account, Accounted
  <1> QED BY <1>1, <1>3, AccountsTogether

LEMMA WriteAccounts ==
    ASSUME Inv, Accounts, NEW b \in Batch, NEW ok \in BOOLEAN, Write(b, ok)
    PROVE  Accounts'
  <1>1. Local(b)
    BY DEF Inv, Functions, Local, Write, End, Enter
  <1>2. /\ stage'[b] = "ended" /\ reply'[b] \in {"report", "synthesis_failed"}
        /\ stage[b] = "writing" /\ Account(b)
    BY DEF Inv, Functions, Write, End, Enter, Accounts
  <1>3. Account(b)'
    BY <1>2 DEF Write, Account, Accounted
  <1> QED BY <1>1, <1>3, AccountsTogether

LEMMA NextAccounts ==
    ASSUME Inv, Accounts, [Next]_vars
    PROVE  Accounts'
  <1>1. ASSUME NEW b \in Batch, BatchStep(b)
        PROVE  Accounts'
    <2>1. ASSUME NEW screened \in SUBSET ToSet(images[b]), NEW allowed \in SUBSET ToSet(images[b]),
                 Gate(b, screened, allowed)
          PROVE  Accounts'
      BY <2>1, GateAccounts
    <2>2. ASSUME NEW framed \in BOOLEAN, ProcessVideo(b, framed)
          PROVE  Accounts'
      BY <2>2, VideoAccounts
    <2>3. ASSUME NEW i \in DOMAIN task[b], TaskStep(b, i)
          PROVE  Accounts'
      BY <2>3, TaskAccounts
    <2>4. ASSUME NEW ok \in BOOLEAN, Write(b, ok)
          PROVE  Accounts'
      BY <2>4, WriteAccounts
    <2> QED BY <1>1, <2>1, <2>2, <2>3, <2>4, GatherAccounts, CollectAccounts, SynthesiseAccounts
            DEF BatchStep
  <1>2. CASE UNCHANGED vars
    BY <1>2 DEF vars, own, Accounts, Account
  <1> QED BY <1>1, <1>2, ReadAccounts DEF Next

-----------------------------------------------------------------------------
(***************************************************************************)
(* A batch is finite.  That it ends needs fairness and stays with TLC      *)
(* (BatchEnds); that each of its steps brings it nearer its end, which is  *)
(* what makes weak fairness enough, is proved here.                        *)
(***************************************************************************)
\* How far a task is, out of 6 * (Retries + 1): the attempts made, with the
\* first model and then with the second, three places each.
Attempts(t) == IF t.model = "haiku" THEN t.tries ELSE Retries + 1 + t.tries
Rank(t) ==
    IF t.at = "done" THEN 6 * (Retries + 1)
    ELSE 3 * Attempts(t) + (IF t.at = "call" THEN 2 ELSE IF t.at = "wait" THEN 1 ELSE 0)

LEMMA RankBound ==
    ASSUME NEW t \in Task
    PROVE  /\ Attempts(t) \in 0..(2 * Retries + 1)
           /\ Rank(t) \in 0..(6 * (Retries + 1))
           /\ t.at # "done" => Rank(t) < 6 * (Retries + 1)
  <1>1. t.tries \in 0..Retries /\ Retries \in Nat
    BY BatchAssumption DEF Task
  <1>2. Attempts(t) \in 0..(2 * Retries + 1)
    BY <1>1 DEF Attempts
  <1> QED BY <1>1, <1>2 DEF Rank

LEMMA DoneAhead ==
    ASSUME NEW t \in Task, t.at # "done", NEW r
    PROVE  Rank(Done(t, r)) > Rank(t)
  <1>1. Done(t, r).at = "done"
    BY DEF Done, Task
  <1> QED BY <1>1, RankBound, BatchAssumption DEF Rank

LEMMA WaitAhead ==
    ASSUME NEW t \in Task, NEW u \in Task, t.at = "call", u.at = "wait",
           Attempts(u) > Attempts(t)
    PROVE  Rank(u) > Rank(t)
  BY RankBound, BatchAssumption DEF Rank

\* Every step of a task takes it forward.
LEMMA TaskAhead ==
    ASSUME Inv, NEW b \in Batch, NEW i \in DOMAIN task[b], TaskStep(b, i)
    PROVE  \E u : Goes(b, i, u) /\ Rank(u) > Rank(task[b][i])
  <1> DEFINE t == task[b][i]
  <1>1. t \in Task /\ t.tries \in 0..Retries /\ Retries \in Nat
    <2>1. task[b] \in Seq(Task)
      BY DEF Inv, GoodBatch, Good
    <2>2. t \in Task
      BY <2>1
    <2> QED BY <2>2, BatchAssumption DEF Task
  <1>2. \A r : t.at # "done" => Rank(Done(t, r)) > Rank(t)
    BY <1>1, DoneAhead
  <1>3. t.at = "call" /\ t.model = "haiku" => Rank(Escalate(t)) > Rank(t)
    <2> SUFFICES ASSUME t.at = "call", t.model = "haiku" PROVE Rank(Escalate(t)) > Rank(t)
      OBVIOUS
    <2> HIDE DEF t
    <2>1. Escalate(t) \in Task /\ Escalate(t).at = "wait" /\ Attempts(Escalate(t)) = Retries + 1
      <3>1. 0 \in 0..Retries
        BY <1>1
      <3>2. /\ Escalate(t) \in Task /\ Escalate(t).at = "wait"
            /\ Escalate(t).model = "sonnet" /\ Escalate(t).tries = 0
        BY <1>1, <3>1 DEF Escalate, Task
      <3> QED BY <1>1, <3>2 DEF Attempts
    <2>2. Attempts(t) = t.tries
      BY DEF Attempts
    <2> QED BY <1>1, <2>1, <2>2, WaitAhead
  <1>4. t.at = "call" /\ t.tries < Retries => Rank(Retry(t)) > Rank(t)
    <2> SUFFICES ASSUME t.at = "call", t.tries < Retries PROVE Rank(Retry(t)) > Rank(t)
      OBVIOUS
    <2> HIDE DEF t
    <2>1. Retry(t) \in Task /\ Retry(t).at = "wait" /\ Attempts(Retry(t)) = Attempts(t) + 1
      <3>1. t.tries + 1 \in 0..Retries
        BY <1>1
      <3>2. /\ Retry(t) \in Task /\ Retry(t).at = "wait"
            /\ Retry(t).model = t.model /\ Retry(t).tries = t.tries + 1
        BY <1>1, <3>1 DEF Retry, Task
      <3> QED BY <1>1, <3>2 DEF Attempts
    <2>2. Attempts(t) \in Nat
      BY <1>1, RankBound
    <2> QED BY <1>1, <2>1, <2>2, WaitAhead
  <1>5. t.at = "download" => Rank([t EXCEPT !.at = "wait"]) > Rank(t)
    <2> HIDE DEF t
    <2>1. Attempts([t EXCEPT !.at = "wait"]) = Attempts(t) /\ Attempts(t) \in Nat
          /\ [t EXCEPT !.at = "wait"].at = "wait"
      BY <1>1, RankBound DEF Attempts, Task
    <2> QED BY <2>1 DEF Rank
  <1>6. t.at = "wait" => Rank([t EXCEPT !.at = "call"]) > Rank(t)
    <2> HIDE DEF t
    <2>1. Attempts([t EXCEPT !.at = "call"]) = Attempts(t) /\ Attempts(t) \in Nat
          /\ [t EXCEPT !.at = "call"].at = "call"
      BY <1>1, RankBound DEF Attempts, Task
    <2> QED BY <2>1 DEF Rank
  <1> HIDE DEF t
  <1>7. ASSUME NEW ok \in BOOLEAN, Download(b, i, ok)
        PROVE  \E u : Goes(b, i, u) /\ Rank(u) > Rank(t)
    BY <1>2, <1>5, <1>7 DEF Download, At, t
  <1>8. ASSUME NEW ok \in BOOLEAN, Transcribe(b, i, ok)
        PROVE  \E u : Goes(b, i, u) /\ Rank(u) > Rank(t)
    BY <1>2, <1>8 DEF Transcribe, At, t
  <1>9. ASSUME Acquire(b, i)
        PROVE  \E u : Goes(b, i, u) /\ Rank(u) > Rank(t)
    BY <1>6, <1>9 DEF Acquire, At, t
  <1>10. ASSUME NEW shallow \in BOOLEAN, Text(b, i, shallow)
         PROVE  \E u : Goes(b, i, u) /\ Rank(u) > Rank(t)
    BY <1>2, <1>3, <1>10 DEF Text, Answer, At, t
  <1>11. ASSUME CallFails(b, i)
         PROVE  \E u : Goes(b, i, u) /\ Rank(u) > Rank(t)
    BY <1>2, <1>3, <1>4, <1>11 DEF CallFails, Answer, At, t
  <1> QED BY <1>7, <1>8, <1>9, <1>10, <1>11 DEF TaskStep, t

\* The stages a batch may go on to.
Later(s) ==
    CASE s = "idle" -> {"gate", "ended"}
      [] s = "gate" -> {"videos", "ended"}
      [] s = "videos" -> {"gather"}
      [] s = "gather" -> {"synthesis", "ended"}
      [] s = "synthesis" -> {"writing"}
      [] s = "writing" -> {"ended"}
      [] OTHER -> {}

\* Of batch b, one thing moves, and forward: its stage, the videos processed, or
\* one of its tasks.
Forward(b) ==
    \/ stage'[b] \in Later(stage[b])
    \/ /\ stage'[b] = "videos" /\ stage[b] = "videos"
       /\ seen'[b] = seen[b] + 1 /\ seen'[b] <= Len(videos[b]) /\ videos'[b] = videos[b]
    \/ /\ stage'[b] = "gather" /\ stage[b] = "gather" /\ Len(task'[b]) = Len(task[b])
       /\ \E i \in 1..Len(task[b]) :
             /\ Rank(task'[b][i]) > Rank(task[b][i])
             /\ \A j \in 1..Len(task[b]) \ {i} : task'[b][j] = task[b][j]

Still(b) == stage'[b] = stage[b] /\ videos'[b] = videos[b] /\ seen'[b] = seen[b] /\ task'[b] = task[b]

NoBatchGoesBack == [][\A b \in Batch : Still(b) \/ Forward(b)]_vars

LEMMA TaskForward ==
    ASSUME Inv, NEW b \in Batch, NEW i \in DOMAIN task[b], TaskStep(b, i)
    PROVE  Forward(b) /\ \A c \in Batch \ {b} : Still(c)
  <1>1. stage[b] = "gather"
    BY TaskBecomes
  <1>2. PICK u : Goes(b, i, u) /\ Rank(u) > Rank(task[b][i])
    BY TaskAhead
  <1>3. task[b] \in Seq(Task)
    BY DEF Inv, GoodBatch, Good
  <1>4. i \in 1..Len(task[b]) /\ task'[b] = [task[b] EXCEPT ![i] = u] /\ stage'[b] = "gather"
    BY <1>1, <1>2, <1>3 DEF Goes, Inv, Functions
  <1>5. /\ Len(task'[b]) = Len(task[b]) /\ task'[b][i] = u
        /\ \A j \in 1..Len(task[b]) \ {i} : task'[b][j] = task[b][j]
    BY <1>3, <1>4
  <1>6. \A c \in Batch \ {b} : Still(c)
    BY <1>2 DEF Goes, Still, Inv, Functions
  <1> QED BY <1>1, <1>2, <1>4, <1>5, <1>6 DEF Forward

LEMMA StepForward ==
    ASSUME Inv, [Next]_vars
    PROVE  \A c \in Batch : Still(c) \/ Forward(c)
  <1> USE DEF Inv, Functions
  <1>1. ASSUME NEW b \in Batch, NEW fs \in Inbox[b], Read(b, fs)
        PROVE  Forward(b) /\ \A c \in Batch \ {b} : Still(c)
    BY <1>1 DEF Read, End, Enter, Forward, Later, Still
  <1>2. ASSUME NEW b \in Batch, NEW screened, NEW allowed, Gate(b, screened, allowed)
        PROVE  Forward(b) /\ \A c \in Batch \ {b} : Still(c)
    BY <1>2 DEF Gate, End, Enter, Forward, Later, Still
  <1>3. ASSUME NEW b \in Batch, NEW framed \in BOOLEAN, ProcessVideo(b, framed)
        PROVE  Forward(b) /\ \A c \in Batch \ {b} : Still(c)
    <2>1. seen[b] \in Nat /\ Len(videos[b]) \in Nat
      BY DEF GoodBatch, Good
    <2> QED BY <1>3, <2>1 DEF ProcessVideo, Forward, Still
  <1>4. ASSUME NEW b \in Batch, Gather(b) \/ Collect(b) \/ Synthesise(b) \/ \E ok \in BOOLEAN : Write(b, ok)
        PROVE  Forward(b) /\ \A c \in Batch \ {b} : Still(c)
    <2>1. CASE Gather(b)
      BY <2>1 DEF Gather, Enter, Forward, Later, Still
    <2>2. CASE Collect(b)
      BY <2>2 DEF Collect, End, Enter, Forward, Later, Still
    <2>3. CASE Synthesise(b) \/ \E ok \in BOOLEAN : Write(b, ok)
      BY <2>3 DEF Synthesise, Write, End, Enter, Forward, Later, Still
    <2> QED BY <1>4, <2>1, <2>2, <2>3
  <1>5. ASSUME NEW b \in Batch, BatchStep(b)
        PROVE  Forward(b) /\ \A c \in Batch \ {b} : Still(c)
    BY <1>2, <1>3, <1>4, <1>5, TaskForward DEF BatchStep
  <1>6. UNCHANGED vars => \A c \in Batch : Still(c)
    BY DEF vars, own, Still
  <1> QED BY <1>1, <1>5, <1>6 DEF Next

-----------------------------------------------------------------------------
(***************************************************************************)
(* The theorems.                                                           *)
(***************************************************************************)
\* The local variables of a batch have their types, whatever lists its session
\* held, and the semaphore shared by all of them stays within its bounds: no
\* call gives back a slot it had not taken, and none keeps one.
THEOREM TypeCorrect == Spec => []TypeOK
  <1>1. Init => Inv
    BY InitGood
  <1>2. Inv /\ [Next]_vars => Inv'
    BY NextGood
  <1>3. Inv => TypeOK
    BY InvTypes
  <1> QED BY <1>1, <1>2, <1>3, PTL DEF Spec

\* No description is given to the synthesis under the name of another picture,
\* for any list of files, any caps, any verdicts and any failures
\* (demo_analyzer.py reads the results of asyncio.gather by position).
THEOREM DescriptionsTrue == Spec => []DescribedTruly
  <1>1. Init => Inv
    BY InitGood
  <1>2. Inv /\ [Next]_vars => Inv'
    BY NextGood
  <1>3. Inv => DescribedTruly
    BY InvTypes
  <1> QED BY <1>1, <1>2, <1>3, PTL DEF Spec

\* Every recent picture of the session is in what the synthesis is given unless
\* the gate left it out, no frame came of it or Vision did not answer for it, and
\* nothing else is but files of a kind whose cap is zero, whatever the caps, the
\* verdicts and the failures (demo_analyzer.py, from the caps to the synthesis).
THEOREM AllPicturesTold == Spec => []NoneLost
  <1>1. Init => Inv /\ Accounts
    BY InitGood, AccountsInit
  <1>2. Inv /\ Accounts /\ [Next]_vars => Inv' /\ Accounts'
    BY NextGood, NextAccounts
  <1>3. Accounts => NoneLost
    BY AccountsSuffice
  <1> QED BY <1>1, <1>2, <1>3, PTL DEF Spec

\* A batch answers that the gate refused all, or that no picture could be
\* analysed, only when none of its recent pictures had a description to give.
THEOREM FailureMeansNothing == Spec => []FailsWithNothing
  <1>1. Init => Inv /\ Accounts
    BY InitGood, AccountsInit
  <1>2. Inv /\ Accounts /\ [Next]_vars => Inv' /\ Accounts'
    BY NextGood, NextAccounts
  <1>3. Accounts => FailsWithNothing
    BY AccountsSuffice
  <1> QED BY <1>1, <1>2, <1>3, PTL DEF Spec

\* Whatever the calls answer, how often they fail and how the batches take turns,
\* each step takes one batch one place forward and leaves the others where they
\* are; a batch has finitely many places (RankBound), so it makes finitely many
\* calls and cannot keep the slots from the others for ever.
THEOREM BatchesAdvance == Spec => NoBatchGoesBack
  <1>1. Init => Inv
    BY InitGood
  <1>2. Inv /\ [Next]_vars => Inv'
    BY NextGood
  <1>3. Inv /\ [Next]_vars => [\A b \in Batch : Still(b) \/ Forward(b)]_vars
    BY StepForward
  <1> QED BY <1>1, <1>2, <1>3, PTL DEF Spec, NoBatchGoesBack

\* The semaphore and the calls it admits: at most MAX_CONCURRENT_AI calls to Vision
\* and for a synthesis are out at once, counted over all batches, and the slots not
\* free are exactly theirs: neither a failed call nor an escalation from Haiku to
\* Sonnet keeps one, and none is given back twice (ai_semaphore.py).
THEOREM SlotsAreCalls == Spec => []Balance
  <1>1. Init => Inv
    BY InitGood
  <1>2. Inv /\ [Next]_vars => Inv'
    BY NextGood
  <1>3. Inv => Balance
    BY DEF Inv
  <1> QED BY <1>1, <1>2, <1>3, PTL DEF Spec

TaskAt(b, places) == \E i \in DOMAIN task[b] : task[b][i].at \in places
AllDone(b) == \A i \in DOMAIN task[b] : task[b][i].at = "done"

\* The guards of BatchStep: of the steps that take no slot, and of those that do.
MayGoOn(b) ==
    \/ stage[b] \in {"gate", "writing"}
    \/ stage[b] = "videos" /\ seen[b] <= Len(videos[b])
    \/ stage[b] = "gather" /\ (AllDone(b) \/ TaskAt(b, {"download", "transcribe", "call"}))
WantsSlot(b) ==
    \/ stage[b] = "synthesis"
    \/ stage[b] = "gather" /\ TaskAt(b, {"wait"})
HoldsSlot(b) ==
    \/ stage[b] = "writing"
    \/ stage[b] = "gather" /\ TaskAt(b, {"call"})

Underway(b) == stage[b] \notin {"idle", "ended"}

NobodyBlocks ==
    \A b \in Batch : Underway(b) =>
        \/ MayGoOn(b)
        \/ WantsSlot(b) /\ slots > 0
        \/ WantsSlot(b) /\ \E c \in Batch : HoldsSlot(c) /\ MayGoOn(c)

LEMMA SomebodyHolds ==
    ASSUME Inv, slots = 0
    PROVE  \E c \in Batch : HoldsSlot(c) /\ MayGoOn(c)
  <1>1. Holding # {}
    <2>1. Cardinality(Holding) = Slots /\ Slots # 0
      BY FS_CardinalityType, BatchAssumption DEF Inv, Balance
    <2> QED BY <2>1, FS_EmptySet
  <1>2. PICK p \in Batch \X Nat : Calls(p[1], p[2])
    BY <1>1 DEF Holding
  <1> DEFINE c == p[1]
             i == p[2]
  <1>3. c \in Batch /\ task[c] \in Seq(Task) /\ DOMAIN task[c] = 1..Len(task[c])
    BY DEF Inv, GoodBatch, Good
  <1>4. CASE i = 0 /\ stage[c] = "writing"
    <2>1. HoldsSlot(c) /\ MayGoOn(c)
      BY <1>4 DEF HoldsSlot, MayGoOn
    <2> QED BY <1>3, <2>1
  <1>5. CASE i \in 1..Len(task[c]) /\ task[c][i].at = "call"
    <2>1. stage[c] = "gather"
      BY <1>3, <1>5 DEF Inv, GoodBatch, Good
    <2>2. TaskAt(c, {"call"}) /\ TaskAt(c, {"download", "transcribe", "call"})
      BY <1>3, <1>5 DEF TaskAt
    <2> QED BY <1>3, <2>1, <2>2 DEF HoldsSlot, MayGoOn
  <1> QED BY <1>2, <1>4, <1>5 DEF Calls

\* No batches wait for one another: one that has no step of its own wants a slot, and
\* then a slot is free or its holder, who wants none, has a step before it.  A task
\* takes its slot only around one call, never while it waits for another, and the
\* loop over videos and gather always leave by their last element.  Together with
\* BatchesAdvance this is BatchEnds but for the fairness of slots and event loop.
THEOREM BatchesNeverBlock == Spec => []NobodyBlocks
  <1>1. ASSUME Inv, NEW b \in Batch, Underway(b), ~ MayGoOn(b)
        PROVE  WantsSlot(b)
    <2>1. /\ stage[b] \in Stage /\ task[b] \in Seq(Task) /\ DOMAIN task[b] = 1..Len(task[b])
          /\ seen[b] \in 0..Len(videos[b]) /\ Len(videos[b]) \in Nat
      BY <1>1 DEF Inv, GoodBatch, Good
    <2>2. CASE stage[b] = "gather"
      <3>1. PICK i \in 1..Len(task[b]) : task[b][i].at # "done"
        BY <1>1, <2>1, <2>2 DEF MayGoOn, AllDone
      <3>2. task[b][i] \in Task
        BY <2>1
      <3>3. task[b][i].at = "wait"
        BY <1>1, <2>1, <2>2, <3>1, <3>2 DEF MayGoOn, TaskAt, Task
      <3> QED BY <2>1, <2>2, <3>3 DEF WantsSlot, TaskAt
    <2>3. CASE stage[b] # "gather"
      <3>1. stage[b] \in {"gate", "videos", "synthesis", "writing"}
        BY <1>1, <2>1, <2>3 DEF Underway, Stage
      <3> QED BY <1>1, <2>1, <3>1 DEF MayGoOn, WantsSlot
    <2> QED BY <2>2, <2>3
  <1>2. Inv => NobodyBlocks
    <2>1. Inv => slots \in Nat
      BY DEF Inv, Balance
    <2> QED BY <1>1, <2>1, SomebodyHolds DEF NobodyBlocks
  <1>3. Init => Inv
    BY InitGood
  <1>4. Inv /\ [Next]_vars => Inv'
    BY NextGood
  <1> QED BY <1>2, <1>3, <1>4, PTL DEF Spec
=============================================================================
