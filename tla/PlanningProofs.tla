--------------------------- MODULE PlanningProofs ---------------------------
(***************************************************************************)
(* What a request is told and what is fetched ahead of it, for every set   *)
(* of objects, requests, slice size and readahead policy.                  *)
(*                                                                         *)
(* What X-Cache says follows in every step from what is known of the       *)
(* requests in line (InLine): a slice that one's own probe fetched is the  *)
(* one its range is probed with.  A prefetch is earned because a pattern   *)
(* remembers the end of its object's log (Remembers), through every sweep  *)
(* of the map.                                                             *)
(***************************************************************************)
EXTENDS Planning, FiniteSetTheorems, SequenceTheorems, TLAPS

\* The solver's time limit, in seconds.
USE ZenonT(60)

\* An access that reads on, soon, from where another ended.
Continues(a, b) == b.first = a.last + 1 /\ b.at - a.at < PATTERN_TTL

\* A pattern tells how many of the latest accesses continued the one before.
Remembers(p, log) ==
    LET n == Len(log)
    IN /\ p.consecutive \in 0 .. n - 1
       /\ p.next_expected = log[n].last + 1 /\ p.seen = log[n].at
       /\ \A k \in n - p.consecutive .. n - 1 : Continues(log[k], log[k + 1])

Accesses == [first : Int, last : Int, at : Nat]

PatternInv ==
    /\ clock \in Nat
    /\ accesses \in [Objects -> Seq(Accesses)]
    /\ IsFiniteSet(DOMAIN patterns) /\ PatternsBounded
    /\ \A o \in DOMAIN patterns : o \in Objects /\ Remembers(patterns[o], accesses[o])

-----------------------------------------------------------------------------
\* observe, making room: after it there is room for one more.
LEMMA KeptFits ==
    ASSUME NEW map, NEW now, IsFiniteSet(DOMAIN map), Cardinality(DOMAIN map) <= MAX_TRACKED,
           NEW kept \in Kept(map, now)
    PROVE  kept \subseteq DOMAIN map /\ IsFiniteSet(kept) /\ Cardinality(kept) + 1 <= MAX_TRACKED
  <1> DEFINE fresh == Fresh(map, now)
  <1>1. MAX_TRACKED \in Nat /\ MAX_TRACKED \div 2 \in Nat /\ MAX_TRACKED \div 2 >= 1
    BY PolicyConstants, SMTT(60)
  <1>2. fresh \in SUBSET DOMAIN map
    BY DEF Fresh
  <1>3. IsFiniteSet(fresh) /\ Cardinality(fresh) \in Nat /\ Cardinality(fresh) <= Cardinality(DOMAIN map)
        /\ Cardinality(DOMAIN map) \in Nat
    BY <1>2, FS_Subset, FS_CardinalityType
  <1>4. CASE kept = DOMAIN map /\ Cardinality(DOMAIN map) < MAX_TRACKED
    BY <1>1, <1>3, <1>4, SMTT(60)
  <1>5. CASE kept = fresh /\ Cardinality(fresh) < MAX_TRACKED
    BY <1>1, <1>2, <1>3, <1>5, SMTT(60)
  <1>6. CASE \E d \in OldestHalf(map, fresh) : kept = fresh \ d
    <2>1. PICK d \in SUBSET fresh : kept = fresh \ d /\ Cardinality(d) = MAX_TRACKED \div 2
      BY <1>6 DEF OldestHalf
    <2>2. fresh \cap d = d
      BY <2>1
    <2>3. IsFiniteSet(kept) /\ Cardinality(kept) = Cardinality(fresh) - MAX_TRACKED \div 2
      <3> HIDE DEF fresh
      <3>1. IsFiniteSet(fresh \ d) /\ Cardinality(fresh \ d) = Cardinality(fresh) - Cardinality(fresh \cap d)
        BY <1>3, FS_Difference
      <3> QED
        BY <2>1, <2>2, <3>1
    <2> QED
      BY <1>1, <1>2, <1>3, <2>1, <2>3, SMTT(60)
  <1> QED
    BY <1>4, <1>5, <1>6 DEF Kept

\* The first and the last slice of a plan are numbers, and what is between them finite.
LEMMA SpanType ==
    ASSUME NEW o \in Objects, NEW sp, sp.from \in Nat, sp.to \in Nat
    PROVE  /\ First(o, sp) \in Int /\ Final(o, sp) \in Int
           /\ IsFiniteSet(Span(o, sp))
  <1> DEFINE w == Wanted(o, sp)
  <1>1. w.start \in Int /\ w.end \in Int
    BY LengthsNat, SMTT(60) DEF Wanted, Resolve, Bytes, Min2, Objects
  <1> HIDE DEF w
  <1>2. \A b \in Int : ToIndex(b, SliceSize) \in Int
    BY SliceSizeNat, U32MaxNat, SMTT(60) DEF ToIndex, Min2
  <1>3. First(o, sp) \in Int /\ Final(o, sp) \in Int
    BY <1>1, <1>2 DEF First, Final, FirstSlice, LastSlice, Max2, w
  <1>4. IsFiniteSet(First(o, sp) .. Final(o, sp)) /\ IsFiniteSet({})
    BY <1>3, FS_Interval, FS_EmptySet
  <1> QED
    BY <1>3, <1>4 DEF Span

\* observe: one more access, and what the pattern then tells.
LEMMA RemembersMore ==
    ASSUME NEW log \in Seq(Accesses), NEW a \in Accesses, NEW count,
           \/ count = 0
           \/ \E p : /\ Remembers(p, log) /\ count = p.consecutive + 1
                    /\ a.first = p.next_expected /\ a.at - p.seen < PATTERN_TTL
    PROVE  Remembers([next_expected |-> a.last + 1, seen |-> a.at, consecutive |-> count],
                     Append(log, a))
  <1> DEFINE n == Len(log)
             more == Append(log, a)
  <1>1. n \in Nat /\ Len(more) = n + 1 /\ more[n + 1] = a /\ \A k \in 1 .. n : more[k] = log[k]
    BY SMTT(60)
  <1> HIDE DEF n, more
  <1>2. count \in 0 .. n /\ \A k \in n + 1 - count .. n : Continues(more[k], more[k + 1])
    <2>1. CASE count = 0
      BY <1>1, <2>1, SMTT(60)
    <2>2. CASE count # 0
      <3>1. PICK p : /\ Remembers(p, log) /\ count = p.consecutive + 1
                     /\ a.first = p.next_expected /\ a.at - p.seen < PATTERN_TTL
        BY <2>2
      <3>2. /\ p.consecutive \in 0 .. n - 1
            /\ p.next_expected = log[n].last + 1 /\ p.seen = log[n].at
            /\ \A k \in n - p.consecutive .. n - 1 : Continues(log[k], log[k + 1])
        BY <3>1 DEF Remembers, n
      <3>3. count \in 1 .. n
        BY <1>1, <3>1, <3>2, SMTT(60)
      <3>4. Continues(log[n], a)
        BY <3>1, <3>2 DEF Continues
      <3>5. ASSUME NEW k \in n + 1 - count .. n PROVE Continues(more[k], more[k + 1])
        <4>1. CASE k = n
          BY <1>1, <3>3, <3>4, <4>1, SMTT(60)
        <4>2. CASE k # n
          <5>1. k \in 1 .. n /\ k + 1 \in 1 .. n /\ k \in n - p.consecutive .. n - 1
            BY <1>1, <3>1, <3>2, <3>3, <4>2, SMTT(60)
          <5> QED
            BY <1>1, <3>2, <5>1
        <4> QED
          BY <4>1, <4>2
      <3> QED
        BY <1>1, <3>3, <3>5, SMTT(60)
    <2> QED
      BY <2>1, <2>2
  <1> DEFINE after == [next_expected |-> a.last + 1, seen |-> a.at, consecutive |-> count]
  <1>3. after.next_expected = a.last + 1 /\ after.seen = a.at /\ after.consecutive = count
    OBVIOUS
  <1> HIDE DEF after
  <1>4. Len(more) - 1 = n /\ Len(more) - count = n + 1 - count
    BY <1>1, <1>2, SMTT(60)
  <1>5. Remembers(after, more)
    BY <1>1, <1>2, <1>3, <1>4 DEF Remembers
  <1> QED
    BY <1>5 DEF more, after

\* A request's range, as serve finally plans it.
Planned(q) == IF Replanned(q) THEN NoSpec ELSE q.spec

LEMMA PlannedType ==
    ASSUME NEW q \in Requests
    PROVE  q.object \in Objects /\ Planned(q).from \in Nat /\ Planned(q).to \in Nat
  BY RequestsType DEF Planned, NoSpec, Objects

\* classify, of a set of slices by its size.
LEMMA ClassifyTells ==
    ASSUME NEW S, IsFiniteSet(S), NEW T \in SUBSET S
    PROVE  classify(Cardinality(T), Cardinality(S)) =
              IF T = S THEN "HIT" ELSE IF T = {} THEN "MISS" ELSE "PARTIAL"
  <1>1. /\ Cardinality(S) \in Nat /\ Cardinality(T) \in Nat /\ Cardinality(T) <= Cardinality(S)
        /\ Cardinality(S) = Cardinality(T) => S = T
        /\ IsFiniteSet(T)
    BY FS_Subset, FS_CardinalityType
  <1>2. Cardinality(S) = 0 => S = {} /\ T = {}
    BY FS_EmptySet
  <1>3. Cardinality(T) = 0 <=> T = {}
    BY <1>1, FS_EmptySet
  <1>4. CASE T = S
    BY <1>4 DEF classify
  <1>5. CASE T # S
    BY <1>1, <1>2, <1>3, <1>5 DEF classify
  <1> QED
    BY <1>4, <1>5

\* plan: one slice taken off the count.
LEMMA OneLess ==
    ASSUME NEW S, IsFiniteSet(S), NEW H \in SUBSET S
    PROVE  /\ \A i \in H : SatSub(Cardinality(H), 1) = Cardinality(H \ {i})
           /\ H = {} => SatSub(Cardinality(H), 1) = Cardinality(H)
           /\ H # {} => classify(SatSub(Cardinality(H), 1), Cardinality(S)) =
                           IF Cardinality(H) = 1 THEN "MISS" ELSE "PARTIAL"
  <1>1. /\ IsFiniteSet(H) /\ Cardinality(H) \in Nat /\ Cardinality(S) \in Nat
        /\ Cardinality(H) <= Cardinality(S)
    BY FS_Subset, FS_CardinalityType
  <1>2. Cardinality(H) = 0 <=> H = {}
    BY <1>1, FS_EmptySet
  <1>3. ASSUME NEW i \in H
        PROVE  Cardinality(H \ {i}) = Cardinality(H) - 1
    BY <1>1, <1>3, FS_RemoveElement
  <1>4. H # {} => Cardinality(H) >= 1
    BY <1>1, <1>2, SMTT(60)
  <1>5. \A i \in H : SatSub(Cardinality(H), 1) = Cardinality(H \ {i})
    BY <1>1, <1>3, <1>4, SMTT(60) DEF SatSub
  <1>6. H = {} => SatSub(Cardinality(H), 1) = Cardinality(H)
    BY <1>2, SMTT(60) DEF SatSub
  <1>7. H # {} => classify(SatSub(Cardinality(H), 1), Cardinality(S)) =
                     IF Cardinality(H) = 1 THEN "MISS" ELSE "PARTIAL"
    BY <1>1, <1>4, SMTT(60) DEF SatSub, classify
  <1> QED
    BY <1>5, <1>6, <1>7

\* A request that serve may plan.
Plannable(w) ==
    /\ w.q \in Requests
    /\ w.probed_here \in BOOLEAN
    /\ w.fetched = {} \/ (w.fetched = {probe_index(w.q.spec)} /\ w.probed_here)

\* Report: the X-Cache value of every response, by what the store had.
LEMMA StatusTruthful ==
    ASSUME NEW w, Plannable(w), NEW ahead, reply' = Report(w, Planned(w.q), ahead)
    PROVE  CacheStatusTruthful'
  <1> DEFINE o == w.q.object
             S == Span(o, Planned(w.q))
             H == Resident(o, S, store)
             F == Resident(o, w.fetched, store)
             i == probe_index(Planned(w.q))
             own == w.probed_here /\ ~Replanned(w.q) /\ i \in S
             count == IF own THEN SatSub(Cardinality(H), 1) ELSE Cardinality(H)
  <1>0. IsFiniteSet(S) /\ H \in SUBSET S /\ H \ w.fetched \in SUBSET S
    BY PlannedType, SpanType DEF Resident, Plannable
  <1>1. /\ reply'.x_cache = classify(count, Cardinality(S))
        /\ reply'.known = ~w.probed_here /\ reply'.replanned = Replanned(w.q)
        /\ reply'.span = S /\ reply'.cached = H \ w.fetched /\ reply'.fetched = F
    BY DEF Report, cache_status
  <1>2. SUFFICES ASSUME ~(Replanned(w.q) /\ F # {})
                 PROVE  \/ count = Cardinality(H \ w.fetched)
                        \/ own /\ F = {} /\ H \ w.fetched = H /\ H # {}
    <2> HIDE DEF S, H, F, i, o
    <2>1. classify(Cardinality(H \ w.fetched), Cardinality(S)) =
             IF H \ w.fetched = S THEN "HIT" ELSE IF H \ w.fetched = {} THEN "MISS" ELSE "PARTIAL"
      BY <1>0, ClassifyTells
    <2>2. CASE Replanned(w.q) /\ F # {}
      BY <1>1, <2>2 DEF CacheStatusTruthful
    <2>3. CASE count = Cardinality(H \ w.fetched)
      BY <1>1, <2>1, <2>3 DEF CacheStatusTruthful
    <2>4. CASE own /\ F = {} /\ H \ w.fetched = H /\ H # {}
      <3>1. classify(count, Cardinality(S)) = IF Cardinality(H) = 1 THEN "MISS" ELSE "PARTIAL"
        BY <1>0, <2>4, OneLess
      <3> QED
        BY <1>1, <2>4, <3>1 DEF CacheStatusTruthful
    <2> QED
      BY <1>2, <2>2, <2>3, <2>4
  <1>3. CASE own
    <2>1. i = probe_index(w.q.spec)
      BY <1>3 DEF Planned
    <2>2. CASE F # {}
      <3>1. w.fetched = {i} /\ i \in H
        BY <1>3, <2>1, <2>2 DEF Plannable, Resident
      <3> HIDE DEF S, H, F, i, o
      <3>2. SatSub(Cardinality(H), 1) = Cardinality(H \ {i})
        BY <1>0, <3>1, OneLess
      <3> QED
        BY <1>3, <3>1, <3>2
    <2>3. CASE F = {}
      <3>1. H \ w.fetched = H
        BY <2>1, <2>3 DEF Plannable, Resident
      <3> HIDE DEF S, H, F, i, o
      <3> QED
        BY <1>0, <1>3, <2>3, <3>1, OneLess
    <2> QED
      BY <2>2, <2>3
  <1>4. CASE ~own
    <2>1. H \ w.fetched = H
      <3>1. CASE w.fetched = {}
        BY <3>1
      <3>2. CASE w.fetched = {probe_index(w.q.spec)} /\ w.probed_here
        <4>1. CASE Replanned(w.q)
          BY <1>2, <3>2, <4>1 DEF Resident
        <4>2. CASE ~Replanned(w.q)
          <5>1. i = probe_index(w.q.spec) /\ i \notin S
            BY <1>4, <3>2, <4>2 DEF Planned
          <5> QED
            BY <3>2, <5>1 DEF Resident
        <4> QED
          BY <4>1, <4>2
      <3> QED
        BY <3>1, <3>2 DEF Plannable
    <2> QED
      BY <1>4, <2>1
  <1> QED
    BY <1>3, <1>4

\* maybe_prefetch: the slices up to the last of an object begin inside it.
LEMMA BeginsInside ==
    ASSUME NEW o \in Objects, Length[o] > 0,
           NEW i \in Int, i <= Min2((Length[o] - 1) \div SliceSize, U32Max)
    PROVE  i * SliceSize < Length[o]
  <1> DEFINE b == Length[o] - 1
             d == b \div SliceSize
  <1>1. b \in Nat /\ SliceSize \in Nat \ {0}
    BY LengthsNat, SliceSizeNat, SMTT(60) DEF Objects
  <1> HIDE DEF b
  <1>2. d \in Nat /\ d * SliceSize <= b
    BY <1>1, SMTT(60)
  <1>3. i <= d
    BY <1>2, U32MaxNat, SMTT(60) DEF Min2, b
  <1> HIDE DEF d
  <1>4. i * SliceSize <= d * SliceSize /\ i * SliceSize \in Int /\ d * SliceSize \in Int
    BY <1>1, <1>2, <1>3, SMTT(60)
  <1> QED
    BY <1>1, <1>2, <1>4, LengthsNat, SMTT(60) DEF b, Objects

\* prefetch: what is fetched ahead of an access that its pattern remembers.
LEMMA AheadIsEarned ==
    ASSUME NEW o \in Objects, Length[o] > 0, NEW log \in Seq(Accesses), NEW p, Remembers(p, log),
           NEW i \in prefetch(p.consecutive, log[Len(log)].last,
                              Min2((Length[o] - 1) \div SliceSize, U32Max))
    PROVE  LET n == Len(log)
           IN /\ n > SEQUENTIAL_THRESHOLD
              /\ \A k \in n - SEQUENTIAL_THRESHOLD .. n - 1 : Continues(log[k], log[k + 1])
              /\ i * SliceSize < Length[o]
              /\ i \in log[n].last + 1 .. log[n].last + Window
  <1> DEFINE n == Len(log)
             last == log[n].last
             lastSlice == Min2((Length[o] - 1) \div SliceSize, U32Max)
  <1>1. n \in Nat /\ p.consecutive \in 0 .. n - 1
        /\ \A k \in n - p.consecutive .. n - 1 : Continues(log[k], log[k + 1])
    BY SMTT(60) DEF Remembers
  <1>2. last \in Int
    <2>1. n \in 1 .. n
      BY <1>1, SMTT(60)
    <2>2. log[n] \in Accesses
      BY <2>1, SMTT(60)
    <2> QED
      BY <2>2 DEF Accesses
  <1> HIDE DEF n, last, lastSlice
  <1>3. p.consecutive >= SEQUENTIAL_THRESHOLD /\ i \in last + 1 .. lastSlice /\ i <= last + Window
    BY <1>1, PolicyConstants, SMTT(60) DEF prefetch, n, last, lastSlice
  <1>4. lastSlice \in Int
    BY LengthsNat, SliceSizeNat, U32MaxNat, SMTT(60) DEF lastSlice, Min2, Objects
  <1>5. i \in Int /\ i <= lastSlice
    BY <1>2, <1>3, <1>4, SMTT(60)
  <1>6. i * SliceSize < Length[o]
    BY <1>5, BeginsInside DEF lastSlice
  <1>7. n > SEQUENTIAL_THRESHOLD
    BY <1>1, <1>3, PolicyConstants, SMTT(60)
  <1>8. \A k \in n - SEQUENTIAL_THRESHOLD .. n - 1 : k \in n - p.consecutive .. n - 1
    BY <1>1, <1>3, PolicyConstants, SMTT(60)
  <1>9. i \in last + 1 .. last + Window
    BY <1>2, <1>3, <1>5, PolicyConstants, SMTT(60)
  <1> QED
    BY <1>1, <1>6, <1>7, <1>8, <1>9 DEF n, last

\* maybe_prefetch, with ranges: the access is observed and logged.
LEMMA ObserveInv ==
    ASSUME PatternInv, NEW w, w.q \in Requests, Metadata(w.q.object) = "ranges",
           Length[w.q.object] > 0, MaybePrefetch(w, Planned(w.q)), clock' = clock
    PROVE  PatternInv' /\ PrefetchIsEarned'
  <1> DEFINE o == w.q.object
             sp == Planned(w.q)
             log == accesses[o]
             a == [first |-> First(o, sp), last |-> Final(o, sp), at |-> clock]
             lastSlice == Min2((Length[o] - 1) \div SliceSize, U32Max)
  <1>1. o \in Objects /\ a \in Accesses /\ log \in Seq(Accesses)
    BY PlannedType, SpanType DEF PatternInv, Accesses
  <1>2. PICK kept \in Kept(patterns, clock) :
           LET count == consecutive(patterns, kept, o, a.first, clock)
           IN /\ patterns' = observed(patterns, kept, o, a.first, a.last, clock)
              /\ reply' = Report(w, sp, prefetch(count, a.last, lastSlice))
              /\ accesses' = [accesses EXCEPT ![o] = Append(@, a)]
    BY DEF MaybePrefetch
  <1> DEFINE count == consecutive(patterns, kept, o, a.first, clock)
             p == [next_expected |-> a.last + 1, seen |-> a.at, consecutive |-> count]
  <1>3. /\ DOMAIN patterns' = kept \cup {o} /\ patterns'[o] = p
        /\ \A x \in kept \ {o} : patterns'[x] = patterns[x]
    BY <1>2 DEF observed
  <1>4. /\ accesses' \in [Objects -> Seq(Accesses)] /\ accesses'[o] = Append(log, a)
        /\ \A x \in Objects \ {o} : accesses'[x] = accesses[x]
    <2>1. accesses \in [Objects -> Seq(Accesses)] /\ accesses' = [accesses EXCEPT ![o] = Append(log, a)]
      BY <1>2 DEF PatternInv
    <2>2. Append(log, a) \in Seq(Accesses)
      BY <1>1, SMTT(60)
    <2> HIDE DEF o, log, a
    <2> QED
      BY <1>1, <2>1, <2>2
  <1>5. a.first = First(o, sp) /\ a.last = Final(o, sp) /\ a.at = clock
    OBVIOUS
  <1>6. kept \subseteq DOMAIN patterns /\ IsFiniteSet(kept) /\ Cardinality(kept) + 1 <= MAX_TRACKED
    BY KeptFits DEF PatternInv, PatternsBounded
  <1>7. Remembers(p, Append(log, a))
    <2>1. \/ count = 0
          \/ /\ o \in kept /\ count = patterns[o].consecutive + 1
             /\ a.first = patterns[o].next_expected /\ a.at - patterns[o].seen < PATTERN_TTL
      BY <1>5 DEF consecutive
    <2>2. o \in kept => Remembers(patterns[o], log)
      BY <1>6 DEF PatternInv
    <2> HIDE DEF a, count, log, o
    <2> QED
      BY <1>1, <2>1, <2>2, RemembersMore
  <1> HIDE DEF a, count, log, o, sp, lastSlice
  <1>8. PatternInv'
    <2>1. IsFiniteSet(kept \cup {o}) /\ Cardinality(kept \cup {o}) <= MAX_TRACKED
      <3>1. /\ IsFiniteSet(kept \cup {o}) /\ Cardinality(kept) \in Nat
            /\ Cardinality(kept \cup {o}) \in {Cardinality(kept), Cardinality(kept) + 1}
        BY <1>6, FS_AddElement, FS_CardinalityType
      <3> QED
        BY <1>6, <3>1, PolicyConstants, SMTT(60)
    <2>2. \A x \in kept \cup {o} : x \in Objects /\ Remembers(patterns'[x], accesses'[x])
      <3>1. o \in Objects /\ Remembers(patterns'[o], accesses'[o])
        BY <1>1, <1>3, <1>4, <1>7
      <3> HIDE DEF p
      <3>2. \A x \in kept \ {o} : x \in Objects /\ Remembers(patterns'[x], accesses'[x])
        BY <1>3, <1>4, <1>6 DEF PatternInv
      <3> QED
        BY <3>1, <3>2
    <2> QED
      BY <1>3, <1>4, <2>1, <2>2 DEF PatternInv, PatternsBounded
  <1>9. PrefetchIsEarned'
    <2>1. reply'.object = o /\ reply'.ahead = prefetch(count, a.last, lastSlice)
      BY <1>2 DEF Report, o, count
    <2> DEFINE more == Append(log, a)
    <2>2. more \in Seq(Accesses) /\ more[Len(more)] = a /\ p.consecutive = count
      BY <1>1, SMTT(60)
    <2>3. Remembers(p, more) /\ accesses'[o] = more /\ Length[o] > 0
      BY <1>4, <1>7 DEF o
    <2> HIDE DEF more, p
    <2> DEFINE n == Len(more)
    <2>4. ASSUME NEW i \in reply'.ahead
          PROVE  /\ n > SEQUENTIAL_THRESHOLD
                 /\ \A k \in n - SEQUENTIAL_THRESHOLD .. n - 1 : Continues(more[k], more[k + 1])
                 /\ i * SliceSize < Length[o]
                 /\ i \in more[n].last + 1 .. more[n].last + Window
      <3>1. i \in prefetch(p.consecutive, more[Len(more)].last,
                           Min2((Length[o] - 1) \div SliceSize, U32Max))
        BY <2>1, <2>2, <2>4 DEF lastSlice
      <3> QED
        BY <1>1, <2>2, <2>3, <3>1, AheadIsEarned
    <2> QED
      BY <2>1, <2>3, <2>4 DEF PrefetchIsEarned, Continues
  <1> QED
    BY <1>8, <1>9

-----------------------------------------------------------------------------
\* get_or_try_init: who is in line for an object's metadata.
InLine ==
    {w \in [q : Requests, probed_here : {TRUE}, fetched : SUBSET Nat] :
       w.fetched = {} \/ w.fetched = {probe_index(w.q.spec)}}

WaitingInv == waiting \in [Objects -> Seq(InLine)]

\* The invariant, and what it says of the latest response.
PlanInv == PatternInv /\ WaitingInv /\ PrefetchIsEarned /\ CacheStatusTruthful

LEMMA WaiterInLine ==
    ASSUME NEW q \in Requests, NEW slices \in SUBSET Nat,
           slices = {} \/ slices = {probe_index(q.spec)}
    PROVE  Waiter(q, slices) \in InLine
  BY DEF Waiter, InLine

LEMMA ProbeIndexNat == \A q \in Requests : probe_index(q.spec) \in Nat
  <1> SUFFICES ASSUME NEW q \in Requests PROVE probe_index(q.spec) \in Nat
    OBVIOUS
  <1>1. q.spec.from \in Nat
    BY RequestsType
  <1>2. q.spec.from \div SliceSize \in Nat
    BY <1>1, SliceSizeNat, SMTT(60)
  <1>3. (q.spec.from \div SliceSize) % (U32Max + 1) \in Nat
    BY <1>2, U32MaxNat, SMTT(60)
  <1> QED
    BY <1>3, SMTT(60) DEF probe_index

\* A line without one of those in it.
LEMMA LineWithout ==
    ASSUME NEW s \in Seq(InLine), NEW k \in DOMAIN s
    PROVE  RemoveAt(s, k) \in Seq(InLine)
  <1>1. k \in 1 .. Len(s) /\ Len(s) \in Nat
    BY SMTT(60)
  <1>2. SubSeq(s, 1, k - 1) \in Seq(InLine) /\ SubSeq(s, k + 1, Len(s)) \in Seq(InLine)
    BY <1>1, SMTT(60)
  <1> QED
    BY <1>2, SMTT(60) DEF RemoveAt

\* serve: what a planned request is answered, and what it leaves behind.
LEMMA ServeInv ==
    ASSUME PatternInv, NEW w, Plannable(w), Serve(w)
    PROVE  PatternInv' /\ PrefetchIsEarned' /\ CacheStatusTruthful'
  <1>1. /\ clock' = clock
        /\ \/ reply' = [status |-> 416] /\ UNCHANGED <<patterns, accesses>>
           \/ reply' = Report(w, Planned(w.q), {}) /\ UNCHANGED <<patterns, accesses>>
           \/ Length[w.q.object] > 0 /\ MaybePrefetch(w, Planned(w.q))
    BY DEF Serve, Planned
  <1>2. CASE reply' = [status |-> 416] /\ UNCHANGED <<patterns, accesses>>
    BY <1>1, <1>2 DEF PatternInv, PatternsBounded, PrefetchIsEarned, CacheStatusTruthful, Answered
  <1>3. CASE reply' = Report(w, Planned(w.q), {}) /\ UNCHANGED <<patterns, accesses>>
    <2>1. reply'.ahead = {}
      BY <1>3 DEF Report
    <2>2. PatternInv'
      BY <1>1, <1>3 DEF PatternInv, PatternsBounded
    <2>3. CacheStatusTruthful'
      BY <1>3, StatusTruthful
    <2> QED
      BY <2>1, <2>2, <2>3 DEF PrefetchIsEarned
  <1>4. CASE Length[w.q.object] > 0 /\ MaybePrefetch(w, Planned(w.q))
    <2>1. CASE Metadata(w.q.object) = "ranges"
      <3>1. PatternInv' /\ PrefetchIsEarned'
        BY <1>1, <1>4, <2>1, ObserveInv DEF Plannable
      <3>2. \E ahead : reply' = Report(w, Planned(w.q), ahead)
        BY <1>4 DEF MaybePrefetch
      <3>3. CacheStatusTruthful'
        BY <3>2, StatusTruthful
      <3> QED
        BY <3>1, <3>3
    <2>2. CASE Metadata(w.q.object) # "ranges"
      BY <1>3, <1>4, <2>2 DEF MaybePrefetch
    <2> QED
      BY <2>1, <2>2
  <1> QED
    BY <1>1, <1>2, <1>3, <1>4

\* A step that observes no access and answers no more than an error.
LEMMA QuietInv ==
    ASSUME PlanInv, UNCHANGED <<accesses>>, clock' \in Nat,
           patterns' = patterns \/ patterns' = [o \in {} |-> 0],
           reply' = reply \/ reply' = [status |-> 502]
    PROVE  PatternInv' /\ PrefetchIsEarned' /\ CacheStatusTruthful'
  <1>1. PatternInv'
    <2>1. CASE patterns' = patterns
      BY <2>1 DEF PlanInv, PatternInv, PatternsBounded
    <2>2. CASE patterns' = [o \in {} |-> 0]
      <3>1. DOMAIN patterns' = {} /\ IsFiniteSet({}) /\ Cardinality({}) = 0
        BY <2>2, FS_EmptySet
      <3>2. 0 <= MAX_TRACKED
        BY PolicyConstants, SMTT(60)
      <3> QED
        BY <3>1, <3>2 DEF PlanInv, PatternInv, PatternsBounded
    <2> QED
      BY <2>1, <2>2
  <1>2. CASE reply' = reply
    BY <1>1, <1>2 DEF PlanInv, PrefetchIsEarned, CacheStatusTruthful, Answered
  <1>3. CASE reply' = [status |-> 502]
    BY <1>1, <1>3 DEF PrefetchIsEarned, CacheStatusTruthful, Answered
  <1> QED
    BY <1>2, <1>3

LEMMA ProbeLearnsInv ==
    ASSUME WaitingInv, NEW o \in Objects, ProbeLearns(o)
    PROVE  WaitingInv'
  <1> DEFINE s == waiting[o]
             q == Head(s).q
             slices == IF Learned(q) = "ranges" THEN {probe_index(q.spec)} ELSE {}
             line == <<Waiter(q, slices)>> \o Tail(s)
  <1>1. s \in Seq(InLine) /\ s # <<>>
    BY DEF WaitingInv, ProbeLearns, Probing
  <1>2. Head(s) \in InLine /\ Tail(s) \in Seq(InLine)
    BY <1>1, SMTT(60)
  <1>3. Waiter(q, slices) \in InLine
    <2>1. q \in Requests
      BY <1>2 DEF InLine
    <2>2. probe_index(q.spec) \in Nat
      BY <2>1, ProbeIndexNat
    <2> QED
      BY <2>1, <2>2, WaiterInLine
  <1>4. line \in Seq(InLine)
    <2> HIDE DEF s, q, slices
    <2> QED
      BY <1>2, <1>3, SMTT(60)
  <1>5. waiting' = [waiting EXCEPT ![o] = line]
    BY DEF ProbeLearns
  <1> HIDE DEF line, s
  <1> QED
    BY <1>4, <1>5 DEF WaitingInv

LEMMA PlanNext == PlanInv /\ [Next]_vars => PlanInv'
  <1> SUFFICES ASSUME PlanInv, [Next]_vars PROVE PlanInv'
    OBVIOUS
  <1>0. clock \in Nat /\ clock + 1 \in Nat /\ WaitingInv
    BY SMTT(60) DEF PlanInv, PatternInv
  <1>1. ASSUME NEW q \in Requests, Receive(q) PROVE PlanInv'
    <2>1. Plannable(Found(q)) /\ Found(q).q = q
      BY <1>1 DEF Plannable, Found
    <2>2. PatternInv' /\ PrefetchIsEarned' /\ CacheStatusTruthful'
      BY <1>1, <2>1, ServeInv DEF Receive, PlanInv
    <2> QED
      BY <1>0, <1>1, <2>2 DEF Receive, PlanInv, WaitingInv
  <1>2. ASSUME NEW q \in Requests, Wait(q) PROVE PlanInv'
    <2>1. PatternInv' /\ PrefetchIsEarned' /\ CacheStatusTruthful'
      BY <1>0, <1>2, QuietInv DEF Wait
    <2>2. q.object \in Objects
      BY <1>2, PlannedType
    <2>3. Waiter(q, {}) \in InLine
      BY <1>2, WaiterInLine
    <2>4. Append(waiting[q.object], Waiter(q, {})) \in Seq(InLine)
      BY <1>0, <2>2, <2>3, SMTT(60) DEF WaitingInv
    <2>5. waiting' = [waiting EXCEPT ![q.object] = Append(waiting[q.object], Waiter(q, {}))]
      BY <1>2 DEF Wait
    <2> QED
      BY <1>0, <2>1, <2>2, <2>4, <2>5 DEF PlanInv, WaitingInv
  <1>3. ASSUME NEW o \in Objects, ProbeLearns(o) PROVE PlanInv'
    <2>1. PatternInv' /\ PrefetchIsEarned' /\ CacheStatusTruthful'
      BY <1>0, <1>3, QuietInv DEF ProbeLearns
    <2> QED
      BY <1>0, <1>3, <2>1, ProbeLearnsInv DEF PlanInv
  <1>4. ASSUME NEW o \in Objects, ProbeFails(o) PROVE PlanInv'
    <2>1. PatternInv' /\ PrefetchIsEarned' /\ CacheStatusTruthful'
      BY <1>0, <1>4, QuietInv DEF ProbeFails
    <2>2. waiting[o] \in Seq(InLine) /\ waiting[o] # <<>>
      BY <1>0, <1>4 DEF WaitingInv, ProbeFails, Probing
    <2>3. Tail(waiting[o]) \in Seq(InLine)
      BY <2>2, SMTT(60)
    <2>4. waiting' = [waiting EXCEPT ![o] = Tail(waiting[o])]
      BY <1>4 DEF ProbeFails
    <2> QED
      BY <1>0, <2>1, <2>3, <2>4 DEF PlanInv, WaitingInv
  <1>5. ASSUME NEW o \in Objects, NEW k \in DOMAIN waiting[o], Wakes(o, k) \/ Leaves(o, k)
        PROVE  PlanInv'
    <2>1. waiting[o] \in Seq(InLine) /\ waiting' = [waiting EXCEPT ![o] = RemoveAt(waiting[o], k)]
      BY <1>0, <1>5 DEF WaitingInv, Wakes, Leaves
    <2>2. WaitingInv'
      BY <1>0, <2>1, LineWithout DEF WaitingInv
    <2>3. CASE Leaves(o, k)
      <3>1. PatternInv' /\ PrefetchIsEarned' /\ CacheStatusTruthful'
        BY <1>0, <2>3, QuietInv DEF Leaves
      <3> QED
        BY <2>2, <3>1 DEF PlanInv
    <2>4. CASE Wakes(o, k)
      <3> DEFINE w == waiting[o][k]
      <3>1. w \in InLine
        BY <2>1, SMTT(60)
      <3>2. Plannable(w)
        BY <3>1 DEF InLine, Plannable
      <3> QED
        BY <2>2, <2>4, <3>2, ServeInv DEF PlanInv, Wakes
    <2> QED
      BY <1>5, <2>3, <2>4
  <1>6. CASE \/ \E o \in Objects : Purge(o)
             \/ \E task \in fetching : FetchEnds(task)
             \/ \E k \in store : Evict(k)
             \/ Tick \/ UNCHANGED vars
    <2>1. /\ UNCHANGED <<patterns, reply, accesses, waiting>>
          /\ clock' = clock \/ clock' = clock + 1
      BY <1>6 DEF Purge, FetchEnds, Evict, Lose, Tick, vars
    <2>2. PatternInv' /\ PrefetchIsEarned' /\ CacheStatusTruthful'
      BY <1>0, <2>1, QuietInv
    <2> QED
      BY <1>0, <2>1, <2>2 DEF PlanInv, WaitingInv
  <1>7. CASE Restart
    <2>1. PatternInv' /\ PrefetchIsEarned' /\ CacheStatusTruthful'
      BY <1>0, <1>7, QuietInv DEF Restart, Lose
    <2>2. <<>> \in Seq(InLine)
      BY SMTT(60)
    <2> QED
      BY <1>7, <2>1, <2>2 DEF PlanInv, WaitingInv, Restart
  <1> QED
    BY <1>1, <1>2, <1>3, <1>4, <1>5, <1>6, <1>7 DEF Next

LEMMA PlanInit == Init => PlanInv
  <1> SUFFICES ASSUME Init PROVE PlanInv
    OBVIOUS
  <1>1. DOMAIN patterns = {} /\ clock = 0 /\ ~Answered
    BY DEF Init, Answered, NoReply
  <1>2. IsFiniteSet({}) /\ Cardinality({}) = 0
    BY FS_EmptySet
  <1>3. accesses \in [Objects -> Seq(Accesses)]
    BY SMTT(60) DEF Init
  <1>4. PatternInv
    BY <1>1, <1>2, <1>3, PolicyConstants, SMTT(60) DEF PatternInv, PatternsBounded
  <1>5. WaitingInv
    BY SMTT(60) DEF Init, WaitingInv
  <1> QED
    BY <1>1, <1>4, <1>5 DEF PlanInv, PrefetchIsEarned, CacheStatusTruthful

LEMMA PlanInvariance == Spec => []PlanInv
  BY PlanInit, PlanNext, PTL DEF Spec

\* readahead.rs, MAX_TRACKED: the pattern map never outgrows its cap, however many objects are
\* requested within PATTERN_TTL: a full map loses half of itself before an object is added.
THEOREM PatternsBoundedHolds == Spec => []PatternsBounded
  <1>1. PlanInv => PatternsBounded
    BY DEF PlanInv, PatternInv
  <1> QED
    BY <1>1, PlanInvariance, PTL

\* maybe_prefetch and observe: whatever is fetched ahead of a client was earned by the accesses
\* before it, though patterns expire, are swept from a full map and begin again.
THEOREM PrefetchIsEarnedHolds == Spec => []PrefetchIsEarned
  <1>1. PlanInv => PrefetchIsEarned
    BY DEF PlanInv
  <1> QED
    BY <1>1, PlanInvariance, PTL

\* metadata, plan and classify: X-Cache tells which slices the store had, for every range,
\* store and index and however many requests wait for one probe: exactly if the request found
\* the object known or has a slice of its own probe in the store, and otherwise at most one
\* slice too few.
THEOREM CacheStatusTruthfulHolds == Spec => []CacheStatusTruthful
  <1>1. PlanInv => CacheStatusTruthful
    BY DEF PlanInv
  <1> QED
    BY <1>1, PlanInvariance, PTL
=============================================================================
