-------------------------- MODULE BodyStreamProofs --------------------------
(***************************************************************************)
(* The body of a response is exactly the requested range, for every slice  *)
(* size, window, object length and Range header.                           *)
(*                                                                         *)
(* Then why it ends: a stream always has a step to take, by itself or by a *)
(* slice task (NotStuck), and each step leaves less work.                  *)
(***************************************************************************)
EXTENDS BodyStream, FiniteSetTheorems, TLAPS

\* The solver's time limit, in seconds.
USE ZenonT(60)

-----------------------------------------------------------------------------
\* Integer division: the slice of a byte begins at or before it and ends after it.
LEMMA DivBounds ==
    ASSUME NEW b \in Nat, NEW s \in Nat \ {0}
    PROVE  /\ b \div s \in Nat
           /\ (b \div s) * s <= b
           /\ b < (b \div s) * s + s
  BY SMTT(60)

LEMMA MulMono ==
    ASSUME NEW m \in Nat, NEW n \in Nat, NEW s \in Nat, m <= n
    PROVE  m * s <= n * s
  BY SMTT(60)

LEMMA MulSucc ==
    ASSUME NEW m \in Nat, NEW s \in Nat
    PROVE  (m + 1) * s = m * s + s
  BY SMTT(60)

\* plan, ToIndex: inside an addressable object no index is saturated, so the
\* slice an index names holds the byte.
LEMMA IndexBounds ==
    ASSUME NEW b \in Nat, b < MaxAddressable(SliceSize)
    PROVE  /\ ToIndex(b, SliceSize) \in Nat
           /\ ToIndex(b, SliceSize) * SliceSize <= b
           /\ b < ToIndex(b, SliceSize) * SliceSize + SliceSize
  <1> DEFINE q == b \div SliceSize
  <1>1. q \in Nat /\ q * SliceSize <= b /\ b < q * SliceSize + SliceSize
    BY DivBounds, SizesNat
  <1>2. q <= U32Max
    <2>1. SUFFICES ASSUME U32Max + 1 <= q PROVE FALSE
      BY <1>1, U32MaxNat, SMTT(60)
    <2>2. (U32Max + 1) * SliceSize <= q * SliceSize
      BY <2>1, <1>1, MulMono, U32MaxNat, SizesNat, SMTT(60)
    <2> QED BY <2>2, <1>1, U32MaxNat, SizesNat, SMTT(60) DEF MaxAddressable
  <1>3. ToIndex(b, SliceSize) = q
    BY <1>2 DEF ToIndex, Min2
  <1> QED BY <1>1, <1>3

\* A later slice begins no earlier: the last slice is not before the first.
LEMMA IndexMono ==
    ASSUME NEW a \in Nat, NEW b \in Nat, a <= b, b < MaxAddressable(SliceSize)
    PROVE  ToIndex(a, SliceSize) <= ToIndex(b, SliceSize)
  <1> DEFINE i == ToIndex(a, SliceSize)
             j == ToIndex(b, SliceSize)
  <1>0. MaxAddressable(SliceSize) \in Nat
    BY U32MaxNat, SizesNat, SMTT(60) DEF MaxAddressable
  <1>1. i \in Nat /\ i * SliceSize <= a
    BY IndexBounds, <1>0, SMTT(60)
  <1>2. j \in Nat /\ b < j * SliceSize + SliceSize
    BY IndexBounds, <1>0
  <1> HIDE DEF i, j
  <1>3. SUFFICES ASSUME j + 1 <= i PROVE FALSE
    BY <1>1, <1>2, SMTT(60) DEF i, j
  <1>4. (j + 1) * SliceSize <= i * SliceSize
    BY <1>3, <1>1, <1>2, MulMono, SizesNat, SMTT(60)
  <1>5. (j + 1) * SliceSize = j * SliceSize + SliceSize
    BY <1>2, MulSucc, SizesNat
  <1>6. i * SliceSize \in Nat /\ j * SliceSize \in Nat
    BY <1>1, <1>2, SizesNat, SMTT(60)
  <1> QED BY <1>1, <1>2, <1>4, <1>5, <1>6, SizesNat, SMTT(60)

\* A range inside an addressable object.
Inside(w, len) == w \in [start : Nat, end : Nat] /\ w.start <= w.end /\ w.end < len

LEMMA Addressable ==
    ASSUME NEW len \in Totals
    PROVE  len \in Nat /\ MaxAddressable(SliceSize) \in Nat /\ len <= MaxAddressable(SliceSize)
  <1>1. MaxAddressable(SliceSize) \in Nat
    BY U32MaxNat, SizesNat, SMTT(60) DEF MaxAddressable
  <1> QED BY <1>1, TotalsNat, SMTT(60)

\* resolve and whole: a satisfiable range, clamped, lies inside the object.
LEMMA ResolveInside ==
    ASSUME NEW len \in Totals, NEW sp \in Specs \cup {NoSpec}, Satisfiable(sp, len)
    PROVE  Inside(Resolve(sp, len), len)
  <1>1. len \in Nat /\ len > 0
    BY Addressable DEF Satisfiable
  <1>2. /\ sp.kind \in {"fromto", "from", "suffix", "none"} /\ sp.from \in Nat /\ sp.to \in Nat
        /\ sp.kind = "fromto" => sp.from <= sp.to
        /\ sp.kind = "none" => sp.from = 0
    BY SpecsType, SMTT(60) DEF NoSpec
  <1>3. CASE sp.kind = "fromto"
    BY <1>1, <1>2, <1>3, SMTT(60) DEF Inside, Resolve, Satisfiable, Bytes, Min2
  <1>4. CASE sp.kind = "from"
    BY <1>1, <1>2, <1>4, SMTT(60) DEF Inside, Resolve, Satisfiable, Bytes
  <1>5. CASE sp.kind = "suffix"
    BY <1>1, <1>2, <1>5, SMTT(60) DEF Inside, Resolve, Satisfiable, Bytes, Min2
  <1>6. CASE sp.kind = "none"
    BY <1>1, <1>2, <1>6, SMTT(60) DEF Inside, Resolve, Bytes
  <1> QED BY <1>2, <1>3, <1>4, <1>5, <1>6

\* plan: the first and the last slice hold the first and the last byte.
LEMMA SliceGeometry ==
    ASSUME NEW len \in Totals, NEW w, Inside(w, len)
    PROVE  LET f == FirstSlice(w, SliceSize)
               l == LastSlice(w, SliceSize)
           IN  /\ f \in Nat /\ l \in Nat /\ f <= l
               /\ f * SliceSize <= w.start /\ w.start < f * SliceSize + SliceSize
               /\ l * SliceSize <= w.end /\ w.end < l * SliceSize + SliceSize
  <1>1. /\ w.start \in Nat /\ w.end \in Nat /\ w.start <= w.end
        /\ w.start < MaxAddressable(SliceSize) /\ w.end < MaxAddressable(SliceSize)
    BY Addressable, SMTT(60) DEF Inside
  <1> DEFINE f == ToIndex(w.start, SliceSize)
             l == ToIndex(w.end, SliceSize)
  <1>2. f \in Nat /\ f * SliceSize <= w.start /\ w.start < f * SliceSize + SliceSize
    BY <1>1, IndexBounds
  <1>3. l \in Nat /\ l * SliceSize <= w.end /\ w.end < l * SliceSize + SliceSize
    BY <1>1, IndexBounds
  <1>4. f <= l
    BY <1>1, IndexMono
  <1> HIDE DEF f, l
  <1>5. FirstSlice(w, SliceSize) = f /\ LastSlice(w, SliceSize) = l
    BY <1>2, <1>3, <1>4 DEF f, l, FirstSlice, LastSlice, Max2
  <1> QED BY <1>2, <1>3, <1>4, <1>5

\* The first byte not sent when the slices before n have been.
Reach(w, n) == IF n > LastSlice(w, SliceSize) THEN w.end + 1
               ELSE Max2(w.start, n * SliceSize)

LEMMA ReachFirst ==
    ASSUME NEW len \in Totals, NEW w, Inside(w, len)
    PROVE  Reach(w, FirstSlice(w, SliceSize)) = w.start
  <1> DEFINE f == FirstSlice(w, SliceSize)
  <1>1. f \in Nat /\ ~(f > LastSlice(w, SliceSize)) /\ f * SliceSize <= w.start
    BY SliceGeometry, SMTT(60)
  <1>2. w.start \in Nat /\ f * SliceSize \in Nat
    BY <1>1, SizesNat, SMTT(60) DEF Inside
  <1> HIDE DEF f
  <1> QED BY <1>1, <1>2 DEF Reach, Max2, f

\* payload_window: the window of slice n carries the body from where the slices
\* before it end to where the next one begins.
LEMMA WindowTiles ==
    ASSUME NEW len \in Totals, NEW w, Inside(w, len), NEW n \in Nat,
           FirstSlice(w, SliceSize) <= n, n <= LastSlice(w, SliceSize)
    PROVE  /\ WindowFrom(n, SliceSize, w) \in Nat
           /\ WindowTo(n, SliceSize, w) \in Nat
           /\ WindowFrom(n, SliceSize, w) <= WindowTo(n, SliceSize, w)
           /\ Reach(w, n + 1) = Reach(w, n) + WindowTo(n, SliceSize, w) - WindowFrom(n, SliceSize, w)
  <1> DEFINE f == FirstSlice(w, SliceSize)
             l == LastSlice(w, SliceSize)
             fs == f * SliceSize
             ls == l * SliceSize
             ns == n * SliceSize
             ms == (n + 1) * SliceSize
  <1>1. w.start \in Nat /\ w.end \in Nat /\ w.start <= w.end /\ SliceSize \in Nat \ {0}
    BY SizesNat DEF Inside
  <1>2. /\ f \in Nat /\ l \in Nat /\ f <= n /\ n <= l
        /\ w.start < fs + SliceSize
        /\ ls <= w.end /\ w.end < ls + SliceSize
    BY SliceGeometry
  <1>3. fs \in Nat /\ ls \in Nat /\ ns \in Nat /\ ms = ns + SliceSize
    BY <1>1, <1>2, MulSucc, SMTT(60)
  <1>4. fs <= ns /\ ns <= ls
    BY <1>1, <1>2, MulMono
  <1>5. n # l => ms <= ls
    <2>1. SUFFICES ASSUME n # l PROVE ms <= ls
      OBVIOUS
    <2>2. n + 1 \in Nat /\ n + 1 <= l
      BY <2>1, <1>2, SMTT(60)
    <2> QED BY <2>2, <1>1, <1>2, MulMono
  <1> DEFINE from == WindowFrom(n, SliceSize, w)
             to == WindowTo(n, SliceSize, w)
  <1>6. from = IF w.start >= ns THEN w.start - ns ELSE 0
    BY DEF WindowFrom, SatSub
  <1>7. to = IF w.end - ns + 1 <= SliceSize THEN w.end - ns + 1 ELSE SliceSize
    BY DEF WindowTo, Min2
  <1>8. Reach(w, n) = IF w.start >= ns THEN w.start ELSE ns
    BY <1>2, SMTT(60) DEF Reach, Max2
  <1>9. Reach(w, n + 1) = IF n = l THEN w.end + 1 ELSE IF w.start >= ms THEN w.start ELSE ms
    BY <1>2, SMTT(60) DEF Reach, Max2
  <1>10. n = l => ls = ns
    OBVIOUS
  <1> HIDE DEF f, l, fs, ls, ns, ms, from, to
  <1>11. CASE n = l
    BY <1>1, <1>2, <1>3, <1>4, <1>6, <1>7, <1>8, <1>9, <1>10, <1>11, SMTT(60) DEF from, to
  <1>12. CASE n # l
    BY <1>1, <1>2, <1>3, <1>4, <1>5, <1>6, <1>7, <1>8, <1>9, <1>12, SMTT(60) DEF from, to
  <1> QED BY <1>11, <1>12

-----------------------------------------------------------------------------
\* While a response streams: where it is, and how far it has got.
StreamInv ==
    /\ Inside(wanted, total)
    /\ FirstSlice(wanted, SliceSize) <= next /\ next <= spawned /\ spawned <= Last + 1
    /\ wanted.start + sent = Reach(wanted, next)

\* proxy/server.rs, serve: `buffered(readahead)` caps the slices held.
WindowBounded == Cardinality(DOMAIN tasks) <= Readahead

IInv ==
    /\ TypeOK
    /\ IsFiniteSet(DOMAIN tasks)
    /\ ~Streaming => DOMAIN tasks = {}
    /\ status = "new" => sent = 0
    /\ Streaming => StreamInv
    /\ CompleteIsWhole
    /\ AbortedIsShort
    /\ WindowBounded

LEMMA InitIInv == Init => IInv
  <1> SUFFICES ASSUME Init PROVE IInv
    OBVIOUS
  <1>1. DOMAIN tasks = {} /\ status = "new" /\ ~Streaming
    BY DEF Init, Streaming
  <1>2. IsFiniteSet(DOMAIN tasks) /\ Cardinality(DOMAIN tasks) = 0
    BY <1>1, FS_EmptySet
  <1>3. TypeOK
    BY <1>1 DEF Init, TypeOK, NoBytes, Bytes
  <1>4. CompleteIsWhole /\ AbortedIsShort /\ WindowBounded
    BY <1>1, <1>2, SizesNat, SMTT(60) DEF CompleteIsWhole, AbortedIsShort, WindowBounded
  <1> QED BY <1>1, <1>2, <1>3, <1>4 DEF IInv, Init

\* serve: the headers of a response with a body.
LEMMA BeginIInv ==
    ASSUME IInv, status = "new", NEW code \in {"whole", "part"}, NEW w,
           Inside(w, total), total # 0, Begin(code, w)
    PROVE  IInv'
  <1> DEFINE f == FirstSlice(w, SliceSize)
  <1>1. /\ status' = code /\ wanted' = w /\ spawned' = f /\ next' = f
        /\ total' = total /\ spec' = spec /\ ifRange' = ifRange /\ tasks' = tasks /\ sent' = sent
    BY DEF Begin
  <1>2. f \in Nat /\ f <= LastSlice(w, SliceSize) /\ LastSlice(w, SliceSize) \in Nat
    BY SliceGeometry DEF IInv, TypeOK
  <1>3. DOMAIN tasks = {} /\ sent = 0 /\ IsFiniteSet(DOMAIN tasks)
    BY DEF IInv, Streaming
  <1>4. Reach(w, f) = w.start /\ w.start \in Nat /\ w.end \in Nat
    BY ReachFirst DEF IInv, TypeOK, Inside
  <1> HIDE DEF f
  <1>5. f .. f - 1 = {}
    BY <1>2, SMTT(60)
  <1>6. TypeOK'
    BY <1>1, <1>2, <1>3, <1>4, <1>5 DEF IInv, TypeOK, Streaming, Inside
  <1>7. StreamInv'
    <2>1. Inside(wanted', total')
      BY <1>1
    <2>2. FirstSlice(wanted', SliceSize) = f /\ LastSlice(wanted', SliceSize) = LastSlice(w, SliceSize)
      BY <1>1 DEF f
    <2>3. Reach(wanted', next') = w.start
      BY <1>1, <1>4
    <2> QED BY <1>1, <1>2, <1>3, <1>4, <2>1, <2>2, <2>3, SMTT(60) DEF StreamInv, Last
  <1> QED BY <1>1, <1>3, <1>6, <1>7 DEF IInv, Streaming, CompleteIsWhole, AbortedIsShort, WindowBounded

LEMMA RefuseIInv == IInv /\ Refuse => IInv'
  BY DEF IInv, Refuse, TypeOK, Streaming, CompleteIsWhole, AbortedIsShort, WindowBounded

LEMMA SendWholeIInv == IInv /\ SendWhole => IInv'
  <1> SUFFICES ASSUME IInv, SendWhole PROVE IInv'
    OBVIOUS
  <1>0. total \in Totals /\ total \in Nat /\ status = "new" /\ Begin("whole", Whole)
    BY Addressable DEF IInv, TypeOK, SendWhole
  <1>1. CASE total = 0
    <2>1. /\ status' = "complete" /\ wanted' = NoBytes
          /\ spawned' = FirstSlice(NoBytes, SliceSize) /\ next' = FirstSlice(NoBytes, SliceSize)
          /\ UNCHANGED <<total, spec, ifRange, tasks, sent>>
      BY <1>0, <1>1 DEF Begin, Whole
    <2>2. FirstSlice(NoBytes, SliceSize) \in Nat
      BY DivBounds, SizesNat, U32MaxNat DEF FirstSlice, ToIndex, Min2, NoBytes, Bytes
    <2>3. sent = 0 /\ DOMAIN tasks = {}
      BY <1>0 DEF IInv, Streaming
    <2>4. TypeOK'
      BY <2>1, <2>2, <2>3 DEF IInv, TypeOK, Streaming, NoBytes, Bytes
    <2>5. CompleteIsWhole'
      BY <1>0, <1>1, <2>1, <2>3, SMTT(60) DEF CompleteIsWhole, NoBytes, Bytes
    <2> QED BY <2>1, <2>3, <2>4, <2>5 DEF IInv, Streaming, AbortedIsShort, WindowBounded
  <1>2. CASE total # 0
    <2>1. Satisfiable(NoSpec, total)
      BY <1>0, <1>2, SMTT(60) DEF Satisfiable, NoSpec
    <2>2. Inside(Resolve(NoSpec, total), total)
      BY <1>0, <2>1, ResolveInside
    <2> QED BY <1>0, <1>2, <2>2, BeginIInv DEF Whole
  <1> QED BY <1>1, <1>2

LEMMA SendPartIInv == IInv /\ SendPart => IInv'
  <1> SUFFICES ASSUME IInv, SendPart PROVE IInv'
    OBVIOUS
  <1>1. /\ total \in Totals /\ spec \in Specs /\ status = "new" /\ Satisfiable(spec, total)
        /\ Begin("part", Resolve(spec, total))
    BY DEF IInv, TypeOK, SendPart
  <1>2. Inside(Resolve(spec, total), total)
    BY <1>1, ResolveInside
  <1>3. total # 0
    BY <1>1, SMTT(60) DEF Satisfiable
  <1> QED BY <1>1, <1>2, <1>3, BeginIInv

\* Facts about a streaming response that every step of the stream needs.
LEMMA StreamFacts ==
    ASSUME IInv, Streaming
    PROVE  /\ total \in Totals /\ Inside(wanted, total) /\ wanted \in [start : Nat, end : Nat]
           /\ next \in Nat /\ spawned \in Nat /\ sent \in Nat /\ Last \in Nat
           /\ FirstSlice(wanted, SliceSize) <= next /\ next <= spawned /\ spawned <= Last + 1
           /\ wanted.start + sent = Reach(wanted, next)
           /\ DOMAIN tasks = next .. spawned - 1
           /\ IsFiniteSet(DOMAIN tasks)
           /\ Cardinality(DOMAIN tasks) \in Nat /\ Cardinality(DOMAIN tasks) <= Readahead
  <1>1. Inside(wanted, total) /\ total \in Totals
    BY DEF IInv, StreamInv, TypeOK
  <1>2. Last \in Nat
    BY <1>1, SliceGeometry DEF Last
  <1>3. Cardinality(DOMAIN tasks) \in Nat
    BY FS_CardinalityType DEF IInv
  <1> QED BY <1>1, <1>2, <1>3 DEF IInv, TypeOK, StreamInv, WindowBounded

LEMMA SpawnIInv == IInv /\ Spawn => IInv'
  <1> SUFFICES ASSUME IInv, Spawn PROVE IInv'
    OBVIOUS
  <1>1. Streaming /\ spawned <= Last /\ Cardinality(DOMAIN tasks) < Readahead
    BY DEF Spawn
  <1>2. /\ DOMAIN tasks' = DOMAIN tasks \cup {spawned} /\ spawned' = spawned + 1
        /\ \A i \in DOMAIN tasks' : tasks'[i] = IF i = spawned THEN Pending ELSE tasks[i]
        /\ UNCHANGED <<status, total, spec, ifRange, wanted, next, sent>>
    BY DEF Spawn
  <1>3. DOMAIN tasks = next .. spawned - 1 /\ next \in Nat /\ spawned \in Nat /\ Last \in Nat /\ next <= spawned
    BY <1>1, StreamFacts
  <1>4. DOMAIN tasks' = next' .. spawned' - 1
    BY <1>2, <1>3, SMTT(60)
  <1>5. IsFiniteSet(DOMAIN tasks') /\ Cardinality(DOMAIN tasks') <= Readahead
    <2>1. IsFiniteSet(DOMAIN tasks) /\ Cardinality(DOMAIN tasks) \in Nat
      BY <1>1, StreamFacts
    <2>2. IsFiniteSet(DOMAIN tasks \cup {spawned}) /\
          Cardinality(DOMAIN tasks \cup {spawned}) =
             IF spawned \in DOMAIN tasks THEN Cardinality(DOMAIN tasks) ELSE Cardinality(DOMAIN tasks) + 1
      BY <2>1, FS_AddElement
    <2> QED BY <1>1, <1>2, <2>1, <2>2, SizesNat, SMTT(60)
  <1>6. TypeOK'
    BY <1>2, <1>3, <1>4, SMTT(60) DEF IInv, TypeOK, Streaming, Pending
  <1>7. Streaming' /\ StreamInv'
    BY <1>1, <1>2, <1>3, SMTT(60) DEF IInv, StreamInv, Streaming, Last
  <1> QED BY <1>1, <1>2, <1>5, <1>6, <1>7 DEF IInv, Streaming, CompleteIsWhole, AbortedIsShort, WindowBounded

\* slice_extent: a slice of the range is not empty.
LEMMA ExtentPositive ==
    ASSUME IInv, Streaming, NEW i \in DOMAIN tasks
    PROVE  ExtentLen(i) \in Nat \ {0}
  <1>1. /\ total \in Totals /\ Inside(wanted, total) /\ i \in Nat /\ i <= Last /\ Last \in Nat
    BY StreamFacts, SMTT(60)
  <1>2. total \in Nat /\ wanted.end \in Nat /\ wanted.end < total /\ Last * SliceSize <= wanted.end
    BY <1>1, Addressable, SliceGeometry DEF Inside, Last
  <1> DEFINE is == i * SliceSize
             ls == Last * SliceSize
  <1>3. is \in Nat /\ ls \in Nat /\ is <= ls
    BY <1>1, MulMono, SizesNat, SMTT(60)
  <1>4. ExtentLen(i) = (IF is + SliceSize - 1 <= SatSub(total, 1) THEN is + SliceSize - 1
                                                                 ELSE SatSub(total, 1)) - is + 1
    BY DEF ExtentLen, RangeLen, SliceExtent, Bytes, Min2
  <1>5. SatSub(total, 1) = total - 1
    BY <1>2, SMTT(60) DEF SatSub
  <1>6. ls <= wanted.end
    BY <1>2
  <1> HIDE DEF is, ls
  <1> QED BY <1>2, <1>3, <1>4, <1>5, <1>6, SizesNat, SMTT(60)

LEMMA SliceDoneIInv ==
    ASSUME IInv, NEW i \in DOMAIN tasks, SliceDone(i)
    PROVE  IInv'
  <1>1. Streaming
    BY DEF IInv
  <1>2. PICK result \in {ExtentLen(i), ExtentLen(i) - 1, Broken} : tasks' = [tasks EXCEPT ![i] = result]
    BY DEF SliceDone
  <1>3. result \in Nat \cup {Broken}
    BY <1>1, ExtentPositive, SMTT(60)
  <1>4. /\ DOMAIN tasks' = DOMAIN tasks
        /\ \A j \in DOMAIN tasks' : tasks'[j] = IF j = i THEN result ELSE tasks[j]
        /\ UNCHANGED <<status, total, spec, ifRange, wanted, spawned, next, sent>>
    BY <1>2 DEF SliceDone
  <1>5. TypeOK'
    BY <1>3, <1>4 DEF IInv, TypeOK, Streaming
  <1> QED BY <1>4, <1>5 DEF IInv, Streaming, StreamInv, Last, CompleteIsWhole, AbortedIsShort, WindowBounded

LEMMA SendFrameIInv == IInv /\ SendFrame => IInv'
  <1> SUFFICES ASSUME IInv, SendFrame PROVE IInv'
    OBVIOUS
  <1>1. Streaming /\ next \in DOMAIN tasks
    BY DEF SendFrame
  <1>2. /\ DOMAIN tasks' = DOMAIN tasks \ {next} /\ next' = next + 1
        /\ sent' = sent + WinTo(next) - WinFrom(next)
        /\ \A i \in DOMAIN tasks' : tasks'[i] = tasks[i]
        /\ UNCHANGED <<status, total, spec, ifRange, wanted, spawned>>
    BY DEF SendFrame
  <1>3. /\ next \in Nat /\ spawned \in Nat /\ sent \in Nat /\ Last \in Nat /\ total \in Totals
        /\ Inside(wanted, total) /\ FirstSlice(wanted, SliceSize) <= next
        /\ spawned <= Last + 1 /\ DOMAIN tasks = next .. spawned - 1
        /\ wanted.start + sent = Reach(wanted, next) /\ wanted.start \in Nat
    BY <1>1, StreamFacts
  <1>4. next <= Last /\ next + 1 <= spawned
    BY <1>1, <1>3, SMTT(60)
  <1>5. /\ WinFrom(next) \in Nat /\ WinTo(next) \in Nat /\ WinFrom(next) <= WinTo(next)
        /\ Reach(wanted, next + 1) = Reach(wanted, next) + WinTo(next) - WinFrom(next)
    BY <1>3, <1>4, WindowTiles DEF WinFrom, WinTo, Last
  <1>6. sent' \in Nat /\ wanted.start + sent' = Reach(wanted, next + 1)
    BY <1>2, <1>3, <1>5, SMTT(60)
  <1>7. DOMAIN tasks' = next' .. spawned' - 1
    BY <1>2, <1>3, <1>4, SMTT(60)
  <1>8. IsFiniteSet(DOMAIN tasks') /\ Cardinality(DOMAIN tasks') <= Readahead
    <2>1. IsFiniteSet(DOMAIN tasks) /\ Cardinality(DOMAIN tasks) \in Nat /\ Cardinality(DOMAIN tasks) <= Readahead
      BY <1>1, StreamFacts
    <2>2. IsFiniteSet(DOMAIN tasks \ {next}) /\
          Cardinality(DOMAIN tasks \ {next}) =
             IF next \in DOMAIN tasks THEN Cardinality(DOMAIN tasks) - 1 ELSE Cardinality(DOMAIN tasks)
      BY <2>1, FS_RemoveElement
    <2> QED BY <1>1, <1>2, <2>1, <2>2, SizesNat, SMTT(60)
  <1>9. TypeOK'
    BY <1>2, <1>3, <1>6, <1>7, SMTT(60) DEF IInv, TypeOK, Streaming
  <1>10. StreamInv'
    <2>1. Inside(wanted', total') /\ wanted' = wanted
      BY <1>2, <1>3
    <2>2. Reach(wanted', next') = wanted'.start + sent'
      BY <1>2, <1>6
    <2>3. FirstSlice(wanted, SliceSize) \in Nat
      BY <1>3, SliceGeometry
    <2> QED BY <1>2, <1>3, <1>4, <2>1, <2>2, <2>3, SMTT(60) DEF StreamInv, Last
  <1> QED BY <1>1, <1>2, <1>8, <1>9, <1>10 DEF IInv, Streaming, CompleteIsWhole, AbortedIsShort, WindowBounded

LEMMA SendErrorIInv == IInv /\ SendError => IInv'
  <1> SUFFICES ASSUME IInv, SendError PROVE IInv'
    OBVIOUS
  <1>1. status' = "aborted" /\ DOMAIN tasks' = {} /\ UNCHANGED <<total, spec, ifRange, wanted, spawned, next, sent>>
    BY DEF SendError
  <1>2. IsFiniteSet(DOMAIN tasks') /\ Cardinality(DOMAIN tasks') = 0
    BY <1>1, FS_EmptySet
  <1>3. TypeOK'
    BY <1>1 DEF IInv, TypeOK, Streaming
  <1>4. Streaming /\ next \in DOMAIN tasks
    BY DEF SendError
  <1>5. /\ total \in Totals /\ Inside(wanted, total) /\ next \in Nat /\ sent \in Nat /\ Last \in Nat
        /\ next <= Last /\ wanted.start + sent = Reach(wanted, next)
    BY <1>4, StreamFacts, SMTT(60)
  <1>6. next * SliceSize <= Last * SliceSize /\ Last * SliceSize <= wanted.end
    BY <1>5, MulMono, SliceGeometry, SizesNat DEF Last
  <1>7. next * SliceSize \in Nat /\ Last * SliceSize \in Nat
    BY <1>5, SizesNat, SMTT(60)
  <1>8. Reach(wanted, next) = Max2(wanted.start, next * SliceSize)
    BY <1>5, SMTT(60) DEF Reach, Last
  <1>9. sent < RangeLen(wanted) /\ wanted.start + sent = Max2(wanted.start, next * SliceSize)
    BY <1>5, <1>6, <1>7, <1>8, SMTT(60) DEF Inside, RangeLen, Max2
  <1>10. AbortedIsShort'
    BY <1>1, <1>9 DEF AbortedIsShort
  <1>11. WindowBounded'
    BY <1>2, SizesNat, SMTT(60) DEF WindowBounded
  <1> QED BY <1>1, <1>2, <1>3, <1>10, <1>11 DEF IInv, Streaming, CompleteIsWhole

LEMMA EndIInv == IInv /\ End => IInv'
  <1> SUFFICES ASSUME IInv, End PROVE IInv'
    OBVIOUS
  <1>1. Streaming /\ next > Last /\ status' = "complete"
        /\ UNCHANGED <<total, spec, ifRange, wanted, spawned, tasks, next, sent>>
    BY DEF End
  <1>2. /\ Inside(wanted, total) /\ total \in Nat /\ next \in Nat /\ spawned \in Nat /\ Last \in Nat /\ sent \in Nat
        /\ spawned <= Last + 1 /\ DOMAIN tasks = next .. spawned - 1
        /\ wanted.start + sent = Reach(wanted, next)
    BY <1>1, StreamFacts, Addressable
  <1>3. DOMAIN tasks = {}
    BY <1>1, <1>2, SMTT(60)
  <1>4. Reach(wanted, next) = wanted.end + 1
    BY <1>1 DEF Reach, Last
  <1>5. CompleteIsWhole'
    BY <1>1, <1>2, <1>4, SMTT(60) DEF CompleteIsWhole, RangeLen, Inside
  <1>6. TypeOK'
    BY <1>1 DEF IInv, TypeOK, Streaming
  <1> QED BY <1>1, <1>3, <1>5, <1>6 DEF IInv, Streaming, AbortedIsShort, WindowBounded

LEMMA StutterIInv == IInv /\ UNCHANGED vars => IInv'
  BY DEF IInv, vars, TypeOK, Streaming, StreamInv, Last, CompleteIsWhole, AbortedIsShort, WindowBounded

\* IInv is an inductive invariant of the response.
THEOREM BodyInvariance == Spec => []IInv
  <1>1. IInv /\ [Next]_vars => IInv'
    <2> SUFFICES ASSUME IInv, [Next]_vars PROVE IInv'
      OBVIOUS
    <2>1. CASE ServeStep
      BY <2>1, RefuseIInv, SendWholeIInv, SendPartIInv DEF ServeStep
    <2>2. CASE StreamStep
      BY <2>2, SpawnIInv, SendFrameIInv, SendErrorIInv, EndIInv DEF StreamStep
    <2>3. CASE \E i \in DOMAIN tasks : SliceDone(i)
      BY <2>3, SliceDoneIInv
    <2>4. CASE UNCHANGED vars
      BY <2>4, StutterIInv
    <2> QED BY <2>1, <2>2, <2>3, <2>4 DEF Next
  <1> QED BY <1>1, InitIInv, PTL DEF Spec

\* proxy/range.rs and the body stream of proxy/server.rs: at every moment the
\* frames sent tile the requested range from its first byte, without gap or
\* overlap, whatever the slice size, the length and the Range header.
THEOREM FramesTileHolds == Spec => []FramesTile
  <1>1. IInv => FramesTile
    BY DEF IInv, StreamInv, FramesTile, Reach, Last
  <1> QED BY <1>1, BodyInvariance, PTL

\* proxy/server.rs, serve: a body that ends without an error has its
\* Content-Length and stays inside the object.
THEOREM CompleteIsWholeHolds == Spec => []CompleteIsWhole
  <1>1. IInv => CompleteIsWhole
    BY DEF IInv
  <1> QED BY <1>1, BodyInvariance, PTL

\* proxy/server.rs, serve: a body that ends in an error stops exactly before the
\* slice that failed, so it is shorter than the Content-Length already sent,
\* whatever the slice size, the range, the window and the order slices arrive in.
THEOREM AbortedIsShortHolds == Spec => []AbortedIsShort
  <1>1. IInv => AbortedIsShort
    BY DEF IInv
  <1> QED BY <1>1, BodyInvariance, PTL

\* Type correctness of the response.
THEOREM BodyTypeCorrect == Spec => []TypeOK
  <1>1. IInv => TypeOK
    BY DEF IInv
  <1> QED BY <1>1, BodyInvariance, PTL
-----------------------------------------------------------------------------
\* The response ends: its stream always has a step to take, and every step leaves less to do.
PendingTasks == {i \in DOMAIN tasks : tasks[i] = Pending}

\* A slice is spawned, fetched and sent.
Work == IF Streaming THEN 2 * (Last + 1 - spawned) + Cardinality(PendingTasks) + (Last + 1 - next) + 1
        ELSE 0

\* The guards of Spawn, of SliceDone, of SendFrame and SendError together, and of End.
NotStuck ==
    Streaming =>
       \/ spawned <= Last /\ Cardinality(DOMAIN tasks) < Readahead
       \/ PendingTasks # {}
       \/ next \in DOMAIN tasks
       \/ next > Last

LEMMA WorkNat ==
    ASSUME IInv
    PROVE  /\ IsFiniteSet(PendingTasks) /\ Cardinality(PendingTasks) \in Nat
           /\ Work \in Nat /\ (Streaming => Work > 0)
  <1>1. IsFiniteSet(PendingTasks)
    <2>1. PendingTasks \subseteq DOMAIN tasks /\ IsFiniteSet(DOMAIN tasks)
      BY DEF PendingTasks, IInv
    <2> QED BY <2>1, FS_Subset
  <1>2. Cardinality(PendingTasks) \in Nat
    BY <1>1, FS_CardinalityType
  <1>3. Streaming => /\ next \in Nat /\ spawned \in Nat /\ Last \in Nat
                     /\ next <= spawned /\ spawned <= Last + 1
    BY StreamFacts
  <1> QED BY <1>1, <1>2, <1>3, SMTT(60) DEF Work

LEMMA NeverStuck == IInv => NotStuck
  <1> SUFFICES ASSUME IInv, Streaming PROVE NotStuck
    BY DEF NotStuck
  <1>1. /\ next \in Nat /\ spawned \in Nat /\ Last \in Nat /\ next <= spawned
        /\ DOMAIN tasks = next .. spawned - 1
    BY StreamFacts
  <1>2. CASE next > Last
    BY <1>2 DEF NotStuck
  <1>3. CASE next < spawned
    BY <1>1, <1>3, SMTT(60) DEF NotStuck
  <1>4. CASE next = spawned /\ next <= Last
    <2>1. DOMAIN tasks = {}
      BY <1>1, <1>4, SMTT(60)
    <2>2. Cardinality(DOMAIN tasks) = 0
      BY <2>1, FS_EmptySet
    <2> QED BY <1>4, <2>2, SizesNat, SMTT(60) DEF NotStuck
  <1> QED BY <1>1, <1>2, <1>3, <1>4, SMTT(60)

LEMMA StepWorks ==
    ASSUME IInv, IInv', Next, Streaming
    PROVE  Work' < Work
  <1> DEFINE c == Cardinality(PendingTasks)
  <1>1. /\ next \in Nat /\ spawned \in Nat /\ Last \in Nat /\ DOMAIN tasks = next .. spawned - 1
        /\ next <= spawned /\ spawned <= Last + 1
    BY StreamFacts
  <1>2. IsFiniteSet(PendingTasks) /\ c \in Nat /\ Work \in Nat /\ Work > 0
    BY WorkNat
  <1>3. Work = 2 * (Last + 1 - spawned) + c + (Last + 1 - next) + 1
    BY DEF Work
  <1>4. (UNCHANGED <<status, wanted>>) =>
           /\ Streaming' /\ Last' = Last
           /\ Work' = 2 * (Last + 1 - spawned') + Cardinality(PendingTasks)' + (Last + 1 - next') + 1
    BY DEF Work, Streaming, Last
  <1>5. CASE Spawn
    <2>1. /\ UNCHANGED <<status, wanted>> /\ spawned' = spawned + 1 /\ next' = next
          /\ tasks' = [i \in DOMAIN tasks \cup {spawned} |-> IF i = spawned THEN Pending ELSE tasks[i]]
      BY <1>5 DEF Spawn
    <2>2. spawned \notin DOMAIN tasks
      BY <1>1, SMTT(60)
    <2>3. PendingTasks' = PendingTasks \cup {spawned} /\ spawned \notin PendingTasks
      BY <2>1, <2>2 DEF PendingTasks
    <2>4. Cardinality(PendingTasks)' = c + 1
      BY <1>2, <2>3, FS_AddElement
    <2> HIDE DEF c
    <2> QED BY <1>1, <1>2, <1>3, <1>4, <2>1, <2>4, SMTT(60)
  <1>6. ASSUME NEW i \in DOMAIN tasks, SliceDone(i) PROVE Work' < Work
    <2>1. PICK result \in {ExtentLen(i), ExtentLen(i) - 1, Broken} : tasks' = [tasks EXCEPT ![i] = result]
      BY <1>6 DEF SliceDone
    <2>2. result # Pending
      BY ExtentPositive, SMTT(60) DEF Pending, Broken
    <2>3. PendingTasks' = PendingTasks \ {i} /\ i \in PendingTasks
      BY <1>6, <2>1, <2>2 DEF PendingTasks, SliceDone
    <2>4. Cardinality(PendingTasks)' = c - 1
      BY <1>2, <2>3, FS_RemoveElement
    <2>5. UNCHANGED <<status, wanted, spawned, next>>
      BY <1>6 DEF SliceDone
    <2> HIDE DEF c
    <2> QED BY <1>1, <1>2, <1>3, <1>4, <2>4, <2>5, SMTT(60)
  <1>7. CASE SendFrame
    <2>1. /\ UNCHANGED <<status, wanted, spawned>> /\ next' = next + 1
          /\ tasks' = [i \in DOMAIN tasks \ {next} |-> tasks[i]]
          /\ next \in DOMAIN tasks /\ tasks[next] >= 0
      BY <1>7 DEF SendFrame
    <2>2. tasks[next] # Pending
      BY <2>1, SMTT(60) DEF Pending
    <2>3. PendingTasks' = PendingTasks
      BY <2>1, <2>2 DEF PendingTasks
    <2>4. Cardinality(PendingTasks)' = c
      BY <2>3
    <2> HIDE DEF c
    <2> QED BY <1>1, <1>2, <1>3, <1>4, <2>1, <2>4, SMTT(60)
  <1>8. CASE SendError \/ End
    <2>1. Work' = 0
      BY <1>8 DEF SendError, End, Work, Streaming
    <2> QED BY <1>2, <2>1, SMTT(60)
  <1>9. CASE ServeStep
    BY <1>9 DEF ServeStep, Refuse, SendWhole, SendPart, Streaming
  <1> QED BY <1>5, <1>6, <1>7, <1>8, <1>9 DEF Next, StreamStep

\* proxy/server.rs: the window never blocks itself.  Whatever the slice size, the window and the
\* order in which slices arrive, a body that streams has a next step, and each step leaves
\* strictly less to do, so that no more than three steps per slice and one more end it.
THEOREM ResponseAdvances ==
    Spec => [](NotStuck /\ Work \in Nat) /\ [][Streaming => Work' < Work]_vars
  <1>1. IInv => NotStuck /\ Work \in Nat
    BY NeverStuck, WorkNat
  <1>2. IInv /\ IInv' /\ [Next]_vars => [Streaming => Work' < Work]_vars
    BY StepWorks
  <1> QED BY <1>1, <1>2, BodyInvariance, PTL DEF Spec
=============================================================================
