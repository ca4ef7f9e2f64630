------------------------- MODULE ObjectCacheProofs -------------------------
(***************************************************************************)
(* The cache of one object, for any number of requests, slices, failures,  *)
(* evictions and clients that go away.                                     *)
(*                                                                         *)
(* First, under every fault, who leads what: each fetch in flight has its  *)
(* leader (Led), each metadata cell being filled its prober (Cells), and a *)
(* slice in the store says of itself what it is.                           *)
(*                                                                         *)
(* Then versions, until the object is purged, due for a touch, caught by a *)
(* crash or changed a second time (Undisturbed): a history of three        *)
(* phases, in which nothing is known (Unlearned), everything stored and    *)
(* planned is of the first version (Original), or a bump has separated the *)
(* two (Superseded).                                                       *)
(***************************************************************************)
EXTENDS ObjectCache, TLAPS

\* The solver's time limit, in seconds.
USE ZenonT(60)

Serving == {"serving", "gone"}
Probing == {"probing", "probed", "storing", "putting"}

Types ==
    /\ origin \in Versions
    /\ index \in Metas
    /\ \A k \in DOMAIN store : store[k].header \in Versions /\ store[k].body \in Versions
    /\ cell \in Requests \cup {NoCell}
    /\ once \in [Requests -> [state : {"empty", "busy", "set"}, meta : Metas]]
    /\ DOMAIN pc = Requests
    /\ span \in [Requests -> SUBSET Slices]
    /\ mycell \in [Requests -> Requests \cup {NoCell}]
    /\ plan \in [Requests -> Metas]
    /\ snap \in [Requests -> Metas]
    /\ DOMAIN task = Requests /\ \A r \in Requests : DOMAIN task[r] = Slices
    /\ got \in [Requests -> [Slices -> 0 .. MaxVersion]]
    /\ old \in [Requests -> [Slices -> Metas]]
    /\ hour \in 0 .. MaxHours

\* A request has what its stage needs, and only a response has slice tasks.
Grounded ==
    /\ \A r \in Requests :
          /\ pc[r] \in Serving \cup {"touch", "touching", "probed", "storing", "putting"} => Known(plan[r])
          /\ pc[r] \in Probing \cup {"cell"} => mycell[r] \in Requests
          /\ once[r].state = "set" => Known(once[r].meta)
    /\ \A r \in Requests, i \in Slices :
          /\ task[r][i] = "answered" => got[r][i] # 0
          /\ task[r][i] # NoTask => pc[r] \in Serving /\ i \in span[r]

GInv == Types /\ Grounded
-----------------------------------------------------------------------------
LEMMA MetaFields ==
    ASSUME NEW m \in Metas
    PROVE  /\ m.ver \in 0 .. MaxVersion /\ m.gen \in Nat /\ m.stale \in BOOLEAN
           /\ m.seen \in 0 .. MaxHours
           /\ Known(m) => m.ver \in Versions
           /\ m.ver \in Versions => Known(m)
  <1>1. m.ver \in 0 .. MaxVersion /\ m.gen \in Nat /\ m.stale \in BOOLEAN /\ m.seen \in 0 .. MaxHours
    BY DEF Metas
  <1> QED
    BY <1>1, BoundsNat, SMTT(60) DEF Known, Versions

LEMMA UnknownMeta == Unknown \in Metas /\ ~Known(Unknown)
  BY BoundsNat, SMTT(60) DEF Metas, Unknown, Known

LEMMA FreshMeta ==
    ASSUME NEW v \in Versions, NEW h \in 0 .. MaxHours
    PROVE  [ver |-> v, gen |-> 0, stale |-> FALSE, seen |-> h] \in Metas
  BY BoundsNat, SMTT(60) DEF Metas, Versions

\* touch changes last_seen only, a probe's answer gets a generation.
LEMMA SeenMeta ==
    ASSUME NEW m \in Metas, NEW h \in 0 .. MaxHours
    PROVE  [m EXCEPT !.seen = h] \in Metas /\ [m EXCEPT !.seen = h].ver = m.ver
  BY DEF Metas

LEMMA GenMeta ==
    ASSUME NEW m \in Metas, NEW g \in Nat
    PROVE  /\ [m EXCEPT !.gen = g] \in Metas
           /\ [m EXCEPT !.gen = g].ver = m.ver /\ [m EXCEPT !.gen = g].stale = m.stale
           /\ [m EXCEPT !.gen = g].gen = g
  BY DEF Metas

\* invalidate marks the entry and raises its generation.
LEMMA BumpMeta ==
    ASSUME NEW m \in Metas
    PROVE  /\ [m EXCEPT !.gen = @ + 1, !.stale = TRUE] \in Metas
           /\ [m EXCEPT !.gen = @ + 1, !.stale = TRUE].ver = m.ver
           /\ [m EXCEPT !.gen = @ + 1, !.stale = TRUE].gen = m.gen + 1
           /\ [m EXCEPT !.gen = @ + 1, !.stale = TRUE].stale = TRUE
  <1> DEFINE n == [m EXCEPT !.gen = @ + 1, !.stale = TRUE]
  <1>1. DOMAIN m = {"ver", "gen", "stale", "seen"} /\ DOMAIN n = DOMAIN m
    BY DEF Metas
  <1>2. n.ver = m.ver /\ n.gen = m.gen + 1 /\ n.seen = m.seen
    BY <1>1
  <1>3. n.stale = TRUE
    BY <1>1
  <1>4. n \in Metas
    <2>1. n.stale \in BOOLEAN
      BY <1>3
    <2>2. n.ver \in 0 .. MaxVersion /\ n.gen \in Nat /\ n.seen \in 0 .. MaxHours
      BY <1>2, MetaFields, SMTT(60)
    <2>3. n = [x \in {"ver", "gen", "stale", "seen"} |-> n[x]]
      BY <1>1
    <2> HIDE DEF n
    <2> QED
      BY <2>1, <2>2, <2>3 DEF Metas
  <1> QED
    BY <1>2, <1>3, <1>4

LEMMA PutIn ==
    ASSUME NEW D, NEW E, NEW C, NEW f \in [D -> [E -> C]], NEW d \in D, NEW e \in E, NEW c \in C
    PROVE  /\ [f EXCEPT ![d][e] = c] \in [D -> [E -> C]]
           /\ \A x \in D, y \in E :
                 [f EXCEPT ![d][e] = c][x][y] = IF x = d /\ y = e THEN c ELSE f[x][y]
  OBVIOUS

LEMMA RequestTypes ==
    ASSUME GInv, NEW r \in Requests,
           Lookup(r) \/ RequestStep(r) \/ DropWaiter(r) \/ DropBody(r)
    PROVE  Types'
  <1> USE DEF GInv, Goto
  <1>0. Unknown \in Metas /\ (\A s \in Spans : s \in SUBSET Slices) /\ {} \in SUBSET Slices
    BY UnknownMeta, SpansType DEF Types
  <1>1. CASE Lookup(r) \/ TouchSkip(r)
    <2>1. span' = span \/ \E s \in SUBSET Slices : span' = [span EXCEPT ![r] = s]
      BY <1>0, <1>1 DEF Lookup, TouchSkip
    <2>2. span' \in [Requests -> SUBSET Slices]
      BY <2>1 DEF Types
    <2>3. plan' = plan \/ plan' = [plan EXCEPT ![r] = index]
      BY <1>1 DEF Lookup, TouchSkip
    <2>4. plan' \in [Requests -> Metas]
      BY <2>3 DEF Types
    <2> QED
      BY <1>1, <2>2, <2>4 DEF Lookup, TouchSkip, Types, taskVars, adminVars
  <1>2. CASE TouchRead(r) \/ TouchWrite(r)
    <2>1. [index EXCEPT !.seen = hour] \in Metas
      BY SeenMeta DEF Types
    <2>2. \E m \in Metas : snap' = [snap EXCEPT ![r] = m]
      BY <1>0, <1>2, <2>1 DEF TouchRead, TouchWrite
    <2>3. snap' \in [Requests -> Metas]
      BY <2>2 DEF Types
    <2>4. index' \in Metas
      BY <1>2, SMTT(60) DEF TouchRead, TouchWrite, Types
    <2> QED
      BY <1>2, <2>3, <2>4 DEF TouchRead, TouchWrite, Types, taskVars, adminVars
  <1>3. CASE JoinCell(r)
    BY <1>3 DEF JoinCell, Types, taskVars, adminVars
  <1>4. CASE CellReady(r)
    <2>1. mycell[r] \in Requests /\ once[mycell[r]].meta \in Metas
      BY <1>4 DEF CellReady, Grounded, Types
    <2> QED
      BY <1>4, <2>1 DEF CellReady, Types, taskVars, adminVars
  <1>5. CASE ProbeStart(r) \/ ProbeFail(r)
    <2>1. mycell[r] \in Requests
      BY <1>5 DEF ProbeStart, ProbeFail, Grounded, Probing
    <2>2. PICK s \in {"empty", "busy"} : once' = [once EXCEPT ![mycell[r]] = [@ EXCEPT !.state = s]]
      BY <1>5 DEF ProbeStart, ProbeFail
    <2>3. once' \in [Requests -> [state : {"empty", "busy", "set"}, meta : Metas]]
      <3>1. [once[mycell[r]] EXCEPT !.state = s] \in [state : {"empty", "busy", "set"}, meta : Metas]
        <4>1. once[mycell[r]] \in [state : {"empty", "busy", "set"}, meta : Metas]
          BY <2>1 DEF Types
        <4> QED
          BY <4>1
      <3> QED
        BY <2>1, <2>2, <3>1 DEF Types
    <2> QED
      BY <1>0, <1>5, <2>3 DEF ProbeStart, ProbeFail, Types, taskVars, adminVars
  <1>6. CASE ProbeFetch(r)
    <2>1. [ver |-> origin, gen |-> 0, stale |-> FALSE, seen |-> hour] \in Metas
      BY FreshMeta DEF Types
    <2> QED
      BY <1>6, <2>1 DEF ProbeFetch, Types, taskVars, adminVars
  <1>7. CASE ProbeRead(r)
    <2>1. index.gen \in Nat /\ [plan[r] EXCEPT !.gen = index.gen] \in Metas
      BY MetaFields, GenMeta DEF Types
    <2>2. plan' = [plan EXCEPT ![r] = [plan[r] EXCEPT !.gen = index.gen]]
      BY <1>7 DEF ProbeRead, Types
    <2> QED
      BY <1>7, <2>1, <2>2, SMTT(60) DEF ProbeRead, Types, taskVars, adminVars
  <1>8. CASE ProbeStore(r)
    <2>1. plan[r].ver \in Versions
      BY <1>8, MetaFields DEF ProbeStore, Grounded, Types
    <2>2. \A k \in DOMAIN store' : store'[k].header \in Versions /\ store'[k].body \in Versions
      BY <1>8, <2>1, SMTT(60) DEF ProbeStore, With, Types
    <2> QED
      BY <1>8, <2>2 DEF ProbeStore, Types, taskVars, adminVars
  <1>9. CASE ProbePut(r)
    <2>1. mycell[r] \in Requests /\ plan[r] \in Metas
      BY <1>9 DEF ProbePut, Grounded, Probing, Types
    <2>2. [state |-> "set", meta |-> plan[r]] \in [state : {"empty", "busy", "set"}, meta : Metas]
      BY <2>1
    <2>3. once' \in [Requests -> [state : {"empty", "busy", "set"}, meta : Metas]]
      BY <1>9, <2>2 DEF ProbePut, Types
    <2> QED
      BY <1>9, <2>1, <2>3 DEF ProbePut, Types, taskVars, adminVars
  <1>10. CASE Finish(r)
    <2>1. got' \in [Requests -> [Slices -> 0 .. MaxVersion]]
      BY <1>10, BoundsNat, SMTT(60) DEF Finish, Types
    <2>2. DOMAIN task' = Requests /\ \A q \in Requests : DOMAIN task'[q] = Slices
      BY <1>10 DEF Finish, Types
    <2> QED
      BY <1>0, <1>10, <2>1, <2>2 DEF Finish, Types, adminVars
  <1>11. CASE DropWaiter(r) \/ DropBody(r)
    BY <1>0, <1>11 DEF DropWaiter, DropBody, Types, taskVars
  <1> QED
    BY <1>1, <1>2, <1>3, <1>4, <1>5, <1>6, <1>7, <1>8, <1>9, <1>10, <1>11
       DEF RequestStep, TouchStep, CellStep, ProbeStep

LEMMA SliceTypes == ASSUME GInv, NEW r \in Requests, NEW i \in Slices, SliceStep(r, i) PROVE Types'
  <1> USE DEF GInv, SetTask, SetTasks
  <1>1. UNCHANGED <<origin, once, pc, span, mycell, plan, snap, hour>>
    BY DEF SliceStep, StartStep, FetchStep, BumpStep, SliceHit, SliceJoin, SliceLead, FetchAnswer,
           FetchMatch, FetchMismatch, FetchFail, Fallback, BumpRead, BumpWrite, Unlink, requestVars,
           adminVars
  <1>2. DOMAIN task' = Requests /\ \A q \in Requests : DOMAIN task'[q] = Slices
    BY DEF SliceStep, StartStep, FetchStep, BumpStep, SliceHit, SliceJoin, SliceLead, FetchAnswer,
           FetchMatch, FetchMismatch, FetchFail, Fallback, BumpRead, BumpWrite, Unlink, StoreSlice,
           Types
  <1>3. /\ task[r][i] = "answered" => got[r][i] \in Versions
        /\ plan[r] \in Metas /\ (task[r][i] # NoTask => plan[r].ver \in Versions)
    <2>1. got[r][i] \in 0 .. MaxVersion /\ plan[r] \in Metas
      BY SMTT(60) DEF Types
    <2> QED
      BY <2>1, MetaFields, BoundsNat, SMTT(60) DEF Grounded, Versions
  <1>a. Versions \subseteq 0 .. MaxVersion /\ 0 \in 0 .. MaxVersion
    BY BoundsNat, SMTT(60) DEF Versions
  <1>4. CASE SliceHit(r, i) \/ Fallback(r, i)
    <2>1. got' = got \/ \E v \in 0 .. MaxVersion : got' = [got EXCEPT ![r][i] = v]
      BY <1>4, <1>a DEF SliceHit, Fallback, Types
    <2>2. got' \in [Requests -> [Slices -> 0 .. MaxVersion]]
      <3>1. CASE got' = got
        BY <3>1 DEF Types
      <3>2. CASE \E v \in 0 .. MaxVersion : got' = [got EXCEPT ![r][i] = v]
        BY <3>2, PutIn, SMTT(60) DEF Types
      <3> QED
        BY <2>1, <3>1, <3>2
    <2> QED
      BY <1>1, <1>2, <1>4, <2>2 DEF SliceHit, Fallback, Types
  <1>5. CASE SliceJoin(r, i) \/ SliceLead(r, i) \/ FetchFail(r, i)
    BY <1>1, <1>2, <1>5 DEF SliceJoin, SliceLead, FetchFail, Types
  <1>6. CASE FetchAnswer(r, i) \/ FetchMismatch(r, i)
    <2>1. \E v \in 0 .. MaxVersion : got' = [got EXCEPT ![r][i] = v]
      BY <1>6, <1>a DEF FetchAnswer, FetchMismatch, Types
    <2>2. got' \in [Requests -> [Slices -> 0 .. MaxVersion]]
      BY <2>1, PutIn, SMTT(60) DEF Types
    <2> QED
      BY <1>1, <1>2, <1>6, <2>2 DEF FetchAnswer, FetchMismatch, Types
  <1>7. CASE FetchMatch(r, i)
    <2>1. got' \in [Requests -> [Slices -> 0 .. MaxVersion]]
      <3>1. /\ got \in [Requests -> [Slices -> 0 .. MaxVersion]]
            /\ got' = [q \in Requests |-> [j \in Slices |->
                         IF <<q, j>> \in Waiting(r, i) \cup {<<r, i>>} THEN got[r][i] ELSE got[q][j]]]
        BY <1>7 DEF FetchMatch, StoreSlice, Types
      <3> QED
        BY <3>1
    <2>2. \A k \in DOMAIN store' : store'[k].header \in Versions /\ store'[k].body \in Versions
      BY <1>3, <1>7 DEF FetchMatch, StoreSlice, With, Types, NoTask
    <2> QED
      BY <1>1, <1>2, <1>7, <2>1, <2>2 DEF FetchMatch, Types
  <1>8. CASE BumpRead(r, i) \/ Unlink(r, i)
    <2>1. \E m \in Metas : old' = [old EXCEPT ![r][i] = m]
      BY <1>8, UnknownMeta DEF BumpRead, Unlink, Types
    <2>2. old' \in [Requests -> [Slices -> Metas]]
      BY <2>1, PutIn, SMTT(60) DEF Types
    <2> QED
      BY <1>1, <1>2, <1>8, <2>2 DEF BumpRead, Unlink, Types
  <1>9. CASE BumpWrite(r, i)
    <2>1. index' \in Metas
      <3>1. old[r][i] \in Metas /\ index' = [old[r][i] EXCEPT !.gen = @ + 1, !.stale = TRUE]
        BY <1>9 DEF BumpWrite, Types
      <3> QED
        BY <3>1, BumpMeta
    <2> QED
      BY <1>1, <1>2, <1>9, <2>1 DEF BumpWrite, Types
  <1> QED
    BY <1>4, <1>5, <1>6, <1>7, <1>8, <1>9 DEF SliceStep, StartStep, FetchStep, BumpStep

World ==
    \/ OriginChange
    \/ HourPasses
    \/ \E k \in DOMAIN store : Evict(k)
    \/ Restart
    \/ PurgeSlices
    \/ PurgeIndex

LEMMA WorldTypes == ASSUME GInv, World PROVE Types'
  <1> USE DEF GInv
  <1>0. Unknown \in Metas
    BY UnknownMeta
  <1>1. CASE OriginChange \/ HourPasses
    BY <1>1, BoundsNat, SMTT(60) DEF OriginChange, HourPasses, Types, Versions, requestVars, taskVars, adminVars
  <1>2. CASE (\E k \in DOMAIN store : Evict(k)) \/ PurgeSlices \/ PurgeIndex
    BY <1>0, <1>2 DEF Evict, PurgeSlices, PurgeIndex, Without, Types, requestVars, taskVars, adminVars
  <1>3. CASE Restart
    <2>1. once' \in [Requests -> [state : {"empty", "busy", "set"}, meta : Metas]]
      BY <1>0, <1>3 DEF Restart
    <2>2. got' \in [Requests -> [Slices -> 0 .. MaxVersion]]
      BY <1>3, BoundsNat, SMTT(60) DEF Restart
    <2> QED
      BY <1>0, <1>3, <2>1, <2>2 DEF Restart, Types
  <1> QED
    BY <1>1, <1>2, <1>3 DEF World

LEMMA RequestGrounded ==
    ASSUME GInv, NEW r \in Requests,
           Lookup(r) \/ RequestStep(r) \/ DropWaiter(r) \/ DropBody(r)
    PROVE  Grounded'
  <1> USE DEF GInv, Goto, NoTask
  <1>0. ASSUME NEW p, pc' = [pc EXCEPT ![r] = p],
               \A q \in Requests \ {r} : plan'[q] = plan[q] /\ mycell'[q] = mycell[q],
               p \in Serving \cup {"touch", "touching", "probed", "storing", "putting"} => Known(plan'[r]),
               p \in Probing \cup {"cell"} => mycell'[r] \in Requests,
               \A q \in Requests : once'[q].state = "set" => Known(once'[q].meta),
               UNCHANGED <<task, got>>,
               \A q \in Requests \ {r} : span'[q] = span[q],
               pc[r] \in Serving => p \in Serving /\ span'[r] = span[r]
        PROVE  Grounded'
    <2>1. pc'[r] = p /\ \A q \in Requests \ {r} : pc'[q] = pc[q]
      BY <1>0 DEF Types
    <2> QED
      BY <1>0, <2>1, SMTT(60) DEF Grounded
  <1>1. CASE Lookup(r)
    <2>1. \E p \in {"touch", "miss"} :
             /\ pc' = [pc EXCEPT ![r] = p]
             /\ p = "touch" => Known(index) /\ plan' = [plan EXCEPT ![r] = index]
             /\ p = "miss" => plan' = plan
      BY <1>1 DEF Lookup
    <2>2. pc[r] = "idle" /\ UNCHANGED <<task, got, once, mycell>>
          /\ \E s : span' = [span EXCEPT ![r] = s]
      BY <1>1 DEF Lookup, taskVars
    <2> QED
      BY <1>0, <2>1, <2>2 DEF Grounded, Types, Serving, Probing
  <1>2. CASE TouchSkip(r) \/ TouchRead(r) \/ TouchWrite(r) \/ DropBody(r)
    <2>1. \E p \in Serving \cup {"touching"} : pc' = [pc EXCEPT ![r] = p] /\ (pc[r] \in Serving => p \in Serving)
      BY <1>2 DEF TouchSkip, TouchRead, TouchWrite, DropBody, Serving
    <2>2. UNCHANGED <<task, got, once, plan, mycell, span>>
          /\ pc[r] \in {"touch", "touching", "serving"}
      BY <1>2 DEF TouchSkip, TouchRead, TouchWrite, DropBody, taskVars
    <2> QED
      BY <1>0, <2>1, <2>2 DEF Grounded, Serving, Probing
  <1>3. CASE JoinCell(r)
    <2>1. mycell'[r] \in Requests /\ \A q \in Requests \ {r} : mycell'[q] = mycell[q]
      BY <1>3 DEF JoinCell, Types
    <2>2. pc[r] = "miss" /\ pc' = [pc EXCEPT ![r] = "cell"] /\ UNCHANGED <<task, got, once, plan, span>>
      BY <1>3 DEF JoinCell, taskVars
    <2> QED
      BY <1>0, <2>1, <2>2 DEF Grounded, Serving, Probing
  <1>4. CASE CellReady(r)
    <2>1. mycell[r] \in Requests /\ once[mycell[r]].state = "set"
      BY <1>4 DEF CellReady, Grounded
    <2>2. Known(plan'[r]) /\ \A q \in Requests \ {r} : plan'[q] = plan[q] /\ mycell'[q] = mycell[q]
      BY <1>4, <2>1 DEF CellReady, Grounded, Types
    <2>3. pc[r] = "cell" /\ pc' = [pc EXCEPT ![r] = "serving"] /\ UNCHANGED <<task, got, once, span>>
      BY <1>4 DEF CellReady, taskVars
    <2> QED
      BY <1>0, <2>2, <2>3 DEF Grounded, Serving, Probing
  <1>5. CASE ProbeStart(r) \/ ProbeFail(r)
    <2>1. mycell[r] \in Requests
      BY <1>5 DEF ProbeStart, ProbeFail, Grounded, Probing
    <2>2. PICK s \in {"empty", "busy"} : once' = [once EXCEPT ![mycell[r]] = [@ EXCEPT !.state = s]]
      BY <1>5 DEF ProbeStart, ProbeFail
    <2>3. \A q \in Requests : once'[q].state = "set" => Known(once'[q].meta)
      <3>1. /\ \A q \in Requests \ {mycell[r]} : once'[q] = once[q]
            /\ once'[mycell[r]] = [once[mycell[r]] EXCEPT !.state = s]
        BY <2>1, <2>2 DEF Types
      <3>2. "state" \in DOMAIN once[mycell[r]]
        BY <2>1, SMTT(60) DEF Types
      <3>3. once'[mycell[r]].state = s
        BY <3>1, <3>2
      <3> QED
        BY <3>1, <3>3 DEF Grounded
    <2>4. UNCHANGED <<task, got, plan>> /\ pc[r] \notin Serving
          /\ \E p \in {"probing", "ended"} :
                pc' = [pc EXCEPT ![r] = p] /\ (p = "probing" => mycell' = mycell)
      BY <1>5 DEF ProbeStart, ProbeFail, taskVars, Serving
    <2>5. \A q \in Requests \ {r} : mycell'[q] = mycell[q] /\ span'[q] = span[q]
      BY <1>5 DEF ProbeStart, ProbeFail, Types
    <2> QED
      BY <1>0, <2>1, <2>3, <2>4, <2>5 DEF Serving, Probing
  <1>6. CASE ProbeFetch(r) \/ ProbeRead(r) \/ ProbeStore(r)
    <2>1. /\ UNCHANGED <<task, got, once, mycell, span>>
          /\ pc[r] \in Probing
          /\ \E p \in {"probed", "storing", "putting"} : pc' = [pc EXCEPT ![r] = p]
      BY <1>6 DEF ProbeFetch, ProbeRead, ProbeStore, taskVars, Probing
    <2>2. Known(plan'[r]) /\ \A q \in Requests \ {r} : plan'[q] = plan[q]
      <3>1. CASE ProbeFetch(r)
        BY <3>1, BoundsNat, SMTT(60) DEF ProbeFetch, Types, Known, Versions
      <3>2. CASE ProbeRead(r)
        <4>1. plan' = [plan EXCEPT ![r] = [plan[r] EXCEPT !.gen = index.gen]] /\ Known(plan[r])
          BY <3>2 DEF ProbeRead, Grounded
        <4> QED
          BY <4>1, GenMeta, MetaFields, SMTT(60) DEF Types, Known
      <3>3. CASE ProbeStore(r)
        BY <3>3 DEF ProbeStore, Grounded
      <3> QED
        BY <1>6, <3>1, <3>2, <3>3
    <2> QED
      BY <1>0, <2>1, <2>2 DEF Grounded, Serving, Probing
  <1>7. CASE ProbePut(r)
    <2>1. mycell[r] \in Requests /\ Known(plan[r])
      BY <1>7 DEF ProbePut, Grounded, Probing
    <2>2. \A q \in Requests : once'[q].state = "set" => Known(once'[q].meta)
      BY <1>7, <2>1 DEF ProbePut, Types, Grounded
    <2>3. pc[r] = "putting" /\ pc' = [pc EXCEPT ![r] = "serving"] /\ UNCHANGED <<task, got, plan, span>>
          /\ \A q \in Requests \ {r} : mycell'[q] = mycell[q]
      BY <1>7 DEF ProbePut, taskVars, Types
    <2> QED
      BY <1>0, <2>1, <2>2, <2>3 DEF Serving, Probing
  <1>8. CASE Finish(r)
    <2>1. /\ pc'[r] = "ended" /\ \A i \in Slices : task'[r][i] = NoTask
          /\ \A q \in Requests \ {r} : /\ pc'[q] = pc[q] /\ plan'[q] = plan[q] /\ span'[q] = span[q]
                                       /\ task'[q] = task[q] /\ got'[q] = got[q]
          /\ UNCHANGED <<once, mycell>>
      BY <1>8 DEF Finish, Types
    <2> QED
      BY <2>1, SMTT(60) DEF Grounded, Serving, Probing
  <1>9. CASE DropWaiter(r)
    <2>1. /\ pc[r] = "cell" /\ pc' = [pc EXCEPT ![r] = "ended"] /\ UNCHANGED <<task, got, once, plan>>
          /\ \A q \in Requests \ {r} : mycell'[q] = mycell[q] /\ span'[q] = span[q]
      BY <1>9 DEF DropWaiter, taskVars, Types
    <2> QED
      BY <1>0, <2>1 DEF Grounded, Serving, Probing
  <1> QED
    BY <1>1, <1>2, <1>3, <1>4, <1>5, <1>6, <1>7, <1>8, <1>9
       DEF RequestStep, TouchStep, CellStep, ProbeStep

\* The steps of a slice task that end a fetch: the leader and all that wait for it move on.
Landing(r, i) == FetchMatch(r, i) \/ FetchMismatch(r, i) \/ FetchFail(r, i)

Waits(q, j, r, i) == task[q][j] = "waiting" /\ Key(q, j) = Key(r, i)

LEMMA LandingEffect ==
    ASSUME GInv, NEW r \in Requests, NEW i \in Slices, Landing(r, i)
    PROVE  /\ UNCHANGED <<requestVars, once, index, origin, old, cell>>
           /\ flight' = Without(flight, {Key(r, i)})
           /\ task[r][i] \in {"fetching", "answered"}
           /\ task'[r][i] \in {"ok", "mismatch", "fallback", "failed"}
           /\ \A q \in Requests, j \in Slices :
                 (q # r \/ j # i) /\ ~Waits(q, j, r, i) =>
                    task'[q][j] = task[q][j] /\ got'[q][j] = got[q][j]
           /\ \A q \in Requests, j \in Slices :
                 Waits(q, j, r, i) => task'[q][j] \in {"ok", "fallback", "failed"}
  <1> USE DEF Landing, GInv, SetTasks
  <1>1. /\ UNCHANGED <<requestVars, once, index, origin, old, cell>>
        /\ flight' = Without(flight, {Key(r, i)})
        /\ task[r][i] \in {"fetching", "answered"}
    BY DEF FetchMatch, FetchMismatch, FetchFail, StoreSlice
  <1>2. /\ \A q \in Requests, j \in Slices :
              /\ <<q, j>> \in Waiting(r, i) <=> Waits(q, j, r, i)
              /\ <<q, j>> = <<r, i>> <=> q = r /\ j = i
        /\ ~Waits(r, i, r, i)
    BY <1>1 DEF Waiting, Waits, Tasks
  <1>3. CASE FetchMatch(r, i)
    <2>1. /\ \A q \in Requests, j \in Slices :
                 task'[q][j] = IF Waits(q, j, r, i) \/ (q = r /\ j = i) THEN "ok" ELSE task[q][j]
          /\ \A q \in Requests, j \in Slices :
                 (q # r \/ j # i) /\ ~Waits(q, j, r, i) => got'[q][j] = got[q][j]
      BY <1>2, <1>3 DEF FetchMatch, StoreSlice
    <2> QED
      BY <1>1, <2>1
  <1>4. CASE FetchMismatch(r, i)
    <2>1. \A q \in Requests, j \in Slices :
             task'[q][j] = IF q = r /\ j = i THEN "mismatch"
                           ELSE IF Waits(q, j, r, i) THEN "failed" ELSE task[q][j]
      BY <1>2, <1>4 DEF FetchMismatch
    <2>2. \A q \in Requests, j \in Slices : (q # r \/ j # i) => got'[q][j] = got[q][j]
      BY <1>4 DEF FetchMismatch, Types
    <2> QED
      BY <1>1, <1>2, <2>1, <2>2
  <1>5. CASE FetchFail(r, i)
    <2>1. PICK error \in Errors :
             task' = [q \in Requests |-> [j \in Slices |->
                        IF <<q, j>> \in Waiting(r, i) \cup {<<r, i>>} THEN AfterError(error) ELSE task[q][j]]]
      BY <1>5 DEF FetchFail
    <2>2. AfterError(error) \in {"fallback", "failed"} /\ got' = got
      BY <1>5 DEF AfterError, FetchFail
    <2>3. \A q \in Requests, j \in Slices :
             task'[q][j] = IF Waits(q, j, r, i) \/ (q = r /\ j = i) THEN AfterError(error) ELSE task[q][j]
      BY <1>2, <2>1
    <2> QED
      BY <1>1, <2>2, <2>3
  <1> QED
    BY <1>3, <1>4, <1>5

\* The other steps of a slice task move that task only.
Alone(r, i) ==
    \/ StartStep(r, i) \/ FetchAnswer(r, i) \/ Fallback(r, i) \/ BumpStep(r, i)

LEMMA AloneFrame ==
    ASSUME GInv, NEW r \in Requests, NEW i \in Slices, Alone(r, i)
    PROVE  /\ UNCHANGED <<requestVars, once, origin, store>>
           /\ pc[r] \in Serving /\ i \in span[r]
           /\ \A q \in Requests, j \in Slices :
                 (q # r \/ j # i) => task'[q][j] = task[q][j] /\ got'[q][j] = got[q][j]
  <1> USE DEF GInv
  <1>1. UNCHANGED <<requestVars, once, origin, store>>
    BY DEF Alone, StartStep, BumpStep, SliceHit, SliceJoin, SliceLead, FetchAnswer, Fallback, BumpRead,
           BumpWrite, Unlink
  <1>2. \E s : task' = [task EXCEPT ![r][i] = s]
    BY DEF Alone, StartStep, BumpStep, SliceHit, SliceJoin, SliceLead, FetchAnswer, Fallback, BumpRead,
           BumpWrite, Unlink, SetTask
  <1>3. \A q \in Requests, j \in Slices : (q # r \/ j # i) => task'[q][j] = task[q][j]
    BY <1>2, SMTT(60) DEF Types
  <1>4. got' = got \/ \E v : got' = [got EXCEPT ![r][i] = v]
    BY DEF Alone, StartStep, BumpStep, SliceHit, SliceJoin, SliceLead, FetchAnswer, Fallback, BumpRead,
           BumpWrite, Unlink
  <1>5. \A q \in Requests, j \in Slices : (q # r \/ j # i) => got'[q][j] = got[q][j]
    BY <1>4, SMTT(60) DEF Types
  <1>6. task[r][i] # NoTask \/ MayStart(r, i)
    BY DEF Alone, StartStep, BumpStep, SliceHit, SliceJoin, SliceLead, FetchAnswer, Fallback, BumpRead,
           BumpWrite, Unlink, NoTask
  <1>7. pc[r] \in Serving /\ i \in span[r]
    BY <1>6 DEF MayStart, Grounded, Serving
  <1> QED
    BY <1>1, <1>3, <1>5, <1>7

LEMMA AloneMove ==
    ASSUME GInv, NEW r \in Requests, NEW i \in Slices, Alone(r, i)
    PROVE  \/ /\ flight' = With(flight, Key(r, i), <<r, i>>) /\ Key(r, i) \notin DOMAIN flight
              /\ task[r][i] = NoTask /\ task'[r][i] = "fetching"
           \/ /\ flight' = flight
              /\ \/ /\ Key(r, i) \in DOMAIN flight
                    /\ task[r][i] = NoTask /\ task'[r][i] = "waiting"
                 \/ task[r][i] = "fetching" /\ task'[r][i] = "answered" /\ got'[r][i] = origin
                 \/ task[r][i] = NoTask /\ task'[r][i] = "ok"
                 \/ task[r][i] = "fallback" /\ task'[r][i] \in {"ok", "failed"}
                 \/ task[r][i] = "mismatch" /\ task'[r][i] \in {"bumping", "unlink"}
                 \/ task[r][i] = "bumping" /\ task'[r][i] = "unlink"
                 \/ task[r][i] = "unlink" /\ task'[r][i] = "failed"
  <1> USE DEF GInv
  <1>1. CASE StartStep(r, i)
    BY <1>1, SMTT(60) DEF StartStep, SliceHit, SliceJoin, SliceLead, MayStart, SetTask, Types
  <1>2. CASE FetchAnswer(r, i)
    BY <1>2 DEF FetchAnswer, SetTask, Types
  <1>3. CASE Fallback(r, i) \/ BumpStep(r, i)
    <2>1. flight' = flight
      BY <1>3 DEF Fallback, BumpStep, BumpRead, BumpWrite, Unlink
    <2>2. \/ task[r][i] = "fallback" /\ task'[r][i] \in {"ok", "failed"}
          \/ task[r][i] = "mismatch" /\ task'[r][i] \in {"bumping", "unlink"}
          \/ task[r][i] = "bumping" /\ task'[r][i] = "unlink"
          \/ task[r][i] = "unlink" /\ task'[r][i] = "failed"
      BY <1>3, SMTT(60) DEF Fallback, BumpStep, BumpRead, BumpWrite, Unlink, SetTask, Types
    <2> QED
      BY <2>1, <2>2
  <1> QED
    BY <1>1, <1>2, <1>3 DEF Alone

LEMMA SliceGrounded == ASSUME GInv, NEW r \in Requests, NEW i \in Slices, SliceStep(r, i) PROVE Grounded'
  <1> USE DEF GInv, NoTask
  <1>1. CASE Landing(r, i)
    <2>1. UNCHANGED <<pc, span, plan, mycell, once>>
      BY <1>1, LandingEffect DEF requestVars
    <2>2. task[r][i] \in {"fetching", "answered"} /\ task'[r][i] \in {"ok", "mismatch", "fallback", "failed"}
      BY <1>1, LandingEffect
    <2>4. \A q \in Requests, j \in Slices :
             \/ q = r /\ j = i
             \/ task'[q][j] = task[q][j] /\ got'[q][j] = got[q][j]
             \/ task[q][j] = "waiting" /\ task'[q][j] \in {"ok", "fallback", "failed"}
      <3>1. /\ \A q \in Requests, j \in Slices :
                  (q # r \/ j # i) /\ ~Waits(q, j, r, i) =>
                     task'[q][j] = task[q][j] /\ got'[q][j] = got[q][j]
            /\ \A q \in Requests, j \in Slices :
                  Waits(q, j, r, i) => task'[q][j] \in {"ok", "fallback", "failed"}
        BY <1>1, LandingEffect
      <3> QED
        BY <3>1 DEF Waits
    <2> QED
      BY <2>1, <2>2, <2>4, SMTT(60) DEF Grounded
  <1>2. CASE Alone(r, i)
    <2>1. UNCHANGED <<pc, span, plan, mycell, once>>
      BY <1>2, AloneFrame DEF requestVars
    <2>2. pc[r] \in Serving /\ i \in span[r]
      BY <1>2, AloneFrame
    <2>3. task'[r][i] = "answered" => got'[r][i] = origin
      BY <1>2, AloneMove
    <2>4. \A q \in Requests, j \in Slices :
             (q # r \/ j # i) => task'[q][j] = task[q][j] /\ got'[q][j] = got[q][j]
      BY <1>2, AloneFrame
    <2>5. origin # 0
      BY BoundsNat, SMTT(60) DEF Types, Versions
    <2>6. ASSUME NEW q \in Requests, NEW j \in Slices
          PROVE  /\ task'[q][j] = "answered" => got'[q][j] # 0
                 /\ task'[q][j] # NoTask => pc[q] \in Serving /\ j \in span[q]
      <3>1. CASE q = r /\ j = i
        BY <2>2, <2>3, <2>5, <3>1
      <3>2. CASE q # r \/ j # i
        <4>1. task'[q][j] = task[q][j] /\ got'[q][j] = got[q][j]
          BY <2>4, <3>2
        <4> QED
          <5>1. /\ task[q][j] = "answered" => got[q][j] # 0
                /\ task[q][j] # NoTask => pc[q] \in Serving /\ j \in span[q]
            BY DEF Grounded
          <5> QED
            BY <4>1, <5>1
      <3> QED
        BY <3>1, <3>2
    <2> QED
      BY <2>1, <2>6 DEF Grounded
  <1> QED
    BY <1>1, <1>2 DEF SliceStep, FetchStep, Landing, Alone

LEMMA WorldGrounded == ASSUME GInv, World PROVE Grounded'
  <1> USE DEF GInv
  <1>1. CASE Restart
    <2>1. \A r \in Requests : pc'[r] \in {"idle", "ended"} /\ once'[r].state = "empty"
      BY <1>1 DEF Restart
    <2>2. \A r \in Requests, i \in Slices : task'[r][i] = NoTask /\ NoTask # "answered"
      BY <1>1 DEF Restart, NoTask
    <2> QED
      BY <2>1, <2>2 DEF Grounded, Serving, Probing
  <1>2. CASE ~Restart
    <2>1. UNCHANGED <<pc, span, plan, mycell, once, task, got>>
      BY <1>2 DEF World, OriginChange, HourPasses, Evict, PurgeSlices, PurgeIndex, requestVars, taskVars
    <2> QED
      BY <2>1 DEF Grounded
  <1> QED
    BY <1>1, <1>2

LEMMA InitGrounded == Init => GInv
  <1> SUFFICES ASSUME Init PROVE GInv
    OBVIOUS
  <1>1. 1 \in Versions /\ 0 \in 0 .. MaxVersion /\ 0 \in 0 .. MaxHours
    BY BoundsNat, SMTT(60) DEF Versions
  <1>2. once \in [Requests -> [state : {"empty", "busy", "set"}, meta : Metas]]
    BY UnknownMeta DEF Init
  <1>3. Types
    BY <1>1, <1>2, UnknownMeta DEF Init, Types
  <1>4. \A r \in Requests : pc[r] = "idle" /\ once[r].state = "empty"
    BY DEF Init
  <1>5. \A r \in Requests, i \in Slices : task[r][i] = NoTask /\ NoTask # "answered"
    BY DEF Init, NoTask
  <1> QED
    BY <1>3, <1>4, <1>5 DEF GInv, Grounded, Serving, Probing

LEMMA NextGrounded == GInv /\ [Next]_vars => GInv'
  <1> SUFFICES ASSUME GInv, [Next]_vars PROVE GInv'
    OBVIOUS
  <1>1. CASE UNCHANGED vars
    BY <1>1 DEF vars, requestVars, taskVars, adminVars, GInv, Types, Grounded
  <1> QED
    BY <1>1, RequestTypes, RequestGrounded, SliceTypes, SliceGrounded, WorldTypes, WorldGrounded
       DEF Next, World, GInv
-----------------------------------------------------------------------------
\* The leader of a fetch is the task it is registered for: this is what FlightsAreLed lacks
\* to be inductive, for two leaders of one key would leave the first's waiters behind.
Led ==
    /\ \A k \in DOMAIN flight :
          \E q \in Requests, j \in Slices :
             flight[k] = <<q, j>> /\ Key(q, j) = k /\ task[q][j] \in {"fetching", "answered"}
    /\ \A q \in Requests, j \in Slices : task[q][j] = "waiting" => Key(q, j) \in DOMAIN flight
    /\ \A q \in Requests, j \in Slices :
          task[q][j] \in {"fetching", "answered"} =>
             Key(q, j) \in DOMAIN flight /\ flight[Key(q, j)] = <<q, j>>

Active == {"waiting", "fetching", "answered"}

\* A step that moves no task and changes the plan of no response.
LEMMA LedQuiet ==
    ASSUME GInv, Led, flight' = flight,
           \A q \in Requests, j \in Slices :
              \/ task'[q][j] = task[q][j] /\ (pc[q] \in Serving => plan'[q] = plan[q])
              \/ task[q][j] \notin Active /\ task'[q][j] \notin Active
    PROVE  Led'
  <1>1. ASSUME NEW q \in Requests, NEW j \in Slices, task[q][j] \in Active \/ task'[q][j] \in Active
        PROVE  task'[q][j] = task[q][j] /\ Key(q, j)' = Key(q, j)
    BY <1>1 DEF GInv, Grounded, Key, Active, NoTask
  <1> QED
    BY <1>1, SMTT(60) DEF Led, Active

LEMMA LedRequest ==
    ASSUME GInv, Led, NEW r \in Requests,
           Lookup(r) \/ RequestStep(r) \/ DropWaiter(r) \/ DropBody(r)
    PROVE  Led'
  <1> USE DEF GInv
  <1>1. CASE Finish(r)
    <2>1. \A j \in Slices : task[r][j] \notin Active /\ task'[r][j] \notin Active
      BY <1>1 DEF Finish, Settled, Grounded, Active, NoTask, Types
    <2>2. flight' = flight /\ \A q \in Requests \ {r} : task'[q] = task[q] /\ plan'[q] = plan[q]
      BY <1>1 DEF Finish, Types
    <2> QED
      BY <2>1, <2>2, LedQuiet
  <1>2. CASE ~Finish(r)
    <2>1. flight' = flight /\ task' = task
      BY <1>2 DEF RequestStep, TouchStep, CellStep, ProbeStep, Lookup, TouchSkip, TouchRead, TouchWrite,
             JoinCell, CellReady, ProbeStart, ProbeFetch, ProbeFail, ProbeRead, ProbeStore, ProbePut,
             DropWaiter, DropBody, taskVars
    <2>2. plan' = plan \/ (pc[r] \notin Serving /\ \E m : plan' = [plan EXCEPT ![r] = m])
      BY <1>2 DEF RequestStep, TouchStep, CellStep, ProbeStep, Lookup, TouchSkip, TouchRead, TouchWrite,
             JoinCell, CellReady, ProbeStart, ProbeFetch, ProbeFail, ProbeRead, ProbeStore, ProbePut,
             DropWaiter, DropBody, Serving
    <2>3. \A q \in Requests : pc[q] \in Serving => plan'[q] = plan[q]
      BY <2>2 DEF Types
    <2> QED
      BY <2>1, <2>3, LedQuiet
  <1> QED
    BY <1>1, <1>2

LEMMA LedSlice ==
    ASSUME GInv, Led, NEW r \in Requests, NEW i \in Slices, SliceStep(r, i)
    PROVE  Led'
  <1>1. \A q \in Requests, j \in Slices : Key(q, j)' = Key(q, j)
    BY LandingEffect, AloneFrame DEF SliceStep, FetchStep, Landing, Alone, requestVars, Key
  <1>2. CASE Landing(r, i)
    <2>1. task[r][i] \in {"fetching", "answered"} /\ task'[r][i] \notin Active
      BY <1>2, LandingEffect DEF Active
    <2>2. /\ DOMAIN flight' = DOMAIN flight \ {Key(r, i)}
          /\ \A k \in DOMAIN flight' : flight'[k] = flight[k]
      BY <1>2, LandingEffect, SMTT(60) DEF Without
    <2>a. /\ \A q \in Requests, j \in Slices :
                (q # r \/ j # i) /\ ~Waits(q, j, r, i) =>
                   task'[q][j] = task[q][j] /\ got'[q][j] = got[q][j]
          /\ \A q \in Requests, j \in Slices :
                Waits(q, j, r, i) => task'[q][j] \in {"ok", "fallback", "failed"}
      BY <1>2, LandingEffect
    <2>3. \A q \in Requests, j \in Slices :
             (q # r \/ j # i) /\ ~Waits(q, j, r, i) => task'[q][j] = task[q][j]
      BY <2>a
    <2>4. \A q \in Requests, j \in Slices : Waits(q, j, r, i) => task'[q][j] \notin Active
      BY <2>a DEF Active
    <2>5. flight[Key(r, i)] = <<r, i>>
      BY <2>1 DEF Led
    <2>6. ASSUME NEW q \in Requests, NEW j \in Slices, task'[q][j] \in Active
          PROVE  task[q][j] = task'[q][j] /\ Key(q, j) # Key(r, i)
      <3>1. (q # r \/ j # i) /\ ~Waits(q, j, r, i) /\ task[q][j] = task'[q][j]
        BY <2>1, <2>3, <2>4, <2>6
      <3>2. CASE task[q][j] = "waiting"
        BY <3>1, <3>2 DEF Waits
      <3>3. CASE task[q][j] \in {"fetching", "answered"}
        BY <2>5, <3>1, <3>3, SMTT(60) DEF Led
      <3> QED
        BY <2>6, <3>1, <3>2, <3>3 DEF Active
    <2>7. ASSUME NEW k \in DOMAIN flight'
          PROVE  \E q \in Requests, j \in Slices :
                    flight'[k] = <<q, j>> /\ Key(q, j) = k /\ task'[q][j] \in {"fetching", "answered"}
      <3>1. PICK q \in Requests, j \in Slices :
               flight[k] = <<q, j>> /\ Key(q, j) = k /\ task[q][j] \in {"fetching", "answered"}
        BY <2>2 DEF Led
      <3>2. (q # r \/ j # i) /\ ~Waits(q, j, r, i)
        BY <2>2, <3>1 DEF Waits
      <3> QED
        BY <2>2, <2>3, <3>1, <3>2
    <2> QED
      BY <1>1, <2>2, <2>6, <2>7, SMTT(60) DEF Led, Active
  <1>3. CASE Alone(r, i)
    <2>1. \A q \in Requests, j \in Slices : (q # r \/ j # i) => task'[q][j] = task[q][j]
      BY <1>3, AloneFrame, SMTT(60)
    <2>2. CASE /\ flight' = With(flight, Key(r, i), <<r, i>>) /\ Key(r, i) \notin DOMAIN flight
               /\ task[r][i] = NoTask /\ task'[r][i] = "fetching"
      <3>1. /\ DOMAIN flight' = DOMAIN flight \cup {Key(r, i)} /\ flight'[Key(r, i)] = <<r, i>>
            /\ \A k \in DOMAIN flight : flight'[k] = flight[k]
        BY <2>2 DEF With
      <3>2. ASSUME NEW k \in DOMAIN flight'
            PROVE  \E q \in Requests, j \in Slices :
                      flight'[k] = <<q, j>> /\ Key(q, j) = k /\ task'[q][j] \in {"fetching", "answered"}
        <4>1. CASE k = Key(r, i)
          BY <2>2, <3>1, <4>1
        <4>2. CASE k \in DOMAIN flight
          <5>1. PICK q \in Requests, j \in Slices :
                   flight[k] = <<q, j>> /\ Key(q, j) = k /\ task[q][j] \in {"fetching", "answered"}
            BY <4>2 DEF Led
          <5>2. q # r \/ j # i
            BY <2>2, <4>2, <5>1
          <5> QED
            BY <2>1, <3>1, <4>2, <5>1, <5>2
        <4> QED
          BY <3>1, <4>1, <4>2
      <3>3. ASSUME NEW q \in Requests, NEW j \in Slices
            PROVE  /\ task'[q][j] = "waiting" => Key(q, j) \in DOMAIN flight'
                   /\ task'[q][j] \in {"fetching", "answered"} =>
                         Key(q, j) \in DOMAIN flight' /\ flight'[Key(q, j)] = <<q, j>>
        <4>1. CASE q = r /\ j = i
          BY <2>2, <3>1, <4>1
        <4>2. CASE q # r \/ j # i
          BY <2>1, <3>1, <4>2 DEF Led
        <4> QED
          BY <4>1, <4>2
      <3> QED
        BY <1>1, <3>2, <3>3, SMTT(60) DEF Led
    <2>3. CASE flight' = flight /\ task[r][i] \notin Active /\ task'[r][i] \notin Active
      <3>1. plan' = plan
        BY <1>3, AloneFrame DEF requestVars
      <3> QED
        BY <2>1, <2>3, <3>1, LedQuiet
    <2>4. CASE /\ flight' = flight
               /\ \/ task[r][i] = NoTask /\ task'[r][i] = "waiting" /\ Key(r, i) \in DOMAIN flight
                  \/ task[r][i] = "fetching" /\ task'[r][i] = "answered"
      BY <1>1, <2>1, <2>4, SMTT(60) DEF Led, NoTask
    <2> QED
      BY <1>3, <2>2, <2>3, <2>4, AloneMove DEF Active, NoTask
  <1> QED
    BY <1>2, <1>3 DEF SliceStep, FetchStep, Landing, Alone

LEMMA LedWorld == ASSUME GInv, Led, World PROVE Led'
  <1>1. CASE Restart
    <2>1. DOMAIN flight' = {} /\ \A r \in Requests, i \in Slices : task'[r][i] \notin Active
      BY <1>1 DEF Restart, NoTask, Active
    <2> QED
      BY <2>1 DEF Led, Active
  <1>2. CASE ~Restart
    <2>1. flight' = flight /\ task' = task /\ plan' = plan
      BY <1>2 DEF World, OriginChange, HourPasses, Evict, PurgeSlices, PurgeIndex, requestVars, taskVars
    <2> QED
      BY <2>1, LedQuiet
  <1> QED
    BY <1>1, <1>2

LEMMA LedInvariance == Spec => [](GInv /\ Led)
  <1>1. Init => Led
    BY SMTT(60) DEF Init, Led, NoTask
  <1>2. GInv /\ Led /\ [Next]_vars => Led'
    <2> SUFFICES ASSUME GInv, Led, [Next]_vars PROVE Led'
      OBVIOUS
    <2>1. CASE UNCHANGED vars
      <3>1. flight' = flight /\ task' = task /\ plan' = plan
        BY <2>1 DEF vars, requestVars, taskVars
      <3> QED
        BY <3>1, LedQuiet
    <2> QED
      BY <2>1, LedRequest, LedSlice, LedWorld DEF Next, World
  <1> QED
    BY <1>1, <1>2, InitGrounded, NextGrounded, PTL DEF Spec

\* store/hybrid.rs, get_or_fetch: no key has two fetches and no task waits for a fetch that nobody
\* runs, for any number of requests and slices, through failures, disconnects, purges and restarts.
THEOREM FlightsAreLedHolds == Spec => []FlightsAreLed
  <1>1. GInv /\ Led => FlightsAreLed
    <2> SUFFICES ASSUME Led PROVE FlightsAreLed
      OBVIOUS
    <2>1. ASSUME NEW k \in DOMAIN flight
          PROVE  /\ task[flight[k][1]][flight[k][2]] \in {"fetching", "answered"}
                 /\ Key(flight[k][1], flight[k][2]) = k
      <3>1. PICK q \in Requests, j \in Slices :
               flight[k] = <<q, j>> /\ Key(q, j) = k /\ task[q][j] \in {"fetching", "answered"}
        BY DEF Led
      <3>2. flight[k][1] = q /\ flight[k][2] = j
        BY <3>1, SMTT(60)
      <3> QED
        BY <3>1, <3>2
    <2>2. ASSUME NEW t \in Tasks, task[t[1]][t[2]] \in {"waiting", "fetching", "answered"}
          PROVE  Key(t[1], t[2]) \in DOMAIN flight
      BY <2>2 DEF Led, Tasks
    <2> QED
      BY <2>1, <2>2 DEF FlightsAreLed
  <1> QED
    BY <1>1, LedInvariance, PTL
-----------------------------------------------------------------------------
\* get_or_try_init: a cell that is being initialised has one prober, and one that is not set holds
\* nothing.
Cells ==
    /\ \A r \in Requests : once[r].state # "set" => once[r].meta = Unknown
    /\ \A r \in Requests : pc[r] \in Probing => once[mycell[r]].state = "busy"
    /\ \A q, r \in Requests :
          pc[q] \in Probing /\ pc[r] \in Probing /\ mycell[q] = mycell[r] => q = r

LEMMA CellsQuiet ==
    ASSUME GInv, Cells, NEW r \in Requests, once' = once,
           \A q \in Requests \ {r} : pc'[q] = pc[q] /\ mycell'[q] = mycell[q],
           pc'[r] \in Probing => pc[r] \in Probing /\ mycell'[r] = mycell[r]
    PROVE  Cells'
  BY SMTT(60) DEF Cells

LEMMA CellsRequest ==
    ASSUME GInv, Cells, NEW r \in Requests,
           Lookup(r) \/ RequestStep(r) \/ DropWaiter(r) \/ DropBody(r)
    PROVE  Cells'
  <1> USE DEF Goto
  <1>0. DOMAIN pc = Requests /\ DOMAIN mycell = Requests /\ DOMAIN once = Requests
        /\ \A q \in Requests : DOMAIN once[q] = {"state", "meta"}
    BY DEF GInv, Types
  <1>1. CASE Lookup(r) \/ TouchStep(r) \/ JoinCell(r) \/ CellReady(r) \/ Finish(r) \/ DropWaiter(r) \/ DropBody(r)
    <2>1. once' = once /\ \E p \in {"touch", "miss", "serving", "touching", "cell", "ended", "gone"} :
                             pc' = [pc EXCEPT ![r] = p]
      BY <1>1 DEF Lookup, TouchStep, TouchSkip, TouchRead, TouchWrite, JoinCell, CellReady, Finish,
             DropWaiter, DropBody
    <2>2. \A q \in Requests \ {r} : pc'[q] = pc[q] /\ mycell'[q] = mycell[q]
      BY <1>0, <1>1 DEF Lookup, TouchStep, TouchSkip, TouchRead, TouchWrite, JoinCell, CellReady, Finish,
             DropWaiter, DropBody
    <2>3. pc'[r] \notin Probing
      BY <1>0, <2>1 DEF Probing
    <2> QED
      BY <2>1, <2>2, <2>3, CellsQuiet
  <1>2. CASE ProbeFetch(r) \/ ProbeRead(r) \/ ProbeStore(r)
    <2>1. once' = once /\ mycell' = mycell /\ pc[r] \in Probing
      BY <1>2 DEF ProbeFetch, ProbeRead, ProbeStore, Probing
    <2>2. \A q \in Requests \ {r} : pc'[q] = pc[q]
      BY <1>0, <1>2 DEF ProbeFetch, ProbeRead, ProbeStore
    <2> QED
      BY <2>1, <2>2, CellsQuiet
  <1>3. CASE ProbeStart(r)
    <2>1. /\ mycell[r] \in Requests /\ once[mycell[r]].state = "empty" /\ mycell' = mycell
          /\ pc'[r] = "probing" /\ \A q \in Requests \ {r} : pc'[q] = pc[q]
          /\ once' = [once EXCEPT ![mycell[r]].state = "busy"]
      BY <1>0, <1>3 DEF ProbeStart, GInv, Grounded
    <2>2. /\ \A q \in Requests \ {mycell[r]} : once'[q] = once[q]
          /\ once'[mycell[r]].state = "busy" /\ once'[mycell[r]].meta = once[mycell[r]].meta
      BY <1>0, <2>1
    <2>3. \A q \in Requests : pc[q] \in Probing => mycell[q] # mycell[r] /\ mycell[q] \in Requests
      BY <2>1 DEF Cells, GInv, Grounded
    <2> QED
      BY <2>1, <2>2, <2>3, SMTT(60) DEF Cells
  <1>4. CASE ProbeFail(r) \/ ProbePut(r)
    <2>1. /\ pc[r] \in Probing /\ mycell[r] \in Requests
          /\ \E p \in {"ended", "serving"} : pc' = [pc EXCEPT ![r] = p]
          /\ \A q \in Requests \ {r} : mycell'[q] = mycell[q]
          /\ \/ once' = [once EXCEPT ![mycell[r]].state = "empty"]
             \/ once' = [once EXCEPT ![mycell[r]] = [state |-> "set", meta |-> plan[r]]]
      BY <1>0, <1>4 DEF ProbeFail, ProbePut, GInv, Grounded, Probing
    <2>2. pc'[r] \notin Probing /\ \A q \in Requests \ {r} : pc'[q] = pc[q]
      BY <1>0, <2>1 DEF Probing
    <2>3. \A q \in Requests \ {r} : pc[q] \in Probing => mycell[q] # mycell[r] /\ mycell[q] \in Requests
      BY <2>1 DEF Cells, GInv, Grounded
    <2>4. once[mycell[r]].state = "busy" /\ once[mycell[r]].meta = Unknown
      BY <2>1 DEF Cells
    <2>5. /\ \A q \in Requests \ {mycell[r]} : once'[q] = once[q]
          /\ once'[mycell[r]].state = "set" \/ once'[mycell[r]].meta = Unknown
      BY <1>0, <2>1, <2>4, SMTT(60)
    <2> QED
      BY <2>1, <2>2, <2>3, <2>5, SMTT(60) DEF Cells
  <1> QED
    BY <1>1, <1>2, <1>3, <1>4 DEF RequestStep, CellStep, ProbeStep

\* orchestrator/mod.rs, metadata: while a cell is being initialised one request probes the origin for
\* it, however many wait, and a request that fails or goes away leaves the cell to the next.
THEOREM OneProberPerCell == Spec => [](GInv /\ Led /\ Cells)
  <1>1. Init => Cells
    BY SMTT(60) DEF Init, Cells, Probing
  <1>2. GInv /\ Cells /\ [Next]_vars => Cells'
    <2> SUFFICES ASSUME GInv, Cells, [Next]_vars PROVE Cells'
      OBVIOUS
    <2>1. CASE UNCHANGED <<once, pc, mycell>>
      BY <2>1 DEF Cells
    <2>2. ASSUME NEW r \in Requests, NEW i \in Slices, SliceStep(r, i) PROVE UNCHANGED <<once, pc, mycell>>
      BY <2>2, LandingEffect, AloneFrame DEF SliceStep, FetchStep, Landing, Alone, requestVars
    <2>3. CASE World /\ ~Restart
      BY <2>1, <2>3 DEF World, OriginChange, HourPasses, Evict, PurgeSlices, PurgeIndex, requestVars
    <2>4. CASE Restart
      BY <2>4 DEF Restart, Cells, Probing
    <2>5. CASE UNCHANGED vars
      BY <2>1, <2>5 DEF vars, requestVars
    <2> QED
      BY <2>1, <2>2, <2>3, <2>4, <2>5, CellsRequest DEF Next, World
  <1> QED
    BY <1>1, <1>2, LedInvariance, PTL DEF Spec

\* A cell that is being initialised is not abandoned.
Probed ==
    \A c \in Requests :
       once[c].state = "busy" => \E q \in Requests : pc[q] \in Probing /\ mycell[q] = c

\* A request that waits at its cell can take it, or somebody else is at work for it.
NoRequestStranded ==
    \A r \in Requests :
       pc[r] = "cell" => \/ once[mycell[r]].state \in {"empty", "set"}
                         \/ \E q \in Requests \ {r} : pc[q] \in Probing /\ mycell[q] = mycell[r]

LEMMA ProbedQuiet ==
    ASSUME Probed, NEW r \in Requests, once' = once,
           \A q \in Requests \ {r} : pc'[q] = pc[q] /\ mycell'[q] = mycell[q],
           pc[r] \in Probing => pc'[r] \in Probing /\ mycell'[r] = mycell[r]
    PROVE  Probed'
  <1> SUFFICES ASSUME NEW c \in Requests, once[c].state = "busy"
               PROVE  \E q \in Requests : pc'[q] \in Probing /\ mycell'[q] = c
    BY DEF Probed
  <1>1. PICK q \in Requests : pc[q] \in Probing /\ mycell[q] = c
    BY DEF Probed
  <1>2. pc'[q] \in Probing /\ mycell'[q] = c
    BY <1>1
  <1> QED BY <1>2

LEMMA ProbedRequest ==
    ASSUME GInv, Cells, Probed, NEW r \in Requests,
           Lookup(r) \/ RequestStep(r) \/ DropWaiter(r) \/ DropBody(r)
    PROVE  Probed'
  <1> USE DEF Goto
  <1>0. DOMAIN pc = Requests /\ DOMAIN mycell = Requests /\ DOMAIN once = Requests
        /\ \A q \in Requests : DOMAIN once[q] = {"state", "meta"}
    BY DEF GInv, Types
  <1>1. CASE Lookup(r) \/ TouchStep(r) \/ JoinCell(r) \/ CellReady(r) \/ Finish(r) \/ DropWaiter(r) \/ DropBody(r)
    <2>1. /\ once' = once
          /\ pc[r] \notin Probing
      BY <1>1 DEF Lookup, TouchStep, TouchSkip, TouchRead, TouchWrite, JoinCell, CellReady, Finish,
             DropWaiter, DropBody, Probing
    <2>2. \A q \in Requests \ {r} : pc'[q] = pc[q] /\ mycell'[q] = mycell[q]
      BY <1>0, <1>1 DEF Lookup, TouchStep, TouchSkip, TouchRead, TouchWrite, JoinCell, CellReady, Finish,
             DropWaiter, DropBody
    <2> QED
      BY <2>1, <2>2, ProbedQuiet
  <1>2. CASE ProbeFetch(r) \/ ProbeRead(r) \/ ProbeStore(r)
    <2>1. once' = once /\ mycell' = mycell /\ pc'[r] \in {"probed", "storing", "putting"}
      BY <1>0, <1>2 DEF ProbeFetch, ProbeRead, ProbeStore
    <2>2. \A q \in Requests \ {r} : pc'[q] = pc[q]
      BY <1>0, <1>2 DEF ProbeFetch, ProbeRead, ProbeStore
    <2>3. pc'[r] \in Probing
      BY <2>1 DEF Probing
    <2> QED
      BY <2>1, <2>2, <2>3, ProbedQuiet
  <1>3. CASE ProbeStart(r)
    <2>1. /\ mycell[r] \in Requests /\ mycell' = mycell /\ pc[r] = "cell"
          /\ pc'[r] = "probing" /\ \A q \in Requests \ {r} : pc'[q] = pc[q]
          /\ once' = [once EXCEPT ![mycell[r]].state = "busy"]
      BY <1>0, <1>3 DEF ProbeStart, GInv, Grounded
    <2>2. \A c \in Requests \ {mycell[r]} : once'[c] = once[c]
      BY <1>0, <2>1
    <2>3. pc[r] \notin Probing /\ pc'[r] \in Probing
      BY <2>1 DEF Probing
    <2> SUFFICES ASSUME NEW c \in Requests, once'[c].state = "busy"
                 PROVE  \E q \in Requests : pc'[q] \in Probing /\ mycell'[q] = c
      BY DEF Probed
    <2>4. CASE c = mycell[r]
      BY <2>1, <2>3, <2>4
    <2>5. CASE c # mycell[r]
      <3>1. PICK q \in Requests : pc[q] \in Probing /\ mycell[q] = c
        BY <2>2, <2>5 DEF Probed
      <3>2. pc'[q] \in Probing /\ mycell'[q] = c
        BY <2>1, <2>3, <3>1
      <3> QED BY <3>2
    <2> QED BY <2>4, <2>5
  <1>4. CASE ProbeFail(r) \/ ProbePut(r)
    <2>1. /\ pc[r] \in Probing /\ mycell[r] \in Requests
          /\ \A q \in Requests \ {r} : pc'[q] = pc[q] /\ mycell'[q] = mycell[q]
          /\ \/ once' = [once EXCEPT ![mycell[r]].state = "empty"]
             \/ once' = [once EXCEPT ![mycell[r]] = [state |-> "set", meta |-> plan[r]]]
      BY <1>0, <1>4 DEF ProbeFail, ProbePut, GInv, Grounded, Probing
    <2>2. /\ \A c \in Requests \ {mycell[r]} : once'[c] = once[c]
          /\ once'[mycell[r]].state # "busy"
      BY <1>0, <2>1, SMTT(60)
    <2> SUFFICES ASSUME NEW c \in Requests, once'[c].state = "busy"
                 PROVE  \E q \in Requests : pc'[q] \in Probing /\ mycell'[q] = c
      BY DEF Probed
    <2>3. c # mycell[r] /\ once[c].state = "busy"
      BY <2>2
    <2>4. PICK q \in Requests : pc[q] \in Probing /\ mycell[q] = c
      BY <2>3 DEF Probed
    <2>5. q # r
      BY <2>3, <2>4
    <2> QED BY <2>1, <2>4, <2>5
  <1> QED
    BY <1>1, <1>2, <1>3, <1>4 DEF RequestStep, CellStep, ProbeStep

\* orchestrator/mod.rs, metadata: get_or_try_init leaves nobody behind.  For any number of requests,
\* through failing probes, disconnects, purges and restarts, a cell that is being initialised has a
\* request that initialises it, and a request that waits finds it free, set or in such hands.
THEOREM CellsAreProbed == Spec => []NoRequestStranded
  <1>1. Init => Probed
    BY SMTT(60) DEF Init, Probed
  <1>2. GInv /\ Cells /\ Probed /\ [Next]_vars => Probed'
    <2> SUFFICES ASSUME GInv, Cells, Probed, [Next]_vars PROVE Probed'
      OBVIOUS
    <2>1. CASE UNCHANGED <<once, pc, mycell>>
      BY <2>1 DEF Probed
    <2>2. ASSUME NEW r \in Requests, NEW i \in Slices, SliceStep(r, i) PROVE UNCHANGED <<once, pc, mycell>>
      BY <2>2, LandingEffect, AloneFrame DEF SliceStep, FetchStep, Landing, Alone, requestVars
    <2>3. CASE World /\ ~Restart
      BY <2>1, <2>3 DEF World, OriginChange, HourPasses, Evict, PurgeSlices, PurgeIndex, requestVars
    <2>4. CASE Restart
      <3>1. \A c \in Requests : once'[c] = [state |-> "empty", meta |-> Unknown]
        BY <2>4 DEF Restart
      <3>2. \A c \in Requests : once'[c].state = "empty"
        BY <3>1, SMTT(60)
      <3> QED BY <3>2 DEF Probed
    <2>5. CASE UNCHANGED vars
      BY <2>1, <2>5 DEF vars, requestVars
    <2> QED
      BY <2>1, <2>2, <2>3, <2>4, <2>5, ProbedRequest DEF Next, World
  <1>3. GInv /\ Probed => NoRequestStranded
    <2> SUFFICES ASSUME GInv, Probed, NEW r \in Requests, pc[r] = "cell", once[mycell[r]].state \notin {"empty", "set"}
                 PROVE  \E q \in Requests \ {r} : pc[q] \in Probing /\ mycell[q] = mycell[r]
      BY DEF NoRequestStranded
    <2>1. mycell[r] \in Requests
      BY DEF GInv, Grounded
    <2>2. once[mycell[r]].state = "busy"
      BY <2>1 DEF GInv, Types
    <2>3. PICK q \in Requests : pc[q] \in Probing /\ mycell[q] = mycell[r]
      BY <2>1, <2>2 DEF Probed
    <2>4. q # r
      BY <2>3 DEF Probing
    <2> QED BY <2>3, <2>4
  <1> QED
    BY <1>1, <1>2, <1>3, OneProberPerCell, PTL DEF Spec
-----------------------------------------------------------------------------
\* The validators the origin reports tell its versions apart.
ToldApart == \A v, w \in Versions : matches(Reported[v], Reported[w]) => v = w

LEMMA StoreStep ==
    ASSUME GInv, Next
    PROVE  \/ store' = store
           \/ \E ks : store' = Without(store, ks)
           \/ \E r \in Requests : \E i :
                 /\ ProbeStore(r)
                 /\ store' = With(store, Key(r, i), [header |-> plan[r].ver, body |-> plan[r].ver])
           \/ \E r \in Requests, i \in Slices :
                 /\ FetchMatch(r, i)
                 /\ store' = With(store, Key(r, i), [header |-> plan[r].ver, body |-> got[r][i]])
  <1>1. ASSUME NEW r \in Requests, Lookup(r) \/ RequestStep(r) \/ DropWaiter(r) \/ DropBody(r), ~ProbeStore(r)
        PROVE  store' = store
    BY <1>1 DEF RequestStep, TouchStep, CellStep, ProbeStep, Lookup, TouchSkip, TouchRead, TouchWrite,
           JoinCell, CellReady, ProbeStart, ProbeFetch, ProbeFail, ProbeRead, ProbePut, DropWaiter,
           DropBody, Finish
  <1>2. ASSUME NEW r \in Requests, NEW i \in Slices, SliceStep(r, i), ~FetchMatch(r, i) PROVE store' = store
    BY <1>2 DEF SliceStep, StartStep, FetchStep, BumpStep, SliceHit, SliceJoin, SliceLead, FetchAnswer,
           FetchMismatch, FetchFail, Fallback, BumpRead, BumpWrite, Unlink
  <1>3. ASSUME World PROVE store' = store \/ \E ks : store' = Without(store, ks)
    BY <1>3 DEF World, OriginChange, HourPasses, Evict, Restart, PurgeSlices, PurgeIndex
  <1>4. ASSUME NEW r \in Requests, ProbeStore(r)
        PROVE  \E i : store' = With(store, Key(r, i), [header |-> plan[r].ver, body |-> plan[r].ver])
    BY <1>4 DEF ProbeStore
  <1>5. ASSUME NEW r \in Requests, NEW i \in Slices, FetchMatch(r, i)
        PROVE  store' = With(store, Key(r, i), [header |-> plan[r].ver, body |-> got[r][i]])
    BY <1>5 DEF FetchMatch, StoreSlice
  <1> QED
    BY <1>1, <1>2, <1>3, <1>4, <1>5 DEF Next, World

LEMMA AnsweredVersions ==
    ASSUME GInv, NEW r \in Requests, NEW i \in Slices, task[r][i] \in {"fetching", "answered"}
    PROVE  /\ plan[r].ver \in Versions
           /\ task[r][i] = "answered" => got[r][i] \in Versions
  <1>1. Known(plan[r]) /\ plan[r] \in Metas
    BY DEF GInv, Grounded, Types, NoTask
  <1>2. got[r][i] \in 0 .. MaxVersion /\ (task[r][i] = "answered" => got[r][i] # 0)
    BY DEF GInv, Grounded, Types
  <1> QED
    BY <1>1, <1>2, MetaFields, BoundsNat, SMTT(60) DEF Versions

\* store/slice.rs, SliceHeader (FR-44): as long as the origin's validators tell its versions apart,
\* the header of a stored slice describes the bytes next to it, through any number of versions,
\* requests, failures, purges and restarts.
THEOREM SelfDescribingHolds == ASSUME ToldApart PROVE Spec => []SelfDescribing
  <1>1. Init => SelfDescribing
    BY DEF Init, SelfDescribing
  <1>2. GInv /\ SelfDescribing /\ [Next]_vars => SelfDescribing'
    <2> SUFFICES ASSUME GInv, SelfDescribing, [Next]_vars PROVE SelfDescribing'
      OBVIOUS
    <2>1. CASE store' = store
      BY <2>1 DEF SelfDescribing
    <2>2. CASE \E ks : store' = Without(store, ks)
      BY <2>2 DEF SelfDescribing, Without
    <2>3. ASSUME NEW k, NEW v, store' = With(store, k, [header |-> v, body |-> v]) PROVE SelfDescribing'
      BY <2>3 DEF SelfDescribing, With
    <2>4. ASSUME NEW r \in Requests, NEW i \in Slices, FetchMatch(r, i) PROVE plan[r].ver = got[r][i]
      <3>1. task[r][i] = "answered" /\ matches(Reported[plan[r].ver], Reported[got[r][i]])
        BY <2>4 DEF FetchMatch, SameEntity
      <3> QED
        BY <3>1, AnsweredVersions DEF ToldApart
    <2>5. CASE UNCHANGED vars
      BY <2>1, <2>5 DEF vars
    <2>6. CASE Next
      BY <2>1, <2>2, <2>3, <2>4, <2>6, StoreStep
    <2> QED
      BY <2>5, <2>6
  <1> QED
    BY <1>1, <1>2, LedInvariance, PTL DEF Spec
-----------------------------------------------------------------------------
(***************************************************************************)
(* The versions and generations of the object, and the contract the cache  *)
(* implements, for as long as nothing has disturbed the index entry: a     *)
(* second change of the object, validators that do not tell its versions   *)
(* apart, a purge, a crash, or a touch that is due.  Requests, slices,     *)
(* spans, failures, eviction and clients that go are free, and so is what  *)
(* happens after the first disturbance: the code does not rule one out,    *)
(* and nothing is claimed from then on.                                    *)
(***************************************************************************)

\* So far the object has changed at most once, with exact validators, and was neither
\* purged, interrupted by a crash, nor old enough to be touched.
Undisturbed ==
    /\ origin <= 2
    /\ \A v, w \in 1 .. origin : matches(Reported[v], Reported[w]) <=> v = w
    /\ purges = 0 /\ restarts = 0 /\ hour = 0 /\ purging = FALSE

\* What a response holds against its plan, and what a plan holds against the origin.
Faithful ==
    /\ \A r \in Requests :
          /\ pc[r] # "touching"
          /\ pc[r] \in Serving \cup {"touch", "probed", "storing", "putting"} => plan[r].ver <= origin
          /\ pc[r] \in {"probed", "storing", "putting"} => ~plan[r].stale
    /\ \A r \in Requests, i \in Slices :
          /\ task[r][i] = "answered" => plan[r].ver <= got[r][i] /\ got[r][i] <= origin
          /\ task[r][i] \in {"mismatch", "bumping", "unlink"} => plan[r].ver < origin
          /\ task[r][i] = "ok" => got[r][i] = plan[r].ver

\* The index has no entry: one cell and one prober at most, and no response yet.
Unlearned ==
    /\ index = Unknown
    /\ \A r \in Requests :
          /\ pc[r] \notin Serving \cup {"touch"}
          /\ once[r].state # "set"
          /\ pc[r] \in Probing \cup {"cell"} => mycell[r] = cell
          /\ pc[r] \in {"storing", "putting"} => plan[r].gen = 0
    /\ \A k \in DOMAIN store :
          k[1] = 0 /\ \E r \in Requests : pc[r] = "putting" /\ store[k].body = plan[r].ver

\* The entry is of generation 0: everything is of its version, and the cell is set, so that
\* nobody probes.
Original ==
    /\ Known(index) /\ index.gen = 0 /\ ~index.stale /\ index.ver <= origin
    /\ cell \in Requests /\ once[cell].state = "set"
    /\ \A r \in Requests :
          /\ pc[r] \notin Probing
          /\ pc[r] = "cell" => mycell[r] = cell
          /\ once[r].state = "set" => once[r].meta.gen = 0 /\ once[r].meta.ver = index.ver
          /\ pc[r] \in Serving \cup {"touch"} => plan[r].gen = 0 /\ plan[r].ver = index.ver
    /\ \A r \in Requests, i \in Slices :
          /\ task[r][i] = "bumping" => old[r][i].gen = 0 /\ Known(old[r][i])
          /\ task[r][i] # "unlink"
    /\ \A k \in DOMAIN store : k[1] = 0 /\ store[k].body = index.ver

\* Generation 0 was the first version, every later one is the second.
Split(g, v) == IF g = 0 THEN v = 1 ELSE v = 2

\* The entry has been invalidated: whoever probes from now on finds the second version and a
\* generation above 0.
Superseded ==
    /\ Known(index) /\ index.gen > 0 /\ origin = 2
    /\ index.stale \/ index.ver = 2
    /\ \A r \in Requests :
          /\ once[r].state = "set" => Split(once[r].meta.gen, once[r].meta.ver)
          /\ pc[r] \in Serving \cup {"touch", "storing", "putting"} => Split(plan[r].gen, plan[r].ver)
          /\ pc[r] = "probed" => plan[r].ver = 2
          /\ pc[r] \in {"storing", "putting"} => plan[r].gen > 0
    /\ \A r \in Requests, i \in Slices : task[r][i] = "bumping" => Known(old[r][i])
    /\ \A k \in DOMAIN store : Split(k[1], store[k].body)

Phases == Unlearned \/ Original \/ Superseded

PInv == GInv /\ Led /\ Cells /\ Undisturbed /\ Faithful /\ Phases

\* A step of one request that leaves the index, the cells, the store and the tasks alone.
LEMMA OwnStep ==
    ASSUME PInv, NEW r \in Requests, NEW p, pc' = [pc EXCEPT ![r] = p],
           \A q \in Requests \ {r} : plan'[q] = plan[q] /\ mycell'[q] = mycell[q],
           UNCHANGED <<origin, index, store, cell, once, task, got, old>>,
           p # "touching",
           p \in Serving \cup {"touch", "probed", "storing", "putting"} => plan'[r].ver <= origin,
           p \in {"probed", "storing", "putting"} => ~plan'[r].stale,
           pc[r] \in Serving => plan'[r] = plan[r] /\ p \in Serving,
           Unlearned => /\ p \notin Serving \cup {"touch"} /\ pc[r] # "putting"
                        /\ p \in Probing \cup {"cell"} => mycell'[r] = cell
                        /\ p \in Probing => pc[r] \in Probing
                        /\ p \in {"storing", "putting"} => plan'[r].gen = 0,
           Original => /\ p \notin Probing /\ (p = "cell" => mycell'[r] = cell)
                       /\ p \in Serving \cup {"touch"} => plan'[r].gen = 0 /\ plan'[r].ver = index.ver,
           Superseded => /\ p \in Serving \cup {"touch", "storing", "putting"} =>
                                Split(plan'[r].gen, plan'[r].ver)
                         /\ p = "probed" => plan'[r].ver = 2
                         /\ p \in {"storing", "putting"} => plan'[r].gen > 0
    PROVE  Faithful' /\ Phases'
  <1>1. pc'[r] = p /\ \A q \in Requests \ {r} : pc'[q] = pc[q]
    BY DEF PInv, GInv, Types
  <1>2. \A q \in Requests, j \in Slices : task[q][j] # NoTask => plan'[q] = plan[q]
    BY DEF PInv, GInv, Grounded
  <1>3. Faithful'
    <2>1. \A q \in Requests :
             /\ pc'[q] # "touching"
             /\ pc'[q] \in Serving \cup {"touch", "probed", "storing", "putting"} => plan'[q].ver <= origin
             /\ pc'[q] \in {"probed", "storing", "putting"} => ~plan'[q].stale
      BY <1>1 DEF PInv, Faithful
    <2>2. \A q \in Requests, j \in Slices :
             /\ task[q][j] = "answered" => plan'[q].ver <= got[q][j] /\ got[q][j] <= origin
             /\ task[q][j] \in {"mismatch", "bumping", "unlink"} => plan'[q].ver < origin
             /\ task[q][j] = "ok" => got[q][j] = plan'[q].ver
      BY <1>2, SMTT(60) DEF PInv, Faithful, NoTask
    <2> QED
      BY <2>1, <2>2 DEF Faithful
  <1>4. CASE Unlearned
    <2>1. Unlearned'
      BY <1>1, <1>4, SMTT(60) DEF Unlearned, Probing
    <2> QED
      BY <1>3, <2>1 DEF Phases
  <1>5. CASE Original
    <2>1. Original'
      <3>1. \A q \in Requests :
               /\ pc'[q] \notin Probing
               /\ pc'[q] = "cell" => mycell'[q] = cell
               /\ pc'[q] \in Serving \cup {"touch"} => plan'[q].gen = 0 /\ plan'[q].ver = index.ver
        <4>1. ASSUME NEW q \in Requests \ {r}
              PROVE  /\ pc'[q] \notin Probing
                     /\ pc'[q] = "cell" => mycell'[q] = cell
                     /\ pc'[q] \in Serving \cup {"touch"} => plan'[q].gen = 0 /\ plan'[q].ver = index.ver
          <5>1. pc'[q] = pc[q] /\ plan'[q] = plan[q] /\ mycell'[q] = mycell[q]
            BY <1>1
          <5> QED
            BY <1>5, <5>1 DEF Original
        <4> QED
          BY <1>1, <1>5, <4>1
      <3> QED
        BY <1>5, <3>1 DEF Original, Known
    <2> QED
      BY <1>3, <2>1 DEF Phases
  <1>6. CASE Superseded
    <2>1. Superseded'
      <3>1. \A q \in Requests :
               /\ pc'[q] \in Serving \cup {"touch", "storing", "putting"} => Split(plan'[q].gen, plan'[q].ver)
               /\ pc'[q] = "probed" => plan'[q].ver = 2
               /\ pc'[q] \in {"storing", "putting"} => plan'[q].gen > 0
        <4>1. \A q \in Requests \ {r} : plan'[q] = plan[q]
          OBVIOUS
        <4>2. ASSUME NEW q \in Requests \ {r}
              PROVE  /\ pc'[q] \in Serving \cup {"touch", "storing", "putting"} =>
                            Split(plan'[q].gen, plan'[q].ver)
                     /\ pc'[q] = "probed" => plan'[q].ver = 2
                     /\ pc'[q] \in {"storing", "putting"} => plan'[q].gen > 0
          BY <1>1, <1>6, <4>1 DEF Superseded
        <4> QED
          BY <1>1, <1>6, <4>2
      <3> QED
        BY <1>6, <3>1 DEF Superseded, Known, Split
    <2> QED
      BY <1>3, <2>1 DEF Phases
  <1> QED
    BY <1>4, <1>5, <1>6 DEF PInv, Phases

LEMMA PhaseOwn ==
    ASSUME PInv, NEW r \in Requests,
           \/ Lookup(r) \/ TouchStep(r) \/ CellReady(r) \/ ProbeFetch(r) \/ ProbeRead(r)
           \/ DropWaiter(r) \/ DropBody(r)
    PROVE  Faithful' /\ Phases'
  <1> USE DEF Goto
  <1>0. /\ DOMAIN plan = Requests /\ DOMAIN mycell = Requests
        /\ index \in Metas /\ plan[r] \in Metas /\ origin \in Versions
    BY DEF PInv, GInv, Types
  <1>a. index.ver \in Nat /\ plan[r].ver \in Nat /\ origin \in Nat /\ index.gen \in Nat
    BY <1>0, MetaFields, BoundsNat, SMTT(60) DEF Versions
  <1>1. CASE Lookup(r)
    <2>1. pc[r] = "idle" /\ UNCHANGED <<origin, index, store, cell, once, mycell, task, got, old>>
      BY <1>1 DEF Lookup, taskVars
    <2>2. CASE Known(index) /\ ~index.stale
      <3>1. pc' = [pc EXCEPT ![r] = "touch"] /\ plan'[r] = index
            /\ \A q \in Requests \ {r} : plan'[q] = plan[q]
        BY <1>0, <1>1, <2>2 DEF Lookup
      <3>2. ~Unlearned /\ index.ver <= origin
        <4>1. ~Unlearned
          BY <2>2, UnknownMeta DEF Unlearned
        <4>2. index.ver <= origin \/ (index.ver = 2 /\ origin = 2)
          BY <2>2, <4>1 DEF PInv, Phases, Original, Superseded
        <4> QED
          BY <1>a, <4>1, <4>2, SMTT(60)
      <3>3. Superseded => Split(index.gen, index.ver)
        <4>1. Superseded => index.gen > 0 /\ index.ver = 2
          BY <2>2 DEF Superseded
        <4> QED
          BY <1>a, <4>1, SMTT(60) DEF Split
      <3>4. Original => index.gen = 0
        BY DEF Original
      <3> QED
        BY <2>1, <3>1, <3>2, <3>3, <3>4, OwnStep DEF Serving, Probing
    <2>3. CASE ~(Known(index) /\ ~index.stale)
      <3>1. pc' = [pc EXCEPT ![r] = "miss"] /\ plan' = plan
        BY <1>1, <2>3 DEF Lookup
      <3> QED
        BY <2>1, <3>1, OwnStep DEF Serving, Probing
    <2> QED
      BY <2>2, <2>3
  <1>2. CASE TouchStep(r)
    <2>1. index.seen \in 0 .. MaxHours /\ MaxHours \in Nat /\ hour = 0 /\ pc[r] # "touching"
      BY <1>0, MetaFields, BoundsNat DEF PInv, Undisturbed, Faithful
    <2>2. TouchSkip(r)
      BY <1>2, <2>1, SMTT(60) DEF TouchStep, TouchRead, TouchWrite
    <2>3. pc[r] = "touch" /\ pc' = [pc EXCEPT ![r] = "serving"]
          /\ UNCHANGED <<origin, index, store, cell, once, mycell, plan, task, got, old>>
      BY <2>2 DEF TouchSkip, taskVars
    <2>4. plan[r].ver <= origin /\ ~Unlearned
      BY <2>3 DEF PInv, Faithful, Unlearned
    <2>5. /\ Original => plan[r].gen = 0 /\ plan[r].ver = index.ver
          /\ Superseded => Split(plan[r].gen, plan[r].ver)
      BY <2>3 DEF Original, Superseded
    <2> QED
      BY <2>3, <2>4, <2>5, OwnStep DEF Serving, Probing
  <1>3. CASE CellReady(r)
    <2>1. /\ pc[r] = "cell" /\ pc' = [pc EXCEPT ![r] = "serving"]
          /\ UNCHANGED <<origin, index, store, cell, once, task, got, old>>
          /\ mycell[r] \in Requests /\ once[mycell[r]].state = "set"
      BY <1>3 DEF CellReady, taskVars, PInv, GInv, Grounded
    <2>2. /\ plan'[r] = once[mycell[r]].meta
          /\ \A q \in Requests \ {r} : plan'[q] = plan[q] /\ mycell'[q] = mycell[q]
      BY <1>0, <1>3 DEF CellReady
    <2>3. ~Unlearned
      BY <2>1 DEF Unlearned
    <2>4. /\ Original => plan'[r].gen = 0 /\ plan'[r].ver = index.ver /\ index.ver <= origin
          /\ Superseded => Split(plan'[r].gen, plan'[r].ver) /\ origin = 2
      BY <2>1, <2>2 DEF Original, Superseded
    <2>5. plan'[r].ver <= origin
      BY <1>a, <2>3, <2>4, SMTT(60) DEF PInv, Phases, Split
    <2> QED
      BY <2>1, <2>2, <2>3, <2>4, <2>5, OwnStep DEF Serving, Probing
  <1>4. CASE ProbeFetch(r)
    <2>1. /\ pc[r] = "probing" /\ pc' = [pc EXCEPT ![r] = "probed"]
          /\ UNCHANGED <<origin, index, store, cell, once, mycell, task, got, old>>
          /\ plan'[r].ver = origin /\ plan'[r].stale = FALSE
          /\ \A q \in Requests \ {r} : plan'[q] = plan[q]
      BY <1>0, <1>4 DEF ProbeFetch, taskVars
    <2>2. ~Original /\ (Superseded => origin = 2) /\ (Unlearned => mycell[r] = cell)
      BY <2>1 DEF Original, Superseded, Unlearned, Probing
    <2>3. plan'[r].ver <= origin /\ ~plan'[r].stale
      BY <1>a, <2>1, SMTT(60)
    <2> QED
      BY <2>1, <2>2, <2>3, OwnStep DEF Serving, Probing
  <1>5. CASE ProbeRead(r)
    <2>1. /\ pc[r] = "probed" /\ pc' = [pc EXCEPT ![r] = "storing"]
          /\ UNCHANGED <<origin, index, store, cell, once, mycell, task, got, old>>
          /\ plan'[r] = [plan[r] EXCEPT !.gen = index.gen]
          /\ \A q \in Requests \ {r} : plan'[q] = plan[q]
      BY <1>0, <1>5 DEF ProbeRead, taskVars
    <2>2. plan'[r].ver = plan[r].ver /\ plan'[r].stale = plan[r].stale /\ plan'[r].gen = index.gen
      BY <1>0, <1>a, <2>1, GenMeta, SMTT(60)
    <2>3. plan[r].ver <= origin /\ ~plan[r].stale
      BY <2>1 DEF PInv, Faithful
    <2>4. /\ ~Original
          /\ Unlearned => mycell[r] = cell /\ index.gen = 0
          /\ Superseded => Split(index.gen, plan[r].ver) /\ index.gen > 0
      BY <1>a, <2>1, SMTT(60) DEF Original, Superseded, Unlearned, Probing, Split, Unknown
    <2> QED
      BY <2>1, <2>2, <2>3, <2>4, OwnStep DEF Serving, Probing
  <1>6. CASE DropWaiter(r) \/ DropBody(r)
    <2>1. /\ UNCHANGED <<origin, index, store, cell, once, plan, task, got, old>>
          /\ \A q \in Requests \ {r} : mycell'[q] = mycell[q]
          /\ \/ pc[r] = "cell" /\ pc' = [pc EXCEPT ![r] = "ended"]
             \/ pc[r] = "serving" /\ pc' = [pc EXCEPT ![r] = "gone"]
      BY <1>0, <1>6 DEF DropWaiter, DropBody, taskVars
    <2>2. CASE pc[r] = "cell" /\ pc' = [pc EXCEPT ![r] = "ended"]
      BY <2>1, <2>2, OwnStep DEF Serving, Probing
    <2>3. CASE pc[r] = "serving" /\ pc' = [pc EXCEPT ![r] = "gone"]
      <3>1. /\ plan[r].ver <= origin /\ ~Unlearned
            /\ Original => plan[r].gen = 0 /\ plan[r].ver = index.ver
            /\ Superseded => Split(plan[r].gen, plan[r].ver)
        BY <2>3 DEF PInv, Faithful, Unlearned, Original, Superseded, Serving
      <3> QED
        BY <2>1, <2>3, <3>1, OwnStep DEF Serving, Probing
    <2> QED
      BY <2>1, <2>2, <2>3
  <1> QED
    BY <1>1, <1>2, <1>3, <1>4, <1>5, <1>6

\* The first request of an object makes its cell.
LEMMA PhaseJoin == ASSUME PInv, NEW r \in Requests, JoinCell(r) PROVE Faithful' /\ Phases'
  <1>1. /\ pc[r] = "miss" /\ pc'[r] = "cell" /\ mycell'[r] = cell'
        /\ cell' \in Requests /\ (cell \in Requests => cell' = cell)
        /\ \A q \in Requests \ {r} : pc'[q] = pc[q] /\ mycell'[q] = mycell[q]
        /\ UNCHANGED <<origin, index, store, once, plan, task, got, old>>
    BY NoCellFresh DEF JoinCell, Goto, taskVars, PInv, GInv, Types
  <1>2. Faithful'
    BY <1>1 DEF PInv, Faithful, Serving
  <1>3. CASE Unlearned
    <2>1. \A q \in Requests : pc[q] \in Probing \cup {"cell"} => cell \in Requests
      BY <1>3, SMTT(60) DEF Unlearned, PInv, GInv, Grounded
    <2>2. \A q \in Requests : pc'[q] \in Probing \cup {"cell"} => mycell'[q] = cell'
      BY <1>1, <1>3, <2>1 DEF Unlearned, Probing
    <2>3. Unlearned'
      BY <1>1, <1>3, <2>2, SMTT(60) DEF Unlearned, Probing, Serving
    <2> QED
      BY <1>2, <2>3 DEF Phases
  <1>4. CASE Original
    <2>1. Original'
      BY <1>1, <1>4 DEF Original, Known, Probing, Serving
    <2> QED
      BY <1>2, <2>1 DEF Phases
  <1>5. CASE Superseded
    <2>1. Superseded'
      BY <1>1, <1>5 DEF Superseded, Known, Serving, Split
    <2> QED
      BY <1>2, <2>1 DEF Phases
  <1> QED
    BY <1>3, <1>4, <1>5 DEF PInv, Phases

LEMMA PhaseProbeStart ==
    ASSUME PInv, NEW r \in Requests, ProbeStart(r) \/ ProbeFail(r)
    PROVE  Faithful' /\ Phases'
  <1> USE DEF Goto
  <1>1. mycell[r] \in Requests /\ pc[r] \in {"cell", "probing"} /\ once[mycell[r]].state # "set"
    BY DEF ProbeStart, ProbeFail, PInv, GInv, Grounded, Cells, Probing
  <1>2. PICK s \in {"empty", "busy"} : once' = [once EXCEPT ![mycell[r]] = [@ EXCEPT !.state = s]]
    BY DEF ProbeStart, ProbeFail
  <1>3. UNCHANGED <<origin, index, store, cell, plan, task, got, old>>
    BY DEF ProbeStart, ProbeFail, taskVars
  <1>4. /\ \A q \in Requests \ {mycell[r]} : once'[q] = once[q]
        /\ once'[mycell[r]].state # "set"
    <2>1. DOMAIN once = Requests /\ DOMAIN once[mycell[r]] = {"state", "meta"}
      BY <1>1 DEF PInv, GInv, Types
    <2> QED
      BY <1>1, <1>2, <2>1
  <1>5. /\ pc'[r] = "ended" \/ (pc'[r] = "probing" /\ mycell'[r] = mycell[r])
        /\ \A q \in Requests \ {r} : pc'[q] = pc[q] /\ mycell'[q] = mycell[q]
    <2>1. DOMAIN pc = Requests /\ DOMAIN mycell = Requests
      BY DEF PInv, GInv, Types
    <2> QED
      BY <2>1 DEF ProbeStart, ProbeFail
  <1>6. Faithful'
    BY <1>3, <1>5 DEF PInv, Faithful, Serving
  <1>7. CASE Unlearned
    <2>1. Unlearned'
      BY <1>1, <1>3, <1>4, <1>5, <1>7, SMTT(60) DEF Unlearned, Probing, Serving
    <2> QED
      BY <1>6, <2>1 DEF Phases
  <1>8. ~Original
    BY <1>1 DEF Original, Probing
  <1>9. CASE Superseded
    <2>1. Superseded'
      BY <1>3, <1>4, <1>5, <1>9 DEF Superseded, Known, Serving, Split
    <2> QED
      BY <1>6, <2>1 DEF Phases
  <1> QED
    BY <1>7, <1>8, <1>9 DEF PInv, Phases

LEMMA PhaseProbeStore == ASSUME PInv, NEW r \in Requests, ProbeStore(r) PROVE Faithful' /\ Phases'
  <1>1. /\ pc[r] = "storing" /\ pc'[r] = "putting" /\ \A q \in Requests \ {r} : pc'[q] = pc[q]
        /\ UNCHANGED <<origin, index, cell, once, mycell, plan, task, got, old>>
    BY DEF ProbeStore, Goto, taskVars, PInv, GInv, Types
  <1>2. PICK i : store' = With(store, Key(r, i), [header |-> plan[r].ver, body |-> plan[r].ver])
    BY DEF ProbeStore
  <1>3. \A k \in DOMAIN store' : \/ k \in DOMAIN store /\ store'[k] = store[k]
                                 \/ k[1] = plan[r].gen /\ store'[k].body = plan[r].ver
    BY <1>2, SMTT(60) DEF With, Key
  <1>4. Faithful'
    BY <1>1 DEF PInv, Faithful, Serving
  <1>5. CASE Unlearned
    <2>1. plan[r].gen = 0 /\ \A q \in Requests : pc[q] # "putting"
      BY <1>1, <1>5 DEF Unlearned, PInv, Cells, Probing
    <2>2. \A k \in DOMAIN store' : k[1] = 0 /\ store'[k].body = plan[r].ver
      BY <1>3, <1>5, <2>1 DEF Unlearned
    <2>3. \A k \in DOMAIN store' :
             k[1] = 0 /\ \E q \in Requests : pc'[q] = "putting" /\ store'[k].body = plan'[q].ver
      BY <1>1, <2>2
    <2>4. Unlearned'
      BY <1>1, <1>5, <2>3 DEF Unlearned, Probing, Serving
    <2> QED
      BY <1>4, <2>4 DEF Phases
  <1>6. ~Original
    BY <1>1 DEF Original, Probing
  <1>7. CASE Superseded
    <2>1. \A k \in DOMAIN store' : Split(k[1], store'[k].body)
      BY <1>1, <1>3, <1>7 DEF Superseded
    <2>2. Superseded'
      BY <1>1, <1>7, <2>1 DEF Superseded, Known, Serving, Split
    <2> QED
      BY <1>4, <2>2 DEF Phases
  <1> QED
    BY <1>5, <1>6, <1>7 DEF PInv, Phases

\* The one request that probes gives the object its entry and its cell at once.
LEMMA PhaseProbePut == ASSUME PInv, NEW r \in Requests, ProbePut(r) PROVE Faithful' /\ Phases'
  <1>1. /\ pc[r] = "putting" /\ pc'[r] = "serving" /\ index' = plan[r]
        /\ \A q \in Requests \ {r} : pc'[q] = pc[q] /\ mycell'[q] = mycell[q]
        /\ UNCHANGED <<origin, store, cell, plan, task, got, old>>
    BY DEF ProbePut, Goto, taskVars, PInv, GInv, Types
  <1>2. /\ mycell[r] \in Requests
        /\ once'[mycell[r]] = [state |-> "set", meta |-> plan[r]]
        /\ \A q \in Requests \ {mycell[r]} : once'[q] = once[q]
    BY DEF ProbePut, PInv, GInv, Types, Grounded, Probing
  <1>3. plan[r].ver <= origin /\ ~plan[r].stale /\ Known(plan[r])
    BY <1>1 DEF PInv, Faithful, GInv, Grounded
  <1>4. Faithful'
    BY <1>1, <1>3 DEF PInv, Faithful, Serving
  <1>5. CASE Unlearned
    <2>1. \A q \in Requests \ {r} : pc[q] \notin Probing
      BY <1>1, <1>5, SMTT(60) DEF Unlearned, PInv, Cells, Probing
    <2>2. mycell[r] = cell /\ plan[r].gen = 0
      BY <1>1, <1>5 DEF Unlearned, Probing
    <2>3. \A q \in Requests, j \in Slices : task[q][j] = NoTask
      BY <1>5 DEF Unlearned, PInv, GInv, Grounded
    <2>4. \A k \in DOMAIN store : k[1] = 0 /\ store[k].body = plan[r].ver
      BY <1>5, <2>1 DEF Unlearned, Probing
    <2>5. \A q \in Requests :
             /\ pc'[q] \notin Probing
             /\ pc'[q] = "cell" => mycell'[q] = cell
             /\ once'[q].state = "set" => once'[q].meta.gen = 0 /\ once'[q].meta.ver = plan[r].ver
             /\ pc'[q] \in Serving \cup {"touch"} => plan[q].gen = 0 /\ plan[q].ver = plan[r].ver
      <3>1. ASSUME NEW q \in Requests PROVE once'[q].state = "set" => once'[q].meta = plan[r]
        BY <1>2, <1>5, SMTT(60) DEF Unlearned
      <3> QED
        BY <1>1, <1>5, <2>1, <2>2, <3>1 DEF Unlearned, Probing, Serving
    <2>6. once'[cell].state = "set" /\ cell \in Requests
      BY <1>2, <2>2, SMTT(60)
    <2>7. Original'
      BY <1>1, <1>3, <2>2, <2>3, <2>4, <2>5, <2>6 DEF Original, Known, NoTask
    <2> QED
      BY <1>4, <2>7 DEF Phases
  <1>6. ~Original
    BY <1>1 DEF Original, Probing
  <1>7. CASE Superseded
    <2>1. Split(plan[r].gen, plan[r].ver) /\ plan[r].gen > 0
      BY <1>1, <1>7 DEF Superseded
    <2>2. plan[r].gen \in Nat
      BY MetaFields DEF PInv, GInv, Types
    <2>3. plan[r].ver = 2
      BY <2>1, <2>2, SMTT(60) DEF Split
    <2>4. \A q \in Requests : once'[q].state = "set" => Split(once'[q].meta.gen, once'[q].meta.ver)
      BY <1>2, <1>7, <2>1, SMTT(60) DEF Superseded
    <2>5. Superseded'
      BY <1>1, <1>3, <1>7, <2>1, <2>3, <2>4 DEF Superseded, Known, Serving, Split
    <2> QED
      BY <1>4, <2>5 DEF Phases
  <1> QED
    BY <1>5, <1>6, <1>7 DEF PInv, Phases

LEMMA PhaseFinish == ASSUME PInv, NEW r \in Requests, Finish(r) PROVE Faithful' /\ Phases'
  <1>1. /\ pc[r] \in Serving /\ pc'[r] = "ended" /\ \A j \in Slices : task'[r][j] = NoTask
        /\ \A q \in Requests \ {r} : /\ pc'[q] = pc[q] /\ plan'[q] = plan[q]
                                     /\ task'[q] = task[q] /\ got'[q] = got[q]
        /\ UNCHANGED <<origin, index, store, cell, once, mycell, old>>
    BY DEF Finish, Goto, PInv, GInv, Types, Serving
  <1>2. Faithful'
    BY <1>1, SMTT(60) DEF PInv, Faithful, Serving, NoTask
  <1>3. ~Unlearned
    BY <1>1 DEF Unlearned
  <1>4. CASE Original
    <2>1. Original'
      BY <1>1, <1>4, SMTT(60) DEF Original, Known, Probing, Serving, NoTask
    <2> QED
      BY <1>2, <2>1 DEF Phases
  <1>5. CASE Superseded
    <2>1. Superseded'
      BY <1>1, <1>5, SMTT(60) DEF Superseded, Known, Serving, Split, NoTask
    <2> QED
      BY <1>2, <2>1 DEF Phases
  <1> QED
    BY <1>3, <1>4, <1>5 DEF PInv, Phases

\* What the phases say of a response: a slice under its generation is of its version, and so is
\* every other response of that generation.
LEMMA GenerationTells ==
    ASSUME PInv, NEW r \in Requests, pc[r] \in Serving
    PROVE  /\ ~Unlearned
           /\ \A i \in Slices : Key(r, i) \in DOMAIN store => store[Key(r, i)].body = plan[r].ver
           /\ \A q \in Requests :
                 pc[q] \in Serving /\ plan[q].gen = plan[r].gen => plan[q].ver = plan[r].ver
  <1>1. ~Unlearned
    BY DEF Unlearned
  <1>2. \A i \in Slices : Key(r, i)[1] = plan[r].gen
    BY DEF Key
  <1>3. CASE Original
    BY <1>1, <1>3 DEF Original
  <1>4. CASE Superseded
    BY <1>1, <1>2, <1>4 DEF Superseded, Split
  <1> QED
    BY <1>1, <1>3, <1>4 DEF PInv, Phases

\* A step that begins no bump and stores only what the index entry says.
LEMMA OriginalKept ==
    ASSUME Original, UNCHANGED <<pc, plan, mycell, once, origin, index, cell, old>>,
           \A q \in Requests, j \in Slices :
              task'[q][j] \in {"bumping", "unlink"} => task'[q][j] = task[q][j],
           \A k \in DOMAIN store' : k[1] = 0 /\ store'[k].body = index.ver
    PROVE  Original'
  <1> DEFINE IndexPart == Known(index) /\ index.gen = 0 /\ ~index.stale /\ index.ver <= origin
             CellPart == cell \in Requests /\ once[cell].state = "set"
             RequestPart ==
               \A r \in Requests :
                  /\ pc[r] \notin Probing
                  /\ pc[r] = "cell" => mycell[r] = cell
                  /\ once[r].state = "set" => once[r].meta.gen = 0 /\ once[r].meta.ver = index.ver
                  /\ pc[r] \in Serving \cup {"touch"} => plan[r].gen = 0 /\ plan[r].ver = index.ver
             TaskPart ==
               \A r \in Requests, i \in Slices :
                  /\ task[r][i] = "bumping" => old[r][i].gen = 0 /\ Known(old[r][i])
                  /\ task[r][i] # "unlink"
             StorePart == \A k \in DOMAIN store : k[1] = 0 /\ store[k].body = index.ver
  <1>1. IndexPart /\ CellPart /\ RequestPart /\ TaskPart
    BY DEF Original
  <1>2. IndexPart'
    BY <1>1 DEF Known
  <1>3. CellPart'
    BY <1>1
  <1>4. RequestPart'
    BY <1>1
  <1>5. TaskPart'
    <2> SUFFICES ASSUME NEW r \in Requests, NEW i \in Slices
                 PROVE  /\ task'[r][i] = "bumping" => old[r][i].gen = 0 /\ Known(old[r][i])
                        /\ task'[r][i] # "unlink"
      BY DEF Known
    <2>1. /\ task[r][i] = "bumping" => old[r][i].gen = 0 /\ Known(old[r][i])
          /\ task[r][i] # "unlink"
      BY <1>1
    <2> QED BY <2>1
  <1>6. StorePart'
    OBVIOUS
  <1> QED BY <1>2, <1>3, <1>4, <1>5, <1>6 DEF Original

\* A step of one slice task that leaves the index and the cell alone.
LEMMA PhaseTask ==
    ASSUME PInv, NEW r \in Requests, NEW i \in Slices,
           StartStep(r, i) \/ FetchAnswer(r, i) \/ Fallback(r, i)
    PROVE  Faithful' /\ Phases'
  <1>0. GInv /\ Alone(r, i)
    BY DEF PInv, Alone
  <1>1. /\ UNCHANGED <<pc, plan, mycell, once, origin, store, index, cell, old>>
        /\ pc[r] \in Serving
    <2>1. UNCHANGED <<index, cell, old>>
      BY DEF StartStep, SliceHit, SliceJoin, SliceLead, FetchAnswer, Fallback
    <2> QED
      BY <1>0, <2>1, AloneFrame DEF requestVars
  <1>2. \A q \in Requests, j \in Slices :
           (q # r \/ j # i) => task'[q][j] = task[q][j] /\ got'[q][j] = got[q][j]
    BY <1>0, AloneFrame
  <1>3. \/ task'[r][i] \in {"waiting", "fetching", "failed"}
        \/ task'[r][i] = "answered" /\ got'[r][i] = origin
        \/ task'[r][i] = "ok" /\ got'[r][i] = plan[r].ver
    <2>1. DOMAIN got = Requests /\ DOMAIN got[r] = Slices /\ DOMAIN task = Requests /\ DOMAIN task[r] = Slices
      BY DEF PInv, GInv, Types
    <2>2. \A v : [got EXCEPT ![r][i] = v][r][i] = v /\ [task EXCEPT ![r][i] = v][r][i] = v
      BY <2>1
    <2>3. Key(r, i) \in DOMAIN store => store[Key(r, i)].body = plan[r].ver
      BY <1>1, GenerationTells
    <2>5. CASE SliceJoin(r, i) \/ SliceLead(r, i)
      BY <2>2, <2>5 DEF SliceJoin, SliceLead, SetTask
    <2>6. CASE FetchAnswer(r, i)
      <3>1. got'[r][i] = origin /\ task'[r][i] = "answered"
        BY <2>2, <2>6 DEF FetchAnswer, SetTask
      <3> QED
        BY <3>1
    <2>7. CASE SliceHit(r, i)
      <3>1. got'[r][i] = store[Key(r, i)].body /\ task'[r][i] = "ok" /\ Key(r, i) \in DOMAIN store
        BY <2>2, <2>7 DEF SliceHit, SetTask
      <3> QED
        BY <2>3, <3>1
    <2>8. CASE Fallback(r, i)
      <3>1. \/ task'[r][i] = "failed"
            \/ /\ got'[r][i] = store[Key(r, i)].body /\ task'[r][i] = "ok"
               /\ Key(r, i) \in DOMAIN store
        BY <2>2, <2>8 DEF Fallback, SetTask
      <3> QED
        BY <2>3, <3>1
    <2> QED
      BY <2>5, <2>6, <2>7, <2>8 DEF StartStep
  <1>4. plan[r].ver <= origin /\ origin <= origin
    <2>1. plan[r].ver <= origin
      BY <1>1 DEF PInv, Faithful
    <2>2. origin \in 1 .. MaxVersion
      BY DEF PInv, GInv, Types, Versions
    <2>3. origin <= origin
      BY <2>2, SMTT(60)
    <2> QED
      BY <2>1, <2>3
  <1>5. Faithful'
    <2>1. \A q \in Requests, j \in Slices :
             /\ task'[q][j] = "answered" => plan[q].ver <= got'[q][j] /\ got'[q][j] <= origin
             /\ task'[q][j] \in {"mismatch", "bumping", "unlink"} => plan[q].ver < origin
             /\ task'[q][j] = "ok" => got'[q][j] = plan[q].ver
      <3> SUFFICES ASSUME NEW q \in Requests, NEW j \in Slices
                   PROVE  /\ task'[q][j] = "answered" => plan[q].ver <= got'[q][j] /\ got'[q][j] <= origin
                          /\ task'[q][j] \in {"mismatch", "bumping", "unlink"} => plan[q].ver < origin
                          /\ task'[q][j] = "ok" => got'[q][j] = plan[q].ver
        OBVIOUS
      <3>1. CASE q = r /\ j = i
        BY <1>3, <1>4, <3>1
      <3>2. CASE q # r \/ j # i
        <4>1. task'[q][j] = task[q][j] /\ got'[q][j] = got[q][j]
          BY <1>2, <3>2
        <4>2. /\ task[q][j] = "answered" => plan[q].ver <= got[q][j] /\ got[q][j] <= origin
              /\ task[q][j] \in {"mismatch", "bumping", "unlink"} => plan[q].ver < origin
              /\ task[q][j] = "ok" => got[q][j] = plan[q].ver
          BY DEF PInv, Faithful
        <4> QED
          BY <4>1, <4>2
      <3> QED
        BY <3>1, <3>2
    <2> QED
      BY <1>1, <2>1 DEF PInv, Faithful
  <1>6. \A q \in Requests, j \in Slices :
           task'[q][j] \in {"bumping", "unlink"} => task'[q][j] = task[q][j]
    BY <1>2, <1>3
  <1>7. ~Unlearned
    BY <1>1 DEF Unlearned
  <1>8. CASE Original
    <2>1. Original'
      <3>1. \A k \in DOMAIN store' : k[1] = 0 /\ store'[k].body = index.ver
        BY <1>1, <1>8 DEF Original
      <3> QED
        BY <1>1, <1>6, <1>8, <3>1, OriginalKept
    <2> QED
      BY <1>5, <2>1 DEF Phases
  <1>9. CASE Superseded
    <2>1. Superseded'
      BY <1>1, <1>6, <1>9 DEF Superseded, Known, Split
    <2> QED
      BY <1>5, <2>1 DEF Phases
  <1> QED
    BY <1>7, <1>8, <1>9 DEF PInv, Phases

\* Invalidation is what ends the first phase: the entry leaves generation 0 for good.
LEMMA PhaseBump ==
    ASSUME PInv, NEW r \in Requests, NEW i \in Slices, BumpStep(r, i)
    PROVE  Faithful' /\ Phases'
  <1>0. GInv /\ Alone(r, i)
    BY DEF PInv, Alone
  <1>1. /\ UNCHANGED <<pc, plan, mycell, once, origin, store>> /\ got' = got
        /\ pc[r] \in Serving
    <2>1. got' = got
      BY DEF BumpStep, BumpRead, BumpWrite, Unlink
    <2> QED
      BY <1>0, <2>1, AloneFrame DEF requestVars
  <1>2. \A q \in Requests, j \in Slices : (q # r \/ j # i) => task'[q][j] = task[q][j]
    BY <1>0, AloneFrame
  <1>3. task[r][i] \in {"mismatch", "bumping", "unlink"}
    BY DEF BumpStep, BumpRead, BumpWrite, Unlink
  <1>4. plan[r].ver < origin /\ ~Unlearned
    BY <1>1, <1>3 DEF PInv, Faithful, Unlearned
  <1>5. /\ BumpRead(r, i) => task'[r][i] = (IF Known(index) THEN "bumping" ELSE "unlink") /\ old'[r][i] = index
        /\ BumpWrite(r, i) => task'[r][i] = "unlink"
        /\ Unlink(r, i) => task'[r][i] = "failed"
    BY SMTT(60) DEF BumpRead, BumpWrite, Unlink, SetTask, PInv, GInv, Types
  <1>6. \A q \in Requests, j \in Slices : (q # r \/ j # i) => old'[q][j] = old[q][j]
    BY SMTT(60) DEF BumpStep, BumpRead, BumpWrite, Unlink, PInv, GInv, Types
  <1>7. task'[r][i] \in {"bumping", "unlink", "failed"}
    BY <1>5 DEF BumpStep
  <1>8. Faithful'
    <2>1. \A q \in Requests, j \in Slices :
             /\ task'[q][j] = "answered" => plan[q].ver <= got[q][j] /\ got[q][j] <= origin
             /\ task'[q][j] \in {"mismatch", "bumping", "unlink"} => plan[q].ver < origin
             /\ task'[q][j] = "ok" => got[q][j] = plan[q].ver
      BY <1>2, <1>4, <1>7 DEF PInv, Faithful
    <2> QED
      BY <1>1, <2>1 DEF PInv, Faithful
  <1>9. Known(index)
    BY <1>4 DEF PInv, Phases, Original, Superseded
  <1>10. CASE BumpRead(r, i)
    <2>1. task'[r][i] = "bumping" /\ old'[r][i] = index /\ UNCHANGED <<index, cell>>
      BY <1>5, <1>9, <1>10 DEF BumpRead
    <2>2. CASE Original
      <3>1. \A q \in Requests, j \in Slices :
               /\ task'[q][j] = "bumping" => old'[q][j].gen = 0 /\ Known(old'[q][j])
               /\ task'[q][j] # "unlink"
        <4>1. Known(index) /\ index.gen = 0
          BY <2>2 DEF Original
        <4>2. \A q \in Requests, j \in Slices :
                 /\ task[q][j] = "bumping" => old[q][j].gen = 0 /\ Known(old[q][j])
                 /\ task[q][j] # "unlink"
          BY <2>2 DEF Original
        <4> SUFFICES ASSUME NEW q \in Requests, NEW j \in Slices
                     PROVE  /\ task'[q][j] = "bumping" => old'[q][j].gen = 0 /\ Known(old'[q][j])
                            /\ task'[q][j] # "unlink"
          OBVIOUS
        <4>3. CASE q = r /\ j = i
          BY <2>1, <4>1, <4>3
        <4>4. CASE q # r \/ j # i
          <5>1. task'[q][j] = task[q][j] /\ old'[q][j] = old[q][j]
            BY <1>2, <1>6, <4>4
          <5> QED
            BY <4>2, <5>1
        <4> QED
          BY <4>3, <4>4
      <3>2. Original'
        BY <1>1, <2>1, <2>2, <3>1 DEF Original
      <3> QED
        BY <1>8, <3>2 DEF Phases
    <2>3. CASE Superseded
      <3>1. \A q \in Requests, j \in Slices : task'[q][j] = "bumping" => Known(old'[q][j])
        <4>1. \A q \in Requests, j \in Slices : task[q][j] = "bumping" => Known(old[q][j])
          BY <2>3 DEF Superseded
        <4> QED
          BY <1>2, <1>6, <1>9, <2>1, <4>1
      <3>2. Superseded'
        BY <1>1, <2>1, <2>3, <3>1 DEF Superseded, Split
      <3> QED
        BY <1>8, <3>2 DEF Phases
    <2> QED
      BY <1>4, <2>2, <2>3 DEF PInv, Phases
  <1>11. CASE BumpWrite(r, i)
    <2>1. task'[r][i] = "unlink" /\ task[r][i] = "bumping" /\ old' = old
      BY <1>5, <1>11 DEF BumpWrite
    <2>2. Known(old[r][i]) /\ old[r][i] \in Metas
      BY <1>4, <2>1 DEF PInv, Phases, Original, Superseded, GInv, Types
    <2>3. Known(index') /\ index'.gen > 0 /\ index'.stale
      <3>1. index' = [old[r][i] EXCEPT !.gen = @ + 1, !.stale = TRUE] /\ old[r][i].gen \in Nat
        BY <1>11, <2>2, MetaFields DEF BumpWrite
      <3> HIDE DEF Known
      <3>2. index'.ver = old[r][i].ver /\ index'.gen = old[r][i].gen + 1 /\ index'.stale = TRUE
        BY <2>2, <3>1, BumpMeta
      <3> QED
        BY <2>2, <3>1, <3>2, SMTT(60) DEF Known
    <2>4. \A q \in Requests, j \in Slices : task'[q][j] = "bumping" => task[q][j] = "bumping"
      BY <1>2, <2>1
    <2>5. CASE Original
      <3>1. index.ver = 1 /\ origin = 2
        <4>1. index.ver \in Versions /\ origin \in Versions
          BY <1>9, MetaFields DEF PInv, GInv, Types
        <4>2. index.ver < origin
          BY <1>1, <1>4, <2>5 DEF Original
        <4>3. origin <= 2
          BY DEF PInv, Undisturbed
        <4> QED
          BY <4>1, <4>2, <4>3, BoundsNat, SMTT(60) DEF Versions
      <3>2. \A q \in Requests, j \in Slices : task'[q][j] = "bumping" => Known(old'[q][j])
        BY <2>1, <2>4, <2>5 DEF Original
      <3>3. \A q \in Requests :
               /\ once[q].state = "set" => Split(once[q].meta.gen, once[q].meta.ver)
               /\ pc[q] \in Serving \cup {"touch"} => Split(plan[q].gen, plan[q].ver)
               /\ pc[q] \notin Probing
        BY <2>5, <3>1 DEF Original, Split
      <3>4. \A k \in DOMAIN store : Split(k[1], store[k].body)
        BY <2>5, <3>1 DEF Original, Split
      <3>5. Superseded'
        BY <1>1, <2>3, <3>1, <3>2, <3>3, <3>4 DEF Superseded, Split, Probing
      <3> QED
        BY <1>8, <3>5 DEF Phases
    <2>6. CASE Superseded
      <3>1. \A q \in Requests, j \in Slices : task'[q][j] = "bumping" => Known(old'[q][j])
        BY <2>1, <2>4, <2>6 DEF Superseded
      <3>2. Superseded'
        BY <1>1, <2>3, <2>6, <3>1 DEF Superseded, Split
      <3> QED
        BY <1>8, <3>2 DEF Phases
    <2> QED
      BY <1>4, <2>5, <2>6 DEF PInv, Phases
  <1>12. CASE Unlink(r, i)
    <2>1. task'[r][i] = "failed" /\ task[r][i] = "unlink" /\ index' = index
      BY <1>5, <1>12 DEF Unlink
    <2>2. Superseded
      BY <1>4, <2>1 DEF PInv, Phases, Original
    <2>3. \A q \in Requests, j \in Slices : task'[q][j] = "bumping" => Known(old'[q][j])
      BY <1>2, <1>6, <2>1, <2>2 DEF Superseded
    <2>4. Superseded'
      BY <1>1, <2>1, <2>2, <2>3 DEF Superseded, Known, Split
    <2> QED
      BY <1>8, <2>4 DEF Phases
  <1> QED
    BY <1>10, <1>11, <1>12 DEF BumpStep

\* A fetch that lands stores and hands out the version of the plan, or fails.
LEMMA PhaseLanding ==
    ASSUME PInv, NEW r \in Requests, NEW i \in Slices, Landing(r, i)
    PROVE  Faithful' /\ Phases'
  <1>0. GInv
    BY DEF PInv
  <1>1. /\ UNCHANGED <<pc, plan, mycell, once, index, origin, old, cell>>
        /\ task[r][i] \in {"fetching", "answered"}
    BY <1>0, LandingEffect DEF requestVars
  <1>2. pc[r] \in Serving /\ ~Unlearned
    BY <1>0, <1>1 DEF GInv, Grounded, Unlearned, NoTask
  <1>3. /\ \A q \in Requests, j \in Slices :
              (q # r \/ j # i) /\ ~Waits(q, j, r, i) =>
                 task'[q][j] = task[q][j] /\ got'[q][j] = got[q][j]
        /\ \A q \in Requests, j \in Slices :
              Waits(q, j, r, i) => task'[q][j] \in {"ok", "fallback", "failed"}
    BY <1>0, LandingEffect
  <1>4. task'[r][i] \in {"ok", "mismatch", "fallback", "failed"}
    BY <1>0, LandingEffect
  <1>5. \A q \in Requests, j \in Slices : Waits(q, j, r, i) => pc[q] \in Serving /\ plan[q].ver = plan[r].ver
    <2>1. \A q \in Requests, j \in Slices : Waits(q, j, r, i) => pc[q] \in Serving /\ plan[q].gen = plan[r].gen
      BY <1>0 DEF Waits, Key, GInv, Grounded, NoTask
    <2> QED
      BY <1>2, <2>1, GenerationTells
  <1>6. /\ FetchMatch(r, i) => got[r][i] = plan[r].ver
        /\ FetchMismatch(r, i) => plan[r].ver < origin
        /\ task'[r][i] = "ok" \/ (\E q \in Requests, j \in Slices : Waits(q, j, r, i) /\ task'[q][j] = "ok")
              => FetchMatch(r, i)
        /\ task'[r][i] = "mismatch" => FetchMismatch(r, i)
    <2>1. ASSUME task[r][i] = "answered"
          PROVE  /\ SameEntity(plan[r].ver, got[r][i]) <=> plan[r].ver = got[r][i]
                 /\ plan[r].ver <= got[r][i] /\ got[r][i] <= origin
                 /\ plan[r].ver \in Nat /\ got[r][i] \in Nat /\ origin \in Nat
      <3>1. plan[r].ver \in Versions /\ got[r][i] \in Versions
        BY <1>0, <2>1, AnsweredVersions
      <3>2. plan[r].ver <= got[r][i] /\ got[r][i] <= origin
        BY <2>1 DEF PInv, Faithful
      <3> QED
        <4>2. origin \in Versions
          BY <1>0 DEF GInv, Types
        <4>3. Versions \subseteq Nat
          BY BoundsNat, SMTT(60) DEF Versions
        <4>4. \A v, w \in Versions : v <= w /\ w <= origin => v \in 1 .. origin /\ w \in 1 .. origin
          BY <4>2, BoundsNat, SMTT(60) DEF Versions
        <4>1. SameEntity(plan[r].ver, got[r][i]) <=> plan[r].ver = got[r][i]
          BY <3>1, <3>2, <4>4 DEF SameEntity, PInv, Undisturbed
        <4> QED
          BY <3>1, <3>2, <4>1, <4>2, <4>3
    <2>2. FetchMatch(r, i) => got[r][i] = plan[r].ver
      BY <2>1 DEF FetchMatch
    <2>3. FetchMismatch(r, i) => plan[r].ver < origin
      <3>1. \A u, v, w \in Nat : u # v /\ u <= v /\ v <= w => u < w
        BY SMTT(60)
      <3> QED
        BY <2>1, <3>1 DEF FetchMismatch
    <2>4. CASE FetchMatch(r, i)
      <3>1. task'[r][i] = "ok"
        BY <2>4 DEF FetchMatch, StoreSlice, SetTasks
      <3> QED
        BY <2>2, <2>3, <2>4, <3>1
    <2>5. CASE FetchMismatch(r, i)
      <3>1. task'[r][i] = "mismatch" /\ \A q \in Requests, j \in Slices : Waits(q, j, r, i) => task'[q][j] = "failed"
        BY <1>1, <2>5 DEF FetchMismatch, Waits, Waiting, Tasks
      <3> QED
        BY <2>2, <2>3, <2>5, <3>1
    <2>6. CASE FetchFail(r, i)
      <3>1. PICK error \in Errors :
               task' = [q \in Requests |-> [j \in Slices |->
                          IF <<q, j>> \in Waiting(r, i) \cup {<<r, i>>} THEN AfterError(error) ELSE task[q][j]]]
        BY <2>6 DEF FetchFail, SetTasks
      <3>2. AfterError(error) \in {"fallback", "failed"}
        BY DEF AfterError
      <3>3. task'[r][i] = AfterError(error)
            /\ \A q \in Requests, j \in Slices : Waits(q, j, r, i) => task'[q][j] = AfterError(error)
        BY <3>1 DEF Waits, Waiting, Tasks
      <3> QED
        BY <2>2, <2>3, <3>2, <3>3
    <2> QED
      BY <2>4, <2>5, <2>6 DEF Landing
  <1>7. FetchMatch(r, i) =>
           /\ got'[r][i] = plan[r].ver
           /\ \A q \in Requests, j \in Slices : Waits(q, j, r, i) => got'[q][j] = plan[r].ver
    <2> SUFFICES ASSUME FetchMatch(r, i)
                 PROVE  /\ got'[r][i] = plan[r].ver
                        /\ \A q \in Requests, j \in Slices :
                              Waits(q, j, r, i) => got'[q][j] = plan[r].ver
      OBVIOUS
    <2> DEFINE done == Waiting(r, i) \cup {<<r, i>>}
    <2>1. \A q \in Requests, j \in Slices : Waits(q, j, r, i) => <<q, j>> \in done
      BY DEF Waits, Waiting, Tasks
    <2>2. <<r, i>> \in done
      OBVIOUS
    <2>3. got' = [q \in Requests |-> [j \in Slices |-> IF <<q, j>> \in done THEN got[r][i] ELSE got[q][j]]]
      BY DEF FetchMatch, StoreSlice
    <2> HIDE DEF done
    <2>4. \A q \in Requests, j \in Slices : <<q, j>> \in done => got'[q][j] = got[r][i]
      BY <2>3
    <2> QED
      BY <1>6, <2>1, <2>2, <2>4
  <1>8. Faithful'
    <2>1. ASSUME NEW q \in Requests, NEW j \in Slices
          PROVE  /\ task'[q][j] = "answered" => plan[q].ver <= got'[q][j] /\ got'[q][j] <= origin
                 /\ task'[q][j] \in {"mismatch", "bumping", "unlink"} => plan[q].ver < origin
                 /\ task'[q][j] = "ok" => got'[q][j] = plan[q].ver
      <3>1. CASE q = r /\ j = i
        BY <1>4, <1>6, <1>7, <3>1
      <3>2. CASE (q # r \/ j # i) /\ ~Waits(q, j, r, i)
        BY <1>3, <3>2, SMTT(60) DEF PInv, Faithful
      <3>3. CASE Waits(q, j, r, i)
        BY <1>3, <1>5, <1>6, <1>7, <3>3
      <3> QED
        BY <3>1, <3>2, <3>3
    <2> QED
      BY <1>1, <2>1 DEF PInv, Faithful
  <1>9. \A q \in Requests, j \in Slices :
           task'[q][j] \in {"bumping", "unlink"} => task'[q][j] = task[q][j]
    BY <1>3, <1>4
  <1>10. \/ store' = store
         \/ \A k \in DOMAIN store' : \/ k \in DOMAIN store /\ store'[k] = store[k]
                                     \/ k[1] = plan[r].gen /\ store'[k].body = plan[r].ver
    <2>1. CASE FetchMatch(r, i)
      <3>1. store' = With(store, Key(r, i), [header |-> plan[r].ver, body |-> plan[r].ver])
        BY <1>6, <2>1 DEF FetchMatch, StoreSlice
      <3> QED
        BY <3>1, SMTT(60) DEF With, Key
    <2> QED
      BY <2>1 DEF Landing, FetchMismatch, FetchFail
  <1>11. CASE Original
    <2>1. \A k \in DOMAIN store' : k[1] = 0 /\ store'[k].body = index.ver
      BY <1>2, <1>10, <1>11 DEF Original
    <2>2. Original'
      BY <1>1, <1>9, <1>11, <2>1, OriginalKept
    <2> QED
      BY <1>8, <2>2 DEF Phases
  <1>12. CASE Superseded
    <2>1. \A k \in DOMAIN store' : Split(k[1], store'[k].body)
      BY <1>2, <1>10, <1>12 DEF Superseded
    <2>2. Superseded'
      BY <1>1, <1>9, <1>12, <2>1 DEF Superseded, Known, Split
    <2> QED
      BY <1>8, <2>2 DEF Phases
  <1> QED
    BY <1>2, <1>11, <1>12 DEF PInv, Phases

\* All that is left of the world outside is one new version, and eviction.
LEMMA PhaseWorld == ASSUME PInv, World, Undisturbed' PROVE Faithful' /\ Phases'
  <1>1. OriginChange \/ \E k \in DOMAIN store : Evict(k)
    <2>1. 0 + 1 # 0
      BY SMTT(60)
    <2>2. /\ purges = 0 /\ restarts = 0 /\ hour = 0 /\ purging = FALSE
          /\ purges' = 0 /\ restarts' = 0 /\ hour' = 0
      BY DEF PInv, Undisturbed
    <2>3. ~HourPasses /\ ~Restart /\ ~PurgeSlices /\ ~PurgeIndex
      BY <2>1, <2>2 DEF HourPasses, Restart, PurgeSlices, PurgeIndex
    <2> QED
      BY <2>3 DEF World
  <1>2. /\ UNCHANGED <<index, cell, once, pc, mycell, plan, task, got, old, purges, restarts, hour, purging>>
        /\ \/ origin' = origin + 1 /\ origin < MaxVersion /\ store' = store
           \/ origin' = origin /\ \E k : store' = Without(store, {k})
    BY <1>1 DEF OriginChange, Evict, requestVars, taskVars, adminVars
  <1>3. \A k \in DOMAIN store' : k \in DOMAIN store /\ store'[k] = store[k]
    BY <1>2 DEF Without
  <1>4. /\ origin \in Nat /\ origin' \in Nat /\ origin <= origin'
        /\ origin = 2 => origin' = 2
        /\ \A r \in Requests : plan[r].ver \in Nat
        /\ \A r \in Requests, i \in Slices : got[r][i] \in Nat
        /\ index.ver \in Nat
    <2>1. origin \in Versions /\ index \in Metas /\ \A r \in Requests : plan[r] \in Metas
      BY DEF PInv, GInv, Types
    <2>2. \A r \in Requests, i \in Slices : got[r][i] \in 0 .. MaxVersion
      BY DEF PInv, GInv, Types
    <2>3. \A m \in Metas : m.ver \in Nat
      BY MetaFields, BoundsNat, SMTT(60)
    <2> QED
      <3>1. origin \in 1 .. MaxVersion /\ MaxVersion \in Nat /\ origin' <= 2
        BY <2>1, BoundsNat DEF Versions, Undisturbed
      <3>2. origin' = origin \/ (origin' = origin + 1 /\ origin < MaxVersion)
        BY <1>2
      <3>3. origin \in Nat /\ origin' \in Nat /\ origin <= origin' /\ (origin = 2 => origin' = 2)
        BY <3>1, <3>2, SMTT(60)
      <3>4. 0 .. MaxVersion \subseteq Nat
        BY <3>1, SMTT(60)
      <3> QED
        BY <2>1, <2>2, <2>3, <3>3, <3>4
  <1>6. Faithful'
    <2>1. \A v, w \in Nat : v <= w /\ w <= origin => w <= origin'
      BY <1>4, SMTT(60)
    <2>2. \A v \in Nat : (v <= origin => v <= origin') /\ (v < origin => v < origin')
      BY <1>4, SMTT(60)
    <2> QED
      BY <1>2, <1>4, <2>2 DEF PInv, Faithful
  <1>7. CASE Unlearned
    <2>1. Unlearned'
      <3>1. \A k \in DOMAIN store' :
               k[1] = 0 /\ \E r \in Requests : pc[r] = "putting" /\ store'[k].body = plan[r].ver
        BY <1>3, <1>7 DEF Unlearned
      <3> QED
        BY <1>2, <1>7, <3>1 DEF Unlearned
    <2> QED
      BY <1>6, <2>1 DEF Phases
  <1>8. CASE Original
    <2>1. Original'
      <3>1. \A k \in DOMAIN store' : k[1] = 0 /\ store'[k].body = index.ver
        BY <1>3, <1>8 DEF Original
      <3>2. index.ver <= origin
        BY <1>8 DEF Original
      <3>3. index.ver <= origin'
        <4> DEFINE v == index.ver
        <4>1. v \in Nat /\ origin \in Nat /\ origin' \in Nat /\ v <= origin /\ origin <= origin'
          BY <1>4, <3>2
        <4> HIDE DEF v
        <4>2. v <= origin'
          BY <4>1, SMTT(60)
        <4> QED
          BY <4>2 DEF v
      <3> QED
        BY <1>2, <1>8, <3>1, <3>3 DEF Original
    <2> QED
      BY <1>6, <2>1 DEF Phases
  <1>9. CASE Superseded
    <2>1. Superseded'
      BY <1>2, <1>3, <1>4, <1>9 DEF Superseded, Known, Split
    <2> QED
      BY <1>6, <2>1 DEF Phases
  <1> QED
    BY <1>7, <1>8, <1>9 DEF PInv, Phases

\* What a step does to the disturbances so far.
LEMMA Disturbances ==
    ASSUME [Next]_vars
    PROVE  \/ UNCHANGED <<origin, purges, restarts, hour, purging>>
           \/ OriginChange \/ HourPasses \/ Restart \/ PurgeSlices \/ PurgeIndex
  <1>1. ASSUME NEW r \in Requests, Lookup(r) \/ RequestStep(r) \/ DropWaiter(r) \/ DropBody(r)
        PROVE  UNCHANGED <<origin, purges, restarts, hour, purging>>
    BY <1>1 DEF Lookup, RequestStep, TouchStep, CellStep, ProbeStep, TouchSkip, TouchRead, TouchWrite,
           JoinCell, CellReady, ProbeStart, ProbeFetch, ProbeFail, ProbeRead, ProbeStore, ProbePut,
           Finish, DropWaiter, DropBody, adminVars
  <1>2. ASSUME NEW r \in Requests, NEW i \in Slices, SliceStep(r, i)
        PROVE  UNCHANGED <<origin, purges, restarts, hour, purging>>
    BY <1>2 DEF SliceStep, StartStep, FetchStep, BumpStep, SliceHit, SliceJoin, SliceLead, FetchAnswer,
           FetchMatch, FetchMismatch, FetchFail, Fallback, BumpRead, BumpWrite, Unlink, adminVars
  <1>3. ASSUME NEW k \in DOMAIN store, Evict(k)
        PROVE  UNCHANGED <<origin, purges, restarts, hour, purging>>
    BY <1>3 DEF Evict, adminVars
  <1>4. CASE UNCHANGED vars
    BY <1>4 DEF vars, adminVars
  <1> QED
    BY <1>1, <1>2, <1>3, <1>4 DEF Next

\* A purge in progress has been counted.
Counted == purges \in Nat /\ restarts \in Nat /\ (purging => purges # 0)

LEMMA CountedStep == ASSUME Counted, [Next]_vars PROVE Counted'
  <1>1. /\ purges \in Nat => purges + 1 \in Nat /\ purges + 1 # 0
        /\ restarts \in Nat => restarts + 1 \in Nat
    BY SMTT(60)
  <1>2. CASE UNCHANGED <<origin, purges, restarts, hour, purging>>
    BY <1>2 DEF Counted
  <1>3. CASE OriginChange \/ HourPasses
    <2>1. UNCHANGED <<purges, restarts, purging>>
      BY <1>3 DEF OriginChange, HourPasses, adminVars
    <2> QED
      BY <2>1 DEF Counted
  <1>4. CASE Restart
    BY <1>1, <1>4 DEF Counted, Restart
  <1>5. CASE PurgeSlices
    BY <1>1, <1>5 DEF Counted, PurgeSlices
  <1>6. CASE PurgeIndex
    BY <1>6 DEF Counted, PurgeIndex
  <1> QED
    BY <1>2, <1>3, <1>4, <1>5, <1>6, Disturbances

\* A disturbance is never taken back.
LEMMA UndisturbedBefore == ASSUME Types, Counted, [Next]_vars, Undisturbed' PROVE Undisturbed
  <1>1. /\ origin \in Nat /\ hour \in Nat
        /\ purges \in Nat /\ restarts \in Nat /\ (purging => purges # 0)
    BY BoundsNat, SMTT(60) DEF Types, Versions, Counted
  <1>2. \A n \in Nat : n + 1 # 0
    BY SMTT(60)
  <1>3. /\ UNCHANGED <<purges, restarts, hour, purging>>
        /\ origin' = origin \/ origin' = origin + 1
    <2>1. CASE UNCHANGED <<origin, purges, restarts, hour, purging>>
      BY <2>1
    <2>2. CASE OriginChange
      BY <2>2 DEF OriginChange, adminVars
    <2>3. CASE HourPasses \/ Restart \/ PurgeSlices \/ PurgeIndex
      BY <1>1, <1>2, <2>3 DEF HourPasses, Restart, PurgeSlices, PurgeIndex, Undisturbed
    <2> QED
      BY <2>1, <2>2, <2>3, Disturbances
  <1>4. origin' <= 2
    BY DEF Undisturbed
  <1>5. origin <= 2 /\ 1 .. origin \subseteq 1 .. origin'
    BY <1>1, <1>3, <1>4, SMTT(60)
  <1> QED
    BY <1>3, <1>5 DEF Undisturbed

\* The versions and generations are in order until the first disturbance.
UInv == GInv /\ Led /\ Cells /\ Counted /\ (Undisturbed => Faithful /\ Phases)

LEMMA PhaseInvariance == Spec => []UInv
  <1>1. Init => Counted /\ Faithful /\ Phases
    <2> SUFFICES ASSUME Init PROVE Counted /\ Faithful /\ Phases
      OBVIOUS
    <2>1. Counted
      BY DEF Init, Counted
    <2>2. Faithful
      BY DEF Init, Faithful, Serving, NoTask
    <2>3. Unlearned
      BY DEF Init, Unlearned, Serving, Probing
    <2> QED
      BY <2>1, <2>2, <2>3 DEF Phases
  <1>2. UInv /\ [Next]_vars => Counted' /\ (Undisturbed' => Faithful' /\ Phases')
    <2> SUFFICES ASSUME UInv, [Next]_vars, Undisturbed' PROVE Faithful' /\ Phases'
      BY CountedStep DEF UInv
    <2>1. PInv
      BY UndisturbedBefore DEF UInv, GInv, PInv
    <2>2. ASSUME NEW r \in Requests, Lookup(r) \/ RequestStep(r) \/ DropWaiter(r) \/ DropBody(r)
          PROVE  Faithful' /\ Phases'
      BY <2>1, <2>2, PhaseOwn, PhaseJoin, PhaseProbeStart, PhaseProbeStore, PhaseProbePut, PhaseFinish
         DEF RequestStep, CellStep, ProbeStep
    <2>3. ASSUME NEW r \in Requests, NEW i \in Slices, SliceStep(r, i)
          PROVE  Faithful' /\ Phases'
      BY <2>1, <2>3, PhaseTask, PhaseBump, PhaseLanding DEF SliceStep, FetchStep, Landing
    <2>4. CASE UNCHANGED vars
      <3>1. UNCHANGED <<origin, index, store, cell, once, pc, mycell, plan, task, got, old>>
        BY <2>4 DEF vars, requestVars, taskVars
      <3>2. Faithful'
        BY <2>1, <3>1 DEF PInv, Faithful
      <3>3. (Unlearned => Unlearned') /\ (Original => Original') /\ (Superseded => Superseded')
        BY <3>1 DEF Unlearned, Original, Superseded, Known, Split
      <3> QED
        BY <2>1, <3>2, <3>3 DEF PInv, Phases
    <2>5. CASE World
      BY <2>1, <2>5, PhaseWorld
    <2> QED
      BY <2>2, <2>3, <2>4, <2>5 DEF Next, World
  <1> QED
    BY <1>1, <1>2, OneProberPerCell, PTL DEF Spec, UInv

\* orchestrator/mod.rs, bump_generation, "no window in which a response could mix versions": until
\* the object is purged, due for a touch, caught by a crash or changed a second time, and while its
\* validators are exact, every slice a client receives is of the version its headers carry, however
\* many requests overlap, fail, are dropped or race with eviction and invalidation.
THEOREM NoMixedResponseHolds == Spec => [](Undisturbed => NoMixedResponse)
  <1>1. PInv => NoMixedResponse
    <2> SUFFICES ASSUME PInv, NEW r \in Requests, NEW i \in Delivered(r) PROVE got[r][i] = plan[r].ver
      BY DEF NoMixedResponse
    <2>1. span[r] \in SUBSET Slices
      BY DEF PInv, GInv, Types
    <2>2. i \in span[r] /\ i \in Slices
      BY <2>1 DEF Delivered
    <2>3. i \in span[r] /\ i <= i
      BY <2>2, SlicesNat, SMTT(60)
    <2>4. i \in Slices /\ task[r][i] = "ok"
      BY <2>1, <2>3 DEF Delivered
    <2> QED
      BY <2>4 DEF PInv, Faithful
  <1>2. UInv => (Undisturbed => NoMixedResponse)
    BY <1>1 DEF UInv, PInv
  <1> QED
    BY <1>2, PhaseInvariance, PTL

\* store/index.rs, ObjectMeta::stale: until the same disturbances a generation stands for one
\* version, in the index, the cells, the plans and the store, which is what makes a slice key safe
\* to hit.
THEOREM GenerationIsOneVersionHolds == Spec => [](Undisturbed => GenerationIsOneVersion)
  <1>1. PInv => GenerationIsOneVersion
    <2> DEFINE stages == {"storing", "putting", "serving", "gone"}
               planned == {q \in Requests : pc[q] \in stages}
               named == {m \in {index} \cup {once[r].meta : r \in Requests} \cup {plan[r] : r \in planned} :
                            Known(m) /\ ~m.stale}
               pairs == {<<m.gen, m.ver>> : m \in named} \cup {<<k[1], store[k].body>> : k \in DOMAIN store}
    <2> SUFFICES ASSUME PInv PROVE \A p, q \in pairs : p[1] = q[1] => p[2] = q[2]
      BY DEF GenerationIsOneVersion
    <2>1. \A r \in Requests : Known(once[r].meta) => once[r].state = "set"
      <3>1. \A r \in Requests : once[r].state # "set" => once[r].meta = Unknown
        BY DEF PInv, Cells
      <3> QED
        BY <3>1, UnknownMeta
    <2>2. CASE Unlearned
      <3>1. \A r \in planned : pc[r] \in Probing /\ plan[r].gen = 0 /\ mycell[r] = cell
        BY <2>2 DEF Unlearned, Serving, Probing
      <3>2. ASSUME NEW q \in planned, NEW r \in planned PROVE q = r
        <4>1. /\ q \in Requests /\ r \in Requests /\ mycell[q] = mycell[r]
              /\ pc[q] \in Probing /\ pc[r] \in Probing
          BY <3>1
        <4> QED
          BY <4>1 DEF PInv, Cells
      <3>3. \A m \in named : \E r \in planned : m = plan[r]
        BY <2>1, <2>2, UnknownMeta DEF Unlearned
      <3>4. \A k \in DOMAIN store : k[1] = 0 /\ \E r \in planned : store[k].body = plan[r].ver
        BY <2>2 DEF Unlearned
      <3>5. \A p \in pairs : p[1] = 0 /\ \E r \in planned : p[2] = plan[r].ver
        BY <3>1, <3>3, <3>4, SMTT(60)
      <3> HIDE DEF pairs, planned
      <3> QED
        BY <3>2, <3>5
    <2>3. CASE Original
      <3>1. \A m \in named : m.gen = 0 /\ m.ver = index.ver
        BY <2>1, <2>3, SMTT(60) DEF Original, Serving, Probing
      <3>2. \A k \in DOMAIN store : k[1] = 0 /\ store[k].body = index.ver
        BY <2>3 DEF Original
      <3>3. \A p \in pairs : p[1] = 0 /\ p[2] = index.ver
        BY <3>1, <3>2, SMTT(60)
      <3> HIDE DEF pairs
      <3> QED
        BY <3>3
    <2>4. CASE Superseded
      <3>1. \A m \in named : Split(m.gen, m.ver)
        <4>1. ~index.stale => Split(index.gen, index.ver)
          BY <2>4, SMTT(60) DEF Superseded, Split
        <4> QED
          BY <2>1, <2>4, <4>1 DEF Superseded, Serving
      <3>2. \A p \in pairs : Split(p[1], p[2])
        BY <2>4, <3>1, SMTT(60) DEF Superseded
      <3> HIDE DEF pairs
      <3> QED
        BY <3>2 DEF Split
    <2> QED
      BY <2>2, <2>3, <2>4 DEF PInv, Phases
  <1>2. UInv => (Undisturbed => GenerationIsOneVersion)
    BY <1>1 DEF UInv, PInv
  <1> QED
    BY <1>2, PhaseInvariance, PTL
-----------------------------------------------------------------------------
(***************************************************************************)
(* The refinement: what a step may do to a response in progress.           *)
(***************************************************************************)
\* The step leaves the response of q as it is, or only hands it slices.
Kept(q) ==
    /\ pc'[q] = pc[q] /\ plan'[q] = plan[q] /\ span'[q] = span[q]
    /\ \A j \in Slices : task[q][j] = "ok" => task'[q][j] = "ok" /\ got'[q][j] = got[q][j]

\* The step is the request's own: its response begins, is over, or is still to come.
Turned(q) ==
    \/ pc'[q] \in {"gone", "ended"}
    \/ /\ pc[q] \notin {"serving", "gone", "ended"}
       /\ pc'[q] # "serving"
    \/ /\ pc[q] \notin {"serving", "gone", "ended"} /\ pc'[q] = "serving"
       /\ task'[q] = task[q]

LEMMA RequestTurns ==
    ASSUME GInv, NEW r \in Requests, Lookup(r) \/ RequestStep(r) \/ DropWaiter(r) \/ DropBody(r)
    PROVE  \A q \in Requests : Kept(q) \/ Turned(q)
  <1> USE DEF Goto
  <1>0. /\ DOMAIN pc = Requests /\ DOMAIN plan = Requests /\ DOMAIN span = Requests
        /\ DOMAIN task = Requests /\ DOMAIN got = Requests
    BY DEF GInv, Types
  <1>1. CASE Lookup(r) \/ JoinCell(r) \/ TouchStep(r) \/ CellReady(r)
    <2>1. /\ \A q \in Requests \ {r} : pc'[q] = pc[q] /\ plan'[q] = plan[q] /\ span'[q] = span[q]
          /\ UNCHANGED <<task, got>>
      BY <1>0, <1>1 DEF Lookup, JoinCell, TouchStep, TouchSkip, TouchRead, TouchWrite, CellReady, taskVars
    <2>2. pc[r] \in {"idle", "miss", "touch", "touching", "cell"}
      BY <1>1 DEF Lookup, JoinCell, TouchStep, TouchSkip, TouchRead, TouchWrite, CellReady
    <2>3. Turned(r)
      BY <2>1, <2>2 DEF Turned
    <2> QED
      BY <2>1, <2>3 DEF Kept
  <1>2. CASE ProbeStart(r) \/ ProbeStep(r)
    <2>1. /\ \A q \in Requests \ {r} : pc'[q] = pc[q] /\ plan'[q] = plan[q] /\ span'[q] = span[q]
          /\ UNCHANGED <<task, got>>
      BY <1>0, <1>2 DEF ProbeStart, ProbeStep, ProbeFetch, ProbeFail, ProbeRead, ProbeStore, ProbePut, taskVars
    <2>2. pc[r] \in {"cell", "probing", "probed", "storing", "putting"}
      BY <1>2 DEF ProbeStart, ProbeStep, ProbeFetch, ProbeFail, ProbeRead, ProbeStore, ProbePut
    <2>3. Turned(r)
      BY <2>1, <2>2 DEF Turned
    <2> QED
      BY <2>1, <2>3 DEF Kept
  <1>3. CASE Finish(r) \/ DropWaiter(r) \/ DropBody(r)
    <2>1. /\ \A q \in Requests \ {r} : /\ pc'[q] = pc[q] /\ plan'[q] = plan[q] /\ span'[q] = span[q]
                                       /\ task'[q] = task[q] /\ got'[q] = got[q]
          /\ pc'[r] \in {"gone", "ended"}
      BY <1>0, <1>3 DEF Finish, DropWaiter, DropBody, taskVars
    <2> QED
      BY <2>1 DEF Kept, Turned
  <1> QED
    BY <1>1, <1>2, <1>3 DEF RequestStep, CellStep

LEMMA SliceKeeps ==
    ASSUME GInv, NEW r \in Requests, NEW i \in Slices, SliceStep(r, i)
    PROVE  \A q \in Requests : Kept(q)
  <1>1. CASE Landing(r, i)
    <2>1. UNCHANGED <<pc, plan, span>> /\ task[r][i] # "ok"
      BY <1>1, LandingEffect DEF requestVars
    <2>2. \A q \in Requests, j \in Slices :
             (q # r \/ j # i) /\ ~Waits(q, j, r, i) =>
                task'[q][j] = task[q][j] /\ got'[q][j] = got[q][j]
      BY <1>1, LandingEffect
    <2> QED
      BY <2>1, <2>2 DEF Kept, Waits
  <1>2. CASE Alone(r, i)
    <2>1. UNCHANGED <<pc, plan, span>>
      BY <1>2, AloneFrame DEF requestVars
    <2>2. task[r][i] # "ok"
      BY <1>2, AloneMove DEF NoTask
    <2>3. \A q \in Requests, j \in Slices :
             (q # r \/ j # i) => task'[q][j] = task[q][j] /\ got'[q][j] = got[q][j]
      BY <1>2, AloneFrame
    <2> QED
      BY <2>1, <2>2, <2>3 DEF Kept
  <1> QED
    BY <1>1, <1>2 DEF SliceStep, FetchStep, Landing, Alone

LEMMA StepTurns == ASSUME GInv, [Next]_vars, NEW q \in Requests PROVE Kept(q) \/ Turned(q)
  <1>1. CASE World /\ ~Restart
    BY <1>1 DEF World, OriginChange, HourPasses, Evict, PurgeSlices, PurgeIndex, requestVars, taskVars, Kept
  <1>2. CASE Restart
    BY <1>2 DEF Restart, Turned
  <1>3. CASE UNCHANGED vars
    BY <1>3 DEF vars, requestVars, taskVars, Kept
  <1> QED
    BY <1>1, <1>2, <1>3, RequestTurns, SliceKeeps DEF Next, World

\* A response that goes on has all it had, and what is new comes after it.
LEMMA DeliveredGrows ==
    ASSUME GInv, NEW q \in Requests, Kept(q)
    PROVE  /\ Delivered(q) \subseteq Delivered(q)' /\ Delivered(q)' \subseteq Slices
           /\ \A j \in Delivered(q) : got'[q][j] = got[q][j]
           /\ \A i \in Delivered(q)' \ Delivered(q), j \in Delivered(q) : j < i
           /\ \A i \in Delivered(q)' : task'[q][i] = "ok"
  <1>1. span[q] \subseteq Slices /\ Slices \subseteq Nat
    BY SlicesNat DEF GInv, Types
  <1>2. ASSUME NEW i \in Delivered(q)
        PROVE  i \in span[q] /\ task[q][i] = "ok" /\ \A j \in span[q] : j <= i => task[q][j] = "ok"
    <2>1. i \in span[q] /\ \A j \in span[q] : j <= i => task[q][j] = "ok"
      BY DEF Delivered
    <2>2. i \in Nat
      BY <1>1, <2>1
    <2>3. i <= i
      BY <2>2, SMTT(60)
    <2> QED
      BY <2>1, <2>3
  <1>3. Delivered(q) \subseteq Delivered(q)'
    BY <1>1 DEF Delivered, Kept
  <1>4. ASSUME NEW i \in Delivered(q)' PROVE i \in span[q] /\ task'[q][i] = "ok"
    <2>1. i \in span[q] /\ \A j \in span[q] : j <= i => task'[q][j] = "ok"
      BY DEF Delivered, Kept
    <2>2. i \in Nat
      BY <1>1, <2>1
    <2>3. i <= i
      BY <2>2, SMTT(60)
    <2> QED
      BY <2>1, <2>3
  <1>5. ASSUME NEW i \in span[q], NEW j \in Delivered(q), i <= j PROVE i \in Delivered(q)
    <2>1. i \in Nat /\ j \in Nat /\ \A k \in span[q] : k \in Nat
      BY <1>1, <1>2
    <2>2. \A k \in span[q] : k <= i => k <= j
      BY <1>5, <2>1, SMTT(60)
    <2>3. \A k \in span[q] : k <= j => task[q][k] = "ok"
      BY <1>2
    <2> QED
      BY <2>2, <2>3 DEF Delivered
  <1>6. ASSUME NEW i \in Delivered(q)' \ Delivered(q), NEW j \in Delivered(q) PROVE j < i
    <2>1. i \in Nat /\ j \in Nat /\ ~(i <= j)
      BY <1>1, <1>2, <1>4, <1>5
    <2> QED
      BY <2>1, SMTT(60)
  <1>7. \A j \in Delivered(q) : got'[q][j] = got[q][j]
    BY <1>1, <1>2 DEF Kept
  <1> QED
    BY <1>1, <1>3, <1>4, <1>6, <1>7

\* Steps between two undisturbed states are steps of the contract.
LEMMA ContractSteps ==
    PInv /\ PInv' /\ [Next]_vars => [Client!Next]_[r \in Requests |-> Response(r)]
  <1> SUFFICES ASSUME PInv, PInv', [Next]_vars, NEW q \in Requests
               PROVE  \/ Response(q)' = Response(q)
                      \/ Client!Begins(Response(q), Response(q)')
                      \/ Client!Continues(Response(q), Response(q)')
                      \/ Client!Ends(Response(q), Response(q)')
    BY DEF Client!Next
  <1>0. GInv /\ GInv'
    BY DEF PInv
  <1>1. CASE pc'[q] \in {"gone", "ended"}
    BY <1>1 DEF Response, Client!Ends, Client!Over
  <1>2. CASE /\ pc[q] \notin {"serving", "gone", "ended"}
             /\ pc'[q] \notin {"serving", "gone", "ended"}
    BY <1>2 DEF Response
  <1>3. CASE pc[q] \notin {"serving", "gone", "ended"} /\ pc'[q] = "serving" /\ task'[q] = task[q]
    <2>1. \A i \in Slices : task'[q][i] = NoTask
      BY <1>0, <1>3 DEF GInv, Grounded, Serving
    <2>2. Delivered(q)' = {}
      <3>1. span'[q] \subseteq Slices /\ Slices \subseteq Nat
        BY <1>0, SlicesNat DEF GInv, Types
      <3>2. ASSUME NEW i \in span'[q] PROVE i <= i /\ task'[q][i] # "ok"
        <4>1. i \in Nat /\ i \in Slices
          BY <3>1
        <4> QED
          BY <2>1, <4>1, SMTT(60) DEF NoTask
      <3> QED
        BY <3>2 DEF Delivered
    <2>3. plan'[q].ver \in Versions
      <3>1. plan'[q] \in Metas /\ Known(plan'[q])
        BY <1>0, <1>3 DEF GInv, Types, Grounded, Serving, Known
      <3> QED
        BY <3>1, MetaFields
    <2>4. Response(q) = Client!Waiting
      BY <1>3 DEF Response, Client!Waiting
    <2>5. Response(q)' = [status |-> "streaming", promised |-> plan'[q].ver, sent |-> {}]
      BY <1>3, <2>2 DEF Response
    <2> QED
      BY <2>3, <2>4, <2>5 DEF Client!Begins
  <1>4. CASE Kept(q) /\ pc[q] = "serving"
    <2> DEFINE a == Response(q)
               b == Response(q)'
    <2>1. /\ a = [status |-> "streaming", promised |-> plan[q].ver,
                  sent |-> {<<i, got[q][i]>> : i \in Delivered(q)}]
          /\ b = [status |-> "streaming", promised |-> plan[q].ver,
                  sent |-> {<<i, got'[q][i]>> : i \in Delivered(q)'}]
      BY <1>4 DEF Response, Kept
    <2>2. /\ Delivered(q) \subseteq Delivered(q)' /\ Delivered(q)' \subseteq Slices
          /\ \A j \in Delivered(q) : got'[q][j] = got[q][j]
          /\ \A i \in Delivered(q)' \ Delivered(q), j \in Delivered(q) : j < i
          /\ \A i \in Delivered(q)' : task'[q][i] = "ok"
      BY <1>0, <1>4, DeliveredGrows
    <2>3. \A i \in Delivered(q)' : got'[q][i] = plan[q].ver
      BY <1>4, <2>2 DEF PInv, Faithful, Kept
    <2>4. /\ a.status = "streaming" /\ a.promised = plan[q].ver
          /\ a.sent = {<<i, got[q][i]>> : i \in Delivered(q)}
          /\ b.sent = {<<i, got'[q][i]>> : i \in Delivered(q)'}
          /\ b = [a EXCEPT !.sent = b.sent]
      <3> DEFINE v == plan[q].ver
                 x == {<<i, got[q][i]>> : i \in Delivered(q)}
                 y == {<<i, got'[q][i]>> : i \in Delivered(q)'}
      <3>1. /\ a = [status |-> "streaming", promised |-> v, sent |-> x]
            /\ b = [status |-> "streaming", promised |-> v, sent |-> y]
        BY <2>1
      <3> HIDE DEF a, b, v, x, y
      <3>2. /\ a.status = "streaming" /\ a.promised = v /\ a.sent = x /\ b.sent = y
            /\ b = [a EXCEPT !.sent = y]
        BY <3>1, SMTT(60)
      <3>3. b = [a EXCEPT !.sent = b.sent]
        BY <3>2
      <3> QED
        BY <3>2, <3>3 DEF v, x, y
    <2>5. a.sent \subseteq b.sent
      BY <2>2, <2>4
    <2>6. ASSUME NEW new \in b.sent \ a.sent
          PROVE  /\ new \in Slices \X {a.promised}
                 /\ \A before \in a.sent : before[1] < new[1]
      <3>1. PICK i \in Delivered(q)' : new = <<i, got'[q][i]>>
        BY <2>4, <2>6
      <3>2. i \notin Delivered(q)
        BY <2>2, <2>4, <2>6, <3>1
      <3>3. new \in Slices \X {a.promised}
        BY <2>2, <2>3, <2>4, <3>1
      <3>4. \A before \in a.sent : before[1] \in Delivered(q)
        BY <2>4, SMTT(60)
      <3>5. new[1] = i
        BY <3>1
      <3> QED
        BY <2>2, <3>2, <3>3, <3>4, <3>5
    <2> HIDE DEF a, b
    <2>7. Client!Continues(a, b)
      BY <2>4, <2>5, <2>6 DEF Client!Continues
    <2> QED
      BY <2>7 DEF a, b
  <1>5. CASE Kept(q) /\ pc[q] # "serving"
    BY <1>5 DEF Kept, Response
  <1> QED
    BY <1>0, <1>1, <1>2, <1>3, <1>4, <1>5, StepTurns DEF Turned

\* proxy/server.rs, serve, over orchestrator/mod.rs: the cache takes only steps of VersionedResponse
\* until the object is purged, due for a touch, caught by a crash or changed a second time.  The
\* version in a response's headers never changes, and its body grows in order by slices of that
\* version only.
THEOREM ServesOneVersionUntil ==
    Spec => Client!Init /\ [][Undisturbed' => Client!Next]_[r \in Requests |-> Response(r)]
  <1>1. Init => Client!Init
    BY DEF Init, Client!Init, Client!Waiting, Response
  <1>2. UInv /\ UInv' /\ [Next]_vars => [Undisturbed' => Client!Next]_[r \in Requests |-> Response(r)]
    <2> SUFFICES ASSUME UInv, UInv', [Next]_vars, Undisturbed'
                 PROVE  [Client!Next]_[r \in Requests |-> Response(r)]
      OBVIOUS
    <2>1. Undisturbed
      BY UndisturbedBefore DEF UInv, GInv
    <2>2. PInv /\ PInv'
      BY <2>1 DEF UInv, PInv
    <2> QED
      BY <2>2, ContractSteps
  <1> QED
    BY <1>1, <1>2, PhaseInvariance, PTL DEF Spec

\* The same as an implementation: a history without these disturbances is one of VersionedResponse.
THEOREM ServesOneVersionHolds == Spec /\ []Undisturbed => ServesOneVersion
  <1>1. Undisturbed' /\ [Undisturbed' => Client!Next]_[r \in Requests |-> Response(r)]
           => [Client!Next]_[r \in Requests |-> Response(r)]
    OBVIOUS
  <1> QED
    BY <1>1, ServesOneVersionUntil, PTL DEF ServesOneVersion, Client!Spec
=============================================================================
