---------------------------- MODULE ObjectCache ----------------------------
(***************************************************************************)
(* One object of the cache on the ordinary path, where the origin honours  *)
(* Range: orchestrator/mod.rs over store/index.rs and store/hybrid.rs,     *)
(* with the purge of admin/api.rs.  All state is keyed by the object id,   *)
(* so objects do not interact and one is enough.                           *)
(*                                                                         *)
(* A version of the object stands for its length, its bytes and the        *)
(* validators the origin reports with it.  The index entry, the metadata   *)
(* cell and a request's plan are ObjectMeta records.  redb transactions,   *)
(* the metadata mutex and one call of the store are each a single step;    *)
(* everything between two of them interleaves.                             *)
(***************************************************************************)
EXTENDS Integers, FiniteSets, Validators

CONSTANTS
    Requests,     \* client requests, each served once
    Slices,       \* slice indices of the object, 0 .. n-1
    Spans,        \* the contiguous sets of slices a request may ask for
    Readahead,    \* READAHEAD_SLICES, the window of the body stream
    MaxVersion,   \* bound: versions the origin goes through
    Reported,     \* the validators the origin reports with each version
    MaxRestarts,  \* bound: crashes of the process
    MaxPurges,    \* bound: purge calls
    MaxHours,     \* bound: periods of LAST_SEEN_GRANULARITY that pass
    MaxDisconnects,  \* bound: clients that go away before their response ends
    Evicting,     \* bound: whether the store is full enough to evict
    Failing,      \* bound: whether a fetch may fail
    StaleOnError, \* STALE_ON_ERROR
    NoCell        \* the metadata map has no cell for the object

ASSUME SlicesNat == Slices \subseteq Nat /\ Slices # {}
ASSUME SpansType == Spans \subseteq SUBSET Slices /\ {} \notin Spans
ASSUME BoundsNat ==
    /\ Readahead \in Nat \ {0}
    /\ MaxVersion \in Nat \ {0}
    /\ MaxRestarts \in Nat
    /\ MaxPurges \in Nat
    /\ MaxHours \in Nat
    /\ MaxDisconnects \in Nat
    /\ Evicting \in BOOLEAN
    /\ Failing \in BOOLEAN
    /\ StaleOnError \in BOOLEAN
ASSUME NoCellFresh == NoCell \notin Requests

VARIABLES
    origin,    \* the version the origin serves now
    index,     \* the object's entry in the object index, Unknown if it has none
    store,     \* the slice store: SliceKey -> SliceValue
    cell,      \* the metadata map: the OnceCell of the object, named by its creator
    once,      \* the OnceCells: "empty", "busy" (get_or_try_init running) or "set"
    pc,        \* where each request is
    span,      \* the slices each request needs
    mycell,    \* the OnceCell a request holds
    plan,      \* ObjectMeta: what a probe learned, then the plan of the response
    snap,      \* ObjectMeta: touch's copy of the index entry
    task,      \* the state of each slice task of each request
    got,       \* the version of the bytes a slice task has received
    old,       \* ObjectMeta: invalidate's copy of the index entry, per slice task
    flight,    \* get_or_fetch: the fetches in flight, SliceKey -> leading task
    purging,   \* purge is between removing the slices and the index entry
    restarts,
    purges,
    hour,      \* the clock, in periods of LAST_SEEN_GRANULARITY
    disconnects

requestVars == <<pc, span, mycell, plan, snap>>
taskVars == <<task, got, old, flight>>
adminVars == <<purging, restarts, purges, hour, disconnects>>
vars == <<origin, index, store, cell, once, requestVars, taskVars, adminVars>>

Versions == 1 .. MaxVersion

\* No ObjectMeta at all.
Unknown == [ver |-> 0, gen |-> 0, stale |-> FALSE, seen |-> 0]
Known(meta) == meta.ver # 0

NoTask == "todo"
Tasks == Requests \X Slices

Key(r, i) == <<plan[r].gen, i>>
First(s) == CHOOSE i \in s : \A j \in s : i <= j

\* What a client has received of its response: body slices arrive in order.
Delivered(r) == {i \in span[r] : \A j \in span[r] : j <= i => task[r][j] = "ok"}

\* The body stream ended with an error.
Aborted(r) ==
    \E i \in span[r] : /\ task[r][i] = "failed"
                       /\ \A j \in span[r] : j < i => task[r][j] = "ok"

Init ==
    /\ origin = 1
    /\ index = Unknown
    /\ store = [k \in {} |-> Unknown]
    /\ cell = NoCell
    /\ once = [r \in Requests |-> [state |-> "empty", meta |-> Unknown]]
    /\ pc = [r \in Requests |-> "idle"]
    /\ span = [r \in Requests |-> {}]
    /\ mycell = [r \in Requests |-> NoCell]
    /\ plan = [r \in Requests |-> Unknown]
    /\ snap = [r \in Requests |-> Unknown]
    /\ task = [r \in Requests |-> [i \in Slices |-> NoTask]]
    /\ got = [r \in Requests |-> [i \in Slices |-> 0]]
    /\ old = [r \in Requests |-> [i \in Slices |-> Unknown]]
    /\ flight = [k \in {} |-> <<>>]
    /\ purging = FALSE
    /\ restarts = 0
    /\ purges = 0
    /\ hour = 0
    /\ disconnects = 0
-----------------------------------------------------------------------------
\* Finite maps with one entry more, or without some.
With(f, k, v) == [x \in DOMAIN f \cup {k} |-> IF x = k THEN v ELSE f[x]]
Without(f, ks) == [x \in DOMAIN f \ ks |-> f[x]]

Goto(r, label) == pc' = [pc EXCEPT ![r] = label]

\* Orchestrator::metadata, first half: a fresh index entry is the plan, and its
\* last_seen is about to be touched; a stale or missing one is not used.
Lookup(r) ==
    /\ pc[r] = "idle"
    /\ \E s \in Spans : span' = [span EXCEPT ![r] = s]
    /\ IF Known(index) /\ ~index.stale
       THEN plan' = [plan EXCEPT ![r] = index] /\ Goto(r, "touch")
       ELSE Goto(r, "miss") /\ UNCHANGED plan
    /\ UNCHANGED <<origin, index, store, cell, once, mycell, snap, taskVars, adminVars>>

\* ObjectIndex::touch within LAST_SEEN_GRANULARITY, or with the entry gone: no
\* write.
TouchSkip(r) ==
    /\ pc[r] = "touch"
    /\ Known(index) => index.seen = hour
    /\ Goto(r, "serving")
    /\ UNCHANGED <<origin, index, store, cell, once, span, mycell, plan, snap, taskVars,
                   adminVars>>

\* ObjectIndex::touch, the read transaction; last_seen is old enough to write.
TouchRead(r) ==
    /\ pc[r] = "touch"
    /\ Known(index)
    /\ index.seen < hour
    /\ snap' = [snap EXCEPT ![r] = [index EXCEPT !.seen = hour]]
    /\ Goto(r, "touching")
    /\ UNCHANGED <<origin, index, store, cell, once, span, mycell, plan, taskVars, adminVars>>

\* ObjectIndex::touch, the write transaction: all of the entry as it was read.
TouchWrite(r) ==
    /\ pc[r] = "touching"
    /\ index' = snap[r]
    /\ snap' = [snap EXCEPT ![r] = Unknown]
    /\ Goto(r, "serving")
    /\ UNCHANGED <<origin, store, cell, once, span, mycell, plan, taskVars, adminVars>>

\* Orchestrator::cell: the object's OnceCell, created if the map has none.
JoinCell(r) ==
    /\ pc[r] = "miss"
    /\ cell' = IF cell = NoCell THEN r ELSE cell
    /\ mycell' = [mycell EXCEPT ![r] = cell']
    /\ Goto(r, "cell")
    /\ UNCHANGED <<origin, index, store, once, span, plan, snap, taskVars, adminVars>>

\* get_or_try_init on a cell that is set.
CellReady(r) ==
    /\ pc[r] = "cell"
    /\ once[mycell[r]].state = "set"
    /\ plan' = [plan EXCEPT ![r] = once[mycell[r]].meta]
    /\ mycell' = [mycell EXCEPT ![r] = NoCell]
    /\ Goto(r, "serving")
    /\ UNCHANGED <<origin, index, store, cell, once, span, snap, taskVars, adminVars>>

\* get_or_try_init on an empty cell nobody is initialising: this request probes,
\* the others holding the cell wait.
ProbeStart(r) ==
    /\ pc[r] = "cell"
    /\ once[mycell[r]].state = "empty"
    /\ once' = [once EXCEPT ![mycell[r]].state = "busy"]
    /\ Goto(r, "probing")
    /\ UNCHANGED <<origin, index, store, cell, span, mycell, plan, snap, taskVars, adminVars>>

\* probe: the origin answers with the version it serves now.
ProbeFetch(r) ==
    /\ pc[r] = "probing"
    /\ plan' = [plan EXCEPT ![r] = [ver |-> origin, gen |-> 0, stale |-> FALSE,
                                           seen |-> hour]]
    /\ Goto(r, "probed")
    /\ UNCHANGED <<origin, index, store, cell, once, span, mycell, snap, taskVars, adminVars>>

\* probe: the origin fails or declares no length.  The cell stays empty and the
\* next waiter probes for itself.
ProbeFail(r) ==
    /\ Failing
    /\ pc[r] = "probing"
    /\ once' = [once EXCEPT ![mycell[r]].state = "empty"]
    /\ mycell' = [mycell EXCEPT ![r] = NoCell]
    /\ span' = [span EXCEPT ![r] = {}]
    /\ Goto(r, "ended")
    /\ UNCHANGED <<origin, index, store, cell, plan, snap, taskVars, adminVars>>

\* Mutant of ProbeRead: the generation of a stale entry is not respected.
ProbeRead_FromZero(r) ==
    /\ pc[r] = "probed"
    /\ Goto(r, "storing")
    /\ UNCHANGED <<origin, index, store, cell, once, span, mycell, plan, snap, taskVars,
                   adminVars>>

\* probe: the generation is read from the index once the response is in; 0 if
\* there is no entry.
ProbeRead(r) ==
    /\ pc[r] = "probed"
    /\ plan' = [plan EXCEPT ![r].gen = index.gen]
    /\ Goto(r, "storing")
    /\ UNCHANGED <<origin, index, store, cell, once, span, mycell, snap, taskVars, adminVars>>

\* probe: the probed slice is stored under that generation.  It is the first of
\* the range, or slice 0 when only the length can tell where a suffix begins.
ProbeStore(r) ==
    /\ pc[r] = "storing"
    /\ \E i \in {First(span[r]), First(Slices)} :
          store' = With(store, Key(r, i), [header |-> plan[r].ver, body |-> plan[r].ver])
    /\ Goto(r, "putting")
    /\ UNCHANGED <<origin, index, cell, once, span, mycell, plan, snap, taskVars, adminVars>>

\* probe: index.put; the cell is set, which only its waiters can tell.
ProbePut(r) ==
    /\ pc[r] = "putting"
    /\ index' = plan[r]
    /\ once' = [once EXCEPT ![mycell[r]] = [state |-> "set", meta |-> plan[r]]]
    /\ mycell' = [mycell EXCEPT ![r] = NoCell]
    /\ Goto(r, "serving")
    /\ UNCHANGED <<origin, store, cell, span, plan, snap, taskVars, adminVars>>

-----------------------------------------------------------------------------
SetTask(r, i, state) == task' = [task EXCEPT ![r][i] = state]
SetTasks(ts, state) ==
    task' = [r \in Requests |->
                [i \in Slices |-> IF <<r, i>> \in ts THEN state ELSE task[r][i]]]

\* The body stream spawns a task per slice, in a window of Readahead slices
\* past what is delivered; a response that failed spawns no more.
MayStart(r, i) ==
    /\ pc[r] = "serving"
    /\ i \in span[r]
    /\ task[r][i] = NoTask
    /\ i < First(span[r]) + Cardinality(Delivered(r)) + Readahead
    /\ ~Aborted(r)

\* get_or_fetch finds the slice: it is returned as it is stored.
SliceHit(r, i) ==
    /\ MayStart(r, i)
    /\ Key(r, i) \in DOMAIN store
    /\ got' = [got EXCEPT ![r][i] = store[Key(r, i)].body]
    /\ SetTask(r, i, "ok")
    /\ UNCHANGED <<origin, index, store, cell, once, requestVars, old, flight, adminVars>>

\* get_or_fetch misses while the slice is being fetched: wait for that fetch.
SliceJoin(r, i) ==
    /\ MayStart(r, i)
    /\ Key(r, i) \notin DOMAIN store
    /\ Key(r, i) \in DOMAIN flight
    /\ SetTask(r, i, "waiting")
    /\ UNCHANGED <<origin, index, store, cell, once, requestVars, got, old, flight, adminVars>>

\* get_or_fetch misses: this task's own closure fetches from the origin.
SliceLead(r, i) ==
    /\ MayStart(r, i)
    /\ Key(r, i) \notin DOMAIN store
    /\ Key(r, i) \notin DOMAIN flight
    /\ flight' = With(flight, Key(r, i), <<r, i>>)
    /\ SetTask(r, i, "fetching")
    /\ UNCHANGED <<origin, index, store, cell, once, requestVars, got, old, adminVars>>

\* The tasks whose get_or_fetch the fetch of (r, i) answers.
Waiting(r, i) ==
    {t \in Tasks : task[t[1]][t[2]] = "waiting" /\ Key(t[1], t[2]) = Key(r, i)}

\* The response arrives, with the version the origin served when it was sent.
FetchAnswer(r, i) ==
    /\ task[r][i] = "fetching"
    /\ got' = [got EXCEPT ![r][i] = origin]
    /\ SetTask(r, i, "answered")
    /\ UNCHANGED <<origin, index, store, cell, once, requestVars, old, flight, adminVars>>

\* The fetched slice is stored under the plan's header and handed to every task
\* waiting for it.
StoreSlice(r, i) ==
    LET done == Waiting(r, i) \cup {<<r, i>>}
    IN  /\ store' = With(store, Key(r, i), [header |-> plan[r].ver, body |-> got[r][i]])
        /\ got' = [q \in Requests |->
                      [j \in Slices |-> IF <<q, j>> \in done THEN got[r][i] ELSE got[q][j]]]
        /\ SetTasks(done, "ok")
        /\ flight' = Without(flight, {Key(r, i)})

\* The comparison of the plan's validators with the response's.
SameEntity(planned, found) == matches(Reported[planned], Reported[found])

\* Mutant of FetchMatch: the validators of the response are not compared.
FetchMatch_Unchecked(r, i) ==
    /\ task[r][i] = "answered"
    /\ StoreSlice(r, i)
    /\ UNCHANGED <<origin, index, cell, once, requestVars, old, adminVars>>

\* The validators of the response are the plan's.
FetchMatch(r, i) ==
    /\ task[r][i] = "answered"
    /\ SameEntity(plan[r].ver, got[r][i])
    /\ StoreSlice(r, i)
    /\ UNCHANGED <<origin, index, cell, once, requestVars, old, adminVars>>

\* Mutant of FetchMismatch: the tasks that waited for the fetch are not told.
FetchMismatch_Silent(r, i) ==
    /\ task[r][i] = "answered"
    /\ ~SameEntity(plan[r].ver, got[r][i])
    /\ got' = [got EXCEPT ![r][i] = 0]
    /\ SetTask(r, i, "mismatch")
    /\ flight' = Without(flight, {Key(r, i)})
    /\ UNCHANGED <<origin, index, store, cell, once, requestVars, old, adminVars>>

\* They are not.  Only the task whose closure ran has its mismatch flag set; the
\* tasks that waited see an ordinary store error, which is not transient.
FetchMismatch(r, i) ==
    /\ task[r][i] = "answered"
    /\ ~SameEntity(plan[r].ver, got[r][i])
    /\ got' = [got EXCEPT ![r][i] = 0]
    /\ task' = [q \in Requests |->
                   [j \in Slices |-> IF <<q, j>> = <<r, i>> THEN "mismatch"
                                     ELSE IF <<q, j>> \in Waiting(r, i) THEN "failed"
                                     ELSE task[q][j]]]
    /\ flight' = Without(flight, {Key(r, i)})
    /\ UNCHANGED <<origin, index, store, cell, once, requestVars, old, adminVars>>

\* How a fetch fails.  Crossing the store an error is only text: a timeout, a 502 and a 503
\* are read as transient; a 500, a 404, a refused connection or a short body are not.
Errors == {"timeout", "503", "500", "short"}
is_transient_orchestrator_error(error) == error \in {"timeout", "503"}

\* slice, after an error: stale-on-error is on unless the operator turned it off.
AfterError(error) ==
    IF StaleOnError /\ is_transient_orchestrator_error(error) THEN "fallback" ELSE "failed"

\* Mutant of FetchFail: a failed fetch stays registered.
FetchFail_Leaks(r, i) ==
    /\ Failing
    /\ task[r][i] = "fetching"
    /\ \E error \in Errors : SetTasks(Waiting(r, i) \cup {<<r, i>>}, AfterError(error))
    /\ UNCHANGED <<origin, index, store, cell, once, requestVars, got, old, flight, adminVars>>

\* The fetch fails.  A transient failure lets each task look in the store once
\* more (stale-on-error); any other fails them.
FetchFail(r, i) ==
    /\ Failing
    /\ task[r][i] = "fetching"
    /\ \E error \in Errors : SetTasks(Waiting(r, i) \cup {<<r, i>>}, AfterError(error))
    /\ flight' = Without(flight, {Key(r, i)})
    /\ UNCHANGED <<origin, index, store, cell, once, requestVars, got, old, adminVars>>

\* Stale-on-error: a slice that landed in the store meanwhile is served.
Fallback(r, i) ==
    /\ task[r][i] = "fallback"
    /\ IF Key(r, i) \in DOMAIN store
       THEN /\ got' = [got EXCEPT ![r][i] = store[Key(r, i)].body]
            /\ SetTask(r, i, "ok")
       ELSE /\ SetTask(r, i, "failed")
            /\ UNCHANGED got
    /\ UNCHANGED <<origin, index, store, cell, once, requestVars, old, flight, adminVars>>

\* bump_generation: the read transaction of ObjectIndex::invalidate.  An unknown
\* object is "at generation 1", and nothing is written.
BumpRead(r, i) ==
    /\ task[r][i] = "mismatch"
    /\ old' = [old EXCEPT ![r][i] = index]
    /\ SetTask(r, i, IF Known(index) THEN "bumping" ELSE "unlink")
    /\ UNCHANGED <<origin, index, store, cell, once, requestVars, got, flight, adminVars>>

\* Mutant of BumpWrite: the entry is marked stale under its old generation.
BumpWrite_SameGeneration(r, i) ==
    /\ task[r][i] = "bumping"
    /\ index' = [old[r][i] EXCEPT !.stale = TRUE]
    /\ SetTask(r, i, "unlink")
    /\ UNCHANGED <<origin, store, cell, once, requestVars, got, old, flight, adminVars>>

\* The write transaction of ObjectIndex::invalidate.
BumpWrite(r, i) ==
    /\ task[r][i] = "bumping"
    /\ index' = [old[r][i] EXCEPT !.gen = @ + 1, !.stale = TRUE]
    /\ SetTask(r, i, "unlink")
    /\ UNCHANGED <<origin, store, cell, once, requestVars, got, old, flight, adminVars>>

\* bump_generation drops the cached metadata; the slice task fails with
\* ValidatorChanged.
Unlink(r, i) ==
    /\ task[r][i] = "unlink"
    /\ cell' = NoCell
    /\ old' = [old EXCEPT ![r][i] = Unknown]
    /\ SetTask(r, i, "failed")
    /\ UNCHANGED <<origin, index, store, once, requestVars, got, flight, adminVars>>

-----------------------------------------------------------------------------
\* No task of the request is running and none will be spawned.
Settled(r) ==
    \A i \in span[r] : \/ task[r][i] \in {"ok", "failed"}
                       \/ task[r][i] = NoTask /\ (Aborted(r) \/ pc[r] = "gone")

\* The body is complete, or was cut off by an error or by the client, and the
\* detached tasks are done too: nothing is left of the request.
Finish(r) ==
    /\ pc[r] \in {"serving", "gone"}
    /\ Settled(r)
    /\ Goto(r, "ended")
    /\ plan' = [plan EXCEPT ![r] = Unknown]
    /\ span' = [span EXCEPT ![r] = {}]
    /\ task' = [task EXCEPT ![r] = [i \in Slices |-> NoTask]]
    /\ got' = [got EXCEPT ![r] = [i \in Slices |-> 0]]
    /\ UNCHANGED <<origin, index, store, cell, once, mycell, snap, old, flight, adminVars>>

\* The client goes away while the handler waits for a cell: the handler is
\* dropped.  (While it probes, the effect is that of ProbeFail.)
DropWaiter(r) ==
    /\ disconnects < MaxDisconnects
    /\ disconnects' = disconnects + 1
    /\ pc[r] = "cell"
    /\ mycell' = [mycell EXCEPT ![r] = NoCell]
    /\ span' = [span EXCEPT ![r] = {}]
    /\ Goto(r, "ended")
    /\ UNCHANGED <<origin, index, store, cell, once, plan, snap, taskVars, purging,
                   restarts, purges, hour>>

\* The client goes away during the body: the stream is dropped and spawns no
\* more; the slice tasks are detached and run on (FR-31).
DropBody(r) ==
    /\ disconnects < MaxDisconnects
    /\ disconnects' = disconnects + 1
    /\ pc[r] = "serving"
    /\ Goto(r, "gone")
    /\ UNCHANGED <<origin, index, store, cell, once, span, mycell, plan, snap, taskVars,
                   purging, restarts, purges, hour>>

\* External: a new version of the object is published.
OriginChange ==
    /\ origin < MaxVersion
    /\ origin' = origin + 1
    /\ UNCHANGED <<index, store, cell, once, requestVars, taskVars, adminVars>>

\* LAST_SEEN_GRANULARITY passes.  It is longer than a handler or a slice task
\* runs, though not than a body may take.
HourPasses ==
    /\ hour < MaxHours
    /\ \A r \in Requests : /\ pc[r] \in {"idle", "serving", "gone", "ended"}
                           /\ \A i \in Slices : task[r][i] \in {NoTask, "ok", "failed"}
    /\ hour' = hour + 1
    /\ UNCHANGED <<origin, index, store, cell, once, requestVars, taskVars, purging,
                   restarts, purges, disconnects>>

\* The store drops slices of any age in the ordinary course of things.
Evict(k) ==
    /\ Evicting
    /\ store' = Without(store, {k})
    /\ UNCHANGED <<origin, index, cell, once, requestVars, taskVars, adminVars>>

\* The process dies and comes back: the index and the slices on disk survive
\* (Evict covers the ones that had not been flushed), everything else is gone.
Restart ==
    /\ restarts < MaxRestarts
    /\ restarts' = restarts + 1
    /\ cell' = NoCell
    /\ once' = [r \in Requests |-> [state |-> "empty", meta |-> Unknown]]
    /\ pc' = [r \in Requests |-> IF pc[r] = "idle" THEN "idle" ELSE "ended"]
    /\ span' = [r \in Requests |-> {}]
    /\ mycell' = [r \in Requests |-> NoCell]
    /\ plan' = [r \in Requests |-> Unknown]
    /\ snap' = [r \in Requests |-> Unknown]
    /\ task' = [r \in Requests |-> [i \in Slices |-> NoTask]]
    /\ got' = [r \in Requests |-> [i \in Slices |-> 0]]
    /\ old' = [r \in Requests |-> [i \in Slices |-> Unknown]]
    /\ flight' = [k \in {} |-> <<>>]
    /\ purging' = FALSE
    /\ UNCHANGED <<origin, index, store, purges, hour, disconnects>>

\* purge, for an object the index lists: the slices of the generation in its
\* entry are removed.
PurgeSlices ==
    /\ purges < MaxPurges
    /\ ~purging
    /\ Known(index)
    /\ store' = Without(store, {<<index.gen, i>> : i \in Slices})
    /\ purging' = TRUE
    /\ purges' = purges + 1
    /\ UNCHANGED <<origin, index, cell, once, requestVars, taskVars, restarts,
                   hour, disconnects>>

\* purge: then the entry is.  The orchestrator's metadata cell is not touched.
PurgeIndex ==
    /\ purging
    /\ index' = Unknown
    /\ purging' = FALSE
    /\ UNCHANGED <<origin, store, cell, once, requestVars, taskVars, restarts,
                   purges, hour, disconnects>>

ProbeStep(r) ==
    ProbeFetch(r) \/ ProbeFail(r) \/ ProbeRead(r) \/ ProbeStore(r) \/ ProbePut(r)
CellStep(r) == JoinCell(r) \/ CellReady(r) \/ ProbeStart(r)
TouchStep(r) == TouchSkip(r) \/ TouchRead(r) \/ TouchWrite(r)
StartStep(r, i) == SliceHit(r, i) \/ SliceJoin(r, i) \/ SliceLead(r, i)
FetchStep(r, i) ==
    FetchAnswer(r, i) \/ FetchMatch(r, i) \/ FetchMismatch(r, i) \/ FetchFail(r, i)
BumpStep(r, i) == BumpRead(r, i) \/ BumpWrite(r, i) \/ Unlink(r, i)
RequestStep(r) == TouchStep(r) \/ CellStep(r) \/ ProbeStep(r) \/ Finish(r)
SliceStep(r, i) ==
    StartStep(r, i) \/ FetchStep(r, i) \/ Fallback(r, i) \/ BumpStep(r, i)

Next ==
    \/ \E r \in Requests : Lookup(r) \/ RequestStep(r) \/ DropWaiter(r) \/ DropBody(r)
    \/ \E r \in Requests, i \in Slices : SliceStep(r, i)
    \/ OriginChange
    \/ HourPasses
    \/ \E k \in DOMAIN store : Evict(k)
    \/ Restart
    \/ PurgeSlices
    \/ PurgeIndex

Spec == Init /\ [][Next]_vars

\* Spawned tasks are scheduled and a fetch is answered or times out; nothing is
\* assumed of clients, the origin's versions, eviction or the operator.
Fairness ==
    /\ \A r \in Requests : WF_vars(RequestStep(r))
    /\ \A r \in Requests, i \in Slices : WF_vars(SliceStep(r, i))

FairSpec == Spec /\ Fairness

-----------------------------------------------------------------------------
\* Types, and a response under way has a plan.
Metas == [ver : 0 .. MaxVersion, gen : Nat, stale : BOOLEAN, seen : 0 .. MaxHours]

TypeOK ==
    /\ origin \in Versions
    /\ index \in Metas
    /\ DOMAIN store \subseteq Nat \X Slices
    /\ \A k \in DOMAIN store : store[k] \in [header : Versions, body : Versions]
    /\ cell \in Requests \cup {NoCell}
    /\ once \in [Requests -> [state : {"empty", "busy", "set"}, meta : Metas]]
    /\ pc \in [Requests -> {"idle", "touch", "touching", "miss", "cell", "probing", "probed",
                             "storing", "putting", "serving", "gone", "ended"}]
    /\ span \in [Requests -> SUBSET Slices]
    /\ mycell \in [Requests -> Requests \cup {NoCell}]
    /\ plan \in [Requests -> Metas]
    /\ \A r \in Requests : pc[r] \in {"storing", "putting", "serving", "gone"} => Known(plan[r])
    /\ snap \in [Requests -> Metas]
    /\ task \in [Requests -> [Slices -> {NoTask, "waiting", "fetching", "answered", "mismatch",
                                         "fallback", "bumping", "unlink", "ok", "failed"}]]
    /\ got \in [Requests -> [Slices -> 0 .. MaxVersion]]
    /\ old \in [Requests -> [Slices -> Metas]]
    /\ DOMAIN flight \subseteq Nat \X Slices
    /\ \A k \in DOMAIN flight : flight[k] \in Tasks
    /\ purging \in BOOLEAN
    /\ restarts \in 0 .. MaxRestarts
    /\ purges \in 0 .. MaxPurges
    /\ hour \in 0 .. MaxHours
    /\ disconnects \in 0 .. MaxDisconnects

\* orchestrator/mod.rs, bump_generation: "no window in which a response could
\* mix versions".  Every slice a client receives is of the version whose
\* validators its response headers carry.
NoMixedResponse ==
    \A r \in Requests : \A i \in Delivered(r) : got[r][i] = plan[r].ver

\* store/slice.rs, SliceHeader (FR-44): the header of a stored slice describes
\* the bytes next to it, through every race of fetch, probe, invalidation and
\* purge.
SelfDescribing == \A k \in DOMAIN store : store[k].header = store[k].body

\* store/hybrid.rs, get_or_fetch: a task waits only for a fetch that is running,
\* and every fetch in flight is run by the one task it is registered for, so no
\* key has two fetches and no waiter is forgotten.
FlightsAreLed ==
    /\ \A k \in DOMAIN flight :
          /\ task[flight[k][1]][flight[k][2]] \in {"fetching", "answered"}
          /\ Key(flight[k][1], flight[k][2]) = k
    /\ \A t \in Tasks :
          task[t[1]][t[2]] \in {"waiting", "fetching", "answered"} =>
              Key(t[1], t[2]) \in DOMAIN flight

\* store/index.rs, ObjectMeta::stale: the generation "is what makes the previous
\* version's slices unreachable".  A generation stands for one version, in the
\* index, in the cells, in the plans and in the store; that is what makes a slice
\* key safe to hit.  It holds while the object changes once and its entry is
\* neither purged, overwritten by a touch nor lost in a crash.
GenerationIsOneVersion ==
    LET named == {m \in {index} \cup {once[r].meta : r \in Requests}
                              \cup {plan[r] : r \in {q \in Requests :
                                       pc[q] \in {"storing", "putting", "serving", "gone"}}} :
                     Known(m) /\ ~m.stale}
        pairs == {<<m.gen, m.ver>> : m \in named}
                   \cup {<<k[1], store[k].body>> : k \in DOMAIN store}
    IN  \A p, q \in pairs : p[1] = q[1] => p[2] = q[2]

\* A response as its client sees it.
Response(r) ==
    IF pc[r] = "serving" THEN [status |-> "streaming", promised |-> plan[r].ver,
                               sent |-> {<<i, got[r][i]>> : i \in Delivered(r)}]
    ELSE [status |-> IF pc[r] \in {"gone", "ended"} THEN "over" ELSE "waiting",
          promised |-> 0, sent |-> {}]

Client == INSTANCE VersionedResponse WITH resp <- [r \in Requests |-> Response(r)]

\* proxy/server.rs, serve, over orchestrator/mod.rs: the cache implements the
\* client's contract.  The version in the headers never changes under a response,
\* and the body grows in order by slices of that version only.
ServesOneVersion == Client!Spec

\* orchestrator/mod.rs, plan and slice: every request is answered or fails; no
\* request waits forever on a cell, a coalesced fetch or a bump.  A request that
\* has begun is never idle again, so it has ended when it is seen here.
RequestsEnd == \A r \in Requests : []<>(pc[r] \in {"idle", "ended"})
=============================================================================
