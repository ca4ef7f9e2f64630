------------------------------ MODULE Planning ------------------------------
(***************************************************************************)
(* From a request's headers to what is fetched for it: serve of            *)
(* proxy/server.rs, plan, metadata, probe and maybe_prefetch of            *)
(* orchestrator/mod.rs, over many objects and many requests.  Requests     *)
(* wait side by side for what a probe learns; from there to the response's *)
(* headers nothing is awaited, so that planning one is a step.  The slices *)
(* of bodies and of prefetches arrive later, in any order.  Objects do not *)
(* change here (ObjectCache has them change), so bump_generation never     *)
(* removes a cell.                                                         *)
(*                                                                         *)
(* An If-None-Match header in this model names the current version of the  *)
(* object; another changes nothing in serve nor at an origin.              *)
(***************************************************************************)
EXTENDS RangePlan, Headers, Readahead, Validators, SequencesExt

CONSTANTS
    Length,          \* the objects, with their lengths
    IgnoresRange,    \* the objects whose origin answers every GET in full
    IgnoresIfRange,  \* those whose origin honours Range but not If-Range
    Entity,          \* the validators of each object
    SliceSize,       \* CACHE_SLICE_SIZE
    Requests,        \* what clients ask for
    MaxRequests,     \* bound: how many requests are received
    MaxWaiting,      \* bound: how many of them wait for one object's metadata
    MaxClock,        \* bound: ticks of the clock
    MaxLosses        \* bound: evictions, purges and restarts

ASSUME SliceSizeNat == SliceSize \in Nat \ {0}
ASSUME LengthsNat == \A o \in DOMAIN Length : Length[o] \in Nat
ASSUME RequestsType ==
    \A q \in Requests : q.object \in DOMAIN Length /\ q.spec.from \in Nat /\ q.spec.to \in Nat

VARIABLES
    index,        \* what the object index knows: nothing, or no_ranges of the entry
    cell,         \* Orchestrator::metadata, the cell of each object: the same, in memory
    waiting,      \* per object, the requests inside get_or_try_init, in the order of
                  \* its semaphore: while the cell is empty the first of them probes
    store,        \* the slices in the slice store
    patterns,     \* ReadaheadPolicy::patterns
    fetching,     \* detached tasks that fetch a slice, with the headers they send
    clock,
    received,     \* how many requests were received
    losses,
    reply,        \* the latest response
    accesses      \* per object, the requests for it that were served in slices:
                  \* what they read and when

vars == <<index, cell, waiting, store, patterns, fetching, clock, received, losses, reply, accesses>>

Objects == DOMAIN Length

NoReply == [status |-> 0]

Init ==
    /\ index = [o \in Objects |-> "unknown"]
    /\ cell = [o \in Objects |-> "unknown"]
    /\ waiting = [o \in Objects |-> <<>>]
    /\ store = {}
    /\ patterns = [o \in {} |-> 0]
    /\ fetching = {}
    /\ clock = 0
    /\ received = 0
    /\ losses = 0
    /\ reply = NoReply
    /\ accesses = [o \in Objects |-> <<>>]
-----------------------------------------------------------------------------
\* An If-Range among these headers names another version of the object.
OtherVersion(o, sent) == "if-range" \in sent.names /\ ~if_range_matches(sent.if_range, Entity[o])

\* What a fetch of a slice from an origin that works is answered with.
Answer(o, slice, sent) ==
    IF "if-none-match" \in sent.names THEN 304
    ELSE IF o \in IgnoresRange \/ (OtherVersion(o, sent) /\ o \notin IgnoresIfRange) THEN 200
    ELSE IF slice * SliceSize >= Length[o] THEN 416
    ELSE 206

Forwarded(q) ==
    [names |-> forwarded_request_headers(q.headers, q.named), if_range |-> q.if_range]

\* serve: the range is not honoured.
Replanned(q) == OtherVersion(q.object, [names |-> q.headers, if_range |-> q.if_range])

\* plan: the slice to probe with, cast to a u32; the beginning of a suffix is not known
\* yet.
probe_index(spec) ==
    IF spec.kind \in {"fromto", "from"} THEN (spec.from \div SliceSize) % (U32Max + 1) ELSE 0

\* metadata: the index first, and then the cell, if it is initialised.
Metadata(o) == IF index[o] # "unknown" THEN index[o] ELSE cell[o]

\* probe: what its answer says of the object.
Learned(q) ==
    LET answer == Answer(q.object, probe_index(q.spec), Forwarded(q))
    IN IF answer = 206 THEN "ranges" ELSE IF answer = 200 THEN "no_ranges" ELSE "unknown"

\* A request in serve: what metadata's probed_here is for it, and the slice that a probe of
\* its own fetched.
Found(q) == [q |-> q, probed_here |-> FALSE, fetched |-> {}]
Waiter(q, fetched) == [q |-> q, probed_here |-> TRUE, fetched |-> fetched]

\* The plan of a range, and its slices.
Wanted(o, spec) == IF Length[o] = 0 THEN Bytes(0, 0) ELSE Resolve(spec, Length[o])
First(o, spec) == FirstSlice(Wanted(o, spec), SliceSize)
Final(o, spec) == LastSlice(Wanted(o, spec), SliceSize)
Span(o, spec) == IF Length[o] = 0 THEN {} ELSE First(o, spec) .. Final(o, spec)

Resident(o, slices, held) == {i \in slices : <<o, i>> \in held}

\* Mutant of cache_status: the slice the probe just fetched counts as cached.
cache_status_CountsProbe(o, spec, held, probed_here) ==
    classify(Cardinality(Resident(o, Span(o, spec), held)), Cardinality(Span(o, spec)))

\* plan, cache_status: the probe's slice is not evidence of an earlier request.
cache_status(o, spec, held, probed_here) ==
    LET count == Cardinality(Resident(o, Span(o, spec), held))
        own == probed_here /\ probe_index(spec) \in Span(o, spec)
    IN classify(IF own THEN SatSub(count, 1) ELSE count, Cardinality(Span(o, spec)))
-----------------------------------------------------------------------------
\* What the properties speak of: the response, what it could take from the store, its own
\* probe's slice while it is still there, and what was fetched ahead of it.
Report(w, spec, ahead) ==
    LET o == w.q.object IN
    [status |-> IF spec.kind = "none" THEN 200 ELSE 206,
     object |-> o,
     x_cache |-> cache_status(o, spec, store, w.probed_here /\ ~Replanned(w.q)),
     known |-> ~w.probed_here,
     replanned |-> Replanned(w.q),
     span |-> Span(o, spec),
     cached |-> Resident(o, Span(o, spec), store) \ w.fetched,
     fetched |-> Resident(o, w.fetched, store),
     ahead |-> ahead]

\* The slices of a body are each fetched by a task, unless the store has them by then; of
\* an object without ranges one task fills them all, from the first.
BodyTasks(q, spec) ==
    LET o == q.object
        filling == \E task \in fetching : task[1] = o
    IN IF Metadata(o) = "ranges" THEN {<<o, i, Forwarded(q)>> : i \in Span(o, spec)}
       ELSE IF filling \/ Resident(o, Span(o, spec), store) = Span(o, spec) THEN {}
       ELSE {<<o, 0, Forwarded(q)>>}

\* maybe_prefetch: nothing for an object without ranges; otherwise the access is
\* observed, and tasks are spawned for slices that are not held.
MaybePrefetch(w, spec) ==
    LET q == w.q
        o == q.object
        lastSlice == Min2((Length[o] - 1) \div SliceSize, U32Max)
    IN \/ /\ Metadata(o) = "no_ranges"
          /\ reply' = Report(w, spec, {})
          /\ fetching' = fetching \cup BodyTasks(q, spec)
          /\ UNCHANGED <<patterns, accesses>>
       \/ /\ Metadata(o) = "ranges"
          /\ \E kept \in Kept(patterns, clock) :
               LET count == consecutive(patterns, kept, o, First(o, spec), clock)
                   ahead == prefetch(count, Final(o, spec), lastSlice)
               IN /\ patterns' = observed(patterns, kept, o, First(o, spec), Final(o, spec), clock)
                  /\ fetching' = fetching \cup BodyTasks(q, spec) \cup
                       {<<o, i, Forwarded(q)>> : i \in {j \in ahead : <<o, j>> \notin store}}
                  /\ reply' = Report(w, spec, ahead)
          /\ accesses' = [accesses EXCEPT ![o] =
               Append(@, [first |-> First(o, spec), last |-> Final(o, spec), at |-> clock])]

\* serve, once metadata has returned: the range cannot be satisfied (416), or a response is
\* planned.  If If-Range names another version it is planned again without its range, and
\* by then the object is known.  A HEAD and an empty object have no body.
Serve(w) ==
    LET q == w.q
        o == q.object
        spec == IF Replanned(q) THEN NoSpec ELSE q.spec
        satisfied == q.spec.kind = "none" \/ Satisfiable(q.spec, Length[o])
    IN /\ \/ /\ ~satisfied
             /\ reply' = [status |-> 416]
             /\ UNCHANGED <<patterns, fetching, accesses>>
          \/ /\ satisfied /\ (q.method = "HEAD" \/ Length[o] = 0)
             /\ reply' = Report(w, spec, {})
             /\ UNCHANGED <<patterns, fetching, accesses>>
          \/ /\ satisfied /\ q.method = "GET" /\ Length[o] > 0
             /\ MaybePrefetch(w, spec)
       /\ UNCHANGED <<index, cell, store, clock, losses>>
-----------------------------------------------------------------------------
\* serve and metadata: the object is known, and the request is planned at once.
Receive(q) ==
    /\ received < MaxRequests
    /\ received' = received + 1
    /\ Metadata(q.object) # "unknown"
    /\ Serve(Found(q))
    /\ UNCHANGED waiting

\* metadata: the object is not known; the request probes, or waits for one that does.
Wait(q) ==
    /\ received < MaxRequests /\ Len(waiting[q.object]) < MaxWaiting
    /\ received' = received + 1
    /\ Metadata(q.object) = "unknown"
    /\ waiting' = [waiting EXCEPT ![q.object] = Append(@, Waiter(q, {}))]
    /\ UNCHANGED <<index, cell, store, patterns, fetching, clock, losses, reply, accesses>>

Probing(o) == cell[o] = "unknown" /\ waiting[o] # <<>>

\* probe: the slice it fetched is stored, if it fetched one, the entry written and the cell
\* set, which wakes everyone who waits.
ProbeLearns(o) ==
    LET q == Head(waiting[o]).q
        slices == IF Learned(q) = "ranges" THEN {probe_index(q.spec)} ELSE {}
    IN /\ Probing(o)
       /\ Learned(q) # "unknown"
       /\ cell' = [cell EXCEPT ![o] = Learned(q)]
       /\ index' = [index EXCEPT ![o] = Learned(q)]
       /\ store' = store \cup {<<o, i>> : i \in slices}
       /\ waiting' = [waiting EXCEPT ![o] = <<Waiter(q, slices)>> \o Tail(@)]
       /\ UNCHANGED <<patterns, fetching, clock, received, losses, reply, accesses>>

\* The probe had no answer, or one that is an error: 502, and the next in line probes.
ProbeFails(o) ==
    /\ Probing(o)
    /\ waiting' = [waiting EXCEPT ![o] = Tail(@)]
    /\ reply' = [status |-> 502]
    /\ UNCHANGED <<index, cell, store, patterns, fetching, clock, received, losses, accesses>>

\* get_or_try_init returns, in those who waited and in the one who probed; in any order.
Wakes(o, k) ==
    /\ cell[o] # "unknown"
    /\ waiting' = [waiting EXCEPT ![o] = RemoveAt(@, k)]
    /\ Serve(waiting[o][k])
    /\ UNCHANGED received

\* The client goes away: hyper drops the handler, and its probe with it.
Leaves(o, k) ==
    /\ waiting' = [waiting EXCEPT ![o] = RemoveAt(@, k)]
    /\ UNCHANGED <<index, cell, store, patterns, fetching, clock, received, losses, reply, accesses>>

\* A task ends: it stores a slice, or fails, or its client went away before it began.  A
\* fill goes on to its next slice.
FetchEnds(task) ==
    LET o == task[1]
        i == task[2]
        sent == task[3]
    IN /\ \/ /\ fetching' = fetching \ {task}
             /\ UNCHANGED store
          \/ /\ Metadata(o) = "ranges" /\ Answer(o, i, sent) = 206
             /\ fetching' = fetching \ {task}
             /\ store' = store \cup {<<o, i>>}
          \/ /\ Metadata(o) = "no_ranges" /\ "if-none-match" \notin sent.names
             /\ fetching' = (fetching \ {task}) \cup
                  (IF (i + 1) * SliceSize < Length[o] THEN {<<o, i + 1, sent>>} ELSE {})
             /\ store' = store \cup {<<o, i>>}
       /\ UNCHANGED <<index, cell, waiting, patterns, clock, received, losses, reply, accesses>>
-----------------------------------------------------------------------------
Lose ==
    /\ losses < MaxLosses
    /\ losses' = losses + 1
    /\ UNCHANGED <<clock, received, reply, accesses>>

\* The store evicts a slice.
Evict(k) ==
    /\ Lose
    /\ store' = store \ {k}
    /\ UNCHANGED <<index, cell, waiting, patterns, fetching>>

\* admin/api.rs, purge: the object's slices and its index entry, and not its cell.
Purge(o) ==
    /\ Lose
    /\ index[o] # "unknown"
    /\ index' = [index EXCEPT ![o] = "unknown"]
    /\ store' = {k \in store : k[1] # o}
    /\ UNCHANGED <<cell, waiting, patterns, fetching>>

\* Another process on the same directory, whose index may have been lost.
Restart ==
    /\ Lose
    /\ index' \in {index, [o \in Objects |-> "unknown"]}
    /\ cell' = [o \in Objects |-> "unknown"]
    /\ waiting' = [o \in Objects |-> <<>>]
    /\ patterns' = [o \in {} |-> 0]
    /\ fetching' = {}
    /\ UNCHANGED store

Tick ==
    /\ clock < MaxClock
    /\ clock' = clock + 1
    /\ UNCHANGED <<index, cell, waiting, store, patterns, fetching, received, losses, reply, accesses>>

Next ==
    \/ \E q \in Requests : Receive(q) \/ Wait(q)
    \/ \E o \in Objects : \/ ProbeLearns(o) \/ ProbeFails(o)
                         \/ \E k \in DOMAIN waiting[o] : Wakes(o, k) \/ Leaves(o, k)
                         \/ Purge(o)
    \/ \E task \in fetching : FetchEnds(task)
    \/ \E k \in store : Evict(k)
    \/ Restart
    \/ Tick

Spec == Init /\ [][Next]_vars
-----------------------------------------------------------------------------
Answered == "x_cache" \in DOMAIN reply

\* headers.rs, CacheStatus, and plan's "a cold request reports MISS rather than PARTIAL":
\* X-Cache tells exactly which slices of the response the store had, the slice of the
\* request's own probe not among them, whatever was evicted, purged, prefetched or forgotten
\* before.  A request without a slice of its own in the store, that waited for the probe of
\* another or whose slice was evicted at once, has one too many taken off: it may be told
\* one slice less than the store had, never more.  Left out is a response planned again for
\* If-Range after a probe of its own, whose slice counts as cached.
CacheStatusTruthful ==
    Answered /\ ~(reply.replanned /\ reply.fetched # {}) =>
       \/ reply.x_cache = IF reply.cached = reply.span THEN "HIT"
                          ELSE IF reply.cached = {} THEN "MISS" ELSE "PARTIAL"
       \/ /\ ~reply.known /\ reply.fetched = {}
          /\ reply.cached # {}
          /\ reply.x_cache = IF Cardinality(reply.cached) = 1 THEN "MISS" ELSE "PARTIAL"

\* maybe_prefetch, "gated on a demonstrated pattern": slices are fetched ahead only in an
\* object whose last SEQUENTIAL_THRESHOLD + 1 requests, of those served in slices and
\* whoever sent them, each began where the one before ended, and soon after it; and only
\* slices of the object, close ahead.
PrefetchIsEarned ==
    Answered /\ reply.ahead # {} =>
       LET log == accesses[reply.object]
           n == Len(log)
       IN /\ n > SEQUENTIAL_THRESHOLD
          /\ \A k \in n - SEQUENTIAL_THRESHOLD .. n - 1 :
                /\ log[k + 1].first = log[k].last + 1
                /\ log[k + 1].at - log[k].at < PATTERN_TTL
          /\ \A i \in reply.ahead :
                /\ i * SliceSize < Length[reply.object]
                /\ i \in log[n].last + 1 .. log[n].last + Window

\* readahead.rs, MAX_TRACKED, "Hard cap on tracked objects": however many objects are
\* requested within PATTERN_TTL.
PatternsBounded == Cardinality(DOMAIN patterns) <= MAX_TRACKED

\* index.rs, no_ranges: "The origin ignores `Range` for this object (FR-13)."  A client's
\* If-Range is forwarded with the probe, and an origin that honours it answers 200.
NoRangesMeansIgnored == \A o \in Objects : index[o] = "no_ranges" => o \in IgnoresRange
=============================================================================
