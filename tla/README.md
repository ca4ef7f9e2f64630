# cachic in TLA+

cachic is a caching proxy for large downloads. It keeps objects as fixed-size
slices, fetches missing slices from the origin with `Range` requests, and
assembles responses from slices as they arrive. This directory models
`crates/cachic` from the accept loops to the disk, model-checks it with TLC on
small instances, and proves its central safety properties with TLAPS for all
values of the constants. Paths below are relative to `crates/cachic/src`.

## The system and what is modelled

| Part | Source | Modules |
|---|---|---|
| Connection ceilings, both accept loops | `proxy/limits.rs`, `proxy/server.rs`, `sni/proxy.rs` | `ConnectionLimit` |
| TLS pass-through by server name | `sni/proxy.rs`, `sni/clienthello.rs` | `ClientHello`, `SniProxy` (composed with `ConnectionLimit`) |
| Domain lists, matching, cache keys, rules | `services/{domains,matcher,key,defaults}.rs`, `config/rules.rs` | `DomainList`, `CacheKey`, `PathRewriting` (reference) |
| Routing under a list that is refreshed | `services/refresh.rs`, `proxy/server.rs` | `LiveServices` |
| Planning, cache status, prefetch | `orchestrator/mod.rs`, `orchestrator/readahead.rs`, `proxy/headers.rs`, `proxy/server.rs` | `Planning`, `Readahead`, `Headers` |
| Range arithmetic, windowed body | `proxy/range.rs`, `proxy/server.rs` | `RangePlan`, `BodyStream` |
| Versions, generations, coalesced fetches, invalidation | `orchestrator/mod.rs`, `store/index.rs`, `store/hybrid.rs` | `ObjectCache`, `Validators` |
| What a client is promised | FR-14 | `VersionedResponse` |
| Origins that ignore `Range` | `orchestrator/mod.rs`, `orchestrator/filler.rs` | `Filler` |
| Fetching from origins | `upstream/{client,resolver,guard}.rs` | `UpstreamClient`, `AddressGuard` |
| Drain and exit | `proxy/shutdown.rs`, `main.rs` | `Shutdown` |
| Startup, settings, the directory on disk, operator endpoints | `main.rs`, `config/{mod,units,guard,rules}.rs`, `store/{slice,index,space}.rs`, `admin/*.rs` | `Settings`, `StoreCodec`, `Lifecycle` (composed with `Shutdown`) |

A request passes an accept loop (`ConnectionLimit`) and the drain (`Shutdown`),
is routed and keyed (`LiveServices`), planned (`Planning`), and its body stream
spawns one task per slice (`BodyStream`). A slice task asks the store, which
coalesces fetches (`ObjectCache`), or joins a whole-object fill (`Filler`); both
fetch through `UpstreamClient`. `SniProxy` is what becomes of a connection to
the TLS port. `Lifecycle` runs the process again and again over one directory.

Modules are composed where parts interact through shared state: `SniProxy` holds
permits of `ConnectionLimit`, `Lifecycle` contains `Shutdown`, `LiveServices`
keys requests under the list in charge, `Planning` feeds the pattern map. Where
one part only uses another's result, it assumes as little as possible of it:
`BodyStream` lets a slice task end in any order with a slice, a short slice or an
error, and `ObjectCache` lets a fetch be answered or fail.

### State and actions

* **ConnectionLimit.** `open` and `rejected` are the atomics, `peers` the map
  under the mutex, `state` where each attempt is, `current` the local variable
  of `acquire_global`. Each atomic operation and each critical section is one
  action: `RefusePeer`/`ClaimPeer`, `Load`, `SwapOk`/`SwapFail`, `GiveBack`, and a
  permit's drop in two steps, `DropOpen` and `DropPeer`.
* **SniProxy.** `session` is the local state of `splice` for each TLS attempt,
  with one action per await: `Read` (one turn of the read loop, any fragment),
  `CheckName`, `Resolve`, `Connect`, `Relay`, and the timeouts. A plain HTTP
  connection just holds its permit. `ClientHello` parses a sequence of cells, and
  also has what a client means to say (`NameAsked`) as the reference.
* **LiveServices.** `matcher` and `list` are the two swapped pointers, `refresh`
  where the refresh task is; the repository is a sequence of revisions. A fetch
  takes one step per HTTP request, so it can mix revisions. `Serve` is `serve` up
  to the plan: heartbeat, method, host, rule, key, upstream URL. `DomainList` and
  `CacheKey` have the parsers and `normalise`; the reference for the path is the
  rewriting system of `PathRewriting`.
* **Planning.** Concurrent requests over several objects: `index` and `cell` are
  what the object index and the metadata cells know of each, `waiting` the requests
  inside a cell's `get_or_try_init`, of which the first probes, `store` the slices
  held, `patterns` the map of `ReadaheadPolicy`, `fetching` the detached tasks of
  bodies and prefetches, `accesses` a log of the requests the policy observed, which
  the code does not keep. A request finds its object known (`Receive`) or waits
  (`Wait`) until the probe has learned it (`ProbeLearns`, `Wakes`), has failed
  (`ProbeFails`: 502, and the next one probes) or its client is gone (`Leaves`). From
  there to the headers `serve` awaits nothing, so `Serve` is one step: 416, a HEAD,
  or a response with its tasks. Slices are evicted, objects purged, the process is
  restarted, the clock ticks.
* **BodyStream.** `tasks` maps the slices held by `buffered(readahead)` to their
  outcome, `next` is the slice to send, `sent` the bytes sent. `RangePlan` has
  the operators for `resolve`, `plan`, `slice_extent` and `payload_window`,
  saturation of slice indices included.
* **ObjectCache.** One object; all state of the code is keyed by object id.
  `index` is the redb entry, `store` maps (generation, slice) to a slice with its
  header, `cell`/`once` are the metadata map and its `OnceCell`s, `plan` what a
  response is based on, `task` the slice tasks, `flight` the fetches in flight.
  Every redb transaction is a step, so `touch` and `invalidate` are a read and a
  write with anything in between; so are the answer of the origin, the read of
  the generation, the store and the put of a probe. `Restart` keeps the index and
  the store. A version reports validators (`Reported`), compared by `matches` of
  `Validators`: strong, weak or absent.
* **Filler.** `registry` is `FillRegistry`, `progress` the watch channel of each
  fill, `written` how far `run_fill` is, `seen` what a subscriber has looked at.
* **UpstreamClient.** One `pc` per call: check, service permit, global permit,
  dial, answer, body. The semaphores have FIFO queues, as tokio's do; a call can
  be dropped at every await. `fetch_stream` returns when the headers are in; the body
  is read after that, without permits (`streaming`). DNS may answer differently at
  each lookup.
  `AddressGuard` has `check_v4`/`check_v6`, and the special-purpose blocks as a
  table of prefixes for reference.
* **Shutdown.** `inflight`, `draining` and the readiness flag; `calls` counts
  `notify_waiters` and `ticket` is the count when a `Notified` was created.
* **Lifecycle.** `phase` is how far `run` has got, `file` the CONFIG file (absent,
  torn, or settings), `slices` and `index` the encoded buffers on disk. One action
  per step of the startup, the operator's endpoints with their authorisation,
  `Fill` and `Read` of a slice by a request at work, `Crash`, `StepFails` and
  `Rot`. `Settings` has `parse_size`, `validate` and `guard::check`; `StoreCodec`
  the encodings.

### Abstractions

* A payload is the version it came from in `ObjectCache`, and a sequence of cells
  in `Lifecycle`, which has no versions. Hashes (`xxh3` as a checksum, the object
  id) are taken as injective.
* A host is the sequence of its labels: of a label it matters whether it is empty,
  whether it starts with a star (`Starred`), and which one it is. A path is a
  sequence of atoms, a pattern of the rules a run of atoms with anchors, a
  ClientHello a sequence of fields.
* The generation is a `u32` that wraps; the models use naturals.
* A detached prefetch task behaves in `ObjectCache` like a slice task whose
  client is gone, which is there; `Planning` has the tasks themselves.
* In `Planning` an `If-None-Match` names the current version; any other one
  changes nothing, neither in `serve` nor at an origin.
* `ObjectIndex::prune`, `Drain::enter_unconditional` and
  `ConnectionLimit::try_acquire` have callers in tests only.
* foyer, tokio, reqwest and DNS are external: `get_or_fetch` hits, joins or
  leads; eviction takes any slice at any time; `OnceCell` lets the next waiter
  initialise after a failure; a watch channel keeps its last value.

## Model checking

| Run | Module, configuration | What it shows |
|---|---|---|
| `object_versions` | `MCObjectCache`, `MCObjectVersions.cfg` | `NoMixedResponse`, `GenerationIsOneVersion`, and `ServesOneVersion`: `ObjectCache` implements `VersionedResponse`, mapping each request to the response its client sees. |
| `object_faults` | `MCObjectCache`, `MCObjectFaults.cfg` | `SelfDescribing`, `FlightsAreLed`, `RequestsEnd` with a crash, a purge, an hour passing, a disconnect, eviction, failing fetches and a change to a version with a weak ETag. |
| `filler` | `MCFiller`, `MCFiller.cfg` | `OneFiller`, `ReadyIsReadable`, `WakesAtItsSlice`, `FillsEnd`. |
| `connection_limit` | `MCSniProxy`, `MCSniProxy.cfg` | Of the limit: `TypeOK`, `GlobalCeiling`, `PeerAccounting`, `AcceptLoopReturns`. Of TLS sessions under it: `NameSurvivesFragments`, `RelaysAreFaithful`, `PermitsComeBack`. |
| `body_stream` | `MCBodyStream`, `MCBodyStream.cfg` | `FramesTile`, `CompleteIsWhole`, `ResponseEnds`, and `AbortedIsShort`: a body that fails has sent what comes before the failed slice and never its declared length. |
| `upstream` | `MCUpstreamClient`, `MCUpstreamClient.cfg` | `TypeOK`, `DialsAreGuarded`, `HealthyServicesProgress`, and `InFlightBounded`, which counts calls that have not returned: a streaming fill is not among them, see `upstream_fills`. |
| `services` | `MCLiveServices`, `MCLiveServices.cfg` | `LiveListUsable`, `RoutesBySpecificity`, `KeysNameObjects`, `RefreshCatchesUp`. |
| `planning` | `MCPlanning`, `MCPlanning.cfg` | `PrefetchIsEarned`, `PatternsBounded`, and `CacheStatusTruthful`: exact for a request that found its object known or whose own probe's slice is there, at most one slice too low for the others. |
| `shutdown` | `MCLifecycle`, `MCLifecycle.cfg` | Of the drain, in every life: `FinishedIsIdle` (when it says that everything finished, no counted request is at work), `RefusedOnlyWhenUnready`, `CompletionNotMissed`, `ExitIsBounded`. Of the process and its directory: `ReadyMeansServing`, `DirectoryReadsBack`, `ReadsBelongToConfig`, `StartsAgain`. |

Each property of these runs has a mutated definition (named `X_...` next to `X`)
under which TLC finds it violated.

Three runs end in a counterexample, where the code does something other than the
repository says:

| Run | What happens |
|---|---|
| `object_overlap` | The object changes twice in quick succession. A probe takes its version from the origin's answer and its generation from the index afterwards; bumps of older responses run in between, and two probes file two versions under one generation. |
| `upstream_fills` | `FillsWithinBudget`. The service's permit is a local of `fetch_stream` and goes when that returns the stream: a second fill of the service begins while the first is still being read. The comment at `upstream/client.rs:364` says that a fill counts against its service's budget. |
| `shutdown_bodies` | `FinishedMeansStreamed`. A request's guard is dropped when `handle` returns the response, before its body is streamed: `drain` says that everything finished and `main` exits with slices on their way. FR-62 (`proxy/shutdown.rs:3`) has in-flight slices finish, and `docs/kubernetes.md:40` in-flight requests. |

### Configurations kept for exploration

These instances are not among the runs; each is one `tlc` call.

| Configuration | Module | Result |
|---|---|---|
| `MCObjectPurge.cfg` | `MCObjectCache` | `NoMixedResponse` fails: purge removes the entry with its generation, the next probe starts at generation 0, where slices of an older version may still be stored. |
| `MCObjectCrash.cfg` | `MCObjectCache` | `NoMixedResponse` fails: a crash after the probed slice is stored and before its index entry is written. The next probe does not repair from the slice, as `store/index.rs:10` says, but takes generation 0 and hits it. |
| `MCFillerMixed.cfg` | `MCFiller` | `OneVersionPerResponse` fails: a fill does not look at the validators of what it streams. |
| `MCBodyIfRange.cfg` | `MCBodyStream` | `IfRangeHonoured` fails: the range is resolved before `If-Range` is looked at, so a changed, shorter entity is answered with 416. |
| `MCObjectTouch.cfg` | `MCObjectCache` | `NoMixedResponse` fails: the instance of `object_versions` with an hour passing. The write of a `touch` restores an entry read before an invalidation, as in `object_overlap`. |
| `MCPlanningConditional.cfg` | `MCPlanning` | `NoRangesMeansIgnored` fails: a probe forwards the client's `If-Range`. If it names another version, an origin that honours ranges answers 200, and the object is recorded as one whose origin ignores `Range` (`store/index.rs:56`). |
| `MCForceConfig.cfg` | `MCLifecycle` | `ReadsBelongToConfig` fails with `FORCE_CONFIG` and another slice size. Old slices are still found, since neither their key nor the index has the slice size, and are served as extents of the new size; `config/mod.rs:89` says that they "become unreachable". |

### Smaller observations

Met while translating; the properties are stated around them or the models
contain them.

* `services/key.rs`: with `keep_query`, `/a%3Fb` and `/a?b` have the same key
  (the exception in `KeysNameObjects`).
* `proxy/server.rs:400`: rules are compiled for the services of the startup list
  only; a service that a refresh adds runs under the default rule, without the
  operator's `defaults` (`RuleOf`).
* `proxy/server.rs:409`: `is_cacheable` sees the path as written and the key the
  normalised one (`Answer` of `LiveServices`).
* `orchestrator/mod.rs:275`: `probed_here` is true of every request that found the
  cell empty, also of those that waited for another's probe. They take a slice off
  their count that they did not fetch, and `X-Cache` tells them one slice less than
  was cached (the second case of `CacheStatusTruthful`).
* `upstream/guard.rs:149`: the guard judges all of `64:ff9b::/32` by the IPv4 address
  in its last segments, where the registry's block is a /96.
* `upstream/resolver.rs:128`: the resolver of the SNI path is cloned before
  `with_metrics`, so its refusals are not counted.
* `orchestrator/validators.rs:58`: a weak ETag does not match itself, so a
  response of several slices never completes for such an object; its requests end
  in errors (`RequestsEnd`).
* `config/guard.rs:154`: a kill inside `fs::write` leaves an empty CONFIG file,
  which every later start refuses, forced or not (excluded in `StartsAgain`).
* `config/mod.rs:250`: `validate` does not compare the memory with the disk size,
  though its comment says so; a slice size of exactly 4 GiB is rejected, though
  "at most 4 GiB" is announced.
* A first request whose range starts beyond the object is answered 502, a later
  one 416. A response planned again for `If-Range` counts the slice its own probe
  fetched as cached (`CacheStatusTruthful` leaves it out).

### Bounds

* `object_versions`: three requests, two slices, any span, a window of one slice,
  one change of the object, any number of evictions and failures. Three requests
  are the smallest number with two overlapping invalidations and a request that
  comes after them. One change, and no purge, restart or hour passing, are real
  restrictions and not only bounds: see `object_overlap` and the explorations. The
  proofs make the same ones (`Undisturbed`).
* `object_faults`: two requests, with one of each fault. No property there
  depends on a third request: a waiter needs a leader, and a probe a rival.
* `filler`: two requests, three tasks, an object that shrinks from two slices to
  one, so that a task can wait for a slice that will never come.
* `connection_limit`: two accept loops, two attempts at each, both ceilings at
  two and three attempts of one peer, so that each ceiling refuses while the other
  has room. Reads of three sizes cut a hello before its header is complete, inside
  it and after it.
* `body_stream`: slices of three bytes, objects of up to four slices on both
  sides of every slice boundary, every range with bounds around them, a window of
  two, and a largest slice index of 3, so that the longest object is exactly the
  longest addressable one.
* `upstream`: two calls to a stalled service and two to a healthy one, a global
  ceiling one above the stalled service's budget, one retry, a limit of three
  units; and one call to each address at the edges of the special-purpose blocks.
* `services`: four revisions of the repository, one failing fetch, two requests,
  with hosts and paths in the spellings that the parsers treat differently. Two
  requests suffice: the properties compare pairs.
* `planning`: five objects (one of four slices, to be streamed; two more to
  overflow a map of two; one without ranges; an empty one), twelve kinds of request
  of which three are received, two of them waiting at one object, one loss (an
  eviction, a purge or a restart), one tick, and a largest slice index of 3, so that
  a range can name a slice beyond it. Three requests are the threshold, the one that
  earns a prefetch, and one that profits from it or disturbs the pattern; or a probe,
  a waiter and one that comes after them.
* `shutdown`: two handlers, an object of two bytes at slice sizes 1 and 2, one
  kill, one failing step, one damaged cell, and configurations that break each
  rule of `validate`, of the rules file and of the domain list. The limits of
  integer types are small numbers (`U32_MAX` 4, `U64_MAX` 100, a kibibyte 2) so
  that overflow happens.

`object_versions` and `object_overlap` use the symmetry of the requests, and
their properties are safety properties; the runs with liveness properties use
none. `CHECK_DEADLOCK FALSE` is set wherever the system stops once its requests
are served; `services` and `shutdown`, which never stop, are checked for deadlock.

### Fairness

* `ObjectCache`: the runtime schedules tasks, and a fetch is answered or fails
  (the client has a timeout). Nothing is assumed of clients, changes, eviction,
  purges or crashes.
* `Filler`: local steps only. `FillsEnd` adds, as a premise, that the origin
  answers or breaks off; `WakesAtItsSlice` holds without it.
* `SniProxy`: the accept loops run, a compare-and-swap does not fail spuriously
  for ever, a drop that has begun ends, timers fire, and the resolver answers or
  gives up. Nothing makes a client send, or a relay end.
* `UpstreamClient`: the client's own steps happen, and origins of services that
  are not stalled answer or time out; the stalled ones never have to.
* `LiveServices`: the refresh loop runs.
* `Shutdown`, `Lifecycle`: main and the drop of a guard run, and a supervisor
  starts the next process. Handlers and bodies may hang for ever; `ExitIsBounded`
  and `StartsAgain` have the arrival of the deadline as a premise.
* `BodyStream`: the stream is polled, slice tasks end, the client reads.

## Proofs

TLAPS proves, for all values of the constants that satisfy the named assumptions:

* **`SniProxyProofs`**: of `ConnectionLimit`, `TypeOK`, `GlobalCeiling`,
  `PeerAccounting` and `RejectionsCounted`, for any finite set of attempts, any
  peers and accept loops and any ceilings. The invariants are inductive only
  together: the ceiling needs that an accept loop about to swap has judged its
  copy below the ceiling (`SwapsBelowMax`), and that needs an attempt to be in the
  hands of one accept loop only (`OneLoop`) and undecided while it is (`Busy`). The
  lemma `CountChange` says what moving one attempt does to every set that is
  counted. `SniSpec` implements the `Spec` of `ConnectionLimit`, so both ceilings
  hold under TLS sessions; and `RelaysAreFaithful` and a bound on what is buffered
  hold for any clients, fragments, lists and DNS answers. Their invariant adds what
  a session has at each stage (`SessionOK`). `FragmentsDoNotMatter`: a session that
  has found a name found the one `server_name` reads in all of the client's bytes,
  wherever the reads ended, since a record that is complete is parsed alike whatever
  follows it (`WholeRecord`). `NameSurvivesFragments` follows for clients whose whole
  hello parses to the name they asked for (`HellosParse`), which TLC evaluates for
  the clients of the instance.
* **`UpstreamClientProofs`**: `TypeOK`, `InFlightBounded` and `DialsAreGuarded`,
  for any calls, services, limits, hosts and DNS answers (`HostsType`: hosts are
  names or addresses). The bound needs conservation (`Conserved`): free permits and
  holders add up to each budget. That a literal address is dialled only after its
  check needs the check's result to be remembered by the stage a call is in
  (`Checked`). For every IPv4 address the guard refuses it exactly if it is in a block
  of the reference table; for every IPv6 address in one of its blocks the guard
  refuses it, and the converse is not true (`64:ff9b::/32`). One lemma per rule of
  `check_v4` and `check_v6`, by arithmetic on octets and segments. `InFlightBounded`
  says nothing of streams whose headers are in.
* **`PlanningProofs`**: `PatternsBounded`, `PrefetchIsEarned` and
  `CacheStatusTruthful`, for any objects, lengths, requests, slice size and policy
  (`SliceSizeNat`, `LengthsNat`, `RequestsType`, `PolicyConstants`). A prefetch is
  earned because of `Remembers`: a pattern counts exactly how many of the latest
  accesses in the log continued the one before, whatever the map has expired or
  evicted in between. `CacheStatusTruthful` rests on `WaitingInv`: a request that
  waits at a cell has `probed_here` set, and has fetched at most the slice that its own
  `probe_index` names. Whatever was evicted, purged, restarted or prefetched in
  between, the count is then that of the store, or one less.
* **`LiveServicesProofs`**: `LiveListUsable` and `RoutesBySpecificity`, for every
  repository, list, Host header and number of requests. The core is `Routing`: the
  lookup in the two tables of the matcher finds the service of the most specific
  pattern. Its cases are an exact pattern, the longest parent with a wildcard, and
  none; the best pattern is unique in each, and the last service that lists it is
  the one in the table. `ParsedList` shows that every list `DomainList::parse`
  returns is usable and well formed, so that it does not matter which revisions a
  fetch mixed: the invariant only types what it has read. Assumed: labels are
  strings (`LabelType`, `InputsType`), an index and its files have the types they
  are deserialised to (`RevisionsType`), and the startup list is one, since `main`
  ends otherwise (`StartupUsable`).
* **`FillerProofs`**: `OneFiller` and `ReadyIsReadable` for any tasks and
  versions. The invariant ties a fill's progress to what its owner has written
  (`Written`, `Published`) and says that a task that has not begun owns and has
  seen nothing (`Fresh`). `NobodyStranded` is the safety behind `WakesAtItsSlice` and
  `FillsEnd`: a subscriber waits for a fill that has yet to publish its end, or the
  channel holds a value it has not looked at and on which it returns; and a slice
  that is stored is unannounced only until the fill's next step. What is left to
  fairness is that this step, and then the subscriber's, is taken.
* **`ObjectCacheProofs`**:
  * `FlightsAreLed` under every fault, from `Led`: each fetch in flight has
    exactly the leader it names, and each waiter a fetch. With it `Cells` and
    `CellsAreProbed`: a metadata cell being filled has exactly one prober, and a request
    waiting at one finds it free, set, or in a prober's hands. This is the safety
    behind `RequestsEnd`: whoever waits, waits for somebody who is at work.
  * `SelfDescribing` under every fault, assuming only that distinct versions
    never match (`ToldApart`).
  * `NoMixedResponse`, `GenerationIsOneVersion` and the refinement
    `ServesOneVersion`, for as long as nothing has disturbed the entry
    (`Undisturbed`): the object has changed at most once, its versions' validators
    match themselves and not each other, and there was no purge, restart or due
    touch so far. The requests, the slices, the spans, the window, the evictions, the
    failures and the disconnects are arbitrary, and so is what follows the first
    disturbance; from then on the claims are false, as the runs and explorations
    above show. `Undisturbed` is a predicate of a state, so that the first two are
    invariants of every behaviour (`Spec => [](Undisturbed => ...)`), and
    `ServesOneVersionUntil` says that each step up to the first disturbance is one
    of `VersionedResponse` or a stutter. The invariant is a history in
    three phases: nothing is known and one prober is at work (`Unlearned`); the
    entry is of generation 0 and everything stored or planned is of its version,
    and nobody probes because the cell is set (`Original`); a bump has happened,
    generation 0 is the first version and every later one the second
    (`Superseded`). `Faithful` ties plans, answers and mismatches to the origin;
    it shows that a bump happens only when the origin has changed, which is why
    `Original` cannot go on to two versions.
* **`BodyStreamProofs`**: `TypeOK`, `FramesTile`, `CompleteIsWhole` and
  `AbortedIsShort` for every slice size, window, object and range. The invariant
  adds that the plan lies inside the object, that the slices held are an
  interval of at most the window, and that `next` and `spawned` stay within one
  past the last slice. The arithmetic is in lemmas about `RangePlan`. The
  assumption is that objects are no longer than `max_addressable_len`. The code
  does not check this: its comment relies on the minimum slice size, which puts
  the limit out of practical reach. `ResponseAdvances` is the argument behind
  `ResponseEnds`: in every state of a streaming body the guard of some step holds
  (`NotStuck`), and every step decreases a natural number (`Work`: two for each
  slice to spawn, one for each running task and each frame to send, and one for the
  end). Fairness only adds that steps are taken.
* **`LifecycleProofs`**: of `Shutdown`, `FinishedIsIdle`, `RefusedOnlyWhenUnready`
  and its type invariant, for any finite set of handlers. The first needs the count
  to be the number of guards (`InflightCountsGuards`), the second `UnreadyFirst`:
  readiness has failed by the time the signal is taken, and with it before the
  refusing flag is set. Of `Lifecycle`, the same two in every life of the process,
  and `ReadyMeansServing`, for any configurations and faults. `CompletionWakes` and
  `LifeCompletionWakes` say that the wake-up of `Drain::drain` is not lost, for any
  number of handlers and in every life: if the count is zero and main still waits, a
  notification came after main took its ticket or the last handler has yet to send
  one. The invariant ties the
  readiness flags to the phase of the startup and says that nothing of an earlier
  life is left (`Blank`). Then, of settings: a process past the guard runs under
  the settings on record; without `FORCE_CONFIG` a complete record never changes;
  a size printed by `format_size` parses back to itself; `effective_cap` leaves
  the reserve free; and validated settings give the store room for four slices in
  a block and in the buffer pool. Last, of the directory, for any object (`ObjectType`,
  `ConfigsType`, `CellsNat`): an index entry and a slice decode to what was encoded,
  whatever strings they carry (`MetaBack`, `SliceBack`), so that the index reads back in
  every life (`IndexReadsBack`), `DirectoryReadsBack` holds while nothing is damaged, and
  `ReadsBelongToConfig` holds while nothing is damaged and no configuration has
  `FORCE_CONFIG`. The invariant is `DiskInv`, with `RecordedNext` for the last: every slice
  was stored under the size on record, which does not change.

Only model-checked:

* All liveness properties, and `WakesAtItsSlice` among them: fairness is outside the
  prover's reach. The safety that five of them rest on is proved: `NobodyStranded` for
  `WakesAtItsSlice` and `FillsEnd`, `ResponseAdvances` for `ResponseEnds`,
  `CompletionWakes` for `CompletionNotMissed`, and `FlightsAreLedHolds` with
  `CellsAreProbed` for `RequestsEnd`.
* `KeysNameObjects`, and `HellosParse`, the premise of `NameSurvivesFragmentsHolds`: path
  normalisation, the rewriting system it is compared with and the parser of a
  ClientHello are recursive, and what they compute for every input would need
  induction over data.
* `DirectoryReadsBack` and `ReadsBelongToConfig` once a cell is damaged: that damage is
  noticed rests on the checksum being injective, which the recursive function standing
  for it is only on the payloads of an instance.

## Not modelled

* Telemetry: metrics, logs and the sampler. Nothing reads them back.
* Index I/O errors in the orchestrator: the code logs that stale content may be
  served and claims nothing more. A filler that panics, of which the code has no
  known source.
* The bytes from an origin to a TLS client; the construction of response headers;
  the read-only rendering of `/stats` and `/services`.
* foyer's admission, memory tier and disk engine; redb's own durability.
* The command line and environment, and the generated settings page.
* The spike, superseded by the code modelled here, and the test kit.
