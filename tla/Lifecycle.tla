----------------------------- MODULE Lifecycle -----------------------------
(***************************************************************************)
(* One cache directory through the lives of the processes that open it:    *)
(* run of main.rs from prepare to the signal, the shutdown of Shutdown,    *)
(* and what is on disk between two lives.  A supervisor starts the next    *)
(* process, with any of the configurations an operator may give it; the    *)
(* machine may kill a process at any point, an external step of starting   *)
(* (a bind, an open, a write) may fail, and stored slices may rot.         *)
(*                                                                         *)
(* Requests are the handlers of Shutdown, accepted from the moment the     *)
(* HTTP port is bound.  They ask for the slices of one object that does    *)
(* not change; ObjectCache has the versions.  Metrics, logs and the        *)
(* sampler, which change nothing here, are left out.                       *)
(***************************************************************************)
EXTENDS Shutdown, Settings, StoreCodec

CONSTANTS
    Configs,        \* the configurations a process may be started with
    Content,        \* the bytes of the object
    Header,         \* the header of its slices, but for their size
    Metas,          \* what the index may come to know of it
    Fragile,        \* bound: the cells of a slice that may go bad
    Noise,          \* what a damaged cell may read as
    MaxCrashes,     \* bound: processes killed
    MaxFailures,    \* bound: external steps of starting that fail
    MaxDamage       \* bound: stored slices damaged

ASSUME BoundsNat == MaxCrashes \in Nat /\ MaxFailures \in Nat /\ MaxDamage \in Nat
ASSUME ObjectType == /\ Content \in Seq(Nat) /\ Len(Content) > 0
                     /\ Header \in SliceHeaders /\ Metas \subseteq ObjectMetas
ASSUME ConfigsType ==
    \A c \in Configs : \A s \in Sizes : c[s].number \in Nat \cup {NoSize} /\ c[s].si \in BOOLEAN

VARIABLES
    phase,      \* how far run has got
    config,     \* the configuration of the process
    exit,       \* its exit code
    store_open, listeners_bound,    \* Readiness
    file,       \* the CONFIG file
    slices,     \* the slice store's files: the buffer of each slice
    index,      \* the buffer of the object's index entry
    meta,       \* what was put there
    faults      \* how many of each fault have happened

lifeVars == <<phase, config, exit, store_open, listeners_bound, file, slices, index, meta, faults>>
allVars == <<vars, lifeVars>>

EXIT_CONFIG == 78
EXIT_UNAVAILABLE == 69
EXIT_USAGE == 2
Killed == 137
NoExit == -1

NoMeta == [corrupt |-> FALSE]

LifeInit ==
    /\ Init
    /\ phase = "down"
    /\ config \in Configs
    /\ exit = 0
    /\ store_open = FALSE /\ listeners_bound = FALSE
    /\ file = Absent
    /\ slices = <<>>
    /\ index = <<>> /\ meta = NoMeta
    /\ faults = [crashes |-> 0, failures |-> 0, damage |-> 0]

Min2(a, b) == IF a < b THEN a ELSE b
SliceSize == Size(config, "slice_size")
Extent(i) == SubSeq(Content, i * SliceSize + 1, Min2((i + 1) * SliceSize, Len(Content)))
Last == (Len(Content) - 1) \div SliceSize

Fault(kind, max) == faults[kind] < max /\ faults' = [faults EXCEPT ![kind] = @ + 1]
-----------------------------------------------------------------------------
\* Slices that were not flushed are lost: nothing closes the store.
LoseUnflushed == \E kept \in SUBSET DOMAIN slices : slices' = [i \in kept |-> slices[i]]

\* The process is gone, by a kill or with the code main maps run's error to, and its memory
\* and connections with it.
Gone(code) ==
    /\ phase' = "down" /\ main' = "exited"
    /\ exit' = code
    /\ unready' = FALSE /\ draining' = FALSE /\ inflight' = 0 /\ calls' = 0
    /\ handler' = [h \in Handlers |-> "idle"]
    /\ ticket' = 0 /\ finished' = FALSE
    /\ LoseUnflushed
    /\ UNCHANGED <<config, index, meta>>

Reach(next) ==
    /\ phase' = next
    /\ UNCHANGED <<vars, config, exit, slices, index, meta>>

\* A new process: everything in memory is new.
Start(c) ==
    /\ phase = "down"
    /\ config' = c
    /\ phase' = IF Parsable(c) THEN "parsed" ELSE "down"
    /\ exit' = IF Parsable(c) THEN NoExit ELSE EXIT_USAGE
    /\ store_open' = FALSE /\ listeners_bound' = FALSE
    /\ main' = IF Parsable(c) THEN "serving" ELSE "exited"
    /\ UNCHANGED <<unready, draining, inflight, calls, handler, ticket, finished>>
    /\ UNCHANGED <<slices, file, index, meta, faults>>

\* prepare: validate and the guard.  fs::write empties the file before it writes.
CheckGuard ==
    /\ phase = "parsed"
    /\ LET verdict == IF validate(config) THEN check(file, config) ELSE "invalid"
       IN \/ verdict = "same" /\ Reach("guarded") /\ UNCHANGED file
          \/ verdict = "record" /\ Reach("recording") /\ file' = Torn
          \/ verdict \notin {"same", "record"} /\ Gone(EXIT_CONFIG) /\ UNCHANGED file
    /\ UNCHANGED <<faults, store_open, listeners_bound>>

Record ==
    /\ phase = "recording"
    /\ Reach("guarded")
    /\ file' = stored(config)
    /\ UNCHANGED <<faults, store_open, listeners_bound>>

\* prepare: the rules file.
LoadRules ==
    /\ phase = "guarded"
    /\ IF valid_rules(config.rules) THEN Reach("prepared") ELSE Gone(EXIT_CONFIG)
    /\ UNCHANGED <<faults, file, store_open, listeners_bound>>

\* The admin port first: from here on /healthz answers, and /readyz says "starting".
BindAdmin ==
    /\ phase = "prepared"
    /\ Reach("admin")
    /\ UNCHANGED <<faults, file, store_open, listeners_bound>>

\* The slice store and the index are opened.
OpenStore ==
    /\ phase = "admin"
    /\ Reach("open")
    /\ store_open' = TRUE
    /\ UNCHANGED <<faults, file, listeners_bound>>

\* The domain list, the resolver, the client and the compiled rules.
LoadServices ==
    /\ phase = "open"
    /\ IF config.services = "bad" \/ ~resolver_built(config.dns) THEN Gone(EXIT_CONFIG)
       ELSE Reach("loaded")
    /\ UNCHANGED <<faults, file, store_open, listeners_bound>>

\* Mutant of BindHttp: the listeners count as bound with the first of them.
BindHttp_Ready ==
    /\ phase = "loaded"
    /\ IF config.http = config.admin THEN Gone(EXIT_UNAVAILABLE) ELSE Reach("http")
    /\ listeners_bound' = TRUE
    /\ UNCHANGED <<faults, file, store_open>>

\* The HTTP port, and requests are accepted; the refresh task is spawned after it.
BindHttp ==
    /\ phase = "loaded"
    /\ IF config.http = config.admin THEN Gone(EXIT_UNAVAILABLE) ELSE Reach("http")
    /\ UNCHANGED <<faults, file, store_open, listeners_bound>>

\* The HTTPS port; then the process is ready.
BindSni ==
    /\ phase = "http"
    /\ IF config.https \in {config.admin, config.http}
       THEN Gone(EXIT_UNAVAILABLE) /\ UNCHANGED listeners_bound
       ELSE Reach("bound") /\ listeners_bound' = TRUE
    /\ UNCHANGED <<faults, file, store_open>>

\* LateApiState::set: the operator's endpoints stop answering 503.
PublishApi ==
    /\ phase = "bound"
    /\ Reach("published")
    /\ UNCHANGED <<faults, file, store_open, listeners_bound>>

\* A step that depends on the world fails: the file cannot be written, a port is taken, the
\* store does not open, the bundled list or a client cannot be built.
StepFails ==
    /\ Fault("failures", MaxFailures)
    /\ \/ phase = "recording" /\ Gone(EXIT_CONFIG)
       \/ phase \in {"prepared", "admin", "open", "loaded", "http"} /\ Gone(EXIT_UNAVAILABLE)
    /\ UNCHANGED <<file, store_open, listeners_bound>>

StartupStep ==
    \/ CheckGuard
    \/ Record
    \/ LoadRules
    \/ BindAdmin
    \/ OpenStore
    \/ LoadServices
    \/ BindHttp
    \/ BindSni
    \/ PublishApi
-----------------------------------------------------------------------------
Accepting == phase \in {"http", "bound", "published"}
Working == \E h \in Handlers : handler[h] = "working"

\* A request is handled, from its connection on.
HandleRequest == Accepting /\ (\E h \in Handlers : EnterLoad(h) \/ HandlerStep(h)) /\ UNCHANGED lifeVars

\* main, from the signal on.  An earlier signal kills the process.
ShutDown == phase = "published" /\ (Signal \/ MainStep \/ Timeout) /\ UNCHANGED lifeVars

\* AuthToken::permits and refuse_unauthenticated_mutation.
permits(presented) == config.admin_token => presented
Mutable == config.loopback \/ config.admin_token

\* The operator's endpoints: 503 until the API is published, then authorised, then done.
Published == phase = "published"
status(presented, mutates, done) ==
    IF ~Published THEN 503
    ELSE IF ~permits(presented) THEN 401
    ELSE IF mutates /\ ~Mutable THEN 403
    ELSE done

\* /drain, with or without the token.
DrainEndpoint(presented) ==
    /\ status(presented, TRUE, 202) = 202
    /\ AdminDrain
    /\ UNCHANGED lifeVars

\* /purge of everything: the slices the entry spans at this slice size, and the entry.
PurgeEndpoint(presented) ==
    /\ Running /\ status(presented, TRUE, 200) = 200
    /\ meta # NoMeta
    /\ slices' = [i \in {j \in DOMAIN slices : j > Last} |-> slices[i]]
    /\ index' = <<>> /\ meta' = NoMeta
    /\ UNCHANGED <<vars, phase, config, exit, store_open, listeners_bound, file, faults>>

\* A request in progress learns of the object and stores a slice of it.
Fill(i) ==
    /\ Accepting /\ Running /\ Working
    /\ i <= Last /\ i \notin DOMAIN slices
    /\ \E m \in Metas :
         /\ index' = encode_meta(m) /\ meta' = m
         /\ slices' = [j \in DOMAIN slices \cup {i} |->
                         IF j = i THEN encode_slice([Header EXCEPT !.slice_size = SliceSize], Extent(i))
                         ELSE slices[j]]
    /\ UNCHANGED <<vars, phase, config, exit, store_open, listeners_bound, file, faults>>

\* A request in progress reads a slice that does not decode: it is dropped.  (Reading any
\* other changes nothing.)
Read(i) ==
    /\ Accepting /\ Running /\ Working
    /\ i <= Last /\ i \in DOMAIN slices
    /\ decode_slice(slices[i]) = NoPayload
    /\ slices' = [j \in DOMAIN slices \ {i} |-> slices[j]]
    /\ UNCHANGED <<vars, phase, config, exit, store_open, listeners_bound, file, index, meta, faults>>
-----------------------------------------------------------------------------
\* The process is killed.
Crash ==
    /\ phase # "down"
    /\ Fault("crashes", MaxCrashes)
    /\ Gone(Killed)
    /\ UNCHANGED <<file, store_open, listeners_bound>>

\* run returns after the shutdown.
Finish ==
    /\ phase = "published" /\ main = "exited"
    /\ Gone(0)
    /\ UNCHANGED <<file, store_open, listeners_bound, faults>>

\* A cell of a stored slice goes bad, or its end is lost.
Rot(i) ==
    /\ phase = "down"
    /\ Fault("damage", MaxDamage)
    /\ \E at \in Fragile \cap DOMAIN slices[i] :
         \/ \E x \in Noise \ {slices[i][at]} : slices' = [slices EXCEPT ![i][at] = x]
         \/ slices' = [slices EXCEPT ![i] = SubSeq(@, 1, at - 1)]
    /\ UNCHANGED <<vars, phase, config, exit, store_open, listeners_bound, file, index, meta>>

LifeNext ==
    \/ \E c \in Configs : Start(c)
    \/ StartupStep
    \/ StepFails
    \/ HandleRequest
    \/ ShutDown
    \/ \E presented \in BOOLEAN : DrainEndpoint(presented) \/ PurgeEndpoint(presented)
    \/ \E i \in 0 .. Len(Content) - 1 : Fill(i) \/ Read(i)
    \/ Crash
    \/ Finish
    \/ \E i \in DOMAIN slices : Rot(i)

LifeSpec == LifeInit /\ [][LifeNext]_allVars

\* As in Shutdown; and the supervisor starts the next process, and run goes on.
LifeFairSpec ==
    /\ LifeSpec
    /\ WF_vars(phase = "published" /\ MainStep)
    /\ \A h \in Handlers : WF_vars(Accepting /\ (EnterAdd(h) \/ GuardNotify(h)))
    /\ WF_allVars(Finish \/ \E c \in Configs : Start(c))
    /\ WF_allVars(StartupStep)
-----------------------------------------------------------------------------
\* Readiness::is_ready.
is_ready == store_open /\ listeners_bound /\ ~unready

\* The admin port answers from its bind until the process is gone.
AdminUp == phase \notin {"down", "parsed", "recording", "guarded", "prepared"}

readyz == IF is_ready THEN "ready" ELSE IF unready THEN "draining" ELSE "starting"

\* /stats and /services, of what is modelled here.
stats(presented) ==
    [status |-> status(presented, FALSE, 200), draining |-> draining, inflight |-> inflight]

\* admin/mod.rs, FR-53 and FR-62: in every life, a probe is told "ready" exactly from when the
\* store is open and both ports are bound until an operator drains it or the signal arrives, and
\* "draining" ever after; nothing of an earlier life, or of a start that failed half-way, shows.
\* What /stats says is never ahead of the probe: an operator who reads "draining" there, or
\* requests in flight, finds a probe that has said "draining" or a store that is open.
ReadyMeansServing ==
    AdminUp =>
       /\ readyz = "ready" <=> phase \in {"bound", "published"} /\ main = "serving" /\ ~unready
       /\ readyz = "draining" <=> unready
       /\ LET told == stats(config.admin_token) IN
            told.status = 200 => /\ readyz # "starting"
                                 /\ told.draining => readyz = "draining"
       /\ inflight > 0 => store_open

\* What reading a slice gives a request, if it is there.
Served == {<<i, decode_slice(slices[i])>> : i \in {j \in DOMAIN slices : j <= Last}}

\* slice.rs, "A corrupt slice is dropped and refetched, never served (FR-42)", and index.rs: a
\* slice read back is bytes of the object that were stored for it, whatever rotted, and the
\* index returns the entry that was put last, across kills and restarts.
DirectoryReadsBack ==
    /\ Accepting => \A s \in Served :
          s[2] # NoPayload => \E n \in 1 .. Len(Content) :
             s[2] = SubSeq(Content, s[1] * n + 1, Min2((s[1] + 1) * n, Len(Content)))
    /\ meta # NoMeta => decode_meta(index) = meta

\* config/mod.rs, FORCE_CONFIG: "Existing slices become unreachable", and guard.rs, "The slices
\* already stored there were written under the old setting and cannot be reinterpreted": what a
\* request reads is the extent its plan means, at the slice size of this process.
ReadsBelongToConfig ==
    Accepting => \A s \in Served : s[2] # NoPayload => s[2] = Extent(s[1])

\* main.rs, the exit codes, and guard.rs: a directory stays usable.  A process whose settings
\* are valid and agree with the file comes up again after every kill, failed start and shutdown.
StartsAgain ==
    /\ WF_vars(Timeout)
    /\ <>[](/\ Parsable(config) /\ validate(config)
            /\ check(file, config) \in {"same", "record"}
            /\ valid_rules(config.rules) /\ config.services # "bad")
    => []<>(phase = "published" /\ main = "serving")
=============================================================================
