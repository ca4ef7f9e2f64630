--------------------------- MODULE UpstreamClient ---------------------------
(***************************************************************************)
(* Fetches from origins: fetch_range and fetch_stream of                   *)
(* upstream/client.rs, the resolver they check a host with and the same    *)
(* resolver as reqwest calls it when it dials (upstream/resolver.rs).      *)
(* DNS answers and origins are free; the semaphores are tokio's, which     *)
(* serve their waiters in order.                                           *)
(*                                                                         *)
(* A member of Fetches is one call.  Metrics and the contents of headers   *)
(* and bodies are left out; a body is its length.                          *)
(***************************************************************************)
EXTENDS AddressGuard

CONSTANTS
    Fetches,       \* calls of the client
    Streams,       \* the calls that are fetch_stream; the others are fetch_range
    Services,      \* services
    ServiceOf,     \* the service each call names
    Limits,        \* ClientConfig::per_service_inflight, for some services
    MaxInflight,   \* ClientConfig::max_inflight
    Retries,       \* ClientConfig::retries
    Expected,      \* the length of the range asked for
    Slack,         \* RANGE_SLACK
    MaxBody,       \* ClientConfig::max_body_bytes
    Workloads,     \* which calls happen, and the hosts their URLs name
    Unused,        \* no call
    Answers,       \* the hosts that are names, with what DNS may answer: sets of addresses
    Stalled,       \* services whose origins may never answer
    NoAddr         \* no connection

ASSUME FetchesFinite == IsFiniteSet(Fetches)
ASSUME ServicesType == ServiceOf \in [Fetches -> Services] /\ Streams \subseteq Fetches
ASSUME LimitsType == DOMAIN Limits \subseteq Services /\ \A s \in DOMAIN Limits : Limits[s] \in Nat
ASSUME BoundsNat == /\ MaxInflight \in Nat \ {0} /\ Retries \in Nat
                    /\ Expected \in Nat /\ Slack \in Nat /\ MaxBody \in Nat
ASSUME HostsType ==
    /\ \A h \in Workloads : \A f \in Fetches :
          h[f] \in DOMAIN Answers \cup {Unused} \cup IPv4 \cup IPv6
    /\ \A n \in DOMAIN Answers : \A ips \in Answers[n] : ips \subseteq IPv4 \cup IPv6

VARIABLES
    host,       \* the host each call's URL names, or Unused
    pc,         \* where each call is
    attempt,    \* fetch_range's attempt
    to,         \* the address each call has sent its request to
    got,        \* bytes each call has buffered
    inflight,   \* free permits of UpstreamClient::inflight
    waiting,    \* its queue
    permits,    \* free permits of each limited service (UpstreamClient::per_service)
    queue       \* their queues

vars == <<host, pc, attempt, to, got, inflight, waiting, permits, queue>>

Limited == DOMAIN Limits
Ended == {"returned", "refused", "failed", "dropped"}

\* fetch_stream has returned; its caller, run_fill, reads the body.
Released == Ended \cup {"streaming"}

\* UpstreamClient::new: a service's semaphore has at least one permit.
Budget(s) == IF Limits[s] > 1 THEN Limits[s] ELSE 1

\* fetch_range: the most it will buffer for one call.
limit == IF Expected + Slack < MaxBody THEN Expected + Slack ELSE MaxBody

Init ==
    /\ host \in Workloads
    /\ pc = [f \in Fetches |-> "idle"]
    /\ attempt = [f \in Fetches |-> 0]
    /\ to = [f \in Fetches |-> NoAddr]
    /\ got = [f \in Fetches |-> 0]
    /\ inflight = MaxInflight
    /\ waiting = <<>>
    /\ permits = [s \in Limited |-> Budget(s)]
    /\ queue = [s \in Limited |-> <<>>]

Become(f, label) == pc' = [pc EXCEPT ![f] = label]

\* A permit is held from the moment it is taken until the call returns.
InUse == {"dialling", "sent", "reading"}
HoldsService(f) == ServiceOf[f] \in Limited /\ pc[f] \in InUse \cup {"global"}
HoldsGlobal(f) == f \notin Streams /\ pc[f] \in InUse

\* A semaphore's queue without a call: the future that waited in it is dropped.
Without(line, f) == SelectSeq(line, LAMBDA g : g # f)

\* The call returns, with this result: its permits are dropped and it is no longer
\* queued anywhere.
End(f, result) ==
    /\ Become(f, result)
    /\ inflight' = IF HoldsGlobal(f) THEN inflight + 1 ELSE inflight
    /\ permits' = [s \in Limited |-> IF HoldsService(f) /\ s = ServiceOf[f]
                                     THEN permits[s] + 1 ELSE permits[s]]
    /\ waiting' = Without(waiting, f)
    /\ queue' = [s \in Limited |-> Without(queue[s], f)]
    /\ to' = [to EXCEPT ![f] = NoAddr]
    /\ got' = [got EXCEPT ![f] = 0]
    /\ UNCHANGED <<host, attempt>>

\* The call goes on to another stage, in the queue of its semaphore if it has one.
Advance(f, label) ==
    /\ Become(f, label)
    /\ waiting' = IF label = "global" THEN Append(waiting, f) ELSE waiting
    /\ queue' = IF label = "service" THEN [queue EXCEPT ![ServiceOf[f]] = Append(@, f)] ELSE queue
    /\ UNCHANGED <<host, attempt, got>>
-----------------------------------------------------------------------------
IsName(f) == host[f] \in DOMAIN Answers

\* What resolve may make of the host; the empty set is a name with no addresses.  A literal
\* IPv4 address is itself; an IPv6 one has its brackets on, and is looked up in vain.
Lookups(f) == IF IsName(f) THEN Answers[host[f]] ELSE IF IsV4(host[f]) THEN {{host[f]}} ELSE {}

Call(f) ==
    /\ pc[f] = "idle" /\ host[f] # Unused
    /\ Advance(f, "checking")
    /\ UNCHANGED <<to, inflight, permits>>

\* The stage after the check, or after the service's permit.
AfterService(f) == IF f \in Streams THEN "dialling" ELSE "global"

\* Mutant of AfterCheck: the service's permit is not taken.
AfterCheck_NoServicePermit(f) == IF f \in Streams THEN "dialling" ELSE "global"

\* service_permit: a service without a limit has no semaphore.
AfterCheck(f) == IF ServiceOf[f] \in Limited THEN "service" ELSE AfterService(f)

\* check_url and resolve: at least one address must pass the guard.
CheckUrl(f) ==
    /\ pc[f] = "checking"
    /\ \/ \E ips \in Lookups(f) :
             IF Allowed(ips) # {}
             THEN Advance(f, AfterCheck(f)) /\ UNCHANGED <<to, inflight, permits>>
             ELSE End(f, IF ips = {} THEN "failed" ELSE "refused")
       \/ (~IsName(f) => ~IsV4(host[f])) /\ End(f, "failed")

\* service_permit: the semaphore serves its first waiter.
TakeService(f) ==
    /\ pc[f] = "service"
    /\ LET s == ServiceOf[f] IN
         /\ f = Head(queue[s]) /\ permits[s] > 0
         /\ permits' = [permits EXCEPT ![s] = @ - 1]
         /\ queue' = [queue EXCEPT ![s] = Tail(@)]
    /\ Become(f, AfterService(f))
    /\ waiting' = IF AfterService(f) = "global" THEN Append(waiting, f) ELSE waiting
    /\ UNCHANGED <<host, attempt, to, got, inflight>>

\* fetch_range: the global permit.
TakeGlobal(f) ==
    /\ pc[f] = "global"
    /\ f = Head(waiting) /\ inflight > 0
    /\ inflight' = inflight - 1
    /\ waiting' = Tail(waiting)
    /\ Become(f, "dialling")
    /\ UNCHANGED <<host, attempt, to, got, permits, queue>>

\* Mutant of MayRetry: one attempt too many.
MayRetry_OffByOne(f) == f \notin Streams /\ attempt[f] <= Retries

\* fetch_range has attempts left; fetch_stream never retries.
MayRetry(f) == f \notin Streams /\ attempt[f] < Retries

\* send fails before an answer: a failure to connect and a timeout are retried
\* with the permits held, anything else is not.
SendFails(f, transient) ==
    /\ pc[f] \in {"dialling", "sent"}
    /\ IF transient /\ MayRetry(f)
       THEN /\ Become(f, "dialling")
            /\ attempt' = [attempt EXCEPT ![f] = @ + 1]
            /\ to' = [to EXCEPT ![f] = NoAddr]
            /\ UNCHANGED <<host, got, inflight, waiting, permits, queue>>
       ELSE End(f, "failed")

\* Mutant of Dialable: the name is looked up again and dialled unchecked.
Dialable_Unguarded(ips) == ips

\* GuardedResolver: what reqwest may dial of an answer.
Dialable(ips) == Allowed(ips)

\* reqwest dials: a name is looked up again, through GuardedResolver; a literal
\* address is dialled as it stands.  A lookup that fails is a failure to connect.
Dial(f) ==
    /\ pc[f] = "dialling"
    /\ \E ips \in Lookups(f) :
         \E ip \in IF IsName(f) THEN Dialable(ips) ELSE ips :
            to' = [to EXCEPT ![f] = ip]
    /\ Become(f, "sent")
    /\ UNCHANGED <<host, attempt, got, inflight, waiting, permits, queue>>

\* The origin answers.  A redirect and an error status end the call, and so does a
\* 200, whose body is not read; a stream is handed to run_fill, which reads it
\* without any permit: _service_permit is dropped when fetch_stream returns.
Answer(f) ==
    /\ pc[f] = "sent"
    /\ \/ End(f, "failed")
       \/ End(f, IF f \in Streams THEN "streaming" ELSE "returned")

\* A 206 is read, unless it declares more than the limit.
Partial(f) ==
    /\ pc[f] = "sent" /\ f \notin Streams
    /\ \/ Advance(f, "reading") /\ UNCHANGED <<to, inflight, permits>>
       \/ End(f, "failed")

\* Mutant of Chunk: the chunk is added before it is measured.
Chunk_Unmeasured(f, n) ==
    /\ pc[f] = "reading"
    /\ IF got[f] > limit
       THEN End(f, "failed")
       ELSE /\ got' = [got EXCEPT ![f] = @ + n]
            /\ UNCHANGED <<host, pc, attempt, to, inflight, waiting, permits, queue>>

\* A chunk of the body: never more than the limit is kept.
Chunk(f, n) ==
    /\ pc[f] = "reading"
    /\ IF got[f] + n > limit
       THEN End(f, "failed")
       ELSE /\ got' = [got EXCEPT ![f] = @ + n]
            /\ UNCHANGED <<host, pc, attempt, to, inflight, waiting, permits, queue>>

\* The body ends, or breaks off.
BodyEnds(f) ==
    /\ pc[f] \in {"reading", "streaming"}
    /\ \E result \in {"returned", "failed"} : End(f, result)

\* The caller goes away: the call is dropped at any await, a stream while it is read.
Cancel(f) ==
    /\ pc[f] \notin Ended \cup {"idle"}
    /\ End(f, "dropped")

ClientStep(f) == CheckUrl(f) \/ TakeService(f) \/ TakeGlobal(f)

OriginStep(f) ==
    \/ \E transient \in BOOLEAN : SendFails(f, transient)
    \/ Dial(f)
    \/ Answer(f)
    \/ Partial(f)
    \/ \E n \in 1 .. 2 : Chunk(f, n)
    \/ BodyEnds(f)

Next == \E f \in Fetches : Call(f) \/ ClientStep(f) \/ OriginStep(f) \/ Cancel(f)

Spec == Init /\ [][Next]_vars

\* The client's own steps happen, lookups included, and the origin of a service
\* that is not stalled answers or the request times out.
Fairness ==
    \A f \in Fetches :
       /\ WF_vars(ClientStep(f))
       /\ ServiceOf[f] \notin Stalled => WF_vars(OriginStep(f))

FairSpec == Spec /\ Fairness
-----------------------------------------------------------------------------
Stages == {"idle", "checking", "service", "global"} \cup InUse \cup Released

\* Types; fetch_range sends at most one request more than it has retries.
TypeOK ==
    /\ host \in Workloads
    /\ pc \in [Fetches -> Stages]
    /\ attempt \in [Fetches -> 0 .. Retries]
    /\ got \in [Fetches -> Nat]
    /\ inflight \in 0 .. MaxInflight
    /\ permits \in [Limited -> Nat]

\* client.rs, fetch_range and both uses of the resolver: no request goes to an
\* address outside the public internet, also when DNS changes its answer between
\* the check and the dial or between two attempts, and a literal IPv4 address is
\* refused only if it is such an address.
DialsAreGuarded ==
    ~AllowPrivate =>
       \A f \in Fetches :
          /\ to[f] # NoAddr => ~SpecialPurpose(to[f])
          /\ pc[f] = "refused" /\ ~IsName(f) => SpecialPurpose(host[f])

Using(s) == {f \in Fetches : ServiceOf[f] = s /\ pc[f] \in InUse}
Ranged == {f \in Fetches \ Streams : pc[f] \in InUse}

\* client.rs, NFR-4, FR-09 and SR-09: ranged fetches stay within the global ceiling, and
\* the calls of a service that have not returned within its budget, retries and abandoned
\* calls included; the buffered bytes are within the ceiling times one range's limit.  A
\* stream has returned when its headers are there: FillsWithinBudget is about the rest.
InFlightBounded ==
    /\ Cardinality(Ranged) + inflight = MaxInflight
    /\ \A s \in Limited : Cardinality(Using(s)) <= Budget(s)
    /\ \A f \in Fetches : got[f] <= limit /\ (got[f] > 0 => f \in Ranged)

\* client.rs, fetch_stream: "A full-object fill counts against its service's budget even
\* though it does not hold a global permit: a range-ignoring origin should not be able to
\* run unbounded fills."  A fill is under way until its body has been read.
FillsWithinBudget ==
    \A s \in Limited :
       Cardinality({f \in Streams : ServiceOf[f] = s /\ pc[f] \in InUse \cup {"streaming"}}) <= Budget(s)

\* client.rs, ClientConfig: "one origin being slow should not consume the whole
\* global budget and starve every other service".  With the stalled services'
\* budgets below the global ceiling, calls of the other services end though the
\* stalled origins never answer.
HealthyServicesProgress ==
    \A f \in Fetches :
       ServiceOf[f] \notin Stalled => (pc[f] = "checking" ~> pc[f] \in Ended)
=============================================================================
