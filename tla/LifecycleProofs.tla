-------------------------- MODULE LifecycleProofs --------------------------
(***************************************************************************)
(* What holds in every life of a cache directory, for any configurations,  *)
(* any number of handlers and any number of kills and failures; and the    *)
(* arithmetic of the settings, for all of them.                            *)
(*                                                                         *)
(* First the shutdown alone: the count Drain waits for is the number of    *)
(* guards, for any number of handlers, and a refusal comes after readiness *)
(* has failed.  That invariant holds while a process is up; between two    *)
(* processes nothing is in memory.  LInv adds how the readiness flags and  *)
(* the CONFIG file follow the steps of run.                                *)
(*                                                                         *)
(* Last the disk: a slice and an index entry are read back as they were    *)
(* written, whatever strings they hold, so that DiskInv, about what is     *)
(* stored, survives every life until something rots.                       *)
(*                                                                         *)
(* And the wake-up of Drain::drain: when the count has come to zero and    *)
(* drain still sleeps, it was notified, or the last handler is about to    *)
(* notify it (WakeUpComes).                                                *)
(***************************************************************************)
EXTENDS Lifecycle, FiniteSetTheorems, TLAPS

\* The solver's time limit, in seconds.
USE ZenonT(60)

\* Guard: the count is the number of guards held, however the handlers end.
InflightCountsGuards == inflight = Cardinality(Guards)

\* The flag that refuses is set after the one that fails readiness.
UnreadyFirst ==
    /\ main # "serving" => unready
    /\ draining => main \notin {"serving", "signalled"}
    /\ \A h \in Handlers : handler[h] = "refused" => draining

IInv == TypeOK /\ InflightCountsGuards /\ UnreadyFirst

-----------------------------------------------------------------------------
\* The handlers that f has at work; Guards is AtWork(handler).
AtWork(f) == {h \in Handlers : f[h] = "working"}

LEMMA AtWorkFinite ==
    ASSUME NEW f PROVE IsFiniteSet(AtWork(f)) /\ Cardinality(AtWork(f)) \in Nat
  <1>1. AtWork(f) \subseteq Handlers
    BY DEF AtWork
  <1>2. IsFiniteSet(AtWork(f))
    BY <1>1, HandlersFinite, FS_Subset
  <1> QED BY <1>2, FS_CardinalityType

LEMMA GuardTaken ==
    ASSUME NEW h \in Handlers, handler \in [Handlers -> Labels], handler[h] # "working",
           Become(h, "working")
    PROVE  Cardinality(AtWork(handler')) = Cardinality(AtWork(handler)) + 1
  <1>1. AtWork(handler') = AtWork(handler) \cup {h} /\ h \notin AtWork(handler)
    BY DEF AtWork, Become
  <1>2. IsFiniteSet(AtWork(handler))
    BY AtWorkFinite
  <1> QED BY <1>1, <1>2, FS_AddElement

LEMMA GuardGiven ==
    ASSUME NEW h \in Handlers, handler \in [Handlers -> Labels], handler[h] = "working",
           NEW l, l # "working", Become(h, l)
    PROVE  /\ Cardinality(AtWork(handler')) = Cardinality(AtWork(handler)) - 1
           /\ Cardinality(AtWork(handler)) > 0
  <1>1. AtWork(handler') = AtWork(handler) \ {h} /\ h \in AtWork(handler)
    BY DEF AtWork, Become
  <1>2. IsFiniteSet(AtWork(handler))
    BY AtWorkFinite
  <1>3. Cardinality(AtWork(handler)) \in Nat /\ Cardinality(AtWork(handler)) # 0
    BY <1>1, <1>2, FS_EmptySet, FS_CardinalityType
  <1> QED BY <1>1, <1>2, <1>3, FS_RemoveElement, SMTT(60)

LEMMA GuardKept ==
    ASSUME NEW h \in Handlers, handler \in [Handlers -> Labels], handler[h] # "working",
           NEW l, l # "working", Become(h, l)
    PROVE  AtWork(handler') = AtWork(handler)
  BY DEF AtWork, Become

LEMMA GuardsAtWork == Guards = AtWork(handler) /\ Guards' = AtWork(handler')
  BY DEF Guards, AtWork

-----------------------------------------------------------------------------
LEMMA InitIInv == Init => IInv
  <1> SUFFICES ASSUME Init PROVE IInv
    OBVIOUS
  <1>1. Guards = {}
    BY DEF Init, Guards
  <1>2. InflightCountsGuards
    BY <1>1, FS_EmptySet DEF Init, InflightCountsGuards
  <1>3. ticket \in 0 .. calls /\ inflight \in Nat /\ calls \in Nat
    BY SMTT(60) DEF Init
  <1>4. TypeOK
    BY <1>3 DEF Init, TypeOK, Labels
  <1> QED BY <1>2, <1>4 DEF IInv, UnreadyFirst, Init

\* A handler's step that neither takes nor drops a guard.
LEMMA Sideways ==
    ASSUME IInv, NEW h \in Handlers, handler[h] # "working", NEW l \in Labels \ {"working"},
           l = "refused" => draining, Become(h, l), calls' \in {calls, calls + 1},
           UNCHANGED <<unready, draining, inflight, main, ticket, finished>>
    PROVE  IInv'
  <1>1. InflightCountsGuards'
    BY GuardKept, GuardsAtWork DEF IInv, TypeOK, InflightCountsGuards
  <1>2. TypeOK'
    BY SMTT(60) DEF IInv, TypeOK, Become
  <1>3. UnreadyFirst'
    BY DEF IInv, TypeOK, UnreadyFirst, Become
  <1> QED BY <1>1, <1>2, <1>3 DEF IInv

LEMMA HandlerIInv ==
    ASSUME IInv, NEW h \in Handlers, EnterLoad(h) \/ HandlerStep(h)
    PROVE  IInv'
  <1>0. handler \in [Handlers -> Labels] /\ inflight \in Nat /\ calls \in Nat
    BY DEF IInv, TypeOK
  <1>1. CASE EnterLoad(h)
    BY <1>0, <1>1, Sideways DEF EnterLoad, Labels
  <1>2. CASE EnterAdd(h)
    <2>1. handler[h] = "entering" /\ inflight' = inflight + 1 /\ Become(h, "working")
          /\ UNCHANGED <<unready, draining, calls, main, ticket, finished>>
      BY <1>2 DEF EnterAdd
    <2>2. InflightCountsGuards'
      BY <1>0, <2>1, GuardTaken, GuardsAtWork DEF IInv, InflightCountsGuards
    <2>3. TypeOK'
      BY <2>1, SMTT(60) DEF IInv, TypeOK, Become, Labels
    <2>4. UnreadyFirst'
      BY <1>0, <2>1 DEF IInv, UnreadyFirst, Become
    <2> QED BY <2>2, <2>3, <2>4 DEF IInv
  <1>3. CASE GuardDrop(h)
    <2>1. handler[h] = "working" /\ inflight' = inflight - 1
          /\ UNCHANGED <<unready, draining, calls, main, ticket, finished>>
      BY <1>3 DEF GuardDrop
    <2>2. PICK l \in {"last", "lastBody", "body", "done"} : Become(h, l)
      BY <1>3 DEF GuardDrop
    <2>3. inflight > 0 /\ InflightCountsGuards'
      BY <1>0, <2>1, <2>2, GuardGiven, GuardsAtWork DEF IInv, InflightCountsGuards
    <2>4. TypeOK'
      BY <2>1, <2>2, <2>3, SMTT(60) DEF IInv, TypeOK, Become, Labels
    <2>5. UnreadyFirst'
      BY <1>0, <2>1, <2>2 DEF IInv, UnreadyFirst, Become
    <2> QED BY <2>3, <2>4, <2>5 DEF IInv
  <1>4. CASE GuardNotify(h)
    BY <1>0, <1>4, Sideways DEF GuardNotify, Labels
  <1>5. CASE BodyEnd(h)
    BY <1>0, <1>5, Sideways DEF BodyEnd, Labels
  <1> QED BY <1>1, <1>2, <1>3, <1>4, <1>5 DEF HandlerStep

\* main and the admin API leave the handlers and the count alone.
LEMMA MainIInv ==
    ASSUME IInv, MainStep \/ Timeout \/ AdminDrain \/ Signal \/ UNCHANGED vars
    PROVE  IInv'
  <1>1. handler' = handler /\ inflight' = inflight
    BY DEF MainStep, Timeout, AdminDrain, Signal, vars, DrainStart, DrainIdle, Register, Recheck, Woken
  <1>2. InflightCountsGuards'
    BY <1>1 DEF IInv, InflightCountsGuards, Guards
  <1>3. TypeOK'
    <2>1. calls' = calls /\ ticket' \in {ticket, calls}
      BY DEF MainStep, Timeout, AdminDrain, Signal, vars, DrainStart, DrainIdle, Register, Recheck,
             Woken
    <2>2. ticket' \in 0 .. calls' /\ calls' \in Nat
      BY <2>1, SMTT(60) DEF IInv, TypeOK
    <2>3. (unready \in BOOLEAN)' /\ (draining \in BOOLEAN)' /\ (finished \in BOOLEAN)'
      BY DEF IInv, TypeOK, MainStep, Timeout, AdminDrain, Signal, vars, DrainStart,
                   DrainIdle, Register, Recheck, Woken
    <2>4. main' \in {"serving", "signalled", "looking", "register", "recheck", "awaiting", "exited"}
      BY DEF IInv, TypeOK, MainStep, Timeout, AdminDrain, Signal, vars, DrainStart, DrainIdle,
             Register, Recheck, Woken
    <2> QED BY <1>1, <2>2, <2>3, <2>4 DEF IInv, TypeOK
  <1>4. UnreadyFirst'
    BY <1>1, SMTT(60) DEF IInv, TypeOK, UnreadyFirst, MainStep, Timeout, AdminDrain, Signal, vars, DrainStart,
                DrainIdle, Register, Recheck, Woken
  <1> QED BY <1>2, <1>3, <1>4 DEF IInv

\* IInv is an inductive invariant of the shutdown.
THEOREM ShutdownInvariance == Spec => []IInv
  <1>1. IInv /\ [Next]_vars => IInv'
    BY HandlerIInv, MainIInv DEF Next
  <1> QED BY <1>1, InitIInv, PTL DEF Spec

\* proxy/shutdown.rs, Drain: inflight is a u64 that never goes below zero, and a
\* Notified is never newer than the calls it has to see.
THEOREM ShutdownTypeCorrect == Spec => []TypeOK
  <1>1. IInv => TypeOK
    BY DEF IInv
  <1> QED BY <1>1, ShutdownInvariance, PTL

\* main.rs and admin/mod.rs: no request is refused for draining while readyz
\* still answers ready.
THEOREM RefusedOnlyWhenUnreadyHolds == Spec => []RefusedOnlyWhenUnready
  <1>1. IInv => RefusedOnlyWhenUnready
    BY DEF IInv, UnreadyFirst, RefusedOnlyWhenUnready
  <1> QED BY <1>1, ShutdownInvariance, PTL
-----------------------------------------------------------------------------
\* When drain sleeps and nothing is in flight, the notification that wakes it is in, or the
\* handler that was last out has yet to send it.
WakeUpComes ==
    main = "awaiting" /\ inflight = 0 =>
       calls > ticket \/ \E h \in Handlers : handler[h] \in {"last", "lastBody"}

LEMMA HandlerWakes ==
    ASSUME IInv, WakeUpComes, FinishedIsIdle, NEW h \in Handlers, EnterLoad(h) \/ HandlerStep(h)
    PROVE  WakeUpComes' /\ FinishedIsIdle'
  <1>0. /\ handler \in [Handlers -> Labels] /\ inflight \in Nat /\ calls \in Nat
        /\ ticket \in Nat /\ ticket <= calls
    BY SMTT(60) DEF IInv, TypeOK
  <1>1. main' = main /\ ticket' = ticket /\ finished' = finished /\ main # "exited"
    BY DEF EnterLoad, HandlerStep, EnterAdd, GuardDrop, GuardNotify, BodyEnd, Running
  <1>2. FinishedIsIdle'
    BY <1>1 DEF FinishedIsIdle
  <1>3. CASE EnterLoad(h) \/ BodyEnd(h)
    <2>1. /\ inflight' = inflight /\ calls' = calls /\ handler[h] \notin {"last", "lastBody"}
          /\ \A g \in Handlers \ {h} : handler'[g] = handler[g]
      BY <1>0, <1>3 DEF EnterLoad, BodyEnd, Become
    <2> QED
      BY <1>1, <1>2, <2>1 DEF WakeUpComes
  <1>4. CASE EnterAdd(h)
    <2>1. inflight' # 0
      BY <1>0, <1>4, SMTT(60) DEF EnterAdd
    <2> QED
      BY <1>2, <2>1 DEF WakeUpComes
  <1>5. CASE GuardDrop(h)
    <2>1. inflight' = 0 => inflight = 1
      BY <1>0, <1>5, SMTT(60) DEF GuardDrop
    <2>2. inflight = 1 => handler'[h] \in {"last", "lastBody"}
      BY <1>0, <1>5 DEF GuardDrop, Become
    <2> QED
      BY <1>2, <2>1, <2>2 DEF WakeUpComes
  <1>6. CASE GuardNotify(h)
    <2>1. calls' > ticket'
      BY <1>0, <1>1, <1>6, SMTT(60) DEF GuardNotify
    <2> QED
      BY <1>2, <2>1 DEF WakeUpComes
  <1> QED
    BY <1>3, <1>4, <1>5, <1>6 DEF HandlerStep

LEMMA MainWakes ==
    ASSUME IInv, WakeUpComes, FinishedIsIdle, MainStep \/ Timeout \/ AdminDrain \/ Signal \/ UNCHANGED vars
    PROVE  WakeUpComes' /\ FinishedIsIdle'
  <1>1. handler' = handler /\ inflight' = inflight /\ calls' = calls
    BY DEF MainStep, Timeout, AdminDrain, Signal, vars, DrainStart, DrainIdle, Register, Recheck, Woken
  <1>2. /\ main' = "awaiting" => (main = "awaiting" /\ ticket' = ticket) \/ inflight # 0
        /\ \/ finished' = finished /\ (~finished \/ main' = main)
           \/ finished' = (inflight = 0) /\ (inflight = 0 => main' = "exited")
    <2>1. CASE DrainStart \/ Register \/ Woken \/ Signal \/ Timeout
      BY <2>1 DEF DrainStart, Register, Woken, Signal, Timeout, FinishedIsIdle
    <2>2. CASE DrainIdle \/ Recheck
      BY <2>2 DEF DrainIdle, Recheck
    <2>3. CASE AdminDrain \/ UNCHANGED vars
      BY <2>3 DEF AdminDrain, vars
    <2> QED
      BY <2>1, <2>2, <2>3 DEF MainStep
  <1>3. inflight = 0 => Guards = {}
    BY AtWorkFinite, GuardsAtWork, FS_EmptySet DEF IInv, InflightCountsGuards
  <1>4. Guards' = Guards
    BY <1>1 DEF Guards
  <1>5. WakeUpComes'
    BY <1>1, <1>2 DEF WakeUpComes
  <1>6. FinishedIsIdle'
    <2>1. CASE finished' = finished /\ main' = main
      BY <1>4, <2>1 DEF FinishedIsIdle
    <2>2. CASE finished' = finished /\ ~finished
      BY <2>2 DEF FinishedIsIdle
    <2>3. CASE finished' = (inflight = 0) /\ (inflight = 0 => main' = "exited")
      BY <1>3, <1>4, <2>3 DEF FinishedIsIdle
    <2> QED
      BY <1>2, <2>1, <2>2, <2>3
  <1> QED
    BY <1>5, <1>6

\* Both, in a process that is not killed.
LEMMA DrainReports == Spec => [](WakeUpComes /\ FinishedIsIdle)
  <1>1. Init => WakeUpComes /\ FinishedIsIdle
    BY DEF Init, WakeUpComes, FinishedIsIdle
  <1>2. IInv /\ WakeUpComes /\ FinishedIsIdle /\ [Next]_vars => (WakeUpComes /\ FinishedIsIdle)'
    BY HandlerWakes, MainWakes DEF Next
  <1> QED
    BY <1>1, <1>2, ShutdownInvariance, PTL DEF Spec

\* proxy/shutdown.rs, drain: "a completion between the check and the await cannot be missed".
\* Whenever drain sleeps with nothing in flight its wake-up is under way, for any number of
\* handlers.
THEOREM CompletionWakes == Spec => []WakeUpComes
  BY DrainReports, PTL

\* proxy/shutdown.rs, drain: when it reports that everything finished no guard is held, for any
\* number of handlers, those included that were let in before the flag was set and counted after.
THEOREM FinishedIsIdleHolds == Spec => []FinishedIsIdle
  BY DrainReports, PTL
-----------------------------------------------------------------------------

Before == {"parsed", "recording", "guarded", "prepared", "admin"}
Serving == {"http", "bound", "published"}
Phases == {"down", "open", "loaded"} \cup Before \cup Serving

\* Nothing is in memory.
Blank ==
    /\ unready = FALSE /\ draining = FALSE /\ inflight = 0
    /\ handler = [h \in Handlers |-> "idle"]

LInv ==
    /\ phase \in Phases
    /\ TypeOK /\ InflightCountsGuards
    /\ phase # "down" => UnreadyFirst
    /\ phase # "down" /\ ~Accepting => Blank /\ main = "serving"
    /\ phase = "down" => Blank
    /\ phase # "published" => ~unready
    /\ phase # "down" => /\ store_open <=> phase \notin Before
                         /\ listeners_bound <=> phase \in {"bound", "published"}

\* The guard has passed, and the directory's CONFIG is this process's.
OnRecord == phase \notin {"down", "parsed", "recording"} => file = stored(config)
-----------------------------------------------------------------------------
LEMMA LifeInitInv == LifeInit => LInv /\ OnRecord
  <1> SUFFICES ASSUME LifeInit PROVE LInv /\ OnRecord
    OBVIOUS
  <1>1. IInv /\ phase = "down"
    BY InitIInv DEF LifeInit
  <1>2. Blank
    BY DEF LifeInit, Init, Blank
  <1> QED
    BY <1>1, <1>2 DEF LInv, OnRecord, Phases, IInv, Blank

\* The invariant is about the variables of a process; what is on disk may change as it likes.
LEMMA DiskSteps ==
    ASSUME LInv, UNCHANGED <<vars, phase, store_open, listeners_bound>>
    PROVE  LInv'
  BY DEF LInv, vars, TypeOK, InflightCountsGuards, Guards, UnreadyFirst, Accepting, Blank

LEMMA BlankTypes ==
    ASSUME Blank', calls' = 0, ticket' = 0, finished' = FALSE, main' = "exited"
    PROVE  TypeOK' /\ InflightCountsGuards'
  <1>1. Guards' = {}
    BY DEF Guards, Blank
  <1>2. InflightCountsGuards'
    BY <1>1, FS_EmptySet DEF InflightCountsGuards, Blank
  <1>3. ticket' \in 0 .. calls' /\ inflight' \in Nat /\ calls' \in Nat
    BY SMTT(60) DEF Blank
  <1>4. TypeOK'
    BY <1>3 DEF TypeOK, Blank, Labels
  <1> QED
    BY <1>2, <1>4

LEMMA GoneInv == ASSUME NEW code, Gone(code) PROVE LInv'
  <1>1. Blank' /\ phase' = "down"
    BY DEF Gone, Blank
  <1>2. TypeOK' /\ InflightCountsGuards'
    BY <1>1, BlankTypes DEF Gone
  <1> QED
    BY <1>1, <1>2 DEF LInv, Phases, Blank

LEMMA StartInv == ASSUME LInv, NEW c \in Configs, Start(c) PROVE LInv'
  <1>1. Blank /\ Blank' /\ TypeOK /\ InflightCountsGuards /\ phase' \in {"parsed", "down"}
    BY DEF LInv, Start, Blank
  <1>2. /\ phase' = "parsed" => main' = "serving"
        /\ main' \in {"serving", "exited"}
    BY DEF Start
  <1>3. InflightCountsGuards'
    BY <1>1 DEF Start, InflightCountsGuards, Guards
  <1>4. TypeOK'
    BY <1>1, <1>2 DEF Start, TypeOK
  <1>5. phase' # "down" => UnreadyFirst'
    BY <1>1, <1>2 DEF UnreadyFirst, Blank
  <1>6. store_open' = FALSE /\ listeners_bound' = FALSE
    BY DEF Start
  <1> QED
    BY <1>1, <1>2, <1>3, <1>4, <1>5, <1>6
    DEF LInv, Phases, Before, Serving, Accepting, Blank

\* run gets to its next step: the process has seen no request and no signal, or only requests.
LEMMA ReachInv ==
    ASSUME LInv, phase \notin {"down", "published"}, NEW next \in Phases \ {"down"}, Reach(next),
           Accepting => next \in Serving,
           store_open' <=> next \notin Before,
           listeners_bound' <=> next \in {"bound", "published"}
    PROVE  LInv'
  <1>1. UNCHANGED vars /\ phase' = next
    BY DEF Reach
  <1>2. TypeOK' /\ InflightCountsGuards' /\ UnreadyFirst'
    BY <1>1 DEF LInv, vars, TypeOK, InflightCountsGuards, Guards, UnreadyFirst
  <1>3. Blank => Blank'
    BY <1>1 DEF Blank, vars
  <1>4. unready' = unready /\ main' = main
    BY <1>1 DEF vars
  <1> QED
    BY <1>1, <1>2, <1>3, <1>4 DEF LInv, Accepting, Serving

LEMMA StartupInv == ASSUME LInv, StartupStep PROVE LInv'
  <1> USE DEF Phases, Before, Serving, Accepting
  <1>0. /\ phase # "down" => /\ store_open <=> phase \notin Before
                             /\ listeners_bound <=> phase \in {"bound", "published"}
    BY DEF LInv
  <1>1. CASE CheckGuard
    BY <1>0, <1>1, ReachInv, GoneInv DEF CheckGuard
  <1>2. CASE Record
    BY <1>0, <1>2, ReachInv DEF Record
  <1>3. CASE LoadRules
    BY <1>0, <1>3, ReachInv, GoneInv DEF LoadRules
  <1>4. CASE BindAdmin
    BY <1>0, <1>4, ReachInv DEF BindAdmin
  <1>5. CASE OpenStore
    BY <1>0, <1>5, ReachInv DEF OpenStore
  <1>6. CASE LoadServices
    BY <1>0, <1>6, ReachInv, GoneInv DEF LoadServices
  <1>7. CASE BindHttp
    BY <1>0, <1>7, ReachInv, GoneInv DEF BindHttp
  <1>8. CASE BindSni
    BY <1>0, <1>8, ReachInv, GoneInv DEF BindSni
  <1>9. CASE PublishApi
    BY <1>0, <1>9, ReachInv DEF PublishApi
  <1> QED
    BY <1>1, <1>2, <1>3, <1>4, <1>5, <1>6, <1>7, <1>8, <1>9 DEF StartupStep

\* Requests, the signal and the drain endpoint: steps of Shutdown, in a process that accepts.
LEMMA ShutdownSteps ==
    ASSUME LInv, Accepting, UNCHANGED lifeVars, IInv', unready' => unready \/ phase = "published"
    PROVE  LInv'
  <1>1. UNCHANGED <<phase, store_open, listeners_bound>>
    BY DEF lifeVars
  <1> QED
    BY <1>1 DEF LInv, IInv, Accepting, Phases

LEMMA LifeNextInv == LInv /\ [LifeNext]_allVars => LInv'
  <1> SUFFICES ASSUME LInv, [LifeNext]_allVars PROVE LInv'
    OBVIOUS
  <1>0. Accepting => IInv /\ phase # "down"
    BY DEF LInv, IInv, Accepting
  <1>1. CASE HandleRequest
    <2>1. unready' = unready
      BY <1>1 DEF HandleRequest, EnterLoad, HandlerStep, EnterAdd, GuardDrop, GuardNotify, BodyEnd
    <2> QED
      BY <1>0, <1>1, <2>1, HandlerIInv, ShutdownSteps DEF HandleRequest
  <1>2. CASE ShutDown
    BY <1>0, <1>2, MainIInv, ShutdownSteps DEF ShutDown, Accepting
  <1>3. ASSUME NEW presented \in BOOLEAN, DrainEndpoint(presented) PROVE LInv'
    <2>1. phase = "published"
      BY <1>3, SMTT(60) DEF DrainEndpoint, status, Published
    <2> QED
      BY <1>0, <1>3, <2>1, MainIInv, ShutdownSteps DEF DrainEndpoint, Accepting
  <1>4. ASSUME NEW presented \in BOOLEAN, PurgeEndpoint(presented) PROVE LInv'
    BY <1>4, DiskSteps DEF PurgeEndpoint
  <1>5. ASSUME NEW i \in 0 .. Len(Content) - 1, Fill(i) \/ Read(i) PROVE LInv'
    BY <1>5, DiskSteps DEF Fill, Read
  <1>6. ASSUME NEW i \in DOMAIN slices, Rot(i) PROVE LInv'
    BY <1>6, DiskSteps DEF Rot
  <1>7. CASE StepFails \/ Crash \/ Finish
    BY <1>7, GoneInv DEF StepFails, Crash, Finish
  <1>8. CASE UNCHANGED allVars
    BY <1>8, DiskSteps DEF allVars, lifeVars
  <1> QED
    BY <1>1, <1>2, <1>3, <1>4, <1>5, <1>6, <1>7, <1>8, StartInv, StartupInv DEF LifeNext

\* The invariant of a cache directory's lives.
THEOREM LifeInvariance == LifeSpec => []LInv
  BY LifeInitInv, LifeNextInv, PTL DEF LifeSpec

\* admin/mod.rs, FR-53 and FR-62: a probe is told "ready" exactly while the process serves, in
\* every life, and /stats is never ahead of it.
THEOREM ReadyMeansServingHolds == LifeSpec => []ReadyMeansServing
  <1>1. LInv => ReadyMeansServing
    <2> SUFFICES ASSUME LInv, AdminUp PROVE ReadyMeansServing
      BY DEF ReadyMeansServing
    <2>1. /\ phase \in {"admin", "open", "loaded", "http", "bound", "published"}
          /\ UnreadyFirst
          /\ store_open <=> phase # "admin"
          /\ listeners_bound <=> phase \in {"bound", "published"}
          /\ unready => phase = "published"
          /\ ~Accepting => inflight = 0
          /\ phase \in {"admin", "open", "loaded"} => main = "serving"
      BY DEF LInv, AdminUp, Phases, Before, Serving, Blank, Accepting
    <2>2. readyz = "ready" <=> phase \in {"bound", "published"} /\ main = "serving" /\ ~unready
      BY <2>1 DEF readyz, is_ready, UnreadyFirst
    <2>3. readyz = "draining" <=> unready
      BY <2>1 DEF readyz, is_ready
    <2>4. stats(config.admin_token).status = 200 =>
             readyz # "starting" /\ (stats(config.admin_token).draining => readyz = "draining")
      <3>1. stats(config.admin_token).status = 200 => phase = "published"
        BY SMTT(60) DEF stats, status, Published
      <3>2. stats(config.admin_token).draining = draining
        BY DEF stats
      <3> QED
        BY <2>1, <2>3, <3>1, <3>2 DEF readyz, is_ready, UnreadyFirst
    <2>5. inflight > 0 => store_open
      BY <2>1, SMTT(60) DEF Accepting
    <2> QED
      BY <2>2, <2>3, <2>4, <2>5 DEF ReadyMeansServing
  <1> QED
    BY <1>1, LifeInvariance, PTL

\* main.rs: no request of any life is refused for draining before readiness has failed.
THEOREM LifeRefusesUnready == LifeSpec => []RefusedOnlyWhenUnready
  <1>1. LInv => RefusedOnlyWhenUnready
    BY DEF LInv, UnreadyFirst, RefusedOnlyWhenUnready, Blank
  <1> QED
    BY <1>1, LifeInvariance, PTL

\* The same in every life; the next one does not find the report of the last.
LifeWakes == WakeUpComes /\ FinishedIsIdle /\ (phase = "down" => finished = FALSE)

LEMMA LifeNextWakes == LInv /\ LifeWakes /\ [LifeNext]_allVars => LifeWakes'
  <1> SUFFICES ASSUME LInv, LifeWakes, [LifeNext]_allVars PROVE LifeWakes'
    OBVIOUS
  <1>0. Accepting => IInv /\ phase # "down"
    BY DEF LInv, IInv, Accepting
  <1>1. ASSUME NEW code, Gone(code) PROVE LifeWakes'
    BY <1>1 DEF Gone, LifeWakes, WakeUpComes, FinishedIsIdle
  <1>2. ASSUME UNCHANGED vars, phase' = "down" => phase = "down" PROVE LifeWakes'
    BY <1>2 DEF vars, LifeWakes, WakeUpComes, FinishedIsIdle, Guards
  <1>3. CASE HandleRequest
    BY <1>0, <1>3, HandlerWakes DEF HandleRequest, LifeWakes, lifeVars
  <1>4. CASE ShutDown
    BY <1>0, <1>4, MainWakes DEF ShutDown, Accepting, LifeWakes, lifeVars
  <1>5. ASSUME NEW presented \in BOOLEAN, DrainEndpoint(presented) PROVE LifeWakes'
    <2>1. phase = "published"
      BY <1>5, SMTT(60) DEF DrainEndpoint, status, Published
    <2> QED
      BY <1>0, <1>5, <2>1, MainWakes DEF DrainEndpoint, Accepting, LifeWakes, lifeVars
  <1>6. ASSUME NEW c \in Configs, Start(c) PROVE LifeWakes'
    <2>1. finished' = FALSE /\ main' \in {"serving", "exited"}
      BY <1>6 DEF Start, LifeWakes
    <2> QED
      BY <2>1 DEF LifeWakes, WakeUpComes, FinishedIsIdle
  <1>7. CASE StartupStep
    <2>1. \/ \E code : Gone(code)
          \/ UNCHANGED vars /\ phase' # "down"
      BY <1>7 DEF StartupStep, CheckGuard, Record, LoadRules, BindAdmin, OpenStore, LoadServices,
                  BindHttp, BindSni, PublishApi, Reach
    <2> QED
      BY <1>1, <1>2, <2>1
  <1>8. CASE StepFails \/ Crash \/ Finish
    BY <1>1, <1>8 DEF StepFails, Crash, Finish
  <1>9. ASSUME NEW presented \in BOOLEAN, PurgeEndpoint(presented) PROVE LifeWakes'
    BY <1>2, <1>9 DEF PurgeEndpoint
  <1>10. ASSUME NEW i \in 0 .. Len(Content) - 1, Fill(i) \/ Read(i) PROVE LifeWakes'
    BY <1>2, <1>10 DEF Fill, Read
  <1>11. ASSUME NEW i \in DOMAIN slices, Rot(i) PROVE LifeWakes'
    BY <1>2, <1>11 DEF Rot
  <1>12. CASE UNCHANGED allVars
    BY <1>2, <1>12 DEF allVars, lifeVars
  <1> QED
    BY <1>3, <1>4, <1>5, <1>6, <1>7, <1>8, <1>9, <1>10, <1>11, <1>12 DEF LifeNext

LEMMA LifeDrainReports == LifeSpec => [](WakeUpComes /\ FinishedIsIdle)
  <1>1. LifeInit => LifeWakes
    BY DEF LifeInit, Init, LifeWakes, WakeUpComes, FinishedIsIdle
  <1>2. LifeWakes => WakeUpComes /\ FinishedIsIdle
    BY DEF LifeWakes
  <1> QED
    BY <1>1, <1>2, LifeNextWakes, LifeInvariance, PTL DEF LifeSpec

\* proxy/shutdown.rs, drain, in every life: kills, failed starts and restarts included, drain
\* never sleeps with nothing in flight and no wake-up under way.
THEOREM LifeCompletionWakes == LifeSpec => []WakeUpComes
  BY LifeDrainReports, PTL

\* proxy/shutdown.rs, drain, in every life: it never calls a life finished that has a request
\* it has counted at work, and no life finds the report of the one before.
THEOREM LifeFinishedIsIdle == LifeSpec => []FinishedIsIdle
  BY LifeDrainReports, PTL
-----------------------------------------------------------------------------
LEMMA OnRecordNext == OnRecord /\ [LifeNext]_allVars => OnRecord'
  <1> SUFFICES ASSUME OnRecord, [LifeNext]_allVars PROVE OnRecord'
    OBVIOUS
  <1>1. ASSUME NEW code, Gone(code) PROVE OnRecord'
    BY <1>1 DEF Gone, OnRecord
  <1>2. ASSUME UNCHANGED <<phase, file, config>> PROVE OnRecord'
    BY <1>2 DEF OnRecord, stored, Size
  <1>3. ASSUME NEW next, Reach(next), UNCHANGED file, phase \notin {"down", "parsed", "recording"}
        PROVE  OnRecord'
    BY <1>3 DEF OnRecord, Reach, stored, Size
  <1>4. ASSUME NEW c \in Configs, Start(c) PROVE OnRecord'
    BY <1>4 DEF OnRecord, Start
  <1>5. CASE CheckGuard
    <2>1. CASE Gone(EXIT_CONFIG)
      BY <1>1, <2>1
    <2>2. CASE Reach("recording")
      BY <2>2 DEF OnRecord, Reach
    <2>3. CASE check(file, config) = "same" /\ Reach("guarded") /\ UNCHANGED file
      BY <2>3 DEF OnRecord, Reach, check, stored, Size
    <2> QED
      BY <1>5, <2>1, <2>2, <2>3 DEF CheckGuard
  <1>6. CASE Record
    BY <1>6 DEF Record, OnRecord, Reach, stored, Size
  <1>7. CASE LoadRules \/ BindAdmin \/ OpenStore \/ LoadServices \/ BindHttp \/ BindSni \/ PublishApi
    BY <1>1, <1>3, <1>7
    DEF LoadRules, BindAdmin, OpenStore, LoadServices, BindHttp, BindSni, PublishApi
  <1>8. CASE StepFails \/ Crash \/ Finish
    BY <1>1, <1>8 DEF StepFails, Crash, Finish
  <1>9. CASE HandleRequest \/ ShutDown \/ UNCHANGED allVars
    BY <1>2, <1>9 DEF HandleRequest, ShutDown, lifeVars, allVars
  <1>10. ASSUME NEW presented \in BOOLEAN, DrainEndpoint(presented) \/ PurgeEndpoint(presented)
         PROVE  OnRecord'
    BY <1>2, <1>10 DEF DrainEndpoint, PurgeEndpoint, lifeVars
  <1>11. ASSUME NEW i, Fill(i) \/ Read(i) \/ Rot(i) PROVE OnRecord'
    BY <1>2, <1>11 DEF Fill, Read, Rot
  <1> QED
    BY <1>4, <1>5, <1>6, <1>7, <1>8, <1>9, <1>10, <1>11 DEF LifeNext, StartupStep

\* config/guard.rs: a process that has got past the guard finds its own slice size on record
\* for as long as it lives, forced or not, so nothing it stores is of a size not recorded.
THEOREM OnRecordHolds == LifeSpec => []OnRecord
  BY LifeInitInv, OnRecordNext, PTL DEF LifeSpec

\* A directory that has a slice size keeps it.
Kept == [][file \notin {Absent, Torn} => file' = file]_allVars

\* config/guard.rs: without FORCE_CONFIG no start, kill or failure changes what is recorded.
THEOREM SettingsKept ==
    ASSUME \A c \in Configs : ~c.force_config
    PROVE  LifeSpec => Kept
  <1> DEFINE Chosen == config \in Configs
             Past == phase = "recording" => file = Torn
  <1>1. LifeInit => Chosen /\ Past
    BY DEF LifeInit
  <1>2. Chosen /\ Past /\ [LifeNext]_allVars => Chosen' /\ Past'
    BY DEF LifeNext, allVars, lifeVars, Start, StartupStep, CheckGuard, Record, LoadRules,
           BindAdmin, OpenStore, LoadServices, BindHttp, BindSni, PublishApi, StepFails, Gone,
           Reach, HandleRequest, ShutDown, DrainEndpoint, PurgeEndpoint, Fill, Read, Crash,
           Finish, Rot
  <1>3. Chosen /\ Past /\ [LifeNext]_allVars =>
           [file \notin {Absent, Torn} => file' = file]_allVars
    <2> SUFFICES ASSUME Chosen, Past, LifeNext, file \notin {Absent, Torn} PROVE file' = file
      OBVIOUS
    <2>1. CASE CheckGuard
      BY <2>1 DEF CheckGuard, check, Reach
    <2>2. CASE Record
      BY <2>2 DEF Record
    <2> QED
      BY <2>1, <2>2 DEF LifeNext, lifeVars, Start, StartupStep, LoadRules, BindAdmin, OpenStore,
         LoadServices, BindHttp, BindSni, PublishApi, StepFails, HandleRequest, ShutDown,
         DrainEndpoint, PurgeEndpoint, Fill, Read, Crash, Finish, Rot
  <1> QED
    BY <1>1, <1>2, <1>3, PTL DEF LifeSpec, Kept
-----------------------------------------------------------------------------
LEMMA Divides ==
    ASSUME NEW n \in Nat, NEW u \in Nat \ {0}, n % u = 0
    PROVE  n \div u \in Nat /\ (n \div u) * u = n
  BY SMTT(60)

LEMMA SizeUnitsPositive ==
    ASSUME NEW k \in Nat \ {0}
    PROVE  /\ DOMAIN SizeUnits(k) = {"b", "k", "m", "g", "t"}
           /\ \A u \in DOMAIN SizeUnits(k) : SizeUnits(k)[u] \in Nat \ {0}
           /\ SizeUnits(k).b = 1
  <1>1. /\ k * k \in Nat \ {0} /\ k * k * k \in Nat \ {0} /\ k * k * k * k \in Nat \ {0}
    <2>1. \A a, b \in Nat \ {0} : a * b \in Nat \ {0}
      BY SMTT(60)
    <2> QED
      BY <2>1
  <1> QED
    BY <1>1, SMTT(60) DEF SizeUnits

\* units.rs, format_size: what is printed of a size parses back to exactly that size.
THEOREM FormatRoundTrips ==
    ASSUME NEW n \in 0 .. U64_MAX
    PROVE  parse_size(format_size(n)) = n
  <1> DEFINE units == SizeUnits(Kibi)
             text == format_size(n)
  <1>1. /\ DOMAIN units = {"b", "k", "m", "g", "t"} /\ units["b"] = 1
        /\ \A u \in DOMAIN units : units[u] \in Nat \ {0}
    BY SizeUnitsPositive, UnitsNat
  <1>2. n \in Nat /\ n <= U64_MAX
    BY UnitsNat, SMTT(60)
  <1> DEFINE fits(u) == n >= units[u] /\ n % units[u] = 0
             unit == IF fits("t") THEN "t" ELSE IF fits("g") THEN "g" ELSE IF fits("m") THEN "m"
                     ELSE IF fits("k") THEN "k" ELSE "b"
  <1>3. text = [number |-> n \div units[unit], unit |-> unit, si |-> FALSE]
    BY DEF format_size
  <1> HIDE DEF units
  <1>4. unit \in DOMAIN units /\ (unit = "b" \/ n % units[unit] = 0)
    BY <1>1
  <1>5. units[unit] \in Nat \ {0} /\ (units[unit] = 1 \/ n % units[unit] = 0)
    BY <1>1, <1>4
  <1> HIDE DEF unit, text
  <1>6. text.number = n \div units[unit] /\ text.unit = unit /\ text.si = FALSE
    BY <1>3
  <1>7. n \div units[unit] \in Nat /\ (n \div units[unit]) * units[unit] = n
    <2> DEFINE u == units[unit]
    <2>1. u \in Nat \ {0} /\ (u = 1 \/ n % u = 0)
      BY <1>5
    <2> HIDE DEF u
    <2>2. n % 1 = 0
      BY <1>2, SMTT(60)
    <2>3. n \div u \in Nat /\ (n \div u) * u = n
      BY <1>2, <2>1, <2>2, Divides
    <2> QED
      BY <2>3 DEF u
  <1>8. text.number * units[text.unit] = n /\ text.number # NoSize
    BY <1>6, <1>7, SMTT(60) DEF NoSize
  <1>9. parse_size(text) = Scaled(text, units)
    BY <1>6 DEF parse_size, units
  <1>10. Scaled(text, units) = n
    BY <1>2, <1>4, <1>6, <1>8, UnitsNat, SMTT(60) DEF Scaled
  <1> QED
    BY <1>9, <1>10 DEF text

\* space.rs, effective_cap: it never exceeds what was configured, and a cache that grows to it
\* leaves the reserve free, at whatever level the disk and the cache are now.
THEOREM CapKeepsReserve ==
    ASSUME NEW configured \in Nat, NEW min_free \in Nat, NEW used \in Nat, NEW available \in Nat,
           NEW cap, cap = effective_cap(configured, min_free, used, available)
    PROVE  /\ cap \in Nat /\ cap <= configured
           /\ cap > used => available - (cap - used) >= min_free
           /\ ~is_engaged(configured, cap) /\ configured > used
                => available - (configured - used) >= min_free
  BY UnitsNat, SMTT(60) DEF effective_cap, is_engaged, SatAdd, SatSub

\* config/mod.rs and hybrid.rs: with settings that validate, four slices fit into the buffer
\* pool and into a block of the store, so a write of a slice is never larger than either.
THEOREM StoreHoldsSlices ==
    ASSUME NEW c, validate(c), Size(c, "slice_size") \in Nat, Size(c, "buffer_pool") \in Nat,
           4 * U32_MAX <= U64_MAX
    PROVE  LET s == Size(c, "slice_size") IN
           /\ from_config(c).buffer_pool_bytes >= 4 * s
           /\ from_config(c).block_bytes >= 4 * s
           /\ s > 0 /\ s <= U32_MAX
  BY UnitsNat, SMTT(60) DEF validate, from_config, SatMul
-----------------------------------------------------------------------------
\* What is written to the cache directory is read back.

\* What a cell may hold.
Cells == Int \cup {checksum(p) : p \in Seq(Int)}

\* Buffers put one after the other.
LEMMA CatLen ==
    ASSUME NEW a \in Seq(Cells), NEW b \in Seq(Cells)
    PROVE
    /\ a \o b \in Seq(Cells) /\ Len(a \o b) = Len(a) + Len(b)
    /\ \A i \in 1 .. Len(a) : (a \o b)[i] = a[i]
    /\ \A i \in 1 .. Len(b) : (a \o b)[Len(a) + i] = b[i]
  BY SMTT(60)

LEMMA FirstCells ==
    ASSUME NEW a \in Seq(Cells), NEW b \in Seq(Cells), NEW n \in Nat, Len(a) = n
    PROVE
    /\ Len(a \o b) >= n
    /\ \A i \in 1 .. n : (a \o b)[i] = a[i]
  <1> DEFINE ab == a \o b
  <1>1. Len(ab) = Len(a) + Len(b) /\ \A i \in 1 .. Len(a) : ab[i] = a[i]
    BY CatLen
  <1>2. Len(b) \in Nat
    BY SMTT(60)
  <1> HIDE DEF ab
  <1>3. Len(ab) >= n
    BY <1>1, <1>2, SMTT(60)
  <1>4. \A i \in 1 .. n : ab[i] = a[i]
    BY <1>1
  <1> QED
    BY <1>3, <1>4 DEF ab

LEMMA Middle ==
    ASSUME NEW a \in Seq(Cells), NEW s \in Seq(Cells), NEW b \in Seq(Cells)
    PROVE  SubSeq(a \o s \o b, Len(a) + 1, Len(a) + Len(s)) = s
  BY SMTT(60)

\* put_str: the length, or its mark, and the string.
LEMMA PutType ==
    ASSUME NEW s \in OptStrings
    PROVE
     /\ put_str(s) \in Seq(Int)
     /\ s = NoString => Len(put_str(s)) = 1 /\ put_str(s)[1] = ABSENT
     /\ s # NoString => /\ s \in Seq(Int) /\ Len(s) \in Nat /\ Len(s) # ABSENT
                        /\ Len(put_str(s)) = Len(s) + 1 /\ put_str(s)[1] = Len(s)
                        /\ \A i \in 1 .. Len(s) : put_str(s)[i + 1] = s[i]
  <1>1. CASE s = NoString
    BY <1>1, CellsNat, SMTT(60) DEF put_str
  <1>2. CASE s # NoString
    <2>1. s \in Seq(Nat) /\ Len(s) < ABSENT
      BY <1>2 DEF Strings, OptStrings
    <2> HIDE DEF NoString
    <2> QED
      BY <1>2, <2>1, CellsNat, SMTT(60) DEF put_str
  <1> QED
    BY <1>1, <1>2

LEMMA Wider == ASSUME NEW s \in Seq(Int) PROVE s \in Seq(Cells)
  <1>1. Int \subseteq Cells
    BY DEF Cells
  <1> QED
    BY <1>1, SMTT(60)

\* The buffer has the string s between a and b; reading it at a cell leads to the cell next.
Holds(cells, a, s, b) ==
    a \in Seq(Cells) /\ s \in OptStrings /\ b \in Seq(Cells) /\ cells = (a \o put_str(s)) \o b

ReadsBack(cells, at, s, next) == has_str(cells, at) /\ str(cells, at) = s /\ past(cells, at) = next

\* A string written in the middle of a buffer is read back from where it starts.
LEMMA StringBack ==
    ASSUME NEW cells, NEW a, NEW s, NEW b, Holds(cells, a, s, b)
    PROVE  ReadsBack(cells, Len(a) + 1, s, Len(a \o put_str(s)) + 1)
  <1> DEFINE p == put_str(s)
             at == Len(a) + 1
  <1>0. a \in Seq(Cells) /\ s \in OptStrings /\ b \in Seq(Cells) /\ p = put_str(s) /\ at = Len(a) + 1
        /\ cells = (a \o p) \o b
    BY DEF Holds
  <1>i. at = Len(a) + 1
    OBVIOUS
  <1> SUFFICES has_str(cells, at) /\ str(cells, at) = s /\ past(cells, at) = Len(a \o p) + 1
    BY DEF ReadsBack
  <1> HIDE DEF p, at
  <1>1. /\ p \in Seq(Cells) /\ Len(a) \in Nat /\ Len(b) \in Nat
        /\ a \o p \in Seq(Cells) /\ Len(p) \in Nat
        /\ Len(a \o p) = Len(a) + Len(p)
    <2>1. p \in Seq(Cells)
      BY <1>0, PutType, Wider
    <2> QED
      BY <1>0, <2>1, SMTT(60)
  <1>a. /\ Len(cells) = Len(a) + Len(p) + Len(b)
        /\ \A i \in 1 .. Len(p) : cells[Len(a) + i] = p[i]
    BY <1>0, <1>1, SMTT(60)
  <1>2. CASE s = NoString
    <2>1. Len(p) = 1 /\ p[1] = ABSENT
      BY <1>2, <1>0, PutType
    <2>2. cells[at] = ABSENT /\ Len(cells) = Len(a) + 1 + Len(b)
      BY <1>0, <1>1, <1>a, <2>1, SMTT(60)
    <2> QED
      BY <1>1, <1>2, <1>i, <2>1, <2>2, SMTT(60) DEF has_str, str, past
  <1>3. CASE s # NoString
    <2>1. /\ s \in Seq(Cells) /\ Len(s) \in Nat /\ Len(s) # ABSENT
          /\ Len(p) = Len(s) + 1 /\ p[1] = Len(s)
      BY <1>3, <1>0, PutType, Wider
    <2>2. p = <<Len(s)>> \o s
      BY <1>0, <1>3 DEF put_str
    <2>3. cells[at] = Len(s) /\ Len(cells) = Len(a) + 1 + Len(s) + Len(b)
      BY <1>0, <1>1, <1>a, <2>1, SMTT(60)
    <2>4. SubSeq(cells, at + 1, at + Len(s)) = s
      <3>1. /\ cells = (a \o <<Len(s)>>) \o s \o b
            /\ a \o <<Len(s)>> \in Seq(Cells) /\ Len(a \o <<Len(s)>>) = Len(a) + 1
        BY <1>0, <1>1, <2>1, <2>2, SMTT(60)
      <3> QED
        BY <1>0, <1>1, <2>1, <3>1, Middle, SMTT(60)
    <2> QED
      BY <1>1, <1>3, <1>i, <2>1, <2>3, <2>4, SMTT(60) DEF has_str, str, past
  <1> QED
    BY <1>2, <1>3

LEMMA Assoc ==
    ASSUME NEW a \in Seq(Cells), NEW b \in Seq(Cells), NEW c \in Seq(Cells)
    PROVE  a \o b \in Seq(Cells) /\ (a \o b) \o c = a \o (b \o c)
  BY SMTT(60)

\* The three validators of a response, one after the other between a and b.
Upto(a, e, l, c) == ((a \o put_str(e)) \o put_str(l)) \o put_str(c)
ThreeStrings(cells, a, e, l, c, b) ==
    /\ a \in Seq(Cells) /\ b \in Seq(Cells)
    /\ e \in OptStrings /\ l \in OptStrings /\ c \in OptStrings
    /\ cells = Upto(a, e, l, c) \o b

LEMMA ValidatorsBack ==
    ASSUME NEW cells, NEW a, NEW e, NEW l, NEW c, NEW b, ThreeStrings(cells, a, e, l, c, b)
    PROVE  /\ Upto(a, e, l, c) \in Seq(Cells)
           /\ \E rest \in Seq(Cells) : cells = a \o rest
           /\ ReadsBack(cells, Len(a) + 1, e, Len(a \o put_str(e)) + 1)
           /\ ReadsBack(cells, Len(a \o put_str(e)) + 1, l, Len((a \o put_str(e)) \o put_str(l)) + 1)
           /\ ReadsBack(cells, Len((a \o put_str(e)) \o put_str(l)) + 1, c, Len(Upto(a, e, l, c)) + 1)
  <1> DEFINE pe == put_str(e)
             pl == put_str(l)
             pc == put_str(c)
  <1>1. /\ a \in Seq(Cells) /\ b \in Seq(Cells)
        /\ e \in OptStrings /\ l \in OptStrings /\ c \in OptStrings
        /\ cells = (((a \o pe) \o pl) \o pc) \o b
    BY DEF ThreeStrings, Upto
  <1>2. pe \in Seq(Cells) /\ pl \in Seq(Cells) /\ pc \in Seq(Cells)
    BY <1>1, PutType, Wider
  <1> HIDE DEF pe, pl, pc
  <1> DEFINE a2 == a \o pe
  <1>3. a2 \in Seq(Cells)
    BY <1>1, <1>2, Assoc
  <1> HIDE DEF a2
  <1> DEFINE a3 == a2 \o pl
  <1>4. a3 \in Seq(Cells)
    BY <1>2, <1>3, Assoc
  <1> HIDE DEF a3
  <1> DEFINE a4 == a3 \o pc
             b3 == pc \o b
  <1>5. a4 \in Seq(Cells) /\ b3 \in Seq(Cells)
    BY <1>1, <1>2, <1>4, Assoc
  <1> HIDE DEF a4, b3
  <1> DEFINE b2 == pl \o b3
  <1>6. b2 \in Seq(Cells)
    BY <1>2, <1>5, Assoc
  <1> HIDE DEF b2
  <1> DEFINE b1 == pe \o b2
  <1>7. b1 \in Seq(Cells)
    BY <1>2, <1>6, Assoc
  <1> HIDE DEF b1
  <1>8. cells = (a3 \o pc) \o b
    BY <1>1 DEF a2, a3
  <1>9. cells = (a2 \o pl) \o b3
    <2>1. (a3 \o pc) \o b = a3 \o (pc \o b)
      <3>1. a3 \in Seq(Cells) /\ pc \in Seq(Cells) /\ b \in Seq(Cells)
        BY <1>1, <1>2, <1>4
      <3> QED
        BY <3>1, Assoc
    <2> QED
      BY <1>8, <2>1 DEF a3, b3
  <1>10. cells = (a \o pe) \o b2
    <2>1. (a2 \o pl) \o b3 = a2 \o (pl \o b3)
      <3>1. a2 \in Seq(Cells) /\ pl \in Seq(Cells) /\ b3 \in Seq(Cells)
        BY <1>2, <1>3, <1>5
      <3> QED
        BY <3>1, Assoc
    <2> QED
      BY <1>9, <2>1 DEF a2, b2
  <1>11. cells = a \o b1
    <2>1. (a \o pe) \o b2 = a \o (pe \o b2)
      <3>1. a \in Seq(Cells) /\ pe \in Seq(Cells) /\ b2 \in Seq(Cells)
        BY <1>1, <1>2, <1>6
      <3> QED
        BY <3>1, Assoc
    <2> QED
      BY <1>10, <2>1 DEF b1
  <1>12. Holds(cells, a, e, b2) /\ Holds(cells, a2, l, b3) /\ Holds(cells, a3, c, b)
    BY <1>1, <1>3, <1>4, <1>5, <1>6, <1>8, <1>9, <1>10 DEF Holds, pe, pl, pc
  <1>13. /\ ReadsBack(cells, Len(a) + 1, e, Len(a \o put_str(e)) + 1)
         /\ ReadsBack(cells, Len(a2) + 1, l, Len(a2 \o put_str(l)) + 1)
         /\ ReadsBack(cells, Len(a3) + 1, c, Len(a3 \o put_str(c)) + 1)
    BY <1>12, StringBack
  <1> QED
    BY <1>5, <1>7, <1>11, <1>13 DEF a2, a3, a4, pe, pl, pc, Upto

\* index.rs, ObjectMeta: every entry is read back as it was written.
LEMMA MetaBack == ASSUME NEW m \in ObjectMetas PROVE decode_meta(encode_meta(m)) = m
  <1> DEFINE head == <<m.total_len, m.generation, Flag(m.no_ranges), Flag(m.stale), m.created, m.last_seen>>
             k == put_str(m.key)
             e == put_str(m.etag)
             l == put_str(m.last_modified)
             c == put_str(m.content_type)
             cells == encode_meta(m)
  <1>1. /\ m.key \in OptStrings /\ m.key # NoString /\ m.etag \in OptStrings
        /\ m.last_modified \in OptStrings /\ m.content_type \in OptStrings
        /\ m.total_len \in Nat /\ m.generation \in Nat /\ m.created \in Nat /\ m.last_seen \in Nat
    <2>1. NoString \notin Strings
      BY SMTT(60) DEF NoString, Strings
    <2> QED
      BY <2>1 DEF ObjectMetas, OptStrings
  <1>2. k \in Seq(Cells) /\ e \in Seq(Cells) /\ l \in Seq(Cells) /\ c \in Seq(Cells)
    BY <1>1, PutType, Wider
  <1>3. head \in Seq(Cells) /\ Len(head) = 6
    <2>1. Flag(m.no_ranges) \in Int /\ Flag(m.stale) \in Int
      BY SMTT(60) DEF Flag
    <2>2. head \in Seq(Int) /\ Len(head) = 6
      BY <1>1, <2>1, SMTT(60)
    <2> QED
      BY <2>2, Wider
  <1>4. cells = head \o k \o e \o l \o c
    BY DEF encode_meta
  <1>5. /\ head[1] = m.total_len /\ head[2] = m.generation /\ head[3] = Flag(m.no_ranges)
        /\ head[4] = Flag(m.stale) /\ head[5] = m.created /\ head[6] = m.last_seen
    OBVIOUS
  <1> HIDE DEF head, k, e, l, c, cells
  <1> DEFINE a == head \o k
             four == Upto(a, m.etag, m.last_modified, m.content_type)
  <1>6. a \in Seq(Cells) /\ <<>> \in Seq(Cells)
    <2>1. <<>> \in Seq(Cells)
      BY SMTT(60)
    <2> QED
      BY <1>2, <1>3, <2>1, Assoc
  <1> HIDE DEF a
  <1>a. cells = four
    BY <1>4 DEF a, e, l, c, Upto
  <1>b. four \in Seq(Cells)
    <2>1. ThreeStrings(four \o <<>>, a, m.etag, m.last_modified, m.content_type, <<>>)
      BY <1>1, <1>6 DEF ThreeStrings
    <2> HIDE DEF four
    <2> QED
      BY <2>1, ValidatorsBack DEF four
  <1>c. cells = four \o <<>>
    <2> HIDE DEF four
    <2>1. four = four \o <<>>
      BY <1>b, SMTT(60)
    <2> QED
      BY <1>a, <2>1
  <1>d. ThreeStrings(cells, a, m.etag, m.last_modified, m.content_type, <<>>)
    BY <1>1, <1>6, <1>c DEF ThreeStrings
  <1> HIDE DEF four
  <1> DEFINE etag == past(cells, 7)
             lm == past(cells, etag)
             ct == past(cells, lm)
  <1>e. PICK rest \in Seq(Cells) : cells = a \o rest
    BY <1>d, ValidatorsBack
  <1>7. has_str(cells, 7) /\ str(cells, 7) = m.key /\ etag = Len(a) + 1
    <2>1. Len(head) + 1 = 7
      BY <1>3, SMTT(60)
    <2>2. Holds(cells, head, m.key, rest)
      BY <1>1, <1>3, <1>e DEF Holds, a, k
    <2>3. ReadsBack(cells, Len(head) + 1, m.key, Len(head \o put_str(m.key)) + 1)
      BY <2>2, StringBack
    <2> QED
      BY <2>1, <2>3 DEF ReadsBack, a, k
  <1>8. /\ has_str(cells, etag) /\ str(cells, etag) = m.etag
        /\ has_str(cells, lm) /\ str(cells, lm) = m.last_modified
        /\ has_str(cells, ct) /\ str(cells, ct) = m.content_type
    <2> DEFINE x2 == Len(a \o put_str(m.etag)) + 1
               x3 == Len((a \o put_str(m.etag)) \o put_str(m.last_modified)) + 1
    <2>1. /\ ReadsBack(cells, Len(a) + 1, m.etag, x2) /\ ReadsBack(cells, x2, m.last_modified, x3)
          /\ ReadsBack(cells, x3, m.content_type, Len(Upto(a, m.etag, m.last_modified, m.content_type)) + 1)
      BY <1>d, ValidatorsBack
    <2> HIDE DEF x2, x3
    <2> QED
      BY <1>7, <2>1 DEF ReadsBack
  <1>11. Len(cells) >= 6 /\ \A i \in 1 .. 6 : cells[i] = head[i]
    <2> DEFINE b0 == k \o rest
    <2>1. b0 \in Seq(Cells) /\ cells = head \o b0 /\ 6 \in Nat
      <3>1. (head \o k) \o rest = head \o (k \o rest) /\ k \o rest \in Seq(Cells)
        BY <1>2, <1>3, Assoc
      <3>2. 6 \in Nat
        BY SMTT(60)
      <3> QED
        BY <1>e, <3>1, <3>2 DEF a
    <2> HIDE DEF b0
    <2>2. Len(head \o b0) >= 6 /\ \A i \in 1 .. 6 : (head \o b0)[i] = head[i]
      BY <1>3, <2>1, FirstCells
    <2> QED
      BY <2>1, <2>2
  <1>12. (Flag(m.no_ranges) # 0) = m.no_ranges /\ (Flag(m.stale) # 0) = m.stale
    <2>1. m.no_ranges \in BOOLEAN /\ m.stale \in BOOLEAN
      BY DEF ObjectMetas
    <2>2. Flag(TRUE) # 0 /\ Flag(FALSE) = 0
      BY SMTT(60) DEF Flag
    <2> QED
      BY <2>1, <2>2
  <1>13. cells[1] = m.total_len /\ cells[2] = m.generation /\ cells[3] = Flag(m.no_ranges)
         /\ cells[4] = Flag(m.stale) /\ cells[5] = m.created /\ cells[6] = m.last_seen
    BY <1>5, <1>11, SMTT(60)
  <1>14. ~(Len(cells) < 6)
    BY <1>11, SMTT(60)
  <1>15. decode_meta(cells) =
           [key |-> str(cells, 7), total_len |-> cells[1], generation |-> cells[2],
            etag |-> str(cells, etag), last_modified |-> str(cells, lm),
            content_type |-> str(cells, ct), no_ranges |-> cells[3] # 0,
            created |-> cells[5], last_seen |-> cells[6], stale |-> cells[4] # 0]
    BY <1>1, <1>7, <1>8, <1>14 DEF decode_meta
  <1>16. m = [key |-> m.key, total_len |-> m.total_len, generation |-> m.generation,
              etag |-> m.etag, last_modified |-> m.last_modified,
              content_type |-> m.content_type, no_ranges |-> m.no_ranges,
              created |-> m.created, last_seen |-> m.last_seen, stale |-> m.stale]
    BY DEF ObjectMetas
  <1> QED
    BY <1>7, <1>8, <1>12, <1>13, <1>15, <1>16 DEF cells

\* slice.rs, SliceValue: a slice that is not damaged is read back as it was written.
LEMMA SliceBack ==
    ASSUME NEW h \in SliceHeaders, NEW p \in Seq(Int) PROVE decode_slice(encode_slice(h, p)) = p
  <1> DEFINE head == <<MAGIC, h.slice_size, h.total_len, h.generation>>
             sum == checksum(p)
             tail == <<sum, Len(p)>>
             cells == encode_slice(h, p)
             a4 == Upto(head, h.etag, h.last_modified, h.content_type)
             b == tail \o p
  <1>1. /\ h.etag \in OptStrings /\ h.last_modified \in OptStrings /\ h.content_type \in OptStrings
        /\ h.slice_size \in Nat /\ h.total_len \in Nat /\ h.generation \in Nat
    BY DEF SliceHeaders
  <1>2. head \in Seq(Cells) /\ Len(head) = 4 /\ head[1] = MAGIC
    <2>1. head \in Seq(Int) /\ Len(head) = 4
      BY <1>1, CellsNat, SMTT(60)
    <2> QED
      BY <2>1, Wider
  <1>3. sum \in Cells /\ Len(p) \in Cells /\ p \in Seq(Cells) /\ Len(p) \in Nat
    <2>1. Len(p) \in Nat /\ Len(p) \in Int
      BY SMTT(60)
    <2> QED
      BY <2>1, Wider DEF Cells
  <1> HIDE DEF sum
  <1>4. tail \in Seq(Cells) /\ Len(tail) = 2 /\ tail[1] = sum /\ tail[2] = Len(p)
    BY <1>3, SMTT(60)
  <1>5. cells = (a4 \o tail) \o p
    BY DEF encode_slice, Upto, sum
  <1> HIDE DEF head, tail, cells
  <1>6. b \in Seq(Cells)
    BY <1>3, <1>4, Assoc
  <1> HIDE DEF b
  <1>7. ThreeStrings(a4 \o b, head, h.etag, h.last_modified, h.content_type, b)
    BY <1>1, <1>2, <1>6 DEF ThreeStrings
  <1>8. a4 \in Seq(Cells)
    BY <1>7, ValidatorsBack
  <1>9. cells = a4 \o b
    <2> HIDE DEF a4
    <2>1. (a4 \o tail) \o p = a4 \o (tail \o p)
      <3>1. a4 \in Seq(Cells) /\ tail \in Seq(Cells) /\ p \in Seq(Cells)
        BY <1>3, <1>4, <1>8
      <3> QED
        BY <3>1, Assoc
    <2> QED
      BY <1>5, <2>1 DEF b
  <1> DEFINE lm == past(cells, 5)
             ct == past(cells, lm)
             at == past(cells, ct)
  <1>10. /\ has_str(cells, 5) /\ has_str(cells, lm) /\ has_str(cells, ct)
         /\ at = Len(a4) + 1
    <2> DEFINE x2 == Len(head \o put_str(h.etag)) + 1
               x3 == Len((head \o put_str(h.etag)) \o put_str(h.last_modified)) + 1
    <2>1. /\ ReadsBack(cells, Len(head) + 1, h.etag, x2) /\ ReadsBack(cells, x2, h.last_modified, x3)
          /\ ReadsBack(cells, x3, h.content_type, Len(a4) + 1)
      BY <1>7, <1>9, ValidatorsBack
    <2>2. Len(head) + 1 = 5
      BY <1>2, SMTT(60)
    <2> HIDE DEF x2, x3, a4
    <2> QED
      BY <2>1, <2>2 DEF ReadsBack
  <1>11. Len(cells) >= 4 /\ cells[1] = MAGIC
    <2>1. PICK rest \in Seq(Cells) : cells = head \o rest
      BY <1>7, <1>9, ValidatorsBack
    <2>2. 4 \in Nat /\ 1 \in 1 .. 4
      BY SMTT(60)
    <2>3. Len(head \o rest) >= 4 /\ \A i \in 1 .. 4 : (head \o rest)[i] = head[i]
      BY <1>2, <2>2, FirstCells
    <2> QED
      BY <1>2, <2>1, <2>2, <2>3
  <1> HIDE DEF a4
  <1>12. /\ Len(cells) = Len(a4) + 2 + Len(p) /\ Len(a4) \in Nat
         /\ cells[Len(a4) + 1] = sum /\ cells[Len(a4) + 2] = Len(p)
    <2>1. Len(b) = 2 + Len(p) /\ b[1] = sum /\ b[2] = Len(p)
      <3>1. Len(tail \o p) = Len(tail) + Len(p) /\ \A i \in 1 .. Len(tail) : (tail \o p)[i] = tail[i]
        BY <1>3, <1>4, CatLen
      <3>2. 1 \in 1 .. 2 /\ 2 \in 1 .. 2
        BY SMTT(60)
      <3> QED
        BY <1>4, <3>1, <3>2 DEF b
    <2>2. Len(a4 \o b) = Len(a4) + Len(b) /\ Len(a4) \in Nat
          /\ \A i \in 1 .. Len(b) : (a4 \o b)[Len(a4) + i] = b[i]
      <3>1. Len(a4) \in Nat
        BY <1>8, SMTT(60)
      <3> QED
        BY <1>6, <1>8, <3>1, CatLen
    <2> DEFINE buffer == a4 \o b
    <2> HIDE DEF buffer
    <2>3. Len(buffer) = Len(a4) + Len(b) /\ \A i \in 1 .. Len(b) : buffer[Len(a4) + i] = b[i]
      BY <2>2 DEF buffer
    <2>4. /\ Len(buffer) = Len(a4) + 2 + Len(p)
          /\ buffer[Len(a4) + 1] = sum /\ buffer[Len(a4) + 2] = Len(p)
      BY <1>3, <2>1, <2>2, <2>3, SMTT(60)
    <2> QED
      BY <1>9, <2>2, <2>4 DEF buffer
  <1>13. SubSeq(cells, Len(a4) + 3, Len(a4) + 2 + Len(p)) = p
    <2> DEFINE a5 == a4 \o tail
    <2>1. a5 \in Seq(Cells) /\ Len(a5) = Len(a4) + 2 /\ <<>> \in Seq(Cells)
      <3>1. <<>> \in Seq(Cells)
        BY SMTT(60)
      <3>2. a4 \o tail \in Seq(Cells) /\ Len(a4 \o tail) = Len(a4) + Len(tail)
        <4>1. a4 \in Seq(Cells) /\ tail \in Seq(Cells)
          BY <1>4, <1>8
        <4> QED
          BY <4>1, CatLen
      <3> QED
        BY <1>4, <3>1, <3>2
    <2> HIDE DEF a5
    <2>2. SubSeq(a5 \o p \o <<>>, Len(a5) + 1, Len(a5) + Len(p)) = p
      BY <1>3, <2>1, Middle
    <2>3. a5 \o p \o <<>> = a5 \o p /\ Len(a5) + 1 = Len(a4) + 3
      BY <1>3, <1>12, <2>1, SMTT(60)
    <2> QED
      BY <1>5, <2>1, <2>2, <2>3 DEF a5
  <1>14. /\ ~(Len(cells) < at + 1) /\ ~(Len(cells) - at - 1 < cells[at + 1])
         /\ at + 2 = Len(a4) + 3 /\ at + 1 + cells[at + 1] = Len(a4) + 2 + Len(p)
         /\ cells[at] = sum /\ ~(Len(cells) < 4)
    <2> HIDE DEF at
    <2>1. at + 1 = Len(a4) + 2 /\ at + 2 = Len(a4) + 3
      BY <1>10, <1>12, SMTT(60)
    <2>2. cells[at + 1] = Len(p) /\ cells[at] = sum
      BY <1>10, <1>12, <2>1
    <2> QED
      BY <1>3, <1>10, <1>11, <1>12, <2>1, <2>2, SMTT(60)
  <1>15. verified(cells[at], p)
    BY <1>14 DEF verified, sum
  <1>16. decode_slice(cells) = p
    <2>1. SubSeq(cells, at + 2, at + 1 + cells[at + 1]) = p
      BY <1>13, <1>14
    <2> QED
      BY <1>10, <1>11, <1>14, <1>15, <2>1 DEF decode_slice
  <1> QED
    BY <1>16 DEF cells

-----------------------------------------------------------------------------
\* The bytes of the slice i at a slice size of n.
Bytes(i, n) == SubSeq(Content, i * n + 1, Min2((i + 1) * n, Len(Content)))

\* validate: the slice size is a positive number.
LEMMA SizeNat == ASSUME NEW c \in Configs, validate(c) PROVE Size(c, "slice_size") \in Nat \ {0}
  <1> DEFINE text == c["slice_size"]
             k == IF text.si THEN Kilo ELSE Kibi
             units == SizeUnits(k)
             size == Scaled(text, units)
  <1>1. size >= MIN_SLICE_SIZE /\ size = Size(c, "slice_size")
    BY DEF validate, Size, parse_size
  <1>2. text.number \in Nat \cup {NoSize}
    BY ConfigsType DEF Sizes
  <1>3. k \in Nat \ {0}
    BY UnitsNat
  <1> HIDE DEF k
  <1>4. \A u \in DOMAIN units : units[u] \in Nat \ {0}
    BY <1>3, SizeUnitsPositive
  <1> HIDE DEF units, text
  <1>5. size # NoSize => size = text.number * units[text.unit] /\ text.number \in Nat
                         /\ units[text.unit] \in Nat
    BY <1>2, <1>4 DEF Scaled
  <1> HIDE DEF size
  <1>6. size # NoSize
    BY <1>1, UnitsNat, SMTT(60) DEF NoSize
  <1>7. size \in Nat
    <2> DEFINE u == units[text.unit]
    <2>1. size = text.number * u /\ text.number \in Nat /\ u \in Nat
      BY <1>5, <1>6
    <2> HIDE DEF u
    <2> QED
      BY <2>1, SMTT(60)
  <1>8. size > 0
    BY <1>1, <1>7, UnitsNat, SMTT(60)
  <1> QED
    BY <1>1, <1>7, <1>8, SMTT(60)

LEMMA BytesType ==
    ASSUME NEW i \in Nat, NEW n \in Nat \ {0} PROVE Bytes(i, n) \in Seq(Int)
  <1> DEFINE len == Len(Content)
             lo == i * n
             hi == Min2((i + 1) * n, len)
  <1>1. Content \in Seq(Nat) /\ len \in Nat
    BY ObjectType, SMTT(60)
  <1>2. lo \in Nat /\ (i + 1) * n \in Nat
    BY SMTT(60)
  <1>3. hi \in Nat /\ hi <= len
    <2> DEFINE x == (i + 1) * n
    <2> HIDE DEF x, len
    <2>1. x \in Nat
      BY <1>2 DEF x
    <2>2. Min2(x, len) \in Nat /\ Min2(x, len) <= len
      BY <1>1, <2>1, SMTT(60) DEF Min2
    <2> QED
      BY <2>2 DEF x
  <1>4. Bytes(i, n) = SubSeq(Content, lo + 1, hi)
    BY DEF Bytes
  <1> HIDE DEF lo, hi
  <1>5. SubSeq(Content, lo + 1, hi) \in Seq(Int)
    BY <1>1, <1>2, <1>3, SMTT(60)
  <1> QED
    BY <1>4, <1>5

\* A slice size beyond the object's length cuts it like its length does.
LEMMA BytesCapped ==
    ASSUME NEW i \in Nat, NEW n \in Nat \ {0}, i <= (Len(Content) - 1) \div n
    PROVE  \E k \in 1 .. Len(Content) : Bytes(i, n) = Bytes(i, k)
  <1> DEFINE len == Len(Content)
  <1>1. len \in Nat \ {0}
    BY ObjectType, SMTT(60)
  <1>2. CASE n <= len
    <2>1. n \in 1 .. len
      BY <1>1, <1>2, SMTT(60)
    <2> QED
      BY <2>1
  <1>3. CASE n > len
    <2> HIDE DEF len
    <2>1. (len - 1) \div n = 0
      BY <1>1, <1>3, SMTT(60)
    <2>2. i = 0
      BY <2>1, SMTT(60) DEF len
    <2>3. 0 * n = 0 * len /\ Min2((0 + 1) * n, len) = Min2((0 + 1) * len, len) /\ len \in 1 .. len
      BY <1>1, <1>3, SMTT(60) DEF Min2
    <2> QED
      BY <2>2, <2>3 DEF Bytes, len
  <1> QED
    BY <1>1, <1>2, <1>3, SMTT(60)

\* What a directory's lives keep true of the disk: the faults are counted; a process past the
\* guard has a configuration that validates; the index holds what was put; and, while nothing
\* is damaged, every slice decodes to the bytes of an extent.
Counted == faults \in [crashes : Nat, failures : Nat, damage : Nat]
Admitted == config \in Configs /\ (phase \notin {"down", "parsed"} => validate(config))
Indexed == meta # NoMeta => decode_meta(index) = meta
Sound == faults.damage = 0 =>
    \A i \in DOMAIN slices : \E n \in 1 .. Len(Content) : decode_slice(slices[i]) = Bytes(i, n)

DiskInv == Counted /\ Admitted /\ Indexed /\ Sound

\* A step that stores nothing: slices may be lost, and are not damaged.
Lose == /\ \E kept \in SUBSET DOMAIN slices : slices' = [i \in kept |-> slices[i]]
        /\ Counted => Counted' /\ faults'.damage = faults.damage
Leave == UNCHANGED slices /\ (Counted => Counted' /\ faults'.damage = faults.damage)

LEMMA FaultCounted ==
    ASSUME NEW max, Fault("crashes", max) \/ Fault("failures", max), Counted
    PROVE  Counted' /\ faults'.damage = faults.damage
  BY SMTT(60) DEF Fault, Counted

LEMMA GoneLose ==
    ASSUME NEW code, Gone(code), UNCHANGED faults \/ (\E max : Fault("crashes", max) \/ Fault("failures", max))
    PROVE  Lose
  <1>1. \E kept \in SUBSET DOMAIN slices : slices' = [i \in kept |-> slices[i]]
    BY DEF Gone, LoseUnflushed
  <1>2. UNCHANGED faults => (Counted => Counted' /\ faults'.damage = faults.damage)
    BY DEF Counted
  <1> QED
    BY <1>1, <1>2, FaultCounted DEF Lose

\* Every step but a fill and a damage leaves what is stored, or loses some of it.
LEMMA StoreSteps ==
    ASSUME [LifeNext]_allVars
    PROVE  \/ Leave
           \/ Lose
           \/ \E i \in 0 .. Len(Content) - 1 : Fill(i)
           \/ \E i \in DOMAIN slices : Rot(i)
  <1>1. ASSUME UNCHANGED <<slices, faults>> PROVE Leave
    BY <1>1 DEF Leave, Counted
  <1>2. CASE StartupStep
    <2>1. UNCHANGED faults /\ ((\E next : Reach(next)) \/ (\E code : Gone(code)))
      BY <1>2 DEF StartupStep, CheckGuard, Record, LoadRules, BindAdmin, OpenStore, LoadServices,
                  BindHttp, BindSni, PublishApi
    <2>2. (\E next : Reach(next)) => UNCHANGED slices
      BY DEF Reach
    <2> QED
      BY <1>1, <2>1, <2>2, GoneLose
  <1>3. CASE StepFails \/ Crash \/ Finish
    BY <1>3, GoneLose DEF StepFails, Crash, Finish
  <1>4. CASE HandleRequest \/ ShutDown \/ UNCHANGED allVars \/ (\E c \in Configs : Start(c))
    BY <1>1, <1>4 DEF HandleRequest, ShutDown, lifeVars, allVars, Start
  <1>5. ASSUME NEW presented \in BOOLEAN, DrainEndpoint(presented) PROVE Leave
    BY <1>1, <1>5 DEF DrainEndpoint, lifeVars
  <1>6. ASSUME NEW presented \in BOOLEAN, PurgeEndpoint(presented) PROVE Lose
    BY <1>6 DEF PurgeEndpoint, Lose, Counted
  <1>7. ASSUME NEW i \in 0 .. Len(Content) - 1, Read(i) PROVE Lose
    BY <1>7 DEF Read, Lose, Counted
  <1> QED
    BY <1>2, <1>3, <1>4, <1>5, <1>6, <1>7 DEF LifeNext

LEMMA AdmittedNext == ASSUME Admitted, [LifeNext]_allVars PROVE Admitted'
  <1>1. ASSUME UNCHANGED <<phase, config>> PROVE Admitted'
    BY <1>1 DEF Admitted, validate, Size, ports_distinct
  <1>2. ASSUME NEW code, Gone(code) PROVE Admitted'
    BY <1>2 DEF Admitted, Gone
  <1>3. ASSUME NEW next, Reach(next), validate(config) PROVE Admitted'
    BY <1>3 DEF Admitted, Reach
  <1>4. ASSUME NEW c \in Configs, Start(c) PROVE Admitted'
    BY <1>4 DEF Admitted, Start
  <1>5. CASE StartupStep
    <2>1. CASE CheckGuard
      BY <1>2, <1>3, <2>1 DEF CheckGuard
    <2>2. CASE Record \/ LoadRules \/ BindAdmin \/ OpenStore \/ LoadServices \/ BindHttp \/ BindSni \/ PublishApi
      BY <1>2, <1>3, <2>2 DEF Admitted, Record, LoadRules, BindAdmin, OpenStore, LoadServices, BindHttp,
                              BindSni, PublishApi
    <2> QED
      BY <1>5, <2>1, <2>2 DEF StartupStep
  <1>6. CASE StepFails \/ Crash \/ Finish
    BY <1>2, <1>6 DEF StepFails, Crash, Finish
  <1>7. CASE HandleRequest \/ ShutDown \/ UNCHANGED allVars
    BY <1>1, <1>7 DEF HandleRequest, ShutDown, lifeVars, allVars
  <1>8. ASSUME NEW presented \in BOOLEAN, DrainEndpoint(presented) \/ PurgeEndpoint(presented) PROVE Admitted'
    BY <1>1, <1>8 DEF DrainEndpoint, PurgeEndpoint, lifeVars
  <1>9. ASSUME NEW i, Fill(i) \/ Read(i) \/ Rot(i) PROVE Admitted'
    BY <1>1, <1>9 DEF Fill, Read, Rot
  <1> QED
    BY <1>4, <1>5, <1>6, <1>7, <1>8, <1>9 DEF LifeNext

LEMMA IndexedNext == ASSUME Indexed, [LifeNext]_allVars PROVE Indexed'
  <1>1. ASSUME UNCHANGED <<index, meta>> PROVE Indexed'
    BY <1>1 DEF Indexed
  <1>2. ASSUME NEW i, Fill(i) PROVE Indexed'
    <2>1. PICK m \in Metas : index' = encode_meta(m) /\ meta' = m
      BY <1>2 DEF Fill
    <2>2. decode_meta(encode_meta(m)) = m
      BY ObjectType, MetaBack
    <2> QED
      BY <2>1, <2>2 DEF Indexed
  <1>3. ASSUME NEW presented, PurgeEndpoint(presented) PROVE Indexed'
    BY <1>3 DEF PurgeEndpoint, Indexed
  <1>4. CASE StartupStep
    BY <1>1, <1>4 DEF StartupStep, CheckGuard, Record, LoadRules, BindAdmin, OpenStore, LoadServices,
                      BindHttp, BindSni, PublishApi, Reach, Gone
  <1>5. CASE StepFails \/ Crash \/ Finish
    BY <1>1, <1>5 DEF StepFails, Crash, Finish, Gone
  <1>6. CASE HandleRequest \/ ShutDown \/ UNCHANGED allVars \/ (\E c \in Configs : Start(c))
    BY <1>1, <1>6 DEF HandleRequest, ShutDown, lifeVars, allVars, Start
  <1>7. ASSUME NEW presented, DrainEndpoint(presented) PROVE Indexed'
    BY <1>1, <1>7 DEF DrainEndpoint, lifeVars
  <1>8. ASSUME NEW i, Read(i) \/ Rot(i) PROVE Indexed'
    BY <1>1, <1>8 DEF Read, Rot
  <1> QED
    BY <1>2, <1>3, <1>4, <1>5, <1>6, <1>7, <1>8 DEF LifeNext

\* What a fill stores is read back, and the rest is as it was.
LEMMA Filled ==
    ASSUME Admitted, NEW i \in 0 .. Len(Content) - 1, Fill(i)
    PROVE  /\ i \in Nat /\ SliceSize \in Nat \ {0} /\ i <= (Len(Content) - 1) \div SliceSize
           /\ DOMAIN slices' = DOMAIN slices \cup {i}
           /\ \A j \in DOMAIN slices' : j # i => j \in DOMAIN slices /\ slices'[j] = slices[j]
           /\ decode_slice(slices'[i]) = Bytes(i, SliceSize)
           /\ UNCHANGED faults
  <1> DEFINE h == [Header EXCEPT !.slice_size = SliceSize]
  <1>1. /\ slices' = [j \in DOMAIN slices \cup {i} |-> IF j = i THEN encode_slice(h, Extent(i)) ELSE slices[j]]
        /\ i <= Last /\ Accepting /\ UNCHANGED faults
    BY DEF Fill
  <1>2. i \in Nat
    BY SMTT(60)
  <1>3. SliceSize \in Nat \ {0}
    BY <1>1, SizeNat DEF Admitted, Accepting, SliceSize
  <1>4. i <= (Len(Content) - 1) \div SliceSize
    BY <1>1 DEF Last
  <1>5. h \in SliceHeaders
    <2>1. Header \in SliceHeaders /\ SliceSize \in Nat
      BY <1>3, ObjectType
    <2> QED
      BY <2>1, SMTT(60) DEF SliceHeaders
  <1>6. Extent(i) = Bytes(i, SliceSize)
    BY DEF Extent, Bytes
  <1>7. decode_slice(encode_slice(h, Extent(i))) = Extent(i)
    BY <1>2, <1>3, <1>5, <1>6, BytesType, SliceBack
  <1> HIDE DEF h
  <1>8. slices'[i] = encode_slice(h, Extent(i)) /\ DOMAIN slices' = DOMAIN slices \cup {i}
        /\ \A j \in DOMAIN slices' : j # i => j \in DOMAIN slices /\ slices'[j] = slices[j]
    BY <1>1
  <1> QED
    BY <1>1, <1>2, <1>3, <1>4, <1>6, <1>7, <1>8

LEMMA Damaged ==
    ASSUME Counted, NEW i, Rot(i) PROVE Counted' /\ faults'.damage # 0
  <1>1. Fault("damage", MaxDamage)
    BY DEF Rot
  <1> QED
    BY <1>1, SMTT(60) DEF Fault, Counted

LEMMA DiskNext == DiskInv /\ [LifeNext]_allVars => DiskInv'
  <1> SUFFICES ASSUME DiskInv, [LifeNext]_allVars PROVE DiskInv'
    OBVIOUS
  <1>1. Admitted' /\ Indexed' /\ Counted /\ Admitted
    BY AdmittedNext, IndexedNext DEF DiskInv
  <1>2. CASE Leave
    BY <1>1, <1>2 DEF DiskInv, Leave, Sound
  <1>3. CASE Lose
    BY <1>1, <1>3 DEF DiskInv, Lose, Sound
  <1>4. ASSUME NEW i \in 0 .. Len(Content) - 1, Fill(i) PROVE Counted' /\ Sound'
    <2>1. \E n \in 1 .. Len(Content) : decode_slice(slices'[i]) = Bytes(i, n)
      <3>1. /\ i \in Nat /\ SliceSize \in Nat \ {0} /\ i <= (Len(Content) - 1) \div SliceSize
            /\ decode_slice(slices'[i]) = Bytes(i, SliceSize)
        BY <1>1, <1>4, Filled
      <3>2. \E n \in 1 .. Len(Content) : Bytes(i, SliceSize) = Bytes(i, n)
        BY <3>1, BytesCapped
      <3> QED
        BY <3>1, <3>2
    <2>2. UNCHANGED faults /\ \A j \in DOMAIN slices' : j # i => j \in DOMAIN slices /\ slices'[j] = slices[j]
      BY <1>1, <1>4, Filled
    <2> QED
      BY <1>1, <2>1, <2>2 DEF DiskInv, Sound, Counted
  <1>5. ASSUME NEW i, Rot(i) PROVE Counted' /\ Sound'
    BY <1>1, <1>5, Damaged DEF Sound
  <1> QED
    BY <1>1, <1>2, <1>3, <1>4, <1>5, StoreSteps DEF DiskInv

LEMMA DiskInit == LifeInit => DiskInv
  <1> SUFFICES ASSUME LifeInit PROVE DiskInv
    OBVIOUS
  <1>1. Counted
    BY SMTT(60) DEF LifeInit, Counted
  <1>2. DOMAIN slices = {}
    BY SMTT(60) DEF LifeInit
  <1> QED
    BY <1>1, <1>2 DEF LifeInit, DiskInv, Admitted, Indexed, Sound

\* store/slice.rs and store/index.rs: the invariant of what is on disk.
THEOREM DiskInvariance == LifeSpec => []DiskInv
  BY DiskInit, DiskNext, PTL DEF LifeSpec

\* index.rs: the index returns the entry that was put last, across kills and restarts.
THEOREM IndexReadsBack == LifeSpec => [](meta # NoMeta => decode_meta(index) = meta)
  <1>1. DiskInv => (meta # NoMeta => decode_meta(index) = meta)
    BY DEF DiskInv, Indexed
  <1> QED
    BY <1>1, DiskInvariance, PTL

LEMMA ServedOne ==
    ASSUME NEW s \in Served
    PROVE  s[1] \in DOMAIN slices /\ s[2] = decode_slice(slices[s[1]])
  <1>1. PICK j \in DOMAIN slices : s = <<j, decode_slice(slices[j])>>
    BY DEF Served
  <1>2. s[1] = j /\ s[2] = decode_slice(slices[j])
    BY <1>1
  <1> QED
    BY <1>2

\* slice.rs and index.rs: until a slice rots, what is read back is what was stored, across kills,
\* failed starts, restarts at another slice size, losses and purges.
THEOREM UndamagedReadsBack == LifeSpec => [](faults.damage = 0 => DirectoryReadsBack)
  <1>1. DiskInv => (faults.damage = 0 => DirectoryReadsBack)
    <2> SUFFICES ASSUME DiskInv, faults.damage = 0, NEW s \in Served
                 PROVE  \E n \in 1 .. Len(Content) :
                           s[2] = SubSeq(Content, s[1] * n + 1, Min2((s[1] + 1) * n, Len(Content)))
      BY DEF DirectoryReadsBack, DiskInv, Indexed
    <2>1. s[1] \in DOMAIN slices /\ s[2] = decode_slice(slices[s[1]])
      BY ServedOne
    <2> QED
      BY <2>1 DEF DiskInv, Sound, Bytes
  <1> QED
    BY <1>1, DiskInvariance, PTL

\* Every slice in the directory is of the size on record.
Recorded == faults.damage = 0 =>
    \A i \in DOMAIN slices : /\ file \notin {Absent, Torn}
                             /\ decode_slice(slices[i]) = Bytes(i, file.slice_size)

LEMMA RecordedNext ==
    ASSUME DiskInv, OnRecord, Recorded, [LifeNext]_allVars, file \notin {Absent, Torn} => file' = file
    PROVE  Recorded'
  <1>1. Counted /\ Admitted
    BY DEF DiskInv
  <1>2. CASE Leave
    BY <1>1, <1>2 DEF Recorded, Leave
  <1>3. CASE Lose
    BY <1>1, <1>3 DEF Recorded, Lose
  <1>4. ASSUME NEW i \in 0 .. Len(Content) - 1, Fill(i) PROVE Recorded'
    <2>1. file = stored(config) /\ file' = file
      BY <1>4 DEF Fill, OnRecord, Accepting
    <2>2. file \notin {Absent, Torn} /\ file.slice_size = SliceSize
      BY <2>1, SMTT(60) DEF stored, Absent, Torn, SliceSize
    <2>3. decode_slice(slices'[i]) = Bytes(i, SliceSize) /\ UNCHANGED faults
          /\ \A j \in DOMAIN slices' : j # i => j \in DOMAIN slices /\ slices'[j] = slices[j]
      BY <1>1, <1>4, Filled
    <2> QED
      BY <2>1, <2>2, <2>3 DEF Recorded
  <1>5. ASSUME NEW i, Rot(i) PROVE Recorded'
    BY <1>1, <1>5, Damaged DEF Recorded
  <1> QED
    BY <1>2, <1>3, <1>4, <1>5, StoreSteps

\* config/guard.rs: without FORCE_CONFIG, and until a slice rots, every slice a process reads is
\* the extent its plan means, whichever process stored it.  With it, the run force_config has
\* the counterexample.
THEOREM SlicesOfThisSize ==
    ASSUME \A c \in Configs : ~c.force_config
    PROVE  LifeSpec => [](faults.damage = 0 => ReadsBelongToConfig)
  <1>1. LifeInit => Recorded
    <2>1. LifeInit => DOMAIN slices = {}
      BY SMTT(60) DEF LifeInit
    <2> QED
      BY <2>1 DEF Recorded
  <1>2. DiskInv /\ OnRecord /\ Recorded /\ [LifeNext]_allVars
        /\ [file \notin {Absent, Torn} => file' = file]_allVars => Recorded'
    <2>1. UNCHANGED allVars => file' = file
      BY DEF allVars, lifeVars
    <2> QED
      BY <2>1, RecordedNext
  <1>3. OnRecord /\ Recorded => (faults.damage = 0 => ReadsBelongToConfig)
    <2> SUFFICES ASSUME OnRecord, Recorded, faults.damage = 0, Accepting, NEW s \in Served
                 PROVE  s[2] = Extent(s[1])
      BY DEF ReadsBelongToConfig
    <2>1. s[1] \in DOMAIN slices /\ s[2] = decode_slice(slices[s[1]])
      BY ServedOne
    <2>2. file = stored(config)
      BY DEF OnRecord, Accepting
    <2>3. file.slice_size = SliceSize
      BY <2>2 DEF stored, SliceSize
    <2> QED
      BY <2>1, <2>3 DEF Recorded, Bytes, Extent
  <1>4. LifeSpec => Kept
    BY SettingsKept
  <1> QED
    BY <1>1, <1>2, <1>3, <1>4, DiskInvariance, OnRecordHolds, PTL DEF LifeSpec, Kept
=============================================================================
