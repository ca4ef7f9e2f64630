------------------------ MODULE UpstreamClientProofs ------------------------
(***************************************************************************)
(* The bounds of the upstream client hold for any set of calls, services,  *)
(* limits, retries and DNS answers, and nothing is dialled that the        *)
(* address guard has not passed.                                           *)
(*                                                                         *)
(* The ceilings rest on the permits being conserved (Conserved): a free    *)
(* permit and a call that holds one always add up, through retries,        *)
(* failures and calls that are dropped.                                    *)
(***************************************************************************)
EXTENDS UpstreamClient, TLAPS, FiniteSetTheorems

\* The solver's time limit, in seconds.
USE ZenonT(60)

\* The calls that hold a permit of a service: from its semaphore until they end.
Holding(s) == {f \in Fetches : ServiceOf[f] = s /\ pc[f] \in InUse \cup {"global"}}

Conserved ==
    /\ Cardinality(Ranged) + inflight = MaxInflight
    /\ \A s \in Limited : Cardinality(Holding(s)) + permits[s] = Budget(s)

\* Only a ranged fetch takes a global permit and buffers, and it buffers only while it reads.
Buffered ==
    \A f \in Fetches : /\ pc[f] \in {"global", "reading"} => f \notin Streams
                       /\ got[f] <= limit
                       /\ got[f] > 0 => pc[f] = "reading"

PermitInv == TypeOK /\ Conserved /\ Buffered

\* The stages of a call whose host has been checked.
Past == {"service", "global"} \cup InUse

\* A literal address passes the check once, before anything is sent; a name passes
\* it whenever it is dialled.
Checked ==
    /\ DOMAIN to = Fetches
    /\ \A f \in Fetches :
          /\ to[f] # NoAddr => to[f] \in IPv4 \cup IPv6 /\ check(to[f]) = "ok"
          /\ pc[f] \in Past /\ ~IsName(f) => check(host[f]) = "ok"
          /\ pc[f] # "idle" => host[f] # Unused
          /\ pc[f] = "refused" /\ ~IsName(f) => IsV4(host[f]) /\ check(host[f]) # "ok"
-----------------------------------------------------------------------------
LEMMA LimitType == limit \in Nat /\ \A s \in Limited : Budget(s) \in Nat \ {0}
  BY BoundsNat, LimitsType, SMTT(60) DEF limit, Budget, Limited

\* How the two counts move when one call goes from a stage to another.
LEMMA Counts ==
    ASSUME TypeOK, NEW f \in Fetches, NEW label \in Stages, Become(f, label)
    PROVE  /\ Cardinality(Ranged) \in Nat /\ Cardinality(Ranged') \in Nat
           /\ Cardinality(Ranged') =
                IF f \notin Streams /\ label \in InUse /\ pc[f] \notin InUse
                THEN Cardinality(Ranged) + 1
                ELSE IF f \notin Streams /\ label \notin InUse /\ pc[f] \in InUse
                THEN Cardinality(Ranged) - 1 ELSE Cardinality(Ranged)
           /\ \A s \in Limited :
                /\ Cardinality(Holding(s)) \in Nat /\ Cardinality(Holding(s)') \in Nat
                /\ Cardinality(Holding(s)') =
                     IF ServiceOf[f] = s /\ label \in InUse \cup {"global"}
                           /\ pc[f] \notin InUse \cup {"global"}
                     THEN Cardinality(Holding(s)) + 1
                     ELSE IF ServiceOf[f] = s /\ label \notin InUse \cup {"global"}
                           /\ pc[f] \in InUse \cup {"global"}
                     THEN Cardinality(Holding(s)) - 1 ELSE Cardinality(Holding(s))
  <1>1. pc'[f] = label /\ \A g \in Fetches : g # f => pc'[g] = pc[g]
    BY DEF Become, TypeOK
  <1>2. IsFiniteSet(Ranged) /\ \A s \in Limited : IsFiniteSet(Holding(s))
    BY FetchesFinite, FS_Subset DEF Ranged, Holding
  <1>3. ASSUME NEW S, IsFiniteSet(S)
        PROVE  /\ Cardinality(S) \in Nat
               /\ f \notin S => Cardinality(S \cup {f}) = Cardinality(S) + 1
               /\ f \in S => Cardinality(S \ {f}) = Cardinality(S) - 1
    BY <1>3, FS_CardinalityType, FS_AddElement, FS_RemoveElement
  <1>4. /\ f \notin Streams /\ label \in InUse /\ pc[f] \notin InUse
               => f \notin Ranged /\ Ranged' = Ranged \cup {f}
        /\ f \notin Streams /\ label \notin InUse /\ pc[f] \in InUse
               => f \in Ranged /\ Ranged' = Ranged \ {f}
        /\ (f \in Streams \/ (label \in InUse <=> pc[f] \in InUse)) => Ranged' = Ranged
    BY <1>1 DEF Ranged
  <1>5. ASSUME NEW s \in Limited
        PROVE
        /\ ServiceOf[f] = s /\ label \in InUse \cup {"global"} /\ pc[f] \notin InUse \cup {"global"}
               => f \notin Holding(s) /\ Holding(s)' = Holding(s) \cup {f}
        /\ ServiceOf[f] = s /\ label \notin InUse \cup {"global"} /\ pc[f] \in InUse \cup {"global"}
               => f \in Holding(s) /\ Holding(s)' = Holding(s) \ {f}
        /\ (ServiceOf[f] # s \/ (label \in InUse \cup {"global"} <=> pc[f] \in InUse \cup {"global"}))
               => Holding(s)' = Holding(s)
    BY <1>1 DEF Holding
  <1>6. Cardinality(Ranged) \in Nat /\ \A s \in Limited : Cardinality(Holding(s)) \in Nat
    BY <1>2, <1>3
  <1>7. Cardinality(Ranged') =
                IF f \notin Streams /\ label \in InUse /\ pc[f] \notin InUse
                THEN Cardinality(Ranged) + 1
                ELSE IF f \notin Streams /\ label \notin InUse /\ pc[f] \in InUse
                THEN Cardinality(Ranged) - 1 ELSE Cardinality(Ranged)
    BY <1>2, <1>3, <1>4
  <1>8. Cardinality(Ranged') \in Nat
    BY <1>2, <1>4, FS_AddElement, FS_RemoveElement, FS_CardinalityType
  <1>9. ASSUME NEW s \in Limited
        PROVE  /\ Cardinality(Holding(s)') \in Nat
               /\ Cardinality(Holding(s)') =
                     IF ServiceOf[f] = s /\ label \in InUse \cup {"global"}
                           /\ pc[f] \notin InUse \cup {"global"}
                     THEN Cardinality(Holding(s)) + 1
                     ELSE IF ServiceOf[f] = s /\ label \notin InUse \cup {"global"}
                           /\ pc[f] \in InUse \cup {"global"}
                     THEN Cardinality(Holding(s)) - 1 ELSE Cardinality(Holding(s))
    <2>1. IsFiniteSet(Holding(s)) /\ IsFiniteSet(Holding(s)')
      BY <1>2, <1>5, FS_AddElement, FS_RemoveElement, SMTT(60)
    <2> QED
      BY <2>1, <1>3, <1>5
  <1> QED
    BY <1>6, <1>7, <1>8, <1>9

LEMMA StagesOf == /\ Released \subseteq Stages /\ InUse \subseteq Stages
                  /\ {"checking", "service", "global"} \subseteq Stages
                  /\ Released \cap (InUse \cup {"global"}) = {}
  BY DEF Stages, Released, Ended, InUse

LEMMA EndStep ==
    ASSUME PermitInv, NEW f \in Fetches, NEW result \in Released, End(f, result)
    PROVE  PermitInv'
  <1> USE DEF PermitInv
  <1>1. result \in Stages /\ result \notin InUse \cup {"global"} /\ Become(f, result)
    BY StagesOf DEF End
  <1>2. inflight \in Nat /\ MaxInflight \in Nat /\ \A s \in Limited : permits[s] \in Nat
    BY BoundsNat, SMTT(60) DEF TypeOK
  <1>3. Cardinality(Ranged') + inflight' = MaxInflight /\ Cardinality(Ranged') \in Nat
        /\ inflight' \in Nat
    <2>1. /\ Cardinality(Ranged) \in Nat /\ Cardinality(Ranged') \in Nat
          /\ HoldsGlobal(f) => Cardinality(Ranged') = Cardinality(Ranged) - 1
          /\ ~HoldsGlobal(f) => Cardinality(Ranged') = Cardinality(Ranged)
      BY <1>1, Counts DEF HoldsGlobal
    <2>2. inflight' = IF HoldsGlobal(f) THEN inflight + 1 ELSE inflight
      BY DEF End
    <2> QED
      BY <1>2, <2>1, <2>2, SMTT(60) DEF Conserved
  <1>4. ASSUME NEW s \in Limited
        PROVE  Cardinality(Holding(s)') + permits'[s] = Budget(s) /\ permits'[s] \in Nat
    <2>1. permits'[s] = IF ServiceOf[f] = s /\ pc[f] \in InUse \cup {"global"}
                        THEN permits[s] + 1 ELSE permits[s]
      BY DEF End, HoldsService
    <2>2. /\ Cardinality(Holding(s)) \in Nat
          /\ Cardinality(Holding(s)') = IF ServiceOf[f] = s /\ pc[f] \in InUse \cup {"global"}
                                        THEN Cardinality(Holding(s)) - 1 ELSE Cardinality(Holding(s))
      BY <1>1, Counts
    <2> QED
      BY <1>2, <2>1, <2>2, LimitType, SMTT(60) DEF Conserved
  <1>5. pc' \in [Fetches -> Stages] /\ pc'[f] = result /\ \A g \in Fetches : g # f => pc'[g] = pc[g]
    BY <1>1 DEF Become, TypeOK
  <1>6. got' \in [Fetches -> Nat] /\ got'[f] = 0 /\ \A g \in Fetches : g # f => got'[g] = got[g]
    BY DEF End, TypeOK
  <1>7. TypeOK'
    BY <1>2, <1>3, <1>4, <1>5, <1>6, SMTT(60) DEF TypeOK, End
  <1>8. Conserved'
    BY <1>3, <1>4 DEF Conserved
  <1>9. Buffered'
    BY <1>1, <1>5, <1>6, LimitType, SMTT(60) DEF Buffered, InUse
  <1> QED
    BY <1>7, <1>8, <1>9

\* A call that goes on without taking or dropping a permit.
LEMMA MoveStep ==
    ASSUME PermitInv, NEW f \in Fetches, NEW label \in Stages, Become(f, label),
           label \in {"global", "reading"} => f \notin Streams, pc[f] # "reading",
           f \notin Streams => (label \in InUse <=> pc[f] \in InUse),
           ServiceOf[f] \in Limited =>
              (label \in InUse \cup {"global"} <=> pc[f] \in InUse \cup {"global"}),
           attempt' \in [Fetches -> 0 .. Retries], UNCHANGED <<host, got, inflight, permits>>
    PROVE  PermitInv'
  <1> USE DEF PermitInv
  <1>1. pc' \in [Fetches -> Stages] /\ pc'[f] = label /\ \A g \in Fetches : g # f => pc'[g] = pc[g]
    BY DEF Become, TypeOK
  <1>2. TypeOK'
    BY <1>1 DEF TypeOK
  <1>3. Cardinality(Ranged') = Cardinality(Ranged)
    BY Counts
  <1>4. \A s \in Limited : Cardinality(Holding(s)') = Cardinality(Holding(s))
    BY Counts
  <1>5. Conserved'
    BY <1>3, <1>4 DEF Conserved
  <1>6. Buffered'
    BY <1>1 DEF Buffered
  <1> QED
    BY <1>2, <1>5, <1>6

LEMMA ServiceStep == ASSUME PermitInv, NEW f \in Fetches, TakeService(f) PROVE PermitInv'
  <1> USE DEF PermitInv
  <1> DEFINE label == AfterService(f)
  <1>1. label \in {"dialling", "global"} /\ label \in Stages /\ Become(f, label)
        /\ (f \notin Streams <=> label = "global")
        /\ label \in InUse \cup {"global"}
    BY StagesOf DEF AfterService, TakeService, InUse
  <1>2. pc[f] = "service" /\ pc[f] \notin InUse \cup {"global"}
    BY DEF TakeService, InUse
  <1>3. UNCHANGED <<host, attempt, got, inflight>>
    BY DEF TakeService
  <1>4. Cardinality(Ranged') = Cardinality(Ranged)
    BY <1>1, <1>2, Counts DEF InUse
  <1>5. ASSUME NEW s \in Limited
        PROVE  Cardinality(Holding(s)') + permits'[s] = Budget(s) /\ permits'[s] \in Nat
    <2>1. permits[s] \in Nat /\ permits'[s] = IF s = ServiceOf[f] THEN permits[s] - 1 ELSE permits[s]
      BY DEF TakeService, TypeOK
    <2>2. s = ServiceOf[f] => permits[s] > 0
      BY DEF TakeService
    <2>3. /\ Cardinality(Holding(s)) \in Nat
          /\ Cardinality(Holding(s)') = IF s = ServiceOf[f] THEN Cardinality(Holding(s)) + 1
                                        ELSE Cardinality(Holding(s))
      BY <1>1, <1>2, Counts
    <2> QED
      BY <2>1, <2>2, <2>3, LimitType, SMTT(60) DEF Conserved
  <1>6. pc' \in [Fetches -> Stages] /\ pc'[f] = label /\ \A g \in Fetches : g # f => pc'[g] = pc[g]
    BY <1>1 DEF Become, TypeOK
  <1>7. permits' \in [Limited -> Nat]
    <2>1. DOMAIN permits' = Limited /\ permits' = [s \in Limited |-> permits'[s]]
      BY DEF TakeService, TypeOK
    <2> QED
      BY <1>5, <2>1
  <1>8. TypeOK'
    BY <1>3, <1>6, <1>7 DEF TypeOK
  <1>9. Buffered'
    BY <1>1, <1>2, <1>3, <1>6 DEF Buffered
  <1> QED
    BY <1>3, <1>4, <1>5, <1>8, <1>9 DEF Conserved

LEMMA GlobalStep ==
    ASSUME PermitInv, NEW f \in Fetches, TakeGlobal(f), f \notin Streams
    PROVE  PermitInv'
  <1> USE DEF PermitInv
  <1>1. "dialling" \in Stages /\ "dialling" \in InUse /\ Become(f, "dialling")
    BY StagesOf DEF TakeGlobal, InUse
  <1>2. pc[f] = "global" /\ pc[f] \notin InUse
    BY DEF TakeGlobal, InUse
  <1>3. UNCHANGED <<host, attempt, got, permits>> /\ inflight > 0 /\ inflight' = inflight - 1
    BY DEF TakeGlobal
  <1>4. inflight \in Nat /\ MaxInflight \in Nat
    BY BoundsNat, SMTT(60) DEF TypeOK
  <1>5. Cardinality(Ranged') + inflight' = MaxInflight /\ inflight' \in 0 .. MaxInflight
    <2>1. Cardinality(Ranged) \in Nat /\ Cardinality(Ranged') = Cardinality(Ranged) + 1
      BY <1>1, <1>2, Counts
    <2> QED
      BY <1>3, <1>4, <2>1, SMTT(60) DEF Conserved
  <1>6. \A s \in Limited : Cardinality(Holding(s)') = Cardinality(Holding(s))
    BY <1>1, <1>2, Counts
  <1>7. pc' \in [Fetches -> Stages] /\ pc'[f] = "dialling"
        /\ \A g \in Fetches : g # f => pc'[g] = pc[g]
    BY <1>1 DEF Become, TypeOK
  <1>8. TypeOK'
    BY <1>3, <1>5, <1>7 DEF TypeOK
  <1>9. Buffered'
    BY <1>2, <1>3, <1>7 DEF Buffered
  <1> QED
    BY <1>3, <1>5, <1>6, <1>8, <1>9 DEF Conserved

LEMMA CheckStep == ASSUME PermitInv, NEW f \in Fetches, Call(f) \/ CheckUrl(f) PROVE PermitInv'
  <1> USE DEF PermitInv
  <1>1. CASE \E label \in {"checking", AfterCheck(f)} :
                Advance(f, label) /\ UNCHANGED <<to, inflight, permits>>
    <2>1. PICK label \in {"checking", AfterCheck(f)} :
             Advance(f, label) /\ UNCHANGED <<to, inflight, permits>>
      BY <1>1
    <2>2. /\ label \in {"checking", "service", "global", "dialling"}
          /\ label = "global" => f \notin Streams
          /\ label = "dialling" => f \in Streams
          /\ ServiceOf[f] \in Limited => label \in {"checking", "service"}
      BY <2>1 DEF AfterCheck, AfterService
    <2>3. label \in Stages
      BY <2>2, StagesOf DEF InUse
    <2>4. pc[f] \in {"idle", "checking"}
      BY DEF Call, CheckUrl
    <2>5. Become(f, label) /\ UNCHANGED <<host, attempt, got, inflight, permits>>
      BY <2>1 DEF Advance
    <2>6. attempt' \in [Fetches -> 0 .. Retries]
      BY <2>5 DEF TypeOK
    <2>7. /\ f \notin Streams => (label \in InUse <=> pc[f] \in InUse)
          /\ ServiceOf[f] \in Limited =>
                (label \in InUse \cup {"global"} <=> pc[f] \in InUse \cup {"global"})
      BY <2>2, <2>4 DEF InUse
    <2> QED
      BY <2>2, <2>3, <2>4, <2>5, <2>6, <2>7, MoveStep
  <1>2. CASE \E result \in Released : End(f, result)
    BY <1>2, EndStep
  <1> QED
    BY <1>1, <1>2 DEF Call, CheckUrl, Released, Ended

LEMMA OriginSteps == ASSUME PermitInv, NEW f \in Fetches, OriginStep(f) PROVE PermitInv'
  <1> USE DEF PermitInv
  <1>0. attempt[f] \in Nat /\ Retries \in Nat /\ got[f] \in Nat /\ limit \in Nat
    BY BoundsNat, LimitType, SMTT(60) DEF TypeOK
  <1>1. CASE \E result \in Released : End(f, result)
    BY <1>1, EndStep
  <1>2. ASSUME NEW label \in {"dialling", "sent"}, Become(f, label),
               pc[f] \in {"dialling", "sent"},
               attempt' \in [Fetches -> 0 .. Retries], UNCHANGED <<host, got, inflight, permits>>
        PROVE  PermitInv'
    BY <1>2, MoveStep, StagesOf DEF InUse
  <1>3. ASSUME NEW transient \in BOOLEAN, SendFails(f, transient), transient /\ MayRetry(f)
        PROVE  PermitInv'
    <2>1. attempt' \in [Fetches -> 0 .. Retries]
      BY <1>0, <1>3, SMTT(60) DEF SendFails, MayRetry, TypeOK
    <2> QED
      BY <1>2, <1>3, <2>1 DEF SendFails
  <1>4. CASE Dial(f)
    <2>1. attempt' \in [Fetches -> 0 .. Retries]
      BY <1>4 DEF Dial, TypeOK
    <2> QED
      BY <1>2, <1>4, <2>1 DEF Dial
  <1>5. CASE Partial(f) /\ Advance(f, "reading") /\ UNCHANGED <<to, inflight, permits>>
    <2>1. attempt' \in [Fetches -> 0 .. Retries]
      BY <1>5 DEF Advance, TypeOK
    <2>2. pc[f] = "sent" /\ f \notin Streams /\ "sent" \in InUse /\ "reading" \in InUse
      BY <1>5 DEF Partial, InUse
    <2> QED
      BY <1>5, <2>1, <2>2, MoveStep, StagesOf DEF Advance
  <1>6. ASSUME NEW n \in 1 .. 2, Chunk(f, n), got[f] + n <= limit PROVE PermitInv'
    <2>1. pc[f] = "reading" /\ got' = [got EXCEPT ![f] = @ + n]
          /\ UNCHANGED <<host, pc, attempt, inflight, permits>>
      BY <1>0, <1>6, SMTT(60) DEF Chunk
    <2>2. TypeOK'
      BY <2>1, SMTT(60) DEF TypeOK
    <2>3. Conserved'
      BY <2>1 DEF Conserved, Ranged, Holding
    <2>4. Buffered'
      BY <1>0, <1>6, <2>1 DEF Buffered, TypeOK
    <2> QED
      BY <2>2, <2>3, <2>4
  <1>7. ASSUME NEW n \in 1 .. 2, Chunk(f, n) PROVE PermitInv'
    BY <1>0, <1>1, <1>6, <1>7, SMTT(60) DEF Chunk, Released, Ended
  <1>8. ASSUME NEW transient \in BOOLEAN, SendFails(f, transient) PROVE PermitInv'
    BY <1>1, <1>3, <1>8 DEF SendFails, Released, Ended
  <1>9. CASE Partial(f)
    BY <1>1, <1>5, <1>9 DEF Partial, Released, Ended
  <1>10. CASE Answer(f) \/ BodyEnds(f)
    BY <1>1, <1>10 DEF Answer, BodyEnds, Released, Ended
  <1> QED
    BY <1>4, <1>7, <1>8, <1>9, <1>10 DEF OriginStep

LEMMA InitPermits == Init => PermitInv
  <1> SUFFICES ASSUME Init PROVE PermitInv
    OBVIOUS
  <1>1. pc \in [Fetches -> Stages]
    BY DEF Init, Stages
  <1>2. /\ attempt \in [Fetches -> 0 .. Retries] /\ got \in [Fetches -> Nat]
        /\ inflight \in 0 .. MaxInflight /\ permits \in [Limited -> Nat]
    BY BoundsNat, LimitType, SMTT(60) DEF Init
  <1>3. TypeOK
    BY <1>1, <1>2 DEF TypeOK, Init
  <1>4. Ranged = {} /\ \A s \in Limited : Holding(s) = {}
    BY DEF Init, Ranged, Holding, InUse
  <1>5. Conserved
    <2>1. Cardinality({}) = 0
      BY FS_EmptySet
    <2>2. Cardinality(Ranged) + inflight = MaxInflight
      BY <1>4, <2>1, BoundsNat, SMTT(60) DEF Init
    <2>3. ASSUME NEW s \in Limited PROVE Cardinality(Holding(s)) + permits[s] = Budget(s)
      <3>1. Cardinality(Holding(s)) = 0
        BY <1>4, <2>1
      <3>2. permits[s] = Budget(s) /\ Budget(s) \in Nat
        BY LimitType DEF Init
      <3> QED
        BY <3>1, <3>2, SMTT(60)
    <2> QED
      BY <2>2, <2>3 DEF Conserved
  <1>6. Buffered
    BY LimitType, SMTT(60) DEF Buffered, Init
  <1> QED
    BY <1>3, <1>5, <1>6 DEF PermitInv

LEMMA NextPermits == PermitInv /\ [Next]_vars => PermitInv'
  <1> SUFFICES ASSUME PermitInv, [Next]_vars PROVE PermitInv'
    OBVIOUS
  <1>1. CASE UNCHANGED vars
    BY <1>1 DEF vars, PermitInv, TypeOK, Conserved, Buffered, Ranged, Holding
  <1>2. ASSUME NEW f \in Fetches, Cancel(f) PROVE PermitInv'
    BY <1>2, EndStep DEF Cancel, Released, Ended
  <1>3. ASSUME NEW f \in Fetches, TakeGlobal(f) PROVE PermitInv'
    BY <1>3, GlobalStep DEF TakeGlobal, PermitInv, Buffered
  <1> QED
    BY <1>1, <1>2, <1>3, CheckStep, ServiceStep, OriginSteps DEF Next, ClientStep
-----------------------------------------------------------------------------
\* upstream/client.rs: the types, and the conservation of both kinds of permit, for any workload.
THEOREM PermitInvariance == Spec => []PermitInv
  BY InitPermits, NextPermits, PTL DEF Spec

\* upstream/client.rs, TypeOK: in particular no call makes more than Retries further attempts.
THEOREM UpstreamTypeCorrect == Spec => []TypeOK
  <1>1. PermitInv => TypeOK
    BY DEF PermitInv
  <1> QED
    BY <1>1, PermitInvariance, PTL

\* upstream/client.rs, fetch_range, fetch_stream and service_permit: requests that have not been
\* answered, and buffered bodies, stay within the global ceiling and every service's budget, and what
\* is buffered within the limit, whatever the numbers of calls, services and retries.  The body of a
\* fill has left the count when it starts to stream (FillsWithinBudget is about that).
THEOREM InFlightBoundedHolds == Spec => []InFlightBounded
  <1>1. PermitInv => InFlightBounded
    <2> SUFFICES ASSUME PermitInv PROVE InFlightBounded
      OBVIOUS
    <2>1. ASSUME NEW s \in Limited PROVE Cardinality(Using(s)) <= Budget(s)
      <3>1. Using(s) \subseteq Holding(s) /\ IsFiniteSet(Holding(s))
        BY FetchesFinite, FS_Subset DEF Using, Holding
      <3>2. /\ Cardinality(Using(s)) \in Nat /\ Cardinality(Holding(s)) \in Nat
            /\ Cardinality(Using(s)) <= Cardinality(Holding(s))
        BY <3>1, FS_Subset, FS_CardinalityType
      <3>3. Cardinality(Holding(s)) + permits[s] = Budget(s) /\ permits[s] \in Nat
        BY DEF PermitInv, Conserved, TypeOK
      <3> QED
        BY <3>2, <3>3, LimitType, SMTT(60)
    <2>2. \A f \in Fetches : got[f] <= limit /\ (got[f] > 0 => f \in Ranged)
      BY DEF PermitInv, Buffered, Ranged, InUse
    <2> QED
      BY <2>1, <2>2 DEF PermitInv, Conserved, InFlightBounded
  <1> QED
    BY <1>1, PermitInvariance, PTL
-----------------------------------------------------------------------------
LEMMA InitChecked == Init => Checked
  BY DEF Init, Checked, Past, InUse

LEMMA CheckedStep ==
    ASSUME TypeOK, Checked, NEW f \in Fetches,
           Call(f) \/ ClientStep(f) \/ OriginStep(f) \/ Cancel(f)
    PROVE  Checked'
  <1> USE DEF Past
  <1>1. host' = host
    BY DEF Call, ClientStep, OriginStep, Cancel, CheckUrl, TakeService, TakeGlobal, SendFails, Dial,
           Answer, Partial, Chunk, BodyEnds, End, Advance
  <1>0. pc[f] # "idle" => host[f] # Unused
    BY DEF Checked
  <1>2. ASSUME NEW x, to' = [to EXCEPT ![f] = x],
               x # NoAddr => x \in IPv4 \cup IPv6 /\ check(x) = "ok",
               NEW label, Become(f, label), host[f] # Unused,
               label \in Past => pc[f] \in Past \/ IsName(f) \/ check(host[f]) = "ok",
               label = "refused" => IsName(f) \/ (IsV4(host[f]) /\ check(host[f]) # "ok")
        PROVE  Checked'
    BY <1>1, <1>2 DEF Checked, Become, TypeOK, IsName
  <1>3. ASSUME to' = to, NEW label, Become(f, label), host[f] # Unused, label # "refused",
               label \in Past => pc[f] \in Past \/ IsName(f) \/ check(host[f]) = "ok"
        PROVE  Checked'
    BY <1>1, <1>3 DEF Checked, Become, TypeOK, IsName
  <1>4. ASSUME NEW result \in Released, End(f, result), pc[f] # "idle",
               result = "refused" => IsName(f) \/ (IsV4(host[f]) /\ check(host[f]) # "ok")
        PROVE  Checked'
    <2>1. result \notin Past
      BY <1>4 DEF Released, Ended, InUse
    <2> QED
      BY <1>0, <1>2, <1>4, <2>1 DEF End
  <1>5. CASE CheckUrl(f)
    <2>1. ASSUME NEW ips \in Lookups(f), Allowed(ips) # {},
                 Advance(f, AfterCheck(f)) /\ UNCHANGED <<to, inflight, permits>>
          PROVE  Checked'
      <3>1. IsName(f) \/ check(host[f]) = "ok"
        BY <2>1 DEF Lookups, Allowed
      <3>2. AfterCheck(f) # "refused" /\ pc[f] # "idle"
        BY <1>5 DEF AfterCheck, AfterService, CheckUrl
      <3> QED
        BY <1>0, <1>3, <2>1, <3>1, <3>2 DEF Advance
    <2>2. ASSUME NEW ips \in Lookups(f), Allowed(ips) = {}, End(f, IF ips = {} THEN "failed" ELSE "refused")
          PROVE  Checked'
      <3>1. ips # {} => IsName(f) \/ (IsV4(host[f]) /\ check(host[f]) # "ok")
        <4>1. ~IsName(f) => IsV4(host[f]) /\ ips = {host[f]}
          BY <2>2 DEF Lookups
        <4>2. \A x \in ips : check(x) # "ok"
          BY <2>2, SMTT(60) DEF Allowed
        <4> QED
          BY <4>1, <4>2
      <3> QED
        BY <1>4, <1>5, <2>2, <3>1 DEF CheckUrl, Released, Ended
    <2>3. CASE End(f, "failed")
      BY <1>4, <1>5, <2>3 DEF CheckUrl, Released, Ended
    <2> QED
      BY <1>5, <2>1, <2>2, <2>3 DEF CheckUrl
  <1>6. CASE Dial(f)
    <2>1. PICK ips \in Lookups(f) : \E ip \in IF IsName(f) THEN Dialable(ips) ELSE ips :
                                       to' = [to EXCEPT ![f] = ip]
      BY <1>6 DEF Dial
    <2>2. PICK ip \in IF IsName(f) THEN Dialable(ips) ELSE ips : to' = [to EXCEPT ![f] = ip]
      BY <2>1
    <2>3. pc[f] \in Past /\ pc[f] # "idle" /\ Become(f, "sent")
      BY <1>6 DEF Dial, InUse
    <2>4. check(ip) = "ok"
      BY <2>2, <2>3 DEF Dialable, Allowed, Lookups, Checked
    <2>5. ip \in IPv4 \cup IPv6
      <3>1. CASE IsName(f)
        BY <2>1, <2>2, <3>1, HostsType DEF Lookups, IsName, Dialable, Allowed
      <3>2. CASE ~IsName(f)
        <4>1. ip = host[f]
          BY <2>1, <2>2, <3>2 DEF Lookups
        <4>2. host[f] \in IPv4 \cup IPv6
          BY <1>0, <2>3, <3>2, HostsType DEF IsName, TypeOK
        <4> QED
          BY <4>1, <4>2
      <3> QED
        BY <3>1, <3>2
    <2> QED
      BY <1>0, <1>2, <2>2, <2>3, <2>4, <2>5
  <1>7. CASE Call(f) \/ TakeService(f) \/ TakeGlobal(f)
    <2>1. PICK label : Become(f, label) /\ to' = to /\ (label \in Past => pc[f] \in Past)
                       /\ label # "refused" /\ host[f] # Unused
      BY <1>0, <1>7, SMTT(60) DEF Call, TakeService, TakeGlobal, AfterService, Advance, InUse
    <2> QED
      BY <1>3, <2>1
  <1>8. ASSUME NEW transient \in BOOLEAN, SendFails(f, transient) PROVE Checked'
    <2>1. pc[f] \in Past /\ pc[f] # "idle"
      BY <1>8 DEF SendFails, InUse
    <2> QED
      BY <1>0, <1>2, <1>4, <1>8, <2>1 DEF SendFails, Released, Ended
  <1>9. CASE Partial(f)
    <2>1. pc[f] \in Past /\ pc[f] # "idle"
      BY <1>9 DEF Partial, InUse
    <2> QED
      BY <1>0, <1>3, <1>4, <1>9, <2>1 DEF Partial, Advance, Released, Ended
  <1>10. ASSUME NEW n \in 1 .. 2, Chunk(f, n) PROVE Checked'
    <2>1. CASE End(f, "failed")
      BY <1>4, <1>10, <2>1 DEF Chunk, Released, Ended
    <2>2. CASE UNCHANGED <<host, pc, to>>
      BY <2>2 DEF Checked, IsName
    <2> QED
      BY <1>10, <2>1, <2>2 DEF Chunk
  <1>11. CASE Answer(f) \/ BodyEnds(f) \/ Cancel(f)
    BY <1>4, <1>11 DEF Answer, BodyEnds, Cancel, Released, Ended
  <1> QED
    BY <1>5, <1>6, <1>7, <1>8, <1>9, <1>10, <1>11 DEF ClientStep, OriginStep

LEMMA CheckedInvariance == Spec => []Checked
  <1>1. TypeOK /\ Checked /\ [Next]_vars => Checked'
    <2> SUFFICES ASSUME TypeOK, Checked, [Next]_vars PROVE Checked'
      OBVIOUS
    <2>1. CASE UNCHANGED vars
      BY <2>1 DEF vars, Checked, IsName
    <2> QED
      BY <2>1, CheckedStep DEF Next
  <1> QED
    BY <1>1, InitChecked, UpstreamTypeCorrect, PTL DEF Spec
-----------------------------------------------------------------------------
(***************************************************************************)
(* The guard against the registries: 2^w and the digits of an address.     *)
(***************************************************************************)

LEMMA LenFour == ASSUME NEW S, NEW s \in [1 .. 4 -> S] PROVE Len(s) = 4
  BY SMTT(60)

LEMMA LenEight == ASSUME NEW S, NEW s \in [1 .. 8 -> S] PROVE Len(s) = 8
  BY SMTT(60)

LEMMA Digits4 ==
    ASSUME NEW a \in IPv4
    PROVE  /\ Len(a) = 4 /\ a[1] \in 0 .. 255 /\ a[2] \in 0 .. 255
           /\ a[3] \in 0 .. 255 /\ a[4] \in 0 .. 255
  <1>1. Len(a) = 4
    BY LenFour DEF IPv4
  <1>2. \A i \in 1 .. 4 : a[i] \in Octets
    BY DEF IPv4
  <1> QED
    BY <1>1, <1>2, SMTT(60) DEF Octets

LEMMA Digits6 == ASSUME NEW s \in IPv6 PROVE Len(s) = 8 /\ \A i \in 1 .. 8 : s[i] \in Segments /\ s[i] \in Nat
  <1>1. Len(s) = 8
    BY LenEight DEF IPv6
  <1>2. Segments \subseteq Nat
    BY SMTT(60) DEF Segments
  <1> QED
    BY <1>1, <1>2 DEF IPv6

LEMMA Powers == 2^1 = 2 /\ 2^4 = 16 /\ 2^6 = 64 /\ 2^8 = 256 /\ 2^9 = 512
  BY SMTT(60)

\* Digits of which every bit counts, of which none does, and the ones a block divides.
LEMMA WholeDigit ==
    ASSUME NEW x \in Nat, NEW y \in Nat, NEW w \in Nat \ {0}, NEW left \in Nat, left >= w
    PROVE  SameBits(x, y, left, w) <=> x = y
  <1>1. w - (IF left > w THEN w ELSE left) = 0 /\ left > 0
    BY SMTT(60)
  <1>2. 2^0 = 1 /\ x \div 1 = x /\ y \div 1 = y
    BY SMTT(60)
  <1> QED
    BY <1>1, <1>2 DEF SameBits

LEMMA NoDigit == ASSUME NEW x, NEW y, NEW w, NEW left \in Int, left <= 0 PROVE SameBits(x, y, left, w)
  BY SMTT(60) DEF SameBits

LEMMA DividedDigit ==
    ASSUME NEW x \in Nat, NEW y \in Nat
    PROVE  /\ SameBits(x, y, 2, 8) <=> x \div 64 = y \div 64
           /\ SameBits(x, y, 4, 8) <=> x \div 16 = y \div 16
           /\ SameBits(x, y, 7, 8) <=> x \div 2 = y \div 2
           /\ SameBits(x, y, 7, 16) <=> x \div 512 = y \div 512
           /\ SameBits(x, y, 8, 16) <=> x \div 256 = y \div 256
           /\ SameBits(x, y, 10, 16) <=> x \div 64 = y \div 64
  <1>1. 8 - 2 = 6 /\ 8 - 4 = 4 /\ 8 - 7 = 1 /\ 16 - 7 = 9 /\ 16 - 8 = 8 /\ 16 - 10 = 6
    BY SMTT(60)
  <1> QED
    BY <1>1, Powers, SMTT(60) DEF SameBits

\* What a prefix of each length in SpecialV4Blocks says of an address.
LEMMA Prefix4 ==
    ASSUME NEW a \in IPv4, NEW b1 \in Nat, NEW b2 \in Nat, NEW b3 \in Nat, NEW b4 \in Nat
    PROVE  LET b == <<b1, b2, b3, b4>> IN
           /\ SamePrefix(a, b, 4, 8) <=> a[1] \div 16 = b1 \div 16
           /\ SamePrefix(a, b, 8, 8) <=> a[1] = b1
           /\ SamePrefix(a, b, 10, 8) <=> a[1] = b1 /\ a[2] \div 64 = b2 \div 64
           /\ SamePrefix(a, b, 12, 8) <=> a[1] = b1 /\ a[2] \div 16 = b2 \div 16
           /\ SamePrefix(a, b, 15, 8) <=> a[1] = b1 /\ a[2] \div 2 = b2 \div 2
           /\ SamePrefix(a, b, 16, 8) <=> a[1] = b1 /\ a[2] = b2
           /\ SamePrefix(a, b, 24, 8) <=> a[1] = b1 /\ a[2] = b2 /\ a[3] = b3
  <1> DEFINE b == <<b1, b2, b3, b4>>
  <1>1. /\ a[1] \in Nat /\ a[2] \in Nat /\ a[3] \in Nat
        /\ b[1] = b1 /\ b[2] = b2 /\ b[3] = b3
    BY Digits4, SMTT(60)
  <1>2. ASSUME NEW n \in Nat
        PROVE  SamePrefix(a, b, n, 8) <=>
                  /\ SameBits(a[1], b[1], n, 8) /\ SameBits(a[2], b[2], n - 8, 8)
                  /\ SameBits(a[3], b[3], n - 16, 8) /\ SameBits(a[4], b[4], n - 24, 8)
    <2>1. /\ n - 8 * (1 - 1) = n /\ n - 8 * (2 - 1) = n - 8
          /\ n - 8 * (3 - 1) = n - 16 /\ n - 8 * (4 - 1) = n - 24
      BY SMTT(60)
    <2>2. \A i : i \in 1 .. 4 <=> i \in {1, 2, 3, 4}
      BY SMTT(60)
    <2>3. Len(a) = 4
      BY Digits4
    <2> QED
      BY <2>1, <2>2, <2>3 DEF SamePrefix
  <1> HIDE DEF b
  <1>3. ASSUME NEW x \in Nat, NEW y \in Nat
        PROVE  /\ SameBits(x, y, 8, 8) <=> x = y
               /\ SameBits(x, y, 10, 8) <=> x = y
               /\ SameBits(x, y, 12, 8) <=> x = y
               /\ SameBits(x, y, 15, 8) <=> x = y
               /\ SameBits(x, y, 16, 8) <=> x = y
               /\ SameBits(x, y, 24, 8) <=> x = y
    BY WholeDigit, SMTT(60)
  <1>4. ASSUME NEW x, NEW y
        PROVE  \A left \in {0, -4, -8, -12, -16, -20, -24, -6, -14, -9, -1} : SameBits(x, y, left, 8)
    BY NoDigit, SMTT(60)
  <1>d. /\ SameBits(a[1], b1, 4, 8) <=> a[1] \div 16 = b1 \div 16
        /\ SameBits(a[2], b2, 2, 8) <=> a[2] \div 64 = b2 \div 64
        /\ SameBits(a[2], b2, 4, 8) <=> a[2] \div 16 = b2 \div 16
        /\ SameBits(a[2], b2, 7, 8) <=> a[2] \div 2 = b2 \div 2
    BY <1>1, DividedDigit, SMTT(60)
  <1>5. SamePrefix(a, b, 4, 8) <=> a[1] \div 16 = b1 \div 16
    BY <1>1, <1>2, <1>4, <1>d, SMTT(60)
  <1>6. SamePrefix(a, b, 8, 8) <=> a[1] = b1
    BY <1>1, <1>2, <1>3, <1>4, SMTT(60)
  <1>7. SamePrefix(a, b, 10, 8) <=> a[1] = b1 /\ a[2] \div 64 = b2 \div 64
    <2>1. SamePrefix(a, b, 10, 8) <=> SameBits(a[1], b1, 10, 8) /\ SameBits(a[2], b2, 2, 8)
      BY <1>1, <1>2, <1>4, SMTT(60)
    <2> QED
      BY <1>1, <1>3, <1>d, <2>1, SMTT(60)
  <1>8. SamePrefix(a, b, 12, 8) <=> a[1] = b1 /\ a[2] \div 16 = b2 \div 16
    BY <1>1, <1>2, <1>3, <1>4, <1>d, SMTT(60)
  <1>9. SamePrefix(a, b, 15, 8) <=> a[1] = b1 /\ a[2] \div 2 = b2 \div 2
    BY <1>1, <1>2, <1>3, <1>4, <1>d, SMTT(60)
  <1>10. SamePrefix(a, b, 16, 8) <=> a[1] = b1 /\ a[2] = b2
    BY <1>1, <1>2, <1>3, <1>4, SMTT(60)
  <1>11. SamePrefix(a, b, 24, 8) <=> a[1] = b1 /\ a[2] = b2 /\ a[3] = b3
    BY <1>1, <1>2, <1>3, <1>4, SMTT(60)
  <1> QED
    BY <1>5, <1>6, <1>7, <1>8, <1>9, <1>10, <1>11 DEF b

\* check_v4: an IPv4 address is refused exactly if it is in a special-purpose block.
LEMMA GuardV4 == ASSUME NEW a \in IPv4 PROVE check_v4(a) = "ok" <=> ~SpecialV4(a)
  <1>1. SpecialV4(a) <=>
           \/ a[1] = 0 \/ a[1] = 10 \/ a[1] = 127
           \/ a[1] = 100 /\ a[2] \div 64 = 64 \div 64
           \/ a[1] = 169 /\ a[2] = 254
           \/ a[1] = 172 /\ a[2] \div 16 = 16 \div 16
           \/ a[1] = 192 /\ a[2] = 0 /\ a[3] = 0
           \/ a[1] = 192 /\ a[2] = 0 /\ a[3] = 2
           \/ a[1] = 192 /\ a[2] = 168
           \/ a[1] = 198 /\ a[2] \div 2 = 18 \div 2
           \/ a[1] = 198 /\ a[2] = 51 /\ a[3] = 100
           \/ a[1] = 203 /\ a[2] = 0 /\ a[3] = 113
           \/ a[1] \div 16 = 224 \div 16 \/ a[1] \div 16 = 240 \div 16
    <2>1. SpecialV4(a) <=>
             \/ SamePrefix(a, <<0, 0, 0, 0>>, 8, 8)
             \/ SamePrefix(a, <<10, 0, 0, 0>>, 8, 8)
             \/ SamePrefix(a, <<100, 64, 0, 0>>, 10, 8)
             \/ SamePrefix(a, <<127, 0, 0, 0>>, 8, 8)
             \/ SamePrefix(a, <<169, 254, 0, 0>>, 16, 8)
             \/ SamePrefix(a, <<172, 16, 0, 0>>, 12, 8)
             \/ SamePrefix(a, <<192, 0, 0, 0>>, 24, 8)
             \/ SamePrefix(a, <<192, 0, 2, 0>>, 24, 8)
             \/ SamePrefix(a, <<192, 168, 0, 0>>, 16, 8)
             \/ SamePrefix(a, <<198, 18, 0, 0>>, 15, 8)
             \/ SamePrefix(a, <<198, 51, 100, 0>>, 24, 8)
             \/ SamePrefix(a, <<203, 0, 113, 0>>, 24, 8)
             \/ SamePrefix(a, <<224, 0, 0, 0>>, 4, 8)
             \/ SamePrefix(a, <<240, 0, 0, 0>>, 4, 8)
      BY SMTT(60) DEF SpecialV4, SpecialV4Blocks
    <2>2. /\ SamePrefix(a, <<0, 0, 0, 0>>, 8, 8) <=> a[1] = 0
          /\ SamePrefix(a, <<10, 0, 0, 0>>, 8, 8) <=> a[1] = 10
          /\ SamePrefix(a, <<127, 0, 0, 0>>, 8, 8) <=> a[1] = 127
      BY Prefix4, SMTT(60)
    <2>3. /\ SamePrefix(a, <<224, 0, 0, 0>>, 4, 8) <=> a[1] \div 16 = 224 \div 16
          /\ SamePrefix(a, <<240, 0, 0, 0>>, 4, 8) <=> a[1] \div 16 = 240 \div 16
      BY Prefix4, SMTT(60)
    <2>4. /\ SamePrefix(a, <<100, 64, 0, 0>>, 10, 8) <=> a[1] = 100 /\ a[2] \div 64 = 64 \div 64
          /\ SamePrefix(a, <<172, 16, 0, 0>>, 12, 8) <=> a[1] = 172 /\ a[2] \div 16 = 16 \div 16
          /\ SamePrefix(a, <<198, 18, 0, 0>>, 15, 8) <=> a[1] = 198 /\ a[2] \div 2 = 18 \div 2
      BY Prefix4, SMTT(60)
    <2>5. /\ SamePrefix(a, <<169, 254, 0, 0>>, 16, 8) <=> a[1] = 169 /\ a[2] = 254
          /\ SamePrefix(a, <<192, 168, 0, 0>>, 16, 8) <=> a[1] = 192 /\ a[2] = 168
      BY Prefix4, SMTT(60)
    <2>6. /\ SamePrefix(a, <<192, 0, 0, 0>>, 24, 8) <=> a[1] = 192 /\ a[2] = 0 /\ a[3] = 0
          /\ SamePrefix(a, <<192, 0, 2, 0>>, 24, 8) <=> a[1] = 192 /\ a[2] = 0 /\ a[3] = 2
          /\ SamePrefix(a, <<198, 51, 100, 0>>, 24, 8) <=> a[1] = 198 /\ a[2] = 51 /\ a[3] = 100
          /\ SamePrefix(a, <<203, 0, 113, 0>>, 24, 8) <=> a[1] = 203 /\ a[2] = 0 /\ a[3] = 113
      BY Prefix4, SMTT(60)
    <2> QED
      BY <2>1, <2>2, <2>3, <2>4, <2>5, <2>6, SMTT(60)
  <1>2. /\ a = <<0, 0, 0, 0>> => a[1] = 0
        /\ a = <<255, 255, 255, 255>> => a[1] = 255
    BY SMTT(60)
  <1>3. check_v4(a) = "ok" <=>
           ~ \/ a[1] = 127 \/ a[1] = 10 \/ a[1] = 0 \/ a[1] >= 240
             \/ a[1] = 172 /\ a[2] \in 16 .. 31
             \/ a[1] = 192 /\ a[2] = 168
             \/ a[1] = 169 /\ a[2] = 254
             \/ a[1] \in 224 .. 239
             \/ a[1] = 100 /\ a[2] \in 64 .. 127
             \/ a[1] = 192 /\ a[2] = 0 /\ a[3] = 0
             \/ a[1] = 192 /\ a[2] = 0 /\ a[3] = 2
             \/ a[1] = 198 /\ a[2] = 51 /\ a[3] = 100
             \/ a[1] = 203 /\ a[2] = 0 /\ a[3] = 113
             \/ a[1] = 198 /\ a[2] \in 18 .. 19
    <2>1. <<a[1], a[2], a[3]>> \in {<<192, 0, 0>>, <<192, 0, 2>>, <<198, 51, 100>>, <<203, 0, 113>>} <=>
             \/ a[1] = 192 /\ a[2] = 0 /\ a[3] = 0
             \/ a[1] = 192 /\ a[2] = 0 /\ a[3] = 2
             \/ a[1] = 198 /\ a[2] = 51 /\ a[3] = 100
             \/ a[1] = 203 /\ a[2] = 0 /\ a[3] = 113
      BY SMTT(60)
    <2> DEFINE private == \/ a[1] = 10
                          \/ a[1] = 172 /\ a[2] \in 16 .. 31
                          \/ a[1] = 192 /\ a[2] = 168
               multicast == a[1] \in 224 .. 239 \/ a = <<255, 255, 255, 255>>
               reserved == \/ a[1] = 100 /\ a[2] \in 64 .. 127
                           \/ a[1] = 0
                           \/ a[1] >= 240
                           \/ <<a[1], a[2], a[3]>> \in {<<192, 0, 0>>, <<192, 0, 2>>, <<198, 51, 100>>,
                                                        <<203, 0, 113>>}
                           \/ a[1] = 198 /\ a[2] \in 18 .. 19
    <2>2. check_v4(a) = "ok" <=> ~ \/ a = <<0, 0, 0, 0>> \/ a[1] = 127 \/ private
                                   \/ (a[1] = 169 /\ a[2] = 254) \/ multicast \/ reserved
      <3>1. check_v4(a) = IF a = <<0, 0, 0, 0>> THEN "unspecified"
                          ELSE IF a[1] = 127 THEN "loopback"
                          ELSE IF private THEN "private"
                          ELSE IF a[1] = 169 /\ a[2] = 254 THEN "link_local"
                          ELSE IF multicast THEN "multicast_or_broadcast"
                          ELSE IF reserved THEN "reserved"
                          ELSE "ok"
        BY DEF check_v4
      <3> HIDE DEF private, multicast, reserved
      <3> QED BY <3>1
    <2>3. /\ a = <<0, 0, 0, 0>> => a[1] = 0
          /\ a = <<255, 255, 255, 255>> => a[1] >= 240
      <3>1. 255 >= 240
        BY SMTT(60)
      <3> QED
        BY <1>2, <3>1
    <2> QED
      BY <2>1, <2>2, <2>3, SMTT(60)
  <1> QED
    BY <1>1, <1>3, Digits4, SMTT(60)

\* What a prefix says of the segments of an IPv6 address that it covers.
LEMMA Prefix6 ==
    ASSUME NEW s \in IPv6, NEW b, \A i \in 1 .. 8 : b[i] \in Nat, NEW n \in Nat, SamePrefix(s, b, n, 16)
    PROVE  /\ \A i \in 1 .. 8 : 16 * i <= n => s[i] = b[i]
           /\ n = 7 => s[1] \div 512 = b[1] \div 512
           /\ n = 8 => s[1] \div 256 = b[1] \div 256
           /\ n = 10 => s[1] \div 64 = b[1] \div 64
  <1>1. \A i \in 1 .. 8 : s[i] \in Nat /\ SameBits(s[i], b[i], n - 16 * (i - 1), 16)
    BY Digits6 DEF SamePrefix
  <1>2. ASSUME NEW i \in 1 .. 8, 16 * i <= n PROVE s[i] = b[i]
    <2> DEFINE left == n - 16 * (i - 1)
    <2>1. left \in Nat /\ left >= 16 /\ 16 \in Nat \ {0}
      BY <1>2, SMTT(60)
    <2>2. s[i] \in Nat /\ b[i] \in Nat /\ SameBits(s[i], b[i], left, 16)
      BY <1>1
    <2> HIDE DEF left
    <2> QED
      BY <2>1, <2>2, WholeDigit, SMTT(60)
  <1>3. s[1] \in Nat /\ b[1] \in Nat /\ SameBits(s[1], b[1], n, 16)
    BY <1>1, SMTT(60)
  <1>4. /\ n = 7 => s[1] \div 512 = b[1] \div 512
        /\ n = 8 => s[1] \div 256 = b[1] \div 256
        /\ n = 10 => s[1] \div 64 = b[1] \div 64
    BY <1>3, DividedDigit, SMTT(60)
  <1> QED
    BY <1>2, <1>4

\* check_v6: the address an IPv6 address carries, if any, decides.
LEMMA CarriedDecides ==
    ASSUME NEW s, check_v6(s) = "ok"
    PROVE  \A a \in embedded_v4(s) : check_v4(a) = "ok"
  <1>1. ASSUME NEW a \in embedded_v4(s) PROVE a = CHOOSE x \in embedded_v4(s) : TRUE
    <2>1. embedded_v4(s) = {a}
      BY <1>1, SMTT(60) DEF embedded_v4
    <2> QED
      BY <2>1
  <1>2. embedded_v4(s) # {} => check_v4(CHOOSE a \in embedded_v4(s) : TRUE) = "ok"
    BY SMTT(60) DEF check_v6
  <1> QED
    BY <1>1, <1>2

LEMMA FourTuple ==
    ASSUME NEW S, NEW w \in S, NEW x \in S, NEW y \in S, NEW z \in S
    PROVE  <<w, x, y, z>> \in [1 .. 4 -> S]
  BY SMTT(60)

\* The IPv4 address an IPv6 address carries is one.
LEMMA CarriedV4 == ASSUME NEW hi \in Segments, NEW lo \in Segments PROVE FromSegments(hi, lo) \in IPv4
  <1>1. \A x \in Segments : x \div 256 \in Octets /\ x % 256 \in Octets
    BY SMTT(60) DEF Segments, Octets
  <1> QED
    BY <1>1, FourTuple, SMTT(60) DEF FromSegments, IPv4

\* check_v6: an IPv6 address that is passed is in no special-purpose block, and carries no IPv4
\* address that is.
LEMMA GuardV6 == ASSUME NEW s \in IPv6, check_v6(s) = "ok" PROVE ~SpecialV6(s)
  <1> DEFINE Covers(b, n) == SamePrefix(s, b, n, 16)
             unspecified == Covers(<<0, 0, 0, 0, 0, 0, 0, 0>>, 128)
             loopback == Covers(<<0, 0, 0, 0, 0, 0, 0, 1>>, 128)
             teredo == Covers(<<8193, 0, 0, 0, 0, 0, 0, 0>>, 32)
             documentation == Covers(<<8193, 3512, 0, 0, 0, 0, 0, 0>>, 32)
             unique == Covers(<<64512, 0, 0, 0, 0, 0, 0, 0>>, 7)
             link == Covers(<<65152, 0, 0, 0, 0, 0, 0, 0>>, 10)
             multicast == Covers(<<65280, 0, 0, 0, 0, 0, 0, 0>>, 8)
             mapped == Covers(<<0, 0, 0, 0, 0, 65535, 0, 0>>, 96)
             compatible == Covers(<<0, 0, 0, 0, 0, 0, 0, 0>>, 96)
             nat64 == Covers(<<100, 65435, 0, 0, 0, 0, 0, 0>>, 96)
             sixToFour == Covers(<<8194, 0, 0, 0, 0, 0, 0, 0>>, 16)
             low == FromSegments(s[7], s[8])
             high == FromSegments(s[2], s[3])
  <1>1. SpecialV6(s) =>
           \/ unspecified \/ loopback \/ teredo \/ documentation \/ unique \/ link \/ multicast
           \/ (mapped \/ compatible \/ nat64) /\ SpecialV4(low)
           \/ sixToFour /\ SpecialV4(high)
    BY SMTT(60) DEF SpecialV6, SpecialV6Blocks, CarrierBlocks
  <1>2. (unspecified => Zeros(s, 8)) /\ (loopback => Zeros(s, 7) /\ s[8] = 1)
    BY Prefix6, SMTT(60) DEF Zeros
  <1>3. (teredo => s[1] = 8193 /\ s[2] = 0) /\ (documentation => s[1] = 8193 /\ s[2] = 3512)
    BY Prefix6, SMTT(60)
  <1>4. (unique => s[1] \div 512 = 126) /\ (link => s[1] \div 64 = 1018) /\ (multicast => s[1] \div 256 = 255)
    BY Prefix6, SMTT(60)
  <1>5. /\ mapped => Zeros(s, 5) /\ s[6] = 65535
        /\ compatible => Zeros(s, 6)
        /\ nat64 => s[1] = 100 /\ s[2] = 65435
        /\ sixToFour => s[1] = 8194
    BY Prefix6, SMTT(60) DEF Zeros
  <1> HIDE DEF Covers, unspecified, loopback, teredo, documentation, unique, link, multicast,
               mapped, compatible, nat64, sixToFour, low, high
  <1>6. s[1] \in Nat /\ (Zeros(s, 5) \/ Zeros(s, 6) => s[1] = 0)
    BY Digits6, SMTT(60) DEF Zeros
  <1>7. /\ mapped \/ compatible \/ nat64 => low \in embedded_v4(s)
        /\ sixToFour => high \in embedded_v4(s)
    BY <1>5, <1>6, SMTT(60) DEF embedded_v4, low, high
  <1>8. s[1] \notin {0, 100, 8194} => embedded_v4(s) = {}
    BY <1>6, SMTT(60) DEF embedded_v4
  <1>9. low \in IPv4 /\ high \in IPv4
    BY Digits6, CarriedV4, SMTT(60) DEF low, high
  <1>10. /\ low \in embedded_v4(s) => ~SpecialV4(low)
         /\ high \in embedded_v4(s) => ~SpecialV4(high)
    BY <1>9, CarriedDecides, GuardV4
  <1>11. ~unspecified /\ ~loopback /\ ~multicast
    BY <1>2, <1>4, SMTT(60) DEF check_v6
  <1>12. ~teredo /\ ~documentation
    BY <1>3, <1>8, SMTT(60) DEF check_v6
  <1>13. ~unique /\ ~link
    <2>1. unique \/ link => s[1] \notin {0, 100, 8194}
      BY <1>4, <1>6, SMTT(60)
    <2> QED
      BY <1>4, <1>8, <2>1, SMTT(60) DEF check_v6
  <1> QED
    BY <1>1, <1>7, <1>10, <1>11, <1>12, <1>13
-----------------------------------------------------------------------------
\* upstream/guard.rs, check, upstream/client.rs, check_url, and upstream/resolver.rs,
\* GuardedResolver: every connection goes to an address on the public internet, for any hosts and any
\* DNS answers, however often they change.  No IPv4 address outside the table is refused; of IPv6 the
\* guard refuses more than the table names, and only the safe direction is claimed.
THEOREM DialsAreGuardedHolds == Spec => []DialsAreGuarded
  <1>1. ASSUME NEW ip \in IPv4 \cup IPv6, ~AllowPrivate
        PROVE  /\ check(ip) = "ok" => ~SpecialPurpose(ip)
               /\ IsV4(ip) /\ check(ip) # "ok" => SpecialPurpose(ip)
    <2>1. CASE ip \in IPv4
      <3>1. IsV4(ip)
        BY <2>1, LenFour DEF IsV4, IPv4
      <3> QED
        BY <1>1, <2>1, <3>1, GuardV4 DEF check, SpecialPurpose
    <2>2. CASE ip \in IPv6
      <3>1. ~IsV4(ip)
        <4>1. Len(ip) = 8
          BY <2>2, LenEight DEF IPv6
        <4> QED
          BY <4>1, SMTT(60) DEF IsV4
      <3> QED
        BY <1>1, <2>2, <3>1, GuardV6 DEF check, SpecialPurpose
    <2> QED
      BY <2>1, <2>2
  <1>2. TypeOK /\ Checked => DialsAreGuarded
    <2> SUFFICES ASSUME TypeOK, Checked, ~AllowPrivate, NEW f \in Fetches
                 PROVE  /\ to[f] # NoAddr => ~SpecialPurpose(to[f])
                        /\ pc[f] = "refused" /\ ~IsName(f) => SpecialPurpose(host[f])
      BY DEF DialsAreGuarded
    <2>1. to[f] # NoAddr => ~SpecialPurpose(to[f])
      BY <1>1 DEF Checked
    <2>2. ASSUME pc[f] = "refused", ~IsName(f) PROVE SpecialPurpose(host[f])
      <3>1. host[f] \in IPv4 \cup IPv6
        BY <2>2, HostsType DEF Checked, TypeOK, IsName
      <3> QED
        BY <1>1, <2>2, <3>1 DEF Checked
    <2> QED
      BY <2>1, <2>2
  <1> QED
    BY <1>2, CheckedInvariance, UpstreamTypeCorrect, PTL
=============================================================================
