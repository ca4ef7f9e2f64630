--------------------------- MODULE SniProxyProofs ---------------------------
(***************************************************************************)
(* First the connection limit alone: both ceilings hold for any number of  *)
(* accept loops, connections and peers and for any ceilings.  They are not *)
(* inductive by themselves.  That a swap cannot pass the global ceiling    *)
(* rests on the value it compares with having been judged below it         *)
(* (SwapsBelowMax), and that rests on an attempt being in the hands of one *)
(* accept loop only (OneLoop).                                             *)
(*                                                                         *)
(* Then the listeners with the pass-through behind one of them implement   *)
(* the connection limit, so both ceilings hold of them; and what a relay   *)
(* sends to its origin is right, for any clients, lists, DNS answers and   *)
(* sizes of reads.  RelaysAreFaithful says nothing of a session before it  *)
(* relays; SessionOK adds what each stage hands to the next: the name was  *)
(* found in a list before the lookup, and only guarded addresses are left  *)
(* to connect to.                                                          *)
(*                                                                         *)
(* Last, the fragments of a ClientHello: a session that has found a name   *)
(* found the one in the first record of the client's bytes, wherever the   *)
(* reads ended (NameOfWhole).                                              *)
(***************************************************************************)
EXTENDS SniProxy, FiniteSetTheorems, TLAPS

\* The solver's time limit, in seconds.
USE ZenonT(60)

Admitting == {"claimed", "swapping", "refused"}

\* An accept loop works on an attempt only while the attempt is undecided.
Busy ==
    \A l \in Listeners : accepting[l] # NoConn => state[accepting[l]] \in Admitting

OneLoop ==
    \A l, m \in Listeners :
        accepting[l] # NoConn /\ accepting[l] = accepting[m] => l = m

SwapsBelowMax ==
    \A l \in Listeners :
        accepting[l] # NoConn /\ state[accepting[l]] = "swapping" => current[l] < Max

IInv ==
    /\ TypeOK
    /\ GlobalCeiling
    /\ PeerAccounting
    /\ RejectionsCounted
    /\ Busy
    /\ OneLoop
    /\ SwapsBelowMax

-----------------------------------------------------------------------------
\* The attempts of D whose state under f is in K.
In(f, D, K) == {d \in D : f[d] \in K}

\* g is f with attempt c in state s.
Moved(f, g, c, s) ==
    /\ f \in [Conns -> States]
    /\ c \in Conns
    /\ s \in States
    /\ g = [f EXCEPT ![c] = s]

\* Moving one attempt to another state changes the size of In(f, D, K) by at
\* most one, and by how much is decided by the two states alone.
LEMMA CountChange ==
    ASSUME NEW f, NEW g, NEW c, NEW s, Moved(f, g, c, s),
           NEW K, NEW D \in SUBSET Conns
    PROVE  /\ Cardinality(In(f, D, K)) \in Nat
           /\ c \in D /\ f[c] \notin K /\ s \in K
                => Cardinality(In(g, D, K)) = Cardinality(In(f, D, K)) + 1
           /\ c \in D /\ f[c] \in K /\ s \notin K
                => Cardinality(In(g, D, K)) = Cardinality(In(f, D, K)) - 1
           /\ c \notin D \/ (f[c] \in K <=> s \in K) => In(g, D, K) = In(f, D, K)
  <1> DEFINE A == In(f, D, K)
             B == In(g, D, K)
  <1>1. IsFiniteSet(D)
    BY ConnsFinite, FS_Subset
  <1>2. A \in SUBSET D /\ B \in SUBSET D
    BY DEF In
  <1>3. /\ IsFiniteSet(A) /\ Cardinality(A) \in Nat
        /\ IsFiniteSet(B)
    BY <1>1, <1>2, FS_Subset, FS_CardinalityType
  <1>4. \A d \in D : g[d] = IF d = c THEN s ELSE f[d]
    BY DEF Moved
  <1>5. ASSUME c \in D, f[c] \notin K, s \in K
        PROVE  Cardinality(B) = Cardinality(A) + 1
    <2>1. B = A \cup {c} /\ c \notin A
      BY <1>4, <1>5 DEF In
    <2>2. Cardinality(A \cup {c}) = Cardinality(A) + 1
      <3> HIDE DEF A, B
      <3> QED BY <2>1, <1>3, FS_AddElement
    <2>3. QED
      BY <2>1, <2>2
  <1>6. ASSUME c \in D, f[c] \in K, s \notin K
        PROVE  Cardinality(B) = Cardinality(A) - 1
    <2>1. B = A \ {c} /\ c \in A
      BY <1>4, <1>6 DEF In
    <2>2. Cardinality(A \ {c}) = Cardinality(A) - 1
      <3> HIDE DEF A, B
      <3> QED BY <2>1, <1>3, FS_RemoveElement
    <2>3. QED
      BY <2>1, <2>2
  <1>7. ASSUME c \notin D \/ (f[c] \in K <=> s \in K)
        PROVE  B = A
    BY <1>4, <1>7 DEF In
  <1>8. QED
    BY <1>3, <1>5, <1>6, <1>7

\* The counted sets of the specification, written with In.
OfPeer(p) == {c \in Conns : PeerOf[c] = p}

LEMMA CountedSets ==
    /\ Holders = In(state, Conns, {"held"})
    /\ TurnedAway = In(state, Conns, {"refused", "turned_away"})
    /\ \A p : Charged(p) = In(state, OfPeer(p), Charging)
  BY DEF Holders, TurnedAway, Charged, In, OfPeer

LEMMA CountedSetsPrime ==
    /\ Holders' = In(state', Conns, {"held"})
    /\ TurnedAway' = In(state', Conns, {"refused", "turned_away"})
    /\ \A p : Charged(p)' = In(state', OfPeer(p), Charging)
  BY DEF Holders, TurnedAway, Charged, In, OfPeer

-----------------------------------------------------------------------------
\* The part of TypeOK about the peer map.
PeerMapOK ==
    /\ DOMAIN peers \subseteq Peers
    /\ \A p \in DOMAIN peers : peers[p] \in Nat \ {0}

\* What Charge does to the counts.
LEMMA ChargeCounts ==
    ASSUME PeerMapOK, NEW p \in Peers, peers' = Charge(p)
    PROVE  /\ PeerMapOK'
           /\ \A q \in Peers : Count(q)' = IF q = p THEN Count(p) + 1 ELSE Count(q)
  <1>1. DOMAIN peers' = DOMAIN peers \cup {p}
    BY DEF Charge
  <1>2. \A q \in DOMAIN peers' : peers'[q] = IF q = p THEN Count(p) + 1 ELSE peers[q]
    BY <1>1 DEF Charge
  <1>3. Count(p) \in Nat
    BY DEF Count, PeerMapOK
  <1>4. PeerMapOK'
    BY <1>1, <1>2, <1>3, SMTT(60) DEF PeerMapOK
  <1>5. QED
    BY <1>1, <1>2, <1>4 DEF Count

\* What Discharge does to the counts, if there is something to give back.
LEMMA DischargeCounts ==
    ASSUME PeerMapOK, NEW p \in Peers, Count(p) # 0, peers' = Discharge(p)
    PROVE  /\ PeerMapOK'
           /\ \A q \in Peers : Count(q)' = IF q = p THEN Count(p) - 1 ELSE Count(q)
  <1>1. p \in DOMAIN peers /\ Count(p) = peers[p] /\ peers[p] \in Nat \ {0}
    BY DEF Count, PeerMapOK
  <1>2. DOMAIN peers' = {r \in DOMAIN peers : r = p => peers[p] - 1 # 0}
    BY DEF Discharge
  <1>3. \A q \in DOMAIN peers' : peers'[q] = IF q = p THEN peers[p] - 1 ELSE peers[q]
    BY <1>2 DEF Discharge
  <1>4. PeerMapOK'
    BY <1>1, <1>2, <1>3, SMTT(60) DEF PeerMapOK
  <1>5. QED
    BY <1>1, <1>2, <1>3, <1>4 DEF Count

\* An entry of the map counts somebody.
LEMMA EntriesCount ==
    ASSUME PeerMapOK, \A p \in Peers : Count(p) = Cardinality(Charged(p))
    PROVE  \A p \in DOMAIN peers : Charged(p) # {}
  BY FS_EmptySet DEF PeerMapOK, Count

\* The same of the next state.
LEMMA EntriesCountPrime ==
    ASSUME PeerMapOK', \A p \in Peers : Count(p)' = Cardinality(Charged(p)')
    PROVE  (\A p \in DOMAIN peers : Charged(p) # {})'
  BY FS_EmptySet DEF PeerMapOK, Count

\* How the three counted sets change when one attempt moves to another state.
LEMMA Move ==
    ASSUME state \in [Conns -> States], NEW c \in Conns, NEW s \in States,
           state' = [state EXCEPT ![c] = s]
    PROVE  /\ state' \in [Conns -> States]
           /\ \A d \in Conns : state'[d] = IF d = c THEN s ELSE state[d]
           /\ Cardinality(Holders) \in Nat
           /\ state[c] # "held" /\ s = "held"
                => Cardinality(Holders') = Cardinality(Holders) + 1
           /\ state[c] = "held" /\ s # "held"
                => Cardinality(Holders') = Cardinality(Holders) - 1
           /\ state[c] # "held" /\ s # "held" => Holders' = Holders
           /\ Cardinality(TurnedAway) \in Nat
           /\ state[c] \notin {"refused", "turned_away"} /\ s \in {"refused", "turned_away"}
                => Cardinality(TurnedAway') = Cardinality(TurnedAway) + 1
           /\ (state[c] \in {"refused", "turned_away"} <=> s \in {"refused", "turned_away"})
                => TurnedAway' = TurnedAway
           /\ \A p \in Peers : p # PeerOf[c] => Charged(p)' = Charged(p)
           /\ Cardinality(Charged(PeerOf[c])) \in Nat
           /\ state[c] \notin Charging /\ s \in Charging
                => Cardinality(Charged(PeerOf[c])') = Cardinality(Charged(PeerOf[c])) + 1
           /\ state[c] \in Charging /\ s \notin Charging
                => Cardinality(Charged(PeerOf[c])') = Cardinality(Charged(PeerOf[c])) - 1
           /\ (state[c] \in Charging <=> s \in Charging)
                => \A p \in Peers : Charged(p)' = Charged(p)
  <1> DEFINE p0 == PeerOf[c]
  <1>0. /\ Moved(state, state', c, s)
        /\ Conns \in SUBSET Conns
        /\ \A p : OfPeer(p) \in SUBSET Conns
    BY DEF OfPeer, Moved
  <1>1. /\ state' \in [Conns -> States]
        /\ \A d \in Conns : state'[d] = IF d = c THEN s ELSE state[d]
    OBVIOUS
  <1>2. /\ Cardinality(Holders) \in Nat
        /\ state[c] # "held" /\ s = "held"
             => Cardinality(Holders') = Cardinality(Holders) + 1
        /\ state[c] = "held" /\ s # "held"
             => Cardinality(Holders') = Cardinality(Holders) - 1
        /\ state[c] # "held" /\ s # "held" => Holders' = Holders
    <2> DEFINE K == {"held"}
    <2>1. Holders = In(state, Conns, K) /\ Holders' = In(state', Conns, K)
      BY CountedSets, CountedSetsPrime
    <2>2. \A t : t \in K <=> t = "held"
      OBVIOUS
    <2> HIDE DEF K
    <2> QED
      BY <1>0, <2>1, <2>2, CountChange, SMTT(60)
  <1>3. /\ Cardinality(TurnedAway) \in Nat
        /\ state[c] \notin {"refused", "turned_away"} /\ s \in {"refused", "turned_away"}
             => Cardinality(TurnedAway') = Cardinality(TurnedAway) + 1
        /\ (state[c] \in {"refused", "turned_away"} <=> s \in {"refused", "turned_away"})
             => TurnedAway' = TurnedAway
    <2> DEFINE K == {"refused", "turned_away"}
    <2>1. TurnedAway = In(state, Conns, K) /\ TurnedAway' = In(state', Conns, K)
      BY CountedSets, CountedSetsPrime
    <2> HIDE DEF K
    <2>2. /\ Cardinality(TurnedAway) \in Nat
          /\ state[c] \notin K /\ s \in K
               => Cardinality(TurnedAway') = Cardinality(TurnedAway) + 1
          /\ (state[c] \in K <=> s \in K) => TurnedAway' = TurnedAway
      BY <1>0, <2>1, CountChange, SMTT(60)
    <2> QED
      BY <2>2 DEF K
  <1>5. ASSUME NEW p \in Peers, p # PeerOf[c]
        PROVE  Charged(p)' = Charged(p)
    <2>1. c \notin OfPeer(p)
      BY <1>5 DEF OfPeer
    <2>2. In(state', OfPeer(p), Charging) = In(state, OfPeer(p), Charging)
      BY <1>0, <2>1, CountChange, SMTT(60)
    <2> QED
      BY <2>2 DEF Charged, In, OfPeer
  <1>6. c \in OfPeer(p0)
    BY DEF OfPeer
  <1>7. /\ Cardinality(Charged(PeerOf[c])) \in Nat
        /\ state[c] \notin Charging /\ s \in Charging
             => Cardinality(Charged(PeerOf[c])') = Cardinality(Charged(PeerOf[c])) + 1
        /\ state[c] \in Charging /\ s \notin Charging
             => Cardinality(Charged(PeerOf[c])') = Cardinality(Charged(PeerOf[c])) - 1
    <2> DEFINE A == In(state, OfPeer(p0), Charging)
               B == In(state', OfPeer(p0), Charging)
    <2>1. Charged(PeerOf[c]) = A /\ Charged(PeerOf[c])' = B
      BY DEF Charged, In, OfPeer
    <2>2. /\ Cardinality(A) \in Nat
          /\ state[c] \notin Charging /\ s \in Charging => Cardinality(B) = Cardinality(A) + 1
          /\ state[c] \in Charging /\ s \notin Charging => Cardinality(B) = Cardinality(A) - 1
      BY <1>0, <1>6, CountChange, SMTT(60)
    <2> HIDE DEF A, B
    <2> QED
      BY <2>1, <2>2
  <1>8. ASSUME state[c] \in Charging <=> s \in Charging, NEW p \in Peers
        PROVE  Charged(p)' = Charged(p)
    <2>1. In(state', OfPeer(p), Charging) = In(state, OfPeer(p), Charging)
      BY <1>0, <1>8, CountChange, SMTT(60)
    <2> QED
      BY <2>1 DEF Charged, In, OfPeer
  <1>9. QED
    BY <1>1, <1>2, <1>3, <1>5, <1>7, <1>8

-----------------------------------------------------------------------------
\* PeerAccounting of the next state, from the counts alone.
LEMMA PeerAccountingPrime ==
    ASSUME PeerMapOK',
           ASSUME NEW p \in Peers
           PROVE  Count(p)' = Cardinality(Charged(p)') /\ Count(p)' <= PerPeer
    PROVE  PeerAccounting'
  BY EntriesCountPrime DEF PeerAccounting

\* A step that leaves the peer map and everybody's charge alone.
LEMMA PeersKept ==
    ASSUME TypeOK, PeerAccounting, peers' = peers,
           ASSUME NEW p \in Peers PROVE Charged(p)' = Charged(p)
    PROVE  PeerMapOK' /\ PeerAccounting'
  <1>1. PeerMapOK'
    BY DEF TypeOK, PeerMapOK
  <1>2. ASSUME NEW p \in Peers
        PROVE  Count(p)' = Cardinality(Charged(p)') /\ Count(p)' <= PerPeer
    BY DEF PeerAccounting, Count
  <1>3. QED
    BY <1>1, <1>2, PeerAccountingPrime

\* A step in which one attempt stops charging its peer.
LEMMA PeersDischarged ==
    ASSUME TypeOK, PeerAccounting, NEW c \in Conns, NEW s \in States,
           state[c] \in Charging, s \notin Charging,
           state' = [state EXCEPT ![c] = s], peers' = Discharge(PeerOf[c])
    PROVE  PeerMapOK' /\ PeerAccounting'
  <1> DEFINE p0 == PeerOf[c]
  <1>1. p0 \in Peers /\ PeerMapOK /\ state \in [Conns -> States]
    BY PeerOfType DEF TypeOK, PeerMapOK
  <1>2. Count(p0) = Cardinality(Charged(p0)) /\ Count(p0) <= PerPeer
    BY <1>1 DEF PeerAccounting
  <1>3. /\ Cardinality(Charged(p0)) \in Nat
        /\ Cardinality(Charged(p0)') = Cardinality(Charged(p0)) - 1
        /\ \A p \in Peers : p # p0 => Charged(p)' = Charged(p)
    BY <1>1, Move
  <1>4. Count(p0) # 0
    <2>1. c \in Charged(p0) /\ IsFiniteSet(Charged(p0))
      BY ConnsFinite, FS_Subset DEF Charged
    <2>2. QED
      BY <1>2, <2>1, FS_EmptySet
  <1>5. /\ PeerMapOK'
        /\ \A q \in Peers : Count(q)' = IF q = p0 THEN Count(p0) - 1 ELSE Count(q)
    BY <1>1, <1>4, DischargeCounts
  <1>6. ASSUME NEW p \in Peers
        PROVE  Count(p)' = Cardinality(Charged(p)') /\ Count(p)' <= PerPeer
    <2>1. CASE p = p0
      BY <2>1, <1>2, <1>3, <1>5, CeilingsNat, SMTT(60)
    <2>2. CASE p # p0
      BY <2>2, <1>3, <1>5 DEF PeerAccounting
    <2>3. QED
      BY <2>1, <2>2
  <1>7. QED
    BY <1>5, <1>6, PeerAccountingPrime

\* A step in which one attempt starts charging its peer, which has room.
LEMMA PeersCharged ==
    ASSUME TypeOK, PeerAccounting, NEW c \in Conns, NEW s \in States,
           state[c] \notin Charging, s \in Charging, Count(PeerOf[c]) < PerPeer,
           state' = [state EXCEPT ![c] = s], peers' = Charge(PeerOf[c])
    PROVE  PeerMapOK' /\ PeerAccounting'
  <1> DEFINE p0 == PeerOf[c]
  <1>1. p0 \in Peers /\ PeerMapOK /\ state \in [Conns -> States]
    BY PeerOfType DEF TypeOK, PeerMapOK
  <1>2. Count(p0) = Cardinality(Charged(p0)) /\ Count(p0) < PerPeer
    BY <1>1 DEF PeerAccounting
  <1>3. /\ Cardinality(Charged(p0)) \in Nat
        /\ Cardinality(Charged(p0)') = Cardinality(Charged(p0)) + 1
        /\ \A p \in Peers : p # p0 => Charged(p)' = Charged(p)
    BY <1>1, Move
  <1>5. /\ PeerMapOK'
        /\ \A q \in Peers : Count(q)' = IF q = p0 THEN Count(p0) + 1 ELSE Count(q)
    BY <1>1, ChargeCounts
  <1>6. ASSUME NEW p \in Peers
        PROVE  Count(p)' = Cardinality(Charged(p)') /\ Count(p)' <= PerPeer
    <2>1. CASE p = p0
      BY <2>1, <1>2, <1>3, <1>5, CeilingsNat, SMTT(60)
    <2>2. CASE p # p0
      BY <2>2, <1>3, <1>5 DEF PeerAccounting
    <2>3. QED
      BY <2>1, <2>2
  <1>7. QED
    BY <1>5, <1>6, PeerAccountingPrime

-----------------------------------------------------------------------------
\* The initial state satisfies the invariant: nobody holds anything.
LEMMA InitIInv == Init => IInv
  <1> SUFFICES ASSUME Init PROVE IInv
    OBVIOUS
  <1> USE DEF Init
  <1>1. TypeOK
    BY DEF TypeOK, States
  <1>2. Holders = {} /\ TurnedAway = {}
    BY DEF Holders, TurnedAway
  <1>3. Cardinality({}) = 0
    BY FS_EmptySet
  <1>4. GlobalCeiling /\ RejectionsCounted
    BY <1>2, <1>3, CeilingsNat, SMTT(60) DEF GlobalCeiling, RejectionsCounted
  <1>5. PeerAccounting
    <2>1. DOMAIN peers = {}
      OBVIOUS
    <2>2. \A p : Count(p) = 0
      BY <2>1 DEF Count
    <2>3. ASSUME NEW p \in Peers
          PROVE  Cardinality(Charged(p)) = 0
      <3>1. Charged(p) = {}
        BY DEF Charged, Charging
      <3>2. QED
        BY <3>1, <1>3
    <2>4. QED
      BY <2>1, <2>2, <2>3, CeilingsNat, SMTT(60) DEF PeerAccounting
  <1>6. Busy /\ OneLoop /\ SwapsBelowMax
    BY DEF Busy, OneLoop, SwapsBelowMax
  <1>7. QED
    BY <1>1, <1>4, <1>5, <1>6 DEF IInv

\* A step that refuses attempt c at the global ceiling or lets it go on to
\* swap, after reading `open'.
LEMMA JudgeIInv ==
    ASSUME IInv, NEW l \in Listeners, NEW c \in Conns,
           accepting[l] = c, state[c] \in {"claimed", "swapping"}, Judge(l, c, open),
           UNCHANGED <<open, peers, rejected_per_peer, accepting>>
    PROVE  IInv'
  <1> PICK s \in {"refused", "swapping"} :
        /\ state' = [state EXCEPT ![c] = s]
        /\ s = "refused" => rejected' = rejected + 1 /\ current' = current
        /\ s = "swapping" => /\ rejected' = rejected
                             /\ current' = [current EXCEPT ![l] = open]
                             /\ open < Max
    BY CeilingsNat, SMTT(60) DEF Judge, IInv, TypeOK
  <1>1. TypeOK /\ state \in [Conns -> States] /\ s \in States /\ state[c] \in Charging
        /\ s \in Charging /\ c # NoConn
    BY NoConnFresh DEF IInv, TypeOK, States, Charging
  <1>2. /\ state' \in [Conns -> States]
        /\ \A d \in Conns : state'[d] = IF d = c THEN s ELSE state[d]
        /\ Holders' = Holders
        /\ \A p \in Peers : Charged(p)' = Charged(p)
        /\ Cardinality(TurnedAway) \in Nat
        /\ s = "refused" => Cardinality(TurnedAway') = Cardinality(TurnedAway) + 1
        /\ s = "swapping" => TurnedAway' = TurnedAway
    BY <1>1, Move
  <1>3. PeerMapOK' /\ PeerAccounting'
    BY <1>1, <1>2, PeersKept DEF IInv
  <1>4. TypeOK'
    BY <1>2, <1>3, SMTT(60) DEF IInv, TypeOK, PeerMapOK
  <1>5. GlobalCeiling'
    BY <1>2 DEF IInv, GlobalCeiling
  <1>6. RejectionsCounted'
    BY <1>1, <1>2, SMTT(60) DEF IInv, TypeOK, RejectionsCounted
  <1>7. Busy' /\ OneLoop'
    BY <1>1, <1>2 DEF IInv, TypeOK, Busy, OneLoop, Admitting
  <1>8. SwapsBelowMax'
    BY <1>1, <1>2 DEF IInv, TypeOK, OneLoop, SwapsBelowMax
  <1>9. QED
    BY <1>3, <1>4, <1>5, <1>6, <1>7, <1>8 DEF IInv

\* Every step preserves the invariant.
LEMMA NextIInv == IInv /\ [Next]_vars => IInv'
  <1> SUFFICES ASSUME IInv, [Next]_vars PROVE IInv'
    OBVIOUS
  <1>0. TypeOK /\ PeerAccounting /\ state \in [Conns -> States]
    BY DEF IInv, TypeOK
  <1>1. ASSUME NEW l \in Listeners, NEW c \in Conns, RefusePeer(l, c)
        PROVE  IInv'
    <2> USE <1>1 DEF RefusePeer
    <2>1. /\ state' \in [Conns -> States]
          /\ \A d \in Conns : state'[d] = IF d = c THEN "turned_away" ELSE state[d]
          /\ Holders' = Holders
          /\ \A p \in Peers : Charged(p)' = Charged(p)
          /\ Cardinality(TurnedAway) \in Nat
          /\ Cardinality(TurnedAway') = Cardinality(TurnedAway) + 1
      BY <1>0, Move DEF States, Charging
    <2>2. PeerMapOK' /\ PeerAccounting'
      BY <1>0, <2>1, PeersKept
    <2>3. TypeOK'
      BY <2>1, <2>2, SMTT(60) DEF IInv, TypeOK, PeerMapOK
    <2>4. GlobalCeiling' /\ RejectionsCounted'
      BY <2>1, SMTT(60) DEF IInv, TypeOK, GlobalCeiling, RejectionsCounted
    <2>5. Busy' /\ OneLoop' /\ SwapsBelowMax'
      BY <2>1 DEF IInv, TypeOK, Busy, OneLoop, SwapsBelowMax, Admitting
    <2>6. QED
      BY <2>2, <2>3, <2>4, <2>5 DEF IInv
  <1>2. ASSUME NEW l \in Listeners, NEW c \in Conns, ClaimPeer(l, c)
        PROVE  IInv'
    <2> USE <1>2 DEF ClaimPeer
    <2>1. /\ state' \in [Conns -> States]
          /\ \A d \in Conns : state'[d] = IF d = c THEN "claimed" ELSE state[d]
          /\ Holders' = Holders
          /\ TurnedAway' = TurnedAway
      BY <1>0, Move DEF States
    <2>2. PeerMapOK' /\ PeerAccounting'
      BY <1>0, PeersCharged DEF States, Charging
    <2>3. TypeOK'
      BY <2>1, <2>2 DEF IInv, TypeOK, PeerMapOK
    <2>4. GlobalCeiling' /\ RejectionsCounted'
      BY <2>1 DEF IInv, GlobalCeiling, RejectionsCounted
    <2>5. Busy' /\ OneLoop' /\ SwapsBelowMax'
      BY <2>1 DEF IInv, TypeOK, Busy, OneLoop, SwapsBelowMax, Admitting
    <2>6. QED
      BY <2>2, <2>3, <2>4, <2>5 DEF IInv
  <1>3. ASSUME NEW l \in Listeners, NEW c \in Conns, Load(l, c) \/ SwapFail(l, c)
        PROVE  IInv'
    BY <1>3, JudgeIInv DEF Load, SwapFail
  <1>4. ASSUME NEW l \in Listeners, NEW c \in Conns, SwapOk(l, c)
        PROVE  IInv'
    <2> USE <1>4 DEF SwapOk
    <2>1. /\ state' \in [Conns -> States]
          /\ \A d \in Conns : state'[d] = IF d = c THEN "held" ELSE state[d]
          /\ Cardinality(Holders) \in Nat
          /\ Cardinality(Holders') = Cardinality(Holders) + 1
          /\ TurnedAway' = TurnedAway
          /\ \A p \in Peers : Charged(p)' = Charged(p)
      BY <1>0, Move DEF States, Charging
    <2>2. PeerMapOK' /\ PeerAccounting'
      BY <1>0, <2>1, PeersKept
    <2>3. TypeOK'
      BY <2>1, <2>2, SMTT(60) DEF IInv, TypeOK, PeerMapOK
    <2>4. open < Max
      BY NoConnFresh DEF IInv, SwapsBelowMax
    <2>5. GlobalCeiling'
      <3>1. open \in Nat /\ open = Cardinality(Holders) /\ open' = open + 1
        BY DEF IInv, TypeOK, GlobalCeiling
      <3>2. open' = Cardinality(Holders')
        BY <2>1, <3>1
      <3>3. open' <= Max
        BY <2>4, <3>1, CeilingsNat, SMTT(60)
      <3>4. QED
        BY <3>2, <3>3 DEF GlobalCeiling
    <2>6. RejectionsCounted'
      BY <2>1 DEF IInv, RejectionsCounted
    <2>7. Busy' /\ OneLoop' /\ SwapsBelowMax'
      BY <2>1, NoConnFresh DEF IInv, TypeOK, Busy, OneLoop, SwapsBelowMax, Admitting
    <2>8. QED
      BY <2>2, <2>3, <2>5, <2>6, <2>7 DEF IInv
  <1>5. ASSUME NEW l \in Listeners, NEW c \in Conns, GiveBack(l, c)
        PROVE  IInv'
    <2> USE <1>5 DEF GiveBack
    <2>1. /\ state' \in [Conns -> States]
          /\ \A d \in Conns : state'[d] = IF d = c THEN "turned_away" ELSE state[d]
          /\ Holders' = Holders
          /\ TurnedAway' = TurnedAway
      BY <1>0, Move DEF States
    <2>2. PeerMapOK' /\ PeerAccounting'
      BY <1>0, PeersDischarged DEF States, Charging
    <2>3. TypeOK'
      BY <2>1, <2>2 DEF IInv, TypeOK, PeerMapOK
    <2>4. GlobalCeiling' /\ RejectionsCounted'
      BY <2>1 DEF IInv, GlobalCeiling, RejectionsCounted
    <2>5. Busy' /\ OneLoop' /\ SwapsBelowMax'
      BY <2>1, NoConnFresh DEF IInv, TypeOK, Busy, OneLoop, SwapsBelowMax, Admitting
    <2>6. QED
      BY <2>2, <2>3, <2>4, <2>5 DEF IInv
  <1>6. ASSUME NEW c \in Conns, DropOpen(c)
        PROVE  IInv'
    <2> USE <1>6 DEF DropOpen
    <2>1. /\ state' \in [Conns -> States]
          /\ \A d \in Conns : state'[d] = IF d = c THEN "closing" ELSE state[d]
          /\ Cardinality(Holders) \in Nat
          /\ Cardinality(Holders') = Cardinality(Holders) - 1
          /\ TurnedAway' = TurnedAway
          /\ \A p \in Peers : Charged(p)' = Charged(p)
      BY <1>0, Move DEF States, Charging
    <2>2. PeerMapOK' /\ PeerAccounting'
      BY <1>0, <2>1, PeersKept
    <2>3. open # 0
      <3>1. c \in Holders /\ IsFiniteSet(Holders)
        BY ConnsFinite, FS_Subset DEF Holders
      <3>2. QED
        BY <3>1, FS_EmptySet DEF IInv, GlobalCeiling
    <2>4. TypeOK'
      BY <2>1, <2>2, <2>3, SMTT(60) DEF IInv, TypeOK, PeerMapOK
    <2>5. GlobalCeiling'
      BY <2>1, <2>3, CeilingsNat, SMTT(60) DEF IInv, TypeOK, GlobalCeiling
    <2>6. RejectionsCounted'
      BY <2>1 DEF IInv, RejectionsCounted
    <2>7. Busy' /\ OneLoop' /\ SwapsBelowMax'
      BY <2>1 DEF IInv, TypeOK, Busy, OneLoop, SwapsBelowMax, Admitting
    <2>8. QED
      BY <2>2, <2>4, <2>5, <2>6, <2>7 DEF IInv
  <1>7. ASSUME NEW c \in Conns, DropPeer(c)
        PROVE  IInv'
    <2> USE <1>7 DEF DropPeer
    <2>1. /\ state' \in [Conns -> States]
          /\ \A d \in Conns : state'[d] = IF d = c THEN "gone" ELSE state[d]
          /\ Holders' = Holders
          /\ TurnedAway' = TurnedAway
      BY <1>0, Move DEF States
    <2>2. PeerMapOK' /\ PeerAccounting'
      BY <1>0, PeersDischarged DEF States, Charging
    <2>3. TypeOK'
      BY <2>1, <2>2 DEF IInv, TypeOK, PeerMapOK
    <2>4. GlobalCeiling' /\ RejectionsCounted'
      BY <2>1 DEF IInv, GlobalCeiling, RejectionsCounted
    <2>5. Busy' /\ OneLoop' /\ SwapsBelowMax'
      BY <2>1 DEF IInv, TypeOK, Busy, OneLoop, SwapsBelowMax, Admitting
    <2>6. QED
      BY <2>2, <2>3, <2>4, <2>5 DEF IInv
  <1>8. CASE UNCHANGED vars
    BY <1>8 DEF vars, IInv, TypeOK, GlobalCeiling, PeerAccounting, RejectionsCounted, Busy,
                OneLoop, SwapsBelowMax, Holders, TurnedAway, Charged, Count
  <1>9. QED
    BY <1>1, <1>2, <1>3, <1>4, <1>5, <1>6, <1>7, <1>8 DEF Next, Acquire

-----------------------------------------------------------------------------
\* Reachable states satisfy the inductive invariant.
THEOREM Invariance == Spec => []IInv
  BY InitIInv, NextIInv, PTL DEF Spec

\* limits.rs: the variables keep their types; in particular no u64 counter is
\* ever decremented below zero and no peer has an entry with count zero.
THEOREM TypeCorrect == Spec => []TypeOK
  <1>1. IInv => TypeOK
    BY DEF IInv
  <1>2. QED
    BY <1>1, Invariance, PTL

\* limits.rs, acquire_global: `open' counts the permits exactly and never
\* passes the ceiling, for any ceiling and any number of loops and connections.
THEOREM GlobalCeilingHolds == Spec => []GlobalCeiling
  <1>1. IInv => GlobalCeiling
    BY DEF IInv
  <1>2. QED
    BY <1>1, Invariance, PTL

\* limits.rs, try_acquire_for and the permit's drop: the peer map counts each
\* peer's slots exactly, within the ceiling, and keeps no entry without one.
THEOREM PeerAccountingHolds == Spec => []PeerAccounting
  <1>1. IInv => PeerAccounting
    BY DEF IInv
  <1>2. QED
    BY <1>1, Invariance, PTL

\* limits.rs, the rejection counters: each attempt turned away is counted once.
THEOREM RejectionsCountedHolds == Spec => []RejectionsCounted
  <1>1. IInv => RejectionsCounted
    BY DEF IInv
  <1>2. QED
    BY <1>1, Invariance, PTL
-----------------------------------------------------------------------------
Fields == {"at", "read", "host", "addresses", "origin", "relayed"}

SessionType ==
    /\ client \in [Tls -> UNION {Clients[c] : c \in Tls}]
    /\ \A c \in Tls : client[c] \in Clients[c]
    /\ revision \in 1 .. Len(Lists)
    /\ DOMAIN session = Tls
    /\ \A c \in Tls : /\ DOMAIN session[c] = Fields
                      /\ session[c].at \in Stages
                      /\ session[c].read \in 0 .. Len(client[c].bytes)

\* clienthello.rs, MAX_CLIENT_HELLO: "Refusing to buffer more means a client cannot make us
\* hold memory by promising a record it never sends".
HelloBounded ==
    \A c \in Tls : session[c].at # "relay" => session[c].read <= MAX_CLIENT_HELLO

SessionOK ==
    \A c \in Tls :
       /\ session[c].at \in {"resolve", "connect"} => Passthrough \/ session[c].host \in EverListed
       /\ session[c].at = "connect" => \A ip \in session[c].addresses : check(ip) = "ok"

SInv == SessionType /\ HelloBounded /\ SessionOK /\ RelaysAreFaithful
-----------------------------------------------------------------------------
\* Every step of a session, and every refresh, leaves the connection limit alone.
THEOREM SniImplementsLimit == SniSpec => Spec
  <1>1. SniInit => Init
    BY DEF SniInit
  <1>2. [SniNext]_allVars => [Next]_vars
    <2> SUFFICES ASSUME [SniNext]_allVars PROVE [Next]_vars
      OBVIOUS
    <2>1. ASSUME NEW c \in Tls, Splice(c) PROVE UNCHANGED vars
      BY <2>1 DEF Splice, Read, Hangup, HelloTimeout, CheckName, Resolve, Connect, Relay,
                  RelayEnds, End, Become
    <2>2. Refresh => UNCHANGED vars
      BY DEF Refresh
    <2>3. UNCHANGED allVars => UNCHANGED vars
      BY DEF allVars
    <2> QED
      BY <2>1, <2>2, <2>3 DEF SniNext, Next
  <1> QED
    BY <1>1, <1>2, PTL DEF SniSpec, Spec

\* limits.rs, with TLS sessions holding their permits for as long as they like: both ceilings
\* hold at every instant and no slot leaks.
THEOREM SniKeepsCeilings == SniSpec => [](GlobalCeiling /\ PeerAccounting)
  <1>1. Spec => [](GlobalCeiling /\ PeerAccounting)
    BY GlobalCeilingHolds, PeerAccountingHolds, PTL
  <1> QED
    BY <1>1, SniImplementsLimit, PTL
-----------------------------------------------------------------------------
LEMMA SniInitInv == SniInit => SInv
  <1> SUFFICES ASSUME SniInit PROVE SInv
    OBVIOUS
  <1>1. \A c \in Tls : session[c] = NewSession
    BY DEF SniInit
  <1>2. \A c \in Tls : client[c] \in Clients[c] /\ client[c].bytes \in Seq(Nat)
    BY ClientsType DEF SniInit
  <1>3. DOMAIN session = Tls /\ DOMAIN NewSession = Fields
    BY DEF SniInit, NewSession, Fields
  <1>4. /\ client \in [Tls -> UNION {Clients[c] : c \in Tls}]
        /\ revision \in 1 .. Len(Lists)
    BY ListsType, SMTT(60) DEF SniInit
  <1>5. NewSession.at \in Stages /\ NewSession.read = 0
    BY DEF NewSession, Stages
  <1>6. SessionType
    BY <1>1, <1>2, <1>3, <1>4, <1>5, SMTT(60) DEF SessionType
  <1>7. HelloBounded
    BY <1>1, MaxHelloNat, SMTT(60) DEF HelloBounded, NewSession
  <1>8. SessionOK /\ RelaysAreFaithful
    BY <1>1, SMTT(60) DEF SessionOK, RelaysAreFaithful, NewSession
  <1> QED
    BY <1>6, <1>7, <1>8 DEF SInv

\* A step of the session of c that leaves it at r keeps the invariant, if r does.
LEMMA BecomeInv ==
    ASSUME SInv, NEW c \in Tls, NEW r, Become(c, r),
           DOMAIN r = Fields, r.at \in Stages, r.read \in 0 .. Len(client[c].bytes),
           r.at # "relay" => r.read <= MAX_CLIENT_HELLO,
           r.at \in {"resolve", "connect", "relay"} => Passthrough \/ r.host \in EverListed,
           r.at = "connect" => \A ip \in r.addresses : check(ip) = "ok",
           r.at = "relay" => /\ r.relayed = Heard(c, r.read)
                             /\ \A ip \in r.origin : check(ip) = "ok"
    PROVE  SInv'
  <1>1. /\ DOMAIN session' = Tls
        /\ \A d \in Tls : session'[d] = IF d = c THEN r ELSE session[d]
        /\ client' = client /\ revision' = revision
    BY DEF Become, SInv, SessionType
  <1>2. \A d, n : Heard(d, n)' = Heard(d, n)
    BY <1>1 DEF Heard
  <1>3. EverListed' = EverListed
    BY <1>1 DEF EverListed
  <1>4. SessionType'
    BY <1>1 DEF SInv, SessionType
  <1>5. HelloBounded'
    BY <1>1 DEF SInv, HelloBounded
  <1>6. SessionOK'
    BY <1>1, <1>3 DEF SInv, SessionOK
  <1>7. RelaysAreFaithful'
    BY <1>1, <1>2, <1>3 DEF SInv, RelaysAreFaithful, SessionType
  <1> QED
    BY <1>4, <1>5, <1>6, <1>7 DEF SInv

LEMMA EndInv == ASSUME SInv, NEW c \in Tls, End(c) PROVE SInv'
  <1> DEFINE r == [NewSession EXCEPT !.at = "ended"]
  <1>1. client[c].bytes \in Seq(Nat)
    BY ClientsType DEF SInv, SessionType
  <1>2. DOMAIN r = Fields /\ r.at = "ended" /\ r.read = 0
    BY DEF NewSession, Fields
  <1>3. "ended" \in Stages
    BY DEF Stages, Over
  <1> HIDE DEF r
  <1>4. Become(c, r)
    BY DEF End, r
  <1> QED
    BY <1>1, <1>2, <1>3, <1>4, BecomeInv, MaxHelloNat, SMTT(60)

\* The session of c is well-typed, and its fields can be read off an EXCEPT.
LEMMA SessionFacts ==
    ASSUME SInv, NEW c \in Tls
    PROVE  /\ DOMAIN session[c] = Fields
           /\ session[c].read \in Nat /\ session[c].read <= Len(client[c].bytes)
           /\ client[c].bytes \in Seq(Nat) /\ Len(client[c].bytes) \in Nat
  BY ClientsType, SMTT(60) DEF SInv, SessionType

LEMMA ReadInv == ASSUME SInv, NEW c \in Tls, Read(c) PROVE SInv'
  <1>1. PICK n \in Reads :
          LET sent == Len(client[c].bytes)
              read == IF session[c].read + n < sent THEN session[c].read + n ELSE sent
              buffer == Heard(c, read)
              name == server_name(buffer)
          IN IF ~looks_like_tls(buffer) \/ read > MAX_CLIENT_HELLO THEN End(c)
             ELSE IF ~HelloDone(buffer) THEN Become(c, [session[c] EXCEPT !.read = read])
             ELSE IF name = NoName THEN Become(c, [NewSession EXCEPT !.at = "nameless"])
             ELSE Become(c, [session[c] EXCEPT !.read = read, !.host = name, !.at = "named"])
    BY DEF Read
  <1> DEFINE sent == Len(client[c].bytes)
             read == IF session[c].read + n < sent THEN session[c].read + n ELSE sent
             name == server_name(Heard(c, read))
             more == [session[c] EXCEPT !.read = read]
             nameless == [NewSession EXCEPT !.at = "nameless"]
             named == [session[c] EXCEPT !.read = read, !.host = name, !.at = "named"]
  <1>2. \/ End(c)
        \/ read <= MAX_CLIENT_HELLO /\ (Become(c, more) \/ Become(c, nameless) \/ Become(c, named))
    <2>1. read \in Nat
      BY SessionFacts, ListsType, SMTT(60)
    <2> HIDE DEF read
    <2> QED
      BY <1>1, <2>1, MaxHelloNat, SMTT(60) DEF read
  <1>3. read \in 0 .. Len(client[c].bytes)
    BY SessionFacts, ListsType, SMTT(60)
  <1>4. At(c, "hello")
    BY DEF Read
  <1> HIDE DEF read
  <1>5. ASSUME read <= MAX_CLIENT_HELLO, Become(c, more) PROVE SInv'
    <2>1. DOMAIN more = Fields /\ more.at = "hello" /\ more.read = read
      BY <1>4, SessionFacts DEF At, Fields
    <2>2. more.at \in Stages
      BY <2>1 DEF Stages
    <2> HIDE DEF more
    <2> QED
      BY <1>3, <1>5, <2>1, <2>2, BecomeInv
  <1>6. ASSUME Become(c, nameless) PROVE SInv'
    <2>1. DOMAIN nameless = Fields /\ nameless.at = "nameless" /\ nameless.read = 0
      BY DEF NewSession, Fields
    <2>2. nameless.at \in Stages
      BY <2>1 DEF Stages, Over
    <2> HIDE DEF nameless
    <2> QED
      BY <1>6, <2>1, <2>2, BecomeInv, SessionFacts, MaxHelloNat, SMTT(60)
  <1>7. ASSUME read <= MAX_CLIENT_HELLO, Become(c, named) PROVE SInv'
    <2>1. DOMAIN named = Fields /\ named.at = "named" /\ named.read = read
      BY SessionFacts DEF Fields
    <2>2. named.at \in Stages
      BY <2>1 DEF Stages
    <2> HIDE DEF named
    <2> QED
      BY <1>3, <1>7, <2>1, <2>2, BecomeInv
  <1> QED
    BY <1>2, <1>5, <1>6, <1>7, EndInv

LEMMA CheckNameInv == ASSUME SInv, NEW c \in Tls, CheckName(c) PROVE SInv'
  <1> DEFINE r == [session[c] EXCEPT !.at = "resolve"]
  <1>1. DOMAIN r = Fields /\ r.at = "resolve" /\ r.read = session[c].read /\ r.host = session[c].host
    BY SessionFacts DEF Fields
  <1>2. r.at \in Stages /\ session[c].read <= MAX_CLIENT_HELLO
    BY <1>1 DEF Stages, CheckName, At, SInv, HelloBounded
  <1>3. session[c].host \in Lists[revision] => session[c].host \in EverListed
    BY SMTT(60) DEF EverListed, SInv, SessionType
  <1> HIDE DEF r
  <1>4. End(c) \/ (Become(c, r) /\ (Passthrough \/ session[c].host \in Lists[revision]))
    BY DEF CheckName, r
  <1> QED
    BY <1>1, <1>2, <1>3, <1>4, EndInv, BecomeInv, SessionFacts, SMTT(60)

LEMMA ResolveInv == ASSUME SInv, NEW c \in Tls, Resolve(c) PROVE SInv'
  <1>1. ASSUME NEW ips \in Answers,
               Become(c, [session[c] EXCEPT !.at = "connect", !.addresses = Allowed(ips)])
        PROVE  SInv'
    <2> DEFINE r == [session[c] EXCEPT !.at = "connect", !.addresses = Allowed(ips)]
    <2>1. /\ DOMAIN r = Fields /\ r.at = "connect" /\ r.read = session[c].read
          /\ r.host = session[c].host /\ r.addresses = Allowed(ips)
      BY SessionFacts DEF Fields
    <2>2. \A ip \in r.addresses : check(ip) = "ok"
      BY <2>1 DEF Allowed
    <2>3. /\ r.at \in Stages /\ session[c].read <= MAX_CLIENT_HELLO
          /\ Passthrough \/ r.host \in EverListed
      BY <2>1 DEF Stages, Resolve, At, SInv, HelloBounded, SessionOK
    <2> HIDE DEF r
    <2>4. Become(c, r)
      BY <1>1 DEF r
    <2> QED
      BY <2>1, <2>2, <2>3, <2>4, BecomeInv, SessionFacts, SMTT(60)
  <1> QED
    BY <1>1, EndInv DEF Resolve

LEMMA ConnectInv == ASSUME SInv, NEW c \in Tls, Connect(c) PROVE SInv'
  <1>1. /\ session[c].at = "connect" /\ session[c].read <= MAX_CLIENT_HELLO
        /\ Passthrough \/ session[c].host \in EverListed
        /\ \A ip \in session[c].addresses : check(ip) = "ok"
    BY DEF Connect, At, SInv, HelloBounded, SessionOK
  <1>2. ASSUME NEW ip \in session[c].addresses,
               Become(c, [session[c] EXCEPT !.at = "relay", !.origin = {ip},
                                            !.relayed = Heard(c, session[c].read)])
        PROVE  SInv'
    <2> DEFINE r == [session[c] EXCEPT !.at = "relay", !.origin = {ip},
                                       !.relayed = Heard(c, session[c].read)]
    <2>1. /\ DOMAIN r = Fields /\ r.at = "relay" /\ r.read = session[c].read
          /\ r.host = session[c].host /\ r.origin = {ip}
          /\ r.relayed = Heard(c, session[c].read)
      BY SessionFacts DEF Fields
    <2>2. r.at \in Stages
      BY <2>1 DEF Stages
    <2> HIDE DEF r
    <2>3. Become(c, r)
      BY <1>2 DEF r
    <2> QED
      BY <1>1, <2>1, <2>2, <2>3, BecomeInv, SessionFacts, SMTT(60)
  <1>3. ASSUME NEW ip \in session[c].addresses,
               Become(c, [session[c] EXCEPT !.addresses = @ \ {ip}])
        PROVE  SInv'
    <2> DEFINE r == [session[c] EXCEPT !.addresses = @ \ {ip}]
    <2>1. /\ DOMAIN r = Fields /\ r.at = "connect" /\ r.read = session[c].read
          /\ r.host = session[c].host /\ r.addresses = session[c].addresses \ {ip}
      BY <1>1, SessionFacts DEF Fields
    <2>2. r.at \in Stages
      BY <2>1 DEF Stages
    <2> HIDE DEF r
    <2>3. Become(c, r)
      BY <1>3 DEF r
    <2> QED
      BY <1>1, <2>1, <2>2, <2>3, BecomeInv, SessionFacts, SMTT(60)
  <1> QED
    BY <1>2, <1>3, EndInv DEF Connect

LEMMA OneMore ==
    ASSUME NEW s \in Seq(Nat), NEW n \in 1 .. Len(s)
    PROVE  Append(SubSeq(s, 1, n - 1), s[n]) = SubSeq(s, 1, n)
  BY SMTT(60)

\* What has been copied to the origin grows by the byte that was read.
LEMMA RelayInv == ASSUME SInv, NEW c \in Tls, Relay(c) PROVE SInv'
  <1> DEFINE bytes == client[c].bytes
             read == session[c].read + 1
             r == [session[c] EXCEPT !.read = read, !.relayed = Append(@, bytes[read])]
  <1>1. /\ session[c].at = "relay" /\ session[c].relayed = Heard(c, session[c].read)
        /\ Passthrough \/ session[c].host \in EverListed
        /\ \A ip \in session[c].origin : check(ip) = "ok"
    BY DEF Relay, At, SInv, RelaysAreFaithful
  <1>2. read \in 1 .. Len(bytes) /\ bytes \in Seq(Nat)
    BY SessionFacts, SMTT(60) DEF Relay
  <1>3. Append(Heard(c, session[c].read), bytes[read]) = Heard(c, read)
    <2>1. read - 1 = session[c].read
      BY SessionFacts, SMTT(60)
    <2> HIDE DEF bytes, read
    <2> QED
      BY <1>2, <2>1, OneMore DEF Heard, bytes
  <1>4. /\ DOMAIN r = Fields /\ r.at = "relay" /\ r.read = read /\ r.host = session[c].host
        /\ r.origin = session[c].origin
        /\ r.relayed = Append(session[c].relayed, bytes[read])
    BY <1>1, SessionFacts DEF Fields
  <1>5. r.at \in Stages
    BY <1>4 DEF Stages
  <1>6. Become(c, r)
    BY DEF Relay
  <1> HIDE DEF r
  <1> QED
    BY <1>1, <1>2, <1>3, <1>4, <1>5, <1>6, BecomeInv, SMTT(60)

LEMMA SniNextInv == SInv /\ [SniNext]_allVars => SInv'
  <1> SUFFICES ASSUME SInv, [SniNext]_allVars PROVE SInv'
    OBVIOUS
  <1>1. ASSUME NEW c \in Tls, Splice(c) PROVE SInv'
    BY <1>1, ReadInv, CheckNameInv, ResolveInv, ConnectInv, RelayInv, EndInv
    DEF Splice, Hangup, HelloTimeout, RelayEnds
  <1>2. ASSUME UNCHANGED <<session, client>>, revision' \in revision .. Len(Lists) PROVE SInv'
    <2>1. EverListed \subseteq EverListed'
      BY <1>2, ListsType, SMTT(60) DEF EverListed, SInv, SessionType
    <2>2. SessionType' /\ HelloBounded' /\ SessionOK'
      BY <1>2, <2>1, ListsType, SMTT(60) DEF SInv, SessionType, HelloBounded, SessionOK
    <2>3. RelaysAreFaithful'
      BY <1>2, <2>1 DEF SInv, RelaysAreFaithful, Heard
    <2> QED
      BY <2>2, <2>3 DEF SInv
  <1>3. Refresh => UNCHANGED <<session, client>> /\ revision' \in revision .. Len(Lists)
    BY ListsType, SMTT(60) DEF Refresh, SInv, SessionType
  <1>4. UNCHANGED sniVars => UNCHANGED <<session, client>> /\ revision' \in revision .. Len(Lists)
    BY ListsType, SMTT(60) DEF sniVars, SInv, SessionType
  <1>5. UNCHANGED allVars => UNCHANGED sniVars
    BY DEF allVars
  <1> QED
    BY <1>1, <1>2, <1>3, <1>4, <1>5 DEF SniNext

\* The invariant of the sessions: what each stage of splice hands to the next.
THEOREM SessionInvariance == SniSpec => []SInv
  BY SniInitInv, SniNextInv, PTL DEF SniSpec

\* sni/proxy.rs: an origin gets exactly the bytes its client sent, from the first one on, and
\* only for a name that was listed and at an address the guard lets through.
THEOREM RelaysAreFaithfulHolds == SniSpec => []RelaysAreFaithful
  <1>1. SInv => RelaysAreFaithful
    BY DEF SInv
  <1> QED
    BY <1>1, SessionInvariance, PTL

\* clienthello.rs: no more than MAX_CLIENT_HELLO is ever held of a client that is not relayed.
THEOREM HelloBoundedHolds == SniSpec => []HelloBounded
  <1>1. SInv => HelloBounded
    BY DEF SInv
  <1> QED
    BY <1>1, SessionInvariance, PTL
-----------------------------------------------------------------------------
\* HelloDone: once a prefix of what the client sends holds its whole record, the handshake
\* message is the same as in all of it, however much more there is.
LEMMA WholeRecord ==
    ASSUME NEW s \in Seq(Nat), NEW n \in 0 .. Len(s), HelloDone(SubSeq(s, 1, n))
    PROVE  HelloDone(s) /\ server_name(SubSeq(s, 1, n)) = server_name(s)
  <1> DEFINE b == SubSeq(s, 1, n)
             m == record_length(s)
  <1>1. b \in Seq(Nat) /\ Len(b) = n /\ \A i \in 1 .. n : b[i] = s[i]
    BY SMTT(60)
  <1>2. HelloDone(b)
    OBVIOUS
  <1> HIDE DEF b
  <1>3. 3 <= n /\ record_length(b) = m /\ m <= n /\ m \in Nat /\ 3 <= m /\ b[1] = s[1]
    <2>1. 3 <= n /\ record_length(b) <= n
      BY <1>1, <1>2 DEF HelloDone, HeaderLen
    <2>2. b[1] = s[1] /\ b[3] = s[3] /\ s[3] \in Nat
      BY <1>1, <2>1, SMTT(60)
    <2> QED
      BY <2>1, <2>2, SMTT(60) DEF record_length, HeaderLen
  <1>4. Len(s) \in Nat /\ n <= Len(s)
    BY SMTT(60)
  <1> HIDE DEF m
  <1>5. HelloDone(s)
    BY <1>3, <1>4, SMTT(60) DEF HelloDone, HeaderLen, m
  <1>6. SubSeq(b, 4, m) = SubSeq(s, 4, m)
    BY <1>1, <1>3, <1>4, SMTT(60)
  <1>7. /\ (IF m < Len(b) THEN m ELSE Len(b)) = m
        /\ (IF m < Len(s) THEN m ELSE Len(s)) = m
        /\ ~(Len(b) < 3) /\ ~(Len(s) < 3) /\ 3 + 1 = 4
    BY <1>1, <1>3, <1>4, SMTT(60)
  <1>8. Handshake(b) = Handshake(s)
    BY <1>3, <1>6, <1>7 DEF Handshake, HeaderLen, m
  <1> QED
    BY <1>5, <1>8 DEF server_name, b

\* What splice acts on is what all of the client's bytes say.
NameOfWhole ==
    \A c \in Tls :
       /\ session[c].at = "nameless" =>
             HelloDone(client[c].bytes) /\ server_name(client[c].bytes) = NoName
       /\ session[c].host # NoName =>
             HelloDone(client[c].bytes) /\ session[c].host = server_name(client[c].bytes)

\* A step that leaves the name as it was, or forgets it.
LEMMA NameKept ==
    ASSUME SInv, NameOfWhole, NEW c \in Tls, NEW r, Become(c, r),
           r.at # "nameless", r.host \in {session[c].host, NoName}
    PROVE  NameOfWhole'
  <1>1. /\ \A d \in Tls : session'[d] = IF d = c THEN r ELSE session[d]
        /\ client' = client
    BY DEF Become, SInv, SessionType
  <1> QED
    BY <1>1 DEF NameOfWhole

LEMMA EndKeepsName == ASSUME SInv, NameOfWhole, NEW c \in Tls, End(c) PROVE NameOfWhole'
  <1> DEFINE r == [NewSession EXCEPT !.at = "ended"]
  <1>1. r.at = "ended" /\ r.host = NoName
    BY DEF NewSession
  <1>2. Become(c, r)
    BY DEF End
  <1> HIDE DEF r
  <1> QED
    BY <1>1, <1>2, NameKept

\* splice, the loop: the name is looked for once the record is complete, and not before.
LEMMA ReadFindsName == ASSUME SInv, NameOfWhole, NEW c \in Tls, Read(c) PROVE NameOfWhole'
  <1>1. PICK n \in Reads :
          LET sent == Len(client[c].bytes)
              read == IF session[c].read + n < sent THEN session[c].read + n ELSE sent
              buffer == Heard(c, read)
              name == server_name(buffer)
          IN IF ~looks_like_tls(buffer) \/ read > MAX_CLIENT_HELLO THEN End(c)
             ELSE IF ~HelloDone(buffer) THEN Become(c, [session[c] EXCEPT !.read = read])
             ELSE IF name = NoName THEN Become(c, [NewSession EXCEPT !.at = "nameless"])
             ELSE Become(c, [session[c] EXCEPT !.read = read, !.host = name, !.at = "named"])
    BY DEF Read
  <1> DEFINE sent == Len(client[c].bytes)
             read == IF session[c].read + n < sent THEN session[c].read + n ELSE sent
             buffer == Heard(c, read)
             more == [session[c] EXCEPT !.read = read]
             nameless == [NewSession EXCEPT !.at = "nameless"]
             named == [session[c] EXCEPT !.read = read, !.host = server_name(buffer), !.at = "named"]
  <1>2. read \in 0 .. Len(client[c].bytes) /\ client[c].bytes \in Seq(Nat)
    BY SessionFacts, ListsType, SMTT(60)
  <1>3. At(c, "hello")
    BY DEF Read
  <1> HIDE DEF read
  <1>4. HelloDone(buffer) => HelloDone(client[c].bytes) /\ server_name(buffer) = server_name(client[c].bytes)
    BY <1>2, WholeRecord DEF Heard
  <1>5. \/ End(c) \/ Become(c, more)
        \/ HelloDone(buffer) /\ server_name(buffer) = NoName /\ Become(c, nameless)
        \/ HelloDone(buffer) /\ Become(c, named)
    BY <1>1 DEF read
  <1>6. /\ more.at = "hello" /\ more.host = session[c].host
        /\ nameless.at = "nameless" /\ nameless.host = NoName
        /\ named.at = "named" /\ named.host = server_name(buffer)
    BY <1>3, SessionFacts DEF At, Fields, NewSession
  <1> HIDE DEF more, nameless, named, buffer
  <1>7. ASSUME NEW r, Become(c, r), HelloDone(buffer),
               \/ r.at = "nameless" /\ r.host = NoName /\ server_name(buffer) = NoName
               \/ r.at = "named" /\ r.host = server_name(buffer)
        PROVE  NameOfWhole'
    <2>1. /\ \A d \in Tls : session'[d] = IF d = c THEN r ELSE session[d]
          /\ client' = client
      BY <1>7 DEF Become, SInv, SessionType
    <2> QED
      BY <1>4, <1>7, <2>1 DEF NameOfWhole
  <1> QED
    BY <1>5, <1>6, <1>7, NameKept, EndKeepsName

LEMMA SniNextName == SInv /\ NameOfWhole /\ [SniNext]_allVars => NameOfWhole'
  <1> SUFFICES ASSUME SInv, NameOfWhole, [SniNext]_allVars PROVE NameOfWhole'
    OBVIOUS
  <1>1. ASSUME NEW c \in Tls, Splice(c) PROVE NameOfWhole'
    <2>1. CASE CheckName(c)
      <3> DEFINE r == [session[c] EXCEPT !.at = "resolve"]
      <3>1. r.at = "resolve" /\ r.host = session[c].host
        BY SessionFacts DEF Fields
      <3>2. End(c) \/ Become(c, r)
        BY <2>1 DEF CheckName
      <3> HIDE DEF r
      <3> QED
        BY <3>1, <3>2, NameKept, EndKeepsName
    <2>2. CASE Resolve(c)
      <3>1. ASSUME NEW ips, Become(c, [session[c] EXCEPT !.at = "connect", !.addresses = Allowed(ips)])
            PROVE  NameOfWhole'
        <4> DEFINE r == [session[c] EXCEPT !.at = "connect", !.addresses = Allowed(ips)]
        <4>1. r.at = "connect" /\ r.host = session[c].host /\ Become(c, r)
          BY <3>1, SessionFacts DEF Fields
        <4> HIDE DEF r
        <4> QED
          BY <4>1, NameKept
      <3> QED
        BY <2>2, <3>1, EndKeepsName DEF Resolve
    <2>3. CASE Connect(c)
      <3>1. ASSUME NEW ip,
                   Become(c, [session[c] EXCEPT !.at = "relay", !.origin = {ip},
                                                !.relayed = Heard(c, session[c].read)])
            PROVE  NameOfWhole'
        <4> DEFINE r == [session[c] EXCEPT !.at = "relay", !.origin = {ip},
                                           !.relayed = Heard(c, session[c].read)]
        <4>1. r.at = "relay" /\ r.host = session[c].host /\ Become(c, r)
          BY <3>1, SessionFacts DEF Fields
        <4> HIDE DEF r
        <4> QED
          BY <4>1, NameKept
      <3>2. ASSUME NEW ip, Become(c, [session[c] EXCEPT !.addresses = @ \ {ip}])
            PROVE  NameOfWhole'
        <4> DEFINE r == [session[c] EXCEPT !.addresses = @ \ {ip}]
        <4>1. r.at = "connect" /\ r.host = session[c].host /\ Become(c, r)
          BY <2>3, <3>2, SessionFacts DEF Fields, Connect, At
        <4> HIDE DEF r
        <4> QED
          BY <4>1, NameKept
      <3> QED
        BY <2>3, <3>1, <3>2, EndKeepsName DEF Connect
    <2>4. CASE Relay(c)
      <3> DEFINE read == session[c].read + 1
                 r == [session[c] EXCEPT !.read = read, !.relayed = Append(@, client[c].bytes[read])]
      <3>1. r.at = "relay" /\ r.host = session[c].host /\ Become(c, r)
        BY <2>4, SessionFacts DEF Fields, Relay, At
      <3> HIDE DEF r
      <3> QED
        BY <3>1, NameKept
    <2> QED
      BY <1>1, <2>1, <2>2, <2>3, <2>4, ReadFindsName, EndKeepsName
      DEF Splice, Hangup, HelloTimeout, RelayEnds
  <1>2. ASSUME UNCHANGED <<session, client>> PROVE NameOfWhole'
    BY <1>2 DEF NameOfWhole
  <1> QED
    BY <1>1, <1>2 DEF SniNext, Refresh, sniVars, allVars

\* sni/proxy.rs, the read loop: for any client, any fragments and anything sent beyond the hello,
\* the name splice acts on is the one the parser finds in everything the client sends, and a
\* client is turned away as nameless only if the parser finds none there.
THEOREM FragmentsDoNotMatter == SniSpec => []NameOfWhole
  <1>1. SniInit => NameOfWhole
    <2>1. SniInit => \A c \in Tls : session[c] = NewSession
      BY DEF SniInit
    <2>2. NewSession.at = "hello" /\ NewSession.host = NoName
      BY DEF NewSession
    <2> QED
      BY <2>1, <2>2 DEF NameOfWhole
  <1> QED
    BY <1>1, SniNextName, SessionInvariance, PTL DEF SniSpec

\* With a parser that reads a whole hello right, which the model checker evaluates for the
\* clients of its instance, no way of cutting a hello into fragments hides or changes its name.
THEOREM NameSurvivesFragmentsHolds == ASSUME HellosParse PROVE SniSpec => []NameSurvivesFragments
  <1>1. SInv /\ NameOfWhole => NameSurvivesFragments
    <2> SUFFICES ASSUME SInv, NameOfWhole PROVE NameSurvivesFragments
      OBVIOUS
    <2>1. \A c \in Tls : HelloDone(client[c].bytes) => server_name(client[c].bytes) = client[c].name
      BY DEF HellosParse, SInv, SessionType
    <2> QED
      BY <2>1 DEF NameOfWhole, NameSurvivesFragments
  <1> QED
    BY <1>1, FragmentsDoNotMatter, SessionInvariance, PTL
=============================================================================
