-------------------------- MODULE ConnectionLimit --------------------------
(***************************************************************************)
(* The connection ceilings of proxy/limits.rs, shared by the two accept    *)
(* loops (plain HTTP in proxy/server.rs, TLS pass-through in               *)
(* sni/proxy.rs).  Each loop takes one connection at a time through        *)
(* try_acquire_for; every connection task drops its permit when it ends,   *)
(* whatever the loops are doing.  The mutex over the peer map makes each   *)
(* critical section one step; the atomic `open' is read and compared and   *)
(* swapped in separate steps.                                              *)
(*                                                                         *)
(* A member of Conns is one connection attempt: it arrives once, is        *)
(* admitted or turned away, and closes once.                               *)
(***************************************************************************)
EXTENDS Integers, FiniteSets

CONSTANTS
    Listeners,   \* the accept loops
    Conns,       \* connection attempts
    Peers,       \* source addresses
    PeerOf,      \* the source address of each attempt
    Max,         \* the global ceiling
    PerPeer,     \* the ceiling of one source address
    NoConn       \* an accept loop that is not admitting anything

ASSUME ConnsFinite == IsFiniteSet(Conns)
ASSUME PeerOfType == PeerOf \in [Conns -> Peers]
ASSUME CeilingsNat == Max \in Nat /\ PerPeer \in Nat
ASSUME NoConnFresh == NoConn \notin Conns

VARIABLES
    open,               \* ConnectionLimit::open
    peers,              \* ConnectionLimit::peers, a map with entries only for some peers
    rejected,           \* ConnectionLimit::rejected
    rejected_per_peer,  \* ConnectionLimit::rejected_per_peer
    accepting,          \* the attempt each accept loop is admitting
    current,            \* acquire_global's local copy of open, per accept loop
    state               \* where each attempt is

vars == <<open, peers, rejected, rejected_per_peer, accepting, current, state>>

States == {"absent", "claimed", "swapping", "refused", "held", "closing",
           "gone", "turned_away"}

\* The attempts that hold a slot of their peer's count.
Charging == {"claimed", "swapping", "refused", "held", "closing"}

Charged(p) == {c \in Conns : PeerOf[c] = p /\ state[c] \in Charging}
Holders == {c \in Conns : state[c] = "held"}
TurnedAway == {c \in Conns : state[c] \in {"refused", "turned_away"}}

Init ==
    /\ open = 0
    /\ peers = [p \in {} |-> 0]
    /\ rejected = 0
    /\ rejected_per_peer = 0
    /\ accepting = [l \in Listeners |-> NoConn]
    /\ current = [l \in Listeners |-> 0]
    /\ state = [c \in Conns |-> "absent"]

Count(p) == IF p \in DOMAIN peers THEN peers[p] ELSE 0

\* The peer map with one more connection of p.
Charge(p) ==
    [q \in DOMAIN peers \cup {p} |-> IF q = p THEN Count(p) + 1 ELSE peers[q]]

\* The peer map with one connection of p fewer, its entry gone at zero.
Discharge(p) ==
    [q \in {r \in DOMAIN peers : r = p => peers[p] - 1 # 0} |->
        IF q = p THEN peers[p] - 1 ELSE peers[q]]

-----------------------------------------------------------------------------
\* The first critical section of try_acquire_for: the peer is at its ceiling,
\* so the attempt ends here and the global count is not touched.
RefusePeer(l, c) ==
    /\ accepting[l] = NoConn
    /\ state[c] = "absent"
    /\ Count(PeerOf[c]) >= PerPeer
    /\ rejected' = rejected + 1
    /\ rejected_per_peer' = rejected_per_peer + 1
    /\ state' = [state EXCEPT ![c] = "turned_away"]
    /\ UNCHANGED <<open, peers, accepting, current>>

\* The same critical section when the peer has room: its slot is claimed first.
ClaimPeer(l, c) ==
    /\ accepting[l] = NoConn
    /\ state[c] = "absent"
    /\ Count(PeerOf[c]) < PerPeer
    /\ peers' = Charge(PeerOf[c])
    /\ accepting' = [accepting EXCEPT ![l] = c]
    /\ state' = [state EXCEPT ![c] = "claimed"]
    /\ UNCHANGED <<open, rejected, rejected_per_peer, current>>

\* What acquire_global does with a value of `open' it has just read: refuse
\* at the ceiling, otherwise go on to swap.
Judge(l, c, seen) ==
    IF seen >= Max
    THEN /\ rejected' = rejected + 1
         /\ state' = [state EXCEPT ![c] = "refused"]
         /\ UNCHANGED current
    ELSE /\ current' = [current EXCEPT ![l] = seen]
         /\ state' = [state EXCEPT ![c] = "swapping"]
         /\ UNCHANGED rejected

\* acquire_global: the first load.
Load(l, c) ==
    /\ accepting[l] = c
    /\ state[c] = "claimed"
    /\ Judge(l, c, open)
    /\ UNCHANGED <<open, peers, rejected_per_peer, accepting>>

\* Mutant of SwapOk: add without comparing.
SwapOk_Blind(l, c) ==
    /\ accepting[l] = c
    /\ state[c] = "swapping"
    /\ open' = open + 1
    /\ accepting' = [accepting EXCEPT ![l] = NoConn]
    /\ state' = [state EXCEPT ![c] = "held"]
    /\ UNCHANGED <<peers, rejected, rejected_per_peer, current>>

\* The compare-and-swap finds the value it expects: the permit exists, and the
\* accept loop hands it to the connection's task.
SwapOk(l, c) ==
    /\ accepting[l] = c
    /\ state[c] = "swapping"
    /\ open = current[l]
    /\ open' = open + 1
    /\ accepting' = [accepting EXCEPT ![l] = NoConn]
    /\ state' = [state EXCEPT ![c] = "held"]
    /\ UNCHANGED <<peers, rejected, rejected_per_peer, current>>

\* Mutant of SwapFail: the actual value is not taken over.
SwapFail_Stale(l, c) ==
    /\ accepting[l] = c
    /\ state[c] = "swapping"
    /\ open # current[l]
    /\ UNCHANGED vars

\* The compare-and-swap fails and returns the actual value, which is judged
\* again.  (A spurious failure of the weak form returns the expected value and
\* changes nothing: a stuttering step.)
SwapFail(l, c) ==
    /\ accepting[l] = c
    /\ state[c] = "swapping"
    /\ open # current[l]
    /\ Judge(l, c, open)
    /\ UNCHANGED <<open, peers, rejected_per_peer, accepting>>

\* Mutant of GiveBack: the peer's slot is kept.
GiveBack_Forgets(l, c) ==
    /\ accepting[l] = c
    /\ state[c] = "refused"
    /\ accepting' = [accepting EXCEPT ![l] = NoConn]
    /\ state' = [state EXCEPT ![c] = "turned_away"]
    /\ UNCHANGED <<open, peers, rejected, rejected_per_peer, current>>

\* try_acquire_for after a global refusal: the peer's slot is given back.
GiveBack(l, c) ==
    /\ accepting[l] = c
    /\ state[c] = "refused"
    /\ peers' = Discharge(PeerOf[c])
    /\ accepting' = [accepting EXCEPT ![l] = NoConn]
    /\ state' = [state EXCEPT ![c] = "turned_away"]
    /\ UNCHANGED <<open, rejected, rejected_per_peer, current>>

\* Mutant of DropOpen: the permit can be dropped again.
DropOpen_Twice(c) ==
    /\ state[c] = "held"
    /\ open' = open - 1
    /\ UNCHANGED <<state, peers, rejected, rejected_per_peer, accepting, current>>

\* ConnectionPermit::drop, first statement: the global slot is free at once.
DropOpen(c) ==
    /\ state[c] = "held"
    /\ open' = open - 1
    /\ state' = [state EXCEPT ![c] = "closing"]
    /\ UNCHANGED <<peers, rejected, rejected_per_peer, accepting, current>>

\* ConnectionPermit::drop, the critical section: the peer's slot follows.
DropPeer(c) ==
    /\ state[c] = "closing"
    /\ peers' = Discharge(PeerOf[c])
    /\ state' = [state EXCEPT ![c] = "gone"]
    /\ UNCHANGED <<open, rejected, rejected_per_peer, accepting, current>>

Acquire(l, c) ==
    \/ RefusePeer(l, c)
    \/ ClaimPeer(l, c)
    \/ Load(l, c)
    \/ SwapOk(l, c)
    \/ SwapFail(l, c)
    \/ GiveBack(l, c)

Next ==
    \/ \E l \in Listeners, c \in Conns : Acquire(l, c)
    \/ \E c \in Conns : DropOpen(c)
    \/ \E c \in Conns : DropPeer(c)

Spec == Init /\ [][Next]_vars

\* The accept loop's task is scheduled, and so is a task that is dropping its
\* permit; nothing says when a client connects or disconnects.
Fairness ==
    /\ \A l \in Listeners, c \in Conns :
          WF_vars(Load(l, c) \/ SwapOk(l, c) \/ SwapFail(l, c) \/ GiveBack(l, c))
    /\ \A c \in Conns : WF_vars(DropPeer(c))

FairSpec == Spec /\ Fairness

-----------------------------------------------------------------------------
\* The counters are u64: none of them may go below zero.  A peer has an entry
\* in the map only with a positive count.
TypeOK ==
    /\ open \in Nat
    /\ DOMAIN peers \subseteq Peers
    /\ \A p \in DOMAIN peers : peers[p] \in Nat \ {0}
    /\ rejected \in Nat
    /\ rejected_per_peer \in Nat
    /\ accepting \in [Listeners -> Conns \cup {NoConn}]
    /\ current \in [Listeners -> Nat]
    /\ state \in [Conns -> States]

\* limits.rs, acquire_global: however the two accept loops and the dropping
\* tasks interleave, `open' is exactly the number of permits that exist and
\* never passes the ceiling, not even briefly.
GlobalCeiling ==
    /\ open = Cardinality(Holders)
    /\ open <= Max

\* limits.rs, the peer map: a peer's count is the number of its attempts that
\* hold a slot, within the per-peer ceiling; peers with none have no entry, so
\* a refusal or a close never leaks a slot or an entry ("bounded by the number
\* of currently connected peers").
PeerAccounting ==
    /\ \A p \in Peers : Count(p) = Cardinality(Charged(p)) /\ Count(p) <= PerPeer
    /\ \A p \in DOMAIN peers : Charged(p) # {}

\* limits.rs, the two rejection counters: every attempt turned away is counted
\* once, whichever ceiling refused it, also while its slot is being given back.
RejectionsCounted ==
    /\ rejected = Cardinality(TurnedAway)
    /\ rejected_per_peer <= rejected

\* server.rs and sni/proxy.rs, the accept loops: an attempt being admitted is
\* decided, whatever the other loop and the closing connections do to `open'
\* between the load and the swap, and the loop accepts again.
AcceptLoopReturns ==
    \A l \in Listeners : accepting[l] # NoConn ~> accepting[l] = NoConn
=============================================================================
