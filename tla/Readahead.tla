----------------------------- MODULE Readahead -----------------------------
(***************************************************************************)
(* orchestrator/readahead.rs: the access pattern of each object, and the   *)
(* slices worth fetching before anyone asks.  The pattern map is a         *)
(* function from the tracked objects.  Time is a number of ticks; objects  *)
(* seen in the same tick are of any age relative to each other.            *)
(***************************************************************************)
EXTENDS Integers, FiniteSets

CONSTANTS
    SEQUENTIAL_THRESHOLD,
    PATTERN_TTL,
    MAX_TRACKED,
    Window    \* READAHEAD_SLICES

ASSUME PolicyConstants ==
    /\ SEQUENTIAL_THRESHOLD \in Nat \ {0}
    /\ PATTERN_TTL \in Nat \ {0}
    /\ MAX_TRACKED \in Nat \ {0, 1}
    /\ Window \in Nat

Fresh(patterns, now) == {o \in DOMAIN patterns : now - patterns[o].seen < PATTERN_TTL}

\* The halves of the tracked objects that are the oldest.
OldestHalf(patterns, tracked) ==
    {d \in SUBSET tracked :
       /\ Cardinality(d) = MAX_TRACKED \div 2
       /\ \A x \in d, y \in tracked \ d : patterns[x].seen <= patterns[y].seen}

\* Mutant of Kept: a full map is only swept of what has expired.
Kept_ExpiryOnly(patterns, now) ==
    {IF Cardinality(DOMAIN patterns) >= MAX_TRACKED THEN Fresh(patterns, now)
     ELSE DOMAIN patterns}

\* observe, making room: what may stay of a full map.
Kept(patterns, now) ==
    LET fresh == Fresh(patterns, now)
    IN IF Cardinality(DOMAIN patterns) < MAX_TRACKED THEN {DOMAIN patterns}
       ELSE IF Cardinality(fresh) < MAX_TRACKED THEN {fresh}
       ELSE {fresh \ d : d \in OldestHalf(patterns, fresh)}

\* Mutant of consecutive: an old pattern is continued.
consecutive_NoTtl(patterns, kept, o, first, now) ==
    IF o \in kept /\ first = patterns[o].next_expected THEN patterns[o].consecutive + 1 ELSE 0

\* observe: how many times in a row o was read on from where it was left; a first
\* sighting, a pattern that has expired and a jump begin again.
consecutive(patterns, kept, o, first, now) ==
    IF /\ o \in kept
       /\ now - patterns[o].seen < PATTERN_TTL
       /\ first = patterns[o].next_expected
    THEN patterns[o].consecutive + 1
    ELSE 0

\* observe, the map afterwards.
observed(patterns, kept, o, first, last, now) ==
    [x \in kept \cup {o} |->
       IF x = o THEN [next_expected |-> last + 1, seen |-> now,
                      consecutive |-> consecutive(patterns, kept, o, first, now)]
       ELSE patterns[x]]

\* prefetch: the window after the request, within the object, for a client that
\* streams (Access::Sequential).
prefetch(count, last, lastSlice) ==
    IF count < SEQUENTIAL_THRESHOLD THEN {}
    ELSE {i \in last + 1 .. lastSlice : i <= last + Window}
=============================================================================
