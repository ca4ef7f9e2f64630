------------------------- MODULE LiveServicesProofs -------------------------
(***************************************************************************)
(* Routing, for every repository, domain list, Host header and number of   *)
(* requests.                                                               *)
(*                                                                         *)
(* What the two tables of the matcher and the walk up a host's parents     *)
(* find is the most specific pattern of the list (Routing), for every list *)
(* that DomainList::parse lets through (ParsedList).  A refresh may read   *)
(* its index and each of its files from another revision: the invariant    *)
(* types what it has read so far, and parse decides alone.                 *)
(***************************************************************************)
EXTENDS LiveServices, FiniteSetTheorems, WellFoundedInduction, TLAPS

\* The solver's time limit, in seconds.
USE ZenonT(60)

\* A host, as its labels.
Hosts == Seq(STRING)

\* A pattern that Pattern::parse makes.
Parsed(p) ==
    /\ p \in [kind : {"exact", "suffix"}, host : Hosts]
    /\ IF p.kind = "suffix" THEN TwoLabels(p.host) /\ p.host \notin PublicSuffixes
       ELSE p.host[1] \notin Starred

\* A list whose wildcards are below some label.
WellFormed(l) ==
    /\ Len(l) \in Nat
    /\ \A i \in 1 .. Len(l) : \A p \in l[i].patterns :
          /\ p \in [kind : {"exact", "suffix"}, host : Hosts]
          /\ p.kind = "suffix" => Len(p.host) >= 1

\* The patterns of a list, the ones that match a host and the best of these.
All(l) == UNION {l[i].patterns : i \in 1 .. Len(l)}
Matching(l, host) == {p \in All(l) : Matches(p, host)}
Best(l, host) == {p \in Matching(l, host) : \A q \in Matching(l, host) : MoreSpecific(p, q)}

\* The services that list a pattern, and the last of them.
Lists(l, i, kind, host) == [kind |-> kind, host |-> host] \in l[i].patterns
Listers(l, kind, host) == {i \in 1 .. Len(l) : Lists(l, i, kind, host)}
LastLister(l, kind, host, i) ==
    i \in Listers(l, kind, host) /\ \A j \in Listers(l, kind, host) : j <= i

OwnedThrough(l, host, kind, h) == Owners(l, host) = Listers(l, kind, h)
RoutesTo(l, host, i) == ServiceOf(l, host) = l[i].name

\* A matcher in charge is well formed and usable, what a refresh has read is typed, and
\* every request was routed by the matcher it read.
RouteInv ==
    /\ revision \in 1 .. Len(Revisions)
    /\ refresh.at = "files" => /\ DOMAIN refresh = {"at", "index", "files"}
                               /\ refresh.index \in Indexes /\ Files(refresh.files)
    /\ refresh.at = "swapped" => refresh.candidate = matcher
    /\ LiveListUsable
    /\ WellFormed(matcher)
    /\ responses \in Seq(Range(responses))
    /\ RoutesBySpecificity
-----------------------------------------------------------------------------
Less == OpToRel(<, Nat)

\* A set of numbers has a least one, and a bounded one a greatest.
LEMMA Least ==
    ASSUME NEW T \in SUBSET Nat, T # {}
    PROVE  \E x \in T : \A y \in T : x <= y
  <1>1. IsWellFoundedOn(Less, Nat)
    BY NatLessThanWellFounded DEF Less
  <1>2. PICK x \in T : \A y \in T : ~(<<y, x>> \in Less)
    BY <1>1, WFMin
  <1>3. \A y \in T : ~(y < x)
    <2> SUFFICES ASSUME NEW y \in T, y < x PROVE <<y, x>> \in Less
      BY <1>2
    <2>1. <<y, x>> \in Nat \X Nat /\ <<y, x>>[1] = y /\ <<y, x>>[2] = x
      OBVIOUS
    <2> QED
      BY <2>1 DEF Less, OpToRel
  <1>4. \A y \in T : x <= y
    BY <1>3, SMTT(60)
  <1> QED
    BY <1>4

LEMMA Greatest ==
    ASSUME NEW n \in Nat, NEW T \in SUBSET (1 .. n), T # {}
    PROVE  \E x \in T : \A y \in T : y <= x
  <1> DEFINE U == {n - x : x \in T}
  <1>1. U \in SUBSET Nat
    BY SMTT(60)
  <1>2. U # {}
    OBVIOUS
  <1>3. PICK u \in U : \A v \in U : u <= v
    BY <1>1, <1>2, Least
  <1>4. PICK x \in T : u = n - x
    OBVIOUS
  <1>5. \A y \in T : n - x <= n - y
    BY <1>3, <1>4
  <1>6. \A y \in T : y <= x
    BY <1>5, SMTT(60)
  <1> QED
    BY <1>6

\* Matcher::build: a table has the hosts of its kind, each with the last service that
\* lists it.
LEMMA Tables ==
    ASSUME NEW l, WellFormed(l), NEW kind
    PROVE  /\ DOMAIN table(l, kind) = {p.host : p \in {q \in All(l) : q.kind = kind}}
           /\ \A h \in DOMAIN table(l, kind) : LastLister(l, kind, h, table(l, kind)[h])
  <1> DEFINE N == Len(l)
             D == {p.host : p \in {q \in UNION {l[i].patterns : i \in 1 .. N} : q.kind = kind}}
             has(i, h) == Lists(l, i, kind, h)
             Latest(i, h) == has(i, h) /\ \A j \in i + 1 .. N : ~has(j, h)
             T == [h \in D |-> CHOOSE i \in 1 .. N : Latest(i, h)]
  <1>1. table(l, kind) = T
    BY DEF table, Lists
  <1>2. N \in Nat
    BY DEF WellFormed
  <1>3. ASSUME NEW h \in D PROVE T[h] \in Listers(l, kind, h) /\ \A j \in Listers(l, kind, h) : j <= T[h]
    <2>1. Listers(l, kind, h) # {}
      <3>1. PICK i \in 1 .. N : \E p \in l[i].patterns : p.kind = kind /\ p.host = h
        BY <1>3
      <3>2. PICK p \in l[i].patterns : p.kind = kind /\ p.host = h
        BY <3>1
      <3>3. p = [kind |-> p.kind, host |-> p.host]
        BY <3>2 DEF WellFormed
      <3> QED
        BY <3>2, <3>3 DEF Listers, Lists
    <2>2. Listers(l, kind, h) \in SUBSET (1 .. N)
      BY DEF Listers
    <2>3. PICK x \in Listers(l, kind, h) : \A y \in Listers(l, kind, h) : y <= x
      BY <1>2, <2>1, <2>2, Greatest
    <2>4. x \in 1 .. N /\ has(x, h)
      BY DEF Listers
    <2>5. \A j \in 1 .. N : has(j, h) => j <= x
      BY <2>3 DEF Listers
    <2> HIDE DEF has
    <2>6. \A j \in x + 1 .. N : ~has(j, h)
      BY <1>2, <2>4, <2>5, SMTT(60)
    <2>7. T[h] \in 1 .. N /\ Latest(T[h], h)
      <3>1. \E i \in 1 .. N : Latest(i, h)
        BY <2>4, <2>6
      <3>2. T[h] = CHOOSE i \in 1 .. N : Latest(i, h)
        OBVIOUS
      <3> HIDE DEF Latest, T
      <3> QED
        BY <3>1, <3>2
    <2>8. \A j \in 1 .. N : has(j, h) => j <= T[h]
      <3> DEFINE t == T[h]
      <3>1. t \in 1 .. N /\ \A j \in t + 1 .. N : ~has(j, h)
        BY <2>7
      <3> HIDE DEF t
      <3>2. \A j \in 1 .. N : has(j, h) => j <= t
        BY <1>2, <3>1, SMTT(60)
      <3> QED
        BY <3>2 DEF t
    <2> QED
      BY <2>7, <2>8 DEF has, Listers
  <1>4. DOMAIN T = D
    OBVIOUS
  <1>5. D = {p.host : p \in {q \in All(l) : q.kind = kind}}
    BY DEF All
  <1>6. \A h \in D : LastLister(l, kind, h, T[h])
    BY <1>3 DEF LastLister
  <1> HIDE DEF T, D
  <1> QED
    BY <1>1, <1>4, <1>5, <1>6

\* A host whose best pattern is this one belongs to the last service that lists it.
LEMMA Owned ==
    ASSUME NEW l, NEW kind, NEW host, NEW h, NEW x,
           WellFormed(l), OwnedThrough(l, host, kind, h),
           LastLister(l, kind, h, x)
    PROVE  RoutesTo(l, host, x)
  <1> DEFINE owners == Listers(l, kind, h)
             y == CHOOSE i \in owners : \A j \in owners : j <= i
  <1>0. x \in owners /\ \A j \in owners : j <= x
    BY DEF LastLister
  <1>1. ServiceOf(l, host) = l[y].name
    BY <1>0 DEF ServiceOf, OwnedThrough
  <1>2. owners \subseteq Int
    BY SMTT(60) DEF Listers
  <1> HIDE DEF owners
  <1>3. y \in owners /\ \A j \in owners : j <= y
    BY <1>0
  <1> HIDE DEF y
  <1>5. x \in Int /\ y \in Int /\ x <= y /\ y <= x
    BY <1>0, <1>2, <1>3
  <1>6. x = y
    BY <1>5, SMTT(60)
  <1> QED
    BY <1>1, <1>6 DEF RoutesTo

\* The reference, Owners, by way of the best patterns; when there is one best pattern the
\* owners are the services that list it.
LEMMA OwnersAre ==
    ASSUME NEW l, NEW host
    PROVE  Owners(l, host) = {i \in 1 .. Len(l) : l[i].patterns \cap Best(l, host) # {}}
  BY DEF Owners, Best, Matching, All

LEMMA OwnersOfOne ==
    ASSUME NEW l, NEW host, NEW kind, NEW h, Best(l, host) = {[kind |-> kind, host |-> h]}
    PROVE  OwnedThrough(l, host, kind, h)
  BY OwnersAre DEF Listers, Lists, OwnedThrough

\* A pattern of the list is a record of its two parts and is found in its table, and what
\* is found in a table is a pattern of the list.
LEMMA PatternType ==
    ASSUME NEW l, WellFormed(l), NEW p \in All(l)
    PROVE  /\ p = [kind |-> p.kind, host |-> p.host]
           /\ p.kind \in {"exact", "suffix"} /\ p.host \in Hosts
           /\ p.kind = "suffix" => Len(p.host) >= 1
           /\ p.host \in DOMAIN table(l, p.kind)
  <1>1. PICK i \in 1 .. Len(l) : p \in l[i].patterns
    BY DEF All
  <1>2. p \in [kind : {"exact", "suffix"}, host : Hosts] /\ (p.kind = "suffix" => Len(p.host) >= 1)
    BY <1>1 DEF WellFormed
  <1>3. p.host \in DOMAIN table(l, p.kind)
    <2>1. DOMAIN table(l, p.kind) = {r.host : r \in {q \in All(l) : q.kind = p.kind}}
      BY Tables
    <2>2. p \in {q \in All(l) : q.kind = p.kind}
      OBVIOUS
    <2> QED
      BY <2>1, <2>2
  <1> QED
    BY <1>2, <1>3

LEMMA InTable ==
    ASSUME NEW l, WellFormed(l), NEW kind, NEW h \in DOMAIN table(l, kind)
    PROVE  [kind |-> kind, host |-> h] \in All(l)
  <1>1. table(l, kind)[h] \in Listers(l, kind, h)
    BY Tables DEF LastLister
  <1> QED
    BY <1>1 DEF Listers, Lists, All

\* A parent of a host is what is left of it without some labels, and a wildcard that
\* covers a host is rooted at one of its parents.
LEMMA LabelsBelow ==
    ASSUME NEW host \in Hosts, NEW n \in parents(host)
    PROVE  /\ Len(host) \in Nat /\ n \in Nat /\ Len(Below(host, n)) = Len(host) - n
           /\ Len(host) > Len(Below(host, n))
           /\ Below(host, Len(host) - Len(Below(host, n))) = Below(host, n)
  <1>1. Len(host) \in Nat /\ n \in 1 .. Len(host) - 1
    BY SMTT(60) DEF Hosts, parents
  <1>2. Len(Below(host, n)) = Len(host) - n
    BY <1>1, SMTT(60) DEF Hosts, Below
  <1> DEFINE L == Len(host)
             k == Len(Below(host, n))
  <1>3. L > L - n /\ L - (L - n) = n /\ n \in Nat
    <2> HIDE DEF L
    <2>1. L \in Nat /\ n \in 1 .. L - 1
      BY <1>1 DEF L
    <2> QED
      BY <2>1, SMTT(60)
  <1> QED
    BY <1>1, <1>2, <1>3

LEMMA Covering ==
    ASSUME NEW host \in Hosts, NEW h \in Hosts, Len(h) >= 1,
           Len(host) > Len(h), Below(host, Len(host) - Len(h)) = h
    PROVE  Len(host) - Len(h) \in parents(host) /\ Len(host) \in Nat /\ Len(h) \in Nat
  <1>1. Len(host) \in Nat /\ Len(h) \in Nat
    BY SMTT(60) DEF Hosts
  <1> QED
    BY <1>1, SMTT(60) DEF parents

\* matcher.rs, service_for: looking up the host in one table and its parents in the other,
\* the longest first, finds the service of the most specific pattern, and of the last
\* service that lists it; for every list without a wildcard at the root and every host.
THEOREM Routing ==
    ASSUME NEW l, WellFormed(l), NEW header, normalise_host(header) \in Hosts
    PROVE  service_for(l, header) = ServiceOf(l, normalise_host(header))
  <1> DEFINE host == normalise_host(header)
             exact == table(l, "exact")
             suffix == table(l, "suffix")
             hits == {n \in parents(host) : Below(host, n) \in DOMAIN suffix}
             first == CHOOSE n \in hits : \A m \in hits : n <= m
  <1>0. service_for(l, header) =
           IF host \in DOMAIN exact THEN l[exact[host]].name
           ELSE IF hits # {} THEN l[suffix[Below(host, first)]].name ELSE NoService
    BY DEF service_for
  <1>h. host \in Hosts
    OBVIOUS
  <1> HIDE DEF host, exact, suffix, hits, first
  \* A pattern that matches is the host itself or one of the wildcards looked up.
  <1>1. ASSUME NEW q \in Matching(l, host)
        PROVE  \/ q.kind = "exact" /\ q.host = host /\ host \in DOMAIN exact
               \/ /\ q.kind = "suffix" /\ Len(q.host) \in Nat /\ Len(host) \in Nat
                  /\ Len(host) - Len(q.host) \in hits
                  /\ Below(host, Len(host) - Len(q.host)) = q.host
    <2>1. q \in All(l) /\ Matches(q, host)
      BY DEF Matching
    <2>2. /\ q.kind \in {"exact", "suffix"} /\ q.host \in Hosts
          /\ q.kind = "suffix" => Len(q.host) >= 1
          /\ q.host \in DOMAIN table(l, q.kind)
      BY <2>1, PatternType
    <2>3. CASE q.kind = "exact"
      BY <2>1, <2>2, <2>3 DEF Matches, exact
    <2>4. CASE q.kind = "suffix"
      <3>1. Len(host) > Len(q.host) /\ Below(host, Len(host) - Len(q.host)) = q.host
        BY <2>1, <2>4 DEF Matches
      <3>2. Len(host) - Len(q.host) \in parents(host) /\ Len(host) \in Nat /\ Len(q.host) \in Nat
        BY <1>h, <2>2, <2>4, <3>1, Covering
      <3> QED
        BY <2>2, <2>4, <3>1, <3>2 DEF hits, suffix
    <2> QED
      BY <2>2, <2>3, <2>4
  <1>2. CASE host \in DOMAIN exact
    <2> DEFINE e == [kind |-> "exact", host |-> host]
    <2>1. e \in Matching(l, host)
      <3>1. e \in All(l)
        BY <1>2, InTable DEF exact
      <3> QED
        BY <3>1 DEF Matching, Matches
    <2>2. \A q \in Matching(l, host) : MoreSpecific(e, q)
      BY DEF MoreSpecific
    <2>3. ASSUME NEW p \in Best(l, host) PROVE p = e
      <3>1. p \in Matching(l, host) /\ MoreSpecific(p, e)
        BY <2>1 DEF Best
      <3>2. p.kind = "exact"
        BY <3>1 DEF MoreSpecific
      <3>3. p.host = host
        BY <1>1, <3>1, <3>2
      <3>4. p = [kind |-> p.kind, host |-> p.host]
        BY <3>1, PatternType DEF Matching
      <3> QED
        BY <3>2, <3>3, <3>4
    <2>4. Best(l, host) = {e}
      BY <2>1, <2>2, <2>3 DEF Best
    <2>5. OwnedThrough(l, host, "exact", host)
      BY <2>4, OwnersOfOne
    <2>6. LastLister(l, "exact", host, exact[host])
      BY <1>2, Tables DEF exact
    <2>7. RoutesTo(l, host, exact[host])
      BY <2>5, <2>6, Owned
    <2> QED
      BY <1>0, <1>2, <2>7 DEF host, RoutesTo
  <1>3. CASE host \notin DOMAIN exact /\ hits # {}
    <2> DEFINE h == Below(host, first)
               s == [kind |-> "suffix", host |-> h]
    <2>1. first \in hits /\ \A m \in hits : first <= m
      <3>1. hits \in SUBSET Nat
        BY LabelsBelow, <1>h DEF hits
      <3>2. \E n \in hits : \A m \in hits : n <= m
        BY <1>3, <3>1, Least
      <3> QED
        BY <3>2 DEF first
    <2>2. first \in parents(host) /\ h \in DOMAIN suffix
      BY <2>1 DEF hits
    <2>3. /\ Len(host) \in Nat /\ first \in Nat /\ Len(h) = Len(host) - first
          /\ Len(host) > Len(h) /\ Below(host, Len(host) - Len(h)) = h
      BY <1>h, <2>2, LabelsBelow
    <2> HIDE DEF h
    <2>4. s \in Matching(l, host)
      <3>1. s \in All(l)
        BY <2>2, InTable DEF suffix
      <3> QED
        BY <2>3, <3>1 DEF Matching, Matches
    <2>5. ASSUME NEW q \in Matching(l, host)
          PROVE  /\ q.kind = "suffix" /\ Len(q.host) \in Nat
                 /\ Below(host, Len(host) - Len(q.host)) = q.host
                 /\ Len(h) >= Len(q.host)
      <3>1. /\ q.kind = "suffix" /\ Len(q.host) \in Nat
            /\ Below(host, Len(host) - Len(q.host)) = q.host
            /\ Len(host) - Len(q.host) \in hits
        BY <1>1, <1>3
      <3>2. first <= Len(host) - Len(q.host)
        BY <2>1, <3>1
      <3> DEFINE a == Len(host)
                 b == Len(q.host)
                 c == Len(h)
      <3>3. c >= b
        <4>1. a \in Nat /\ b \in Nat /\ first \in Nat /\ c = a - first /\ first <= a - b
          BY <2>3, <3>1, <3>2
        <4> HIDE DEF a, b, c
        <4> QED
          BY <4>1, SMTT(60)
      <3> QED
        BY <3>1, <3>3
    <2>6. \A q \in Matching(l, host) : MoreSpecific(s, q)
      BY <2>5 DEF MoreSpecific
    <2>7. ASSUME NEW p \in Best(l, host) PROVE p = s
      <3>1. p \in Matching(l, host) /\ MoreSpecific(p, s)
        BY <2>4 DEF Best
      <3>2. /\ p.kind = "suffix" /\ Len(p.host) \in Nat
            /\ Below(host, Len(host) - Len(p.host)) = p.host
            /\ Len(h) >= Len(p.host)
        BY <2>5, <3>1
      <3>3. Len(p.host) >= Len(h)
        BY <3>1, <3>2 DEF MoreSpecific
      <3>4. Len(p.host) = Len(h)
        <4> DEFINE b == Len(p.host)
                   c == Len(h)
                   a == Len(host)
        <4>1. a \in Nat /\ b \in Nat /\ first \in Nat /\ c = a - first /\ c >= b /\ b >= c
          BY <2>3, <3>2, <3>3
        <4> HIDE DEF a, b, c
        <4>2. b = c
          BY <4>1, SMTT(60)
        <4> QED
          BY <4>2 DEF b, c
      <3>5. p.host = h
        BY <2>3, <3>2, <3>4
      <3>6. p = [kind |-> p.kind, host |-> p.host]
        BY <3>1, PatternType DEF Matching
      <3> QED
        BY <3>2, <3>5, <3>6
    <2>8. Best(l, host) = {s}
      BY <2>4, <2>6, <2>7 DEF Best
    <2>9. OwnedThrough(l, host, "suffix", h)
      BY <2>8, OwnersOfOne
    <2>10. LastLister(l, "suffix", h, suffix[h])
      BY <2>2, Tables DEF suffix
    <2>11. RoutesTo(l, host, suffix[h])
      BY <2>9, <2>10, Owned
    <2> QED
      BY <1>0, <1>3, <2>11 DEF host, h, RoutesTo
  <1>4. CASE host \notin DOMAIN exact /\ hits = {}
    <2>1. Matching(l, host) = {}
      BY <1>1, <1>4
    <2>2. Owners(l, host) = {}
      BY <2>1, OwnersAre DEF Best
    <2>3. ServiceOf(l, host) = NoService
      BY <2>2 DEF ServiceOf
    <2> QED
      BY <1>0, <1>4, <2>3 DEF host
  <1> QED
    BY <1>2, <1>3, <1>4

\* Stripping dots and port and lowering the case leaves labels.
LEMMA CanonicalType ==
    ASSUME NEW labels \in Hosts
    PROVE  Canonical(labels) \in Hosts
  <1> DEFINE n == Len(labels)
             keep == {i \in 1 .. n : \E j \in i .. n : labels[j] # ""}
             c == Cardinality(keep)
  <1>1. n \in Nat
    BY SMTT(60) DEF Hosts
  <1>2. IsFiniteSet(1 .. n) /\ Cardinality(1 .. n) = n
    <2>1. 1 \in Int /\ n \in Int /\ (IF 1 > n THEN 0 ELSE n - 1 + 1) = n
      <3> HIDE DEF n
      <3> QED
        BY <1>1, SMTT(60)
    <2> HIDE DEF n
    <2> QED
      BY <2>1, FS_Interval
  <1>3. keep \in SUBSET (1 .. n)
    OBVIOUS
  <1> HIDE DEF keep
  <1>4. c \in Nat /\ c <= n
    <2>1. IsFiniteSet(keep) /\ Cardinality(keep) <= Cardinality(1 .. n)
      BY <1>2, <1>3, FS_Subset
    <2>2. Cardinality(keep) \in Nat
      BY <2>1, FS_CardinalityType
    <2> QED
      BY <1>2, <2>1, <2>2
  <1>5. \A i \in 1 .. n : labels[i] \in STRING
    BY SMTT(60) DEF Hosts
  <1> HIDE DEF c, n
  <1>6. \A i \in 1 .. c : i \in 1 .. n
    BY <1>1, <1>4, SMTT(60)
  <1>7. \A i \in 1 .. c : Lower(labels[i]) \in STRING
    BY <1>5, <1>6, LabelType DEF Lower
  <1>8. Canonical(labels) = [i \in 1 .. c |-> Lower(labels[i])]
    BY DEF Canonical, c, n, keep
  <1> QED
    BY <1>4, <1>7, <1>8, SMTT(60) DEF Hosts

LEMMA NormalHost ==
    ASSUME NEW header, header.labels \in Hosts
    PROVE  normalise_host(header) \in Hosts
  <1> DEFINE labels == header.labels
             other == [labels EXCEPT ![Len(labels)] = "junk"]
  <1>1. other \in Hosts
    <2> DEFINE n == Len(labels)
    <2>1. labels \in Hosts
      OBVIOUS
    <2> HIDE DEF labels
    <2>2. n \in Nat /\ labels \in [1 .. n -> STRING]
      BY <2>1, SMTT(60) DEF Hosts
    <2>3. other \in [1 .. n -> STRING]
      BY <2>2, LabelType
    <2> HIDE DEF n, other
    <2> QED
      BY <2>2, <2>3, SMTT(60) DEF Hosts
  <1> QED
    BY <1>1, CanonicalType DEF normalise_host

\* A wildcard below two labels is below one.
LEMMA TwoAreSome ==
    \A h \in Hosts : TwoLabels(h) => Len(h) >= 1
  <1> SUFFICES ASSUME NEW h \in Hosts, TwoLabels(h) PROVE Len(h) >= 1
    OBVIOUS
  <1> DEFINE k == Len(h)
  <1>1. k \in Nat
    BY SMTT(60) DEF Hosts
  <1>2. 1 .. k # {}
    BY DEF TwoLabels
  <1> HIDE DEF k
  <1>3. k >= 1
    BY <1>1, <1>2, SMTT(60)
  <1> QED
    BY <1>3 DEF k

\* Pattern::parse: a wildcard is below two labels that are not a public suffix, and
\* nothing else begins with a star.
LEMMA ParsedPattern ==
    ASSUME NEW raw \in Hosts, parse_pattern(raw) # NoPattern
    PROVE  Parsed(parse_pattern(raw))
  <1> DEFINE host == Canonical(raw)
             p == parse_pattern(raw)
             wildcard == Len(host) > 1 /\ host[1] = "*"
  <1>1. host \in Hosts
    BY CanonicalType
  <1>2. /\ host # <<>>
        /\ IF wildcard THEN /\ p = [kind |-> "suffix", host |-> Tail(host)]
                            /\ TwoLabels(Tail(host)) /\ Tail(host) \notin PublicSuffixes
           ELSE p = [kind |-> "exact", host |-> host] /\ host[1] \notin Starred
    BY DEF parse_pattern
  <1> HIDE DEF host, p, wildcard
  <1>3. Tail(host) \in Hosts
    BY <1>1, <1>2, SMTT(60) DEF Hosts
  <1>4. CASE wildcard
    <2>1. p = [kind |-> "suffix", host |-> Tail(host)]
      BY <1>2, <1>4
    <2>2. p.kind = "suffix" /\ p.host = Tail(host)
      BY <2>1
    <2>3. TwoLabels(p.host) /\ p.host \notin PublicSuffixes
      BY <1>2, <1>4, <2>2
    <2> QED
      BY <1>3, <2>1, <2>2, <2>3 DEF Parsed, p
  <1>5. CASE ~wildcard
    <2>1. p = [kind |-> "exact", host |-> host]
      BY <1>2, <1>5
    <2>2. p.kind = "exact" /\ p.host = host
      BY <2>1
    <2>3. p.host[1] \notin Starred
      BY <1>2, <1>5, <2>2
    <2> QED
      BY <1>1, <2>1, <2>2, <2>3 DEF Parsed, p
  <1> QED
    BY <1>4, <1>5

\* The word of a line is a host.
LEMMA OnlyWord ==
    ASSUME NEW line \in Seq(Hosts), Len(line) = 1
    PROVE  line[1] \in Hosts
  BY SMTT(60)

\* DomainList::parse: every list it returns can be put in charge.
LEMMA ParsedList ==
    ASSUME NEW index \in Indexes, NEW files, Files(files), parse(index, files) # NoList
    PROVE  WellFormed(parse(index, files)) /\ Usable(parse(index, files))
  <1> DEFINE n == Len(index)
             named == UNION {Range(index[i].files) : i \in 1 .. n}
             l == [i \in 1 .. n |->
                     [name |-> index[i].name,
                      patterns |-> UNION {Patterns(files[f]) : f \in Range(index[i].files)}]]
  <1>1. /\ parse(index, files) = l
        /\ named \subseteq DOMAIN files
        /\ \A f \in named : \A line \in Range(files[f]) : ~Malformed(line)
        /\ ~(\A i \in 1 .. Len(l) : l[i].patterns = {})
    BY DEF parse
  <1>2. n \in Nat
    BY SMTT(60) DEF Indexes
  <1>3. Len(l) = n
    <2> DEFINE e(i) == [name |-> index[i].name,
                        patterns |-> UNION {Patterns(files[f]) : f \in Range(index[i].files)}]
    <2> HIDE DEF e, n
    <2>1. Len([i \in 1 .. n |-> e(i)]) = n
      BY <1>2, SMTT(60)
    <2> QED
      BY <2>1 DEF e
  <1>4. ASSUME NEW i \in 1 .. n, NEW p \in l[i].patterns PROVE Parsed(p)
    <2>1. l[i].patterns = UNION {Patterns(files[f]) : f \in Range(index[i].files)}
      OBVIOUS
    <2>2. PICK f \in Range(index[i].files) : p \in Patterns(files[f])
      BY <1>4, <2>1
    <2>3. f \in named
      BY <2>2
    <2> HIDE DEF l, named
    <2>4. PICK line \in Range(files[f]) : Len(line) = 1 /\ p = parse_pattern(line[1])
      BY <2>2 DEF Patterns
    <2>5. files[f] \in Seq(Seq(Seq(STRING)))
      BY <1>1, <2>3 DEF Files
    <2>6. line \in Seq(Seq(STRING))
      <3>1. PICK k \in DOMAIN files[f] : line = files[f][k]
        BY <2>4 DEF Range
      <3> QED
        BY <2>5, <3>1, SMTT(60)
    <2>7. line[1] \in Hosts
      <3>1. line \in Seq(Hosts)
        BY <2>6 DEF Hosts
      <3> QED
        BY <2>4, <3>1, OnlyWord
    <2>8. ~Malformed(line)
      BY <1>1, <2>3, <2>4
    <2>9. parse_pattern(line[1]) # NoPattern
      BY <2>4, <2>8 DEF Malformed
    <2> QED
      BY <2>4, <2>7, <2>9, ParsedPattern
  <1> HIDE DEF l, n, named
  <1>5. WellFormed(l)
    <2>1. \A p : Parsed(p) => /\ p \in [kind : {"exact", "suffix"}, host : Hosts]
                              /\ p.kind = "suffix" => Len(p.host) >= 1
      <3> TAKE p
      <3>1. p.host \in Hosts /\ TwoLabels(p.host) => Len(p.host) >= 1
        BY TwoAreSome
      <3> QED
        BY <3>1 DEF Parsed
    <2> QED
      BY <1>2, <1>3, <1>4, <2>1 DEF WellFormed
  <1>6. Usable(l)
    <2>1. \A p \in All(l) : IF p.kind = "suffix"
                             THEN TwoLabels(p.host) /\ p.host \notin PublicSuffixes
                             ELSE p.host[1] \notin Starred
      BY <1>3, <1>4 DEF All, Parsed
    <2>2. All(l) # {}
      BY <1>1 DEF All
    <2> QED
      BY <2>1, <2>2 DEF Usable, All
  <1> QED
    BY <1>1, <1>5, <1>6

\* One more response.
LEMMA Appended ==
    ASSUME NEW s, s \in Seq(Range(s)), NEW a
    PROVE  /\ Range(Append(s, a)) = Range(s) \cup {a}
           /\ Append(s, a) \in Seq(Range(Append(s, a)))
  <1> DEFINE S == Range(s)
             n == Len(s)
             t == Append(s, a)
  <1>1. s \in Seq(S)
    OBVIOUS
  <1>2. S = {s[i] : i \in DOMAIN s}
    BY DEF Range
  <1> HIDE DEF S
  <1>3. n \in Nat /\ DOMAIN s = 1 .. n
    BY <1>1, SMTT(60)
  <1>4. t \in Seq(S \cup {a}) /\ DOMAIN t = 1 .. n + 1 /\ t[n + 1] = a /\ \A i \in 1 .. n : t[i] = s[i]
    BY <1>1, SMTT(60)
  <1> HIDE DEF t, n
  <1>5. 1 .. n + 1 = 1 .. n \cup {n + 1}
    BY <1>3, SMTT(60)
  <1>6. Range(t) = S \cup {a}
    <2>1. Range(t) = {t[i] : i \in 1 .. n \cup {n + 1}}
      BY <1>4, <1>5 DEF Range
    <2>2. \A i \in 1 .. n : t[i] \in S
      BY <1>2, <1>3, <1>4
    <2>3. \A x \in S : \E i \in 1 .. n : x = t[i]
      BY <1>2, <1>3, <1>4
    <2>4. t[n + 1] = a
      BY <1>4
    <2> QED
      BY <2>1, <2>2, <2>3, <2>4
  <1> QED
    BY <1>4, <1>6 DEF t, S

\* server.rs, serve: what an answer that is planned says.
LEMMA PlannedAnswer ==
    ASSUME NEW q, Answer(q).status = 200
    PROVE  LET a == Answer(q) IN
           /\ a.request = q /\ a.list = matcher /\ a.service = service_for(matcher, q.host)
           /\ ~AllowHostPort => a.url = [labels |-> normalise_host(q.host), port |-> "none"]
  BY SMTT(60) DEF Answer, Heartbeat

-----------------------------------------------------------------------------
LEMMA RouteInit == Init => RouteInv
  <1> SUFFICES ASSUME Init PROVE RouteInv
    OBVIOUS
  <1>1. revision \in 1 .. Len(Revisions) /\ 1 \in 1 .. Len(Revisions)
    BY RevisionsType, SMTT(60) DEF Init
  <1>2. refresh.at = "sleep"
    BY DEF Init, Sleeping
  <1>3. WellFormed(StartupList) /\ Usable(StartupList)
    <2>1. Revisions[1].index # NoIndex /\ StartupList = parse(Revisions[1].index, Revisions[1].files)
      BY StartupUsable DEF StartupList, Loaded
    <2>2. Revisions[1].index \in Indexes /\ Files(Revisions[1].files)
      BY <1>1, <2>1, RevisionsType
    <2> QED
      BY <2>1, <2>2, ParsedList, StartupUsable
  <1>4. DOMAIN responses = {} /\ responses \in Seq(Range(responses))
    BY SMTT(60) DEF Init
  <1>5. Range(responses) = {}
    BY <1>4 DEF Range
  <1>6. LiveListUsable
    BY <1>3 DEF LiveListUsable, Init
  <1> QED
    BY <1>1, <1>2, <1>3, <1>4, <1>5, <1>6 DEF RouteInv, RoutesBySpecificity, Planned, Init

\* serve: the request is routed by the matcher it reads.
LEMMA RouteServe ==
    ASSUME RouteInv, NEW q \in Inputs, Serve(q)
    PROVE  RouteInv'
  <1> DEFINE a == Answer(q)
  <1>1. responses' = Append(responses, a) /\ UNCHANGED <<revision, refresh, matcher, list>>
    BY DEF Serve
  <1>2. Range(responses') = Range(responses) \cup {a} /\ responses' \in Seq(Range(responses'))
    BY <1>1, Appended DEF RouteInv
  <1>3. ASSUME a.status = 200
        PROVE  /\ a.service = ServiceOf(a.list, normalise_host(a.request.host))
               /\ ~AllowHostPort => a.url.port = "none" /\ ServiceOf(a.list, a.url.labels) = a.service
    <2>1. /\ a.request = q /\ a.list = matcher /\ a.service = service_for(matcher, q.host)
          /\ ~AllowHostPort => a.url = [labels |-> normalise_host(q.host), port |-> "none"]
      BY <1>3, PlannedAnswer
    <2> HIDE DEF a
    <2>2. normalise_host(q.host) \in Hosts
      BY NormalHost, InputsType DEF Hosts
    <2>3. service_for(matcher, q.host) = ServiceOf(matcher, normalise_host(q.host))
      BY <2>2, Routing DEF RouteInv
    <2>4. ASSUME ~AllowHostPort
          PROVE  a.url.port = "none" /\ a.url.labels = normalise_host(q.host)
      <3> DEFINE u == a.url
      <3>1. u = [labels |-> normalise_host(q.host), port |-> "none"]
        BY <2>1, <2>4
      <3> HIDE DEF u
      <3>2. u.port = "none" /\ u.labels = normalise_host(q.host)
        BY <3>1
      <3> QED
        BY <3>2 DEF u
    <2> QED
      BY <2>1, <2>3, <2>4
  <1> HIDE DEF a
  <1>4. RoutesBySpecificity'
    BY <1>2, <1>3 DEF RouteInv, RoutesBySpecificity, Planned
  <1> QED
    BY <1>1, <1>2, <1>4 DEF RouteInv, LiveListUsable

\* fetch and apply: a candidate is parsed before it is in charge.
LEMMA RouteRefresh ==
    ASSUME RouteInv, FetchIndex \/ FetchFile \/ FetchFails \/ ApplyMatcher \/ ApplyList
    PROVE  RouteInv'
  <1>0. /\ revision' = revision /\ responses' = responses
        /\ RoutesBySpecificity'
        /\ Revisions[revision].index # NoIndex => Revisions[revision].index \in Indexes
        /\ Files(Revisions[revision].files)
    <2>1. revision' = revision /\ responses' = responses
      BY DEF FetchIndex, FetchFile, FetchFails, ApplyMatcher, ApplyList
    <2> QED
      BY <2>1, RevisionsType DEF RouteInv, RoutesBySpecificity, Planned
  <1>1. CASE FetchIndex \/ FetchFails \/ FetchFile
    <2>1. UNCHANGED <<matcher, list>> /\ refresh.at # "swapped"
      BY <1>1 DEF FetchIndex, FetchFile, FetchFails
    <2>2. refresh'.at # "swapped" /\ (refresh'.at = "files" =>
                   /\ DOMAIN refresh' = {"at", "index", "files"}
                   /\ refresh'.index \in Indexes /\ Files(refresh'.files))
      <3>1. CASE refresh' = Sleeping
        BY <3>1 DEF Sleeping
      <3>2. CASE FetchIndex /\ refresh' # Sleeping
        <4>1. /\ refresh' = [at |-> "files", index |-> Revisions[revision].index, files |-> <<>>]
              /\ Revisions[revision].index # NoIndex
          BY <3>2 DEF FetchIndex
        <4>2. DOMAIN <<>> = {}
          BY SMTT(60)
        <4>3. /\ refresh'.at = "files" /\ refresh'.index = Revisions[revision].index /\ refresh'.files = <<>>
              /\ DOMAIN refresh' = {"at", "index", "files"}
          BY <4>1, SMTT(60)
        <4> QED
          BY <1>0, <4>1, <4>2, <4>3 DEF Files
      <3>3. CASE FetchFile /\ refresh' # Sleeping
        <4> DEFINE f == Head(Wanted)
                   now == Revisions[revision].files
                   m == [g \in DOMAIN refresh.files \cup {f} |-> IF g = f THEN now[f] ELSE refresh.files[g]]
        <4>1. refresh.at = "files" /\ f \in DOMAIN now /\ refresh' = [refresh EXCEPT !.files = m]
          BY <3>3 DEF FetchFile
        <4>2. DOMAIN refresh = {"at", "index", "files"} /\ refresh.index \in Indexes /\ Files(refresh.files)
          BY <4>1 DEF RouteInv
        <4>3. Files(m)
          BY <1>0, <4>1, <4>2 DEF Files
        <4> HIDE DEF m, f, now
        <4>4. /\ DOMAIN refresh' = {"at", "index", "files"}
              /\ refresh'.at = "files" /\ refresh'.index = refresh.index /\ refresh'.files = m
          BY <4>1, <4>2
        <4> QED
          BY <4>2, <4>3, <4>4
      <3> QED
        BY <1>1, <3>1, <3>2, <3>3 DEF FetchFails
    <2> QED
      BY <1>0, <2>1, <2>2 DEF RouteInv, LiveListUsable
  <1>2. CASE ApplyMatcher
    <2> DEFINE candidate == parse(refresh.index, refresh.files)
    <2>1. refresh.at = "files" /\ list' = list /\ refresh.index \in Indexes /\ Files(refresh.files)
      BY <1>2 DEF ApplyMatcher, RouteInv
    <2>2. CASE candidate = NoList \/ candidate = list
      <3>1. refresh' = Sleeping /\ matcher' = matcher
        BY <1>2, <2>2 DEF ApplyMatcher
      <3>2. refresh'.at = "sleep"
        BY <3>1 DEF Sleeping
      <3> QED
        BY <1>0, <2>1, <3>1, <3>2 DEF RouteInv, LiveListUsable
    <2>3. CASE ~(candidate = NoList \/ candidate = list)
      <3>1. matcher' = candidate /\ refresh' = [at |-> "swapped", candidate |-> candidate]
        BY <1>2, <2>3 DEF ApplyMatcher
      <3>2. WellFormed(candidate) /\ Usable(candidate)
        BY <2>1, <2>3, ParsedList
      <3> HIDE DEF candidate
      <3>3. refresh'.at = "swapped" /\ refresh'.candidate = matcher'
        BY <3>1
      <3> QED
        BY <1>0, <3>1, <3>2, <3>3 DEF RouteInv, LiveListUsable
    <2> QED
      BY <2>2, <2>3
  <1>3. CASE ApplyList
    BY <1>0, <1>3 DEF ApplyList, RouteInv, LiveListUsable, Sleeping
  <1> QED
    BY <1>1, <1>2, <1>3

LEMMA RouteNext == RouteInv /\ [Next]_vars => RouteInv'
  <1> SUFFICES ASSUME RouteInv, [Next]_vars PROVE RouteInv'
    OBVIOUS
  <1>1. CASE Commit
    <2>1. /\ UNCHANGED <<refresh, matcher, list, responses>>
          /\ revision < Len(Revisions) /\ revision' = revision + 1
      BY <1>1 DEF Commit
    <2>2. revision' \in 1 .. Len(Revisions)
      BY <2>1, RevisionsType, SMTT(60) DEF RouteInv
    <2> QED
      BY <2>1, <2>2 DEF RouteInv, LiveListUsable, RoutesBySpecificity, Planned
  <1>2. CASE FetchIndex \/ FetchFile \/ FetchFails \/ ApplyMatcher \/ ApplyList
    BY <1>2, RouteRefresh
  <1>3. CASE \E q \in Inputs : Serve(q)
    BY <1>3, RouteServe
  <1>4. CASE UNCHANGED vars
    BY <1>4 DEF vars, RouteInv, LiveListUsable, RoutesBySpecificity, Planned
  <1> QED
    BY <1>1, <1>2, <1>3, <1>4 DEF Next

\* The invariant, for every repository and whatever its revisions hold.
THEOREM RouteInvariance == Spec => []RouteInv
  BY RouteInit, RouteNext, PTL DEF Spec

\* refresh.rs: the list in charge is always usable, however many revisions a fetch mixed,
\* and the matcher and the list differ only within apply.
THEOREM LiveListUsableHolds == Spec => []LiveListUsable
  <1>1. RouteInv => LiveListUsable
    BY DEF RouteInv
  <1> QED
    BY <1>1, RouteInvariance, PTL

\* matcher.rs and server.rs: every request that is planned goes to the service of its
\* host's most specific pattern in the list in charge when it was read, and is fetched
\* from that host.
THEOREM RoutesBySpecificityHolds == Spec => []RoutesBySpecificity
  <1>1. RouteInv => RoutesBySpecificity
    BY DEF RouteInv
  <1> QED
    BY <1>1, RouteInvariance, PTL
=============================================================================
