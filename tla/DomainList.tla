----------------------------- MODULE DomainList -----------------------------
(***************************************************************************)
(* Domain lists and host matching: services/domains.rs and                 *)
(* services/matcher.rs.  A host is the sequence of its labels, the top     *)
(* level last; a trailing dot is an empty last label and "*" is a label.   *)
(* A line of a domain file is the sequence of its words, each a host; a    *)
(* comment or a blank line has none.                                       *)
(***************************************************************************)
EXTENDS Integers, Sequences, FiniteSets, SequencesExt

CONSTANTS
    CaseOf,           \* labels written with capitals, and their lower case
    Starred,          \* labels that begin with a star, "*" among them
    PublicSuffixes    \* Pattern::PUBLIC_SUFFIXES, as hosts

\* A label in lower case is a label, and so is the last one of a header whose port
\* is something else.
ASSUME LabelType == {CaseOf[label] : label \in DOMAIN CaseOf} \cup {"junk"} \subseteq STRING
ASSUME StarredType == "*" \in Starred

NoPattern == [kind |-> "none"]
NoList == <<>>

Lower(label) == IF label \in DOMAIN CaseOf THEN CaseOf[label] ELSE label

\* Without the trailing dots and in lower case.
Canonical(labels) ==
    LET keep == {i \in 1 .. Len(labels) : \E j \in i .. Len(labels) : labels[j] # ""}
    IN [i \in 1 .. Cardinality(keep) |-> Lower(labels[i])]

\* Two labels that are not empty.
TwoLabels(host) == \E i, j \in 1 .. Len(host) : i < j /\ host[i] # "" /\ host[j] # ""

\* Mutant of parse_pattern: a wildcard may be rooted anywhere.
parse_pattern_Anywhere(raw) ==
    LET host == Canonical(raw)
        wildcard == Len(host) > 1 /\ host[1] = "*"
    IN IF host = <<>> \/ (~wildcard /\ host[1] \in Starred) THEN NoPattern
       ELSE IF wildcard THEN [kind |-> "suffix", host |-> Tail(host)]
       ELSE [kind |-> "exact", host |-> host]

\* Pattern::parse: an exact host, or a wildcard below at least two labels that
\* are not a public suffix.  Nothing else begins with a star.
parse_pattern(raw) ==
    LET host == Canonical(raw)
        wildcard == Len(host) > 1 /\ host[1] = "*"
    IN IF \/ host = <<>>
          \/ wildcard /\ (~TwoLabels(Tail(host)) \/ Tail(host) \in PublicSuffixes)
          \/ ~wildcard /\ host[1] \in Starred
       THEN NoPattern
       ELSE IF wildcard THEN [kind |-> "suffix", host |-> Tail(host)]
       ELSE [kind |-> "exact", host |-> host]

\* A line that makes the whole list unusable: two words, or no pattern.
Malformed(line) == Len(line) > 1 \/ (Len(line) = 1 /\ parse_pattern(line[1]) = NoPattern)

Patterns(lines) == {parse_pattern(line[1]) : line \in {l \in Range(lines) : Len(l) = 1}}

\* DomainList::parse: an index is the sequence of its services, files map their
\* names to their lines.  A missing file, a malformed line and a list without
\* patterns are errors of the whole list.
parse(index, files) ==
    LET named == UNION {Range(index[i].files) : i \in 1 .. Len(index)}
        list == [i \in 1 .. Len(index) |->
                   [name |-> index[i].name,
                    patterns |-> UNION {Patterns(files[f]) : f \in Range(index[i].files)}]]
    IN IF \/ ~(named \subseteq DOMAIN files)
          \/ \E f \in named : \E line \in Range(files[f]) : Malformed(line)
       THEN NoList
       ELSE IF \A i \in 1 .. Len(list) : list[i].patterns = {} THEN NoList
       ELSE list
-----------------------------------------------------------------------------
\* Matcher::build: the two maps.  A pattern listed twice belongs to the last
\* service that lists it.
table(list, kind) ==
    LET has(i, h) == [kind |-> kind, host |-> h] \in list[i].patterns
        hosts == {p.host : p \in {q \in UNION {list[i].patterns : i \in 1 .. Len(list)} :
                                       q.kind = kind}}
    IN [h \in hosts |-> CHOOSE i \in 1 .. Len(list) :
                           has(i, h) /\ \A j \in i + 1 .. Len(list) : ~has(j, h)]

\* A Host header: labels, and a port that is absent, digits or something else.
\* (A bracketed IPv6 literal is one label.)
normalise_host(header) ==
    Canonical(IF header.port = "junk"
              THEN [header.labels EXCEPT ![Len(header.labels)] = "junk"]
              ELSE header.labels)

Below(host, n) == SubSeq(host, n + 1, Len(host))

\* Mutant of parents: a wildcard covers its own parent.
parents_Self(host) == 0 .. Len(host) - 1

\* service_for: how many labels to drop, from the first parent on.
parents(host) == 1 .. Len(host) - 1

NoService == "none"

\* service_for: the exact host, or the longest parent that has a wildcard.
service_for(list, header) ==
    LET host == normalise_host(header)
        exact == table(list, "exact")
        suffix == table(list, "suffix")
        hits == {n \in parents(host) : Below(host, n) \in DOMAIN suffix}
    IN IF host \in DOMAIN exact THEN list[exact[host]].name
       ELSE IF hits # {}
            THEN list[suffix[Below(host, CHOOSE n \in hits : \A m \in hits : n <= m)]].name
       ELSE NoService
-----------------------------------------------------------------------------
(***************************************************************************)
(* The reference: what a list says about a host.                           *)
(***************************************************************************)

Matches(p, host) ==
    IF p.kind = "exact" THEN p.host = host
    ELSE Len(host) > Len(p.host) /\ Below(host, Len(host) - Len(p.host)) = p.host

\* An exact pattern beats a wildcard and a longer wildcard a shorter one; of the
\* services that list the winning pattern the last one has the host.
MoreSpecific(p, q) == p.kind = "exact" \/ (q.kind = "suffix" /\ Len(p.host) >= Len(q.host))

Owners(list, host) ==
    LET all == {p \in UNION {list[i].patterns : i \in 1 .. Len(list)} : Matches(p, host)}
        best == {p \in all : \A q \in all : MoreSpecific(p, q)}
    IN {i \in 1 .. Len(list) : list[i].patterns \cap best # {}}

ServiceOf(list, host) ==
    LET owners == Owners(list, host)
    IN IF owners = {} THEN NoService
       ELSE list[CHOOSE i \in owners : \A j \in owners : j <= i].name

\* A list that can be put in charge of routing: it has a pattern, no pattern takes
\* in hosts under a public suffix, and none is a star read as a host.
Usable(list) ==
    LET all == UNION {list[i].patterns : i \in 1 .. Len(list)}
    IN /\ all # {}
       /\ \A p \in all : IF p.kind = "suffix"
                          THEN TwoLabels(p.host) /\ p.host \notin PublicSuffixes
                          ELSE p.host[1] \notin Starred
=============================================================================
