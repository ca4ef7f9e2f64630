------------------------------ MODULE CacheKey ------------------------------
(***************************************************************************)
(* Cache keys: services/key.rs, with the rules of config/rules.rs and      *)
(* services/defaults.rs that shape them.  A path is a sequence of atoms:   *)
(* "/", a piece of a name, or an escape, which stands for another atom.    *)
(* A rule's pattern is a run of atoms, tied or not to either end of the    *)
(* path and to the case it is written in.                                  *)
(***************************************************************************)
EXTENDS DomainList

CONSTANTS
    Escapes,      \* escapes, with the atoms they stand for
    NotUtf8       \* escapes that do not decode to UTF-8

\* No query at all; an empty one still has its question mark.
NoQuery == <<"none">>

\* percent_decode: a path that does not decode is left as it was written.
percent_decode(path) ==
    IF Range(path) \cap NotUtf8 # {} THEN path
    ELSE [i \in 1 .. Len(path) |-> IF path[i] \in DOMAIN Escapes THEN Escapes[path[i]] ELSE path[i]]

\* The segments of a path: what lies between its slashes.
Segments(path) ==
    LET slashes == {0, Len(path) + 1} \cup {i \in 1 .. Len(path) : path[i] = "/"}
        next(i) == CHOOSE j \in slashes : j > i /\ \A k \in slashes : k > i => j <= k
    IN [n \in 1 .. Cardinality(slashes) - 1 |->
          LET i == CHOOSE j \in slashes : Cardinality({k \in slashes : k < j}) = n - 1
          IN SubSeq(path, i + 1, next(i) - 1)]

\* Mutant of Walk: a ".." is kept when there is nothing to remove.
Walk_KeepsUp(stack, segment) ==
    IF segment \in {<<>>, <<".">>} THEN stack
    ELSE IF segment = <<".", ".">> /\ stack # <<>> THEN Front(stack)
    ELSE Append(stack, segment)

\* normalise_path: one segment.
Walk(stack, segment) ==
    IF segment \in {<<>>, <<".">>} THEN stack
    ELSE IF segment = <<".", ".">> THEN IF stack = <<>> THEN <<>> ELSE Front(stack)
    ELSE Append(stack, segment)

\* The text of a path with these segments.
Joined(segments) == FlattenSeq([i \in 1 .. Len(segments) |-> <<"/">> \o segments[i]])

\* normalise_path: decoded, slashes collapsed, "." and ".." resolved; a trailing
\* slash stays.
normalise_path(path) ==
    LET decoded == percent_decode(path)
        stack == FoldLeft(Walk, <<>>, Segments(decoded))
    IN IF stack = <<>> THEN <<"/">>
       ELSE Joined(stack) \o (IF Last(decoded) = "/" THEN <<"/">> ELSE <<>>)

\* normalise: host, path and query as the rule says.
normalise(host, path, query, rule) ==
    (IF rule.include_host THEN host ELSE <<>>)
    \o normalise_path(path)
    \o (IF rule.keep_query /\ query # NoQuery THEN <<"?">> \o query ELSE <<>>)

\* CacheKey::object_id, with the hash taken as injective.
object_id(service, key) == <<service, key>>

\* ServiceRule::default, and CompiledRule::default with it.
DefaultRule == [keep_query |-> FALSE, include_host |-> FALSE, upstream_https |-> FALSE,
                include_paths |-> {}, exclude_paths |-> {}]

Pattern(start, atoms, end, fold) == [start |-> start, atoms |-> atoms, end |-> end, fold |-> fold]

\* Regex::is_match, for such patterns.
is_match(p, path) ==
    LET text == IF p.fold THEN [i \in 1 .. Len(path) |-> Lower(path[i])] ELSE path IN
    \E i \in 0 .. Len(path) - Len(p.atoms) :
       /\ SubSeq(text, i + 1, i + Len(p.atoms)) = p.atoms
       /\ p.start => i = 0
       /\ p.end => i + Len(p.atoms) = Len(path)

\* is_cacheable: exclusions win; no inclusions means every path.
is_cacheable(rule, path) ==
    /\ \A p \in rule.exclude_paths : ~is_match(p, path)
    /\ rule.include_paths = {} \/ \E p \in rule.include_paths : is_match(p, path)

Excluding(patterns) == [DefaultRule EXCEPT !.exclude_paths = patterns]

\* defaults::shipped.
shipped ==
    [defaults |-> DefaultRule,
     services |->
       [riot |-> Excluding({Pattern(FALSE, <<"releaselisting_">>, FALSE, FALSE),
                            Pattern(FALSE, <<".", "version">>, TRUE, FALSE)}),
        arenanet |-> Excluding({Pattern(TRUE, <<"/", "latest64">>, FALSE, FALSE)}),
        wsus |-> Excluding({Pattern(FALSE, <<name, ".", "cab">>, TRUE, TRUE) :
                              name \in {"authrootstl", "pinrulesstl", "disallowedcertstl"}}),
        steam |-> Excluding({Pattern(TRUE, <<"/", "server-status">>, TRUE, FALSE)})]]

\* defaults::merge: the operator's entries replace the shipped ones outright.
merge(operator) ==
    [defaults |-> operator.defaults,
     services |-> [s \in DOMAIN shipped.services \cup DOMAIN operator.services |->
                     IF s \in DOMAIN operator.services THEN operator.services[s]
                     ELSE shipped.services[s]]]

\* Rules::for_service.
for_service(rules, s) == IF s \in DOMAIN rules.services THEN rules.services[s] ELSE rules.defaults
=============================================================================
