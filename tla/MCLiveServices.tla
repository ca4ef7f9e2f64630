--------------------------- MODULE MCLiveServices ---------------------------
(***************************************************************************)
(* A repository of four revisions: the startup list, one whose index is    *)
(* not JSON, one with wildcards that must be refused (a public suffix, one *)
(* label and an empty one, a star without a dot), and one that moves a     *)
(* host to another service, repeats a wildcard and adds a service.  Two    *)
(* requests: the Host header in several spellings, and paths that are or   *)
(* are not aliases of one another.                                         *)
(***************************************************************************)
EXTENDS LiveServices, PathRewriting

MCCaseOf == [l \in {"CDN"} |-> "cdn"]
MCPublicSuffixes == {<<"co", "uk">>}
MCStarred == {"*", "*s"}

Line(labels) == <<labels>>

MCRevisions ==
    << [index |-> <<[name |-> "steam", files |-> <<"s">>], [name |-> "riot", files |-> <<"r">>]>>,
        files |-> [s |-> <<<<>>, Line(<<"*", "s", "com">>), Line(<<"CDN", "s", "com", "">>)>>,
                   r |-> <<Line(<<"a", "s", "com">>), Line(<<"*", "b", "s", "com">>)>>]],
       [index |-> NoIndex, files |-> [s |-> <<<<>>>>]],
       [index |-> <<[name |-> "steam", files |-> <<"s">>], [name |-> "riot", files |-> <<"r">>]>>,
        files |-> [s |-> <<Line(<<"*", "co", "uk">>)>>, r |-> <<Line(<<"cdn", "com">>), Line(<<"*", "", "com">>), Line(<<"*s", "com">>)>>]],
       [index |-> <<[name |-> "steam", files |-> <<"s">>], [name |-> "riot", files |-> <<"r", "s">>],
                    [name |-> "new", files |-> <<"n", "n">>]>>,
        files |-> [s |-> <<Line(<<"*", "s", "com">>)>>,
                   r |-> <<Line(<<"cdn", "s", "com">>)>>,
                   n |-> <<Line(<<"new", "com">>)>>]] >>

\* The operator's entry for steam replaces the shipped one, exclusion and all.
MCOperator ==
    [defaults |-> [DefaultRule EXCEPT !.include_host = TRUE],
     services |-> [steam |-> [DefaultRule EXCEPT !.keep_query = TRUE]]]

MCEscapes == [e \in {"%61", "%2F", "%2E", "%3F"} |->
                IF e = "%61" THEN "a" ELSE IF e = "%2F" THEN "/" ELSE IF e = "%2E" THEN "." ELSE "?"]
MCNotUtf8 == {"%FF"}

Host(labels, port) == [labels |-> labels, port |-> port]
Get(host, path, query) == [method |-> "GET", host |-> host, path |-> path, query |-> query]

cdn == Host(<<"cdn", "s", "com">>, "none")

MCInputs ==
    {Get(h, <<"/", "a">>, NoQuery) :
       h \in {cdn, Host(<<"CDN", "s", "com", "">>, "digits"), Host(<<"cdn", "s", "com">>, "junk"),
              Host(<<"s", "com">>, "none"), Host(<<"b", "s", "com">>, "none"),
              Host(<<"x", "b", "s", "com">>, "digits"), Host(<<"new", "com">>, "none")}}
    \cup
    {Get(cdn, path, NoQuery) :
       path \in { <<"/", "%61">>, <<"/", "a", "/">>, <<"/", "/", "a">>, <<"/", ".", ".", "/", "a">>,
                  <<"/", "x", "/", ".", "%2E", "/", "a">>, <<"/", "a", "%2F", "x">>,
                  <<"/", "a", "/", ".", "/", "x">>, <<"/", "%FF">>, <<"/", "a", "%3F", "x">>,
                  <<"/", "x">>, <<"/", "lancache-heartbeat">> }}
    \cup {Get(Host(<<"a", "s", "com">>, "none"), path, NoQuery) :
             path \in {<<"/", "releaselisting_", "x">>, <<"/", "a", ".", "version">>}}
    \cup {Get(cdn, <<"/", "a">>, <<"x">>), Get(cdn, <<"/", "a">>, <<>>),
          Get(cdn, <<"/", "server-status">>, NoQuery),
          [Get(cdn, <<"/", "a">>, NoQuery) EXCEPT !.method = "POST"]}

\* The same object, by the rewriting of the decoded paths.
Form(path) == LET p == NormalForm(percent_decode(path)) IN IF p = <<>> THEN <<"/">> ELSE p
Same(rule, p, q) ==
    /\ Form(p.path) = Form(q.path)
    /\ rule.keep_query => p.query = q.query
    /\ rule.include_host => normalise_host(p.host) = normalise_host(q.host)

\* key.rs, normalise and object_id: two requests of a service share an object exactly
\* when their decoded and resolved paths agree, and their queries and hosts where the
\* service's rule keeps them; objects of two services are apart.  The exception is a
\* kept query next to an escaped question mark, which key.rs writes alike.
KeysNameObjects ==
    \A a, b \in Planned :
       LET rule == RuleOf(a.service)
           blurred == rule.keep_query /\ \E x \in {a, b} : "?" \in Range(percent_decode(x.request.path))
       IN IF a.service = b.service
          THEN blurred \/ (a.object = b.object <=> Same(rule, a.request, b.request))
          ELSE a.object # b.object
=============================================================================
