---------------------------- MODULE LiveServices ----------------------------
(***************************************************************************)
(* Routing under a list that is refreshed: LiveServices, fetch and spawn   *)
(* of services/refresh.rs against requests in serve() of proxy/server.rs,  *)
(* with the rules compiled at startup in main.rs.                          *)
(*                                                                         *)
(* The repository is a sequence of revisions and moves on at any time, so  *)
(* a fetch, which reads the index and then one file after another, can     *)
(* read them from different revisions.  The counters of RefreshStats are   *)
(* left out.                                                               *)
(***************************************************************************)
EXTENDS CacheKey

CONSTANTS
    Revisions,      \* the repository over time: an index and files, each
    NoIndex,        \* an index that is not JSON
    MaxFailures,    \* bound: how many refreshes may fail for want of an answer
    Operator,       \* the operator's rules file
    MaxRequests,    \* bound: how many requests are answered
    Inputs,         \* what they may ask for
    Passthrough,    \* passthrough_unknown_hosts
    AllowHostPort   \* allow_host_port

VARIABLES
    revision,   \* where the repository is
    refresh,    \* the refresh task
    matcher,    \* LiveServices::matcher, as the list it was built from
    list,       \* LiveServices::list
    failures,   \* refreshes that found the repository unreachable
    responses   \* the answers to the requests, in the order they read the matcher

vars == <<revision, refresh, matcher, list, failures, responses>>

Sleeping == [at |-> "sleep"]

\* load_dir and bundled: an index and the files beside it.
Loaded(snapshot) ==
    IF snapshot.index = NoIndex THEN NoList ELSE parse(snapshot.index, snapshot.files)

\* The list at startup: bundled, or read from a directory.
StartupList == Loaded(Revisions[1])

\* What an index that is JSON deserialises to, and the files: lines of words.
Indexes == Seq([name : STRING, files : Seq(STRING)])
Files(files) == \A f \in DOMAIN files : files[f] \in Seq(Seq(Seq(STRING)))

ASSUME RevisionsType ==
    /\ Len(Revisions) \in Nat \ {0}
    /\ \A n \in 1 .. Len(Revisions) :
          /\ Revisions[n].index # NoIndex => Revisions[n].index \in Indexes
          /\ Files(Revisions[n].files)

\* main does not start without a list.
ASSUME StartupUsable == StartupList # NoList

ASSUME InputsType == \A q \in Inputs : q.host.labels \in Seq(STRING)

Init ==
    /\ revision = 1
    /\ refresh = Sleeping
    /\ matcher = StartupList
    /\ list = StartupList
    /\ failures = 0
    /\ responses = <<>>

\* The repository gets a new revision.
Commit ==
    /\ revision < Len(Revisions)
    /\ revision' = revision + 1
    /\ UNCHANGED <<refresh, matcher, list, failures, responses>>
-----------------------------------------------------------------------------
\* fetch: the index, after the interval; an index that is not JSON ends it.
FetchIndex ==
    /\ refresh.at = "sleep"
    /\ refresh' = IF Revisions[revision].index = NoIndex THEN Sleeping
                  ELSE [at |-> "files", index |-> Revisions[revision].index, files |-> <<>>]
    /\ UNCHANGED <<revision, matcher, list, failures, responses>>

\* The next file to fetch, in the order of the index; one that was fetched is not
\* fetched again.
Wanted ==
    LET names == FlattenSeq([i \in 1 .. Len(refresh.index) |-> refresh.index[i].files])
    IN SelectSeq(names, LAMBDA f : f \notin DOMAIN refresh.files)

\* fetch: one file, as the repository has it now; a missing file ends the fetch.
FetchFile ==
    /\ refresh.at = "files" /\ Wanted # <<>>
    /\ LET f == Head(Wanted)
           now == Revisions[revision].files
       IN refresh' = IF f \notin DOMAIN now THEN Sleeping
                     ELSE [refresh EXCEPT !.files = [g \in DOMAIN @ \cup {f} |->
                                                       IF g = f THEN now[f] ELSE @[g]]]
    /\ UNCHANGED <<revision, matcher, list, failures, responses>>

\* Mutant of FetchFails: the error ends the loop.
FetchFails_Ends ==
    /\ failures < MaxFailures
    /\ refresh.at = "sleep" \/ (refresh.at = "files" /\ Wanted # <<>>)
    /\ failures' = failures + 1
    /\ refresh' = [at |-> "ended"]
    /\ UNCHANGED <<revision, matcher, list, responses>>

\* Either request of fetch fails: the refresh is over, the list stays.
FetchFails ==
    /\ failures < MaxFailures
    /\ refresh.at = "sleep" \/ (refresh.at = "files" /\ Wanted # <<>>)
    /\ failures' = failures + 1
    /\ refresh' = Sleeping
    /\ UNCHANGED <<revision, matcher, list, responses>>

\* fetch's parse and apply up to the first swap: an unusable list is not applied
\* and an unchanged one neither.
ApplyMatcher ==
    /\ refresh.at = "files" /\ Wanted = <<>>
    /\ LET candidate == parse(refresh.index, refresh.files) IN
         IF candidate = NoList \/ candidate = list
         THEN refresh' = Sleeping /\ UNCHANGED matcher
         ELSE /\ matcher' = candidate
              /\ refresh' = [at |-> "swapped", candidate |-> candidate]
    /\ UNCHANGED <<revision, list, failures, responses>>

\* apply, the second swap.
ApplyList ==
    /\ refresh.at = "swapped"
    /\ list' = refresh.candidate
    /\ refresh' = Sleeping
    /\ UNCHANGED <<revision, matcher, failures, responses>>

RefreshStep == FetchIndex \/ FetchFile \/ ApplyMatcher \/ ApplyList
-----------------------------------------------------------------------------
Names(l) == {l[i].name : i \in 1 .. Len(l)}

\* main: rules are compiled for the services of the startup list, and serve falls
\* back to the default rule for any other service.
RuleOf(service) ==
    IF service \in Names(StartupList) THEN for_service(merge(Operator), service)
    ELSE DefaultRule

\* heartbeat.rs.
is_heartbeat(path) == path = <<"/", "lancache-heartbeat">>
Heartbeat == [status |-> 204]

\* serve, up to the plan: the answer, or the object and the URL it is fetched from.
Answer(q) ==
    LET service == service_for(matcher, q.host)
        rule == RuleOf(service)
        host == normalise_host(q.host)
    IN IF is_heartbeat(q.path) THEN Heartbeat
       ELSE IF q.method \notin {"GET", "HEAD"} THEN [status |-> 405]
       ELSE IF service = NoService THEN [status |-> IF Passthrough THEN 501 ELSE 404]
       ELSE IF ~is_cacheable(rule, q.path) THEN [status |-> 501]
       ELSE [status |-> 200, request |-> q, list |-> matcher, service |-> service,
             object |-> object_id(service, normalise(host, q.path, q.query, rule)),
             scheme |-> IF rule.upstream_https THEN "https" ELSE "http",
             url |-> IF AllowHostPort THEN q.host
                     ELSE [labels |-> host, port |-> "none"]]

\* A request reads the matcher once.
Serve(q) ==
    /\ Len(responses) < MaxRequests
    /\ responses' = Append(responses, Answer(q))
    /\ UNCHANGED <<revision, refresh, matcher, list, failures>>

Next ==
    \/ Commit
    \/ FetchIndex
    \/ FetchFile
    \/ FetchFails
    \/ ApplyMatcher
    \/ ApplyList
    \/ \E q \in Inputs : Serve(q)

Spec == Init /\ [][Next]_vars

\* The refresh loop runs for ever.
FairSpec == Spec /\ WF_vars(RefreshStep)
-----------------------------------------------------------------------------
Planned == {a \in Range(responses) : a.status = 200}

\* refresh.rs, "A malformed or empty refresh is rejected and the previous list keeps
\* serving": whatever the repository holds, and whichever revisions a fetch mixed, the
\* matcher in charge has patterns, none of them under a public suffix, and the list
\* differs from it only within apply.
LiveListUsable ==
    /\ Usable(matcher)
    /\ refresh.at # "swapped" => list = matcher

\* matcher.rs and server.rs: a request goes to the service its host's most specific
\* pattern names in a list that was in charge, and is fetched from that host, at the
\* port of the scheme, whatever the Host header adds to it.
RoutesBySpecificity ==
    \A a \in Planned :
       /\ a.service = ServiceOf(a.list, normalise_host(a.request.host))
       /\ ~AllowHostPort => a.url.port = "none" /\ ServiceOf(a.list, a.url.labels) = a.service

\* refresh.rs, spawn: once the repository stays at a usable revision, the matcher
\* follows it, in spite of failed fetches and mixed ones.
RefreshCatchesUp ==
    \A n \in 1 .. Len(Revisions) :
       LET target == Loaded(Revisions[n])
       IN target # NoList => (<>[](revision = n) => <>[](matcher = target))
=============================================================================
