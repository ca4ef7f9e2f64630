---------------------------- MODULE MCLifecycle ----------------------------
(***************************************************************************)
(* Two handlers and one object of two bytes, at slice sizes 1 and 2; the   *)
(* second size is also spelled in another unit.  Each rule of validate is  *)
(* broken by a configuration.  A kibibyte is 2 here.                       *)
(***************************************************************************)
EXTENDS Lifecycle

CONSTANTS h1, h2, Forced

N(n) == [number |-> n, unit |-> "b", si |-> FALSE]
Secs(n) == [N(n) EXCEPT !.unit = "s"]

Good == [slice_size |-> N(1), disk |-> N(8), mem |-> N(4), buffer_pool |-> N(8), min_free |-> N(1),
         max_age |-> Secs(9), refresh |-> Secs(0), flushers |-> 1,
         readahead |-> 1, max_inflight |-> 1, dns |-> {1}, http |-> 80, https |-> 443,
         admin |-> 9090, force_config |-> FALSE, rules |-> [readable |-> TRUE, services |-> {}],
         services |-> "good", admin_token |-> FALSE, loopback |-> TRUE]

Rule(slice_size, max_inflight) == [slice_size |-> slice_size, max_inflight |-> max_inflight]

Larger == [Good EXCEPT !.slice_size = [number |-> 1, unit |-> "k", si |-> FALSE],
                       !.rules.services = {Rule(N(4), 1)}, !.admin_token = TRUE, !.loopback = FALSE]

\* Refused by the parser, by validate, by the rules file and by the domain list.
Bad ==
    { [Good EXCEPT !.slice_size = [number |-> 1, unit |-> "x", si |-> FALSE]],
      [Good EXCEPT !.disk = [number |-> 9, unit |-> "t", si |-> TRUE]],
      [Good EXCEPT !.flushers = 0], [Good EXCEPT !.buffer_pool = N(3)],
      [Good EXCEPT !.slice_size = N(0)], [Good EXCEPT !.slice_size = N(3), !.buffer_pool = N(12)],
      [Good EXCEPT !.slice_size = N(8), !.buffer_pool = N(32), !.mem = N(8)],
      [Good EXCEPT !.disk = N(0)], [Good EXCEPT !.mem = N(0)], [Good EXCEPT !.readahead = 0],
      [Good EXCEPT !.max_inflight = 0], [Good EXCEPT !.dns = {}], [Good EXCEPT !.http = 9090],
      [Good EXCEPT !.https = 9090], [Good EXCEPT !.https = 80],
      [Good EXCEPT !.refresh = [number |-> 2, unit |-> "m", si |-> FALSE]],
      [Good EXCEPT !.rules.readable = FALSE], [Good EXCEPT !.rules.services = {Rule(N(3), -1)}],
      [Good EXCEPT !.rules.services = {Rule(N(Unset), 0)}], [Good EXCEPT !.services = "bad", !.loopback = FALSE] }

MCConfigs ==
    {[c EXCEPT !.force_config = f] : c \in {Good, Larger, [Larger EXCEPT !.slice_size = N(2)]},
                                     f \in Forced}
    \cup Bad

MCContent == <<7, 8>>
MCHeader == [slice_size |-> 0, total_len |-> 2, generation |-> 0, etag |-> <<5>>,
             last_modified |-> NoString, content_type |-> <<>>]
MCMetas ==
    {[key |-> <<4>>, total_len |-> 2, generation |-> g, etag |-> NoString, last_modified |-> <<>>,
      content_type |-> <<6, 6>>, no_ranges |-> g = 1, created |-> 3, last_seen |-> 9,
      stale |-> FALSE] : g \in {1}}
=============================================================================
