------------------------------ MODULE Headers ------------------------------
(***************************************************************************)
(* proxy/headers.rs: which of a client's headers are sent to the origin,   *)
(* and the X-Cache value of a response.  A header map is the set of its    *)
(* names, in lower case; `named` is what its Connection header names.      *)
(***************************************************************************)
EXTENDS Naturals

HOP_BY_HOP == {"connection", "keep-alive", "proxy-authenticate", "proxy-authorization",
               "te", "trailer", "transfer-encoding", "upgrade"}

CREDENTIAL_HEADERS == {"authorization", "cookie"}

is_hop_by_hop(name, named) == name \in HOP_BY_HOP \cup named

\* Everything else the client sent is forwarded, its conditions included.
forwarded_request_headers(headers, named) ==
    {h \in headers : /\ ~is_hop_by_hop(h, named)
                     /\ h \notin {"host", "range"} \cup CREDENTIAL_HEADERS}

\* CacheStatus::classify
classify(resident, total) ==
    IF total = 0 \/ resident = total THEN "HIT"
    ELSE IF resident = 0 THEN "MISS"
    ELSE "PARTIAL"
=============================================================================
