------------------------- MODULE VersionedResponse -------------------------
(***************************************************************************)
(* What a client of the cache is promised, whatever the cache does inside  *)
(* (FR-14): the headers of a response name one version of the object, and  *)
(* until the response is over the body only grows, in order, by slices of  *)
(* that version.  A response may end early; it never changes version.      *)
(***************************************************************************)
EXTENDS Naturals

CONSTANTS Requests, Slices, Versions

VARIABLE
    resp    \* each response: its status, the version promised, the slices sent

Waiting == [status |-> "waiting", promised |-> 0, sent |-> {}]
Over == [status |-> "over", promised |-> 0, sent |-> {}]

Init == resp = [r \in Requests |-> Waiting]

\* The response headers go out.
Begins(a, b) ==
    /\ a = Waiting
    /\ \E v \in Versions : b = [status |-> "streaming", promised |-> v, sent |-> {}]

\* More of the body goes out: later slices, of the promised version.
Continues(a, b) ==
    /\ a.status = "streaming"
    /\ b = [a EXCEPT !.sent = b.sent]
    /\ a.sent \subseteq b.sent
    /\ \A new \in b.sent \ a.sent :
          /\ new \in Slices \X {a.promised}
          /\ \A before \in a.sent : before[1] < new[1]

\* The response is complete or cut off.
Ends(a, b) == b = Over

\* One step of the cache may advance several responses.
Next == \A r \in Requests :
           \/ resp'[r] = resp[r]
           \/ Begins(resp[r], resp'[r])
           \/ Continues(resp[r], resp'[r])
           \/ Ends(resp[r], resp'[r])

Spec == Init /\ [][Next]_resp
=============================================================================
