----------------------------- MODULE Validators -----------------------------
(***************************************************************************)
(* orchestrator/validators.rs: how versions of an object are told apart.   *)
(* An ETag is strong, weak or absent; an If-Range header is an ETag, a     *)
(* date or blank.  Dates are compared as text.                             *)
(***************************************************************************)

NoTag == [kind |-> "none", text |-> "none"]
NoDate == "none"

\* Two ETags that are there: a weak one equals nothing, itself included.
strong_eq(a, b) == a.kind = "strong" /\ b.kind = "strong" /\ a.text = b.text

\* Validators::matches: the ETags decide if there is one; two silent origins match.
matches(a, b) ==
    IF a.etag # NoTag /\ b.etag # NoTag THEN strong_eq(a.etag, b.etag)
    ELSE a.etag = b.etag /\ a.last_modified = b.last_modified

if_range_matches(header, current) ==
    \/ header.kind \in {"strong", "weak"} /\ current.etag # NoTag /\ strong_eq(header, current.etag)
    \/ header.kind = "date" /\ current.last_modified # NoDate /\ header.text = current.last_modified
=============================================================================
