--------------------------- MODULE MCObjectCache ---------------------------
(***************************************************************************)
(* An object of two slices and a few requests.                             *)
(***************************************************************************)
EXTENDS ObjectCache, TLC

CONSTANTS r1, r2, r3

TwoRequests == {r1, r2}
ThreeRequests == {r1, r2, r3}
MCSlices == {0, 1}
WholeObject == {{0, 1}}
ThreeSlices == 0 .. 2
AllThree == {0 .. 2}
AnySpan == {{0}, {1}, {0, 1}}

\* Every version has a strong ETag; or only the first, and the next a weak one.
Tag(kind, v) == [etag |-> [kind |-> kind, text |-> v], last_modified |-> NoDate]
AllStrong == [v \in Versions |-> Tag("strong", v)]
ThenWeak == [v \in Versions |-> Tag(IF v = 1 THEN "strong" ELSE "weak", "tag")]

Interchangeable == Permutations(Requests)
=============================================================================
