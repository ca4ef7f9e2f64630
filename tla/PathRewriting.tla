--------------------------- MODULE PathRewriting ---------------------------
(***************************************************************************)
(* When two decoded paths name the same thing, by rewriting: each rule     *)
(* removes one redundancy, and a path without any is in normal form.  The  *)
(* reference for normalise_path of CacheKey, which walks the segments.     *)
(***************************************************************************)
EXTENDS Integers, Sequences

\* What lies at positions i .. j of a path is one whole segment, or several.
Whole(path, i, j) == path[i] = "/" /\ (j = Len(path) \/ path[j + 1] = "/")

Cut(path, i, j) == SubSeq(path, 1, i - 1) \o SubSeq(path, j + 1, Len(path))

IsDot(path, i) == Whole(path, i, i + 1) /\ path[i + 1] = "."
IsUp(path, i) == Whole(path, i, i + 2) /\ path[i + 1] = "." /\ path[i + 2] = "."

\* Where the segment that starts at i ends.
SegmentEnd(path, i) ==
    CHOOSE j \in i .. Len(path) : Whole(path, i, j) /\ \A k \in i + 1 .. j : path[k] # "/"

\* The paths one rewriting step away: an empty segment, a ".", a ".." with the
\* segment before it or at the root.
Rewrites(path) ==
    LET n == Len(path) IN
    {Cut(path, i, i) : i \in {k \in 1 .. n - 1 : path[k] = "/" /\ path[k + 1] = "/"}}
    \cup {Cut(path, i, i + 1) : i \in {k \in 1 .. n - 1 : IsDot(path, k)}}
    \cup {Cut(path, i, i + 2) : i \in {k \in {1} \cap 1 .. n - 2 : IsUp(path, k)}}
    \cup {Cut(path, i, SegmentEnd(path, i) + 3) :
            i \in {k \in 1 .. n - 3 :
                     LET e == SegmentEnd(path, k) IN
                     /\ path[k] = "/" /\ e > k /\ ~IsDot(path, k) /\ ~IsUp(path, k)
                     /\ e + 3 <= n /\ IsUp(path, e + 1)}}

RECURSIVE NormalForm(_)
NormalForm(path) ==
    IF Rewrites(path) = {} THEN path ELSE NormalForm(CHOOSE p \in Rewrites(path) : TRUE)
=============================================================================
