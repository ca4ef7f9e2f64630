----------------------------- MODULE BodyStream -----------------------------
(***************************************************************************)
(* One response: serve of proxy/server.rs from the Range and If-Range      *)
(* headers to the last byte of the body, over the arithmetic of            *)
(* proxy/range.rs.  The body is a `buffered` stream of slice tasks: tasks  *)
(* finish in any order, frames go out in slice order, and at most          *)
(* Readahead slices are held at a time.                                    *)
(***************************************************************************)
EXTENDS RangePlan, FiniteSets

CONSTANTS
    SliceSize,    \* CACHE_SLICE_SIZE
    Readahead,    \* READAHEAD_SLICES
    Totals,       \* object lengths
    Specs         \* Range headers, parsed

ASSUME SizesNat == SliceSize \in Nat \ {0} /\ Readahead \in Nat \ {0}
ASSUME TotalsNat == Totals \subseteq 0 .. MaxAddressable(SliceSize)
ASSUME SpecsType ==
    \A spec \in Specs : /\ spec \in [kind : {"fromto", "from", "suffix", "none"}, from : Nat, to : Nat]
                        /\ spec.kind = "fromto" => spec.from <= spec.to
                        /\ spec.kind = "none" => spec = NoSpec

VARIABLES
    status,     \* "new", then how the response stands
    total,      \* Plan.total_len
    spec,       \* the client's Range header
    ifRange,    \* its If-Range header: absent, naming this entity, or another
    wanted,     \* Plan.wanted
    spawned,    \* the next slice to spawn a task for
    tasks,      \* the slices held: index -> payload length, or Pending or Broken
    next,       \* the next slice to send
    sent        \* bytes of body sent

vars == <<status, total, spec, ifRange, wanted, spawned, tasks, next, sent>>

Pending == -1
Broken == -2
NoBytes == Bytes(0, 0)

Last == LastSlice(wanted, SliceSize)
ExtentLen(i) == RangeLen(SliceExtent(i, SliceSize, total))

Init ==
    /\ status = "new"
    /\ total \in Totals
    /\ spec \in Specs
    /\ ifRange \in {"absent", "same", "other"}
    /\ wanted = NoBytes
    /\ spawned = 0
    /\ tasks = [i \in {} |-> 0]
    /\ next = 0
    /\ sent = 0
-----------------------------------------------------------------------------
\* The response headers are out; an empty object has no body.
Begin(code, range) ==
    /\ status' = IF total = 0 THEN "complete" ELSE code
    /\ wanted' = range
    /\ spawned' = FirstSlice(range, SliceSize)
    /\ next' = FirstSlice(range, SliceSize)
    /\ UNCHANGED <<total, spec, ifRange, tasks, sent>>

Whole == IF total = 0 THEN NoBytes ELSE Resolve(NoSpec, total)

\* serve: the range cannot be satisfied, 416.  If-Range has not been looked at.
Refuse ==
    /\ status = "new"
    /\ spec.kind # "none"
    /\ ~Satisfiable(spec, total)
    /\ status' = "unsatisfiable"
    /\ UNCHANGED <<total, spec, ifRange, wanted, spawned, tasks, next, sent>>

\* serve: no usable Range header, or If-Range names another entity, in which case
\* the response is planned again without the range.  200.
SendWhole ==
    /\ status = "new"
    /\ \/ spec.kind = "none"
       \/ Satisfiable(spec, total) /\ ifRange = "other"
    /\ Begin("whole", Whole)

\* serve: 206.
SendPart ==
    /\ status = "new"
    /\ spec.kind # "none"
    /\ Satisfiable(spec, total)
    /\ ifRange # "other"
    /\ Begin("part", Resolve(spec, total))

Streaming == status \in {"whole", "part"}

\* The stream spawns the task of the next slice, if the window has room.
Spawn ==
    /\ Streaming
    /\ spawned <= Last
    /\ Cardinality(DOMAIN tasks) < Readahead
    /\ tasks' = [i \in DOMAIN tasks \cup {spawned} |-> IF i = spawned THEN Pending ELSE tasks[i]]
    /\ spawned' = spawned + 1
    /\ UNCHANGED <<status, total, spec, ifRange, wanted, next, sent>>

\* A slice task ends, in any order: with the slice, with one that is too short
\* (a probe stores what it was sent), or with an error.
SliceDone(i) ==
    /\ tasks[i] = Pending
    /\ \E result \in {ExtentLen(i), ExtentLen(i) - 1, Broken} :
          tasks' = [tasks EXCEPT ![i] = result]
    /\ UNCHANGED <<status, total, spec, ifRange, wanted, spawned, next, sent>>

WinFrom(i) == WindowFrom(i, SliceSize, wanted)
WinTo(i) == WindowTo(i, SliceSize, wanted)

\* The slice that is next in order is ready and holds its window: a frame.
SendFrame ==
    /\ Streaming
    /\ next \in DOMAIN tasks
    /\ tasks[next] >= 0
    /\ WinTo(next) <= tasks[next]
    /\ sent' = sent + WinTo(next) - WinFrom(next)
    /\ next' = next + 1
    /\ tasks' = [i \in DOMAIN tasks \ {next} |-> tasks[i]]
    /\ UNCHANGED <<status, total, spec, ifRange, wanted, spawned>>

\* Mutant of SendError: only a failed task ends the body.
SendError_BrokenOnly ==
    /\ Streaming
    /\ next \in DOMAIN tasks
    /\ tasks[next] = Broken
    /\ status' = "aborted"
    /\ tasks' = [i \in {} |-> 0]
    /\ UNCHANGED <<total, spec, ifRange, wanted, spawned, next, sent>>

\* Mutant of SendError: the window goes out before its slice is looked at.
SendError_AfterFrame ==
    /\ Streaming
    /\ next \in DOMAIN tasks
    /\ tasks[next] # Pending
    /\ tasks[next] >= 0 => WinTo(next) > tasks[next]
    /\ status' = "aborted"
    /\ tasks' = [i \in {} |-> 0]
    /\ sent' = sent + WinTo(next) - WinFrom(next)
    /\ UNCHANGED <<total, spec, ifRange, wanted, spawned, next>>

\* The slice that is next in order failed or is too short: the body ends in an
\* error; the tasks still running are detached.
SendError ==
    /\ Streaming
    /\ next \in DOMAIN tasks
    /\ tasks[next] # Pending
    /\ tasks[next] >= 0 => WinTo(next) > tasks[next]
    /\ status' = "aborted"
    /\ tasks' = [i \in {} |-> 0]
    /\ UNCHANGED <<total, spec, ifRange, wanted, spawned, next, sent>>

\* The stream is exhausted.
End ==
    /\ Streaming
    /\ next > Last
    /\ status' = "complete"
    /\ UNCHANGED <<total, spec, ifRange, wanted, spawned, tasks, next, sent>>

Ended == status \in {"unsatisfiable", "complete", "aborted"}

ServeStep == Refuse \/ SendWhole \/ SendPart
StreamStep == Spawn \/ SendFrame \/ SendError \/ End
Next == ServeStep \/ StreamStep \/ (\E i \in DOMAIN tasks : SliceDone(i))

Spec == Init /\ [][Next]_vars

\* The connection task is polled, slice tasks end, and the client reads.
FairSpec ==
    /\ Spec
    /\ WF_vars(ServeStep)
    /\ WF_vars(StreamStep)
    /\ WF_vars(\E i \in DOMAIN tasks : SliceDone(i))
-----------------------------------------------------------------------------
\* Types; slices are held from the next one to send up to the last one spawned.
TypeOK ==
    /\ status \in {"new", "whole", "part", "unsatisfiable", "complete", "aborted"}
    /\ total \in Totals
    /\ spec \in Specs
    /\ ifRange \in {"absent", "same", "other"}
    /\ wanted \in [start : Nat, end : Nat]
    /\ spawned \in Nat /\ next \in Nat /\ sent \in Nat
    /\ Streaming => DOMAIN tasks = next .. spawned - 1
    /\ \A i \in DOMAIN tasks : tasks[i] \in {Pending, Broken} \cup Nat

\* proxy/range.rs: "each slice window concatenates back to exactly the requested
\* range, with no gaps and no overlaps".  While the body streams, what is sent
\* reaches exactly up to the first byte of the next slice.
FramesTile ==
    Streaming =>
       wanted.start + sent = IF next > Last THEN wanted.end + 1
                             ELSE Max2(wanted.start, next * SliceSize)

\* proxy/server.rs, serve: a body that ends without an error is as long as its
\* Content-Length, and of a satisfiable range no byte outside the object is sent.
CompleteIsWhole ==
    status = "complete" => /\ sent = IF total = 0 THEN 0 ELSE RangeLen(wanted)
                           /\ wanted.start + sent <= total

\* proxy/server.rs, serve: the status and Content-Length are out when a slice
\* fails, so a client can only tell by the length.  A body that ends in an error
\* is short, wherever it fails and whatever later slices had arrived: exactly the
\* bytes before the slice that failed, and no byte of it or of a later one.
AbortedIsShort ==
    status = "aborted" => /\ sent < RangeLen(wanted)
                          /\ wanted.start + sent = Max2(wanted.start, next * SliceSize)

\* proxy/server.rs: every response ends; the window never blocks itself.
ResponseEnds == <>Ended

\* proxy/server.rs: "If-Range means send the range if the entity is unchanged,
\* otherwise send the whole object".
IfRangeHonoured ==
    ifRange = "other" /\ total > 0 => status \notin {"part", "unsatisfiable"}
=============================================================================
