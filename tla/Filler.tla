------------------------------- MODULE Filler -------------------------------
(***************************************************************************)
(* One object whose origin ignores Range: ensure_filled and run_fill of    *)
(* orchestrator/mod.rs over the object-level single-flight of              *)
(* orchestrator/filler.rs.  One slice task streams the whole object, cuts  *)
(* it into slices and publishes how far it is; the others subscribe.       *)
(*                                                                         *)
(* A fill is named by the task that runs it.  The index entry of such an   *)
(* object is never invalidated, so every plan names version 1 and the      *)
(* generation is fixed; the slice store is a map from index to version.    *)
(***************************************************************************)
EXTENDS Integers, FiniteSets, Sequences

CONSTANTS
    Requests,
    Tasks,       \* slice tasks <<request, slice index>>
    Length,      \* Length[v]: the number of slices of version v
    NoFill       \* nothing registered, or nothing subscribed to

ASSUME TasksType == Tasks \subseteq Requests \X Nat /\ IsFiniteSet(Tasks)
ASSUME LengthType == Length \in Seq(Nat \ {0}) /\ Length # <<>>
ASSUME NoFillFresh == NoFill \notin Tasks

VARIABLES
    origin,     \* the version the origin serves now
    store,      \* the slices of the object in the store: index -> version
    evicted,    \* slices the store has dropped, for the properties
    registry,   \* FillRegistry: the fill registered for the object
    task,       \* where each slice task is
    got,        \* the version a finished task returned
    progress,   \* Fill.tx: the watch channel of each fill
    body,       \* the version each fill streams
    written,    \* run_fill's index: how many slices a fill has stored
    sub,        \* the fill a task subscribes to
    seen        \* the progress value a subscriber has looked at

fillVars == <<progress, body, written>>
vars == <<origin, store, evicted, registry, task, got, fillVars, sub, seen>>

Versions == DOMAIN Length
Slice(t) == t[2]

Ready(n) == [state |-> "ready", count |-> n]
Complete(n) == [state |-> "complete", count |-> n]
Failed == [state |-> "failed", count |-> 0]
Unseen == [state |-> "unseen", count |-> 0]

\* Progress::covers
Covers(p, i) == p.state \in {"ready", "complete"} /\ i < p.count

Init ==
    /\ origin = 1
    /\ store = [i \in {} |-> 0]
    /\ evicted = {}
    /\ registry = NoFill
    /\ task = [t \in Tasks |-> "idle"]
    /\ got = [t \in Tasks |-> 0]
    /\ progress = [t \in Tasks |-> Ready(0)]
    /\ body = [t \in Tasks |-> 0]
    /\ written = [t \in Tasks |-> 0]
    /\ sub = [t \in Tasks |-> NoFill]
    /\ seen = [t \in Tasks |-> Unseen]

Goto(t, label) == task' = [task EXCEPT ![t] = label]
-----------------------------------------------------------------------------
\* ensure_filled: a slice that is stored needs no fill.
Check(t) ==
    /\ task[t] = "idle"
    /\ Goto(t, IF Slice(t) \in DOMAIN store THEN "read" ELSE "claim")
    /\ UNCHANGED <<origin, store, evicted, registry, got, fillVars, sub, seen>>

\* Mutant of Claim: the lookup and the insertion are not one critical section.
Claim_Unlocked(t) ==
    /\ task[t] = "claim"
    /\ registry' = t
    /\ Goto(t, "opening")
    /\ UNCHANGED <<origin, store, evicted, got, fillVars, sub, seen>>

\* FillRegistry::claim: run the fill, or subscribe to the one registered.
Claim(t) ==
    /\ task[t] = "claim"
    /\ IF registry = NoFill
       THEN /\ registry' = t
            /\ Goto(t, "opening")
            /\ UNCHANGED sub
       ELSE /\ sub' = [sub EXCEPT ![t] = registry]
            /\ Goto(t, "waiting")
            /\ UNCHANGED registry
    /\ UNCHANGED <<origin, store, evicted, got, fillVars, seen>>

\* run_fill: fetch_stream answers with the whole object as it is now.  Its
\* validators are not compared with the plan's.
StreamOpen(t) ==
    /\ task[t] = "opening"
    /\ body' = [body EXCEPT ![t] = origin]
    /\ Goto(t, "streaming")
    /\ UNCHANGED <<origin, store, evicted, registry, got, progress, written, sub, seen>>

\* run_fill: a slice's worth of bytes has arrived, or the rest at the end, and is
\* inserted.
StreamSlice(t) ==
    /\ task[t] = "streaming"
    /\ written[t] < Length[body[t]]
    /\ store' = [i \in DOMAIN store \cup {written[t]} |->
                    IF i = written[t] THEN body[t] ELSE store[i]]
    /\ written' = [written EXCEPT ![t] = @ + 1]
    /\ Goto(t, "publish")
    /\ UNCHANGED <<origin, evicted, registry, got, progress, body, sub, seen>>

\* Mutant of Publish: one slice ahead of what is stored.
Publish_Ahead(t) ==
    /\ task[t] = "publish"
    /\ progress' = [progress EXCEPT ![t] = Ready(written[t] + 1)]
    /\ Goto(t, "streaming")
    /\ UNCHANGED <<origin, store, evicted, registry, got, body, written, sub, seen>>

\* Mutant of Publish: `send` with no receiver alive leaves the value unchanged.
Publish_Send(t) ==
    /\ task[t] = "publish"
    /\ progress' = IF \E s \in Tasks : sub[s] = t
                   THEN [progress EXCEPT ![t] = Ready(written[t])] ELSE progress
    /\ Goto(t, "streaming")
    /\ UNCHANGED <<origin, store, evicted, registry, got, body, written, sub, seen>>

\* Fill::publish
Publish(t) ==
    /\ task[t] = "publish"
    /\ progress' = [progress EXCEPT ![t] = Ready(written[t])]
    /\ Goto(t, "streaming")
    /\ UNCHANGED <<origin, store, evicted, registry, got, body, written, sub, seen>>

\* The stream ends: run_fill returns Ok.
StreamEnd(t) ==
    /\ task[t] = "streaming"
    /\ written[t] = Length[body[t]]
    /\ Goto(t, "completing")
    /\ UNCHANGED <<origin, store, evicted, registry, got, fillVars, sub, seen>>

\* fetch_stream or the stream fails: run_fill returns Err.
StreamError(t) ==
    /\ task[t] \in {"opening", "streaming"}
    /\ Goto(t, "failing")
    /\ UNCHANGED <<origin, store, evicted, registry, got, fillVars, sub, seen>>

\* FillRegistry::release, before the terminal state is published.
Release(t) ==
    /\ task[t] \in {"completing", "failing"}
    /\ registry' = NoFill
    /\ Goto(t, IF task[t] = "completing" THEN "complete" ELSE "fail")
    /\ UNCHANGED <<origin, store, evicted, got, fillVars, sub, seen>>

\* Fill::complete; the filler goes on to read its own slice, if the object has it.
FinishComplete(t) ==
    /\ task[t] = "complete"
    /\ progress' = [progress EXCEPT ![t] = Complete(written[t])]
    /\ Goto(t, IF Slice(t) < written[t] THEN "read" ELSE "failed")
    /\ UNCHANGED <<origin, store, evicted, registry, got, body, written, sub, seen>>

\* Mutant of FinishFail: subscribers are not told.
FinishFail_Silent(t) ==
    /\ task[t] = "fail"
    /\ Goto(t, "failed")
    /\ UNCHANGED <<origin, store, evicted, registry, got, fillVars, sub, seen>>

\* Fill::fail
FinishFail(t) ==
    /\ task[t] = "fail"
    /\ progress' = [progress EXCEPT ![t] = Failed]
    /\ Goto(t, "failed")
    /\ UNCHANGED <<origin, store, evicted, registry, got, body, written, sub, seen>>

\* wait_for: a value the receiver has not seen yet; changed() wakes it for one.
WaitFor(t) ==
    LET p == progress[sub[t]]
    IN  /\ task[t] = "waiting"
        /\ seen[t] # p
        /\ IF p.state = "ready" /\ ~Covers(p, Slice(t))
           THEN /\ seen' = [seen EXCEPT ![t] = p]
                /\ UNCHANGED <<task, sub>>
           ELSE /\ Goto(t, IF Covers(p, Slice(t)) THEN "read" ELSE "failed")
                /\ seen' = [seen EXCEPT ![t] = Unseen]
                /\ sub' = [sub EXCEPT ![t] = NoFill]
        /\ UNCHANGED <<origin, store, evicted, registry, got, fillVars>>

\* slice: the store is read for the slice that was reported ready; if it is gone
\* the task fails.
Read(t) ==
    /\ task[t] = "read"
    /\ IF Slice(t) \in DOMAIN store
       THEN got' = [got EXCEPT ![t] = store[Slice(t)]] /\ Goto(t, "ok")
       ELSE Goto(t, "failed") /\ UNCHANGED got
    /\ UNCHANGED <<origin, store, evicted, registry, fillVars, sub, seen>>

\* External: a new version of the object is published.
OriginChange ==
    /\ origin + 1 \in Versions
    /\ origin' = origin + 1
    /\ UNCHANGED <<store, evicted, registry, task, got, fillVars, sub, seen>>

\* The store drops a slice.
Evict(i) ==
    /\ store' = [j \in DOMAIN store \ {i} |-> store[j]]
    /\ evicted' = evicted \cup {i}
    /\ UNCHANGED <<origin, registry, task, got, fillVars, sub, seen>>

\* Steps that wait for the origin, and steps that only need the scheduler.
StreamStep(t) == StreamOpen(t) \/ StreamSlice(t) \/ StreamEnd(t) \/ StreamError(t)
LocalStep(t) ==
    \/ Claim(t) \/ Publish(t) \/ Release(t) \/ FinishComplete(t) \/ FinishFail(t)
    \/ WaitFor(t) \/ Read(t)

Next ==
    \/ \E t \in Tasks : Check(t) \/ StreamStep(t) \/ LocalStep(t)
    \/ OriginChange
    \/ \E i \in DOMAIN store : Evict(i)

Spec == Init /\ [][Next]_vars

\* The runtime schedules tasks; the origin may stall for ever.
FairSpec == Spec /\ \A t \in Tasks : WF_vars(LocalStep(t))

-----------------------------------------------------------------------------
Filling(t) == task[t] \in {"opening", "streaming", "publish", "completing", "failing"}

\* Types; a subscriber has a fill to wait for, and a fill stores no slice past
\* the end of what it streams.
TypeOK ==
    /\ origin \in Versions
    /\ DOMAIN store \subseteq Nat /\ \A i \in DOMAIN store : store[i] \in Versions
    /\ evicted \subseteq Nat
    /\ registry \in Tasks \cup {NoFill}
    /\ task \in [Tasks -> {"idle", "claim", "opening", "streaming", "publish", "completing",
                           "failing", "complete", "fail", "waiting", "read", "ok", "failed"}]
    /\ got \in [Tasks -> Versions \cup {0}]
    /\ progress \in [Tasks -> [state : {"ready", "complete", "failed"}, count : Nat]]
    /\ body \in [Tasks -> Versions \cup {0}]
    /\ written \in [Tasks -> Nat]
    /\ sub \in [Tasks -> Tasks \cup {NoFill}]
    /\ seen \in [Tasks -> [state : {"unseen", "ready", "complete", "failed"}, count : Nat]]
    /\ \A t \in Tasks : task[t] = "waiting" => sub[t] # NoFill
    /\ \A t \in Tasks : body[t] # 0 => written[t] <= Length[body[t]]

\* orchestrator/filler.rs, claim and release (FR-32): one task streams the body,
\* and it is the registered one for as long as it does, so that a fill can always
\* be joined and one that failed can always be replaced.
OneFiller ==
    /\ \A t \in Tasks : Filling(t) <=> registry = t
    /\ registry # NoFill => Filling(registry)

\* orchestrator/filler.rs, Progress::Ready: "Slices 0..count are stored and
\* readable".  A task sent to the store finds its slice unless the store has
\* dropped it since.
ReadyIsReadable ==
    \A t \in Tasks : task[t] = "read" => Slice(t) \in DOMAIN store \cup evicted

\* orchestrator/filler.rs, wait_for: a subscriber wakes when its slice lands, or
\* the fill ends, even if the origin never sends another byte.
WakesAtItsSlice ==
    \A t \in Tasks :
       (/\ task[t] = "waiting"
        /\ \/ Slice(t) < written[sub[t]]
           \/ task[sub[t]] \in {"completing", "failing"})
          ~> task[t] # "waiting"

\* orchestrator/mod.rs, ensure_filled: provided the origin answers, breaks off or
\* times out, every task ends; a failed fill leaves nobody waiting.
FillsEnd ==
    (\A t \in Tasks : WF_vars(StreamStep(t)))
       => \A t \in Tasks : task[t] # "idle" ~> task[t] \in {"ok", "failed"}

\* docs/cachic-PRD.md FR-14: a response is never assembled from two versions of
\* the object.
OneVersionPerResponse ==
    \A s, t \in Tasks :
       s[1] = t[1] /\ task[s] = "ok" /\ task[t] = "ok" => got[s] = got[t]
=============================================================================
