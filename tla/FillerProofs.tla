---------------------------- MODULE FillerProofs ----------------------------
(***************************************************************************)
(* The object-level single-flight is safe for any tasks, any number of     *)
(* requests and versions of any lengths: one fill at a time, and a task    *)
(* that is told to read finds its slice unless it was evicted.             *)
(*                                                                         *)
(* That a reader finds its slice rests on what is published never being    *)
(* ahead of what was written (Published), and on what was written having   *)
(* been stored (Written).                                                  *)
(*                                                                         *)
(* No subscriber is left behind (NoWaiterStranded) because a fill's        *)
(* channel lags behind what is written only between an insertion and its   *)
(* publication (Told), the fill a task waits for is ended by somebody or   *)
(* has been (Followed), and nothing a subscriber has looked at was a       *)
(* reason to return (LookedAt).                                            *)
(***************************************************************************)
EXTENDS Filler, TLAPS

\* The solver's time limit, in seconds.
USE ZenonT(60)

Labels == {"idle", "claim", "opening", "streaming", "publish", "completing", "failing",
           "complete", "fail", "waiting", "read", "ok", "failed"}

Seen == DOMAIN store \cup evicted

\* What a fill has written was stored, for any subscriber to read.
Written == \A t \in Tasks : \A i \in Nat : i < written[t] => i \in Seen

Published == \A t \in Tasks : progress[t].count <= written[t]

\* A fill streams once: until it opens its stream it has neither a body nor slices.
Fresh ==
    \A t \in Tasks :
       /\ task[t] \in {"idle", "claim", "opening"} => body[t] = 0
       /\ body[t] = 0 => written[t] = 0
       /\ task[t] \in {"streaming", "publish", "completing"} => body[t] # 0

IInv == TypeOK /\ OneFiller /\ ReadyIsReadable /\ Written /\ Published /\ Fresh
-----------------------------------------------------------------------------
LEMMA Typing ==
    ASSUME TypeOK, NEW t \in Tasks
    PROVE  /\ Slice(t) \in Nat /\ t # NoFill
           /\ written[t] \in Nat /\ progress[t].count \in Nat
           /\ body[t] \in Versions => Length[body[t]] \in Nat \ {0}
           /\ DOMAIN Length = Versions
           /\ 0 \notin Versions
  <1>1. Slice(t) \in Nat
    BY TasksType DEF Slice
  <1>2. 0 \notin Versions /\ \A v \in Versions : Length[v] \in Nat \ {0}
    BY LengthType, SMTT(60) DEF Versions
  <1> QED
    BY <1>1, <1>2, NoFillFresh DEF TypeOK, Versions

LEMMA InitIInv == Init => IInv
  <1> SUFFICES ASSUME Init PROVE IInv
    OBVIOUS
  <1>1. 1 \in Versions
    BY LengthType, SMTT(60) DEF Versions
  <1>2. TypeOK
    BY <1>1 DEF Init, TypeOK, Ready, Unseen
  <1>3. OneFiller /\ ReadyIsReadable
    BY NoFillFresh DEF Init, OneFiller, Filling, ReadyIsReadable
  <1>4. Written /\ Published /\ Fresh
    BY SMTT(60) DEF Init, Written, Published, Fresh, Ready
  <1> QED
    BY <1>2, <1>3, <1>4 DEF IInv

LEMMA GotoType ==
    ASSUME task \in [Tasks -> Labels], NEW t, NEW l \in Labels, Goto(t, l)
    PROVE  task' \in [Tasks -> Labels]
  BY DEF Goto

\* Steps that leave the fills, the store and the registry alone.
LEMMA ReaderSteps ==
    ASSUME IInv, NEW t \in Tasks, Check(t) \/ WaitFor(t) \/ Read(t)
    PROVE  IInv'
  <1> USE DEF IInv
  <1>1. /\ UNCHANGED <<origin, store, evicted, registry, progress, body, written>>
        /\ \A s \in Tasks : s # t => task'[s] = task[s]
        /\ task[t] \in {"idle", "waiting", "read"}
        /\ task'[t] \in {"waiting", "read", "failed", "ok"} \/ (task[t] = "idle" /\ task'[t] = "claim")
    BY DEF Check, WaitFor, Read, Goto, fillVars, TypeOK
  <1>2. task'[t] = "read" => Slice(t) \in Seen
    <2>1. CASE Check(t)
      BY <2>1 DEF Check, Goto, TypeOK, Seen
    <2>2. CASE WaitFor(t)
      <3>1. sub[t] \in Tasks
        BY <2>2 DEF WaitFor, TypeOK
      <3>2. task'[t] = "read" => task[t] = "read" \/ Slice(t) < progress[sub[t]].count
        BY <2>2 DEF WaitFor, Goto, TypeOK, Covers
      <3>3. task[t] # "read"
        BY <2>2 DEF WaitFor
      <3> QED
        BY <3>1, <3>2, <3>3, Typing, SMTT(60) DEF Published, Written
    <2>3. CASE Read(t)
      BY <2>3 DEF Read, Goto, TypeOK
    <2> QED
      BY <2>1, <2>2, <2>3
  <1>3. TypeOK'
    <2>1. task' \in [Tasks -> Labels]
      <3>1. task \in [Tasks -> Labels]
        BY DEF TypeOK, Labels
      <3>2. UNCHANGED task \/ Goto(t, "read") \/ Goto(t, "claim") \/ Goto(t, "failed") \/ Goto(t, "ok")
        BY DEF Check, WaitFor, Read
      <3>3. {"read", "claim", "failed", "ok"} \subseteq Labels
        BY DEF Labels
      <3> QED
        BY <3>1, <3>2, <3>3, GotoType
    <2>2. got' \in [Tasks -> Versions \cup {0}]
      BY DEF TypeOK, Check, WaitFor, Read
    <2>3. sub' \in [Tasks -> Tasks \cup {NoFill}]
      BY DEF TypeOK, Check, WaitFor, Read
    <2>4. seen' \in [Tasks -> [state : {"unseen", "ready", "complete", "failed"}, count : Nat]]
      <3>1. CASE WaitFor(t)
        <4>1. sub[t] \in Tasks
          BY <3>1 DEF WaitFor, TypeOK
        <4> DEFINE values == [state : {"unseen", "ready", "complete", "failed"}, count : Nat]
        <4>2. progress[sub[t]] \in values /\ Unseen \in values
          BY <4>1 DEF TypeOK, Unseen
        <4>3. PICK v \in values : seen' = [seen EXCEPT ![t] = v]
          BY <3>1, <4>2 DEF WaitFor
        <4> QED
          BY <4>3 DEF TypeOK
      <3> QED
        BY <3>1 DEF TypeOK, Check, Read
    <2>5. \A s \in Tasks : task'[s] = "waiting" => sub'[s] # NoFill
      BY NoFillFresh DEF TypeOK, Check, WaitFor, Read, Goto
    <2> QED
      BY <1>1, <2>1, <2>2, <2>3, <2>4, <2>5 DEF TypeOK, Labels
  <1>4. OneFiller'
    <2>1. \A s \in Tasks : Filling(s)' <=> Filling(s)
      BY <1>1 DEF Filling
    <2> QED
      BY <1>1, <2>1 DEF OneFiller, TypeOK
  <1>5. ReadyIsReadable'
    BY <1>1, <1>2 DEF ReadyIsReadable, Seen
  <1>6. Written' /\ Published' /\ Fresh'
    BY <1>1 DEF Written, Published, Fresh, Seen
  <1> QED
    BY <1>3, <1>4, <1>5, <1>6

\* What holds of the store keeps holding while nothing that was stored is forgotten.
LEMMA SeenGrows ==
    ASSUME IInv, Seen \subseteq Seen', written' = written, progress' = progress, task' = task
    PROVE  ReadyIsReadable' /\ Written' /\ Published'
  BY DEF IInv, ReadyIsReadable, Written, Published, Seen

LEMMA ExternalSteps ==
    ASSUME IInv, OriginChange \/ (\E i \in DOMAIN store : Evict(i)) \/ UNCHANGED vars
    PROVE  IInv'
  <1> USE DEF IInv
  <1>1. UNCHANGED <<registry, task, got, progress, body, written, sub, seen>>
    BY DEF OriginChange, Evict, fillVars, vars
  <1>2. Seen \subseteq Seen'
    BY DEF OriginChange, Evict, Seen, vars
  <1>3. /\ origin' \in Versions
        /\ DOMAIN store' \subseteq Nat /\ (\A i \in DOMAIN store' : store'[i] \in Versions)
        /\ evicted' \subseteq Nat
    BY DEF OriginChange, Evict, TypeOK, vars
  <1>4. TypeOK'
    BY <1>1, <1>3 DEF TypeOK
  <1>5. OneFiller' /\ Fresh'
    BY <1>1 DEF OneFiller, Filling, Fresh
  <1> QED
    BY <1>1, <1>2, <1>4, <1>5, SeenGrows

LEMMA ClaimStep == ASSUME IInv, NEW t \in Tasks, Claim(t) PROVE IInv'
  <1> USE DEF IInv
  <1>1. /\ UNCHANGED <<origin, store, evicted, got, progress, body, written, seen>>
        /\ \A s \in Tasks : s # t => task'[s] = task[s] /\ sub'[s] = sub[s]
        /\ task[t] = "claim"
        /\ \/ registry = NoFill /\ registry' = t /\ task'[t] = "opening" /\ sub'[t] = sub[t]
           \/ registry # NoFill /\ registry' = registry /\ task'[t] = "waiting" /\ sub'[t] = registry
    BY DEF Claim, Goto, fillVars, TypeOK
  <1>2. task' \in [Tasks -> Labels] /\ sub' \in [Tasks -> Tasks \cup {NoFill}]
    BY DEF Claim, Goto, TypeOK, Labels
  <1>3. TypeOK'
    BY <1>1, <1>2 DEF TypeOK, Labels
  <1>4. OneFiller'
    BY <1>1, NoFillFresh, SMTT(60) DEF OneFiller, Filling, TypeOK
  <1>5. ReadyIsReadable' /\ Written' /\ Published' /\ Fresh'
    BY <1>1 DEF ReadyIsReadable, Written, Published, Fresh, Seen
  <1> QED
    BY <1>3, <1>4, <1>5

LEMMA OpenStep == ASSUME IInv, NEW t \in Tasks, StreamOpen(t) PROVE IInv'
  <1> USE DEF IInv
  <1>1. /\ UNCHANGED <<origin, store, evicted, registry, got, progress, written, sub, seen>>
        /\ \A s \in Tasks : s # t => task'[s] = task[s] /\ body'[s] = body[s]
        /\ task[t] = "opening" /\ task'[t] = "streaming" /\ body'[t] = origin
    BY DEF StreamOpen, Goto, TypeOK
  <1>2. written[t] = 0 /\ origin \in Versions /\ 0 \notin Versions /\ Length[origin] \in Nat
    BY <1>1, LengthType, SMTT(60) DEF Fresh, TypeOK, Versions
  <1>3. task' \in [Tasks -> Labels] /\ body' \in [Tasks -> Versions \cup {0}]
    BY DEF StreamOpen, Goto, TypeOK, Labels
  <1>4. \A s \in Tasks : body'[s] # 0 => written'[s] <= Length[body'[s]]
    BY <1>1, <1>2, SMTT(60) DEF TypeOK
  <1>5. \A s \in Tasks : task'[s] = "waiting" => sub'[s] # NoFill
    BY <1>1 DEF TypeOK
  <1>6. TypeOK'
    BY <1>1, <1>3, <1>4, <1>5 DEF TypeOK, Labels
  <1>7. OneFiller'
    BY <1>1 DEF OneFiller, Filling
  <1>8. ReadyIsReadable' /\ Written' /\ Published'
    BY <1>1 DEF ReadyIsReadable, Written, Published, Seen
  <1>9. Fresh'
    BY <1>1, <1>2 DEF Fresh
  <1> QED
    BY <1>6, <1>7, <1>8, <1>9

LEMMA SliceStep == ASSUME IInv, NEW t \in Tasks, StreamSlice(t) PROVE IInv'
  <1> USE DEF IInv
  <1>1. /\ UNCHANGED <<origin, evicted, registry, got, progress, body, sub, seen>>
        /\ \A s \in Tasks : s # t => task'[s] = task[s] /\ written'[s] = written[s]
        /\ task[t] = "streaming" /\ task'[t] = "publish" /\ written'[t] = written[t] + 1
        /\ written[t] < Length[body[t]]
    BY DEF StreamSlice, Goto, TypeOK
  <1>2. body[t] \in Versions /\ body[t] # 0 /\ Length[body[t]] \in Nat /\ written[t] \in Nat
    BY <1>1, Typing DEF Fresh, TypeOK
  <1>3. /\ DOMAIN store' = DOMAIN store \cup {written[t]}
        /\ \A i \in DOMAIN store' : store'[i] \in Versions
    BY <1>2 DEF StreamSlice, TypeOK
  <1>4. task' \in [Tasks -> Labels] /\ written' \in [Tasks -> Nat]
    BY <1>2, SMTT(60) DEF StreamSlice, Goto, TypeOK, Labels
  <1>5. \A s \in Tasks : body'[s] # 0 => written'[s] <= Length[body'[s]]
    BY <1>1, <1>2, SMTT(60) DEF TypeOK
  <1>6. \A s \in Tasks : task'[s] = "waiting" => sub'[s] # NoFill
    BY <1>1 DEF TypeOK
  <1>7. TypeOK'
    BY <1>1, <1>2, <1>3, <1>4, <1>5, <1>6 DEF TypeOK, Labels
  <1>8. OneFiller'
    BY <1>1 DEF OneFiller, Filling
  <1>9. ReadyIsReadable'
    BY <1>1, <1>3 DEF ReadyIsReadable
  <1>10. Written'
    <2> SUFFICES ASSUME NEW s \in Tasks, NEW i \in Nat, i < written'[s] PROVE i \in Seen'
      BY DEF Written
    <2>1. i < written[s] \/ i = written[t]
      <3>1. written[s] \in Nat /\ (s = t => written'[s] = written[s] + 1)
                                /\ (s # t => written'[s] = written[s])
        BY <1>1, Typing
      <3> QED
        BY <3>1, SMTT(60)
    <2> QED
      BY <1>1, <1>3, <2>1 DEF Written, Seen
  <1>11. Published'
    BY <1>1, <1>2, Typing, SMTT(60) DEF Published
  <1>12. Fresh'
    BY <1>1, <1>2 DEF Fresh
  <1> QED
    BY <1>7, <1>8, <1>9, <1>10, <1>11, <1>12

\* The steps of a fill that publish: what is published is what is written.
LEMMA PublishSteps ==
    ASSUME IInv, NEW t \in Tasks, Publish(t) \/ FinishComplete(t) \/ FinishFail(t)
    PROVE  IInv'
  <1> USE DEF IInv
  <1>0. written[t] \in Nat /\ Slice(t) \in Nat
    BY Typing
  <1> DEFINE values == [state : {"ready", "complete", "failed"}, count : Nat]
  <1>a. Ready(written[t]) \in values /\ Complete(written[t]) \in values /\ Failed \in values
    BY <1>0 DEF Ready, Complete, Failed
  <1>b. /\ Ready(written[t]).count <= written[t] /\ Complete(written[t]).count <= written[t]
        /\ Failed.count <= written[t]
    BY <1>0, SMTT(60) DEF Ready, Complete, Failed
  <1>c. progress' = [progress EXCEPT ![t] = Ready(written[t])]
        \/ progress' = [progress EXCEPT ![t] = Complete(written[t])]
        \/ progress' = [progress EXCEPT ![t] = Failed]
    BY DEF Publish, FinishComplete, FinishFail
  <1>1. PICK p \in values : progress' = [progress EXCEPT ![t] = p] /\ p.count <= written[t]
    BY <1>a, <1>b, <1>c
  <1>2. /\ UNCHANGED <<origin, store, evicted, registry, got, body, written, sub, seen>>
        /\ \A s \in Tasks : s # t => task'[s] = task[s]
        /\ \/ task[t] = "publish" /\ task'[t] = "streaming"
           \/ task[t] = "complete" /\ Slice(t) < written[t] /\ task'[t] = "read"
           \/ task[t] \in {"complete", "fail"} /\ task'[t] = "failed"
    BY DEF Publish, FinishComplete, FinishFail, Goto, TypeOK
  <1>3. task' \in [Tasks -> Labels]
    <2>1. task \in [Tasks -> Labels]
      BY DEF TypeOK, Labels
    <2>2. Goto(t, "streaming") \/ Goto(t, "read") \/ Goto(t, "failed")
      BY DEF Publish, FinishComplete, FinishFail
    <2>3. {"streaming", "read", "failed"} \subseteq Labels
      BY DEF Labels
    <2> QED
      BY <2>1, <2>2, <2>3, GotoType
  <1>4. TypeOK'
    BY <1>1, <1>2, <1>3 DEF TypeOK, Labels
  <1>5. OneFiller'
    <2>1. \A s \in Tasks : Filling(s)' <=> Filling(s)
      BY <1>2 DEF Filling
    <2>2. registry' = registry /\ registry \in Tasks \cup {NoFill}
      BY <1>2 DEF TypeOK
    <2> QED
      BY <2>1, <2>2 DEF OneFiller
  <1>6. ReadyIsReadable'
    BY <1>0, <1>2 DEF ReadyIsReadable, Written, Seen
  <1>7. Written' /\ Fresh'
    BY <1>2 DEF Written, Fresh, Seen
  <1>8. Published'
    BY <1>1, <1>2 DEF Published, TypeOK
  <1> QED
    BY <1>4, <1>5, <1>6, <1>7, <1>8

LEMMA EndSteps ==
    ASSUME IInv, NEW t \in Tasks, StreamEnd(t) \/ StreamError(t) \/ Release(t)
    PROVE  IInv'
  <1> USE DEF IInv
  <1>1. /\ UNCHANGED <<origin, store, evicted, got, progress, body, written, sub, seen>>
        /\ \A s \in Tasks : s # t => task'[s] = task[s]
        /\ Filling(t) /\ task[t] # "publish" /\ task'[t] \in {"completing", "failing", "complete", "fail"}
        /\ task'[t] = "completing" => task[t] = "streaming"
        /\ \/ task'[t] \in {"completing", "failing"} /\ registry' = registry
           \/ task'[t] \in {"complete", "fail"} /\ registry' = NoFill
    BY DEF StreamEnd, StreamError, Release, Goto, TypeOK, Filling, fillVars
  <1>2. task' \in [Tasks -> Labels]
    BY DEF StreamEnd, StreamError, Release, Goto, TypeOK, Labels
  <1>3. TypeOK'
    BY <1>1, <1>2 DEF TypeOK, Labels
  <1>4. OneFiller'
    BY <1>1, NoFillFresh DEF OneFiller, Filling
  <1>5. ReadyIsReadable' /\ Written' /\ Published' /\ Fresh'
    BY <1>1 DEF ReadyIsReadable, Written, Published, Fresh, Seen
  <1> QED
    BY <1>3, <1>4, <1>5

LEMMA NextIInv == IInv /\ [Next]_vars => IInv'
  <1> SUFFICES ASSUME IInv, [Next]_vars PROVE IInv'
    OBVIOUS
  <1>1. ASSUME NEW t \in Tasks, Check(t) \/ StreamStep(t) \/ LocalStep(t) PROVE IInv'
    BY <1>1, ReaderSteps, ClaimStep, OpenStep, SliceStep, PublishSteps, EndSteps
       DEF StreamStep, LocalStep
  <1> QED
    BY <1>1, ExternalSteps DEF Next
-----------------------------------------------------------------------------
\* The inductive invariant of ensure_filled, run_fill and FillRegistry.
THEOREM FillerInvariance == Spec => []IInv
  BY InitIInv, NextIInv, PTL DEF Spec

\* orchestrator/filler.rs, claim and release (FR-32): one task at a time streams the object, and it
\* is the registered one, whatever the number of requests, failures and retries.
THEOREM OneFillerHolds == Spec => []OneFiller
  <1>1. IInv => OneFiller
    BY DEF IInv
  <1> QED
    BY <1>1, FillerInvariance, PTL

\* orchestrator/filler.rs, Progress::Ready: a task that is told its slice is there finds it in the
\* store, or it was there and has been evicted, for objects of any length.
THEOREM ReadyIsReadableHolds == Spec => []ReadyIsReadable
  <1>1. IInv => ReadyIsReadable
    BY DEF IInv
  <1> QED
    BY <1>1, FillerInvariance, PTL
-----------------------------------------------------------------------------
\* No subscriber is left behind: the safety that its waking rests on.
Unended == {"idle", "claim", "opening", "streaming", "publish", "completing", "failing", "complete", "fail"}

\* Until it has ended, a fill's channel says so; and it lags behind what is written only
\* between an insertion and its publication.
Told ==
    \A f \in Tasks :
       /\ task[f] \in Unended => progress[f].state = "ready"
       /\ progress[f].state = "failed" \/ task[f] = "publish" \/ progress[f].count = written[f]

\* Somebody has yet to end the fill that a task subscribes to, or has ended it.
Followed ==
    \A t \in Tasks : \A f \in Tasks :
       sub[t] = f => \/ Filling(f) \/ task[f] \in {"complete", "fail"}
                     \/ progress[f].state # "ready"

\* What a subscriber has looked at was no reason to stop waiting.
LookedAt ==
    \A t \in Tasks : seen[t].state = "unseen" \/ (seen[t].state = "ready" /\ ~Covers(seen[t], Slice(t)))

\* The channel holds a value on which wait_for returns.
Wakes(t, f) == progress[f].state # "ready" \/ Covers(progress[f], Slice(t))

NoWaiterStranded ==
    \A t \in Tasks : task[t] = "waiting" =>
       \E f \in Tasks :
          /\ sub[t] = f
          /\ Filling(f) \/ task[f] \in {"complete", "fail"} \/ Wakes(t, f)
          /\ Slice(t) < written[f] => task[f] = "publish" \/ Wakes(t, f)
          /\ Wakes(t, f) => seen[t] # progress[f]

WInv == Told /\ Followed /\ LookedAt

LEMMA StrandedFrom == IInv /\ WInv => NoWaiterStranded
  <1> SUFFICES ASSUME IInv, WInv, NEW t \in Tasks, task[t] = "waiting"
               PROVE  \E f \in Tasks :
                         /\ sub[t] = f
                         /\ Filling(f) \/ task[f] \in {"complete", "fail"} \/ Wakes(t, f)
                         /\ Slice(t) < written[f] => task[f] = "publish" \/ Wakes(t, f)
                         /\ Wakes(t, f) => seen[t] # progress[f]
    BY DEF NoWaiterStranded
  <1>1. PICK f \in Tasks : sub[t] = f
    BY DEF IInv, TypeOK
  <1>2. Filling(f) \/ task[f] \in {"complete", "fail"} \/ Wakes(t, f)
    BY <1>1 DEF WInv, Followed, Wakes
  <1>3. Slice(t) < written[f] => task[f] = "publish" \/ Wakes(t, f)
    <2>1. progress[f].state \in {"ready", "complete", "failed"}
      BY DEF IInv, TypeOK
    <2> QED BY <2>1 DEF WInv, Told, Wakes, Covers
  <1>4. Wakes(t, f) => seen[t] # progress[f]
    <2>1. progress[f].state \in {"ready", "complete", "failed"}
      BY DEF IInv, TypeOK
    <2> QED BY <2>1 DEF WInv, LookedAt, Wakes
  <1> QED BY <1>1, <1>2, <1>3, <1>4

LEMMA Values ==
    /\ Unseen.state = "unseen" /\ Failed.state = "failed"
    /\ \A n \in Nat : /\ Ready(n).state = "ready" /\ Ready(n).count = n
                      /\ Complete(n).state = "complete" /\ Complete(n).count = n
  BY SMTT(60) DEF Unseen, Failed, Ready, Complete

LEMMA InitWInv == Init => WInv
  <1> SUFFICES ASSUME Init PROVE WInv
    OBVIOUS
  <1>1. 0 \in Nat
    BY SMTT(60)
  <1>2. \A t \in Tasks : /\ progress[t] = Ready(0) /\ written[t] = 0 /\ sub[t] = NoFill /\ seen[t] = Unseen
    BY DEF Init
  <1>3. /\ Ready(0).state = "ready" /\ Ready(0).count = 0 /\ Unseen.state = "unseen"
    BY <1>1, Values
  <1>4. \A t \in Tasks : /\ progress[t].state = "ready" /\ progress[t].count = written[t]
                         /\ sub[t] \notin Tasks /\ seen[t].state = "unseen"
    BY <1>2, <1>3, NoFillFresh
  <1> QED BY <1>4 DEF WInv, Told, Followed, LookedAt

\* Steps that leave what the fills have done and published alone.
LEMMA QuietSteps ==
    ASSUME IInv, WInv, NEW t \in Tasks, Check(t) \/ WaitFor(t) \/ Read(t) \/ Claim(t)
    PROVE  WInv'
  <1>1. /\ UNCHANGED <<progress, written>>
        /\ \A s \in Tasks : s # t => task'[s] = task[s] /\ sub'[s] = sub[s] /\ seen'[s] = seen[s]
        /\ task[t] \in {"idle", "claim"} \/ (task[t] \in {"waiting", "read"} /\ task'[t] \notin Unended)
    BY DEF Check, WaitFor, Read, Claim, Goto, fillVars, IInv, TypeOK, Unended
  <1>2. task[t] \notin {"publish", "complete", "fail"} /\ ~Filling(t)
    BY <1>1 DEF Filling
  <1>3. Told'
    BY <1>1, <1>2 DEF WInv, Told, Unended
  <1>4. sub'[t] \in {sub[t], NoFill} \/ Filling(sub'[t])
    BY DEF Check, WaitFor, Read, Claim, IInv, TypeOK, OneFiller
  <1>5. Followed'
    <2> SUFFICES ASSUME NEW s \in Tasks, NEW f \in Tasks, sub'[s] = f
                 PROVE  Filling(f)' \/ task'[f] \in {"complete", "fail"} \/ progress'[f].state # "ready"
      BY DEF Followed
    <2>1. sub[s] = f \/ Filling(f)
      BY <1>1, <1>4, NoFillFresh
    <2>2. Filling(f) \/ task[f] \in {"complete", "fail"} \/ progress[f].state # "ready"
      BY <2>1 DEF WInv, Followed
    <2> QED BY <1>1, <1>2, <2>2 DEF Filling
  <1>6. seen'[t].state = "unseen" \/ (seen'[t].state = "ready" /\ ~Covers(seen'[t], Slice(t)))
    <2>1. \/ seen'[t] = seen[t] \/ seen'[t] = Unseen
          \/ seen'[t].state = "ready" /\ ~Covers(seen'[t], Slice(t))
      BY DEF Check, WaitFor, Read, Claim, IInv, TypeOK
    <2> QED BY <2>1, Values DEF WInv, LookedAt
  <1>7. LookedAt'
    BY <1>1, <1>6 DEF WInv, LookedAt
  <1> QED BY <1>3, <1>5, <1>7 DEF WInv

\* Steps of a fill that do not publish.
LEMMA SilentSteps ==
    ASSUME IInv, WInv, NEW t \in Tasks,
           StreamOpen(t) \/ StreamSlice(t) \/ StreamEnd(t) \/ StreamError(t) \/ Release(t)
    PROVE  WInv'
  <1>1. /\ UNCHANGED <<progress, sub, seen>>
        /\ \A s \in Tasks : s # t => task'[s] = task[s] /\ written'[s] = written[s]
        /\ Filling(t) /\ task[t] # "publish" /\ task'[t] \in Unended
        /\ Filling(t)' \/ task'[t] \in {"complete", "fail"}
        /\ written'[t] = written[t] \/ task'[t] = "publish"
    BY DEF StreamOpen, StreamSlice, StreamEnd, StreamError, Release, Goto, fillVars, IInv, TypeOK, Filling,
           Unended
  <1>2. Told'
    BY <1>1 DEF WInv, Told, Unended, Filling
  <1>3. Followed' /\ LookedAt'
    BY <1>1 DEF WInv, Followed, LookedAt, Filling
  <1> QED BY <1>2, <1>3 DEF WInv

LEMMA TellingSteps ==
    ASSUME IInv, WInv, NEW t \in Tasks, Publish(t) \/ FinishComplete(t) \/ FinishFail(t)
    PROVE  WInv'
  <1>1. /\ UNCHANGED <<written, sub, seen>>
        /\ \A s \in Tasks : s # t => task'[s] = task[s] /\ progress'[s] = progress[s]
        /\ \/ progress'[t] = Ready(written[t]) /\ task'[t] = "streaming"
           \/ progress'[t] = Complete(written[t]) /\ task'[t] \in {"read", "failed"}
           \/ progress'[t] = Failed /\ task'[t] = "failed"
    BY DEF Publish, FinishComplete, FinishFail, Goto, IInv, TypeOK
  <1>2. \/ progress'[t].state = "ready" /\ progress'[t].count = written[t] /\ task'[t] = "streaming"
        \/ progress'[t].state = "complete" /\ progress'[t].count = written[t] /\ task'[t] \in {"read", "failed"}
        \/ progress'[t].state = "failed" /\ task'[t] = "failed"
    <2>1. written[t] \in Nat
      BY Typing DEF IInv
    <2>2. /\ Ready(written[t]).state = "ready" /\ Ready(written[t]).count = written[t]
          /\ Complete(written[t]).state = "complete" /\ Complete(written[t]).count = written[t]
          /\ Failed.state = "failed"
      BY <2>1, Values
    <2> QED BY <1>1, <2>2
  <1>3. Told'
    BY <1>1, <1>2 DEF WInv, Told, Unended
  <1>4. Followed' /\ LookedAt'
    BY <1>1, <1>2 DEF WInv, Followed, LookedAt, Filling
  <1> QED BY <1>3, <1>4 DEF WInv

LEMMA NextWInv == IInv /\ WInv /\ [Next]_vars => WInv'
  <1> SUFFICES ASSUME IInv, WInv, [Next]_vars PROVE WInv'
    OBVIOUS
  <1>1. ASSUME NEW t \in Tasks, Check(t) \/ StreamStep(t) \/ LocalStep(t) PROVE WInv'
    BY <1>1, QuietSteps, SilentSteps, TellingSteps DEF StreamStep, LocalStep
  <1>2. CASE OriginChange \/ (\E i \in DOMAIN store : Evict(i)) \/ UNCHANGED vars
    <2>1. UNCHANGED <<task, progress, written, sub, seen>>
      BY <1>2 DEF OriginChange, Evict, vars, fillVars
    <2> QED BY <2>1 DEF WInv, Told, Followed, LookedAt, Filling
  <1> QED BY <1>1, <1>2 DEF Next

\* orchestrator/filler.rs, wait_for, publish, complete and fail, with the order of run_fill and
\* release: whatever the tasks, failures and retries, a subscriber waits for a fill that is still
\* to publish its end, or for a value it has not looked at yet and on which it returns; and its
\* slice is stored without such a value only until the fill's next step, Fill::publish.
THEOREM NobodyStranded == Spec => []NoWaiterStranded
  <1>1. Spec => []WInv
    BY InitWInv, NextWInv, FillerInvariance, PTL DEF Spec
  <1> QED
    BY <1>1, StrandedFrom, FillerInvariance, PTL
=============================================================================
