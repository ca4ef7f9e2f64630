------------------------------ MODULE Shutdown ------------------------------
(***************************************************************************)
(* Graceful shutdown: the Drain of proxy/shutdown.rs, the request handlers *)
(* of proxy/server.rs that enter it, the Readiness of admin/mod.rs and the *)
(* end of main.rs.  Atomics are one step each.  A handler's guard covers   *)
(* handle(), which returns the response; the body is streamed after it.    *)
(***************************************************************************)
EXTENDS Integers, FiniteSets

CONSTANT Handlers    \* request handlers, each running once

ASSUME HandlersFinite == IsFiniteSet(Handlers)

VARIABLES
    unready,    \* Readiness.draining
    draining,   \* Drain.draining
    inflight,   \* Drain.inflight
    calls,      \* Drain.idle: how often notify_waiters has been called
    handler,    \* where each handler is
    main,       \* where main is, from the signal on
    ticket,     \* calls when the waiter's Notified was created
    finished    \* what drain returned

vars == <<unready, draining, inflight, calls, handler, main, ticket, finished>>

Init ==
    /\ unready = FALSE
    /\ draining = FALSE
    /\ inflight = 0
    /\ calls = 0
    /\ handler = [h \in Handlers |-> "idle"]
    /\ main = "serving"
    /\ ticket = 0
    /\ finished = FALSE

Running == main # "exited"
Become(h, label) == handler' = [handler EXCEPT ![h] = label]
-----------------------------------------------------------------------------
\* Drain::enter, the load: None once draining, and the client gets a 503.
EnterLoad(h) ==
    /\ Running
    /\ handler[h] = "idle"
    /\ Become(h, IF draining THEN "refused" ELSE "entering")
    /\ UNCHANGED <<unready, draining, inflight, calls, main, ticket, finished>>

\* Drain::enter, the fetch_add; the handler holds a Guard.
EnterAdd(h) ==
    /\ Running
    /\ handler[h] = "entering"
    /\ inflight' = inflight + 1
    /\ Become(h, "working")
    /\ UNCHANGED <<unready, draining, calls, main, ticket, finished>>

\* Guard::drop, the fetch_sub.  handle() has returned and its body is still to
\* be streamed, or there is no body, or the client went away.
GuardDrop(h) ==
    /\ Running
    /\ handler[h] = "working"
    /\ inflight' = inflight - 1
    /\ \/ Become(h, IF inflight = 1 THEN "lastBody" ELSE "body")
       \/ Become(h, IF inflight = 1 THEN "last" ELSE "done")
    /\ UNCHANGED <<unready, draining, calls, main, ticket, finished>>

\* Guard::drop, the last one out: notify_waiters.
GuardNotify(h) ==
    /\ Running
    /\ handler[h] \in {"last", "lastBody"}
    /\ Become(h, IF handler[h] = "last" THEN "done" ELSE "body")
    /\ calls' = calls + 1
    /\ UNCHANGED <<unready, draining, inflight, main, ticket, finished>>

\* The body stream and its slice tasks come to an end.
BodyEnd(h) ==
    /\ Running
    /\ handler[h] = "body"
    /\ Become(h, "done")
    /\ UNCHANGED <<unready, draining, inflight, calls, main, ticket, finished>>

\* The drain endpoint of the admin API: readiness only.
AdminDrain ==
    /\ Running
    /\ unready' = TRUE
    /\ UNCHANGED <<draining, inflight, calls, handler, main, ticket, finished>>

\* Mutant of Signal: readiness is left alone.
Signal_StillReady ==
    /\ main = "serving"
    /\ main' = "signalled"
    /\ UNCHANGED <<unready, draining, inflight, calls, handler, ticket, finished>>

\* main: shutdown_signal, and readiness fails first.
Signal ==
    /\ main = "serving"
    /\ unready' = TRUE
    /\ main' = "signalled"
    /\ UNCHANGED <<draining, inflight, calls, handler, ticket, finished>>

\* drain: the flag is set.
DrainStart ==
    /\ main = "signalled"
    /\ draining' = TRUE
    /\ main' = "looking"
    /\ UNCHANGED <<unready, inflight, calls, handler, ticket, finished>>

\* drain: nothing in flight at the first look.
DrainIdle ==
    /\ main = "looking"
    /\ finished' = (inflight = 0)
    /\ main' = IF inflight = 0 THEN "exited" ELSE "register"
    /\ UNCHANGED <<unready, draining, inflight, calls, handler, ticket>>

\* drain: a Notified is created, which sees every notify_waiters from here on.
Register ==
    /\ main = "register"
    /\ main' = "recheck"
    /\ ticket' = calls
    /\ UNCHANGED <<unready, draining, inflight, calls, handler, finished>>

\* Mutant of Recheck: the count is not looked at again.
Recheck_Forgotten ==
    /\ main = "recheck"
    /\ main' = "awaiting"
    /\ UNCHANGED <<unready, draining, inflight, calls, handler, ticket, finished>>

\* drain: then the count is looked at again.
Recheck ==
    /\ main = "recheck"
    /\ finished' = (inflight = 0)
    /\ main' = IF inflight = 0 THEN "exited" ELSE "awaiting"
    /\ UNCHANGED <<unready, draining, inflight, calls, handler, ticket>>

\* Mutant of Woken: a notification is taken for the completion.
Woken_Trusts ==
    /\ main = "awaiting"
    /\ calls > ticket
    /\ main' = "exited" /\ finished' = TRUE
    /\ UNCHANGED <<unready, draining, inflight, calls, handler, ticket>>

\* drain: notified.await, and round the loop.
Woken ==
    /\ main = "awaiting"
    /\ calls > ticket
    /\ main' = "register"
    /\ UNCHANGED <<unready, draining, inflight, calls, handler, ticket, finished>>

\* Mutant of Timeout: the deadline only counts while nothing is in flight.
Timeout_Idle ==
    /\ main = "awaiting"
    /\ calls <= ticket
    /\ inflight = 0
    /\ main' = "exited"
    /\ UNCHANGED <<unready, draining, inflight, calls, handler, ticket, finished>>

\* The timeout around the wait, which polls the wait first.
Timeout ==
    /\ main = "awaiting"
    /\ calls <= ticket
    /\ main' = "exited"
    /\ UNCHANGED <<unready, draining, inflight, calls, handler, ticket, finished>>

HandlerStep(h) == EnterAdd(h) \/ GuardDrop(h) \/ GuardNotify(h) \/ BodyEnd(h)
MainStep == DrainStart \/ DrainIdle \/ Register \/ Recheck \/ Woken

Next ==
    \/ \E h \in Handlers : EnterLoad(h) \/ HandlerStep(h)
    \/ MainStep
    \/ Timeout
    \/ AdminDrain
    \/ Signal

Spec == Init /\ [][Next]_vars

\* Threads are scheduled, so that a Guard's drop runs to its end; handlers and
\* bodies may hang, and the deadline may be far away.
FairSpec ==
    /\ Spec
    /\ WF_vars(MainStep)
    /\ \A h \in Handlers : WF_vars(EnterAdd(h) \/ GuardNotify(h))
-----------------------------------------------------------------------------
Labels == {"idle", "refused", "entering", "working", "last", "lastBody", "body", "done"}

\* Handlers that hold a Guard.
Guards == {h \in Handlers : handler[h] = "working"}

\* Types.
TypeOK ==
    /\ unready \in BOOLEAN /\ draining \in BOOLEAN /\ finished \in BOOLEAN
    /\ inflight \in Nat
    /\ calls \in Nat
    /\ ticket \in 0 .. calls
    /\ handler \in [Handlers -> Labels]
    /\ main \in {"serving", "signalled", "looking", "register", "recheck", "awaiting", "exited"}

\* proxy/shutdown.rs, drain: "Returns whether everything finished".  When drain says so, no
\* request it has counted is at work: one that passed the draining check before the flag
\* was set may be counted after the last of the others has notified, so that being woken
\* proves nothing.
FinishedIsIdle == finished => main = "exited" /\ Guards = {}

\* main.rs and admin/mod.rs: a request is refused for draining only once readiness has
\* failed, so that a load balancer sends none into a refusal that has probed since.
RefusedOnlyWhenUnready ==
    (\E h \in Handlers : handler[h] = "refused") => unready

\* proxy/shutdown.rs, drain: "a completion between the check and the await cannot
\* be missed".  drain does not sit out its timeout with nothing in flight.
CompletionNotMissed == ~ <>[](main = "awaiting" /\ inflight = 0)

\* proxy/shutdown.rs: "A hung upstream must not be able to prevent exit".  Once
\* the signal is in, the process exits if only the deadline arrives.
ExitIsBounded == WF_vars(Timeout) => (main = "signalled" ~> main = "exited")

\* proxy/shutdown.rs, FR-62: "stop accepting, finish in-flight slices, flush, exit within a
\* bounded time".  When drain says that everything finished, no response has a body still
\* being streamed.
FinishedMeansStreamed ==
    main = "exited" /\ finished =>
       \A h \in Handlers : handler[h] \notin {"lastBody", "body"}
=============================================================================
