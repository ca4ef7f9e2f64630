------------------------------ MODULE SniProxy ------------------------------
(***************************************************************************)
(* The two listeners under their shared connection ceilings: the accept    *)
(* loops of ConnectionLimit, with what becomes of a TLS connection once it *)
(* is admitted, splice of sni/proxy.rs.  A plain HTTP connection holds its *)
(* permit until it ends; Shutdown and BodyStream say what it does.         *)
(*                                                                         *)
(* The counters of SniStats and the bytes from the origin to the client    *)
(* are left out.                                                           *)
(***************************************************************************)
EXTENDS ConnectionLimit, ClientHello, AddressGuard

CONSTANTS
    Tls,          \* the attempts that arrive at the TLS listener
    TlsListener,  \* its accept loop
    Clients,      \* what each of them may send: the bytes, and the name they ask for
    Reads,        \* how much one read may return
    Lists,        \* the hosts the live matcher has a service for, over time
    Answers,      \* what DNS may answer: sets of addresses
    Passthrough   \* passthrough_unknown_hosts

ASSUME TlsConns == Tls \subseteq Conns /\ TlsListener \in Listeners
ASSUME ClientsType == \A c \in Tls : \A k \in Clients[c] : k.bytes \in Seq(Nat)
ASSUME ListsType == Len(Lists) \in Nat \ {0} /\ Reads \subseteq Nat \ {0}

VARIABLES
    session,    \* per TLS attempt: where splice is, and its locals
    client,     \* per TLS attempt: who is at the other end
    revision    \* which of Lists the matcher was built from

sniVars == <<session, client, revision>>
allVars == <<vars, sniVars>>

\* splice has returned with SniError::NoServerName ("nameless"), or otherwise.
Over == {"nameless", "ended"}
Stages == {"hello", "named", "resolve", "connect", "relay"} \cup Over

\* read: how much has been read; host: the name of the hello; addresses: left to try;
\* origin: the address connected to; relayed: what was written to it.
NewSession ==
    [at |-> "hello", read |-> 0, host |-> NoName, addresses |-> {}, origin |-> {}, relayed |-> <<>>]

SniInit ==
    /\ Init
    /\ session = [c \in Tls |-> NewSession]
    /\ client \in {f \in [Tls -> UNION {Clients[c] : c \in Tls}] : \A c \in Tls : f[c] \in Clients[c]}
    /\ revision = 1

\* LiveServices: the list is refreshed.
Refresh ==
    /\ revision < Len(Lists)
    /\ revision' = revision + 1
    /\ UNCHANGED <<vars, session, client>>

Heard(c, n) == SubSeq(client[c].bytes, 1, n)

\* The task of c is at this stage.
At(c, stage) == state[c] = "held" /\ session[c].at = stage

Become(c, next) ==
    /\ session' = [session EXCEPT ![c] = next]
    /\ UNCHANGED <<vars, client, revision>>

\* splice returns, and its locals are gone.
End(c) == Become(c, [NewSession EXCEPT !.at = "ended"])
-----------------------------------------------------------------------------
\* Mutant of HelloDone: a hello is parsed as soon as the header is there.
HelloDone_Early(buffer) == Len(buffer) >= HeaderLen

\* splice: the whole record has arrived.
HelloDone(buffer) == Len(buffer) >= HeaderLen /\ Len(buffer) >= record_length(buffer)

\* splice, one turn of the loop: read, refuse what is not TLS or too large, parse once
\* the record is complete.
Read(c) ==
    /\ At(c, "hello")
    /\ session[c].read < Len(client[c].bytes)
    /\ \E n \in Reads :
         LET sent == Len(client[c].bytes)
             read == IF session[c].read + n < sent THEN session[c].read + n ELSE sent
             buffer == Heard(c, read)
             name == server_name(buffer)
         IN IF ~looks_like_tls(buffer) \/ read > MAX_CLIENT_HELLO THEN End(c)
            ELSE IF ~HelloDone(buffer) THEN Become(c, [session[c] EXCEPT !.read = read])
            ELSE IF name = NoName THEN Become(c, [NewSession EXCEPT !.at = "nameless"])
            ELSE Become(c, [session[c] EXCEPT !.read = read, !.host = name, !.at = "named"])

\* The client closes or resets the connection before its hello is complete.
Hangup(c) == At(c, "hello") /\ End(c)

\* Mutant of HelloTimeout: there is no timeout.
HelloTimeout_Never(c) == FALSE /\ End(c)

\* HELLO_TIMEOUT passes.
HelloTimeout(c) == At(c, "hello") /\ End(c)

\* splice: the name must be in the live list, unless passthrough is on.
CheckName(c) ==
    /\ At(c, "named")
    /\ IF Passthrough \/ session[c].host \in Lists[revision]
       THEN Become(c, [session[c] EXCEPT !.at = "resolve"])
       ELSE End(c)

\* splice: the lookup, through the guard; none left, or no answer, ends it.
Resolve(c) ==
    /\ At(c, "resolve")
    /\ \/ \E ips \in Answers :
            /\ Allowed(ips) # {}
            /\ Become(c, [session[c] EXCEPT !.at = "connect", !.addresses = Allowed(ips)])
       \/ End(c)

\* splice: an address is connected to and the bytes read so far are written to it, or the
\* write fails; or the address does not answer in CONNECT_TIMEOUT and the next is tried.
Connect(c) ==
    /\ At(c, "connect")
    /\ \E ip \in session[c].addresses :
         \/ Become(c, [session[c] EXCEPT !.at = "relay", !.origin = {ip},
                                         !.relayed = Heard(c, session[c].read)])
         \/ IF session[c].addresses = {ip} THEN End(c)
            ELSE Become(c, [session[c] EXCEPT !.addresses = @ \ {ip}])
         \/ End(c)

\* Mutant of Relay: what was buffered is not in front of what is copied.
Relay_Afresh(c) ==
    /\ At(c, "relay")
    /\ session[c].read < Len(client[c].bytes)
    /\ LET read == session[c].read + 1 IN
         Become(c, [session[c] EXCEPT !.read = read, !.relayed = <<client[c].bytes[read]>>])

\* copy_bidirectional: more of the client's bytes; it has no timeout.
Relay(c) ==
    /\ At(c, "relay")
    /\ session[c].read < Len(client[c].bytes)
    /\ LET read == session[c].read + 1 IN
         Become(c, [session[c] EXCEPT !.read = read,
                                      !.relayed = Append(@, client[c].bytes[read])])

\* copy_bidirectional: both sides are done, or one fails.
RelayEnds(c) == At(c, "relay") /\ End(c)

Splice(c) ==
    \/ Read(c)
    \/ Hangup(c)
    \/ HelloTimeout(c)
    \/ CheckName(c)
    \/ Resolve(c)
    \/ Connect(c)
    \/ Relay(c)
    \/ RelayEnds(c)

\* Each attempt arrives at its listener.
Arrives(l, c) == c \in Tls <=> l = TlsListener

\* The permit is dropped when the connection's task ends.
TaskEnded(c) == c \in Tls => session[c].at \in Over

SniNext ==
    \/ \E l \in Listeners, c \in Conns : Arrives(l, c) /\ Acquire(l, c) /\ UNCHANGED sniVars
    \/ \E c \in Conns : TaskEnded(c) /\ DropOpen(c) /\ UNCHANGED sniVars
    \/ \E c \in Conns : DropPeer(c) /\ UNCHANGED sniVars
    \/ \E c \in Tls : Splice(c)
    \/ Refresh

SniSpec == SniInit /\ [][SniNext]_allVars

\* As in ConnectionLimit; the timers fire, the resolver answers or gives up, and a task
\* that returns drops its permit.  Nothing makes a client send, or a relay end.
SniFairSpec ==
    /\ SniSpec
    /\ \A l \in Listeners, c \in Conns :
         WF_allVars(/\ Arrives(l, c)
                    /\ Load(l, c) \/ SwapOk(l, c) \/ SwapFail(l, c) \/ GiveBack(l, c)
                    /\ UNCHANGED sniVars)
    /\ \A c \in Conns : WF_allVars(DropPeer(c) /\ UNCHANGED sniVars)
    /\ \A c \in Tls : /\ WF_allVars(HelloTimeout(c))
                      /\ WF_allVars(CheckName(c) \/ Resolve(c) \/ Connect(c))
                      /\ WF_allVars(TaskEnded(c) /\ DropOpen(c) /\ UNCHANGED sniVars)
-----------------------------------------------------------------------------
\* The hosts that have been in a list in charge.
EverListed == UNION {Lists[n] : n \in 1 .. revision}

\* sni/proxy.rs, FR-64 and the replay of the hello: bytes flow only to an address the
\* guard lets through, for a name that has been in the live list (or under passthrough),
\* and the origin gets the client's bytes from the first one on, whatever was read beyond
\* the hello while looking for its name.
RelaysAreFaithful ==
    \A c \in Tls : session[c].at = "relay" =>
       /\ session[c].relayed = Heard(c, session[c].read)
       /\ Passthrough \/ session[c].host \in EverListed
       /\ \A ip \in session[c].origin : check(ip) = "ok"

\* The parser finds the name that each client put into its hello, when it has all of it.
HellosParse ==
    \A c \in Tls : \A k \in Clients[c] : HelloDone(k.bytes) => server_name(k.bytes) = k.name

\* clienthello.rs and the read loop, "a partial hello parses to None": whatever the
\* fragments a hello arrives in, the name acted on is the one the client put into it, and
\* only a client that asked for none is told so.
NameSurvivesFragments ==
    \A c \in Tls :
       /\ session[c].at = "nameless" => client[c].name = NoName
       /\ session[c].host # NoName => session[c].host = client[c].name

\* sni/proxy.rs, HELLO_TIMEOUT, and "Released when this task ends, however it ends": an
\* admitted TLS connection comes to relay bytes or gives its permit back, also if its
\* client never says a word or its origin never answers.
PermitsComeBack ==
    \A c \in Tls : state[c] = "held" ~> (state[c] = "gone" \/ session[c].at = "relay")
=============================================================================
