----------------------------- MODULE MCSniProxy -----------------------------
(***************************************************************************)
(* Two attempts at each listener, three of the four from one peer, a       *)
(* global ceiling and a per-peer ceiling below the number of attempts:     *)
(* both refuse, and the loops race for the last global slot.  The clients  *)
(* of one TLS attempt ask for a listed name (in capitals, after another    *)
(* extension and with bytes after the hello), for a name that is listed    *)
(* later, for none, for one that is not ASCII, with too long a hello, or   *)
(* do not speak TLS; the other TLS client stops after a byte.              *)
(***************************************************************************)
EXTENDS SniProxy

CONSTANTS http, sni, t1, t2, h1, h2, p1, p2

MCListeners == {http, sni}
MCConns == {t1, t2, h1, h2}
MCTls == {t1, t2}
MCPeers == {p1, p2}
MCPeerOf == [c \in MCConns |-> IF c = h2 THEN p2 ELSE p1]

Asks(id, extensions, more) ==
    [bytes |-> HelloWire(id, extensions) \o more, name |-> NameAsked(extensions)]
Sni(names) == [kind |-> EXT_SERVER_NAME, names |-> names]
Host(chars) == [type |-> NAME_TYPE_HOST, chars |-> chars]
Other == [type |-> 7, chars |-> <<120>>]

\* "a" is listed from the start, "b" later.
Plain == Asks(<<>>, <<Sni(<<Host(<<97>>)>>)>>, <<>>)
Various ==
    { Plain,
      Asks(<<8>>, <<[kind |-> 10, names |-> <<Host(<<98>>)>>], Sni(<<Other, Host(<<65>>)>>)>>, <<1, 2>>),
      Asks(<<>>, <<Sni(<<Host(<<98>>)>>), Sni(<<Host(<<97>>)>>)>>, <<>>),
      Asks(<<>>, <<Sni(<<Host(<<97, 200>>)>>)>>, <<>>),
      Asks(<<>>, <<[kind |-> 16, names |-> <<Host(<<97>>)>>]>>, <<>>),
      Asks([i \in 1 .. 40 |-> 9], <<Sni(<<Host(<<97>>)>>)>>, <<>>),
      [bytes |-> <<71, 69, 84>>, name |-> NoName] }
MCClients == [c \in MCTls |-> IF c = t1 THEN Various ELSE {[bytes |-> <<22>>, name |-> NoName]}]

public == <<93, 184, 216, 34>>
private == <<192, 168, 1, 1>>
MCAnswers == {{}, {public}, {private}, {public, private, <<1, 1, 1, 1>>}}
MCLists == <<{<<97>>}, {<<98>>}>>
MCReads == {5, 12, 40}

ASSUME ClientsUnderstood == HellosParse
=============================================================================
