---------------------------- MODULE ClientHello ----------------------------
(***************************************************************************)
(* sni/clienthello.rs: the server name of a TLS ClientHello.  A buffer is  *)
(* a sequence of cells; a cell is one field of the format, of one or two   *)
(* bytes, or one byte of a name.  The 32 bytes of random are one cell.     *)
(***************************************************************************)
EXTENDS Integers, Sequences

CONSTANT MAX_CLIENT_HELLO    \* the most the proxy buffers

ASSUME MaxHelloNat == MAX_CLIENT_HELLO \in Nat

RECORD_HANDSHAKE == 22
HANDSHAKE_CLIENT_HELLO == 1
EXT_SERVER_NAME == 0
NAME_TYPE_HOST == 0
HeaderLen == 3    \* type, version and length of a record

\* Reader: what is left after n cells; Short if the buffer ends before.
Short == <<-1>>
After(s, n) == IF s = Short \/ Len(s) < n THEN Short ELSE SubSeq(s, n + 1, Len(s))

\* A field with a length prefix: its data, and what follows it.
Data(s) == IF s = Short \/ s = <<>> \/ Len(s) - 1 < s[1] THEN Short ELSE SubSeq(s, 2, s[1] + 1)
SkipVec(s) == IF Data(s) = Short THEN Short ELSE After(s, s[1] + 1)

looks_like_tls(buffer) == buffer # <<>> /\ buffer[1] = RECORD_HANDSHAKE

\* record_length, of a buffer that has the header.
record_length(buffer) == buffer[3] + HeaderLen

NoName == <<>>

Lower(name) == [i \in DOMAIN name |-> IF name[i] \in 65 .. 90 THEN name[i] + 32 ELSE name[i]]

\* The items of a list of (kind, length, data), from the first of a kind on: its data.
FirstOf(kind, list) ==
    LET Find[at \in 1 .. Len(list) + 1] ==
          IF Len(list) - at < 1 \/ Len(list) - at - 1 < list[at + 1] THEN Short
          ELSE IF list[at] = kind THEN SubSeq(list, at + 2, at + 1 + list[at + 1])
          ELSE Find[at + 2 + list[at + 1]]
    IN Find[1]

\* server_name: the handshake message, which ends with the record or with the buffer.
Handshake(record) ==
    IF Len(record) < HeaderLen \/ record[1] # RECORD_HANDSHAKE THEN Short
    ELSE SubSeq(record, HeaderLen + 1,
                IF record_length(record) < Len(record) THEN record_length(record) ELSE Len(record))

\* server_name: the name in it.
NameIn(body) ==
    LET hello == IF body # Short /\ body # <<>> /\ body[1] = HANDSHAKE_CLIENT_HELLO
                 THEN After(body, 5) ELSE Short
        extensions == Data(SkipVec(SkipVec(SkipVec(hello))))
        names == IF extensions = Short THEN Short ELSE Data(FirstOf(EXT_SERVER_NAME, extensions))
        host == IF names = Short THEN Short ELSE FirstOf(NAME_TYPE_HOST, names)
    IN IF host = Short \/ \E i \in DOMAIN host : host[i] > 127 THEN NoName ELSE Lower(host)

server_name(record) == NameIn(Handshake(record))
-----------------------------------------------------------------------------
(***************************************************************************)
(* The reference: what a client says, and how it puts it on the wire.  An  *)
(* extension is a kind and the names it lists, a name its type and its     *)
(* characters.                                                             *)
(***************************************************************************)
Vec(s) == <<Len(s)>> \o s
Concat(parts) ==
    LET Join[n \in 0 .. Len(parts)] == IF n = 0 THEN <<>> ELSE Join[n - 1] \o parts[n]
    IN Join[Len(parts)]

ExtensionWire(e) ==
    <<e.kind>> \o Vec(Vec(Concat([i \in DOMAIN e.names |->
                                    <<e.names[i].type>> \o Vec(e.names[i].chars)])))

HelloWire(session, extensions) ==
    LET body == <<HANDSHAKE_CLIENT_HELLO, 0, 9, 3, 77>> \o Vec(session) \o Vec(<<5>>) \o Vec(<<0>>)
                \o Vec(Concat([i \in DOMAIN extensions |-> ExtensionWire(extensions[i])]))
    IN <<RECORD_HANDSHAKE, 3>> \o Vec(body)

\* The name a client asks for: the first host name of its first server_name extension.
NameAsked(extensions) ==
    LET found == SelectSeq(extensions, LAMBDA e : e.kind = EXT_SERVER_NAME)
        hosts == IF found = <<>> THEN <<>>
                 ELSE SelectSeq(found[1].names, LAMBDA n : n.type = NAME_TYPE_HOST)
    IN IF hosts = <<>> \/ \E i \in DOMAIN hosts[1].chars : hosts[1].chars[i] > 127 THEN NoName
       ELSE Lower(hosts[1].chars)
=============================================================================
