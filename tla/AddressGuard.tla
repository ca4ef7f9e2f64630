---------------------------- MODULE AddressGuard ----------------------------
(***************************************************************************)
(* The address guard of upstream/guard.rs, and the filter resolve() of     *)
(* upstream/resolver.rs puts over a lookup.  An IPv4 address is the tuple  *)
(* of its four octets, an IPv6 address the tuple of its eight segments.    *)
(***************************************************************************)
EXTENDS Integers, Sequences, FiniteSets

CONSTANT AllowPrivate    \* the operator's allow-private option

ASSUME AllowPrivateBoolean == AllowPrivate \in BOOLEAN

\* Refusal: the closed set of reasons, also the labels of the metric.
Refusals == {"loopback", "private", "link_local", "unspecified",
             "multicast_or_broadcast", "reserved"}

\* Addresses, as std::net parses them.
Octets == 0 .. 2^8 - 1
Segments == 0 .. 2^16 - 1
IPv4 == [1 .. 4 -> Octets]
IPv6 == [1 .. 8 -> Segments]

IsV4(ip) == Len(ip) = 4

\* check_v4: the first rule that applies names the refusal.
check_v4(a) ==
    IF a = <<0, 0, 0, 0>> THEN "unspecified"
    ELSE IF a[1] = 127 THEN "loopback"
    ELSE IF \/ a[1] = 10
            \/ a[1] = 172 /\ a[2] \in 16 .. 31
            \/ a[1] = 192 /\ a[2] = 168
         THEN "private"
    ELSE IF a[1] = 169 /\ a[2] = 254 THEN "link_local"
    ELSE IF a[1] \in 224 .. 239 \/ a = <<255, 255, 255, 255>> THEN "multicast_or_broadcast"
    ELSE IF \/ a[1] = 100 /\ a[2] \in 64 .. 127
            \/ a[1] = 0
            \/ a[1] >= 240
            \/ <<a[1], a[2], a[3]>> \in {<<192, 0, 0>>, <<192, 0, 2>>, <<198, 51, 100>>,
                                         <<203, 0, 113>>}
            \/ a[1] = 198 /\ a[2] \in 18 .. 19
         THEN "reserved"
    ELSE "ok"

\* The IPv4 address two segments spell.
FromSegments(hi, lo) == <<hi \div 256, hi % 256, lo \div 256, lo % 256>>

Zeros(s, n) == \A i \in 1 .. n : s[i] = 0

\* The forms that carry an IPv4 address, each with the address it carries:
\* mapped, IPv4-compatible, NAT64 (by its first two segments) and 6to4.
embedded_v4(s) ==
    IF \/ Zeros(s, 5) /\ s[6] = 65535
       \/ Zeros(s, 6)
       \/ s[1] = 100 /\ s[2] = 65435
    THEN {FromSegments(s[7], s[8])}
    ELSE IF s[1] = 8194 THEN {FromSegments(s[2], s[3])}
    ELSE {}

\* check_v6: an embedded address decides; Teredo, unique local, link local and
\* documentation addresses are refused by their prefixes.
check_v6(s) ==
    IF Zeros(s, 8) THEN "unspecified"
    ELSE IF Zeros(s, 7) /\ s[8] = 1 THEN "loopback"
    ELSE IF s[1] \div 256 = 255 THEN "multicast_or_broadcast"
    ELSE IF embedded_v4(s) # {} THEN check_v4(CHOOSE a \in embedded_v4(s) : TRUE)
    ELSE IF s[1] = 8193 /\ s[2] = 0 THEN "reserved"
    ELSE IF s[1] \div 512 = 126 THEN "private"
    ELSE IF s[1] \div 64 = 1018 THEN "link_local"
    ELSE IF s[1] = 8193 /\ s[2] = 3512 THEN "reserved"
    ELSE "ok"

\* check.
check(ip) ==
    IF AllowPrivate THEN "ok" ELSE IF IsV4(ip) THEN check_v4(ip) ELSE check_v6(ip)

Allowed(ips) == {ip \in ips : check(ip) = "ok"}
-----------------------------------------------------------------------------
(***************************************************************************)
(* The reference: the blocks of the special-purpose address registries,    *)
(* each a prefix and its length in bits, and the blocks whose addresses    *)
(* stand for an IPv4 address.                                              *)
(***************************************************************************)

\* Two w-bit digits agree in their first bits: all of them, or as many as are left.
SameBits(x, y, left, w) ==
    LET bits == IF left > w THEN w ELSE left
    IN left > 0 => x \div 2^(w - bits) = y \div 2^(w - bits)

\* The first n bits of two sequences of w-bit digits agree.
SamePrefix(a, b, n, w) == \A i \in 1 .. Len(a) : SameBits(a[i], b[i], n - w * (i - 1), w)

SpecialV4Blocks ==
    { <<<<0, 0, 0, 0>>, 8>>, <<<<10, 0, 0, 0>>, 8>>, <<<<100, 64, 0, 0>>, 10>>,
      <<<<127, 0, 0, 0>>, 8>>, <<<<169, 254, 0, 0>>, 16>>, <<<<172, 16, 0, 0>>, 12>>,
      <<<<192, 0, 0, 0>>, 24>>, <<<<192, 0, 2, 0>>, 24>>, <<<<192, 168, 0, 0>>, 16>>,
      <<<<198, 18, 0, 0>>, 15>>, <<<<198, 51, 100, 0>>, 24>>, <<<<203, 0, 113, 0>>, 24>>,
      <<<<224, 0, 0, 0>>, 4>>, <<<<240, 0, 0, 0>>, 4>> }

SpecialV6Blocks ==
    { <<<<0, 0, 0, 0, 0, 0, 0, 0>>, 128>>, <<<<0, 0, 0, 0, 0, 0, 0, 1>>, 128>>,
      <<<<8193, 0, 0, 0, 0, 0, 0, 0>>, 32>>, <<<<8193, 3512, 0, 0, 0, 0, 0, 0>>, 32>>,
      <<<<64512, 0, 0, 0, 0, 0, 0, 0>>, 7>>, <<<<65152, 0, 0, 0, 0, 0, 0, 0>>, 10>>,
      <<<<65280, 0, 0, 0, 0, 0, 0, 0>>, 8>> }

\* The blocks that carry an IPv4 address, with the bit at which it starts.
CarrierBlocks ==
    { <<<<0, 0, 0, 0, 0, 65535, 0, 0>>, 96, 96>>, <<<<0, 0, 0, 0, 0, 0, 0, 0>>, 96, 96>>,
      <<<<100, 65435, 0, 0, 0, 0, 0, 0>>, 96, 96>>, <<<<8194, 0, 0, 0, 0, 0, 0, 0>>, 16, 16>> }

SpecialV4(ip) == \E b \in SpecialV4Blocks : SamePrefix(ip, b[1], b[2], 8)

SpecialV6(ip) ==
    \/ \E b \in SpecialV6Blocks : SamePrefix(ip, b[1], b[2], 16)
    \/ \E b \in CarrierBlocks :
          /\ SamePrefix(ip, b[1], b[2], 16)
          /\ LET i == b[3] \div 16 IN SpecialV4(FromSegments(ip[i + 1], ip[i + 2]))

\* An address that is not on the public internet.
SpecialPurpose(ip) == IF IsV4(ip) THEN SpecialV4(ip) ELSE SpecialV6(ip)
=============================================================================
