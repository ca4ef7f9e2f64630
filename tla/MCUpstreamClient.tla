-------------------------- MODULE MCUpstreamClient --------------------------
(***************************************************************************)
(* Two calls to a service whose origin stalls and two, one of them a       *)
(* stream, to a healthy service whose configured limit is zero; the global *)
(* ceiling leaves one permit beyond the stalled service's.  DNS answers    *)
(* with public and private addresses, none or both.  In the other          *)
(* workloads one call names an address on either side of the edges of the  *)
(* special-purpose blocks: an IPv4 address literally, an IPv6 address by a *)
(* name that resolves to it.  With MCFills both calls to the healthy       *)
(* service are streams.                                                    *)
(***************************************************************************)
EXTENDS UpstreamClient

CONSTANTS a1, a2, b1, b2, slow, healthy, Name

MCFetches == {a1, a2, b1, b2}
MCStreams == {b2}
MCFills == {b1, b2}
MCServices == {slow, healthy}
MCServiceOf == [f \in MCFetches |-> IF f \in {a1, a2} THEN slow ELSE healthy]
MCLimits == [s \in MCServices |-> IF s = slow THEN 1 ELSE 0]
MCStalled == {slow}

public == <<93, 184, 216, 34>>
private == <<192, 168, 1, 1>>
\* Octets at the edges of the blocks.
V4Edges ==
    {<<a, b, 0, 1>> : a \in {0, 1, 9, 10, 11, 126, 127, 128, 223, 224, 239, 240, 255},
                      b \in {0, 255}}
    \cup {<<100, b, 0, 1>> : b \in {63, 64, 127, 128}}
    \cup {<<169, b, 169, 254>> : b \in {253, 254, 255}}
    \cup {<<172, b, 0, 1>> : b \in {15, 16, 31, 32}}
    \cup {<<192, b, c, 1>> : b \in {0, 167, 168, 169}, c \in {0, 1, 2, 3}}
    \cup {<<198, b, c, 1>> : b \in {17, 18, 19, 20, 51}, c \in {99, 100, 101}}
    \cup {<<203, 0, c, 1>> : c \in {112, 113, 114}}
    \cup {<<0, 0, 0, 0>>, <<255, 255, 255, 255>>}

\* IPv6 addresses that carry an IPv4 address, and the edges of the prefixes.
V6Edges ==
    {<<0, 0, 0, 0, 0, x, hi, 257>> : x \in {0, 65535}, hi \in {1, 2560, 23992, 49320}}
    \cup {<<100, 65435, 0, 0, 0, 0, hi, 257>> : hi \in {2560, 23992, 49320}}
    \cup {<<8194, hi, 257, 0, 0, 0, 0, 1>> : hi \in {2560, 23992, 49320}}
    \cup {<<8193, x, 0, 0, 0, 0, 0, 1>> : x \in {0, 1, 3511, 3512, 3513}}
    \cup {<<x, 0, 0, 0, 0, 0, 0, 1>> : x \in {64511, 64512, 65023, 65024, 65151, 65152,
                                              65215, 65216, 65279, 65280, 65535}}
    \cup {<<0, 0, 0, 0, 0, 0, 0, 0>>, <<0, 0, 0, 0, 0, 0, 0, 1>>}

NameOf(ip) == <<"name", ip>>

MCAnswers ==
    [n \in {Name} \cup {NameOf(ip) : ip \in V6Edges} |->
       IF n = Name THEN {{}, {public}, {private}, {public, private}} ELSE {{n[2]}}]

MCWorkloads ==
    {[f \in MCFetches |-> Name]}
    \cup {[f \in MCFetches |-> IF f = b1 THEN h ELSE Unused] :
             h \in V4Edges \cup {NameOf(ip) : ip \in V6Edges} \cup {<<0, 0, 0, 0, 0, 0, 0, 1>>}}
=============================================================================
