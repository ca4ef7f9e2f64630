------------------------------ MODULE Settings ------------------------------
(***************************************************************************)
(* The settings a process starts with: sizes as config/units.rs parses     *)
(* them, validate of config/mod.rs and the guard of the cache directory,   *)
(* config/guard.rs.  A size is written as a number and a unit, binary or   *)
(* decimal; a number of NoSize stands for a text that has none.  Messages  *)
(* are left out: every refusal ends the process with the same exit code.   *)
(***************************************************************************)
EXTENDS Integers

CONSTANTS
    Kibi, Kilo,         \* 1 << 10 and 1000
    U32_MAX, U64_MAX,
    MIN_SLICE_SIZE,
    DEFAULT_BLOCK_SIZE,
    STORE_FORMAT_VERSION

ASSUME UnitsNat == /\ Kibi \in Nat \ {0} /\ Kilo \in Nat \ {0}
                   /\ U32_MAX \in Nat /\ U64_MAX \in Nat /\ MIN_SLICE_SIZE \in Nat \ {0}
                   /\ DEFAULT_BLOCK_SIZE \in Nat

NoSize == -1

\* The units of a size, in powers of 1024 or of 1000, and those of a duration, in seconds.
SizeUnits(k) ==
    [b |-> 1, k |-> k, m |-> k * k, g |-> k * k * k, t |-> k * k * k * k]
DurationUnits == [s |-> 1, m |-> 60, h |-> 3600, d |-> 86400, w |-> 604800]

\* split, and checked_mul: no number, an unknown unit and a product beyond u64 are errors.
Scaled(text, units) ==
    IF text.number = NoSize \/ text.unit \notin DOMAIN units THEN NoSize
    ELSE IF text.number * units[text.unit] > U64_MAX THEN NoSize
    ELSE text.number * units[text.unit]

\* parse_size: nginx's and the IEC spellings are binary, SI is decimal.
parse_size(text) == Scaled(text, SizeUnits(IF text.si THEN Kilo ELSE Kibi))

\* parse_duration: bare numbers are seconds.
parse_duration(text) == Scaled(text, DurationUnits)

\* format_size: in the largest binary unit that divides it.
format_size(bytes) ==
    LET units == SizeUnits(Kibi)
        fits(u) == bytes >= units[u] /\ bytes % units[u] = 0
        unit == IF fits("t") THEN "t" ELSE IF fits("g") THEN "g" ELSE IF fits("m") THEN "m"
                ELSE IF fits("k") THEN "k" ELSE "b"
    IN [number |-> bytes \div units[unit], unit |-> unit, si |-> FALSE]

Sizes == {"disk", "mem", "slice_size", "buffer_pool", "min_free"}
Durations == {"max_age", "refresh"}

\* Config::parse, of the settings that are sizes and durations.
Parsable(c) ==
    /\ \A s \in Sizes : parse_size(c[s]) # NoSize
    /\ \A d \in Durations : parse_duration(c[d]) # NoSize
Size(c, s) == parse_size(c[s])

\* A divisor of a power of two is one, or even.
is_power_of_two(n) == n > 0 /\ \A d \in 2 .. n : n % d = 0 => d % 2 = 0

SatMul(a, b) == IF a * b > U64_MAX THEN U64_MAX ELSE a * b

\* Mutant of ports_distinct: the two data listeners may share a port.
ports_distinct_Admin(c) == c.http # c.admin /\ c.https # c.admin

\* validate, its last two rules.
ports_distinct(c) ==
    /\ c.http # c.admin /\ c.https # c.admin
    /\ c.http # c.https

\* validate
validate(c) ==
    /\ c.flushers # 0
    /\ Size(c, "buffer_pool") >= SatMul(Size(c, "slice_size"), 4)
    /\ Size(c, "slice_size") >= MIN_SLICE_SIZE
    /\ is_power_of_two(Size(c, "slice_size"))
    /\ Size(c, "slice_size") <= U32_MAX
    /\ Size(c, "disk") >= Size(c, "slice_size")
    /\ Size(c, "mem") >= Size(c, "slice_size")
    /\ c.readahead # 0
    /\ c.max_inflight # 0
    /\ c.dns # {}
    /\ ports_distinct(c)

\* StoreConfig::from_config: what the slice store is opened with.
from_config(c) ==
    [memory_bytes |-> Size(c, "mem"), disk_bytes |-> Size(c, "disk"),
     block_bytes |-> IF DEFAULT_BLOCK_SIZE > 4 * Size(c, "slice_size") THEN DEFAULT_BLOCK_SIZE
                     ELSE 4 * Size(c, "slice_size"),
     flushers |-> c.flushers, buffer_pool_bytes |-> Size(c, "buffer_pool")]

\* Rules::load and validate, of a file that may be unreadable or not TOML.  A service's rule
\* may leave its slice size and its ceiling Unset.
Unset == -1
valid_rules(rules) ==
    /\ rules.readable
    /\ \A r \in rules.services :
         /\ r.slice_size.number # Unset => is_power_of_two(parse_size(r.slice_size))
         /\ r.max_inflight # 0

\* UpstreamResolver::new: a resolver over exactly these servers, or none.
resolver_built(servers) == servers # {}
-----------------------------------------------------------------------------
\* space.rs.  SatSub and SatAdd are u64's saturating_sub and saturating_add.
SatSub(a, b) == IF a < b THEN 0 ELSE a - b
SatAdd(a, b) == IF a + b > U64_MAX THEN U64_MAX ELSE a + b

\* effective_cap: what the cache holds and may still claim without eating into the reserve.
effective_cap(configured, min_free, used, available) ==
    LET ceiling == SatAdd(used, SatSub(available, min_free))
    IN IF configured < ceiling THEN configured ELSE ceiling

is_engaged(configured, effective) == effective < configured
-----------------------------------------------------------------------------
\* The CONFIG file.  A file that was not written to its end is torn: it has lost one of the
\* two settings.
Absent == [kind |-> "absent"]
Torn == [kind |-> "torn"]
stored(c) == [kind |-> "config", slice_size |-> Size(c, "slice_size"),
              store_format_version |-> STORE_FORMAT_VERSION]

\* Mutant of check: a mismatch is adopted silently.
check_Adopts(file, c) ==
    IF file = Torn THEN "malformed" ELSE IF file = stored(c) THEN "same" ELSE "record"

\* check: the file agrees, is refused, or is written.  FORCE_CONFIG does not get past a
\* file that cannot be parsed.
check(file, c) ==
    IF file = Torn THEN "malformed"
    ELSE IF file = stored(c) THEN "same"
    ELSE IF file # Absent /\ ~c.force_config THEN "mismatch"
    ELSE "record"
=============================================================================
