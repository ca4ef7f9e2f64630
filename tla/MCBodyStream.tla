---------------------------- MODULE MCBodyStream ----------------------------
(***************************************************************************)
(* Objects of up to four slices of three bytes, every length, and every    *)
(* range with bounds around them.                                          *)
(***************************************************************************)
EXTENDS BodyStream

MCTotals == {0, 1, 2, 3, 4, 6, 7, 11, 12}
Bounds == {0, 1, 2, 3, 5, 6, 10, 11, 12}
MCSpecs == {NoSpec} \cup {From(a) : a \in Bounds} \cup {Suffix(n) : n \in Bounds}
             \cup {FromTo(a, b) : a \in Bounds, b \in Bounds}
ParsedSpecs == {s \in MCSpecs : s.kind = "fromto" => s.from <= s.to}
=============================================================================
