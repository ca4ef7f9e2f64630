----------------------------- MODULE MCPlanning -----------------------------
(***************************************************************************)
(* Planning with one object long enough to be streamed, two more to fill a *)
(* pattern map of two, one without ranges and an empty one.                *)
(***************************************************************************)
EXTENDS Planning

MCLength == [film |-> 7, icon |-> 3, page |-> 1, dump |-> 3, void |-> 0]

MCEntity == [o \in DOMAIN MCLength |->
               [etag |-> [kind |-> "strong", text |-> "now"], last_modified |-> "today"]]

Get(o, spec) ==
    [object |-> o, method |-> "GET", spec |-> spec, headers |-> {"host", "range"}, named |-> {},
     if_range |-> NoTag]
IfRange(q, value) == [q EXCEPT !.headers = @ \cup {"if-range"}, !.if_range = value]
With(q, names) == [q EXCEPT !.headers = @ \cup names]

\* film is read slice by slice, from its end, and from a slice beyond the last u32; icon is
\* asked for under the right version and under an old one, page beyond its end.
MCRequests ==
    {Get("film", FromTo(0, 1)), Get("film", FromTo(2, 3)), Get("film", FromTo(8, 9)),
     Get("film", Suffix(3)), [Get("film", From(2)) EXCEPT !.method = "HEAD"],
     With(Get("film", FromTo(4, 5)), {"if-none-match", "cookie"}),
     IfRange(Get("icon", FromTo(0, 1)), [kind |-> "date", text |-> "today"]),
     IfRange(Get("icon", From(2)), [kind |-> "strong", text |-> "old"]),
     IfRange(Get("page", From(0)), [kind |-> "weak", text |-> "now"]), Get("page", From(2)),
     Get("dump", FromTo(1, 1)), Get("void", NoSpec)}
=============================================================================
