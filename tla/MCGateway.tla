----------------------------- MODULE MCGateway -----------------------------
(* Requests and bounds for the model-checking runs of Gateway.             *)
EXTENDS Gateway

Rq(op, nr, len, blank, end) ==
    [op |-> op, nr |-> nr, len |-> len, blank |-> blank, end |-> end]
Link(nr) == Rq("create_link", nr, 0, 0, FALSE)
Plain(op) == Rq(op, 0, 0, 0, FALSE)
WriteOf(len, blank, end) == Rq("write", 0, len, blank, end)
W(op, addr, len) == [op |-> op, addr |-> addr, len |-> len]

Cabled == {1, 2}
NoRequests == {}

(* Two instruments; the partial messages and reads that keep an instrument *)
(* addressed from one request to the next.                                 *)
RoutingRequests == {Link(1), Link(2), Plain("destroy_link"), WriteOf(1, 0, FALSE), Plain("read")}
(* The same with whole messages and clears, for one client at a time.      *)
FailureRequests == {Link(1), Link(2), WriteOf(2, 1, TRUE), WriteOf(1, 0, FALSE),
                    Plain("read"), Plain("devclear"), Plain("destroy_link")}
(* What meets the web page, with links to the default instrument, to       *)
(* address 31 and out of range, and what reaches no instrument.            *)
OtherRequests == {Link(0), Link(31), Link(32), Plain("readstb"), Plain("read"),
                  WriteOf(1, 0, FALSE), WriteOf(2, 1, TRUE), Plain("devclear"),
                  Plain("other_program"), Plain("other_procedure")}
StaleRequests == {Link(1), Link(2), WriteOf(1, 0, TRUE)}
CutOffRequests == {Link(1), WriteOf(1, 0, TRUE), WriteOf(300, 0, TRUE), Plain("read")}
WebAll == {W("fnd", 0, 0), W("query", 1, 1), W("send", 31, 1), W("read", 2, 0)}
BindGet == {"GET_PORT"}
=============================================================================
