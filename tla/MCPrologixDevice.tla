-------------------------- MODULE MCPrologixDevice --------------------------
(* A client that sends twice, and two bytes of data on the bus of which    *)
(* one is equal to the adapter's talk address.                             *)
EXTENDS PrologixDevice

Mode(op, n) == [op |-> op, n |-> n]
Modes == ("lon 1" :> Mode("lon", 1)) @@ ("lon 0" :> Mode("lon", 0))
           @@ ("ton 1" :> Mode("ton", 1)) @@ ("ton 2" :> Mode("ton", 2))
           @@ ("ton 0" :> Mode("ton", 0)) @@ ("prom 1" :> Mode("prom", 1))
           @@ ("mode 0" :> Mode("mode", 0)) @@ ("mode 1" :> Mode("mode", 1))
TwoWords == <<"a", "b">>
Symbols == DOMAIN Modes \cup {"a", "b", "BANG"}

Line(w) == <<"PLUS", "PLUS", w, "CR">>
Plain(w) == <<w, "CR">>
TwoTexts == << {Line(w) : w \in {"lon 1", "ton 1", "prom 1", "mode 0", "mode 1"}}
                  \cup {Plain("a"), Line("ton 2") \o Plain("a")},
               {Plain("b"), Line("lon 0"), Line("ton 2"), Line("ton 0") \o Line("mode 1")} >>
NoTexts == <<>>

AllMessages == {"MLA", "MTA", "UNL", "UNT", "SPE", "SPD", "SDC", "GET", "TCT", "other"}
SomeMessages == {"MLA", "MTA", "UNL", "SPE", "SDC"}
Misleading == <<"MTA", "none">>
=============================================================================
