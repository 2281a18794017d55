---------------------------- MODULE MCPrologix ----------------------------
(* Two instruments, a parse buffer of four words and a client that sends   *)
(* every kind of command, data that fits and data that does not.           *)
EXTENDS PrologixServer

Cabled == {1, 2}

Cmd(op, n) == [op |-> op, n |-> n, all |-> FALSE, query |-> FALSE]
All(op, n) == [Cmd(op, n) EXCEPT !.all = TRUE]

Plain == {"default", "ifc", "clr", "dcl", "unl", "unt", "ppoll", "llo", "loc",
          "trg", "read", "repeat", "spoll"}
AllCommands ==
    [w \in Plain |-> Cmd(w, <<>>)]
      @@ ("addr 1" :> Cmd("addr", <<1>>)) @@ ("addr 2" :> Cmd("addr", <<2>>))
      @@ ("addr 31" :> Cmd("addr", <<31>>))
      @@ ("auto 0" :> Cmd("auto", <<0>>)) @@ ("auto 1" :> Cmd("auto", <<1>>))
      @@ ("auto 2" :> Cmd("auto", <<2>>)) @@ ("auto 3" :> Cmd("auto", <<3>>))
      @@ ("srqauto 1" :> Cmd("srqauto", <<1>>))
      @@ ("macro 1" :> Cmd("macro", <<1>>)) @@ ("macro 2" :> Cmd("macro", <<2>>))
      @@ ("llo all" :> All("llo", <<>>)) @@ ("loc all" :> All("loc", <<>>))
      @@ ("trg 1 2" :> Cmd("trg", <<1, 2>>)) @@ ("fndl 1 2" :> Cmd("fndl", <<1, 2>>))
      @@ ("read @2" :> Cmd("read", <<2>>)) @@ ("send 0" :> Cmd("send", <<0>>))
      @@ ("send 2" :> Cmd("send", <<2>>))
      @@ ("send 2?" :> [Cmd("send", <<2>>) EXCEPT !.query = TRUE])
      @@ ("spoll 2 1" :> Cmd("spoll", <<2, 1>>))
      @@ ("spoll all" :> All("spoll", [k \in 1..30 |-> k - 1]))

Words(commands) == DOMAIN commands \cup {"BANG", "d", "q?", "*idn?"}

Line(w) == <<"PLUS", "PLUS", w, "CR">>
Lines(commands) == {Line(w) : w \in DOMAIN commands \cup {"BANG", "d"}}
Data == {<<"d", "CR">>, <<"q?", "CR">>, <<"*idn?", "CR">>, <<"d">>,
         <<"d", "d", "d", "d", "CR">>, <<"PLUS", "PLUS", "unl", "d", "CR">>}

AllWords == Words(AllCommands)
AllTyped == Lines(AllCommands) \cup Data
AsksQuery == {"q?", "*idn?"}

TwoMacros == << <<<<"PLUS", "PLUS", "addr 1">>, <<"d">>>>, <<>> >>
=============================================================================
