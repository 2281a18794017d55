---------------------------- MODULE DeviceProofs ----------------------------
(***************************************************************************)
(* Theorems about the device mode, for every controller, talker and client *)
(* and every size of the buffers.                                          *)
(***************************************************************************)
EXTENDS PrologixDevice, ParserTheorems

-----------------------------------------------------------------------------
(* What is heard.                                                          *)

(* The data on the bus is newer than all the client has got: the last two  *)
(* conjuncts make HeardInOrder inductive, across Data, which numbers a new *)
(* byte, and TakeData and LonTake, which pass it on.                       *)
Numbers ==
    /\ said \in Nat
    /\ byte.nr \in 0..said
    /\ heard \in Seq(1..said)

HInv ==
    /\ Numbers
    /\ HeardInOrder
    /\ byte.nr > 0 => \A i \in DOMAIN heard : heard[i] < byte.nr

(* The variables HInv is about.                                            *)
hvars == <<byte, said, heard>>

LEMMA HInvInit == Init => HInv
  BY DEF Init, HInv, Numbers, HeardInOrder, Nothing, Byte

(* readByte hands on the byte there is.                                    *)
LEMMA TakePreserves ==
    ASSUME HInv, byte' = Nothing, said' = said, heard' = Hear(byte)
    PROVE  HInv'
<1> byte'.nr = 0
    BY DEF Nothing, Byte
<1> USE DEF HInv, Numbers, HeardInOrder
<1>1. CASE byte.nr = 0
  BY <1>1 DEF Hear
<1>2. CASE byte.nr > 0
  <2> DEFINE b == byte.nr
  <2>1. heard' = Append(heard, b) /\ b \in 1..said
    BY <1>2 DEF Hear
  <2>2. heard' \in Seq(1..said) /\ Len(heard') = Len(heard) + 1
    BY <2>1
  <2>3. \A i \in DOMAIN heard' :
            heard'[i] = IF i = Len(heard) + 1 THEN b ELSE heard[i]
    BY <2>1, <2>2
  <2>4. \A i, j \in DOMAIN heard' : i < j => heard'[i] < heard'[j]
    <3> SUFFICES ASSUME NEW i \in DOMAIN heard', NEW j \in DOMAIN heard', i < j
                 PROVE  heard'[i] < heard'[j]
      OBVIOUS
    <3>0. /\ heard \in Seq(1..said) /\ Len(heard) \in Nat /\ DOMAIN heard = 1..Len(heard)
          /\ DOMAIN heard' = 1..(Len(heard) + 1)
      BY <2>2
    <3>1. i \in DOMAIN heard /\ heard'[i] = heard[i]
      BY <2>3, <3>0
    <3>2. CASE j = Len(heard) + 1
      BY <1>2, <2>3, <3>1, <3>2
    <3>3. CASE j \in DOMAIN heard
      BY <2>3, <3>1, <3>3
    <3> QED
      BY <3>0, <3>2, <3>3
  <2> QED
    BY <2>2, <2>4
<1> QED
  BY <1>1, <1>2

LEMMA HInvNext == HInv /\ [Next]_vars => HInv'
<1> SUFFICES ASSUME HInv, [Next]_vars PROVE HInv'
  OBVIOUS
<1>1. ASSUME UNCHANGED hvars PROVE HInv'
  BY <1>1 DEF hvars, HInv, Numbers, HeardInOrder
<1>2. ASSUME Adapter PROVE HInv'
  <2>1. CASE TakeCommand
    <3>1. byte' = Nothing /\ said' = said /\ heard' = heard
      BY <2>1 DEF TakeCommand, Taking
    <3> QED
      BY <3>1 DEF HInv, Numbers, HeardInOrder, Nothing, Byte
  <2>2. CASE TakeData
    BY <2>2, TakePreserves DEF TakeData, Taking
  <2>3. CASE LonTake
    BY <2>3, TakePreserves DEF LonTake, Taking
  <2>4. CASE Look \/ LookAgain \/ ExecuteLine \/ NoCommand \/ Device \/ WhileATN
    BY <1>1, <2>4 DEF hvars, bus, Look, LookAgain, ExecuteLine, NoCommand, Device, WhileATN
  <2>5. CASE NoCommandByte \/ Unaddressed \/ execGpibCmd \/ ToListen \/ device_talk_h
    BY <1>1, <2>5 DEF hvars, bus, NoCommandByte, Unaddressed, execGpibCmd, ToListen,
                      device_talk_h
  <2>6. CASE NoData \/ LonNone \/ LonInput \/ TonUnbuffered \/ TonBuffered
    BY <1>1, <2>6 DEF hvars, bus, NoData, LonNone, LonInput, TonUnbuffered, TonBuffered
  <2>7. CASE SayWord \/ SaidLine \/ Prom \/ TakeInput \/ NoInput
    BY <1>1, <2>7 DEF hvars, bus, SayWord, SaidLine, Prom, TakeInput, NoInput
  <2> QED
    BY <1>2, <2>1, <2>2, <2>3, <2>4, <2>5, <2>6, <2>7 DEF Adapter
<1>3. CASE Message \/ PassesBy
  <2>1. byte'.nr = 0 /\ said' = said /\ heard' = heard
    BY <1>3 DEF Message, PassesBy, device, Nothing, Byte
  <2> QED
    BY <2>1 DEF HInv, Numbers, HeardInOrder
<1>4. CASE Data
  <2>1. byte'.nr = said + 1 /\ said' = said + 1 /\ heard' = heard
    BY <1>4 DEF Data, device, Byte
  <2>2. heard' \in Seq(1..said') /\ \A i \in DOMAIN heard : heard[i] \in 1..said
    BY <2>1 DEF HInv, Numbers
  <2> QED
    BY <2>1, <2>2 DEF HInv, Numbers, HeardInOrder
<1>5. CASE SwitchATN \/ ClientSends \/ checkClient
  BY <1>1, <1>5 DEF hvars, bus, device, SwitchATN, ClientSends, checkClient
<1>6. CASE UNCHANGED vars
  BY <1>1, <1>6 DEF hvars, vars, bus
<1> QED
  BY <1>2, <1>3, <1>4, <1>5, <1>6 DEF Next

(* In device mode the client gets what was said on the bus in its order,   *)
(* each byte once: for every controller, every talker, every client and    *)
(* every length of the buffers.                                            *)
THEOREM HeardInOrderCorrect == Spec => []HeardInOrder
<1>1. HInv => HeardInOrder
  BY DEF HInv
<1> QED
  BY <1>1, HInvInit, HInvNext, PTL DEF Spec

-----------------------------------------------------------------------------
(* Types.                                                                  *)

Modes == [isTO : 0..2, isRO : BOOLEAN, isProm : BOOLEAN]
States == {"idle", "DLAS", "DTAS"}
OnBus == {Nothing} \cup {Byte(0, m) : m \in Messages} \cup {Byte(n, Looks[n]) : n \in 1..said}

BusOK == atn \in BOOLEAN /\ said \in 0..Len(Looks) /\ byte \in OnBus
ModeOK == cstate \in States /\ modes \in Modes /\ isSpoll \in BOOLEAN
CmdOK ==
    /\ cmdbytes \in Seq(STRING) /\ Len(cmdbytes) <= cmdbuflen
    /\ pc = "byte" => Len(cmdbytes) < cmdbuflen
TextOK ==
    /\ Held(parser) /\ lnRdy \in 0..3
    /\ input \in Seq(Chars) /\ sends \in 0..Len(Texts)
    /\ saying \in Seq(Chars) /\ spoken \in Seq(Chars)
    /\ IF pc = "say" THEN Len(saying) <= Len(parser.pBuf) ELSE saying = <<>>

(* The inductive invariant: a line is only said in the loop of tonMode,    *)
(* and attnRequired only reads on while there is room.                     *)
TInv == BusOK /\ ModeOK /\ CmdOK /\ TextOK

LEMMA TInvInit == Init => TInv
  <1> SUFFICES ASSUME Init PROVE TInv
    OBVIOUS
  <1> USE DEF Init
  <1>1. BusOK
    <2>1. 0 \in 0..Len(Looks)
      BY LooksAssumption
    <2>2. byte \in OnBus
      BY DEF OnBus
    <2>3. atn = FALSE /\ said = 0
      OBVIOUS
    <2> QED BY <2>1, <2>2, <2>3 DEF BusOK
  <1>2. ModeOK
    <2>1. [isTO |-> 0, isRO |-> FALSE, isProm |-> FALSE] \in Modes
      BY DEF Modes
    <2> QED BY <2>1 DEF ModeOK, States
  <1>3. <<>> \in Seq(STRING) /\ <<>> \in Seq(Chars) /\ Len(<<>>) = 0
    OBVIOUS
  <1>4. CmdOK
    BY <1>3, cmdbuflenAssumption DEF CmdOK
  <1>5. Held(BootParser)
    BY <1>3, PBSIZEAssumption DEF Held, BootParser, Parsers
  <1>6. 0 \in 0..Len(Texts)
    BY TextsAssumption
  <1>7. TextOK
    BY <1>3, <1>5, <1>6 DEF TextOK
  <1> QED BY <1>1, <1>2, <1>4, <1>7 DEF TInv

(* The loop over the tokens.                                               *)
Tokened == [cstate : States, addressed : BOOLEAN, gpibcmd : Primary \cup {"none"},
            isSpoll : BOOLEAN]

LEMMA TokenTyped ==
    ASSUME NEW s \in Tokened, NEW m \in STRING
    PROVE  Token(s, m) \in Tokened
  BY DEF Token, Tokened, States, Primary, device_unl_h, device_unt_h

LEMMA TokensTyped ==
    ASSUME TInv
    PROVE  Tokens \in Tokened
  <1> DEFINE n == Len(cmdbytes)
             step(s, k) == Token(s, cmdbytes[k])
             base == [cstate |-> cstate, addressed |-> FALSE, gpibcmd |-> "none",
                      isSpoll |-> isSpoll]
             V == Tokened
             F == [x \in V \X (1..n) |-> step(x[1], x[2])]
             Works(f) == f = [k \in 0..n |-> IF k = 0 THEN base ELSE step(f[k - 1], k)]
             after == CHOOSE f : Works(f)
             s == after[n]
             t == [s EXCEPT !.gpibcmd = "SPE", !.isSpoll = FALSE]
  <1>1. n \in Nat /\ base \in V
    <2>1. n \in Nat
      BY DEF TInv, CmdOK
    <2>2. cstate \in States /\ isSpoll \in BOOLEAN
      BY DEF TInv, ModeOK
    <2> QED BY <2>1, <2>2 DEF Tokened
  <1>2. ASSUME NEW x \in V, NEW k \in 1..n PROVE step(x, k) \in V
    <2>1. cmdbytes[k] \in STRING
      BY DEF TInv, CmdOK
    <2> QED BY <2>1, TokenTyped
  <1>3. Tokens \in {s, t}
    BY DEF Tokens
  <1> HIDE DEF step, base, V, n
  <1>4. F \in [V \X (1..n) -> V]
    BY <1>2
  <1> HIDE DEF F
  <1>5. PICK g \in [0..n -> V] : Iterates(g, n, base, F)
    BY <1>1, <1>4, LoopExists, Zenon
  <1>6. Works(g)
    <2>1. ASSUME NEW k \in 1..n PROVE g[k] = step(g[k - 1], k)
      <3>1. <<g[k - 1], k>> \in V \X (1..n)
        BY <1>1
      <3>2. F[<<g[k - 1], k>>] = step(g[k - 1], k)
        BY <3>1 DEF F
      <3> QED BY <1>5, <3>2 DEF Iterates
    <2>2. g = [k \in 0..n |-> g[k]] /\ g[0] = base
      BY <1>5 DEF Iterates
    <2>3. \A k \in 0..n : g[k] = IF k = 0 THEN base ELSE step(g[k - 1], k)
      <3> SUFFICES ASSUME NEW k \in 0..n
                   PROVE  g[k] = IF k = 0 THEN base ELSE step(g[k - 1], k)
        OBVIOUS
      <3>1. k = 0 \/ k \in 1..n
        BY <1>1
      <3> QED BY <2>1, <2>2, <3>1
    <2> DEFINE h == [k \in 0..n |-> IF k = 0 THEN base ELSE step(g[k - 1], k)]
    <2>4. h = [k \in 0..n |-> h[k]] /\ \A k \in 0..n : g[k] = h[k]
      BY <2>3
    <2>5. g = h
      <3> HIDE DEF h
      <3> QED BY <2>2, <2>4, SameFunction
    <2> QED BY <2>5
  <1>7. Works(after)
    BY <1>6
  <1> HIDE DEF after
  <1>8. \A k \in 0..n : after[k] \in V
    <2>1. after[0] = base /\ \A k \in 1..n : after[k] = step(after[k - 1], k)
      BY <1>1, <1>7
    <2>2. after[0] \in V /\ \A k \in 1..n : after[k - 1] \in V => after[k] \in V
      BY <1>1, <1>2, <2>1
    <2> QED BY <1>1, <2>2, LoopStays
  <1>9. s \in Tokened
    BY <1>1, <1>8 DEF V
  <1> HIDE DEF s
  <1>10. t \in Tokened
    BY <1>9 DEF Tokened, Primary
  <1> QED BY <1>3, <1>9, <1>10

LEMMA BusStep ==
    ASSUME TInv, Next
    PROVE  BusOK'
  <1> USE DEF TInv, BusOK
  <1>0. Len(Looks) \in Nat
    BY LooksAssumption
  <1>1. ASSUME UNCHANGED bus PROVE BusOK'
    BY <1>1 DEF bus, OnBus
  <1>2. ASSUME byte' = Nothing, UNCHANGED <<atn, said>> PROVE BusOK'
    BY <1>2 DEF OnBus
  <1>3. CASE Adapter
    <2>1. CASE TakeCommand \/ TakeData \/ LonTake
      BY <1>2, <2>1 DEF TakeCommand, TakeData, LonTake, Taking
    <2>2. CASE Look \/ LookAgain \/ ExecuteLine \/ NoCommand \/ Device \/ WhileATN
      BY <1>1, <2>2 DEF bus, Look, LookAgain, ExecuteLine, NoCommand, Device, WhileATN
    <2>3. CASE NoCommandByte \/ Unaddressed \/ execGpibCmd \/ ToListen \/ device_talk_h
      BY <1>1, <2>3 DEF bus, NoCommandByte, Unaddressed, execGpibCmd, ToListen, device_talk_h
    <2>4. CASE NoData \/ LonNone \/ LonInput \/ TonUnbuffered \/ TonBuffered
      BY <1>1, <2>4 DEF bus, NoData, LonNone, LonInput, TonUnbuffered, TonBuffered
    <2>5. CASE SayWord \/ SaidLine \/ Prom \/ TakeInput \/ NoInput
      BY <1>1, <2>5 DEF bus, SayWord, SaidLine, Prom, TakeInput, NoInput
    <2> QED BY <1>3, <2>1, <2>2, <2>3, <2>4, <2>5 DEF Adapter
  <1>4. CASE SwitchATN
    BY <1>4 DEF SwitchATN, OnBus
  <1>5. CASE PassesBy
    BY <1>2, <1>5 DEF PassesBy
  <1>6. CASE Message
    <2>1. byte' \in {Byte(0, m) : m \in Messages} /\ UNCHANGED <<atn, said>>
      BY <1>6 DEF Message
    <2>2. byte' \in OnBus'
      BY <2>1 DEF OnBus
    <2> QED BY <2>1, <2>2
  <1>7. CASE Data
    <2>1. said < Len(Looks) /\ said' = said + 1 /\ byte' = Byte(said', Looks[said']) /\ atn' = atn
      BY <1>7 DEF Data
    <2>2. said' \in 1..Len(Looks) /\ said' \in 1..said'
      BY <1>0, <2>1
    <2>3. byte' \in OnBus'
      BY <2>1, <2>2 DEF OnBus
    <2> QED BY <2>1, <2>2, <2>3
  <1>8. CASE ClientSends \/ checkClient
    BY <1>1, <1>8 DEF ClientSends, checkClient, bus
  <1> QED BY <1>3, <1>4, <1>5, <1>6, <1>7, <1>8 DEF Next

(* The modes and the commands exclude each other; execGpibCmd and its      *)
(* likes leave a state of the interface.                                   *)
LEMMA ModeStep ==
    ASSUME TInv, Next
    PROVE  ModeOK'
  <1>0. cstate \in States /\ modes \in Modes /\ isSpoll \in BOOLEAN
    BY DEF TInv, ModeOK
  <1>1. ASSUME UNCHANGED <<modes, isSpoll>>, cstate' \in States PROVE ModeOK'
    BY <1>0, <1>1 DEF ModeOK
  <1>2. {"idle", "DLAS", "DTAS"} = States
    BY DEF States
  <1>3. Tokens \in Tokened
    BY TokensTyped
  <1>4. CASE Adapter
    <2>1. CASE ExecuteLine
      <3> DEFINE c == Command
      <3>1. c.op = "unknown" \/ (c.n \in Nat /\ (c.op = "ton" => c.n \in 0..2))
        BY CommandsAssumption DEF Command
      <3>2. modes' = SetMode(c) /\ cstate' \in {"idle", cstate} /\ isSpoll' = isSpoll
        BY <2>1 DEF ExecuteLine
      <3> HIDE DEF c
      <3>3. SetMode(c) \in Modes
        <4>1. CASE c.op = "lon"
          <5>1. SetMode(c) = lon_h(c.n)
            BY <4>1 DEF SetMode
          <5>2. [isTO |-> 0, isRO |-> TRUE, isProm |-> FALSE] \in Modes
            BY DEF Modes
          <5>3. [modes EXCEPT !.isRO = FALSE] \in Modes
            BY <1>0 DEF Modes
          <5> QED BY <5>1, <5>2, <5>3 DEF lon_h
        <4>2. CASE c.op = "ton"
          <5>1. SetMode(c) = ton_h(c.n)
            BY <4>2 DEF SetMode
          <5> QED BY <1>0, <3>1, <4>2, <5>1 DEF ton_h, Modes
        <4>3. CASE c.op = "prom"
          <5>1. SetMode(c) = prom_h(c.n)
            BY <4>3 DEF SetMode
          <5>2. [isTO |-> 0, isRO |-> FALSE, isProm |-> TRUE] \in Modes
            BY DEF Modes
          <5>3. [modes EXCEPT !.isProm = FALSE] \in Modes
            BY <1>0 DEF Modes
          <5> QED BY <5>1, <5>2, <5>3 DEF prom_h
        <4>4. CASE c.op \notin {"lon", "ton", "prom"}
          BY <1>0, <4>4 DEF SetMode
        <4> QED BY <4>1, <4>2, <4>3, <4>4
      <3> QED BY <1>0, <1>2, <3>2, <3>3 DEF ModeOK
    <2>2. CASE Unaddressed \/ execGpibCmd \/ ToListen \/ device_talk_h
      <3>1. Tokens.cstate \in States /\ Tokens.isSpoll \in BOOLEAN
        BY <1>3 DEF Tokened
      <3>2. /\ modes' = modes
            /\ cstate' \in {"idle", cstate, Tokens.cstate}
            /\ isSpoll' \in {isSpoll, Tokens.isSpoll}
        BY <2>2 DEF Unaddressed, execGpibCmd, ToListen, device_talk_h, Addressed
      <3> QED BY <1>0, <1>2, <3>1, <3>2 DEF ModeOK
    <2>3. CASE Look \/ LookAgain \/ NoCommand \/ Device \/ WhileATN \/ TakeCommand
      BY <1>0, <1>1, <1>2, <2>3 DEF Look, LookAgain, NoCommand, Device, WhileATN, TakeCommand
    <2>4. CASE NoCommandByte \/ TakeData \/ NoData \/ LonTake \/ LonNone \/ LonInput
      BY <1>0, <1>1, <1>2, <2>4 DEF NoCommandByte, TakeData, NoData, LonTake, LonNone, LonInput
    <2>5. CASE TonUnbuffered \/ SayWord
      BY <1>0, <1>1, <1>2, <2>5 DEF TonUnbuffered, SayWord, Say
    <2>6. CASE TonBuffered \/ SaidLine \/ Prom \/ TakeInput \/ NoInput
      BY <1>0, <1>1, <1>2, <2>6 DEF TonBuffered, SaidLine, Prom, TakeInput, NoInput
    <2> QED BY <1>4, <2>1, <2>2, <2>3, <2>4, <2>5, <2>6 DEF Adapter
  <1>5. CASE SwitchATN \/ Message \/ Data \/ PassesBy \/ ClientSends \/ checkClient
    BY <1>0, <1>1, <1>5 DEF SwitchATN, Message, Data, PassesBy, ClientSends, checkClient, device
  <1> QED BY <1>4, <1>5 DEF Next

LEMMA CmdStep ==
    ASSUME TInv, Next
    PROVE  CmdOK'
  <1>0. /\ cmdbytes \in Seq(STRING) /\ Len(cmdbytes) <= cmdbuflen
        /\ pc = "byte" => Len(cmdbytes) < cmdbuflen
    BY DEF TInv, CmdOK
  <1>1. ASSUME cmdbytes' = <<>>, pc' # "byte" PROVE CmdOK'
    <2>1. <<>> \in Seq(STRING) /\ Len(<<>>) = 0
      OBVIOUS
    <2> QED BY <1>1, <2>1, cmdbuflenAssumption DEF CmdOK
  <1>2. ASSUME cmdbytes' = cmdbytes, pc' = "byte" => pc = "byte" PROVE CmdOK'
    BY <1>0, <1>2 DEF CmdOK
  <1>3. CASE Adapter
    <2>1. CASE WhileATN
      BY <1>0, <2>1 DEF WhileATN, CmdOK
    <2>2. CASE TakeCommand
      <3>1. byte.means \in STRING
        <4>1. \A n \in 1..said : Looks[n] \in STRING
          BY LooksAssumption DEF TInv, BusOK
        <4>2. byte = Nothing \/ (\E m \in Messages : byte = Byte(0, m))
              \/ \E n \in 1..said : byte = Byte(n, Looks[n])
          BY DEF TInv, BusOK, OnBus
        <4>3. byte # Nothing
          BY <2>2 DEF TakeCommand, Taking
        <4> QED BY <4>1, <4>2, <4>3, LooksAssumption DEF Byte
      <3>2. cmdbytes' = Append(cmdbytes, byte.means) /\ pc = "byte" /\ pc' = "attn"
        BY <2>2 DEF TakeCommand
      <3> DEFINE m == byte.means
      <3> HIDE DEF m
      <3>3. cmdbytes' \in Seq(STRING) /\ Len(cmdbytes') = Len(cmdbytes) + 1
        BY <1>0, <3>1, <3>2 DEF m
      <3> QED BY <1>0, <3>2, <3>3, cmdbuflenAssumption DEF CmdOK
    <2>3. CASE Unaddressed \/ execGpibCmd \/ ToListen \/ device_talk_h
      BY <1>1, <2>3 DEF Unaddressed, execGpibCmd, ToListen, device_talk_h
    <2>4. CASE Look \/ LookAgain \/ ExecuteLine \/ NoCommand \/ Device
      BY <1>2, <2>4 DEF Look, LookAgain, ExecuteLine, NoCommand, Device
    <2>5. CASE NoCommandByte \/ TakeData \/ NoData \/ LonTake \/ LonNone \/ LonInput
      BY <1>2, <2>5 DEF NoCommandByte, TakeData, NoData, LonTake, LonNone, LonInput
    <2>6. CASE TonUnbuffered \/ TonBuffered \/ SayWord \/ SaidLine \/ Prom \/ TakeInput \/ NoInput
      BY <1>2, <2>6 DEF TonUnbuffered, TonBuffered, SayWord, SaidLine, Prom, TakeInput, NoInput
    <2> QED BY <1>3, <2>1, <2>2, <2>3, <2>4, <2>5, <2>6 DEF Adapter
  <1>4. CASE SwitchATN \/ Message \/ Data \/ PassesBy \/ ClientSends \/ checkClient
    BY <1>2, <1>4 DEF SwitchATN, Message, Data, PassesBy, ClientSends, checkClient, device
  <1> QED BY <1>3, <1>4 DEF Next

(* One character of the client.                                            *)
LEMMA ParsedTyped ==
    ASSUME TInv, input # <<>>
    PROVE  /\ Held(Parsed.parser) /\ Parsed.r \in 0..3
           /\ Head(input) \in Chars /\ Tail(input) \in Seq(Chars)
  <1>1. Held(parser) /\ input \in Seq(Chars)
    BY DEF TInv, TextOK
  <1>2. Head(input) \in Chars /\ Tail(input) \in Seq(Chars)
    BY <1>1
  <1> QED BY <1>1, <1>2, ParseHeld DEF Parsed

LEMMA SayTyped ==
    ASSUME TInv, NEW w \in Chars, Say(w)
    PROVE  spoken' \in Seq(Chars)
  <1>1. spoken \in Seq(Chars)
    BY DEF TInv, TextOK
  <1>2. Append(spoken, w) \in Seq(Chars)
    BY <1>1
  <1> QED BY <1>1, <1>2 DEF Say

LEMMA TextStep ==
    ASSUME TInv, Next
    PROVE  TextOK'
  <1>0. /\ Held(parser) /\ lnRdy \in 0..3
        /\ input \in Seq(Chars) /\ sends \in 0..Len(Texts)
        /\ saying \in Seq(Chars) /\ spoken \in Seq(Chars)
        /\ IF pc = "say" THEN Len(saying) <= Len(parser.pBuf) ELSE saying = <<>>
    BY DEF TInv, TextOK
  <1>1. Held(flushPbuf(parser))
    BY <1>0, FlushedHeld DEF Held
  <1>2. ASSUME Held(parser'), lnRdy' \in 0..3, input' \in Seq(Chars), sends' \in 0..Len(Texts),
               spoken' \in Seq(Chars), pc # "say", pc' # "say", saying' = saying
        PROVE  TextOK'
    BY <1>0, <1>2 DEF TextOK
  <1>3. 0 \in 0..3 /\ <<>> \in Seq(Chars)
    OBVIOUS
  <1>4. CASE Adapter
    <2>1. CASE Look \/ LookAgain \/ NoCommand \/ Device \/ WhileATN \/ TakeCommand
      BY <1>0, <1>2, <2>1 DEF Look, LookAgain, NoCommand, Device, WhileATN, TakeCommand, client
    <2>2. CASE NoCommandByte \/ Unaddressed \/ ToListen \/ TakeData \/ NoData
      BY <1>0, <1>2, <2>2 DEF NoCommandByte, Unaddressed, Addressed, ToListen, TakeData, NoData,
                              client
    <2>3. CASE LonTake \/ LonNone \/ NoInput \/ Prom \/ ExecuteLine \/ execGpibCmd
      BY <1>0, <1>1, <1>2, <1>3, <2>3
         DEF LonTake, LonNone, NoInput, Prom, ExecuteLine, execGpibCmd, Addressed, client
    <2>4. CASE device_talk_h
      <3>1. PICK n \in 0..(IF lnRdy = 2 /\ ~atn THEN Len(parser.pBuf) ELSE 0) :
                spoken' = spoken \o SubSeq(parser.pBuf, 1, n)
        BY <2>4 DEF device_talk_h
      <3>2. parser.pBuf \in Seq(Chars) /\ n \in 0..Len(parser.pBuf)
        BY <1>0, <3>1 DEF Held, Parsers
      <3>3. SubSeq(parser.pBuf, 1, n) \in Seq(Chars)
        BY <3>2
      <3>4. spoken' \in Seq(Chars)
        BY <1>0, <3>1, <3>3
      <3> QED BY <1>0, <1>1, <1>2, <1>3, <2>4, <3>4 DEF device_talk_h, Addressed, client
    <2>5. CASE LonInput
      <3>1. CASE input = <<>>
        BY <1>0, <1>2, <2>5, <3>1 DEF LonInput
      <3>2. CASE input # <<>>
        <4>1. Held(Parsed.parser) /\ Held(flushPbuf(Parsed.parser)) /\ Parsed.r \in 0..3
              /\ Tail(input) \in Seq(Chars)
          BY <3>2, ParsedTyped, FlushedHeld DEF Held
        <4> QED BY <1>0, <1>2, <2>5, <3>2, <4>1 DEF LonInput
      <3> QED BY <3>1, <3>2
    <2>6. CASE TakeInput
      <3>1. Held(Parsed.parser) /\ Parsed.r \in 0..3 /\ Tail(input) \in Seq(Chars)
        BY <2>6, ParsedTyped DEF TakeInput
      <3> QED BY <1>0, <1>2, <2>6, <3>1 DEF TakeInput
    <2>7. CASE TonUnbuffered
      <3>1. Head(input) \in Chars /\ Tail(input) \in Seq(Chars) /\ Say(Head(input))
        BY <2>7, ParsedTyped DEF TonUnbuffered
      <3>2. spoken' \in Seq(Chars)
        BY <3>1, SayTyped
      <3> QED BY <1>0, <1>2, <2>7, <3>1, <3>2 DEF TonUnbuffered
    <2>8. CASE TonBuffered
      <3>1. Held(Parsed.parser) /\ Parsed.r \in 0..3 /\ Tail(input) \in Seq(Chars)
        BY <2>8, ParsedTyped DEF TonBuffered
      <3>2. Parsed.parser.pBuf \in Seq(Chars) /\ Len(Parsed.parser.pBuf) \in Nat
        BY <3>1 DEF Held, Parsers
      <3>3. /\ parser' = Parsed.parser /\ lnRdy' = Parsed.r /\ input' = Tail(input)
            /\ sends' = sends /\ spoken' = spoken
            /\ saying' = IF Parsed.r = 2 THEN Parsed.parser.pBuf ELSE <<>>
            /\ Parsed.r = 2 => pc' = "say"
            /\ Parsed.r # 2 => pc' # "say"
        BY <2>8 DEF TonBuffered
      <3> DEFINE p == Parsed.parser
                 r == Parsed.r
      <3> HIDE DEF p, r
      <3> QED BY <1>0, <1>3, <3>1, <3>2, <3>3 DEF TextOK, p, r
    <2>9. CASE SayWord
      <3>1. saying # <<>> /\ Say(Head(saying)) /\ saying' = Tail(saying) /\ pc = "say" /\ pc' = pc
        BY <2>9 DEF SayWord
      <3>2. /\ Head(saying) \in Chars /\ Tail(saying) \in Seq(Chars)
            /\ Len(Tail(saying)) = Len(saying) - 1
        BY <1>0, <3>1
      <3>3. spoken' \in Seq(Chars)
        BY <3>1, <3>2, SayTyped
      <3>4. parser' = parser /\ lnRdy' = lnRdy /\ input' = input /\ sends' = sends
        BY <2>9 DEF SayWord, client
      <3>5. Len(saying') <= Len(parser'.pBuf)
        <4>1. Len(saying) \in Nat /\ Len(parser.pBuf) \in Nat
          BY <1>0 DEF Held, Parsers
        <4> QED BY <1>0, <3>1, <3>2, <3>4, <4>1
      <3> QED BY <1>0, <3>1, <3>2, <3>3, <3>4, <3>5 DEF TextOK
    <2>10. CASE SaidLine
      <3>1. /\ saying' = <<>> /\ parser' = flushPbuf(parser) /\ pc' = "ton"
            /\ lnRdy' = lnRdy /\ input' = input /\ sends' = sends /\ spoken' = spoken
        BY <2>10 DEF SaidLine, client
      <3> QED BY <1>0, <1>1, <1>3, <3>1 DEF TextOK
    <2> QED BY <1>4, <2>1, <2>2, <2>3, <2>4, <2>5, <2>6, <2>7, <2>8, <2>9, <2>10 DEF Adapter
  <1>5. CASE SwitchATN \/ Message \/ Data \/ PassesBy
    <2>1. UNCHANGED <<parser, lnRdy, input, sends, saying, spoken, pc>>
      BY <1>5 DEF SwitchATN, Message, Data, PassesBy, device, client
    <2> QED BY <1>0, <2>1 DEF TextOK
  <1>6. CASE ClientSends
    <2>1. /\ input' \in Texts[sends + 1] /\ sends' = sends + 1 /\ sends < Len(Texts)
          /\ UNCHANGED <<parser, lnRdy, saying, spoken, pc>> /\ pc # "say"
      BY <1>6 DEF ClientSends, device
    <2>2. sends' \in 1..Len(Texts)
      BY <1>0, <2>1, TextsAssumption
    <2>3. input' \in Seq(Chars)
      BY <2>1, <2>2, TextsAssumption
    <2> QED BY <1>0, <1>2, <2>1, <2>2, <2>3
  <1>7. CASE checkClient
    BY <1>0, <1>2, <1>3, <1>7 DEF checkClient
  <1> QED BY <1>4, <1>5, <1>6, <1>7 DEF Next

LEMMA TInvStep ==
    ASSUME TInv, [Next]_vars
    PROVE  TInv'
  <1>1. CASE Next
    BY <1>1, BusStep, ModeStep, CmdStep, TextStep DEF TInv
  <1>2. CASE UNCHANGED vars
    BY <1>2 DEF vars, bus, client, TInv, BusOK, OnBus, ModeOK, CmdOK, TextOK
  <1> QED BY <1>1, <1>2

(* Types in device mode: whatever the controller, the talkers and the      *)
(* client do, the parse buffer and the buffer of attnRequired do not run   *)
(* over, and the line being said is still in its buffer.                   *)
THEOREM TypeCorrect == Spec => []TypeOK
  <1>1. TInv => TypeOK
    BY DEF TInv, BusOK, OnBus, ModeOK, Modes, States, CmdOK, TextOK, Held, TypeOK
  <1> QED BY <1>1, TInvInit, TInvStep, PTL DEF Spec

-----------------------------------------------------------------------------
(* What is said.                                                           *)

(* The words of S come before those of T.                                  *)
Before(S, T) ==
    \A m, n \in DOMAIN Words : Words[m] \in S /\ Words[n] \in T => m < n

LEMMA BeforeLess ==
    ASSUME NEW S, NEW T, Before(S, T), NEW A, NEW B, A \subseteq S, B \subseteq T
    PROVE  Before(A, B)
  BY DEF Before

LEMMA BeforeBoth ==
    ASSUME NEW S, NEW T, NEW U
    PROVE  /\ Before(S, U) /\ Before(T, U) => Before(S \cup T, U)
           /\ Before(S, T) /\ Before(S, U) => Before(S, T \cup U)
  BY DEF Before

LEMMA NoWords ==
    /\ InOrder(<<>>) /\ Range(<<>>) = {}
    /\ \A S : Before({}, S) /\ Before(S, {})
  BY DEF InOrder, Range, Before

LEMMA RangeOfParts ==
    ASSUME NEW s \in Seq(Chars)
    PROVE  /\ \A w \in Chars : Range(Append(s, w)) = Range(s) \cup {w}
           /\ s # <<>> => /\ Head(s) \in Range(s) /\ Range(Tail(s)) \subseteq Range(s)
                          /\ Head(s) \in Chars /\ Tail(s) \in Seq(Chars)
           /\ \A n \in 0..Len(s) : Range(SubSeq(s, 1, n)) \subseteq Range(s)
  <1>1. ASSUME NEW w \in Chars PROVE Range(Append(s, w)) = Range(s) \cup {w}
    <2>1. /\ DOMAIN Append(s, w) = 1..(Len(s) + 1) /\ DOMAIN s = 1..Len(s)
          /\ Append(s, w)[Len(s) + 1] = w /\ \A i \in 1..Len(s) : Append(s, w)[i] = s[i]
          /\ Len(s) \in Nat
      OBVIOUS
    <2> QED BY <2>1 DEF Range
  <1>2. ASSUME s # <<>>
        PROVE  /\ Head(s) \in Range(s) /\ Range(Tail(s)) \subseteq Range(s)
               /\ Head(s) \in Chars /\ Tail(s) \in Seq(Chars)
    <2>1. /\ Len(s) \in Nat \ {0} /\ DOMAIN s = 1..Len(s) /\ Head(s) = s[1]
          /\ Tail(s) \in Seq(Chars) /\ Len(Tail(s)) = Len(s) - 1
          /\ DOMAIN Tail(s) = 1..(Len(s) - 1)
          /\ \A i \in 1..(Len(s) - 1) : Tail(s)[i] = s[i + 1]
      BY <1>2
    <2> QED BY <2>1 DEF Range
  <1>3. ASSUME NEW n \in 0..Len(s) PROVE Range(SubSeq(s, 1, n)) \subseteq Range(s)
    <2>1. /\ Len(s) \in Nat /\ DOMAIN s = 1..Len(s) /\ DOMAIN SubSeq(s, 1, n) = 1..n
          /\ \A i \in 1..n : SubSeq(s, 1, n)[i] = s[i]
      OBVIOUS
    <2> QED BY <2>1 DEF Range
  <1> QED BY <1>1, <1>2, <1>3

LEMMA AppendInOrder ==
    ASSUME NEW s \in Seq(Chars), InOrder(s), NEW w \in Chars, Before(Range(s), {w})
    PROVE  InOrder(Append(s, w))
  <1>1. /\ DOMAIN Append(s, w) = 1..(Len(s) + 1) /\ DOMAIN s = 1..Len(s)
        /\ Append(s, w)[Len(s) + 1] = w /\ \A i \in 1..Len(s) : Append(s, w)[i] = s[i]
        /\ Len(s) \in Nat
    OBVIOUS
  <1> SUFFICES ASSUME NEW i \in 1..(Len(s) + 1), NEW j \in 1..(Len(s) + 1),
                      NEW m \in DOMAIN Words, NEW n \in DOMAIN Words,
                      i < j, Append(s, w)[i] = Words[m], Append(s, w)[j] = Words[n]
               PROVE  m < n
    BY <1>1 DEF InOrder
  <1>2. i \in 1..Len(s) /\ s[i] = Words[m]
    BY <1>1
  <1>3. CASE j = Len(s) + 1
    BY <1>1, <1>2, <1>3 DEF Before, Range
  <1>4. CASE j \in 1..Len(s)
    BY <1>1, <1>2, <1>4 DEF InOrder
  <1> QED BY <1>1, <1>3, <1>4

LEMMA TailInOrder ==
    ASSUME NEW s \in Seq(Chars), s # <<>>, InOrder(s)
    PROVE  InOrder(Tail(s)) /\ Before({Head(s)}, Range(Tail(s)))
  <1>1. /\ Len(s) \in Nat \ {0} /\ DOMAIN s = 1..Len(s) /\ Head(s) = s[1]
        /\ Tail(s) \in Seq(Chars) /\ Len(Tail(s)) = Len(s) - 1
        /\ DOMAIN Tail(s) = 1..(Len(s) - 1)
        /\ \A i \in 1..(Len(s) - 1) : Tail(s)[i] = s[i + 1] /\ i + 1 \in 1..Len(s)
    OBVIOUS
  <1>2. InOrder(Tail(s))
    <2> SUFFICES ASSUME NEW i \in 1..(Len(s) - 1), NEW j \in 1..(Len(s) - 1),
                        NEW m \in DOMAIN Words, NEW n \in DOMAIN Words,
                        i < j, Tail(s)[i] = Words[m], Tail(s)[j] = Words[n]
                 PROVE  m < n
      BY <1>1 DEF InOrder
    <2>1. i + 1 < j + 1 /\ s[i + 1] = Words[m] /\ s[j + 1] = Words[n]
      BY <1>1
    <2> QED BY <1>1, <2>1 DEF InOrder
  <1>3. ASSUME NEW m \in DOMAIN Words, NEW n \in DOMAIN Words,
               Words[m] = Head(s), Words[n] \in Range(Tail(s))
        PROVE  m < n
    <2>1. PICK i \in 1..(Len(s) - 1) : Tail(s)[i] = Words[n]
      BY <1>1, <1>3 DEF Range
    <2>2. /\ 1 \in DOMAIN s /\ i + 1 \in DOMAIN s /\ 1 < i + 1
          /\ s[1] = Words[m] /\ s[i + 1] = Words[n]
      BY <1>1, <1>3, <2>1
    <2> QED BY <2>2 DEF InOrder
  <1> QED BY <1>2, <1>3 DEF Before

(* A beginning of t behind s.                                              *)
LEMMA JoinInOrder ==
    ASSUME NEW s \in Seq(Chars), NEW t \in Seq(Chars), InOrder(s), InOrder(t),
           Before(Range(s), Range(t)), NEW n \in 0..Len(t)
    PROVE  /\ InOrder(s \o SubSeq(t, 1, n))
           /\ Range(s \o SubSeq(t, 1, n)) \subseteq Range(s) \cup Range(t)
  <1> DEFINE u == s \o SubSeq(t, 1, n)
             k == Len(s)
  <1>1. /\ k \in Nat /\ Len(t) \in Nat /\ DOMAIN s = 1..k /\ DOMAIN t = 1..Len(t)
        /\ DOMAIN u = 1..(k + n)
        /\ \A i \in 1..k : u[i] = s[i]
        /\ \A i \in (k + 1)..(k + n) : u[i] = t[i - k] /\ i - k \in 1..Len(t)
    <2>1. SubSeq(t, 1, n) \in Seq(Chars) /\ Len(SubSeq(t, 1, n)) = n
          /\ \A i \in 1..n : SubSeq(t, 1, n)[i] = t[i]
      OBVIOUS
    <2> QED BY <2>1
  <1> HIDE DEF u, k
  <1>2. \A i \in 1..(k + n) : i \in 1..k \/ i \in (k + 1)..(k + n)
    BY <1>1
  <1>3. InOrder(u)
    <2> SUFFICES ASSUME NEW i \in 1..(k + n), NEW j \in 1..(k + n),
                        NEW m \in DOMAIN Words, NEW o \in DOMAIN Words,
                        i < j, u[i] = Words[m], u[j] = Words[o]
                 PROVE  m < o
      BY <1>1 DEF InOrder
    <2>1. CASE i \in 1..k /\ j \in 1..k
      BY <1>1, <2>1 DEF InOrder
    <2>2. CASE i \in 1..k /\ j \in (k + 1)..(k + n)
      <3>1. Words[m] \in Range(s) /\ Words[o] \in Range(t)
        BY <1>1, <2>2 DEF Range
      <3> QED BY <3>1 DEF Before
    <2>3. CASE i \in (k + 1)..(k + n) /\ j \in (k + 1)..(k + n)
      <3>1. i - k < j - k /\ t[i - k] = Words[m] /\ t[j - k] = Words[o]
        BY <1>1, <2>3
      <3> QED BY <1>1, <2>3, <3>1 DEF InOrder
    <2> QED BY <1>1, <1>2, <2>1, <2>2, <2>3
  <1>4. Range(u) \subseteq Range(s) \cup Range(t)
    BY <1>1, <1>2 DEF Range
  <1> QED BY <1>3, <1>4 DEF u

(* The texts of the client.                                                *)
Future(n) == UNION {Range(t) : t \in UNION {Texts[k] : k \in (n + 1)..Len(Texts)}}

LEMMA TextsBefore ==
    ASSUME NEW k \in DOMAIN Texts, NEW l \in DOMAIN Texts, k < l,
           NEW s \in Texts[k], NEW t \in Texts[l]
    PROVE  Before(Range(s), Range(t))
  <1>1. s \in Seq(Chars) /\ t \in Seq(Chars) /\ InOrder(s \o t)
    BY TextsAssumption
  <1>2. /\ Len(s) \in Nat /\ Len(t) \in Nat /\ DOMAIN s = 1..Len(s) /\ DOMAIN t = 1..Len(t)
        /\ DOMAIN (s \o t) = 1..(Len(s) + Len(t))
        /\ \A i \in 1..Len(s) : (s \o t)[i] = s[i]
        /\ \A j \in 1..Len(t) : (s \o t)[Len(s) + j] = t[j]
    BY <1>1
  <1> SUFFICES ASSUME NEW m \in DOMAIN Words, NEW n \in DOMAIN Words,
                      Words[m] \in Range(s), Words[n] \in Range(t)
               PROVE  m < n
    BY DEF Before
  <1>3. PICK i \in 1..Len(s) : s[i] = Words[m]
    BY <1>2 DEF Range
  <1>4. PICK j \in 1..Len(t) : t[j] = Words[n]
    BY <1>2 DEF Range
  <1>5. /\ i \in DOMAIN (s \o t) /\ Len(s) + j \in DOMAIN (s \o t) /\ i < Len(s) + j
        /\ (s \o t)[i] = Words[m] /\ (s \o t)[Len(s) + j] = Words[n]
    BY <1>2, <1>3, <1>4
  <1> QED BY <1>1, <1>5 DEF InOrder

LEMMA NextText ==
    ASSUME NEW k \in 0..Len(Texts), k < Len(Texts), NEW t \in Texts[k + 1]
    PROVE  /\ t \in Seq(Chars) /\ InOrder(t) /\ Range(t) \subseteq Future(k)
           /\ Future(k + 1) \subseteq Future(k) /\ Before(Range(t), Future(k + 1))
  <1>1. Len(Texts) \in Nat /\ DOMAIN Texts = 1..Len(Texts)
    BY TextsAssumption
  <1>2. k + 1 \in DOMAIN Texts /\ k + 1 \in (k + 1)..Len(Texts)
    BY <1>1
  <1>3. t \in Seq(Chars) /\ InOrder(t)
    BY <1>2, TextsAssumption
  <1>4. Range(t) \subseteq Future(k)
    BY <1>2 DEF Future
  <1>5. Future(k + 1) \subseteq Future(k)
    <2>1. \A l \in (k + 1 + 1)..Len(Texts) : l \in (k + 1)..Len(Texts)
      BY <1>1
    <2> QED BY <2>1 DEF Future
  <1>6. Before(Range(t), Future(k + 1))
    <2> SUFFICES ASSUME NEW m \in DOMAIN Words, NEW n \in DOMAIN Words,
                        Words[m] \in Range(t), Words[n] \in Future(k + 1)
                 PROVE  m < n
      BY DEF Before
    <2>1. PICK l \in (k + 1 + 1)..Len(Texts) : \E u \in Texts[l] : Words[n] \in Range(u)
      BY DEF Future
    <2>2. PICK u \in Texts[l] : Words[n] \in Range(u)
      BY <2>1
    <2>3. l \in DOMAIN Texts /\ k + 1 < l
      BY <1>1
    <2>4. Before(Range(t), Range(u))
      BY <1>2, <2>3, TextsBefore
    <2> QED BY <2>2, <2>4 DEF Before
  <1> QED BY <1>3, <1>4, <1>5, <1>6

(* What was said, the line that is held, the characters that wait and what *)
(* is still to come: the words of each come before those of the next.      *)
Ordered(s, h, i, F) ==
    /\ InOrder(s) /\ InOrder(h) /\ InOrder(i)
    /\ Before(Range(s), Range(h)) /\ Before(Range(s), Range(i)) /\ Before(Range(s), F)
    /\ Before(Range(h), Range(i)) /\ Before(Range(h), F) /\ Before(Range(i), F)

LEMMA DroppedOrdered ==
    ASSUME NEW s, NEW h, NEW i, NEW F, Ordered(s, h, i, F),
           NEW g \in {<<>>, h}, NEW j \in {<<>>, i}
    PROVE  Ordered(s, g, j, F)
  <1>1. Ordered(s, <<>>, i, F) /\ Ordered(s, h, <<>>, F) /\ Ordered(s, <<>>, <<>>, F)
    BY NoWords DEF Ordered
  <1> QED BY <1>1

(* One character of the client goes into the buffer, or not.               *)
LEMMA ParsedOrdered ==
    ASSUME NEW s \in Seq(Chars), NEW h \in Seq(Chars), NEW i \in Seq(Chars), NEW F,
           Ordered(s, h, i, F), i # <<>>, NEW g \in {<<>>, h, Append(h, Head(i))}
    PROVE  Ordered(s, g, Tail(i), F)
  <1> DEFINE w == Head(i)
             t == Tail(i)
  <1>1. /\ w \in Range(i) /\ Range(t) \subseteq Range(i) /\ w \in Chars /\ t \in Seq(Chars)
        /\ Range(Append(h, w)) = Range(h) \cup {w}
    BY RangeOfParts
  <1>2. InOrder(t) /\ Before({w}, Range(t))
    BY TailInOrder DEF Ordered
  <1> HIDE DEF w, t
  <1>3. Ordered(s, h, t, F)
    BY <1>1, <1>2, BeforeLess DEF Ordered
  <1>4. {w} \subseteq Range(i)
    BY <1>1
  <1>5. Before(Range(s), {w}) /\ Before(Range(h), {w}) /\ Before({w}, F)
    BY <1>4, BeforeLess DEF Ordered
  <1>6. InOrder(Append(h, w))
    BY <1>1, <1>5, AppendInOrder DEF Ordered
  <1>7. Ordered(s, Append(h, w), t, F)
    <2>1. Before(Range(s), Range(h) \cup {w})
      BY <1>3, <1>5, BeforeBoth DEF Ordered
    <2>2. Before(Range(h) \cup {w}, Range(t)) /\ Before(Range(h) \cup {w}, F)
      BY <1>2, <1>3, <1>5, BeforeBoth DEF Ordered
    <2> QED BY <1>1, <1>3, <1>6, <2>1, <2>2 DEF Ordered
  <1>8. Ordered(s, <<>>, t, F)
    BY <1>3, DroppedOrdered
  <1> QED BY <1>3, <1>7, <1>8 DEF w, t

(* One character of the line is said, or not.                              *)
LEMMA SaidOrdered ==
    ASSUME NEW s \in Seq(Chars), NEW h \in Seq(Chars), NEW i \in Seq(Chars), NEW F,
           Ordered(s, h, i, F), h # <<>>, NEW r \in {s, Append(s, Head(h))}
    PROVE  Ordered(r, Tail(h), i, F)
  <1> DEFINE w == Head(h)
             t == Tail(h)
  <1>1. /\ w \in Range(h) /\ Range(t) \subseteq Range(h) /\ w \in Chars /\ t \in Seq(Chars)
        /\ Range(Append(s, w)) = Range(s) \cup {w}
    BY RangeOfParts
  <1>2. InOrder(t) /\ Before({w}, Range(t))
    BY TailInOrder DEF Ordered
  <1> HIDE DEF w, t
  <1>3. Ordered(s, t, i, F)
    BY <1>1, <1>2, BeforeLess DEF Ordered
  <1>4. {w} \subseteq Range(h)
    BY <1>1
  <1>5. Before(Range(s), {w}) /\ Before({w}, Range(i)) /\ Before({w}, F)
    BY <1>4, BeforeLess DEF Ordered
  <1>6. InOrder(Append(s, w))
    BY <1>1, <1>5, AppendInOrder DEF Ordered
  <1>7. Ordered(Append(s, w), t, i, F)
    <2>1. Before(Range(s) \cup {w}, Range(t))
      BY <1>2, <1>3, BeforeBoth DEF Ordered
    <2>2. Before(Range(s) \cup {w}, Range(i)) /\ Before(Range(s) \cup {w}, F)
      BY <1>3, <1>5, BeforeBoth DEF Ordered
    <2> QED BY <1>1, <1>3, <1>6, <2>1, <2>2 DEF Ordered
  <1> QED BY <1>3, <1>7 DEF w, t

(* A character is said that was not held.                                  *)
LEMMA UnbufferedOrdered ==
    ASSUME NEW s \in Seq(Chars), NEW i \in Seq(Chars), NEW F,
           Ordered(s, <<>>, i, F), i # <<>>, NEW r \in {s, Append(s, Head(i))}
    PROVE  Ordered(r, <<>>, Tail(i), F)
  <1>1. Ordered(s, i, <<>>, F)
    BY NoWords DEF Ordered
  <1>2. <<>> \in Seq(Chars)
    OBVIOUS
  <1>3. Ordered(r, Tail(i), <<>>, F)
    BY <1>1, <1>2, SaidOrdered
  <1> QED BY <1>3, NoWords DEF Ordered

(* A talker says as much of its line as gets through.                      *)
LEMMA TalkedOrdered ==
    ASSUME NEW s \in Seq(Chars), NEW h \in Seq(Chars), NEW i, NEW F,
           Ordered(s, h, i, F), NEW n \in 0..Len(h)
    PROVE  Ordered(s \o SubSeq(h, 1, n), <<>>, i, F)
  <1> DEFINE u == s \o SubSeq(h, 1, n)
  <1>1. InOrder(u) /\ Range(u) \subseteq Range(s) \cup Range(h)
    BY JoinInOrder DEF Ordered
  <1> HIDE DEF u
  <1>2. Before(Range(s) \cup Range(h), Range(i)) /\ Before(Range(s) \cup Range(h), F)
    BY BeforeBoth DEF Ordered
  <1>3. Before(Range(u), Range(i)) /\ Before(Range(u), F)
    BY <1>1, <1>2, BeforeLess
  <1>4. Ordered(u, <<>>, i, F)
    BY <1>1, <1>3, NoWords DEF Ordered
  <1> QED BY <1>4 DEF u

LEMMA SentOrdered ==
    ASSUME NEW s, NEW h, NEW k \in 0..Len(Texts), k < Len(Texts), Ordered(s, h, <<>>, Future(k)),
           NEW t \in Texts[k + 1]
    PROVE  Ordered(s, h, t, Future(k + 1))
  <1>1. /\ InOrder(t) /\ Range(t) \subseteq Future(k)
        /\ Future(k + 1) \subseteq Future(k) /\ Before(Range(t), Future(k + 1))
    BY NextText
  <1> QED BY <1>1, BeforeLess DEF Ordered

(* The line that is held: the rest of what is being said, or the buffer.   *)
Line == IF pc = "say" THEN saying ELSE parser.pBuf

(* The inductive invariant; the unbuffered talk-only mode, which says what *)
(* has just arrived, is begun with an empty buffer and never left.         *)
OrderInv ==
    /\ TInv
    /\ Ordered(spoken, Line, input, Future(sends))
    /\ modes.isTO = 1 => pc \in {"device", "ton"} /\ parser.pBuf = <<>>

LEMMA OrderInit == Init => OrderInv
  <1> SUFFICES ASSUME Init PROVE OrderInv
    OBVIOUS
  <1>1. /\ spoken = <<>> /\ input = <<>> /\ pc = "line" /\ modes.isTO = 0
        /\ parser.pBuf = <<>>
    BY DEF Init, BootParser
  <1>2. Ordered(<<>>, <<>>, <<>>, Future(sends))
    BY NoWords DEF Ordered
  <1> QED BY <1>1, <1>2, TInvInit DEF OrderInv, Line

(* What one character makes of the buffer.                                 *)
LEMMA ParsedBuffer ==
    ASSUME TInv, input # <<>>
    PROVE  Parsed.parser.pBuf \in {<<>>, parser.pBuf, Append(parser.pBuf, Head(input))}
  <1> DEFINE p == parser
             c == Head(input)
             B == {<<>>, p.pBuf, Append(p.pBuf, c)}
  <1>1. p \in Parsers
    BY DEF TInv, TextOK, Held
  <1> HIDE DEF p, c
  <1>2. ASSUME NEW q \in Parsers, q.pBuf \in B, NEW r
        PROVE  WhenFull(Result(q, r)).parser.pBuf \in B
    <2>1. flushPbuf(q).pBuf = <<>> /\ [q EXCEPT !.dataBufferFull = TRUE].pBuf = q.pBuf
      BY DEF flushPbuf, Parsers
    <2> QED BY <1>2, <2>1 DEF WhenFull, Result
  <1>3. parseInput(p, c, 0).parser.pBuf \in B
    <2>1. CASE Len(p.pBuf) >= PBSIZE
      BY <1>1, <1>2, <2>1 DEF parseInput
    <2>2. CASE ~(Len(p.pBuf) >= PBSIZE) /\ c \in LineEnds /\ ~p.isEsc
      <3> DEFINE q == [p EXCEPT !.isPlusEscaped = FALSE]
      <3>1. parseInput(p, c, 0) = WhenFull(EndLine(p, 0))
        BY <2>2 DEF parseInput
      <3>2. EndLine(p, 0) \in {Result(p, 0), Result(flushPbuf(q), 3), Result(q, 1), Result(q, 2)}
        BY DEF EndLine
      <3>3. q \in Parsers /\ q.pBuf = p.pBuf
        BY <1>1 DEF Parsers
      <3> HIDE DEF q
      <3>4. flushPbuf(q) \in Parsers /\ flushPbuf(q).pBuf = <<>>
        <4>1. <<>> \in Seq(Chars)
          OBVIOUS
        <4> QED BY <3>3, <4>1 DEF flushPbuf, Parsers
      <3> QED BY <1>1, <1>2, <3>1, <3>2, <3>3, <3>4
    <2>3. CASE ~(Len(p.pBuf) >= PBSIZE) /\ ~(c \in LineEnds /\ ~p.isEsc) /\ c = "ESC" /\ ~p.isEsc
      <3> DEFINE q == [p EXCEPT !.isEsc = TRUE]
      <3>1. parseInput(p, c, 0) = WhenFull(Result(q, 0))
        BY <2>3 DEF parseInput
      <3>2. q \in Parsers /\ q.pBuf = p.pBuf
        BY <1>1 DEF Parsers
      <3> HIDE DEF q
      <3> QED BY <1>2, <3>1, <3>2
    <2>4. CASE ~(Len(p.pBuf) >= PBSIZE) /\ ~(c \in LineEnds /\ ~p.isEsc) /\ ~(c = "ESC" /\ ~p.isEsc)
      <3> DEFINE e == p.isPlusEscaped \/ (c = "PLUS" /\ p.isEsc /\ Len(p.pBuf) < 2)
                 q == [p EXCEPT !.isEsc = FALSE, !.isPlusEscaped = e]
                 a == addPbuf(q, c)
      <3>1. parseInput(p, c, 0) = WhenFull(Result(a, 0))
        BY <2>4 DEF parseInput, AddChar
      <3>2. e \in BOOLEAN
        BY <1>1 DEF Parsers
      <3> HIDE DEF e
      <3>3. q \in Parsers /\ q.pBuf = p.pBuf
        BY <1>1, <3>2 DEF Parsers
      <3> HIDE DEF q
      <3>4. c \in Chars
        BY ParsedTyped DEF c
      <3>5. a \in Parsers /\ a.pBuf = Append(p.pBuf, c)
        <4>1. Append(q.pBuf, c) \in Seq(Chars)
          BY <3>3, <3>4 DEF Parsers
        <4> QED BY <3>3, <4>1 DEF addPbuf, Parsers
      <3> HIDE DEF a
      <3> QED BY <1>2, <3>1, <3>5
    <2> QED BY <2>1, <2>2, <2>3, <2>4
  <1> QED BY <1>3 DEF Parsed, p, c

LEMMA OrderStep ==
    ASSUME OrderInv, Next
    PROVE  OrderInv'
  <1>0. /\ TInv /\ Ordered(spoken, Line, input, Future(sends))
        /\ modes.isTO = 1 => pc \in {"device", "ton"} /\ parser.pBuf = <<>>
    BY DEF OrderInv
  <1>1. TInv'
    BY <1>0, TInvStep
  <1>2. /\ parser \in Parsers /\ parser.pBuf \in Seq(Chars) /\ input \in Seq(Chars)
        /\ saying \in Seq(Chars) /\ spoken \in Seq(Chars) /\ sends \in 0..Len(Texts)
        /\ pc # "say" => saying = <<>>
    BY <1>0 DEF TInv, TextOK, Held, Parsers
  <1>3. flushPbuf(parser).pBuf = <<>>
    BY <1>2 DEF flushPbuf, Parsers
  <1>4. ASSUME pc # "say", pc' # "say", modes'.isTO # 1,
               Ordered(spoken', parser'.pBuf, input', Future(sends'))
        PROVE  OrderInv'
    BY <1>1, <1>4 DEF OrderInv, Line
  <1>5. pc # "say" => Ordered(spoken, parser.pBuf, input, Future(sends))
    BY <1>0 DEF Line
  <1>6. pc \notin {"device", "ton"} => modes.isTO # 1
    BY <1>0
  <1>7. CASE Adapter
    <2>1. CASE Look \/ LookAgain \/ NoCommand \/ WhileATN \/ TakeCommand \/ NoCommandByte
      BY <1>4, <1>5, <1>6, <2>1
         DEF Look, LookAgain, NoCommand, WhileATN, TakeCommand, NoCommandByte, client
    <2>2. CASE Unaddressed \/ ToListen \/ TakeData \/ NoData \/ LonTake \/ LonNone \/ NoInput
      BY <1>4, <1>5, <1>6, <2>2
         DEF Unaddressed, Addressed, ToListen, TakeData, NoData, LonTake, LonNone, NoInput, client
    <2>3. CASE Device
      <3>1. /\ UNCHANGED <<parser, input, sends, spoken, modes>>
            /\ pc = "device" /\ pc' # "say" /\ (modes.isTO = 1 => pc' = "ton")
        BY <2>3 DEF Device, client
      <3> QED BY <1>0, <1>1, <1>5, <3>1 DEF OrderInv, Line
    <2>4. CASE ExecuteLine
      <3>1. /\ pc = "line" /\ modes' = SetMode(Command) /\ parser' = flushPbuf(parser)
            /\ pc' = (IF Command.op = "mode" /\ Command.n = 1 THEN "controller" ELSE "device")
            /\ UNCHANGED <<input, sends, spoken>>
        BY <2>4 DEF ExecuteLine, client
      <3>2. Command.op = "mode" => modes' = modes
        BY <3>1 DEF SetMode
      <3>3. Ordered(spoken, <<>>, input, Future(sends))
        BY <1>5, <3>1, DroppedOrdered
      <3>4. modes'.isTO = 1 => pc' = "device"
        BY <1>6, <3>1, <3>2
      <3> QED BY <1>1, <1>3, <3>1, <3>3, <3>4 DEF OrderInv, Line
    <2>5. CASE execGpibCmd \/ Prom
      <3>1. /\ pc \notin {"device", "ton", "say"} /\ pc' # "say"
            /\ parser' \in {parser, flushPbuf(parser)}
            /\ UNCHANGED <<input, sends, spoken, modes>>
        BY <2>5 DEF execGpibCmd, Addressed, Prom, client
      <3>2. Ordered(spoken, <<>>, input, Future(sends))
        BY <1>5, <3>1, DroppedOrdered
      <3> QED BY <1>3, <1>4, <1>5, <1>6, <3>1, <3>2
    <2>6. CASE device_talk_h
      <3>1. PICK n \in 0..(IF lnRdy = 2 /\ ~atn THEN Len(parser.pBuf) ELSE 0) :
                spoken' = spoken \o SubSeq(parser.pBuf, 1, n)
        BY <2>6 DEF device_talk_h
      <3>2. /\ pc = "process" /\ pc' = "prom" /\ parser' = flushPbuf(parser)
            /\ UNCHANGED <<input, sends, modes>>
        BY <2>6 DEF device_talk_h, Addressed, client
      <3>3. n \in 0..Len(parser.pBuf)
        BY <1>2, <3>1
      <3>4. Ordered(spoken', <<>>, input, Future(sends))
        BY <1>2, <1>5, <3>1, <3>2, <3>3, TalkedOrdered
      <3> QED BY <1>3, <1>4, <1>6, <3>2, <3>4
    <2>7. CASE (LonInput /\ input # <<>>) \/ TakeInput \/ TonBuffered
      <3> DEFINE b == Parsed.parser.pBuf
      <3>1. input # <<>> /\ pc # "say"
        BY <2>7 DEF LonInput, TakeInput, TonBuffered
      <3>2. /\ b \in {<<>>, parser.pBuf, Append(parser.pBuf, Head(input))}
            /\ Parsed.parser \in Parsers
        BY <1>0, <3>1, ParsedBuffer, ParsedTyped DEF Held
      <3>3. flushPbuf(Parsed.parser).pBuf = <<>>
        BY <3>2 DEF flushPbuf, Parsers
      <3>4. /\ modes' = modes /\ modes'.isTO # 1 /\ input' = Tail(input)
            /\ UNCHANGED <<sends, spoken>>
        BY <1>6, <2>7 DEF LonInput, TakeInput, TonBuffered
      <3>5. Line' \in {<<>>, b}
        <4>1. CASE LonInput /\ input # <<>>
          <5>1. pc' # "say" /\ parser' \in {Parsed.parser, flushPbuf(Parsed.parser)}
            BY <4>1 DEF LonInput
          <5> QED BY <3>3, <5>1 DEF Line
        <4>2. CASE TakeInput
          BY <4>2 DEF TakeInput, Line
        <4>3. CASE TonBuffered
          <5>1. /\ parser' = Parsed.parser /\ (Parsed.r = 2 => saying' = b)
                /\ (pc' = "say" => Parsed.r = 2)
            BY <4>3 DEF TonBuffered
          <5> QED BY <5>1 DEF Line
        <4> QED BY <2>7, <4>1, <4>2, <4>3
      <3>6. Line' \in {<<>>, parser.pBuf, Append(parser.pBuf, Head(input))}
        BY <3>2, <3>5
      <3> HIDE DEF b
      <3>7. Ordered(spoken, Line', Tail(input), Future(sends))
        BY <1>2, <1>5, <3>1, <3>6, ParsedOrdered
      <3> QED BY <1>1, <3>4, <3>7 DEF OrderInv
    <2>8. CASE LonInput /\ input = <<>>
      BY <1>4, <1>5, <1>6, <2>8 DEF LonInput
    <2>9. CASE TonUnbuffered
      <3>1. /\ modes.isTO = 1 /\ input # <<>> /\ pc = "ton" /\ pc' = pc /\ input' = Tail(input)
            /\ UNCHANGED <<parser, sends, modes>>
            /\ spoken' \in {spoken, Append(spoken, Head(input))}
        BY <2>9 DEF TonUnbuffered, Say
      <3>2. parser.pBuf = <<>>
        BY <1>0, <3>1
      <3>3. Ordered(spoken', <<>>, input', Future(sends))
        BY <1>2, <1>5, <3>1, <3>2, UnbufferedOrdered
      <3> QED BY <1>1, <3>1, <3>2, <3>3 DEF OrderInv, Line
    <2>10. CASE SayWord
      <3>1. /\ saying # <<>> /\ saying' = Tail(saying) /\ pc = "say" /\ pc' = pc
            /\ UNCHANGED <<parser, input, sends, modes>>
            /\ spoken' \in {spoken, Append(spoken, Head(saying))}
        BY <2>10 DEF SayWord, Say, client
      <3>2. Ordered(spoken, saying, input, Future(sends))
        BY <1>0, <3>1 DEF Line
      <3>3. Ordered(spoken', saying', input, Future(sends))
        BY <1>2, <3>1, <3>2, SaidOrdered
      <3> QED BY <1>1, <1>6, <3>1, <3>3 DEF OrderInv, Line
    <2>11. CASE SaidLine
      <3>1. /\ pc = "say" /\ pc' = "ton" /\ parser' = flushPbuf(parser)
            /\ UNCHANGED <<input, sends, modes, spoken>>
        BY <2>11 DEF SaidLine, client
      <3>2. Ordered(spoken, <<>>, input, Future(sends))
        BY <1>0, DroppedOrdered
      <3> QED BY <1>1, <1>3, <1>6, <3>1, <3>2 DEF OrderInv, Line
    <2> QED BY <1>7, <2>1, <2>2, <2>3, <2>4, <2>5, <2>6, <2>7, <2>8, <2>9, <2>10, <2>11 DEF Adapter
  <1>8. CASE SwitchATN \/ Message \/ Data \/ PassesBy
    <2>1. UNCHANGED <<parser, input, sends, saying, spoken, pc, modes>>
      BY <1>8 DEF SwitchATN, Message, Data, PassesBy, device, client
    <2> QED BY <1>0, <1>1, <2>1 DEF OrderInv, Line
  <1>9. CASE ClientSends
    <2>1. /\ input = <<>> /\ input' \in Texts[sends + 1] /\ sends' = sends + 1 /\ sends < Len(Texts)
          /\ UNCHANGED <<parser, saying, spoken, pc, modes>>
      BY <1>9 DEF ClientSends, device
    <2>2. Ordered(spoken, Line, input', Future(sends'))
      BY <1>0, <1>2, <2>1, SentOrdered
    <2> QED BY <1>0, <1>1, <2>1, <2>2 DEF OrderInv, Line
  <1>10. CASE checkClient
    <2>1. input' = <<>> /\ UNCHANGED <<parser, sends, saying, spoken, pc, modes>>
      BY <1>10 DEF checkClient
    <2>2. Ordered(spoken, Line, <<>>, Future(sends))
      BY <1>0, DroppedOrdered
    <2> QED BY <1>0, <1>1, <2>1, <2>2 DEF OrderInv, Line
  <1> QED BY <1>7, <1>8, <1>9, <1>10 DEF Next

LEMMA OrderInvStep ==
    ASSUME OrderInv, [Next]_vars
    PROVE  OrderInv'
  <1>1. CASE UNCHANGED vars
    <2>1. TInv'
      BY <1>1, TInvStep DEF OrderInv
    <2>2. UNCHANGED <<parser, input, sends, saying, spoken, pc, modes>>
      BY <1>1 DEF vars, client
    <2> QED BY <2>1, <2>2 DEF OrderInv, Line
  <1> QED BY <1>1, OrderStep

(* In device mode what the adapter says on the bus is the client's text in *)
(* the order in which it came, each word once: for every client, whenever  *)
(* it is lost, every controller, and every size of the parse buffer.       *)
THEOREM SpokenCorrect == Spec => []SpokenAsTyped
  <1>1. OrderInv => SpokenAsTyped
    BY DEF OrderInv, Ordered, SpokenAsTyped
  <1> QED BY <1>1, OrderInit, OrderInvStep, PTL DEF Spec
=============================================================================
