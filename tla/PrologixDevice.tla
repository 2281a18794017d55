--------------------------- MODULE PrologixDevice ---------------------------
(***************************************************************************)
(* The Prologix server in device mode: somebody else controls the bus, the *)
(* adapter is a device on it.  loop_prologix then looks at the client's    *)
(* commands, at ATN (attnRequired), and runs the listen-only and the       *)
(* talk-only mode.  A step is one look at ATN, one byte, one word of the   *)
(* client, or one section of the loop.                                     *)
(*                                                                         *)
(* A byte is on the bus until the listeners take it.  The controller's     *)
(* bytes are messages (MLA and MTA name the adapter), the data of another  *)
(* talker is numbered in the order of the talking; as the code takes bytes *)
(* for what their value says, Looks gives the message each is equal to.    *)
(* A client may be lost and followed by another (EthernetStream).          *)
(* Left out: IFC, secondary addresses, end characters, and the commands    *)
(* that do not change the mode.                                            *)
(***************************************************************************)
EXTENDS PrologixParser

CONSTANTS
    Commands,   \* what a command word means: a mode and its number
    Texts,      \* what the client may send, for each time it sends
    Words,      \* the data among it, in the order in which it is sent
    Messages,   \* what the controller may send
    Looks,      \* what message each data byte would be
    cmdbuflen,  \* how many messages attnRequired reads at once, 35 in the code
    Listeners   \* whether other devices take what the adapter does not

ASSUME cmdbuflenAssumption == cmdbuflen \in Nat
ASSUME LooksAssumption == Looks \in Seq(STRING) /\ Messages \subseteq STRING

(* The handlers refuse a number that is not one (notInRange).              *)
ASSUME CommandsAssumption ==
    /\ \A w \in DOMAIN Commands : Commands[w].n \in Nat
    /\ \A w \in DOMAIN Commands : Commands[w].op = "ton" => Commands[w].n \in 0..2

(* The words in s come in their order, each once.                          *)
InOrder(s) ==
    \A i, j \in DOMAIN s : \A m, n \in DOMAIN Words :
        i < j /\ s[i] = Words[m] /\ s[j] = Words[n] => m < n

ASSUME TextsAssumption ==
    /\ Texts \in Seq(SUBSET Seq(Chars))
    /\ \A k \in DOMAIN Texts : \A s \in Texts[k] :
          /\ InOrder(s)
          /\ \A l \in DOMAIN Texts : l > k => \A t \in Texts[l] : InOrder(s \o t)

VARIABLES
    atn,       \* ATN, which the controller asserts for its messages
    byte,      \* what is on the bus
    said,      \* how much data has been put there
    cstate,    \* idle (DINI, DIDS), DLAS or DTAS
    modes,     \* isTO, isRO, isProm
    isSpoll,   \* SPE seen, SPD not yet
    parser, lnRdy,
    input,     \* characters of the client that wait
    sends,     \* how often the client has sent
    pc,        \* where loop_prologix is
    looked,    \* readByte has found ATN released
    cmdbytes,  \* what attnRequired has read
    saying,    \* what the buffered talk-only mode has still to send
    heard,     \* history: the data of others that the client got
    spoken     \* history: what of the client's text the adapter put on the bus

bus == <<atn, byte, said>>
client == <<input, sends>>
vars == <<bus, cstate, modes, isSpoll, parser, lnRdy, client, pc, looked,
          cmdbytes, saying, heard, spoken>>

Primary == {"SPE", "SPD", "SDC", "GET", "TCT"}

(* A byte: its number if it is data, and the message it is equal to.       *)
Byte(n, m) == [nr |-> n, means |-> m]
Nothing == Byte(0, "nothing")

Init ==
    /\ atn = FALSE /\ byte = Nothing /\ said = 0
    /\ cstate = "idle"
    /\ modes = [isTO |-> 0, isRO |-> FALSE, isProm |-> FALSE]
    /\ isSpoll = FALSE
    /\ parser = BootParser /\ lnRdy = 0
    /\ input = <<>> /\ sends = 0
    /\ pc = "line"
    /\ looked = FALSE /\ cmdbytes = <<>> /\ saying = <<>>
    /\ heard = <<>> /\ spoken = <<>>

-----------------------------------------------------------------------------
(* readByte: look at ATN, then take what is there, again and again until   *)
(* there is something or the time is over.  (Another look that finds ATN   *)
(* still released changes nothing and is not a step.)                      *)

Looking == ~looked /\ ~atn /\ looked' = TRUE
Refused == ~looked /\ atn /\ looked' = FALSE
Taking == looked /\ byte # Nothing /\ byte' = Nothing /\ looked' = FALSE
Waiting == looked /\ byte = Nothing /\ looked' = FALSE

Look ==
    /\ pc \in {"byte", "listen", "lon"}
    /\ Looking
    /\ UNCHANGED <<bus, cstate, modes, isSpoll, parser, lnRdy, client, pc, cmdbytes,
                   saying, heard, spoken>>

LookAgain ==
    /\ pc \in {"byte", "listen", "lon"}
    /\ Waiting /\ atn
    /\ UNCHANGED <<bus, cstate, modes, isSpoll, parser, lnRdy, client, pc, cmdbytes,
                   saying, heard, spoken>>

-----------------------------------------------------------------------------
(* serialIn_h, a character at a time: it ends with a line, or with what    *)
(* has arrived.                                                            *)
Parsed == parseInput(parser, Head(input), 0)
Complete == Parsed.r # 0 \/ Len(input) = 1

(* A line of the client that is a command.                                 *)

(* ++lon, ++ton and ++prom exclude each other.                             *)
lon_h(n) == IF n > 0 THEN [isTO |-> 0, isRO |-> TRUE, isProm |-> FALSE]
            ELSE [modes EXCEPT !.isRO = FALSE]
ton_h(n) == IF n > 0 THEN [isTO |-> n, isRO |-> FALSE, isProm |-> FALSE]
            ELSE [modes EXCEPT !.isTO = 0]
prom_h(n) == IF n > 0 THEN [isTO |-> 0, isRO |-> FALSE, isProm |-> TRUE]
             ELSE [modes EXCEPT !.isProm = FALSE]

SetMode(c) ==
    CASE c.op = "lon"  -> lon_h(c.n)
      [] c.op = "ton"  -> ton_h(c.n)
      [] c.op = "prom" -> prom_h(c.n)
      [] OTHER         -> modes

(* What follows in the buffer makes the command unknown.                   *)
Command == IF Len(parser.pBuf) = 3 /\ parser.pBuf[3] \in DOMAIN Commands
           THEN Commands[parser.pBuf[3]] ELSE [op |-> "unknown", n |-> 0]

ExecuteLine ==
    /\ pc = "line" /\ lnRdy = 1
    /\ modes' = SetMode(Command)
    /\ cstate' = IF Command.op = "mode" THEN "idle" ELSE cstate
    /\ pc' = IF Command.op = "mode" /\ Command.n = 1 THEN "controller" ELSE "device"
    /\ parser' = flushPbuf(parser) /\ lnRdy' = 0
    /\ UNCHANGED <<bus, isSpoll, client, looked, cmdbytes, saying, heard, spoken>>

NoCommand ==
    /\ pc = "line" /\ lnRdy # 1
    /\ pc' = "device"
    /\ UNCHANGED <<bus, cstate, modes, isSpoll, parser, lnRdy, client, looked, cmdbytes,
                   saying, heard, spoken>>

(* The section for the device mode: the first of these that applies.       *)
Device ==
    /\ pc = "device"
    /\ IF modes.isTO > 0 THEN pc' = "ton" /\ cstate' = "DTAS"
       ELSE IF modes.isRO THEN pc' = "lon" /\ cstate' = "DLAS"
       ELSE IF atn THEN pc' = "attn" /\ cstate' = "DLAS"
       ELSE IF cstate = "DLAS" THEN pc' = "listen" /\ UNCHANGED cstate
       ELSE pc' = "prom" /\ UNCHANGED cstate
    /\ UNCHANGED <<bus, modes, isSpoll, parser, lnRdy, client, looked, cmdbytes, saying,
                   heard, spoken>>

-----------------------------------------------------------------------------
(* attnRequired.                                                           *)

WhileATN ==
    /\ pc = "attn"
    /\ pc' = IF atn /\ Len(cmdbytes) < cmdbuflen THEN "byte" ELSE "process"
    /\ UNCHANGED <<bus, cstate, modes, isSpoll, parser, lnRdy, client, looked, cmdbytes,
                   saying, heard, spoken>>

TakeCommand ==
    /\ pc = "byte"
    /\ Taking
    /\ cmdbytes' = Append(cmdbytes, byte.means)
    /\ pc' = "attn"
    /\ UNCHANGED <<atn, said, cstate, modes, isSpoll, parser, lnRdy, client, saying,
                   heard, spoken>>

(* Variant: the loop goes on when a byte could not be read.                *)
NoCommandByteOn ==
    /\ pc = "byte"
    /\ Refused \/ Waiting
    /\ pc' = "attn"
    /\ UNCHANGED <<bus, cstate, modes, isSpoll, parser, lnRdy, client, cmdbytes, saying,
                   heard, spoken>>

(* readByte gives up as soon as it sees ATN, or when the time is over.     *)
NoCommandByte ==
    /\ pc = "byte"
    /\ Refused \/ Waiting
    /\ pc' = "process"
    /\ UNCHANGED <<bus, cstate, modes, isSpoll, parser, lnRdy, client, cmdbytes, saying,
                   heard, spoken>>

device_unl_h(s) == [s EXCEPT !.cstate = IF @ = "DLAS" THEN "idle" ELSE @]
device_unt_h(s) == [s EXCEPT !.cstate = IF @ = "DTAS" THEN "idle" ELSE @]

(* The loop over the bytes that were read.                                 *)
Token(s, m) ==
    CASE m = "UNL" -> device_unl_h(s)
      [] m = "UNT" -> device_unt_h(s)
      [] m = "MLA" -> [s EXCEPT !.cstate = "DLAS", !.addressed = TRUE]
      [] m = "MTA" -> [s EXCEPT !.cstate = "DTAS", !.addressed = TRUE]
      [] m = "SPE" -> [s EXCEPT !.gpibcmd = m, !.isSpoll = TRUE]
      [] m = "SPD" -> [s EXCEPT !.gpibcmd = m, !.isSpoll = FALSE]
      [] m \in Primary \ {"SPE", "SPD"} -> [s EXCEPT !.gpibcmd = m]
      [] OTHER     -> s

Tokens ==
    LET after[k \in 0..Len(cmdbytes)] ==
            IF k = 0 THEN [cstate |-> cstate, addressed |-> FALSE, gpibcmd |-> "none",
                           isSpoll |-> isSpoll]
            ELSE Token(after[k - 1], cmdbytes[k])
        s == after[Len(cmdbytes)]
    IN  IF s.addressed /\ s.gpibcmd = "none" /\ s.isSpoll
        THEN [s EXCEPT !.gpibcmd = "SPE", !.isSpoll = FALSE] ELSE s

(* Not addressed, or in promiscuous mode, whatever the bytes were.         *)
Unaddressed ==
    /\ pc = "process" /\ (modes.isProm \/ ~Tokens.addressed)
    /\ IF modes.isProm THEN pc' = "listen" /\ UNCHANGED <<cstate, isSpoll>>
       ELSE pc' = "prom" /\ cstate' = "idle" /\ isSpoll' = Tokens.isSpoll
    /\ cmdbytes' = <<>>
    /\ UNCHANGED <<bus, modes, parser, lnRdy, client, looked, saying, heard, spoken>>

Addressed == pc = "process" /\ ~modes.isProm /\ Tokens.addressed /\ isSpoll' = Tokens.isSpoll

(* execGpibCmd; what is neither of these is not acted upon.                *)
execGpibCmd ==
    /\ Addressed /\ Tokens.gpibcmd # "none"
    /\ cstate' = IF Tokens.gpibcmd \in {"SPE", "SPD", "TCT"} THEN "idle" ELSE Tokens.cstate
    /\ pc' = IF Tokens.gpibcmd = "TCT" THEN "controller" ELSE "prom"
    /\ IF Tokens.gpibcmd = "SDC" THEN parser' = flushPbuf(parser) /\ lnRdy' = 0
       ELSE UNCHANGED <<parser, lnRdy>>
    /\ cmdbytes' = <<>>
    /\ UNCHANGED <<bus, modes, client, looked, saying, heard, spoken>>

(* The loop in device_listen_h is that of TakeData.                        *)
ToListen ==
    /\ Addressed /\ Tokens.gpibcmd = "none" /\ Tokens.cstate # "DTAS"
    /\ IF Tokens.cstate = "DLAS" THEN pc' = "listen" ELSE pc' = "prom"
    /\ cstate' = Tokens.cstate
    /\ cmdbytes' = <<>>
    /\ UNCHANGED <<bus, modes, parser, lnRdy, client, looked, saying, heard, spoken>>

(* device_talk_h: sendData stops at the first byte that fails, and what is *)
(* in the buffer is gone, a line or not.                                   *)
device_talk_h ==
    /\ Addressed /\ Tokens.gpibcmd = "none" /\ Tokens.cstate = "DTAS"
    /\ \E n \in 0..(IF lnRdy = 2 /\ ~atn THEN Len(parser.pBuf) ELSE 0) :
           spoken' = spoken \o SubSeq(parser.pBuf, 1, n)
    /\ parser' = flushPbuf(parser) /\ lnRdy' = 0
    /\ cstate' = "idle" /\ pc' = "prom" /\ cmdbytes' = <<>>
    /\ UNCHANGED <<bus, modes, client, looked, saying, heard>>

-----------------------------------------------------------------------------
(* Listening: until EOI, ATN or the end of the time.                       *)

Hear(b) == IF b.nr > 0 THEN Append(heard, b.nr) ELSE heard

TakeData ==
    /\ pc = "listen"
    /\ Taking
    /\ heard' = Hear(byte)
    /\ \/ pc' = "listen" /\ UNCHANGED cstate
       \/ pc' = "prom" /\ cstate' = "idle"
    /\ UNCHANGED <<atn, said, modes, isSpoll, parser, lnRdy, client, cmdbytes, saying, spoken>>

NoData ==
    /\ pc = "listen"
    /\ Refused \/ Waiting
    /\ pc' = "prom" /\ cstate' = "idle"
    /\ UNCHANGED <<bus, modes, isSpoll, parser, lnRdy, client, cmdbytes, saying, heard, spoken>>

(* Listen only: each byte goes to the client, whoever it was for; then the *)
(* client's turn.                                                          *)
LonTake ==
    /\ pc = "lon"
    /\ Taking
    /\ heard' = Hear(byte)
    /\ pc' = "lonInput"
    /\ UNCHANGED <<atn, said, cstate, modes, isSpoll, parser, lnRdy, client, cmdbytes,
                   saying, spoken>>

(* Variant: db is passed on whether readByte filled it or not.             *)
LonNoneAnyway ==
    /\ pc = "lon"
    /\ Refused \/ Waiting
    /\ heard' = IF heard = <<>> THEN heard ELSE Append(heard, Last(heard))
    /\ pc' = "lonInput"
    /\ UNCHANGED <<bus, cstate, modes, isSpoll, parser, lnRdy, client, cmdbytes, saying,
                   spoken>>

LonNone ==
    /\ pc = "lon"
    /\ Refused \/ Waiting
    /\ pc' = "lonInput"
    /\ UNCHANGED <<bus, cstate, modes, isSpoll, parser, lnRdy, client, cmdbytes, saying,
                   heard, spoken>>

(* A command ends the loop, other lines are dropped.                       *)
LonInput ==
    /\ pc = "lonInput"
    /\ IF input = <<>> THEN pc' = "lon" /\ UNCHANGED <<parser, lnRdy, input, cstate>>
       ELSE /\ lnRdy' = Parsed.r /\ input' = Tail(input)
            /\ parser' = IF Parsed.r = 2 THEN flushPbuf(Parsed.parser) ELSE Parsed.parser
            /\ pc' = IF Parsed.r = 1 THEN "prom" ELSE IF Complete THEN "lon" ELSE pc
            /\ cstate' = IF Parsed.r = 1 THEN "idle" ELSE cstate
    /\ UNCHANGED <<bus, modes, isSpoll, sends, looked, cmdbytes, saying, heard, spoken>>

-----------------------------------------------------------------------------
(* Talk only.                                                              *)

(* writeByte: under ATN it makes the adapter a listener, and nothing gets  *)
(* out any more; without, there may be nobody to take the byte.            *)
Say(w) ==
    \/ cstate = "DTAS" /\ ~atn /\ spoken' = Append(spoken, w) /\ UNCHANGED cstate
    \/ cstate' = (IF atn THEN "DLAS" ELSE cstate) /\ UNCHANGED spoken

(* Unbuffered, each character is sent, those of commands too.              *)
TonUnbuffered ==
    /\ pc = "ton" /\ modes.isTO = 1 /\ input # <<>>
    /\ Say(Head(input))
    /\ input' = Tail(input)
    /\ UNCHANGED <<bus, modes, isSpoll, parser, lnRdy, sends, pc, looked, cmdbytes, saying,
                   heard>>

(* Variant: the buffer is flushed before the line is sent.                 *)
TonBufferedFlushing ==
    /\ pc = "ton" /\ modes.isTO = 2 /\ input # <<>>
    /\ parser' = IF Parsed.r = 2 THEN flushPbuf(Parsed.parser) ELSE Parsed.parser
    /\ lnRdy' = Parsed.r /\ input' = Tail(input)
    /\ pc' = CASE Parsed.r = 1 -> "prom" [] Parsed.r = 2 -> "say" [] OTHER -> "ton"
    /\ cstate' = IF Parsed.r = 1 THEN "idle" ELSE cstate
    /\ saying' = IF Parsed.r = 2 THEN Parsed.parser.pBuf ELSE <<>>
    /\ UNCHANGED <<bus, modes, isSpoll, sends, looked, cmdbytes, heard, spoken>>

TonBuffered ==
    /\ pc = "ton" /\ modes.isTO = 2 /\ input # <<>>
    /\ parser' = Parsed.parser /\ lnRdy' = Parsed.r /\ input' = Tail(input)
    /\ pc' = CASE Parsed.r = 1 -> "prom" [] Parsed.r = 2 -> "say" [] OTHER -> "ton"
    /\ cstate' = IF Parsed.r = 1 THEN "idle" ELSE cstate
    /\ saying' = IF Parsed.r = 2 THEN Parsed.parser.pBuf ELSE <<>>
    /\ UNCHANGED <<bus, modes, isSpoll, sends, looked, cmdbytes, heard, spoken>>

(* A byte that fails does not stop the line.                               *)
SayWord ==
    /\ pc = "say" /\ saying # <<>>
    /\ Say(Head(saying))
    /\ saying' = Tail(saying)
    /\ UNCHANGED <<bus, modes, isSpoll, parser, lnRdy, client, pc, looked, cmdbytes, heard>>

(* Variant: the line stays in the buffer.                                  *)
SaidLineKeeping ==
    /\ pc = "say" /\ saying = <<>>
    /\ pc' = "ton"
    /\ UNCHANGED <<bus, cstate, modes, isSpoll, parser, lnRdy, client, looked, cmdbytes,
                   saying, heard, spoken>>

SaidLine ==
    /\ pc = "say" /\ saying = <<>>
    /\ parser' = flushPbuf(parser)
    /\ pc' = "ton"
    /\ UNCHANGED <<bus, cstate, modes, isSpoll, lnRdy, client, looked, cmdbytes, saying,
                   heard, spoken>>

-----------------------------------------------------------------------------
(* The end of the pass.                                                    *)

Prom ==
    /\ pc = "prom"
    /\ parser' = IF modes.isProm /\ lnRdy = 2 THEN flushPbuf(parser) ELSE parser
    /\ pc' = "input"
    /\ UNCHANGED <<bus, cstate, modes, isSpoll, lnRdy, client, looked, cmdbytes, saying,
                   heard, spoken>>

(* lnRdy is overwritten, a line that waits is continued.                   *)
TakeInput ==
    /\ pc = "input" /\ input # <<>>
    /\ parser' = Parsed.parser /\ lnRdy' = Parsed.r /\ input' = Tail(input)
    /\ pc' = IF Complete THEN "line" ELSE "input"
    /\ UNCHANGED <<bus, cstate, modes, isSpoll, sends, looked, cmdbytes, saying, heard, spoken>>

NoInput ==
    /\ pc = "input" /\ input = <<>>
    /\ pc' = "line"
    /\ UNCHANGED <<bus, cstate, modes, isSpoll, parser, lnRdy, client, looked, cmdbytes,
                   saying, heard, spoken>>

(* The client is gone, or was idle for too long: its unread characters are *)
(* dropped, and what the parser holds stays there for the next client.     *)
(* (The bound: the last client stays.)                                     *)
checkClient == /\ pc \in {"input", "lonInput", "ton"} /\ input # <<>> /\ sends < Len(Texts)
               /\ input' = <<>>
               /\ UNCHANGED <<bus, cstate, modes, isSpoll, parser, lnRdy, sends, pc, looked,
                              cmdbytes, saying, heard, spoken>>

Adapter == Look \/ LookAgain \/ ExecuteLine \/ NoCommand \/ Device \/ WhileATN \/ TakeCommand
             \/ NoCommandByte \/ Unaddressed \/ execGpibCmd \/ ToListen \/ device_talk_h
             \/ TakeData \/ NoData \/ LonTake \/ LonNone \/ LonInput \/ TonUnbuffered
             \/ TonBuffered \/ SayWord \/ SaidLine \/ Prom \/ TakeInput \/ NoInput

-----------------------------------------------------------------------------
(* The others on the bus, and the client.                                  *)

device == <<cstate, modes, isSpoll, parser, lnRdy, pc, looked, cmdbytes, saying,
            heard, spoken>>

(* Control is taken and given up between two bytes.                        *)
SwitchATN == byte = Nothing /\ atn' = ~atn /\ UNCHANGED <<byte, said, client, device>>

Message == /\ atn /\ byte = Nothing
           /\ byte' \in {Byte(0, m) : m \in Messages}
           /\ UNCHANGED <<atn, said, client, device>>

Data == /\ ~atn /\ byte = Nothing /\ said < Len(Looks)
        /\ byte' = Byte(said + 1, Looks[said + 1]) /\ said' = said + 1
        /\ UNCHANGED <<atn, client, device>>

(* An adapter that does not listen does not hold the others up.            *)
PassesBy == /\ Listeners /\ byte # Nothing /\ cstate # "DLAS"
            /\ byte' = Nothing
            /\ UNCHANGED <<atn, said, client, device>>

(* The client acts where the loop looks for it next, which loses no order  *)
(* of events.                                                              *)
ClientSends == /\ pc \in {"input", "lonInput", "ton"} /\ input = <<>> /\ sends < Len(Texts)
               /\ input' \in Texts[sends + 1]
               /\ sends' = sends + 1
               /\ UNCHANGED <<bus, device>>

Next == Adapter \/ SwitchATN \/ Message \/ Data \/ PassesBy \/ ClientSends
          \/ checkClient

(* The loop goes on, and readByte ends by its clock, whatever ATN does.    *)
TimeOut == NoCommandByte \/ NoData \/ LonNone
Spec == Init /\ [][Next]_vars /\ WF_vars(Adapter) /\ SF_vars(TimeOut)

-----------------------------------------------------------------------------
(* Properties.                                                             *)

(* Type correctness; a line of the talk-only mode is in the buffer until   *)
(* it has been sent.                                                       *)
TypeOK ==
    /\ atn \in BOOLEAN /\ said \in 0..Len(Looks)
    /\ byte \in {Nothing} \cup {Byte(0, m) : m \in Messages}
                 \cup {Byte(n, Looks[n]) : n \in 1..said}
    /\ cstate \in {"idle", "DLAS", "DTAS"}
    /\ modes.isTO \in 0..2 /\ modes.isRO \in BOOLEAN /\ modes.isProm \in BOOLEAN
    /\ parser \in Parsers /\ Len(parser.pBuf) <= PBSIZE
    /\ lnRdy \in 0..3
    /\ Len(saying) <= Len(parser.pBuf)
    /\ Len(cmdbytes) <= cmdbuflen

(* What the client gets of the data on the bus, listening only or as an    *)
(* addressed listener, is in the order in which it was sent, each byte     *)
(* once, whatever ATN, the client and the time-outs cut short.             *)
HeardInOrder == \A i, j \in DOMAIN heard : i < j => heard[i] < heard[j]

(* What the adapter says on the bus, in a talk-only mode or as a talker,   *)
(* is the client's data in the order in which it came, each word once.     *)
SpokenAsTyped == InOrder(spoken)

(* Whatever the controller does with ATN, the adapter comes back to the    *)
(* client's commands, unless the client itself has asked for a mode that   *)
(* only listens or only talks.                                             *)
ClientServed ==
    pc # "line" ~> (pc \in {"line", "controller"} \/ modes.isRO \/ modes.isTO > 0)

(* prologix_server.cpp, the ATN read loop: "Read bytes received while ATN  *)
(* is asserted".  A message of the controller is taken from the bus.       *)
CommandsAreRead == atn /\ byte # Nothing ~> byte = Nothing \/ pc = "controller"
=============================================================================
