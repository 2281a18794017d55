--------------------------- MODULE PrologixServer ---------------------------
(***************************************************************************)
(* The Prologix server (prologix_server.cpp) in controller mode: the main  *)
(* loop, the lines it takes from the parser, the commands that touch the   *)
(* bus or the loop's flags, macros, auto-read and the automatic serial     *)
(* poll.  A pass of loop_prologix is a sequence of sections; a step is one *)
(* section, so everything the client or an instrument does falls between   *)
(* two of them.                                                            *)
(*                                                                         *)
(* Left out: text sent back to the client, commands that only store or     *)
(* print a setting nothing here depends on, and those that leave the       *)
(* controller mode (mode, tct, lon, ton, prom, xdiag, rst).                *)
(***************************************************************************)
EXTENDS GpibBus, PrologixParser

CONSTANTS
    Commands,  \* what a command word means: a handler and its parameters
    Queries,   \* the words that end in '?'
    Macros,    \* MACRO_1..MACRO_9: for each, its lines
    Typed,     \* what the client sends at a time, not always whole lines
    Caddr,     \* cfg.caddr, which setup() takes from the EEPROM
    Idn,       \* cfg.idn
    StoredEoi, StoredEos  \* cfg.eoi, cfg.eos in the EEPROM

ASSUME CommandsAssumption == DOMAIN Commands \subseteq Others /\ Queries \subseteq Others

(* The handlers refuse a number that is not one (notInRange).              *)
ASSUME CommandTypes ==
    \A w \in DOMAIN Commands : LET c == Commands[w] IN
        /\ c.n \in Seq(Nat) /\ c.query \in BOOLEAN
        /\ c.op \in {"auto", "macro", "send"} => c.n # <<>>
        /\ c.op = "auto" => c.n[1] \in 0..3
        /\ c.op = "macro" => c.n[1] \in 0..Len(Macros)

ASSUME LinesAssumption == (\A text \in Typed : text \in Seq(Chars)) /\ Macros \in Seq(Seq(Seq(Chars)))
ASSUME StoredAssumption == StoredEoi \in BOOLEAN /\ StoredEos \in 0..3

VARIABLES
    bus,       \* the driver and the instruments on it
    cfg,       \* cfg.amode and cfg.caddr
    parser,    \* the parse buffer and its flags
    lnRdy,     \* what the parser returned last
    flags,     \* autoRead, isQuery, isSrqa
    runMacro,  \* the macro to run, 0 for none
    macro,     \* the lines of it that are left
    input,     \* characters that have arrived
    pc,        \* the section of loop_prologix that is next
    polled,    \* instruments in the serial poll mode
    srq,       \* instruments that assert SRQ
    clean,     \* history: a whole line went out after the last ++send, ++fndl
    moved      \* history: the transfers of the last step

vars == <<bus, cfg, parser, lnRdy, flags, runMacro, macro, input, pc,
          polled, srq, clean, moved>>

(* A transfer, the addresses it was meant for, and whether sendToInstrument *)
(* had only a part of the line.                                             *)
Sending(op, named, data, cut) ==
    [op |-> op, named |-> named, to |-> data.to, from |-> {},
     marked |-> data.eoi \/ data.ends # {}, cut |-> cut]
Reading(op, named, from) ==
    [op |-> op, named |-> named, to |-> {}, from |-> from, marked |-> FALSE, cut |-> FALSE]

Following == [macro |-> "line", line |-> "data", data |-> "auto", auto |-> "srq",
              srq |-> "input", input |-> "macro"]

Init ==
    /\ \E on \in SUBSET Instruments : bus = BootBus(on, StoredEoi, StoredEos)
    /\ cfg = [amode |-> 0, caddr |-> Caddr]
    /\ parser = BootParser
    /\ lnRdy = 0
    /\ flags = [autoRead |-> FALSE, isQuery |-> FALSE, isSrqa |-> FALSE]
    /\ runMacro = 0 /\ macro = <<>>
    /\ input = <<>>
    /\ pc = "macro"
    /\ polled = {} /\ srq = {}
    /\ clean = FALSE
    /\ moved = {}

-----------------------------------------------------------------------------
(* The driver's calls as the handlers use them: their result is ignored.   *)

After(outcomes) == {o.bus : o \in outcomes}

(* Address to talk, read, unaddress; the outcomes carry who was heard.     *)
Received(b) ==
    UNION {{[bus |-> c, from |-> r.data.from] : c \in After(unAddressDevice(r.bus))} :
              r \in receiveData(b, FALSE)}
AddressAndRead(b, pri) == UNION {Received(c) : c \in After(addressDevice(b, pri, "TOTALK"))}

(* sendLLO, sendGTL, sendGET: sendSDC with another command.                *)
sendAddressed(b, pri, cmd) ==
    LET adr == addressDevice(b, pri, "TOLISTEN")
        sent == UNION {sendCmd(c, cmd, pri) : c \in Passed(adr)}
    IN  Failed(adr) \cup Failed(sent) \cup UNION {unAddressDevice(c) : c \in Passed(sent)}

(* sendUNL and sendUNT forget the whole addressing.                        *)
Forgotten(b, cmd) ==
    LET sent == sendCmd(b, cmd, NoDevice)
    IN  Failed(sent)
          \cup {Outcome([c EXCEPT !.deviceAddressed = "TONONE"], TRUE) : c \in Passed(sent)}

(* The handler's last act, unless it gave up before.                       *)
ThenIdle(outcomes) ==
    After(Failed(outcomes)) \cup {setControls(b, "CIDS") : b \in Passed(outcomes)}

setDefaultCfg(b) == [b EXCEPT !.paddr = 1, !.eoi = FALSE, !.eos = 0]

IFC(b) == [b EXCEPT !.listeners = {}, !.talkers = {}]

-----------------------------------------------------------------------------
(* The serial poll.  A poll is the bus, whether it goes on, the            *)
(* instruments in the serial poll mode, those whose status byte has been   *)
(* passed on, and whether the loop over the targets is over.               *)

Poll(b) == [bus |-> b, ok |-> TRUE, polled |-> polled, told |-> {}, over |-> FALSE]

(* One command of it; those that fail end the handler.                     *)
PollCommand(polls, cmd, p) ==
    UNION {IF ~s.ok THEN {s}
           ELSE {[s EXCEPT !.bus = o.bus, !.ok = o.ok] : o \in sendCmd(s.bus, cmd, p)} :
              s \in polls}

(* SPE and SPD: a byte that times out has reached some.                    *)
PollMode(polls, cmd) ==
    UNION {IF ~s.ok THEN {s}
           ELSE UNION {{[s EXCEPT !.bus = o.bus, !.ok = o.ok,
                                  !.polled = IF cmd = "SPE" THEN @ \cup S ELSE @ \ S] :
                          S \in IF o.ok THEN {o.bus.powered} ELSE SUBSET o.bus.powered} :
                            o \in sendCmd(s.bus, cmd, NoDevice)} :
              s \in polls}

(* TAD + 255 is the byte of UNL.                                           *)
TalkAddress(polls, a) ==
    IF a = NoDevice THEN PollCommand(polls, "UNL", a) ELSE PollCommand(polls, "TAD", a)

(* The status byte of target a.  ++spoll all stops at, and passes on, only *)
(* one that says the instrument asserts SRQ.                               *)
PollOne(polls, a, all) ==
    {s \in polls : ~s.ok \/ s.over \/ a = cfg.caddr}
      \cup
    UNION {IF ~s.ok THEN {s}
           ELSE LET heard == s.bus.talkers \cap s.polled
                    found == heard \cap (IF all THEN srq ELSE Instruments)
                    answered == [s EXCEPT !.bus = setControls(@, "CTAS"),
                                          !.told = found, !.over = found # {}]
                    silent == [s EXCEPT !.bus = setControls(@, "CLAS")]
                IN  IF heard = {} THEN {silent}
                    ELSE {answered} \cup (IF HandshakeFaults THEN {silent} ELSE {}) :
              s \in TalkAddress({t \in polls : t.ok /\ ~t.over /\ a # cfg.caddr}, a)}

(* The loop over the targets.                                              *)
PollTargets(polls, targets, all) ==
    LET done[k \in 0..Len(targets)] ==
            IF k = 0 THEN polls ELSE PollOne(done[k - 1], targets[k], all)
    IN  done[Len(targets)]

(* Variant: SPD is only sent when the loop has run to its end.             *)
SerialPollNoSPD(b, targets, all) ==
    LET hearing == PollCommand(PollCommand({Poll(b)}, "UNL", NoDevice), "LAD", cfg.caddr)
        asked == PollMode(hearing, "SPE")
        done == PollTargets(asked, targets, all)
        ended == PollMode({s \in done : ~s.over}, "SPD") \cup {s \in done : s.over}
        left == PollCommand(PollCommand(ended, "UNT", NoDevice), "UNL", NoDevice)
    IN  {IF s.ok THEN [s EXCEPT !.bus = setControls(@, "CIDS")] ELSE s : s \in left}

SerialPoll(b, targets, all) ==
    LET hearing == PollCommand(PollCommand({Poll(b)}, "UNL", NoDevice), "LAD", cfg.caddr)
        asked == PollMode(hearing, "SPE")
        done == PollTargets(asked, targets, all)
        ended == PollMode(done, "SPD")
        left == PollCommand(PollCommand(ended, "UNT", NoDevice), "UNL", NoDevice)
    IN  {IF s.ok THEN [s EXCEPT !.bus = setControls(@, "CIDS")] ELSE s : s \in left}

(* An instrument whose status byte was read lets go of SRQ.                *)
spoll_h(op, targets, all) ==
    \E s \in SerialPoll(bus, targets, all) :
        /\ bus' = s.bus /\ polled' = s.polled /\ srq' = srq \ s.told
        /\ moved' = {Reading(op, Range(targets), s.told)}
        /\ UNCHANGED <<cfg, flags, runMacro, clean>>

-----------------------------------------------------------------------------
(* The command handlers; n is the sequence of a command's numbers.         *)

Only(b) == bus' = b /\ UNCHANGED <<cfg, flags, runMacro, polled, srq, clean>>
OnlyBus(buses) == moved' = {} /\ \E b \in buses : Only(b)
Nothing == OnlyBus({bus})

addr_h(n) ==
    OnlyBus({IF n # <<>> /\ n[1] \in 0..30 /\ n[1] # cfg.caddr
             THEN [bus EXCEPT !.paddr = n[1]] ELSE bus})

amode_h(n) ==
    /\ cfg' = [cfg EXCEPT !.amode = n[1]]
    /\ flags' = [flags EXCEPT !.autoRead = @ /\ n[1] = 3]
    /\ moved' = {} /\ UNCHANGED <<bus, runMacro, polled, srq, clean>>

srqa_h(n) ==
    /\ flags' = [flags EXCEPT !.isSrqa = n[1] = 1]
    /\ moved' = {} /\ UNCHANGED <<bus, cfg, runMacro, polled, srq, clean>>

macro_h(n) ==
    /\ runMacro' = n[1]
    /\ moved' = {} /\ UNCHANGED <<bus, cfg, flags, polled, srq, clean>>

default_h ==
    /\ bus' = setDefaultCfg(bus)
    /\ cfg' = [amode |-> 0, caddr |-> 0]
    /\ moved' = {} /\ UNCHANGED <<flags, runMacro, polled, srq, clean>>

ifc_h ==
    /\ bus' = IFC(bus) /\ polled' = {}
    /\ moved' = {} /\ UNCHANGED <<cfg, flags, runMacro, srq, clean>>

clr_h == OnlyBus(ThenIdle(sendSDC(bus)))
dcl_h == OnlyBus(ThenIdle(sendCmd(bus, "DCL", NoDevice)))
unlisten_h == OnlyBus(ThenIdle(Forgotten(bus, "UNL")))
untalk_h == OnlyBus(ThenIdle(Forgotten(bus, "UNT")))
ppoll_h == OnlyBus({setControls(bus, "CIDS")})

(* These two go idle whether the command went through or not.              *)
llo_h(all) ==
    OnlyBus({setControls(b, "CIDS") :
                b \in After(IF all THEN sendCmd(bus, "LLO", NoDevice)
                            ELSE sendAddressed(bus, bus.paddr, "LLO"))})
loc_h(all) ==
    IF all THEN Nothing
    ELSE OnlyBus({setControls(b, "CIDS") :
                     b \in After(sendAddressed(bus, bus.paddr, "GTL"))})

(* One target after the other, until one fails.                            *)
Triggered(b, targets) ==
    LET after[k \in 0..Len(targets)] ==
            IF k = 0 THEN {Outcome(b, TRUE)}
            ELSE LET s == after[k - 1]
                 IN  Failed(s) \cup UNION {sendAddressed(c, targets[k], "GET") : c \in Passed(s)}
    IN  after[Len(targets)]
Sought(b, targets) ==
    LET after[k \in 0..Len(targets)] ==
            IF k = 0 THEN {Outcome(b, TRUE)}
            ELSE LET s == after[k - 1]
                 IN  IF targets[k] = cfg.caddr THEN s
                     ELSE Failed(s)
                            \cup UNION {addressDevice(c, targets[k], "TOLISTEN") : c \in Passed(s)}
    IN  after[Len(targets)]

trg_h(n) == OnlyBus(ThenIdle(Triggered(bus, IF n = <<>> THEN <<bus.paddr>> ELSE n)))

(* Nothing unaddresses the last device that was looked for.                *)
fndl_h(n) ==
    /\ \E b \in After(Sought(bus, n)) : bus' = setControls(b, "CIDS")
    /\ clean' = FALSE
    /\ moved' = {} /\ UNCHANGED <<cfg, flags, runMacro, polled, srq>>

(* Variant: the device is not unaddressed after the read.                  *)
read_hKeeping(n) ==
    LET pri == IF n = <<>> THEN bus.paddr ELSE n[1]
        talking == IF bus.deviceAddressed = "TOTALK" THEN {bus}
                   ELSE After(addressDevice(bus, pri, "TOTALK"))
    IN  IF cfg.amode = 3
        THEN /\ bus' \in talking
             /\ flags' = [flags EXCEPT !.autoRead = TRUE]
             /\ moved' = {} /\ UNCHANGED <<cfg, runMacro, polled, srq, clean>>
        ELSE \E b \in talking : \E r \in receiveData(b, FALSE) :
                 Only(r.bus) /\ moved' = {Reading("read", {pri}, r.data.from)}

(* ++read [@n]                                                             *)
read_h(n) ==
    LET pri == IF n = <<>> THEN bus.paddr ELSE n[1]
        talking == IF bus.deviceAddressed = "TOTALK" THEN {bus}
                   ELSE After(addressDevice(bus, pri, "TOTALK"))
    IN  IF cfg.amode = 3
        THEN /\ bus' \in talking
             /\ flags' = [flags EXCEPT !.autoRead = TRUE]
             /\ moved' = {} /\ UNCHANGED <<cfg, runMacro, polled, srq, clean>>
        ELSE \E b \in talking : \E r \in Received(b) :
                 Only(r.bus) /\ moved' = {Reading("read", {pri}, r.from)}

Replies(query) == cfg.amode = 1 \/ (cfg.amode = 2 /\ query)

(* ++send n,text leaves the device addressed unless it reads the answer.   *)
send_h(n, query) ==
    LET asked == flags.isQuery \/ query
        sent == UNION {sendData(b, 1, TRUE) : b \in After(addressDevice(bus, n[1], "TOLISTEN"))}
    IN  IF n[1] = cfg.caddr THEN Nothing
        ELSE /\ \E d \in sent :
                   IF Replies(asked)
                   THEN \E r \in AddressAndRead(d.bus, n[1]) :
                            bus' = r.bus /\ moved' = {Sending("send", {n[1]}, d.data, FALSE),
                                                     Reading("read", {n[1]}, r.from)}
                   ELSE bus' = d.bus /\ moved' = {Sending("send", {n[1]}, d.data, FALSE)}
             /\ flags' = [flags EXCEPT !.isQuery = asked /\ ~Replies(asked)]
             /\ clean' = FALSE
             /\ UNCHANGED <<cfg, runMacro, polled, srq>>

(* ++repeat sends and reads without addressing anyone, each time the same. *)
repeat_h ==
    OnlyBus(UNION {{r.bus : r \in receiveData(d.bus, FALSE)} : d \in sendData(bus, 1, TRUE)})

handler(c) ==
    \/ c.op = "addr" /\ addr_h(c.n)
    \/ c.op = "auto" /\ amode_h(c.n)
    \/ c.op = "srqauto" /\ srqa_h(c.n)
    \/ c.op = "macro" /\ macro_h(c.n)
    \/ c.op = "default" /\ default_h
    \/ c.op = "ifc" /\ ifc_h
    \/ c.op = "clr" /\ clr_h
    \/ c.op = "dcl" /\ dcl_h
    \/ c.op = "unl" /\ unlisten_h
    \/ c.op = "unt" /\ untalk_h
    \/ c.op = "ppoll" /\ ppoll_h
    \/ c.op = "llo" /\ llo_h(c.all)
    \/ c.op = "loc" /\ loc_h(c.all)
    \/ c.op = "trg" /\ trg_h(c.n)
    \/ c.op = "fndl" /\ fndl_h(c.n)
    \/ c.op = "read" /\ read_h(c.n)
    \/ c.op = "send" /\ send_h(c.n, c.query)
    \/ c.op = "repeat" /\ repeat_h
    \/ c.op = "spoll" /\ spoll_h("poll", IF c.n = <<>> THEN <<bus.paddr>> ELSE c.n, c.all)

(* The word after the ++ must be a whole command, or it is an error.       *)
getCmd(buf) ==
    IF Len(buf) = 3 /\ buf[3] \in DOMAIN Commands THEN handler(Commands[buf[3]]) ELSE Nothing

execCmd(buf) == getCmd(buf) /\ parser' = flushPbuf(parser) /\ lnRdy' = 0

-----------------------------------------------------------------------------
(* Data for the instrument.                                                *)

(* Whether the text ends in '?'; an empty one is looked at before its      *)
(* first character.                                                        *)
EndsQuery(buf) == IF buf = <<>> THEN BOOLEAN ELSE {Last(buf) \in Queries}

(* Variant: the device is left addressed after a whole line too.           *)
sendToInstrumentKeeping(buf) ==
    /\ \E b \in IF bus.deviceAddressed = "TOLISTEN" THEN {bus}
                 ELSE After(addressDevice(bus, bus.paddr, "TOLISTEN")) :
       \E d \in sendData(b, Len(buf), TRUE) :
           bus' = d.bus /\ moved' = {Sending("data", {bus.paddr}, d.data, parser.dataBufferFull)}
    /\ \E q \in EndsQuery(buf) : flags' = [flags EXCEPT !.isQuery = @ \/ q]
    /\ clean' = ~parser.dataBufferFull
    /\ parser' = [flushPbuf(parser) EXCEPT !.dataBufferFull = FALSE]
    /\ lnRdy' = 0
    /\ UNCHANGED <<cfg, runMacro, polled, srq>>

sendToInstrument(buf) ==
    /\ \E b \in IF bus.deviceAddressed = "TOLISTEN" THEN {bus}
                 ELSE After(addressDevice(bus, bus.paddr, "TOLISTEN")) :
       \E d \in sendData(b, Len(buf), TRUE) :
       \E e \in IF parser.dataBufferFull THEN {d.bus} ELSE After(unAddressDevice(d.bus)) :
           bus' = e /\ moved' = {Sending("data", {bus.paddr}, d.data, parser.dataBufferFull)}
    /\ \E q \in EndsQuery(buf) : flags' = [flags EXCEPT !.isQuery = @ \/ q]
    /\ clean' = ~parser.dataBufferFull
    /\ parser' = [flushPbuf(parser) EXCEPT !.dataBufferFull = FALSE]
    /\ lnRdy' = 0
    /\ UNCHANGED <<cfg, runMacro, polled, srq>>

-----------------------------------------------------------------------------
(* The sections of loop_prologix.                                          *)

Onward == pc' = Following[pc]

(* execMacro appends its text to whatever the parse buffer holds.          *)
StartMacro ==
    /\ pc = "macro" /\ runMacro > 0
    /\ macro' = Macros[runMacro]
    /\ pc' = "running"
    /\ moved' = {}
    /\ UNCHANGED <<bus, cfg, parser, lnRdy, flags, runMacro, input, polled, srq, clean>>

(* A line that does not fit ends the macro, with the buffer full; the end  *)
(* of the last line finding it full empties it.                            *)
MacroOverflow(line, room) ==
    /\ Len(line) > room \/ (Len(line) = room /\ Len(macro) = 1)
    /\ parser' = IF Len(line) = room THEN flushPbuf(parser)
                 ELSE [parser EXCEPT !.pBuf = @ \o SubSeq(line, 1, room)]
    /\ macro' = <<>> /\ runMacro' = 0
    /\ pc' = "line"
    /\ moved' = {}
    /\ UNCHANGED <<bus, cfg, lnRdy, flags, input, polled, srq, clean>>

MacroLine ==
    /\ pc = "running" /\ macro # <<>>
    /\ LET line == Head(macro)
           room == PBSIZE - 1 - Len(parser.pBuf)
           buf == parser.pBuf \o line
       IN  \/ MacroOverflow(line, room)
           \/ /\ Len(line) < room \/ (Len(line) = room /\ Len(macro) > 1)
              /\ macro' = Tail(macro)
              /\ IF isCmd(buf) THEN execCmd(buf) ELSE sendToInstrument(buf)
              /\ UNCHANGED <<input, pc>>

(* A macro started by the macro itself is forgotten.                       *)
EndMacro ==
    /\ pc = "running" /\ macro = <<>>
    /\ parser' = flushPbuf(parser)
    /\ runMacro' = 0
    /\ pc' = "line"
    /\ moved' = {}
    /\ UNCHANGED <<bus, cfg, lnRdy, flags, macro, input, polled, srq, clean>>

(* Any command stops the continuous read before it is executed.            *)
StopAutoRead ==
    /\ pc = "line" /\ lnRdy = 1 /\ flags.autoRead
    /\ flags' = [flags EXCEPT !.autoRead = FALSE]
    /\ bus' \in After(unAddressDevice(bus))
    /\ moved' = {}
    /\ UNCHANGED <<cfg, parser, lnRdy, runMacro, macro, input, pc, polled, srq, clean>>

ExecuteLine ==
    /\ pc = "line" /\ lnRdy = 1 /\ ~flags.autoRead
    /\ execCmd(parser.pBuf)
    /\ Onward
    /\ UNCHANGED <<macro, input>>

SendLine ==
    /\ pc = "data" /\ lnRdy = 2
    /\ sendToInstrument(parser.pBuf)
    /\ pc' = "reply"
    /\ UNCHANGED <<macro, input>>

(* ++auto 1 reads after every line, 2 after a query.                       *)
Reply ==
    /\ pc = "reply"
    /\ pc' = "auto"
    /\ IF Replies(flags.isQuery)
       THEN /\ \E r \in AddressAndRead(bus, bus.paddr) :
                  bus' = r.bus /\ moved' = {Reading("read", {bus.paddr}, r.from)}
            /\ flags' = [flags EXCEPT !.isQuery = FALSE]
       ELSE moved' = {} /\ UNCHANGED <<bus, flags>>
    /\ UNCHANGED <<cfg, parser, lnRdy, runMacro, macro, input, polled, srq, clean>>

AutoRead ==
    /\ pc = "auto" /\ cfg.amode = 3 /\ flags.autoRead /\ lnRdy = 0
    /\ \E r \in AddressAndRead(bus, bus.paddr) :
           bus' = r.bus /\ moved' = {Reading("read", {bus.paddr}, r.from)}
    /\ Onward
    /\ UNCHANGED <<cfg, parser, lnRdy, flags, runMacro, macro, input, polled, srq, clean>>

AutoPoll ==
    /\ pc = "srq" /\ flags.isSrqa /\ srq # {}
    /\ spoll_h("autopoll", <<bus.paddr>>, FALSE)
    /\ Onward
    /\ UNCHANGED <<parser, lnRdy, macro, input>>

(* The answer to *idn? was sent just before.                               *)
TakeInput ==
    /\ pc = "input" /\ input # <<>>
    /\ LET res == serialIn_h([parser EXCEPT !.sendIdn = FALSE], input, Idn)
       IN  parser' = res.parser /\ lnRdy' = res.r /\ input' = res.rest
    /\ Onward
    /\ moved' = {}
    /\ UNCHANGED <<bus, cfg, flags, runMacro, macro, polled, srq, clean>>

(* A section that finds nothing to do.                                     *)
Skip ==
    /\ pc \in DOMAIN Following
    /\ CASE pc = "macro" -> runMacro = 0
         [] pc = "line"  -> lnRdy # 1
         [] pc = "data"  -> lnRdy # 2
         [] pc = "auto"  -> ~(cfg.amode = 3 /\ flags.autoRead /\ lnRdy = 0)
         [] pc = "srq"   -> ~(flags.isSrqa /\ srq # {})
         [] pc = "input" -> input = <<>>
    /\ Onward
    /\ moved' = {}
    /\ UNCHANGED <<bus, cfg, parser, lnRdy, flags, runMacro, macro, input, polled, srq, clean>>

Loop == StartMacro \/ MacroLine \/ EndMacro \/ StopAutoRead \/ ExecuteLine \/ SendLine
          \/ Reply \/ AutoRead \/ AutoPoll \/ TakeInput \/ Skip

-----------------------------------------------------------------------------
(* The outside.  Each acts where it is looked at next, which loses no      *)
(* order of events the loop could tell from another.                       *)

ClientSends ==
    /\ pc = "input" /\ input = <<>>
    /\ \E text \in Typed : input' = text
    /\ moved' = {}
    /\ UNCHANGED <<bus, cfg, parser, lnRdy, flags, runMacro, macro, pc, polled, srq, clean>>

AssertsSRQ ==
    /\ pc = "srq"
    /\ \E i \in bus.powered \ srq : srq' = srq \cup {i}
    /\ moved' = {}
    /\ UNCHANGED <<bus, cfg, parser, lnRdy, flags, runMacro, macro, input, pc, polled, clean>>

Next == Loop \/ ClientSends \/ AssertsSRQ
Spec == Init /\ [][Next]_vars

-----------------------------------------------------------------------------
(* Properties.                                                             *)

(* Type correctness; the parse buffer has room for another character       *)
(* except while a line waits to be sent in pieces.                         *)
TypeOK ==
    /\ bus \in Buses
    /\ cfg \in [amode : 0..3, caddr : {Caddr, 0}]
    /\ parser.pBuf \in Seq(Chars) /\ Len(parser.pBuf) <= PBSIZE
    /\ Len(parser.pBuf) = PBSIZE => parser.dataBufferFull
    /\ lnRdy \in 0..3
    /\ flags \in [autoRead : BOOLEAN, isQuery : BOOLEAN, isSrqa : BOOLEAN]
    /\ runMacro \in 0..Len(Macros)
    /\ pc \in DOMAIN Following \cup {"running", "reply"}
    /\ polled \subseteq Instruments /\ srq \subseteq Instruments

(* Whatever the client does, at most one instrument is addressed at a time,*)
(* so that no two of them hear the same data or talk at once.              *)
OneAddressed == Cardinality(bus.listeners) + Cardinality(bus.talkers) <= 1

(* Once a whole line has gone out, the lines after it reach the instrument *)
(* at cfg.paddr and only that one, until ++send or ++fndl leaves another   *)
(* one addressed: whatever it missed by deviceAddressed, a line strays     *)
(* at most once.                                                           *)
StrayOnce ==
    [][\A t \in moved' : t.op = "data" /\ clean =>
           t.to = t.named \cap bus.powered]_vars

(* What the client reads, as data or as a status byte, is from the         *)
(* instrument it named, or from nobody.  Before the first ++addr nothing   *)
(* is named, and ++auto 3 goes on with the instrument ++read @n has found. *)
ReadFromNamed == \A t \in moved : t.named # {NoDevice} => t.from \subseteq t.named

(* No instrument is still in the serial poll mode when it is asked to talk,*)
(* where it would answer with its status byte instead of data.             *)
StatusIsNotData ==
    [][\A t \in moved' : t.op = "read" => t.from \cap polled = {}]_vars

(* README.md:113 "Both VXI-11 and prologix support large replies and large *)
(* commands and requests": the part of a line that fills the parse buffer  *)
(* is sent without an end-of-message mark.                                 *)
OneMessage == \A t \in moved : t.op = "data" /\ t.cut => ~t.marked
=============================================================================
