------------------------------ MODULE GpibBus ------------------------------
(***************************************************************************)
(* class GPIBbus (AR488_GPIBbus.cpp) in controller mode, at the grain of   *)
(* one GPIB command or one data transfer, together with what the commands  *)
(* do to the instruments on the bus.                                       *)
(*                                                                         *)
(* A bus is a record: the controller's own variables (cstate,              *)
(* deviceAddressed and the part of cfg the operations read or write) and   *)
(* the instruments' addressing state, which the firmware cannot see.       *)
(* An operation is the set of the outcomes it can have on a bus, each with *)
(* the bus it leaves.  The three-wire handshake under a byte is abstracted *)
(* to: it succeeds with every instrument concerned, or it times out.       *)
(***************************************************************************)
EXTENDS Integers, FiniteSets

CONSTANTS
    Instruments,     \* primary addresses at which an instrument is cabled
    HandshakeFaults  \* TRUE: a byte may time out although an acceptor is there

ASSUME InstrumentsAssumption == Instruments \subseteq 0..30
ASSUME HandshakeFaultsAssumption == HandshakeFaults \in BOOLEAN

NoDevice == 255      \* cfg.paddr = 0xFF, "mark as unaddressed"
Addresses == 0..31   \* what create_link and the web server let through

Directions == {"TONONE", "TOLISTEN", "TOTALK"}
ControlStates == {"CINI", "CIDS", "CCMS", "CLAS", "CTAS"}
EndChars == {"CR", "LF"}

Buses ==
    [cstate          : ControlStates,
     deviceAddressed : Directions,
     paddr           : Addresses \cup {NoDevice},
     eoi             : BOOLEAN,
     eos             : 0..3,
     powered         : SUBSET Instruments,
     listeners       : SUBSET Instruments,
     talkers         : SUBSET Instruments]

(* The bus after the boot: startControllerMode ends in sendIFC, which      *)
(* unaddresses every instrument, and setup() then sets paddr.  eoi and eos *)
(* are those the EEPROM holds.                                             *)
BootBus(on, eoi, eos) ==
    [cstate |-> "CINI", deviceAddressed |-> "TONONE", paddr |-> NoDevice,
     eoi |-> eoi, eos |-> eos, powered |-> on, listeners |-> {}, talkers |-> {}]

-----------------------------------------------------------------------------
(* Outcomes.                                                               *)

Outcome(b, ok) == [bus |-> b, ok |-> ok]
Passed(outcomes) == {o.bus : o \in {p \in outcomes : p.ok}}
Failed(outcomes) == {o \in outcomes : ~o.ok}

(* What a data transfer moved: who was listening, who was talking, how     *)
(* many of the caller's bytes went out, the end characters after them, and *)
(* whether EOI marked the last byte.                                       *)
NoTransfer == [to |-> {}, from |-> {}, n |-> 0, ends |-> {}, eoi |-> FALSE]
Transfers == [to : SUBSET Instruments, from : SUBSET Instruments, n : 0..1024,
              ends : SUBSET EndChars, eoi : BOOLEAN]

-----------------------------------------------------------------------------
(* Commands.                                                               *)

setControls(b, state) == [b EXCEPT !.cstate = state]

(* The instruments in S take the command byte cmd, for primary address p.  *)
Latched(b, cmd, p, S) ==
    CASE cmd = "UNL" -> [b EXCEPT !.listeners = @ \ S]
      [] cmd = "UNT" -> [b EXCEPT !.talkers = @ \ S]
      [] cmd = "LAD" -> [b EXCEPT !.listeners = @ \cup (S \cap {p})]
      [] cmd = "TAD" -> [b EXCEPT !.talkers = (@ \ S) \cup (S \cap {p})]
      [] OTHER       -> b

(* With ATN asserted every instrument that is on takes part in the         *)
(* handshake.  With none on, NDAC never falls and the byte times out.      *)
sendCmd(b, cmd, p) ==
    LET c == setControls(b, "CCMS") IN
    (IF b.powered = {} THEN {} ELSE {Outcome(Latched(c, cmd, p, b.powered), TRUE)})
      \cup
    (IF HandshakeFaults \/ b.powered = {}
     THEN {Outcome(Latched(c, cmd, p, S), FALSE) : S \in SUBSET b.powered}
     ELSE {})

unAddressDevice(b) ==
    LET unt == sendCmd(b, "UNT", NoDevice)
        unl == UNION {sendCmd(c, "UNL", NoDevice) : c \in Passed(unt)}
    IN  Failed(unt) \cup Failed(unl)
          \cup {Outcome([c EXCEPT !.deviceAddressed = "TONONE"], TRUE) :
                   c \in Passed(unl)}

(* A variant that trusts the previous operation to have unlistened.        *)
addressDeviceNoUNL(b, pri, dir) ==
    IF pri > 30
    THEN {Outcome(b, FALSE)}
    ELSE LET unt == sendCmd(b, "UNT", pri)
             adr == UNION {sendCmd(c, IF dir = "TOTALK" THEN "TAD" ELSE "LAD", pri) :
                              c \in Passed(unt)}
         IN  Failed(unt) \cup Failed(adr)
               \cup {Outcome([c EXCEPT !.deviceAddressed = dir], TRUE) :
                        c \in Passed(adr)}

(* The secondary address is 0xFF in every call the VXI-11 build makes.     *)
addressDevice(b, pri, dir) ==
    IF pri > 30
    THEN {Outcome(b, FALSE)}
    ELSE LET unl == sendCmd(b, "UNL", pri)
             unt == UNION {sendCmd(c, "UNT", pri) : c \in Passed(unl)}
             adr == UNION {sendCmd(c, IF dir = "TOTALK" THEN "TAD" ELSE "LAD", pri) :
                              c \in Passed(unt)}
         IN  Failed(unl) \cup Failed(unt) \cup Failed(adr)
               \cup {Outcome([c EXCEPT !.deviceAddressed = dir], TRUE) :
                        c \in Passed(adr)}

(* Selected device clear.  An outcome also carries the instruments that    *)
(* were listening when the SDC byte was sent.                              *)
sendSDC(b) ==
    LET adr == addressDevice(b, b.paddr, "TOLISTEN")
    IN  {[bus |-> o.bus, ok |-> FALSE, to |-> {}] : o \in Failed(adr)}
          \cup
        UNION {LET sdc == sendCmd(c, "SDC", c.paddr)
                   una == UNION {unAddressDevice(d) : d \in Passed(sdc)}
               IN  {[bus |-> o.bus, ok |-> o.ok, to |-> c.listeners] :
                       o \in Failed(sdc) \cup una}
               : c \in Passed(adr)}

-----------------------------------------------------------------------------
(* Data.                                                                   *)

(* The characters sendData appends for a value of cfg.eos.                 *)
EndsOf(eos) == CASE eos = 1 -> {"CR"} [] eos = 2 -> {"LF"} [] eos = 3 -> {}
                 [] OTHER -> {"CR", "LF"}

(* What can go out to the listeners.  dsize is a uint8_t, so a longer      *)
(* length is cut modulo 256; when that leaves 0 the handshake state the    *)
(* terminators depend on is never assigned, and either branch may be taken.*)
Sent(b, len) ==
    LET dsize == len % 256
        lengths == IF b.listeners = {} THEN {0}
                   ELSE IF HandshakeFaults THEN 0..dsize ELSE {dsize}
        endings(n) ==
            IF b.listeners = {} \/ n < dsize THEN {{}}
            ELSE IF HandshakeFaults THEN SUBSET EndsOf(b.eos)
            ELSE {EndsOf(b.eos)} \cup (IF dsize = 0 THEN {{}} ELSE {})
        marked(n, ends) ==
            /\ b.eoi
            /\ IF EndsOf(b.eos) = {} THEN n = dsize /\ n > 0
               ELSE IF b.eos = 1 THEN "CR" \in ends ELSE "LF" \in ends
    IN  UNION {{[to |-> b.listeners, from |-> {}, n |-> n, ends |-> e,
                 eoi |-> marked(n, e) /\ b.listeners # {}] :
                   e \in endings(n)} : n \in lengths}

sendData(b, len, isLastPacket) ==
    {[bus |-> setControls(b, IF isLastPacket THEN "CIDS" ELSE "CTAS"),
      data |-> t] : t \in Sent(b, len)}

(* VXI-11 and web reads always detect EOI, so a read ends in EOI, at the   *)
(* caller's limit (if there is one), or with a time-out.  An addressed     *)
(* talker may have nothing to say.  At the limit the bus is not idled.     *)
receiveData(b, limited) ==
    {[bus |-> setControls(b, IF stop = "RECEIVE_LIMIT" THEN "CLAS" ELSE "CIDS"),
      stop |-> stop,
      data |-> [NoTransfer EXCEPT !.from = b.talkers]] :
        stop \in {"RECEIVE_ERR"}
                   \cup (IF b.talkers = {} THEN {} ELSE {"RECEIVE_EOI"})
                   \cup (IF b.talkers = {} \/ ~limited THEN {} ELSE {"RECEIVE_LIMIT"})}

-----------------------------------------------------------------------------
(* The instruments themselves: one that is switched off forgets that it    *)
(* was addressed, and comes back unaddressed.                              *)
PowerOff(b, i) == [b EXCEPT !.powered = @ \ {i},
                            !.listeners = @ \ {i}, !.talkers = @ \ {i}]
PowerOn(b, i) == [b EXCEPT !.powered = @ \cup {i}]
=============================================================================
