---------------------------- MODULE BusTheorems ----------------------------
(* What the operations of the bus driver preserve.                         *)
EXTENDS GpibBus, TLAPS

(* A bus in which only instruments that are on are addressed.              *)
Bus(b) == b \in Buses /\ b.listeners \cup b.talkers \subseteq b.powered

(* Nobody is addressed on c that was not on b, and the controller's        *)
(* variables, cstate and deviceAddressed apart, are those of b.            *)
Shrinks(c, b) ==
    /\ c.listeners \subseteq b.listeners
    /\ c.talkers \subseteq b.talkers
    /\ c.paddr = b.paddr
    /\ c.eoi = b.eoi /\ c.eos = b.eos

(* Nobody is addressed but p.                                              *)
NoneBut(b, p) == b.listeners \cup b.talkers \subseteq {p}

(* ExclusiveAddressing, of a bus.                                          *)
Excl(b) == b.paddr # NoDevice => NoneBut(b, b.paddr)

(* CachedMeansAddressed and CacheCoherent, of a bus.                       *)
Cached(b) == b.paddr # NoDevice => b.deviceAddressed # "TONONE"
Coherent(b) ==
    b.paddr \in b.powered =>
        CASE b.deviceAddressed = "TOLISTEN" -> b.paddr \in b.listeners
          [] b.deviceAddressed = "TOTALK"   -> b.paddr \in b.talkers
          [] OTHER                          -> FALSE

(* Nobody talks but the cached address; this holds with web requests too.  *)
Talks(b) == b.talkers \subseteq {b.paddr}

(* Nothing that these four look at differs.                                *)
Same(c, b) ==
    /\ c.listeners = b.listeners /\ c.talkers = b.talkers /\ c.powered = b.powered
    /\ c.paddr = b.paddr /\ c.deviceAddressed = b.deviceAddressed

LEMMA SameLemma ==
    ASSUME NEW b, NEW c, Same(c, b)
    PROVE  /\ (Excl(b) => Excl(c)) /\ (Cached(b) => Cached(c))
           /\ (Coherent(b) => Coherent(c)) /\ (Talks(b) => Talks(c))
  BY DEF Same, Excl, NoneBut, Cached, Coherent, Talks

(* The commands that address or unaddress, and those that do neither.      *)
AddressCommands == {"UNL", "UNT", "LAD", "TAD"}
OtherCommands == {"SDC", "DCL", "LLO", "GTL", "GET", "SPE", "SPD"}
BusCommands == AddressCommands \cup OtherCommands

(* Latching a command keeps a bus a bus; only LAD and TAD address somebody,*)
(* and a UNL or UNT that every instrument took leaves nobody.              *)
LEMMA LatchedLemma ==
    ASSUME NEW b, Bus(b), NEW cmd \in BusCommands, NEW p, NEW S \in SUBSET b.powered
    PROVE  /\ Bus(Latched(b, cmd, p, S))
           /\ Latched(b, cmd, p, S).paddr = b.paddr
           /\ Latched(b, cmd, p, S).powered = b.powered
           /\ Latched(b, cmd, p, S).eoi = b.eoi
           /\ Latched(b, cmd, p, S).eos = b.eos
           /\ Latched(b, cmd, p, S).deviceAddressed = b.deviceAddressed
           /\ cmd \notin {"LAD", "TAD"} => Shrinks(Latched(b, cmd, p, S), b)
           /\ Latched(b, cmd, p, S).listeners \subseteq b.listeners \cup {p}
           /\ Latched(b, cmd, p, S).talkers \subseteq b.talkers \cup {p}
           /\ cmd = "UNL" /\ S = b.powered => Latched(b, cmd, p, S).listeners = {}
           /\ cmd = "UNT" /\ S = b.powered => Latched(b, cmd, p, S).talkers = {}
           /\ cmd = "LAD" => Latched(b, cmd, p, S).talkers = b.talkers
           /\ cmd = "TAD" => Latched(b, cmd, p, S).listeners = b.listeners
           /\ cmd = "TAD" /\ S = b.powered => Latched(b, cmd, p, S).talkers \subseteq {p}
           /\ cmd = "LAD" /\ p \in S => p \in Latched(b, cmd, p, S).listeners
           /\ cmd = "TAD" /\ p \in S => p \in Latched(b, cmd, p, S).talkers
  <1>1. CASE cmd = "UNL"
    BY <1>1 DEF Latched, Bus, Buses, Shrinks
  <1>2. CASE cmd = "UNT"
    BY <1>2 DEF Latched, Bus, Buses, Shrinks
  <1>3. CASE cmd = "LAD"
    BY <1>3 DEF Latched, Bus, Buses, Shrinks
  <1>4. CASE cmd = "TAD"
    BY <1>4 DEF Latched, Bus, Buses, Shrinks
  <1>5. CASE cmd \in OtherCommands
    <2>1. Latched(b, cmd, p, S) = b
      BY <1>5 DEF Latched, OtherCommands
    <2> QED BY <1>5, <2>1 DEF Shrinks, OtherCommands
  <1> QED BY <1>1, <1>2, <1>3, <1>4, <1>5 DEF BusCommands, AddressCommands

LEMMA SetControlsLemma ==
    ASSUME NEW b, Bus(b), NEW state \in ControlStates
    PROVE  /\ Bus(setControls(b, state))
           /\ setControls(b, state).listeners = b.listeners
           /\ setControls(b, state).talkers = b.talkers
           /\ setControls(b, state).paddr = b.paddr
           /\ setControls(b, state).powered = b.powered
           /\ setControls(b, state).eoi = b.eoi
           /\ setControls(b, state).eos = b.eos
           /\ setControls(b, state).deviceAddressed = b.deviceAddressed
  BY DEF Bus, Buses, setControls

-----------------------------------------------------------------------------
(* Commands.                                                               *)

LEMMA OutcomeLemma ==
    ASSUME NEW c
    PROVE  /\ Outcome(c, TRUE).bus = c /\ Outcome(c, TRUE).ok = TRUE
           /\ Outcome(c, FALSE).bus = c /\ Outcome(c, FALSE).ok = FALSE
  BY DEF Outcome

LEMMA NoTransferLemma == NoTransfer \in Transfers /\ NoTransfer.to = {} /\ NoTransfer.from = {}
  BY DEF NoTransfer, Transfers, EndChars

LEMMA SendCmdLemma ==
    ASSUME NEW b, Bus(b), NEW cmd \in BusCommands, NEW p, NEW o \in sendCmd(b, cmd, p)
    PROVE  /\ Bus(o.bus) /\ o.ok \in BOOLEAN
           /\ o.bus.paddr = b.paddr
           /\ o.bus.eoi = b.eoi /\ o.bus.eos = b.eos
           /\ cmd \notin {"LAD", "TAD"} => Shrinks(o.bus, b)
           /\ o.bus.listeners \subseteq b.listeners \cup {p}
           /\ o.bus.talkers \subseteq b.talkers \cup {p}
           /\ cmd = "UNL" /\ o.ok => o.bus.listeners = {}
           /\ cmd = "UNT" /\ o.ok => o.bus.talkers = {}
           /\ o.bus.powered = b.powered /\ o.bus.deviceAddressed = b.deviceAddressed
           /\ cmd = "LAD" => o.bus.talkers = b.talkers
           /\ cmd = "TAD" => o.bus.listeners = b.listeners
           /\ cmd = "TAD" /\ o.ok => o.bus.talkers \subseteq {p}
           /\ cmd = "LAD" /\ o.ok /\ p \in b.powered => p \in o.bus.listeners
           /\ cmd = "TAD" /\ o.ok /\ p \in b.powered => p \in o.bus.talkers
           /\ ~HandshakeFaults /\ b.powered # {} => o.ok
  <1> DEFINE c == setControls(b, "CCMS")
  <1>1. /\ Bus(c) /\ c.listeners = b.listeners /\ c.talkers = b.talkers
        /\ c.paddr = b.paddr /\ c.powered = b.powered /\ c.eoi = b.eoi /\ c.eos = b.eos
        /\ c.deviceAddressed = b.deviceAddressed
    BY SetControlsLemma DEF ControlStates
  <1>2. PICK S \in SUBSET b.powered :
          \/ o = Outcome(Latched(c, cmd, p, S), TRUE) /\ S = b.powered
          \/ /\ o = Outcome(Latched(c, cmd, p, S), FALSE)
             /\ HandshakeFaults \/ b.powered = {}
    BY DEF sendCmd
  <1>3. /\ o.bus = Latched(c, cmd, p, S) /\ o.ok \in BOOLEAN /\ (o.ok => S = b.powered)
        /\ ~o.ok => HandshakeFaults \/ b.powered = {}
    <2> HIDE DEF c
    <2>1. CASE o = Outcome(Latched(c, cmd, p, S), TRUE) /\ S = b.powered
      BY <2>1, OutcomeLemma
    <2>2. CASE /\ o = Outcome(Latched(c, cmd, p, S), FALSE)
               /\ HandshakeFaults \/ b.powered = {}
      <3>1. o.ok = FALSE /\ o.bus = Latched(c, cmd, p, S)
        BY <2>2, OutcomeLemma
      <3> QED BY <2>2, <3>1
    <2> QED BY <1>2, <2>1, <2>2
  <1> HIDE DEF c
  <1>4. Shrinks(c, b)
    BY <1>1 DEF Shrinks
  <1>5. Shrinks(o.bus, c) => Shrinks(o.bus, b)
    BY <1>4 DEF Shrinks
  <1> QED BY <1>1, <1>3, <1>5, LatchedLemma

(* What a call that fails leaves of the addressing the driver remembers,   *)
(* and when it does not fail.                                              *)
Reliable(o, b) == ~HandshakeFaults /\ b.powered # {} => o.ok

LEMMA SilentLemma ==
    ASSUME NEW o, NEW b, Bus(o.bus), o.bus.powered = b.powered, Reliable(o, b),
           ~HandshakeFaults, ~o.ok
    PROVE  o.bus.talkers = {} /\ o.bus.listeners = {}
  BY DEF Reliable, Bus

LEMMA UnAddressDeviceLemma ==
    ASSUME NEW b, Bus(b), NEW o \in unAddressDevice(b)
    PROVE  /\ Bus(o.bus) /\ Shrinks(o.bus, b) /\ o.ok \in BOOLEAN
           /\ o.bus.powered = b.powered /\ Reliable(o, b)
           /\ ~o.ok => o.bus.deviceAddressed = b.deviceAddressed
           /\ o.ok => o.bus.deviceAddressed = "TONONE"
           /\ ~HandshakeFaults => o.bus.talkers = {} /\ o.bus.listeners = {}
  <1> DEFINE unt == sendCmd(b, "UNT", NoDevice)
             unl == UNION {sendCmd(c, "UNL", NoDevice) : c \in Passed(unt)}
             Fine(u) == /\ Bus(u.bus) /\ Shrinks(u.bus, b) /\ u.ok \in BOOLEAN
                        /\ u.bus.powered = b.powered /\ Reliable(u, b)
                        /\ u.bus.deviceAddressed = b.deviceAddressed
                        /\ u.ok => u.bus.talkers = {}
  <1>1. ASSUME NEW u \in unt PROVE Fine(u)
    BY SendCmdLemma DEF BusCommands, AddressCommands, OtherCommands, Reliable
  <1>2. ASSUME NEW u \in unl PROVE Fine(u) /\ (u.ok => u.bus.listeners = {})
    <2>1. PICK v \in unt : v.ok /\ u \in sendCmd(v.bus, "UNL", NoDevice)
      BY DEF Passed
    <2>2. Fine(v)
      BY <1>1, <2>1
    <2>3. /\ Bus(u.bus) /\ Shrinks(u.bus, v.bus) /\ u.ok \in BOOLEAN
          /\ u.bus.powered = v.bus.powered /\ Reliable(u, v.bus)
          /\ u.bus.deviceAddressed = v.bus.deviceAddressed
          /\ u.ok => u.bus.listeners = {}
      BY <2>1, <2>2, SendCmdLemma DEF BusCommands, AddressCommands, OtherCommands, Reliable
    <2>4. u.bus.talkers = {}
      BY <2>1, <2>2, <2>3 DEF Shrinks
    <2> QED BY <2>2, <2>3, <2>4 DEF Shrinks, Reliable
  <1>3. CASE o \in Failed(unt) \cup Failed(unl)
    <2>1. Fine(o) /\ ~o.ok
      BY <1>1, <1>2, <1>3 DEF Failed
    <2> QED BY <2>1, SilentLemma
  <1>4. CASE o \in {Outcome([c EXCEPT !.deviceAddressed = "TONONE"], TRUE) : c \in Passed(unl)}
    <2>1. PICK u \in unl : u.ok /\ o = Outcome([u.bus EXCEPT !.deviceAddressed = "TONONE"], TRUE)
      BY <1>4 DEF Passed
    <2>2. Fine(u) /\ u.bus.listeners = {}
      BY <1>2, <2>1
    <2>3. o.bus = [u.bus EXCEPT !.deviceAddressed = "TONONE"] /\ o.ok = TRUE
      BY <2>1 DEF Outcome
    <2> QED BY <2>2, <2>3 DEF Bus, Buses, Shrinks, Directions, Reliable
  <1> QED BY <1>3, <1>4 DEF unAddressDevice

(* After addressDevice has succeeded pri, if it is on, is addressed and    *)
(* nobody else; when it fails nobody but pri has joined those who were.    *)
LEMMA AddressDeviceLemma ==
    ASSUME NEW b, Bus(b), NEW pri \in Nat, NEW dir \in {"TOLISTEN", "TOTALK"},
           NEW o \in addressDevice(b, pri, dir)
    PROVE  /\ Bus(o.bus) /\ o.ok \in BOOLEAN
           /\ o.bus.paddr = b.paddr
           /\ o.ok => NoneBut(o.bus, pri)
           /\ NoneBut(b, pri) => NoneBut(o.bus, pri)
           /\ b.talkers \subseteq {pri} => o.bus.talkers \subseteq {pri}
           /\ ~HandshakeFaults /\ pri <= 30 /\ dir = "TOLISTEN" => o.bus.talkers = {}
           /\ ~HandshakeFaults /\ pri <= 30 /\ dir = "TOTALK" => o.bus.listeners = {}
           /\ pri > 30 => o.bus = b /\ ~o.ok
           /\ o.bus.powered = b.powered
           /\ pri <= 30 => Reliable(o, b)
           /\ ~o.ok => o.bus.deviceAddressed = b.deviceAddressed
           /\ o.ok => /\ o.bus.deviceAddressed = dir
                      /\ pri \in b.powered =>
                            pri \in IF dir = "TOTALK" THEN o.bus.talkers ELSE o.bus.listeners
  <1>1. CASE pri > 30
    <2>1. o = Outcome(b, FALSE)
      BY <1>1 DEF addressDevice
    <2>2. o.bus = b /\ o.ok = FALSE
      BY <2>1, OutcomeLemma
    <2>3. ~(pri <= 30) /\ ~o.ok
      BY <1>1, <2>2
    <2> QED BY <2>2, <2>3, Zenon
  <1>2. CASE ~(pri > 30)
    <2> DEFINE lad == IF dir = "TOTALK" THEN "TAD" ELSE "LAD"
               unl == sendCmd(b, "UNL", pri)
               unt == UNION {sendCmd(c, "UNT", pri) : c \in Passed(unl)}
               adr == UNION {sendCmd(c, lad, pri) : c \in Passed(unt)}
               Fine(u) == /\ Bus(u.bus) /\ u.bus.paddr = b.paddr /\ u.ok \in BOOLEAN
                          /\ NoneBut(b, pri) => NoneBut(u.bus, pri)
                          /\ b.talkers \subseteq {pri} => u.bus.talkers \subseteq {pri}
                          /\ u.bus.powered = b.powered /\ Reliable(u, b)
                          /\ u.bus.deviceAddressed = b.deviceAddressed
    <2>1. ASSUME NEW u \in unl
          PROVE  Fine(u) /\ (u.ok => u.bus.listeners = {})
      BY SendCmdLemma DEF BusCommands, AddressCommands, OtherCommands, Shrinks, NoneBut, Reliable
    <2>2. ASSUME NEW u \in unt
          PROVE  Fine(u) /\ (u.ok => u.bus.listeners = {} /\ u.bus.talkers = {})
      <3>1. PICK v \in unl : v.ok /\ u \in sendCmd(v.bus, "UNT", pri)
        BY DEF Passed
      <3>2. Fine(v) /\ v.bus.listeners = {}
        BY <2>1, <3>1
      <3>3. /\ Bus(u.bus) /\ Shrinks(u.bus, v.bus) /\ u.ok \in BOOLEAN
            /\ u.bus.powered = v.bus.powered /\ Reliable(u, v.bus)
            /\ u.bus.deviceAddressed = v.bus.deviceAddressed
            /\ u.ok => u.bus.talkers = {}
        BY <3>1, <3>2, SendCmdLemma DEF BusCommands, AddressCommands, OtherCommands, Reliable
      <3> QED BY <3>2, <3>3 DEF Shrinks, NoneBut, Reliable
    <2>3. ASSUME NEW u \in adr
          PROVE  /\ Fine(u) /\ NoneBut(u.bus, pri)
                 /\ dir = "TOLISTEN" => u.bus.talkers = {}
                 /\ dir = "TOTALK" => u.bus.listeners = {}
                 /\ u.ok /\ pri \in b.powered =>
                       pri \in IF dir = "TOTALK" THEN u.bus.talkers ELSE u.bus.listeners
      <3>1. PICK v \in unt : v.ok /\ u \in sendCmd(v.bus, lad, pri)
        BY DEF Passed
      <3>2. lad \in BusCommands
        BY DEF BusCommands, AddressCommands, OtherCommands
      <3>3. Fine(v) /\ v.bus.listeners = {} /\ v.bus.talkers = {}
        BY <2>2, <3>1
      <3>4. lad = IF dir = "TOTALK" THEN "TAD" ELSE "LAD"
        OBVIOUS
      <3> HIDE DEF lad
      <3>5. /\ Bus(u.bus) /\ u.ok \in BOOLEAN /\ u.bus.paddr = v.bus.paddr
            /\ u.bus.powered = v.bus.powered /\ Reliable(u, v.bus)
            /\ u.bus.deviceAddressed = v.bus.deviceAddressed
            /\ u.bus.listeners \subseteq v.bus.listeners \cup {pri}
            /\ u.bus.talkers \subseteq v.bus.talkers \cup {pri}
            /\ lad = "LAD" => u.bus.talkers = v.bus.talkers
            /\ lad = "TAD" => u.bus.listeners = v.bus.listeners
            /\ lad = "LAD" /\ u.ok /\ pri \in v.bus.powered => pri \in u.bus.listeners
            /\ lad = "TAD" /\ u.ok /\ pri \in v.bus.powered => pri \in u.bus.talkers
        BY <3>1, <3>2, <3>3, SendCmdLemma DEF Reliable
      <3> QED BY <3>3, <3>4, <3>5 DEF NoneBut, Reliable
    <2>0. ~(pri > 30)
      BY <1>2
    <2>4. CASE o \in Failed(unl) \cup Failed(unt) \cup Failed(adr)
      <3>1. Fine(o) /\ ~o.ok
        BY <2>1, <2>2, <2>3, <2>4 DEF Failed
      <3>2. ~HandshakeFaults => o.bus.talkers = {} /\ o.bus.listeners = {}
        BY <3>1, SilentLemma
      <3> QED BY <2>0, <3>1, <3>2
    <2>5. CASE o \in {Outcome([c EXCEPT !.deviceAddressed = dir], TRUE) : c \in Passed(adr)}
      <3>1. PICK u \in adr : u.ok /\ o = Outcome([u.bus EXCEPT !.deviceAddressed = dir], TRUE)
        BY <2>5 DEF Passed
      <3>2. /\ Fine(u) /\ NoneBut(u.bus, pri) /\ u.ok
            /\ dir = "TOLISTEN" => u.bus.talkers = {}
            /\ dir = "TOTALK" => u.bus.listeners = {}
            /\ pri \in b.powered =>
                  pri \in IF dir = "TOTALK" THEN u.bus.talkers ELSE u.bus.listeners
        BY <2>3, <3>1
      <3>3. o.bus = [u.bus EXCEPT !.deviceAddressed = dir] /\ o.ok = TRUE
        BY <3>1 DEF Outcome
      <3>4. /\ Bus(o.bus) /\ o.bus.paddr = u.bus.paddr /\ o.bus.powered = u.bus.powered
            /\ o.bus.listeners = u.bus.listeners /\ o.bus.talkers = u.bus.talkers
            /\ o.bus.deviceAddressed = dir
        BY <3>2, <3>3 DEF Bus, Buses, Directions
      <3> QED BY <2>0, <3>2, <3>3, <3>4 DEF NoneBut, Reliable
    <2> QED BY <1>2, <2>4, <2>5 DEF addressDevice
  <1> QED BY <1>1, <1>2

(* A device clear is heard by the addressed instrument only.               *)
LEMMA SendSDCLemma ==
    ASSUME NEW b, Bus(b), b.paddr \in Nat, NEW o \in sendSDC(b)
    PROVE  /\ Bus(o.bus) /\ o.ok \in BOOLEAN /\ o.to \in SUBSET Instruments
           /\ o.bus.paddr = b.paddr
           /\ NoneBut(b, b.paddr) => NoneBut(o.bus, b.paddr)
           /\ o.to \subseteq {b.paddr}
           /\ Talks(b) => Talks(o.bus)
           /\ o.bus.powered = b.powered
           /\ b.paddr <= 30 => Reliable(o, b)
           /\ ~o.ok => o.bus.deviceAddressed \in {b.deviceAddressed, "TOLISTEN"}
  <1> DEFINE adr == addressDevice(b, b.paddr, "TOLISTEN")
             sdc(c) == sendCmd(c, "SDC", c.paddr)
             una(c) == UNION {unAddressDevice(d) : d \in Passed(sdc(c))}
  <1>1. ASSUME NEW a \in adr
        PROVE  /\ Bus(a.bus) /\ a.bus.paddr = b.paddr
               /\ NoneBut(b, b.paddr) => NoneBut(a.bus, b.paddr)
               /\ Talks(b) => Talks(a.bus)
               /\ a.ok => NoneBut(a.bus, b.paddr) /\ a.bus.deviceAddressed = "TOLISTEN"
               /\ a.bus.powered = b.powered
               /\ b.paddr <= 30 => Reliable(a, b)
               /\ ~a.ok => a.bus.deviceAddressed = b.deviceAddressed
    BY AddressDeviceLemma DEF Talks
  <1>2. CASE o \in {[bus |-> a.bus, ok |-> FALSE, to |-> {}] : a \in Failed(adr)}
    <2>1. PICK a \in adr : ~a.ok /\ o = [bus |-> a.bus, ok |-> FALSE, to |-> {}]
      BY <1>2 DEF Failed
    <2>2. o.bus = a.bus /\ o.ok = FALSE /\ o.to = {}
      BY <2>1
    <2> QED BY <1>1, <2>1, <2>2 DEF Reliable
  <1>3. ASSUME NEW c \in Passed(adr),
               o \in {[bus |-> u.bus, ok |-> u.ok, to |-> c.listeners] :
                         u \in Failed(sdc(c)) \cup una(c)}
        PROVE  /\ Bus(o.bus) /\ o.ok \in BOOLEAN /\ o.to \in SUBSET Instruments
               /\ o.bus.paddr = b.paddr /\ NoneBut(o.bus, b.paddr)
               /\ o.to \subseteq {b.paddr}
               /\ o.bus.powered = b.powered /\ Reliable(o, b)
               /\ ~o.ok => o.bus.deviceAddressed = "TOLISTEN"
    <2>1. /\ Bus(c) /\ c.paddr = b.paddr /\ NoneBut(c, b.paddr)
          /\ c.deviceAddressed = "TOLISTEN" /\ c.powered = b.powered
      BY <1>1 DEF Passed
    <2> DEFINE Fine(u) == /\ Bus(u.bus) /\ Shrinks(u.bus, c) /\ u.ok \in BOOLEAN
                          /\ u.bus.powered = c.powered /\ Reliable(u, c)
                          /\ ~u.ok => u.bus.deviceAddressed = c.deviceAddressed
    <2>2. PICK u \in Failed(sdc(c)) \cup una(c) :
            o = [bus |-> u.bus, ok |-> u.ok, to |-> c.listeners]
      BY <1>3
    <2>3. ASSUME NEW v \in sdc(c)
          PROVE  Fine(v) /\ v.bus.deviceAddressed = c.deviceAddressed
      BY <2>1, SendCmdLemma DEF BusCommands, AddressCommands, OtherCommands, Reliable
    <2>4. ASSUME u \in una(c) PROVE Fine(u)
      <3>1. PICK v \in sdc(c) : u \in unAddressDevice(v.bus)
        BY <2>4 DEF Passed
      <3>2. Fine(v) /\ v.bus.deviceAddressed = c.deviceAddressed
        BY <2>3, <3>1
      <3>3. /\ Bus(u.bus) /\ Shrinks(u.bus, v.bus) /\ u.ok \in BOOLEAN
            /\ u.bus.powered = v.bus.powered /\ Reliable(u, v.bus)
            /\ ~u.ok => u.bus.deviceAddressed = v.bus.deviceAddressed
        BY <3>1, <3>2, UnAddressDeviceLemma
      <3> QED BY <3>2, <3>3 DEF Shrinks, Reliable
    <2>5. Fine(u)
      BY <2>2, <2>3, <2>4 DEF Failed
    <2>6. o.bus = u.bus /\ o.ok = u.ok /\ o.to = c.listeners
      BY <2>2
    <2> QED BY <2>1, <2>5, <2>6 DEF Shrinks, NoneBut, Bus, Buses, Reliable
  <1> QED BY <1>2, <1>3 DEF sendSDC, NoneBut, Talks

-----------------------------------------------------------------------------
(* Data.                                                                   *)

(* What sendData moves goes to those who were listening and comes from the *)
(* controller; only cstate changes.                                        *)
LEMMA SendDataLemma ==
    ASSUME NEW b, Bus(b), NEW len \in Nat, NEW last \in BOOLEAN,
           NEW d \in sendData(b, len, last)
    PROVE  /\ Bus(d.bus) /\ Same(d.bus, b) /\ d.data \in Transfers
           /\ d.data.to = b.listeners /\ d.data.from = {}
  <1>1. PICK t \in Sent(b, len) :
          d = [bus |-> setControls(b, IF last THEN "CIDS" ELSE "CTAS"), data |-> t]
    BY DEF sendData
  <1>2. t \in Transfers /\ t.to = b.listeners /\ t.from = {}
    <2> DEFINE dsize == len % 256
    <2>1. dsize \in 0..255
      OBVIOUS
    <2> HIDE DEF dsize
    <2>2. EndsOf(b.eos) \subseteq EndChars
      BY DEF EndsOf, EndChars
    <2>3. b.listeners \in SUBSET Instruments
      BY DEF Bus, Buses
    <2> DEFINE lengths == IF b.listeners = {} THEN {0}
                          ELSE IF HandshakeFaults THEN 0..dsize ELSE {dsize}
               endings(n) ==
                 IF b.listeners = {} \/ n < dsize THEN {{}}
                 ELSE IF HandshakeFaults THEN SUBSET EndsOf(b.eos)
                 ELSE {EndsOf(b.eos)} \cup (IF dsize = 0 THEN {{}} ELSE {})
               marked(n, e) ==
                 /\ b.eoi
                 /\ IF EndsOf(b.eos) = {} THEN n = dsize /\ n > 0
                    ELSE IF b.eos = 1 THEN "CR" \in e ELSE "LF" \in e
               rec(n, e) == [to |-> b.listeners, from |-> {}, n |-> n, ends |-> e,
                             eoi |-> marked(n, e) /\ b.listeners # {}]
    <2>4. lengths \subseteq 0..255
      BY <2>1
    <2>5. ASSUME NEW n PROVE endings(n) \subseteq SUBSET EndChars
      BY <2>2
    <2>6. t \in UNION {{rec(n, e) : e \in endings(n)} : n \in lengths}
      BY DEF Sent, dsize
    <2> HIDE DEF lengths, endings, marked
    <2>7. PICK n \in lengths : t \in {rec(n, e) : e \in endings(n)}
      BY <2>6
    <2>8. PICK e \in endings(n) : t = rec(n, e)
      BY <2>7
    <2>9. t.to = b.listeners /\ t.from = {} /\ t.n = n /\ t.ends = e
      BY <2>8
    <2>10. (marked(n, e) /\ b.listeners # {}) \in BOOLEAN
      OBVIOUS
    <2>11. n \in 0..1024 /\ e \in SUBSET EndChars
      BY <2>4, <2>5
    <2>12. t \in Transfers
      <3> DEFINE m == marked(n, e) /\ b.listeners # {}
      <3>1. m \in BOOLEAN
        BY <2>10
      <3>2. t = [to |-> b.listeners, from |-> {}, n |-> n, ends |-> e, eoi |-> m]
        BY <2>8
      <3> HIDE DEF m
      <3>3. [to |-> b.listeners, from |-> {}, n |-> n, ends |-> e, eoi |-> m] \in Transfers
        BY <2>3, <2>11, <3>1 DEF Transfers
      <3> QED BY <3>2, <3>3
    <2> QED BY <2>9, <2>12
  <1>3. d.bus = setControls(b, IF last THEN "CIDS" ELSE "CTAS") /\ d.data = t
    BY <1>1
  <1> QED BY <1>2, <1>3, SetControlsLemma DEF Same, ControlStates

LEMMA ReceiveDataLemma ==
    ASSUME NEW b, Bus(b), NEW limited \in BOOLEAN, NEW d \in receiveData(b, limited)
    PROVE  /\ Bus(d.bus) /\ Same(d.bus, b) /\ d.data \in Transfers
           /\ d.data.from = b.talkers /\ d.data.to = {}
  <1>1. PICK stop :
          d = [bus |-> setControls(b, IF stop = "RECEIVE_LIMIT" THEN "CLAS" ELSE "CIDS"),
               stop |-> stop, data |-> [NoTransfer EXCEPT !.from = b.talkers]]
    BY DEF receiveData
  <1>2. /\ d.bus = setControls(b, IF stop = "RECEIVE_LIMIT" THEN "CLAS" ELSE "CIDS")
        /\ d.data = [NoTransfer EXCEPT !.from = b.talkers]
    BY <1>1
  <1>3. b.talkers \subseteq Instruments
    BY DEF Bus, Buses
  <1>4. d.data \in Transfers /\ d.data.from = b.talkers /\ d.data.to = {}
    <2>1. d.data \in Transfers
      BY <1>2, <1>3, NoTransferLemma DEF Transfers
    <2> QED BY <1>2, <2>1 DEF NoTransfer
  <1> QED BY <1>2, <1>4, SetControlsLemma DEF Same, ControlStates
=============================================================================
