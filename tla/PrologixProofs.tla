--------------------------- MODULE PrologixProofs ---------------------------
(***************************************************************************)
(* Theorems about the Prologix server, for any instruments, commands,      *)
(* macros and input.  What is said of addressing assumes that no byte of a *)
(* command is lost; the types are right with handshake faults too.         *)
(***************************************************************************)
EXTENDS PrologixServer, BusTheorems, ParserTheorems, FiniteSetTheorems

-----------------------------------------------------------------------------
(* What the handlers keep of the addressing.                               *)

(* One instrument at most is addressed; none is to listen, nor does the    *)
(* driver believe so; none is to talk.                                     *)
Alone(b) == \E i : b.listeners \cup b.talkers \subseteq {i} /\ (b.listeners = {} \/ b.talkers = {})
Deaf(b) == b.listeners = {} /\ (b.powered # {} => b.deviceAddressed # "TOLISTEN")
Mute(b) == b.talkers = {} /\ (b.powered # {} => b.deviceAddressed # "TOTALK")
Idle(b) == Alone(b) /\ Deaf(b) /\ Mute(b)

Keeps(c, b) ==
    /\ Bus(c) /\ c.powered = b.powered /\ c.paddr = b.paddr
    /\ ~HandshakeFaults => /\ Alone(b) => Alone(c)
                           /\ Deaf(b) => Deaf(c)
                           /\ Mute(b) => Mute(c)

LEMMA KeepsLemma ==
    ASSUME NEW b, NEW c, NEW d, Keeps(c, b), Keeps(d, c)
    PROVE  Keeps(d, b)
  BY DEF Keeps

(* Without an instrument that is on nobody is addressed.                   *)
LEMMA DarkLemma ==
    ASSUME NEW b, Bus(b), b.powered = {}
    PROVE  Idle(b)
  BY DEF Bus, Idle, Alone, Deaf, Mute

LEMMA ShrinkKeeps ==
    ASSUME NEW b, NEW c, Bus(c), c.powered = b.powered, c.paddr = b.paddr,
           c.deviceAddressed = b.deviceAddressed,
           c.listeners \subseteq b.listeners, c.talkers \subseteq b.talkers
    PROVE  Keeps(c, b)
  BY DEF Keeps, Alone, Deaf, Mute

LEMMA ControlsKeep ==
    ASSUME NEW b, Bus(b), NEW state \in ControlStates
    PROVE  Keeps(setControls(b, state), b)
  BY SetControlsLemma, ShrinkKeeps

LEMMA OtherKeeps ==
    ASSUME NEW b, Bus(b), NEW cmd \in OtherCommands \cup {"UNL", "UNT"}, NEW p,
           NEW o \in sendCmd(b, cmd, p)
    PROVE  Keeps(o.bus, b) /\ o.ok \in BOOLEAN /\ Reliable(o, b)
  <1>1. cmd \in BusCommands /\ cmd \notin {"LAD", "TAD"}
    BY DEF BusCommands, AddressCommands, OtherCommands
  <1>2. /\ Bus(o.bus) /\ o.ok \in BOOLEAN /\ Shrinks(o.bus, b) /\ Reliable(o, b)
        /\ o.bus.powered = b.powered /\ o.bus.paddr = b.paddr
        /\ o.bus.deviceAddressed = b.deviceAddressed
    BY <1>1, SendCmdLemma DEF Reliable
  <1> QED BY <1>2, ShrinkKeeps DEF Shrinks

(* Unaddressing leaves the bus idle.                                       *)
LEMMA UnaddressKeeps ==
    ASSUME NEW b, Bus(b), NEW o \in unAddressDevice(b)
    PROVE  /\ Keeps(o.bus, b) /\ o.ok \in BOOLEAN
           /\ ~HandshakeFaults => Idle(o.bus)
  <1>1. /\ Bus(o.bus) /\ o.ok \in BOOLEAN /\ o.bus.powered = b.powered /\ o.bus.paddr = b.paddr
        /\ Reliable(o, b)
        /\ o.ok => o.bus.deviceAddressed = "TONONE"
        /\ ~HandshakeFaults => o.bus.talkers = {} /\ o.bus.listeners = {}
    BY UnAddressDeviceLemma DEF Shrinks
  <1>2. ASSUME ~HandshakeFaults PROVE Idle(o.bus)
    BY <1>1, <1>2 DEF Reliable, Idle, Alone, Deaf, Mute
  <1> QED BY <1>1, <1>2 DEF Keeps, Idle

(* Addressing leaves one instrument addressed.                             *)
LEMMA AddressAlone ==
    ASSUME NEW b, Bus(b), NEW pri \in Nat, NEW dir \in {"TOLISTEN", "TOTALK"},
           NEW o \in addressDevice(b, pri, dir), ~HandshakeFaults
    PROVE  /\ Alone(b) => Alone(o.bus)
           /\ dir = "TOLISTEN" /\ Mute(b) => Mute(o.bus)
           /\ dir = "TOTALK" /\ Deaf(b) => Deaf(o.bus)
           /\ pri <= 30 \/ Mute(b) => o.bus.talkers \subseteq {pri}
           /\ ~o.ok => Keeps(o.bus, b)
  <1>1. CASE pri > 30
    <2>1. o.bus = b /\ ~(pri <= 30)
      BY <1>1, AddressDeviceLemma
    <2> QED BY <2>1 DEF Keeps, Mute
  <1>2. CASE pri <= 30
    <2>1. /\ Bus(o.bus) /\ o.ok \in BOOLEAN /\ o.bus.powered = b.powered
          /\ o.bus.paddr = b.paddr /\ Reliable(o, b)
          /\ o.ok => NoneBut(o.bus, pri) /\ o.bus.deviceAddressed = dir
          /\ dir = "TOLISTEN" => o.bus.talkers = {}
          /\ dir = "TOTALK" => o.bus.listeners = {}
      BY <1>2, AddressDeviceLemma
    <2>2. CASE b.powered = {}
      <3>1. Idle(o.bus)
        BY <2>1, <2>2, DarkLemma
      <3> QED BY <2>1, <3>1 DEF Idle, Keeps, Mute
    <2>3. CASE b.powered # {}
      <3>1. o.ok /\ NoneBut(o.bus, pri) /\ o.bus.deviceAddressed = dir
        BY <2>1, <2>3 DEF Reliable
      <3>2. Alone(o.bus)
        BY <2>1, <3>1 DEF Alone, NoneBut
      <3>3. dir = "TOLISTEN" => Mute(o.bus)
        BY <2>1, <3>1 DEF Mute
      <3>4. dir = "TOTALK" => Deaf(o.bus)
        BY <2>1, <3>1 DEF Deaf
      <3> QED BY <3>1, <3>2, <3>3, <3>4 DEF NoneBut
    <2> QED BY <2>2, <2>3
  <1> QED BY <1>1, <1>2

(* The calls that address, do something and unaddress.                     *)
LEMMA SendAddressedKeeps ==
    ASSUME NEW b, Bus(b), NEW pri \in Nat, NEW cmd \in OtherCommands,
           NEW o \in sendAddressed(b, pri, cmd)
    PROVE  Keeps(o.bus, b) /\ o.ok \in BOOLEAN
  <1> DEFINE adr == addressDevice(b, pri, "TOLISTEN")
             sent == UNION {sendCmd(c, cmd, pri) : c \in Passed(adr)}
  <1>1. ASSUME NEW a \in adr
        PROVE  Bus(a.bus) /\ a.bus.powered = b.powered /\ a.bus.paddr = b.paddr /\ a.ok \in BOOLEAN
               /\ (~a.ok /\ ~HandshakeFaults => Keeps(a.bus, b))
    <2>1. Bus(a.bus) /\ a.bus.powered = b.powered /\ a.bus.paddr = b.paddr /\ a.ok \in BOOLEAN
      BY AddressDeviceLemma
    <2>2. ~a.ok /\ ~HandshakeFaults => Keeps(a.bus, b)
      BY AddressAlone
    <2> QED BY <2>1, <2>2
  <1>2. ASSUME NEW u \in sent
        PROVE  Bus(u.bus) /\ u.bus.powered = b.powered /\ u.bus.paddr = b.paddr /\ u.ok \in BOOLEAN
               /\ (~u.ok /\ ~HandshakeFaults => Idle(u.bus))
    <2>1. PICK a \in adr : u \in sendCmd(a.bus, cmd, pri)
      BY DEF Passed
    <2>2. Bus(a.bus) /\ a.bus.powered = b.powered /\ a.bus.paddr = b.paddr
      BY <1>1, <2>1
    <2>3. Keeps(u.bus, a.bus) /\ u.ok \in BOOLEAN /\ Reliable(u, a.bus)
      BY <2>1, <2>2, OtherKeeps
    <2>4. ~u.ok /\ ~HandshakeFaults => u.bus.powered = {}
      BY <2>3 DEF Keeps, Reliable
    <2> QED BY <2>2, <2>3, <2>4, DarkLemma DEF Keeps
  <1>3. CASE o \in Failed(adr)
    <2>1. o \in adr /\ ~o.ok
      BY <1>3 DEF Failed
    <2> QED BY <1>1, <2>1 DEF Keeps
  <1>4. CASE o \in Failed(sent)
    <2>1. o \in sent /\ ~o.ok
      BY <1>4 DEF Failed
    <2> QED BY <1>2, <2>1 DEF Keeps, Idle
  <1>5. CASE o \in UNION {unAddressDevice(c) : c \in Passed(sent)}
    <2>1. PICK u \in sent : o \in unAddressDevice(u.bus)
      BY <1>5 DEF Passed
    <2>2. Keeps(o.bus, u.bus) /\ o.ok \in BOOLEAN /\ (~HandshakeFaults => Idle(o.bus))
      BY <1>2, <2>1, UnaddressKeeps
    <2> QED BY <1>2, <2>1, <2>2 DEF Keeps, Idle
  <1> QED BY <1>3, <1>4, <1>5 DEF sendAddressed

LEMMA SendSDCKeeps ==
    ASSUME NEW b, Bus(b), b.paddr \in Nat, NEW o \in sendSDC(b)
    PROVE  Keeps(o.bus, b) /\ o.ok \in BOOLEAN
  <1> DEFINE adr == addressDevice(b, b.paddr, "TOLISTEN")
             sdc(c) == sendCmd(c, "SDC", c.paddr)
             una(c) == UNION {unAddressDevice(d) : d \in Passed(sdc(c))}
  <1>1. ASSUME NEW a \in adr
        PROVE  Bus(a.bus) /\ a.bus.powered = b.powered /\ a.bus.paddr = b.paddr /\ a.ok \in BOOLEAN
               /\ (~a.ok /\ ~HandshakeFaults => Keeps(a.bus, b))
    <2>1. Bus(a.bus) /\ a.bus.powered = b.powered /\ a.bus.paddr = b.paddr /\ a.ok \in BOOLEAN
      BY AddressDeviceLemma
    <2>2. ~a.ok /\ ~HandshakeFaults => Keeps(a.bus, b)
      BY AddressAlone
    <2> QED BY <2>1, <2>2
  <1>2. ASSUME NEW a \in adr, NEW u \in sdc(a.bus)
        PROVE  Bus(u.bus) /\ u.bus.powered = b.powered /\ u.bus.paddr = b.paddr /\ u.ok \in BOOLEAN
               /\ (~u.ok /\ ~HandshakeFaults => Idle(u.bus))
    <2>1. Bus(a.bus) /\ a.bus.powered = b.powered /\ a.bus.paddr = b.paddr
      BY <1>1
    <2>2. Keeps(u.bus, a.bus) /\ u.ok \in BOOLEAN /\ Reliable(u, a.bus)
      BY <2>1, OtherKeeps DEF OtherCommands
    <2>3. ~u.ok /\ ~HandshakeFaults => u.bus.powered = {}
      BY <2>2 DEF Keeps, Reliable
    <2> QED BY <2>1, <2>2, <2>3, DarkLemma DEF Keeps
  <1>3. CASE \E a \in Failed(adr) : o = [bus |-> a.bus, ok |-> FALSE, to |-> {}]
    <2>1. PICK a \in adr : ~a.ok /\ o.bus = a.bus /\ o.ok = FALSE
      BY <1>3 DEF Failed
    <2> QED BY <1>1, <2>1 DEF Keeps
  <1>4. CASE \E a \in adr : \E u \in Failed(sdc(a.bus)) \cup una(a.bus) :
                o.bus = u.bus /\ o.ok = u.ok
    <2>0. PICK a \in adr : \E u \in Failed(sdc(a.bus)) \cup una(a.bus) :
              o.bus = u.bus /\ o.ok = u.ok
      BY <1>4
    <2>1. PICK u \in Failed(sdc(a.bus)) \cup una(a.bus) : o.bus = u.bus /\ o.ok = u.ok
      BY <2>0
    <2>2. CASE u \in Failed(sdc(a.bus))
      <3>1. u \in sdc(a.bus) /\ ~u.ok
        BY <2>2 DEF Failed
      <3> QED BY <1>2, <2>1, <3>1 DEF Keeps, Idle
    <2>3. CASE u \in una(a.bus)
      <3>1. PICK d \in sdc(a.bus) : u \in unAddressDevice(d.bus)
        BY <2>3 DEF Passed
      <3>2. Bus(d.bus) /\ d.bus.powered = b.powered /\ d.bus.paddr = b.paddr
        BY <1>2
      <3>3. Keeps(u.bus, d.bus) /\ u.ok \in BOOLEAN /\ (~HandshakeFaults => Idle(u.bus))
        BY <3>1, <3>2, UnaddressKeeps
      <3> QED BY <2>1, <3>2, <3>3 DEF Keeps, Idle
    <2> QED BY <2>1, <2>2, <2>3
  <1>5. \/ \E a \in Failed(adr) : o = [bus |-> a.bus, ok |-> FALSE, to |-> {}]
        \/ \E c \in Passed(adr) : \E u \in Failed(sdc(c)) \cup una(c) :
              o = [bus |-> u.bus, ok |-> u.ok, to |-> c.listeners]
    BY DEF sendSDC
  <1>6. ASSUME NEW c \in Passed(adr), NEW u \in Failed(sdc(c)) \cup una(c),
               o = [bus |-> u.bus, ok |-> u.ok, to |-> c.listeners]
        PROVE  \E a \in adr : \E v \in Failed(sdc(a.bus)) \cup una(a.bus) :
                  o.bus = v.bus /\ o.ok = v.ok
    <2>1. PICK a \in adr : c = a.bus
      BY DEF Passed
    <2>2. o.bus = u.bus /\ o.ok = u.ok
      BY <1>6
    <2> QED BY <2>1, <2>2
  <1> QED BY <1>3, <1>4, <1>5, <1>6

LEMMA ForgottenKeeps ==
    ASSUME NEW b, Bus(b), NEW cmd \in {"UNL", "UNT"}, NEW o \in Forgotten(b, cmd)
    PROVE  Keeps(o.bus, b) /\ o.ok \in BOOLEAN
  <1>1. ASSUME NEW u \in sendCmd(b, cmd, NoDevice) PROVE Keeps(u.bus, b) /\ u.ok \in BOOLEAN
    BY OtherKeeps
  <1>2. CASE o \in Failed(sendCmd(b, cmd, NoDevice))
    BY <1>1, <1>2 DEF Failed
  <1>3. CASE o \in {Outcome([c EXCEPT !.deviceAddressed = "TONONE"], TRUE) :
                       c \in Passed(sendCmd(b, cmd, NoDevice))}
    <2>1. PICK u \in sendCmd(b, cmd, NoDevice) :
             o = Outcome([u.bus EXCEPT !.deviceAddressed = "TONONE"], TRUE)
      BY <1>3 DEF Passed
    <2> DEFINE c == [u.bus EXCEPT !.deviceAddressed = "TONONE"]
    <2>2. Keeps(u.bus, b)
      BY <1>1
    <2>3. /\ Bus(c) /\ c.powered = u.bus.powered /\ c.paddr = u.bus.paddr
          /\ c.listeners = u.bus.listeners
          /\ c.talkers = u.bus.talkers /\ c.deviceAddressed = "TONONE"
      BY <2>2 DEF Keeps, Bus, Buses, Directions
    <2>4. o.bus = c /\ o.ok = TRUE
      BY <2>1, OutcomeLemma
    <2> HIDE DEF c
    <2>5. Keeps(c, u.bus)
      BY <2>3 DEF Keeps, Alone, Deaf, Mute
    <2> QED BY <2>2, <2>4, <2>5, KeepsLemma
  <1> QED BY <1>2, <1>3 DEF Forgotten

(* A handler's end.                                                        *)
LEMMA ThenIdleKeeps ==
    ASSUME NEW b, NEW S, \A o \in S : Keeps(o.bus, b), NEW c \in ThenIdle(S)
    PROVE  Keeps(c, b)
  <1>1. CASE c \in After(Failed(S))
    BY <1>1 DEF After, Failed
  <1>2. CASE \E d \in Passed(S) : c = setControls(d, "CIDS")
    <2>1. PICK d \in Passed(S) : c = setControls(d, "CIDS")
      BY <1>2
    <2>2. Keeps(d, b)
      BY DEF Passed
    <2>3. Keeps(c, d)
      BY <2>1, <2>2, ControlsKeep DEF Keeps, ControlStates
    <2> QED BY <2>2, <2>3, KeepsLemma
  <1> QED BY <1>1, <1>2 DEF ThenIdle

(* A read: what it is from, and an idle bus after it.                      *)
LEMMA ReceivedKeeps ==
    ASSUME NEW b, Bus(b), NEW r \in Received(b)
    PROVE  Keeps(r.bus, b) /\ r.from = b.talkers /\ (~HandshakeFaults => Idle(r.bus))
  <1>0. PICK d \in receiveData(b, FALSE) :
           \E c \in After(unAddressDevice(d.bus)) : r = [bus |-> c, from |-> d.data.from]
    BY DEF Received
  <1>1. PICK o \in unAddressDevice(d.bus) : r.bus = o.bus /\ r.from = d.data.from
    BY <1>0 DEF After
  <1>2. Bus(d.bus) /\ Same(d.bus, b) /\ d.data.from = b.talkers
    BY ReceiveDataLemma
  <1>3. Keeps(d.bus, b)
    BY <1>2, ShrinkKeeps DEF Same
  <1>4. Keeps(o.bus, d.bus) /\ (~HandshakeFaults => Idle(o.bus))
    BY <1>2, UnaddressKeeps
  <1> QED BY <1>1, <1>2, <1>3, <1>4, KeepsLemma

LEMMA AddressAndReadLemma ==
    ASSUME NEW b, Bus(b), NEW pri \in Nat, NEW r \in AddressAndRead(b, pri)
    PROVE  /\ Keeps(r.bus, b) /\ r.from \subseteq Instruments
           /\ ~HandshakeFaults => Idle(r.bus)
           /\ ~HandshakeFaults /\ (pri <= 30 \/ Mute(b)) => r.from \subseteq {pri}
  <1>1. PICK a \in addressDevice(b, pri, "TOTALK") : r \in Received(a.bus)
    BY DEF AddressAndRead, After
  <1>2. Bus(a.bus) /\ a.bus.powered = b.powered /\ a.bus.paddr = b.paddr
    BY AddressDeviceLemma
  <1>3. Keeps(r.bus, a.bus) /\ r.from = a.bus.talkers /\ (~HandshakeFaults => Idle(r.bus))
    BY <1>1, <1>2, ReceivedKeeps
  <1>4. ~HandshakeFaults /\ (pri <= 30 \/ Mute(b)) => a.bus.talkers \subseteq {pri}
    BY AddressAlone
  <1>5. a.bus.talkers \subseteq Instruments
    BY <1>2 DEF Bus, Buses
  <1> QED BY <1>2, <1>3, <1>4, <1>5 DEF Keeps, Idle

-----------------------------------------------------------------------------
(* The loops over the targets of a command.                                *)

Outcomes == [bus : Buses, ok : BOOLEAN]
IsOutcome(o) == o = Outcome(o.bus, o.ok)

LEMMA SendCmdShape ==
    ASSUME NEW b, NEW cmd, NEW p, NEW o \in sendCmd(b, cmd, p)
    PROVE  IsOutcome(o)
  BY DEF sendCmd, Outcome, IsOutcome

LEMMA AddressShape ==
    ASSUME NEW b, NEW pri, NEW o \in addressDevice(b, pri, "TOLISTEN")
    PROVE  IsOutcome(o)
  <1> DEFINE unl == sendCmd(b, "UNL", pri)
             unt == UNION {sendCmd(c, "UNT", pri) : c \in Passed(unl)}
             adr == UNION {sendCmd(c, "LAD", pri) : c \in Passed(unt)}
  <1>1. o \in unl \cup unt \cup adr \/ \E c, ok : o = Outcome(c, ok)
    <2>1. CASE pri > 30
      BY <2>1 DEF addressDevice
    <2>2. CASE ~(pri > 30)
      <3>1. \/ o \in Failed(unl) \cup Failed(unt) \cup Failed(adr)
            \/ \E c : o = Outcome([c EXCEPT !.deviceAddressed = "TOLISTEN"], TRUE)
        BY <2>2 DEF addressDevice
      <3> HIDE DEF unl, unt, adr
      <3> QED BY <3>1 DEF Failed
    <2> QED BY <2>1, <2>2
  <1>2. \A u \in unl \cup unt \cup adr : IsOutcome(u)
    <2>1. \A u \in unl : IsOutcome(u)
      BY SendCmdShape
    <2>2. \A u \in unt : IsOutcome(u)
      BY SendCmdShape
    <2>3. \A u \in adr : IsOutcome(u)
      BY SendCmdShape
    <2> QED BY <2>1, <2>2, <2>3
  <1>3. ASSUME NEW c, NEW ok, o = Outcome(c, ok) PROVE IsOutcome(o)
    BY <1>3 DEF Outcome, IsOutcome
  <1> QED BY <1>1, <1>2, <1>3

LEMMA SendAddressedShape ==
    ASSUME NEW b, NEW pri, NEW cmd, NEW o \in sendAddressed(b, pri, cmd)
    PROVE  IsOutcome(o)
  <1> DEFINE adr == addressDevice(b, pri, "TOLISTEN")
             sent == UNION {sendCmd(c, cmd, pri) : c \in Passed(adr)}
  <1>1. o \in adr \cup sent \/ \E c : o \in unAddressDevice(c)
    BY DEF sendAddressed, Failed
  <1>2. \A u \in adr \cup sent : IsOutcome(u)
    BY AddressShape, SendCmdShape
  <1>3. ASSUME NEW c, o \in unAddressDevice(c) PROVE IsOutcome(o)
    <2> DEFINE unt == sendCmd(c, "UNT", NoDevice)
               unl == UNION {sendCmd(d, "UNL", NoDevice) : d \in Passed(unt)}
    <2>1. \A u \in unt \cup unl : IsOutcome(u)
      BY SendCmdShape
    <2>2. o \in unt \cup unl \/ \E d : o = Outcome(d, TRUE)
      BY <1>3 DEF unAddressDevice, Failed
    <2>3. ASSUME NEW d, o = Outcome(d, TRUE) PROVE IsOutcome(o)
      BY <2>3 DEF Outcome, IsOutcome
    <2> QED BY <2>1, <2>2, <2>3
  <1> QED BY <1>1, <1>2, <1>3

LEMMA TriggeredKeeps ==
    ASSUME NEW b, Bus(b), NEW targets \in Seq(Nat), NEW o \in Triggered(b, targets)
    PROVE  Keeps(o.bus, b) /\ o.ok \in BOOLEAN
  <1> DEFINE n == Len(targets)
             step(s, k) ==
                Failed(s) \cup UNION {sendAddressed(c, targets[k], "GET") : c \in Passed(s)}
             base == {Outcome(b, TRUE)}
             Good == {u \in Outcomes : Keeps(u.bus, b)}
             V == SUBSET Good
             F == [x \in V \X (1..n) |-> step(x[1], x[2])]
             Works(f) == f = [k \in 0..n |-> IF k = 0 THEN base ELSE step(f[k - 1], k)]
             after == CHOOSE f : Works(f)
  <1>1. n \in Nat /\ base \in V
    <2>1. Keeps(b, b)
      BY DEF Keeps
    <2> QED BY <2>1 DEF Outcome, Outcomes, Bus
  <1>2. ASSUME NEW s \in V, NEW k \in 1..n PROVE step(s, k) \in V
    <2>1. targets[k] \in Nat
      OBVIOUS
    <2>2. ASSUME NEW c \in Passed(s), NEW u \in sendAddressed(c, targets[k], "GET")
          PROVE  u \in Good
      <3>1. Keeps(c, b)
        BY DEF Passed
      <3>2. IsOutcome(u) /\ Keeps(u.bus, c) /\ u.ok \in BOOLEAN
        BY <2>1, <3>1, SendAddressedKeeps, SendAddressedShape DEF Keeps, OtherCommands
      <3>3. Keeps(u.bus, b)
        BY <3>1, <3>2, KeepsLemma
      <3> QED BY <3>2, <3>3 DEF IsOutcome, Outcome, Outcomes, Keeps, Bus
    <2>3. Failed(s) \subseteq Good
      BY DEF Failed
    <2> HIDE DEF Good
    <2> QED BY <2>2, <2>3
  <1>3. Triggered(b, targets) = after[n]
    BY DEF Triggered
  <1> HIDE DEF step, base, V, n
  <1>4. F \in [V \X (1..n) -> V]
    BY <1>2
  <1> HIDE DEF F
  <1>5. PICK g \in [0..n -> V] : Iterates(g, n, base, F)
    BY <1>1, <1>4, LoopExists, Zenon
  <1>6. Works(g)
    <2>1. ASSUME NEW k \in 1..n PROVE g[k] = step(g[k - 1], k)
      <3>1. <<g[k - 1], k>> \in V \X (1..n)
        BY <1>1
      <3>2. F[<<g[k - 1], k>>] = step(g[k - 1], k)
        BY <3>1 DEF F
      <3> QED BY <1>5, <3>2 DEF Iterates
    <2>2. g = [k \in 0..n |-> g[k]] /\ g[0] = base
      BY <1>5 DEF Iterates
    <2>3. \A k \in 0..n : g[k] = IF k = 0 THEN base ELSE step(g[k - 1], k)
      <3> SUFFICES ASSUME NEW k \in 0..n
                   PROVE  g[k] = IF k = 0 THEN base ELSE step(g[k - 1], k)
        OBVIOUS
      <3>1. k = 0 \/ k \in 1..n
        BY <1>1
      <3> QED BY <2>1, <2>2, <3>1
    <2> DEFINE h == [k \in 0..n |-> IF k = 0 THEN base ELSE step(g[k - 1], k)]
    <2>4. h = [k \in 0..n |-> h[k]] /\ \A k \in 0..n : g[k] = h[k]
      BY <2>3
    <2>5. g = h
      <3> HIDE DEF h
      <3> QED BY <2>2, <2>4, SameFunction
    <2> QED BY <2>5
  <1>7. Works(after)
    BY <1>6
  <1> HIDE DEF after
  <1>8. \A k \in 0..n : after[k] \in V
    <2>1. after[0] = base /\ \A k \in 1..n : after[k] = step(after[k - 1], k)
      BY <1>1, <1>7
    <2>2. after[0] \in V /\ \A k \in 1..n : after[k - 1] \in V => after[k] \in V
      BY <1>1, <1>2, <2>1
    <2> QED BY <1>1, <2>2, LoopStays
  <1>9. o \in Good
    BY <1>1, <1>3, <1>8 DEF V
  <1> QED BY <1>9 DEF Outcomes
(* Looking for a device addresses one, to listen.                          *)
ListensOn(c, b) ==
    /\ Bus(c) /\ c.powered = b.powered /\ c.paddr = b.paddr
    /\ ~HandshakeFaults => /\ Alone(b) => Alone(c)
                           /\ Mute(b) => Mute(c)

LEMMA SoughtKeeps ==
    ASSUME NEW b, Bus(b), NEW targets \in Seq(Nat), NEW o \in Sought(b, targets)
    PROVE  ListensOn(o.bus, b) /\ o.ok \in BOOLEAN
  <1> DEFINE n == Len(targets)
             step(s, k) ==
                 IF targets[k] = cfg.caddr THEN s
                 ELSE Failed(s)
                        \cup UNION {addressDevice(c, targets[k], "TOLISTEN") : c \in Passed(s)}
             base == {Outcome(b, TRUE)}
             Good == {u \in Outcomes : ListensOn(u.bus, b)}
             V == SUBSET Good
             F == [x \in V \X (1..n) |-> step(x[1], x[2])]
             Works(f) == f = [k \in 0..n |-> IF k = 0 THEN base ELSE step(f[k - 1], k)]
             after == CHOOSE f : Works(f)
  <1>1. n \in Nat /\ base \in V
    <2>1. ListensOn(b, b)
      BY DEF ListensOn
    <2> QED BY <2>1 DEF Outcome, Outcomes, Bus
  <1>2. ASSUME NEW s \in V, NEW k \in 1..n PROVE step(s, k) \in V
    <2>1. targets[k] \in Nat
      OBVIOUS
    <2>2. ASSUME NEW c \in Passed(s), NEW u \in addressDevice(c, targets[k], "TOLISTEN")
          PROVE  u \in Good
      <3>1. ListensOn(c, b)
        BY DEF Passed
      <3>2. Bus(u.bus) /\ u.bus.powered = c.powered /\ u.bus.paddr = c.paddr /\ u.ok \in BOOLEAN
        BY <2>1, <3>1, AddressDeviceLemma DEF ListensOn
      <3>3. ~HandshakeFaults => /\ Alone(c) => Alone(u.bus)
                                /\ Mute(c) => Mute(u.bus)
        BY <2>1, <3>1, AddressAlone DEF ListensOn
      <3>4. IsOutcome(u)
        BY AddressShape
      <3>5. ListensOn(u.bus, b)
        BY <3>1, <3>2, <3>3 DEF ListensOn
      <3> QED BY <3>2, <3>4, <3>5 DEF IsOutcome, Outcome, Outcomes, ListensOn, Bus
    <2>3. Failed(s) \subseteq Good
      BY DEF Failed
    <2> HIDE DEF Good
    <2> QED BY <2>2, <2>3
  <1>3. Sought(b, targets) = after[n]
    BY DEF Sought
  <1> HIDE DEF step, base, V, n
  <1>4. F \in [V \X (1..n) -> V]
    BY <1>2
  <1> HIDE DEF F
  <1>5. PICK g \in [0..n -> V] : Iterates(g, n, base, F)
    BY <1>1, <1>4, LoopExists, Zenon
  <1>6. Works(g)
    <2>1. ASSUME NEW k \in 1..n PROVE g[k] = step(g[k - 1], k)
      <3>1. <<g[k - 1], k>> \in V \X (1..n)
        BY <1>1
      <3>2. F[<<g[k - 1], k>>] = step(g[k - 1], k)
        BY <3>1 DEF F
      <3> QED BY <1>5, <3>2 DEF Iterates
    <2>2. g = [k \in 0..n |-> g[k]] /\ g[0] = base
      BY <1>5 DEF Iterates
    <2>3. \A k \in 0..n : g[k] = IF k = 0 THEN base ELSE step(g[k - 1], k)
      <3> SUFFICES ASSUME NEW k \in 0..n
                   PROVE  g[k] = IF k = 0 THEN base ELSE step(g[k - 1], k)
        OBVIOUS
      <3>1. k = 0 \/ k \in 1..n
        BY <1>1
      <3> QED BY <2>1, <2>2, <3>1
    <2> DEFINE h == [k \in 0..n |-> IF k = 0 THEN base ELSE step(g[k - 1], k)]
    <2>4. h = [k \in 0..n |-> h[k]] /\ \A k \in 0..n : g[k] = h[k]
      BY <2>3
    <2>5. g = h
      <3> HIDE DEF h
      <3> QED BY <2>2, <2>4, SameFunction
    <2> QED BY <2>5
  <1>7. Works(after)
    BY <1>6
  <1> HIDE DEF after
  <1>8. \A k \in 0..n : after[k] \in V
    <2>1. after[0] = base /\ \A k \in 1..n : after[k] = step(after[k - 1], k)
      BY <1>1, <1>7
    <2>2. after[0] \in V /\ \A k \in 1..n : after[k - 1] \in V => after[k] \in V
      BY <1>1, <1>2, <2>1
    <2> QED BY <1>1, <2>2, LoopStays
  <1>9. o \in Good
    BY <1>1, <1>3, <1>8 DEF V
  <1> QED BY <1>9 DEF Outcomes

-----------------------------------------------------------------------------
(* The serial poll of a set R of instruments.                              *)

Polls == [bus : Buses, ok : BOOLEAN, polled : SUBSET Instruments, told : SUBSET Instruments,
          over : BOOLEAN]

(* A poll that began on b: without faults it goes on while an instrument   *)
(* is on, those in the serial poll mode are on, and nobody talks or has    *)
(* passed on its status byte that is not in R.                             *)
Polling(s, b, R) ==
    /\ s \in Polls /\ Bus(s.bus)
    /\ s.bus.powered = b.powered /\ s.bus.paddr = b.paddr
    /\ s.bus.deviceAddressed = b.deviceAddressed
    /\ ~HandshakeFaults =>
           /\ b.powered # {} => s.ok
           /\ polled = {} => s.polled \subseteq b.powered
           /\ Mute(b) => s.bus.talkers \subseteq R /\ s.told \subseteq R

(* What an unaddressing command makes of one of the polls in S.            *)
Fewer(t, S) ==
    \E s \in S : /\ t.polled = s.polled /\ (t.ok => s.ok)
                 /\ t.bus.talkers \subseteq s.bus.talkers
                 /\ t.bus.listeners \subseteq s.bus.listeners

LEMMA PollingCommand ==
    ASSUME NEW b, NEW R, NEW S, \A s \in S : Polling(s, b, R),
           NEW cmd \in BusCommands, NEW p, cmd = "TAD" => p \in R,
           NEW t \in PollCommand(S, cmd, p)
    PROVE  /\ Polling(t, b, R)
           /\ cmd = "UNT" /\ t.ok => t.bus.talkers = {}
           /\ cmd = "UNL" /\ t.ok => t.bus.listeners = {}
           /\ cmd = "UNL" \/ cmd = "UNT" => Fewer(t, S)
  <1>1. PICK s \in S : t \in IF ~s.ok THEN {s}
                            ELSE {[s EXCEPT !.bus = o.bus, !.ok = o.ok] :
                                     o \in sendCmd(s.bus, cmd, p)}
    BY DEF PollCommand
  <1>2. CASE ~s.ok
    BY <1>1, <1>2 DEF Fewer
  <1>3. CASE s.ok
    <2>1. PICK o \in sendCmd(s.bus, cmd, p) : t = [s EXCEPT !.bus = o.bus, !.ok = o.ok]
      BY <1>1, <1>3
    <2>2. Polling(s, b, R) /\ Bus(s.bus) /\ s \in Polls
      BY DEF Polling
    <2>3. /\ Bus(o.bus) /\ o.ok \in BOOLEAN /\ o.bus.powered = s.bus.powered
          /\ o.bus.paddr = s.bus.paddr
          /\ o.bus.deviceAddressed = s.bus.deviceAddressed
          /\ ~HandshakeFaults /\ s.bus.powered # {} => o.ok
          /\ cmd = "UNT" /\ o.ok => o.bus.talkers = {}
          /\ cmd = "UNL" /\ o.ok => o.bus.listeners = {}
          /\ o.bus.talkers \subseteq s.bus.talkers \cup {p}
          /\ cmd # "TAD" => o.bus.talkers \subseteq s.bus.talkers
          /\ cmd \notin {"LAD", "TAD"} => o.bus.listeners \subseteq s.bus.listeners
      <3>1. cmd \notin {"LAD", "TAD"} => Shrinks(o.bus, s.bus)
        BY <2>2, SendCmdLemma
      <3>2. cmd = "LAD" => o.bus.talkers = s.bus.talkers
        BY <2>2, SendCmdLemma
      <3>3. cmd # "TAD" => o.bus.talkers \subseteq s.bus.talkers
        BY <3>1, <3>2 DEF Shrinks
      <3> QED BY <2>2, <3>1, <3>3, SendCmdLemma DEF Shrinks
    <2>4. /\ t \in Polls /\ t.bus = o.bus /\ t.ok = o.ok /\ t.polled = s.polled
          /\ t.told = s.told
      BY <2>1, <2>2, <2>3 DEF Polls, Bus
    <2>5. s.bus.talkers \subseteq R => o.bus.talkers \subseteq R
      BY <2>3
    <2>6. Polling(t, b, R)
      BY <2>2, <2>3, <2>4, <2>5 DEF Polling
    <2> QED BY <1>3, <2>3, <2>4, <2>6 DEF Fewer
  <1>4. s.ok \in BOOLEAN
    BY DEF Polling, Polls
  <1> QED BY <1>2, <1>3, <1>4

LEMMA PollingMode ==
    ASSUME NEW b, NEW R, NEW S, \A s \in S : Polling(s, b, R), NEW cmd \in {"SPE", "SPD"},
           NEW t \in PollMode(S, cmd)
    PROVE  /\ Polling(t, b, R)
           /\ cmd = "SPD" /\ ~HandshakeFaults /\ polled = {} /\ t.ok => t.polled = {}
  <1> DEFINE left(s, D) == IF cmd = "SPE" THEN s.polled \cup D ELSE s.polled \ D
             took(o) == IF o.ok THEN {o.bus.powered} ELSE SUBSET o.bus.powered
             modes(s, o) ==
                {[s EXCEPT !.bus = o.bus, !.ok = o.ok, !.polled = left(s, D)] : D \in took(o)}
  <1>1. PICK s \in S :
           t \in IF ~s.ok THEN {s} ELSE UNION {modes(s, o) : o \in sendCmd(s.bus, cmd, NoDevice)}
    BY DEF PollMode
  <1>2. CASE ~s.ok
    BY <1>1, <1>2
  <1>3. CASE s.ok
    <2>1. PICK o \in sendCmd(s.bus, cmd, NoDevice) : t \in modes(s, o)
      <3> HIDE DEF modes
      <3> QED BY <1>1, <1>3
    <2>2. PICK D \in took(o) : t = [s EXCEPT !.bus = o.bus, !.ok = o.ok, !.polled = left(s, D)]
      BY <2>1
    <2>3. Polling(s, b, R) /\ Bus(s.bus) /\ s \in Polls
      BY DEF Polling
    <2>4. /\ Bus(o.bus) /\ o.ok \in BOOLEAN /\ o.bus.powered = s.bus.powered
          /\ o.bus.paddr = s.bus.paddr
          /\ o.bus.deviceAddressed = s.bus.deviceAddressed
          /\ ~HandshakeFaults /\ s.bus.powered # {} => o.ok
          /\ o.bus.talkers \subseteq s.bus.talkers
      <3>1. Keeps(o.bus, s.bus) /\ o.ok \in BOOLEAN /\ Reliable(o, s.bus)
        <4>1. cmd \in OtherCommands \cup {"UNL", "UNT"} /\ Bus(s.bus)
          BY <2>3 DEF OtherCommands
        <4> QED BY <2>3, <4>1, OtherKeeps
      <3>2. Shrinks(o.bus, s.bus) /\ o.bus.deviceAddressed = s.bus.deviceAddressed
        <4>1. cmd \in BusCommands /\ cmd \notin {"LAD", "TAD"}
          BY DEF BusCommands, OtherCommands
        <4> QED BY <2>3, <4>1, SendCmdLemma
      <3> QED BY <3>1, <3>2 DEF Keeps, Reliable, Shrinks
    <2>5. D \subseteq b.powered /\ (o.ok => D = b.powered) /\ b.powered \subseteq Instruments
      BY <2>3, <2>4 DEF Polling, Bus, Buses
    <2>6. /\ left(s, D) \subseteq Instruments
          /\ s.polled \subseteq b.powered => left(s, D) \subseteq b.powered
          /\ cmd = "SPD" /\ s.polled \subseteq b.powered /\ o.ok => left(s, D) = {}
      BY <2>3, <2>5 DEF Polls
    <2> HIDE DEF left
    <2>7. /\ t \in Polls /\ t.bus = o.bus /\ t.ok = o.ok /\ t.polled = left(s, D)
          /\ t.told = s.told
      BY <2>2, <2>3, <2>4, <2>6 DEF Polls, Bus
    <2>8. Polling(t, b, R)
      BY <2>3, <2>4, <2>6, <2>7 DEF Polling
    <2> QED BY <2>3, <2>6, <2>7, <2>8 DEF Polling
  <1>4. s.ok \in BOOLEAN
    BY DEF Polling, Polls
  <1> QED BY <1>2, <1>3, <1>4

(* One target of the loop.                                                 *)
LEMMA PollingAnswer ==
    ASSUME NEW s, NEW b, NEW R, Polling(s, b, R),
           NEW c, Bus(c), c.powered = s.bus.powered, c.paddr = s.bus.paddr,
           c.talkers = s.bus.talkers,
           c.deviceAddressed = s.bus.deviceAddressed
    PROVE  /\ Polling([s EXCEPT !.bus = c], b, R)
           /\ \A D \in SUBSET s.bus.talkers : \A x \in BOOLEAN :
                 Polling([s EXCEPT !.bus = c, !.told = D, !.over = x], b, R)
  <1>1. c \in Buses /\ s \in Polls /\ s.bus.talkers \subseteq Instruments
    BY DEF Polling, Bus, Buses
  <1>2. ASSUME NEW u, u = [s EXCEPT !.bus = c] PROVE Polling(u, b, R)
    <2>1. u \in Polls /\ u.bus = c /\ u.ok = s.ok /\ u.polled = s.polled /\ u.told = s.told
      BY <1>1, <1>2 DEF Polls
    <2> QED BY <2>1 DEF Polling
  <1>3. ASSUME NEW D \in SUBSET s.bus.talkers, NEW x \in BOOLEAN,
               NEW u, u = [s EXCEPT !.bus = c, !.told = D, !.over = x]
        PROVE  Polling(u, b, R)
    <2>1. u \in Polls /\ u.bus = c /\ u.ok = s.ok /\ u.polled = s.polled /\ u.told = D
      BY <1>1, <1>3 DEF Polls
    <2> QED BY <2>1 DEF Polling
  <1> QED BY <1>2, <1>3

LEMMA PollingOne ==
    ASSUME NEW b, NEW R, NEW S, \A s \in S : Polling(s, b, R), NEW a \in R, NEW all,
           NEW t \in PollOne(S, a, all)
    PROVE  Polling(t, b, R)
  <1> DEFINE asked == {s \in S : s.ok /\ ~s.over /\ a # cfg.caddr}
             heard(s) == s.bus.talkers \cap s.polled
             found(s) == heard(s) \cap (IF all THEN srq ELSE Instruments)
             answered(s) == [s EXCEPT !.bus = setControls(s.bus, "CTAS"),
                                      !.told = found(s), !.over = found(s) # {}]
             silent(s) == [s EXCEPT !.bus = setControls(s.bus, "CLAS")]
  <1>1. CASE t \in S
    BY <1>1
  <1>2. CASE \E s \in TalkAddress(asked, a) : t \in {s, answered(s), silent(s)}
    <2>1. PICK s \in TalkAddress(asked, a) : t \in {s, answered(s), silent(s)}
      BY <1>2
    <2>2. Polling(s, b, R)
      BY PollingCommand DEF TalkAddress, BusCommands, AddressCommands
    <2>3. ASSUME NEW state \in ControlStates
          PROVE  Bus(setControls(s.bus, state))
                 /\ setControls(s.bus, state).powered = s.bus.powered
                 /\ setControls(s.bus, state).paddr = s.bus.paddr
                 /\ setControls(s.bus, state).talkers = s.bus.talkers
                 /\ setControls(s.bus, state).deviceAddressed = s.bus.deviceAddressed
      BY <2>2, SetControlsLemma DEF Polling
    <2>4. found(s) \subseteq s.bus.talkers /\ found(s) \subseteq Instruments
      BY <2>2 DEF Polling, Polls
    <2>5. Polling(answered(s), b, R)
      <3>1. "CTAS" \in ControlStates
        BY DEF ControlStates
      <3> HIDE DEF found
      <3> QED BY <2>2, <2>3, <2>4, <3>1, PollingAnswer
    <2>6. Polling(silent(s), b, R)
      <3>1. "CLAS" \in ControlStates
        BY DEF ControlStates
      <3> QED BY <2>2, <2>3, <3>1, PollingAnswer
    <2> QED BY <2>1, <2>2, <2>5, <2>6
  <1>3. t \in S \/ \E s \in TalkAddress(asked, a) : t \in {s, answered(s), silent(s)}
    BY DEF PollOne
  <1> QED BY <1>1, <1>2, <1>3

LEMMA PollingTargets ==
    ASSUME NEW b, NEW targets, NEW n \in Nat, n = Len(targets), NEW R,
           \A k \in 1..n : targets[k] \in R,
           NEW S, \A s \in S : Polling(s, b, R), NEW all, NEW t \in PollTargets(S, targets, all)
    PROVE  Polling(t, b, R)
  <1> DEFINE step(s, k) == PollOne(s, targets[k], all)
             base == S
             V == SUBSET {s \in Polls : Polling(s, b, R)}
             F == [x \in V \X (1..n) |-> step(x[1], x[2])]
             Works(f) == f = [k \in 0..n |-> IF k = 0 THEN base ELSE step(f[k - 1], k)]
             after == CHOOSE f : Works(f)
  <1>1. n \in Nat /\ base \in V
    BY DEF Polling
  <1>2. ASSUME NEW s \in V, NEW k \in 1..n PROVE step(s, k) \in V
    <2>1. \A u \in step(s, k) : Polling(u, b, R)
      BY PollingOne
    <2> QED BY <2>1 DEF Polling
  <1>3. PollTargets(S, targets, all) = after[n]
    BY DEF PollTargets
  <1> HIDE DEF step, base, V
  <1>4. F \in [V \X (1..n) -> V]
    BY <1>2
  <1> HIDE DEF F
  <1>5. PICK g \in [0..n -> V] : Iterates(g, n, base, F)
    BY <1>1, <1>4, LoopExists, Zenon
  <1>6. Works(g)
    <2>1. ASSUME NEW k \in 1..n PROVE g[k] = step(g[k - 1], k)
      <3>1. <<g[k - 1], k>> \in V \X (1..n)
        BY <1>1
      <3>2. F[<<g[k - 1], k>>] = step(g[k - 1], k)
        BY <3>1 DEF F
      <3> QED BY <1>5, <3>2 DEF Iterates
    <2>2. g = [k \in 0..n |-> g[k]] /\ g[0] = base
      BY <1>5 DEF Iterates
    <2>3. \A k \in 0..n : g[k] = IF k = 0 THEN base ELSE step(g[k - 1], k)
      <3> SUFFICES ASSUME NEW k \in 0..n
                   PROVE  g[k] = IF k = 0 THEN base ELSE step(g[k - 1], k)
        OBVIOUS
      <3>1. k = 0 \/ k \in 1..n
        BY <1>1
      <3> QED BY <2>1, <2>2, <3>1
    <2> DEFINE h == [k \in 0..n |-> IF k = 0 THEN base ELSE step(g[k - 1], k)]
    <2>4. h = [k \in 0..n |-> h[k]] /\ \A k \in 0..n : g[k] = h[k]
      BY <2>3
    <2>5. g = h
      <3> HIDE DEF h
      <3> QED BY <2>2, <2>4, SameFunction
    <2> QED BY <2>5
  <1>7. Works(after)
    BY <1>6
  <1> HIDE DEF after
  <1>8. \A k \in 0..n : after[k] \in V
    <2>1. after[0] = base /\ \A k \in 1..n : after[k] = step(after[k - 1], k)
      BY <1>1, <1>7
    <2>2. after[0] \in V /\ \A k \in 1..n : after[k - 1] \in V => after[k] \in V
      BY <1>1, <1>2, <2>1
    <2> QED BY <1>1, <2>2, LoopStays
  <1> QED BY <1>1, <1>3, <1>8 DEF V

(* The whole poll: only a target passes on its status byte, and it leaves  *)
(* nobody addressed and no instrument in the serial poll mode.             *)
LEMMA SerialPollLemma ==
    ASSUME NEW b, Bus(b), polled \subseteq Instruments, NEW targets \in Seq(Nat), NEW all,
           NEW s \in SerialPoll(b, targets, all)
    PROVE  /\ Keeps(s.bus, b) /\ s.polled \subseteq Instruments /\ s.told \subseteq Instruments
           /\ ~HandshakeFaults /\ polled = {} => s.polled = {}
           /\ ~HandshakeFaults /\ Mute(b) => s.told \subseteq Range(targets)
  <1> DEFINE R == Range(targets)
             start == {Poll(b)}
             unl1 == PollCommand(start, "UNL", NoDevice)
             hearing == PollCommand(unl1, "LAD", cfg.caddr)
             asked == PollMode(hearing, "SPE")
             done == PollTargets(asked, targets, all)
             ended == PollMode(done, "SPD")
             unt == PollCommand(ended, "UNT", NoDevice)
             left == PollCommand(unt, "UNL", NoDevice)
             Over(t) == ~HandshakeFaults /\ polled = {} /\ t.ok => t.polled = {}
             Still(t) == t.ok => t.bus.talkers = {}
             Quiet(t) == t.ok => t.bus.listeners = {}
  <1> HIDE DEF R
  <1>0. "UNL" \in BusCommands /\ "UNT" \in BusCommands /\ "LAD" \in BusCommands
    BY DEF BusCommands, AddressCommands
  <1>1. \A t \in start : Polling(t, b, R)
    <2> SUFFICES Polling(Poll(b), b, R)
      OBVIOUS
    <2> DEFINE u == Poll(b)
    <2>1. u \in Polls /\ u.bus = b /\ u.ok /\ u.polled = polled /\ u.told = {}
      BY DEF Poll, Polls, Bus
    <2> HIDE DEF u
    <2>2. Polling(u, b, R)
      BY <2>1 DEF Polling, Mute
    <2> QED BY <2>2 DEF u
  <1> HIDE DEF start
  <1>2. \A t \in unl1 : Polling(t, b, R)
    BY <1>0, <1>1, PollingCommand
  <1> HIDE DEF unl1
  <1>3. \A t \in hearing : Polling(t, b, R)
    BY <1>0, <1>2, PollingCommand
  <1> HIDE DEF hearing
  <1>4. \A t \in asked : Polling(t, b, R)
    BY <1>3, PollingMode
  <1> HIDE DEF asked
  <1>5. \A t \in done : Polling(t, b, R)
    <2>1. \A k \in 1..Len(targets) : targets[k] \in R
      BY DEF Range, R
    <2>2. Len(targets) \in Nat
      OBVIOUS
    <2> QED BY <1>4, <2>1, <2>2, PollingTargets
  <1> HIDE DEF done
  <1>6. \A t \in ended : Polling(t, b, R) /\ Over(t)
    BY <1>5, PollingMode
  <1> HIDE DEF ended
  <1>7. \A t \in unt : Polling(t, b, R) /\ Over(t) /\ Still(t)
    <2> SUFFICES ASSUME NEW t \in unt PROVE Polling(t, b, R) /\ Over(t) /\ Still(t)
      OBVIOUS
    <2>1. \A r \in ended : Polling(r, b, R)
      BY <1>6
    <2>2. Polling(t, b, R) /\ (t.ok => t.bus.talkers = {}) /\ Fewer(t, ended)
      BY <1>0, <2>1, PollingCommand
    <2> QED BY <1>6, <2>2 DEF Fewer
  <1> HIDE DEF unt
  <1>8. \A t \in left : Polling(t, b, R) /\ Over(t) /\ Still(t) /\ Quiet(t)
    <2> SUFFICES ASSUME NEW t \in left PROVE Polling(t, b, R) /\ Over(t) /\ Still(t) /\ Quiet(t)
      OBVIOUS
    <2>1. \A r \in unt : Polling(r, b, R)
      BY <1>7
    <2>2. Polling(t, b, R) /\ (t.ok => t.bus.listeners = {}) /\ Fewer(t, unt)
      BY <1>0, <2>1, PollingCommand
    <2> QED BY <1>7, <2>2 DEF Fewer
  <1>9. SerialPoll(b, targets, all)
          = {IF t.ok THEN [t EXCEPT !.bus = setControls(@, "CIDS")] ELSE t : t \in left}
    BY DEF SerialPoll, left, unt, ended, done, asked, hearing, unl1, start
  <1> HIDE DEF left
  <1>10. PICK t \in left : s = IF t.ok THEN [t EXCEPT !.bus = setControls(@, "CIDS")] ELSE t
    BY <1>9
  <1> DEFINE c == setControls(t.bus, "CIDS")
  <1>11. Polling(t, b, R) /\ Bus(t.bus) /\ t \in Polls
    BY <1>8 DEF Polling
  <1>12. /\ Bus(c) /\ c.powered = t.bus.powered /\ c.paddr = t.bus.paddr
         /\ c.talkers = t.bus.talkers
         /\ c.listeners = t.bus.listeners /\ c.deviceAddressed = t.bus.deviceAddressed
    BY <1>11, SetControlsLemma DEF ControlStates
  <1> HIDE DEF c, Over, Still, Quiet
  <1>13. /\ s.bus \in {c, t.bus} /\ s.ok = t.ok /\ s.polled = t.polled /\ s.told = t.told
    BY <1>10, <1>11 DEF Polls, c
  <1>14. CASE t.ok
    <2>1. /\ Bus(s.bus) /\ s.bus.powered = b.powered /\ s.bus.paddr = b.paddr /\ s.bus.talkers = {}
          /\ s.bus.listeners = {} /\ s.bus.deviceAddressed = b.deviceAddressed
      BY <1>8, <1>11, <1>12, <1>13, <1>14 DEF Polling, Still, Quiet
    <2>2. Keeps(s.bus, b)
      BY <2>1, ShrinkKeeps
    <2> QED BY <1>8, <1>11, <1>13, <1>14, <2>2 DEF Polling, Polls, R, Over
  <1>15. CASE ~t.ok
    <2>1. ~HandshakeFaults => b.powered = {}
      BY <1>11, <1>15 DEF Polling
    <2>2. Bus(s.bus) /\ s.bus.powered = b.powered /\ s.bus.paddr = b.paddr
      BY <1>11, <1>12, <1>13 DEF Polling
    <2>3. Keeps(s.bus, b)
      BY <2>1, <2>2, DarkLemma DEF Keeps, Idle
    <2> QED BY <1>11, <1>13, <2>1, <2>3 DEF Polling, Polls, R
  <1> QED BY <1>14, <1>15

-----------------------------------------------------------------------------
(* The command handlers.                                                   *)

ParserOK == Held(parser) /\ input \in Seq(Chars) /\ lnRdy \in 0..3
LoopOK ==
    /\ macro \in Seq(Seq(Chars))
    /\ pc \in DOMAIN Following \cup {"running", "reply"}
Settled(b) == Bus(b) /\ b.paddr \in 0..30 \cup {NoDevice}
StateOK ==
    /\ Settled(bus)
    /\ cfg \in [amode : 0..3, caddr : {Caddr, 0}]
    /\ flags \in [autoRead : BOOLEAN, isQuery : BOOLEAN, isSrqa : BOOLEAN]
    /\ runMacro \in 0..Len(Macros)
    /\ polled \subseteq Instruments /\ srq \subseteq Instruments

(* What a step does to the addressing, when no command is lost.            *)
StaysAlone == ~HandshakeFaults /\ Alone(bus) => Alone(bus')
StaysDeaf == ~HandshakeFaults /\ (clean => Deaf(bus)) => (clean' => Deaf(bus'))
StaysMute == ~HandshakeFaults /\ Mute(bus) => Mute(bus')
StaysUnpolled == ~HandshakeFaults /\ polled = {} => polled' = {}
ReadsNamed == ~HandshakeFaults /\ Mute(bus) => \A t \in moved' : t.from \subseteq t.named
SendsNoLine == \A t \in moved' : t.op # "data"
Decent == StateOK' /\ StaysAlone /\ StaysDeaf /\ StaysUnpolled /\ ReadsNamed

(* The handlers that only keep the bus.                                    *)
LEMMA OnlyBusLemma ==
    ASSUME StateOK, NEW S, \A b \in S : Keeps(b, bus), OnlyBus(S)
    PROVE  Decent /\ StaysMute /\ SendsNoLine
  <1>1. PICK b \in S : Only(b)
    BY DEF OnlyBus
  <1>2. /\ bus' = b /\ cfg' = cfg /\ flags' = flags /\ runMacro' = runMacro
        /\ polled' = polled /\ srq' = srq /\ clean' = clean
    BY <1>1 DEF Only
  <1>3. Keeps(bus', bus) /\ moved' = {}
    BY <1>2 DEF OnlyBus
  <1>4. StateOK'
    BY <1>2, <1>3 DEF StateOK, Settled, Keeps
  <1>5. StaysAlone /\ StaysDeaf /\ StaysMute /\ StaysUnpolled
    BY <1>2, <1>3 DEF Keeps, StaysAlone, StaysDeaf, StaysMute, StaysUnpolled
  <1>6. ReadsNamed /\ SendsNoLine
    BY <1>3 DEF ReadsNamed, SendsNoLine
  <1> QED BY <1>4, <1>5, <1>6 DEF Decent

LEMMA NothingKeeps ==
    ASSUME StateOK
    PROVE  \A b \in {bus} : Keeps(b, bus)
  BY DEF StateOK, Settled, Keeps

LEMMA PaddrLemma ==
    ASSUME StateOK
    PROVE  Bus(bus) /\ bus.paddr \in Nat /\ (bus.paddr <= 30 \/ bus.paddr = NoDevice)
  <1>1. Bus(bus) /\ bus.paddr \in 0..30 \cup {NoDevice}
    BY DEF StateOK, Settled
  <1> QED BY <1>1 DEF NoDevice

LEMMA KeepingHandlers ==
    ASSUME StateOK, NEW n \in Seq(Nat), NEW all,
           clr_h \/ dcl_h \/ unlisten_h \/ untalk_h \/ ppoll_h \/ llo_h(all) \/ loc_h(all)
             \/ trg_h(n) \/ repeat_h \/ Nothing
    PROVE  \E S : (\A b \in S : Keeps(b, bus)) /\ OnlyBus(S)
  <1>1. Bus(bus) /\ bus.paddr \in Nat
    BY PaddrLemma
  <1>2. "CIDS" \in ControlStates
    BY DEF ControlStates
  <1>3. CASE clr_h
    <2>1. \A o \in sendSDC(bus) : Keeps(o.bus, bus)
      BY <1>1, SendSDCKeeps
    <2>2. \A b \in ThenIdle(sendSDC(bus)) : Keeps(b, bus)
      BY <2>1, ThenIdleKeeps
    <2> QED BY <1>3, <2>2 DEF clr_h
  <1>4. CASE dcl_h
    <2> DEFINE S == sendCmd(bus, "DCL", NoDevice)
    <2>1. \A o \in S : Keeps(o.bus, bus)
      BY <1>1, OtherKeeps DEF OtherCommands
    <2>2. \A b \in ThenIdle(S) : Keeps(b, bus)
      BY <2>1, ThenIdleKeeps
    <2> QED BY <1>4, <2>2 DEF dcl_h
  <1>5. CASE unlisten_h
    <2>1. \A o \in Forgotten(bus, "UNL") : Keeps(o.bus, bus)
      BY <1>1, ForgottenKeeps
    <2>2. \A b \in ThenIdle(Forgotten(bus, "UNL")) : Keeps(b, bus)
      BY <2>1, ThenIdleKeeps
    <2> QED BY <1>5, <2>2 DEF unlisten_h
  <1>6. CASE untalk_h
    <2>1. \A o \in Forgotten(bus, "UNT") : Keeps(o.bus, bus)
      BY <1>1, ForgottenKeeps
    <2>2. \A b \in ThenIdle(Forgotten(bus, "UNT")) : Keeps(b, bus)
      BY <2>1, ThenIdleKeeps
    <2> QED BY <1>6, <2>2 DEF untalk_h
  <1>7. CASE ppoll_h
    <2>1. \A b \in {setControls(bus, "CIDS")} : Keeps(b, bus)
      BY <1>1, <1>2, ControlsKeep
    <2> QED BY <1>7, <2>1 DEF ppoll_h
  <1>8. ASSUME NEW S, \A o \in S : Keeps(o.bus, bus)
        PROVE  \A b \in {setControls(c, "CIDS") : c \in After(S)} : Keeps(b, bus)
    <2> SUFFICES ASSUME NEW o \in S PROVE Keeps(setControls(o.bus, "CIDS"), bus)
      BY DEF After
    <2>1. Keeps(o.bus, bus) /\ Bus(o.bus)
      BY <1>8 DEF Keeps
    <2> QED BY <1>2, <2>1, ControlsKeep, KeepsLemma
  <1>9. CASE llo_h(all)
    <2> DEFINE S == IF all THEN sendCmd(bus, "LLO", NoDevice)
                    ELSE sendAddressed(bus, bus.paddr, "LLO")
    <2>1. \A o \in S : Keeps(o.bus, bus)
      BY <1>1, OtherKeeps, SendAddressedKeeps DEF OtherCommands
    <2>2. OnlyBus({setControls(c, "CIDS") : c \in After(S)})
      BY <1>9 DEF llo_h
    <2> QED BY <1>8, <2>1, <2>2
  <1>10. CASE loc_h(all)
    <2> DEFINE S == sendAddressed(bus, bus.paddr, "GTL")
    <2>1. \A o \in S : Keeps(o.bus, bus)
      BY <1>1, SendAddressedKeeps DEF OtherCommands
    <2>2. OnlyBus({bus}) \/ OnlyBus({setControls(c, "CIDS") : c \in After(S)})
      BY <1>10 DEF loc_h, Nothing
    <2> QED BY <1>8, <2>1, <2>2, NothingKeeps
  <1>11. CASE trg_h(n)
    <2> DEFINE targets == IF n = <<>> THEN <<bus.paddr>> ELSE n
    <2>1. targets \in Seq(Nat)
      BY <1>1
    <2> HIDE DEF targets
    <2>2. \A o \in Triggered(bus, targets) : Keeps(o.bus, bus)
      BY <1>1, <2>1, TriggeredKeeps
    <2>3. \A b \in ThenIdle(Triggered(bus, targets)) : Keeps(b, bus)
      BY <2>2, ThenIdleKeeps
    <2> QED BY <1>11, <2>3 DEF trg_h, targets
  <1>12. CASE repeat_h
    <2> DEFINE S == UNION {{r.bus : r \in receiveData(d.bus, FALSE)} : d \in sendData(bus, 1, TRUE)}
    <2>1. ASSUME NEW d \in sendData(bus, 1, TRUE), NEW r \in receiveData(d.bus, FALSE)
          PROVE  Keeps(r.bus, bus)
      <3>1. Bus(d.bus) /\ Same(d.bus, bus)
        BY <1>1, SendDataLemma
      <3>2. Bus(r.bus) /\ Same(r.bus, d.bus)
        BY <3>1, ReceiveDataLemma
      <3> QED BY <3>1, <3>2, ShrinkKeeps DEF Same
    <2>2. \A b \in S : Keeps(b, bus)
      BY <2>1
    <2> QED BY <1>12, <2>2 DEF repeat_h
  <1>13. CASE Nothing
    BY <1>13, NothingKeeps DEF Nothing
  <1> QED BY <1>3, <1>4, <1>5, <1>6, <1>7, <1>9, <1>10, <1>11, <1>12, <1>13

With(b, pri, eoi, eos) == [b EXCEPT !.paddr = pri, !.eoi = eoi, !.eos = eos]
NoWider(c, b) ==
    /\ Settled(c) /\ c.powered = b.powered /\ c.deviceAddressed = b.deviceAddressed
    /\ c.listeners \subseteq b.listeners /\ c.talkers \subseteq b.talkers

LEMMA SetPaddr ==
    ASSUME NEW b, Settled(b), NEW pri \in 0..30, NEW eoi \in BOOLEAN, NEW eos \in 0..3
    PROVE  NoWider(With(b, pri, eoi, eos), b)
  <1> DEFINE c == With(b, pri, eoi, eos)
  <1>1. pri \in Addresses \cup {NoDevice}
    BY DEF Addresses
  <1>2. b \in Buses
    BY DEF Settled, Bus
  <1>3. /\ c \in Buses /\ c.paddr = pri
        /\ c.listeners = b.listeners /\ c.talkers = b.talkers /\ c.powered = b.powered
        /\ c.deviceAddressed = b.deviceAddressed
    BY <1>1, <1>2 DEF Buses, With
  <1> HIDE DEF c
  <1>4. NoWider(c, b)
    BY <1>3 DEF Settled, Bus, NoWider
  <1> QED BY <1>4 DEF c

(* Those that store a setting, and the interface clear.                    *)
LEMMA SettingHandlers ==
    ASSUME StateOK, NEW n \in Seq(Nat),
           \/ addr_h(n) \/ default_h \/ ifc_h
           \/ amode_h(n) /\ n[1] \in 0..3
           \/ srqa_h(n)
           \/ macro_h(n) /\ n[1] \in 0..Len(Macros)
    PROVE  Decent /\ StaysMute /\ SendsNoLine
  <1>1. Bus(bus) /\ Settled(bus)
    BY DEF StateOK, Settled
  <1> DEFINE flagTypes == [autoRead : BOOLEAN, isQuery : BOOLEAN, isSrqa : BOOLEAN]
             cfgTypes == [amode : 0..3, caddr : {Caddr, 0}]
             c == [bus EXCEPT !.paddr = n[1]]
             d == setDefaultCfg(bus)
             i == IFC(bus)
  <1>2. NoWider(d, bus)
    <2>1. 1 \in 0..30 /\ FALSE \in BOOLEAN /\ 0 \in 0..3
      OBVIOUS
    <2>2. d = With(bus, 1, FALSE, 0)
      BY DEF setDefaultCfg, With
    <2> QED BY <1>1, <2>1, <2>2, SetPaddr
  <1>3. NoWider(i, bus)
    BY <1>1 DEF IFC, Bus, Buses, Settled, NoWider
  <1>4. n[1] \in 0..30 => NoWider(c, bus)
    <2>1. bus.eoi \in BOOLEAN /\ bus.eos \in 0..3 /\ bus \in Buses
      BY <1>1 DEF Bus, Buses
    <2>2. c = With(bus, n[1], bus.eoi, bus.eos)
      BY <2>1 DEF Buses, With
    <2>3. n[1] \in 0..30 => NoWider(With(bus, n[1], bus.eoi, bus.eos), bus)
      BY <1>1, <2>1, SetPaddr
    <2> QED BY <2>2, <2>3
  <1> HIDE DEF c, d, i
  <1>5. /\ moved' = {} /\ clean' = clean /\ srq' = srq
        /\ polled' = polled \/ polled' = {}
    BY DEF addr_h, OnlyBus, Only, default_h, ifc_h, amode_h, srqa_h, macro_h
  <1>6. bus' \in {bus, d, i} \/ (n[1] \in 0..30 /\ bus' = c)
    BY DEF addr_h, OnlyBus, Only, default_h, ifc_h, amode_h, srqa_h, macro_h, c, d, i
  <1>7. cfg' \in cfgTypes
    BY DEF addr_h, OnlyBus, Only, default_h, ifc_h, amode_h, srqa_h, macro_h, StateOK
  <1>8. flags' \in flagTypes
    BY DEF addr_h, OnlyBus, Only, default_h, ifc_h, amode_h, srqa_h, macro_h, StateOK
  <1>9. runMacro' \in 0..Len(Macros)
    BY DEF addr_h, OnlyBus, Only, default_h, ifc_h, amode_h, srqa_h, macro_h, StateOK
  <1>10. NoWider(bus', bus)
    BY <1>1, <1>2, <1>3, <1>4, <1>6 DEF NoWider
  <1>11. StateOK'
    BY <1>5, <1>7, <1>8, <1>9, <1>10 DEF StateOK, NoWider
  <1>12. StaysAlone /\ StaysDeaf /\ StaysMute
    BY <1>5, <1>10 DEF StaysAlone, StaysDeaf, StaysMute, Alone, Deaf, Mute, NoWider
  <1>13. StaysUnpolled /\ ReadsNamed /\ SendsNoLine
    BY <1>5 DEF StaysUnpolled, ReadsNamed, SendsNoLine
  <1> QED BY <1>11, <1>12, <1>13 DEF Decent

LEMMA ReadingLemma ==
    ASSUME NEW op, NEW named, NEW from
    PROVE  LET t == Reading(op, named, from)
           IN  t.op = op /\ t.named = named /\ t.from = from
  BY DEF Reading

LEMMA SpollHandler ==
    ASSUME StateOK, NEW op \in {"poll", "autopoll"}, NEW targets \in Seq(Nat), NEW all,
           spoll_h(op, targets, all)
    PROVE  Decent /\ StaysMute /\ SendsNoLine
  <1>1. PICK s \in SerialPoll(bus, targets, all) :
           /\ bus' = s.bus /\ polled' = s.polled /\ srq' = srq \ s.told
           /\ moved' = {Reading(op, Range(targets), s.told)}
           /\ UNCHANGED <<cfg, flags, runMacro, clean>>
    BY DEF spoll_h
  <1>2. Bus(bus) /\ polled \subseteq Instruments
    BY DEF StateOK, Settled
  <1>3. /\ Keeps(s.bus, bus) /\ s.polled \subseteq Instruments /\ s.told \subseteq Instruments
        /\ ~HandshakeFaults /\ polled = {} => s.polled = {}
        /\ ~HandshakeFaults /\ Mute(bus) => s.told \subseteq Range(targets)
    BY <1>2, SerialPollLemma
  <1>4. Keeps(bus', bus)
    BY <1>1, <1>3
  <1>5. StateOK'
    BY <1>1, <1>3, <1>4 DEF StateOK, Settled, Keeps
  <1>6. StaysAlone /\ StaysDeaf /\ StaysMute /\ StaysUnpolled
    BY <1>1, <1>3, <1>4 DEF Keeps, StaysAlone, StaysDeaf, StaysMute, StaysUnpolled
  <1>7. \A t \in moved' : t.op = op /\ t.named = Range(targets) /\ t.from = s.told
    BY <1>1, ReadingLemma
  <1>8. ReadsNamed /\ SendsNoLine
    BY <1>3, <1>7 DEF ReadsNamed, SendsNoLine
  <1> QED BY <1>5, <1>6, <1>8 DEF Decent

LEMMA FndlHandler ==
    ASSUME StateOK, NEW n \in Seq(Nat), fndl_h(n)
    PROVE  Decent /\ StaysMute /\ SendsNoLine
  <1>1. PICK o \in Sought(bus, n) : bus' = setControls(o.bus, "CIDS")
    BY DEF fndl_h, After
  <1>2. /\ ~clean' /\ moved' = {}
        /\ UNCHANGED <<cfg, flags, runMacro, polled, srq>>
    BY DEF fndl_h
  <1>3. Bus(bus)
    BY DEF StateOK, Settled
  <1>4. ListensOn(o.bus, bus)
    BY <1>3, SoughtKeeps
  <1>5. Keeps(bus', o.bus)
    <2>1. Bus(o.bus) /\ "CIDS" \in ControlStates
      BY <1>4 DEF ListensOn, ControlStates
    <2> QED BY <1>1, <2>1, ControlsKeep
  <1>6. ListensOn(bus', bus)
    BY <1>4, <1>5 DEF ListensOn, Keeps
  <1>7. StateOK'
    BY <1>2, <1>6 DEF StateOK, Settled, ListensOn
  <1>8. StaysAlone /\ StaysDeaf /\ StaysMute /\ StaysUnpolled /\ ReadsNamed /\ SendsNoLine
    BY <1>2, <1>6 DEF ListensOn, StaysAlone, StaysDeaf, StaysMute, StaysUnpolled, ReadsNamed,
                      SendsNoLine
  <1> QED BY <1>7, <1>8 DEF Decent

(* ++read leaves somebody addressed to talk when the loop goes on reading. *)
LEMMA ReadHandler ==
    ASSUME StateOK, NEW n \in Seq(Nat), read_h(n)
    PROVE  /\ Decent /\ SendsNoLine
           /\ StaysMute \/ (flags'.autoRead /\ cfg'.amode = 3)
  <1> DEFINE pri == IF n = <<>> THEN bus.paddr ELSE n[1]
             talking == IF bus.deviceAddressed = "TOTALK" THEN {bus}
                        ELSE After(addressDevice(bus, pri, "TOTALK"))
  <1>1. Bus(bus) /\ pri \in Nat
    BY PaddrLemma
  <1> HIDE DEF pri
  <1>2. ASSUME NEW b \in talking
        PROVE  /\ Bus(b) /\ b.powered = bus.powered /\ b.paddr = bus.paddr
               /\ ~HandshakeFaults => /\ Alone(bus) => Alone(b)
                                      /\ Deaf(bus) => Deaf(b)
                                      /\ Mute(bus) => b.talkers \subseteq {pri}
    <2>1. CASE b = bus
      BY <1>1, <2>1 DEF Mute
    <2>2. CASE b \in After(addressDevice(bus, pri, "TOTALK"))
      <3>1. PICK o \in addressDevice(bus, pri, "TOTALK") : b = o.bus
        BY <2>2 DEF After
      <3>2. Bus(b) /\ b.powered = bus.powered /\ b.paddr = bus.paddr
        BY <1>1, <3>1, AddressDeviceLemma
      <3>3. ~HandshakeFaults => /\ Alone(bus) => Alone(b)
                                /\ Deaf(bus) => Deaf(b)
                                /\ Mute(bus) => b.talkers \subseteq {pri}
        BY <1>1, <3>1, AddressAlone
      <3> QED BY <3>2, <3>3
    <2> QED BY <2>1, <2>2
  <1>3. CASE cfg.amode = 3
    <2>1. /\ bus' \in talking
          /\ flags' = [flags EXCEPT !.autoRead = TRUE]
          /\ moved' = {} /\ UNCHANGED <<cfg, runMacro, polled, srq, clean>>
      BY <1>3 DEF read_h, pri
    <2>2. flags' \in [autoRead : BOOLEAN, isQuery : BOOLEAN, isSrqa : BOOLEAN] /\ flags'.autoRead
      BY <2>1 DEF StateOK
    <2> HIDE DEF talking
    <2>3. StateOK'
      BY <1>2, <2>1, <2>2 DEF StateOK, Settled
    <2>4. StaysAlone /\ StaysDeaf /\ StaysUnpolled /\ ReadsNamed /\ SendsNoLine
      BY <1>2, <2>1 DEF StaysAlone, StaysDeaf, StaysUnpolled, ReadsNamed, SendsNoLine
    <2> QED BY <1>3, <2>1, <2>2, <2>3, <2>4 DEF Decent
  <1>4. CASE cfg.amode # 3
    <2>0. PICK b \in talking : \E r \in Received(b) :
             Only(r.bus) /\ moved' = {Reading("read", {pri}, r.from)}
      BY <1>4 DEF read_h, pri
    <2>1. PICK r \in Received(b) : Only(r.bus) /\ moved' = {Reading("read", {pri}, r.from)}
      BY <2>0
    <2> HIDE DEF talking
    <2>2. /\ bus' = r.bus
          /\ UNCHANGED <<cfg, flags, runMacro, polled, srq, clean>>
      BY <2>1 DEF Only
    <2>3. /\ Keeps(r.bus, b) /\ r.from = b.talkers
          /\ ~HandshakeFaults => Idle(r.bus)
      BY <1>2, ReceivedKeeps
    <2>4. StateOK'
      BY <1>2, <2>2, <2>3 DEF StateOK, Settled, Keeps
    <2>5. StaysAlone /\ StaysDeaf /\ StaysMute /\ StaysUnpolled
      BY <2>2, <2>3 DEF Idle, StaysAlone, StaysDeaf, StaysMute, StaysUnpolled
    <2>6. \A t \in moved' : t.op = "read" /\ t.named = {pri} /\ t.from = r.from
      BY <2>1, ReadingLemma
    <2>7. ReadsNamed /\ SendsNoLine
      BY <1>2, <2>3, <2>6 DEF ReadsNamed, SendsNoLine
    <2> QED BY <2>4, <2>5, <2>7 DEF Decent
  <1> QED BY <1>3, <1>4

LEMMA SendingLemma ==
    ASSUME NEW op, NEW named, NEW data, NEW cut
    PROVE  LET t == Sending(op, named, data, cut)
           IN  t.op = op /\ t.named = named /\ t.to = data.to /\ t.from = {}
  BY DEF Sending

LEMMA SendHandler ==
    ASSUME StateOK, NEW n \in Seq(Nat), n # <<>>, NEW query \in BOOLEAN, send_h(n, query)
    PROVE  Decent /\ StaysMute /\ SendsNoLine
  <1> DEFINE pri == n[1]
             asked == flags.isQuery \/ query
             adr == addressDevice(bus, pri, "TOLISTEN")
             out(d) == Sending("send", {pri}, d.data, FALSE)
  <1>1. Bus(bus) /\ pri \in Nat
    <2>1. 1 \in 1..Len(n)
      OBVIOUS
    <2> QED BY <2>1, PaddrLemma
  <1>2. CASE pri = cfg.caddr
    <2>1. OnlyBus({bus})
      BY <1>2 DEF send_h, Nothing
    <2> QED BY <2>1, NothingKeeps, OnlyBusLemma
  <1>3. CASE pri # cfg.caddr
    <2>1. PICK d \in UNION {sendData(b, 1, TRUE) : b \in After(adr)} :
             IF Replies(asked)
             THEN \E r \in AddressAndRead(d.bus, pri) :
                      bus' = r.bus /\ moved' = {out(d), Reading("read", {pri}, r.from)}
             ELSE bus' = d.bus /\ moved' = {out(d)}
      BY <1>3 DEF send_h
    <2>2. /\ flags' = [flags EXCEPT !.isQuery = asked /\ ~Replies(asked)]
          /\ ~clean' /\ UNCHANGED <<cfg, runMacro, polled, srq>>
      BY <1>3 DEF send_h
    <2>3. flags' \in [autoRead : BOOLEAN, isQuery : BOOLEAN, isSrqa : BOOLEAN]
      <3> HIDE DEF asked
      <3>1. (asked /\ ~Replies(asked)) \in BOOLEAN
        OBVIOUS
      <3> QED BY <2>2, <3>1 DEF StateOK
    <2>4. PICK a \in adr : d \in sendData(a.bus, 1, TRUE)
      BY DEF After
    <2>5. ListensOn(a.bus, bus)
      <3>1. Bus(a.bus) /\ a.bus.powered = bus.powered /\ a.bus.paddr = bus.paddr
        BY <1>1, AddressDeviceLemma
      <3>2. ~HandshakeFaults => (Alone(bus) => Alone(a.bus)) /\ (Mute(bus) => Mute(a.bus))
        BY <1>1, AddressAlone
      <3> QED BY <3>1, <3>2 DEF ListensOn
    <2>6. ListensOn(d.bus, bus)
      <3>1. Bus(d.bus) /\ Same(d.bus, a.bus)
        BY <2>4, <2>5, SendDataLemma DEF ListensOn
      <3> QED BY <2>5, <3>1 DEF ListensOn, Same, Alone, Mute
    <2> HIDE DEF asked, pri
    <2>7. out(d).op = "send" /\ out(d).from = {}
      BY DEF Sending
    <2> HIDE DEF out
    <2>8. CASE Replies(asked)
      <3>1. PICK r \in AddressAndRead(d.bus, pri) :
               bus' = r.bus /\ moved' = {out(d), Reading("read", {pri}, r.from)}
        BY <2>1, <2>8
      <3>2. /\ Keeps(r.bus, d.bus)
            /\ ~HandshakeFaults /\ Mute(d.bus) => r.from \subseteq {pri}
        BY <1>1, <2>6, AddressAndReadLemma DEF ListensOn
      <3>3. ListensOn(bus', bus)
        BY <2>6, <3>1, <3>2 DEF ListensOn, Keeps
      <3>4. \A t \in moved' : t.op # "data" /\ (t.from = {} \/ (t.from = r.from /\ t.named = {pri}))
        BY <2>7, <3>1, ReadingLemma
      <3>5. ReadsNamed /\ SendsNoLine
        BY <2>6, <3>2, <3>4 DEF ReadsNamed, SendsNoLine, ListensOn
      <3> QED BY <2>2, <2>3, <3>3, <3>5 DEF Decent, StateOK, Settled, ListensOn,
                                          StaysAlone, StaysDeaf, StaysMute, StaysUnpolled
    <2>9. CASE ~Replies(asked)
      <3>1. bus' = d.bus /\ moved' = {out(d)}
        BY <2>1, <2>9
      <3>2. ReadsNamed /\ SendsNoLine
        BY <2>7, <3>1 DEF ReadsNamed, SendsNoLine
      <3> QED BY <2>2, <2>3, <2>6, <3>1, <3>2 DEF Decent, StateOK, Settled, ListensOn, StaysAlone,
                                          StaysDeaf, StaysMute, StaysUnpolled
    <2> QED BY <2>8, <2>9
  <1> QED BY <1>2, <1>3

(* The words for ++read.                                                   *)
ReadWords == {w \in DOMAIN Commands : Commands[w].op = "read"}

LEMMA HandlerLemma ==
    ASSUME StateOK, NEW w \in DOMAIN Commands, handler(Commands[w])
    PROVE  /\ Decent /\ SendsNoLine
           /\ StaysMute \/ (w \in ReadWords /\ flags'.autoRead /\ cfg'.amode = 3)
  <1> DEFINE c == Commands[w]
  <1>1. /\ c.n \in Seq(Nat) /\ c.query \in BOOLEAN
        /\ c.op \in {"auto", "macro", "send"} => c.n # <<>>
        /\ c.op = "auto" => c.n[1] \in 0..3
        /\ c.op = "macro" => c.n[1] \in 0..Len(Macros)
    BY CommandTypes
  <1>2. bus.paddr \in Nat
    BY PaddrLemma
  <1>3. c.op = "read" => w \in ReadWords
    BY DEF ReadWords
  <1> HIDE DEF c
  <1>4. CASE \/ clr_h \/ dcl_h \/ unlisten_h \/ untalk_h \/ ppoll_h \/ llo_h(c.all)
             \/ loc_h(c.all) \/ trg_h(c.n) \/ repeat_h
    <2>1. \E S : (\A b \in S : Keeps(b, bus)) /\ OnlyBus(S)
      BY <1>1, <1>4, KeepingHandlers
    <2> QED BY <2>1, OnlyBusLemma
  <1>5. CASE \/ addr_h(c.n) \/ default_h \/ ifc_h
             \/ amode_h(c.n) /\ c.n[1] \in 0..3
             \/ srqa_h(c.n)
             \/ macro_h(c.n) /\ c.n[1] \in 0..Len(Macros)
    BY <1>1, <1>5, SettingHandlers
  <1>6. CASE fndl_h(c.n)
    BY <1>1, <1>6, FndlHandler
  <1>7. CASE read_h(c.n) /\ c.op = "read"
    BY <1>1, <1>3, <1>7, ReadHandler
  <1>8. CASE send_h(c.n, c.query) /\ c.op = "send"
    BY <1>1, <1>8, SendHandler
  <1>9. CASE spoll_h("poll", IF c.n = <<>> THEN <<bus.paddr>> ELSE c.n, c.all)
    <2>1. (IF c.n = <<>> THEN <<bus.paddr>> ELSE c.n) \in Seq(Nat)
      BY <1>1, <1>2
    <2> QED BY <1>9, <2>1, SpollHandler
  <1>10. handler(c)
    BY DEF c
  <1> QED BY <1>1, <1>4, <1>5, <1>6, <1>7, <1>8, <1>9, <1>10 DEF handler

(* A command line, and what is left of it.                                 *)
LEMMA CommandLemma ==
    ASSUME StateOK, NEW buf, getCmd(buf)
    PROVE  /\ Decent /\ SendsNoLine
           /\ StaysMute \/ (/\ Len(buf) = 3 /\ buf[3] \in ReadWords
                           /\ flags'.autoRead /\ cfg'.amode = 3)
  <1>1. CASE Len(buf) = 3 /\ buf[3] \in DOMAIN Commands
    BY <1>1, HandlerLemma DEF getCmd
  <1>2. CASE ~(Len(buf) = 3 /\ buf[3] \in DOMAIN Commands)
    <2>1. OnlyBus({bus})
      BY <1>2 DEF getCmd, Nothing
    <2> QED BY <2>1, NothingKeeps, OnlyBusLemma
  <1> QED BY <1>1, <1>2

-----------------------------------------------------------------------------
(* Data for the instrument.                                                *)

StraysOnce ==
    ~HandshakeFaults /\ (clean => Deaf(bus)) =>
        \A t \in moved' : t.op = "data" /\ clean => t.to = t.named \cap bus.powered

(* Who hears a line: the driver addresses the instrument at cfg.paddr       *)
(* unless it believes that somebody is already listening.                  *)
LEMMA HeardLemma ==
    ASSUME StateOK, ~HandshakeFaults, Deaf(bus), NEW b,
           \/ b = bus /\ bus.deviceAddressed = "TOLISTEN"
           \/ b \in After(addressDevice(bus, bus.paddr, "TOLISTEN"))
    PROVE  b.listeners = {bus.paddr} \cap bus.powered
  <1>1. Bus(bus) /\ bus.paddr \in Nat /\ (bus.paddr <= 30 \/ bus.paddr = NoDevice)
    BY PaddrLemma
  <1>2. CASE b = bus /\ bus.deviceAddressed = "TOLISTEN"
    BY <1>2 DEF Deaf
  <1>3. CASE b \in After(addressDevice(bus, bus.paddr, "TOLISTEN"))
    <2>1. PICK o \in addressDevice(bus, bus.paddr, "TOLISTEN") : b = o.bus
      BY <1>3 DEF After
    <2>2. CASE bus.paddr > 30
      <3>1. o.bus = bus
        BY <1>1, <2>2, AddressDeviceLemma
      <3>2. bus.paddr \notin bus.powered
        BY <1>1, <2>2, InstrumentsAssumption DEF Bus, Buses
      <3> QED BY <2>1, <3>1, <3>2 DEF Deaf
    <2>3. CASE bus.paddr <= 30
      <3>1. /\ Bus(o.bus) /\ o.bus.powered = bus.powered /\ Reliable(o, bus) /\ o.ok \in BOOLEAN
            /\ o.ok => NoneBut(o.bus, bus.paddr)
            /\ o.ok => (bus.paddr \in bus.powered => bus.paddr \in o.bus.listeners)
        BY <1>1, <2>3, AddressDeviceLemma
      <3>2. o.bus.listeners \subseteq bus.powered
        BY <3>1 DEF Bus
      <3>3. CASE o.ok
        BY <2>1, <3>1, <3>2, <3>3 DEF NoneBut
      <3>4. CASE ~o.ok
        BY <2>1, <3>1, <3>2, <3>4 DEF Reliable
      <3> QED BY <3>1, <3>3, <3>4
    <2> QED BY <1>1, <2>2, <2>3
  <1> QED BY <1>2, <1>3

LEMMA LineLemma ==
    ASSUME StateOK, Held(parser), NEW buf \in Seq(Chars), sendToInstrument(buf)
    PROVE  /\ Decent /\ StaysMute /\ StraysOnce
           /\ Held(parser') /\ lnRdy' = 0
  <1> DEFINE S == IF bus.deviceAddressed = "TOLISTEN" THEN {bus}
                  ELSE After(addressDevice(bus, bus.paddr, "TOLISTEN"))
             out(d) == Sending("data", {bus.paddr}, d.data, parser.dataBufferFull)
             Gone(b, d, e) == /\ bus' = e
                              /\ moved' = {out(d)}
                              /\ IF parser.dataBufferFull THEN e = d.bus
                                 ELSE e \in After(unAddressDevice(d.bus))
  <1>1. Bus(bus) /\ bus.paddr \in Nat
    BY PaddrLemma
  <1>2. PICK b \in S : \E d \in sendData(b, Len(buf), TRUE) : \E e : Gone(b, d, e)
    BY DEF sendToInstrument
  <1>3. PICK d \in sendData(b, Len(buf), TRUE) : \E e : Gone(b, d, e)
    BY <1>2
  <1>4. PICK e : Gone(b, d, e)
    BY <1>3
  <1>5. /\ clean' = ~parser.dataBufferFull
        /\ parser' = [flushPbuf(parser) EXCEPT !.dataBufferFull = FALSE]
        /\ lnRdy' = 0 /\ UNCHANGED <<cfg, runMacro, polled, srq>>
    BY DEF sendToInstrument
  <1>6. flags' \in [autoRead : BOOLEAN, isQuery : BOOLEAN, isSrqa : BOOLEAN]
    <2>1. PICK q \in EndsQuery(buf) : flags' = [flags EXCEPT !.isQuery = @ \/ q]
      BY DEF sendToInstrument
    <2>2. (flags.isQuery \/ q) \in BOOLEAN
      OBVIOUS
    <2> DEFINE asked == flags.isQuery \/ q
    <2>3. flags' = [flags EXCEPT !.isQuery = asked] /\ asked \in BOOLEAN
      BY <2>1, <2>2
    <2> HIDE DEF asked
    <2> QED BY <2>3 DEF StateOK
  <1>7. Held(parser')
    BY <1>5, FlushedHeld DEF Held
  <1>8. ListensOn(b, bus)
    <2>1. CASE b = bus
      BY <1>1, <2>1 DEF ListensOn
    <2>2. CASE b \in After(addressDevice(bus, bus.paddr, "TOLISTEN"))
      <3>1. PICK a \in addressDevice(bus, bus.paddr, "TOLISTEN") : b = a.bus
        BY <2>2 DEF After
      <3>2. Bus(b) /\ b.powered = bus.powered /\ b.paddr = bus.paddr
        BY <1>1, <3>1, AddressDeviceLemma
      <3>3. ~HandshakeFaults => (Alone(bus) => Alone(b)) /\ (Mute(bus) => Mute(b))
        BY <1>1, <3>1, AddressAlone
      <3> QED BY <3>2, <3>3 DEF ListensOn
    <2> QED BY <2>1, <2>2
  <1>9. ~HandshakeFaults /\ Deaf(bus) => b.listeners = {bus.paddr} \cap bus.powered
    <2>1. \/ b = bus /\ bus.deviceAddressed = "TOLISTEN"
          \/ b \in After(addressDevice(bus, bus.paddr, "TOLISTEN"))
      BY <1>2
    <2> SUFFICES ASSUME ~HandshakeFaults, Deaf(bus)
                 PROVE  b.listeners = {bus.paddr} \cap bus.powered
      OBVIOUS
    <2> HIDE DEF S, Gone
    <2> QED BY <2>1, HeardLemma
  <1> HIDE DEF S
  <1>10. Bus(d.bus) /\ Same(d.bus, b) /\ d.data.to = b.listeners
    <2>1. Bus(b) /\ Len(buf) \in Nat /\ TRUE \in BOOLEAN
      BY <1>8 DEF ListensOn
    <2> HIDE DEF out, Gone
    <2> QED BY <2>1, SendDataLemma
  <1>11. ListensOn(d.bus, bus)
    BY <1>8, <1>10 DEF ListensOn, Same, Alone, Mute
  <1>12. /\ ListensOn(e, bus)
         /\ ~HandshakeFaults /\ ~parser.dataBufferFull => Idle(e)
    <2>1. CASE parser.dataBufferFull
      BY <1>4, <1>11, <2>1
    <2>2. CASE ~parser.dataBufferFull
      <3>1. PICK o \in unAddressDevice(d.bus) : e = o.bus
        BY <1>4, <2>2 DEF After
      <3>2. Keeps(e, d.bus) /\ (~HandshakeFaults => Idle(e))
        BY <1>10, <3>1, UnaddressKeeps
      <3> QED BY <1>11, <3>2 DEF ListensOn, Keeps
    <2> QED BY <2>1, <2>2
  <1>13. out(d).named = {bus.paddr} /\ out(d).to = d.data.to /\ out(d).from = {}
    BY DEF Sending
  <1>14. bus' = e /\ moved' = {out(d)}
    BY <1>4
  <1> HIDE DEF out, Gone
  <1>15. StateOK'
    BY <1>5, <1>6, <1>12, <1>14 DEF StateOK, Settled, ListensOn
  <1>16. StaysAlone /\ StaysDeaf /\ StaysMute /\ StaysUnpolled
    BY <1>5, <1>12, <1>14 DEF StaysAlone, StaysDeaf, StaysMute, StaysUnpolled, ListensOn, Idle
  <1>17. ReadsNamed /\ StraysOnce
    BY <1>9, <1>10, <1>13, <1>14 DEF ReadsNamed, StraysOnce
  <1> QED BY <1>5, <1>7, <1>15, <1>16, <1>17 DEF Decent

-----------------------------------------------------------------------------
(* The steps of the loop.                                                  *)

TypeInv == StateOK /\ ParserOK /\ LoopOK

(* A macro whose lines, none of them empty, do not hold ++read.            *)
Quiet(lines) == \A k \in 1..Len(lines) : lines[k] # <<>> /\ Range(lines[k]) \cap ReadWords = {}
QuietMacros == \A m \in 1..Len(Macros) : Quiet(Macros[m])

(* Nobody is addressed to talk, except from a ++read under ++auto 3 to the *)
(* read in the same pass.                                                  *)
Talking == pc \in {"data", "auto"} /\ flags.autoRead /\ lnRdy = 0 /\ cfg.amode = 3
NobodyTalks == Quiet(macro) /\ (Mute(bus) \/ Talking)

StaysNamed ==
    QuietMacros /\ ~HandshakeFaults /\ NobodyTalks => NobodyTalks' /\ ReadFromNamed'

Sound == TypeInv' /\ StaysAlone /\ StaysDeaf /\ StaysUnpolled /\ StraysOnce /\ StaysNamed

LEMMA FollowingLemma ==
    /\ DOMAIN Following = {"macro", "line", "data", "auto", "srq", "input"}
    /\ Following["macro"] = "line" /\ Following["line"] = "data" /\ Following["data"] = "auto"
    /\ Following["auto"] = "srq" /\ Following["srq"] = "input" /\ Following["input"] = "macro"
  BY DEF Following

LEMMA OnwardLemma ==
    ASSUME pc \in DOMAIN Following, Onward
    PROVE  /\ pc' \in DOMAIN Following
           /\ pc = "line" => pc' = "data"
           /\ pc = "data" => pc' = "auto"
           /\ pc \notin {"line", "data"} => pc' \notin {"data", "auto"}
  BY FollowingLemma DEF Onward

(* A step that does nothing on the bus.                                    *)
LEMMA QuietStep ==
    ASSUME TypeInv, moved' = {}, UNCHANGED <<bus, cfg, polled, clean>>,
           flags' = flags, srq' \in SUBSET Instruments, runMacro' \in 0..Len(Macros),
           ParserOK', LoopOK'
    PROVE  /\ TypeInv' /\ StaysAlone /\ StaysDeaf /\ StaysUnpolled /\ StraysOnce
           /\ ReadFromNamed'
  <1>1. StateOK'
    BY DEF TypeInv, StateOK
  <1>2. StaysAlone /\ StaysDeaf /\ StaysUnpolled /\ StraysOnce /\ ReadFromNamed'
    BY DEF StaysAlone, StaysDeaf, StaysUnpolled, StraysOnce, ReadFromNamed
  <1> QED BY <1>1, <1>2 DEF TypeInv

LEMMA StartMacroStep ==
    ASSUME TypeInv, StartMacro
    PROVE  Sound
  <1>1. /\ pc = "macro" /\ runMacro > 0 /\ macro' = Macros[runMacro] /\ pc' = "running"
        /\ moved' = {}
        /\ UNCHANGED <<bus, cfg, parser, lnRdy, flags, runMacro, input, polled, srq, clean>>
    BY DEF StartMacro
  <1>2. runMacro \in 1..Len(Macros) /\ srq \subseteq Instruments
    BY <1>1, LinesAssumption DEF TypeInv, StateOK
  <1>3. ParserOK' /\ LoopOK'
    <2>1. macro' \in Seq(Seq(Chars))
      BY <1>1, <1>2, LinesAssumption
    <2> QED BY <1>1, <2>1 DEF TypeInv, ParserOK, LoopOK
  <1>4. /\ TypeInv' /\ StaysAlone /\ StaysDeaf /\ StaysUnpolled /\ StraysOnce /\ ReadFromNamed'
    <2>1. runMacro' \in 0..Len(Macros) /\ srq' \in SUBSET Instruments
      BY <1>1, <1>2
    <2> QED BY <1>1, <1>3, <2>1, QuietStep
  <1>5. StaysNamed
    <2>1. QuietMacros => Quiet(macro')
      BY <1>1, <1>2 DEF QuietMacros
    <2> QED BY <1>1, <1>4, <2>1 DEF StaysNamed, NobodyTalks, Talking
  <1> QED BY <1>4, <1>5 DEF Sound

(* As much of a line as there is room for.                                 *)
LEMMA PrefixLemma ==
    ASSUME NEW V, NEW a \in Seq(V), NEW b \in Seq(V), NEW k \in Int, k <= Len(b)
    PROVE  /\ a \o SubSeq(b, 1, k) \in Seq(V)
           /\ k < 0 => a \o SubSeq(b, 1, k) = a
           /\ k >= 0 => Len(a \o SubSeq(b, 1, k)) = Len(a) + k
  <1>1. CASE k < 0
    <2>1. SubSeq(b, 1, k) = <<>>
      BY <1>1
    <2>2. a \o <<>> = a
      OBVIOUS
    <2> QED BY <1>1, <2>1, <2>2
  <1>2. CASE k >= 0
    <2>1. SubSeq(b, 1, k) \in Seq(V) /\ Len(SubSeq(b, 1, k)) = k
      BY <1>2
    <2> QED BY <1>2, <2>1
  <1> QED BY <1>1, <1>2

LEMMA OverflowStep ==
    ASSUME TypeInv, pc = "running", macro # <<>>,
           MacroOverflow(Head(macro), PBSIZE - 1 - Len(parser.pBuf))
    PROVE  Sound
  <1> DEFINE line == Head(macro)
             room == PBSIZE - 1 - Len(parser.pBuf)
             more == parser.pBuf \o SubSeq(line, 1, room)
             p == [parser EXCEPT !.pBuf = more]
  <1>1. /\ Len(line) > room \/ Len(line) = room
        /\ parser' = IF Len(line) = room THEN flushPbuf(parser) ELSE p
        /\ macro' = <<>> /\ runMacro' = 0 /\ pc' = "line" /\ moved' = {}
        /\ UNCHANGED <<bus, cfg, lnRdy, flags, input, polled, srq, clean>>
    BY DEF MacroOverflow
  <1>2. /\ line \in Seq(Chars) /\ parser \in Parsers /\ parser.pBuf \in Seq(Chars)
        /\ Held(parser) /\ Len(parser.pBuf) <= PBSIZE
    BY DEF TypeInv, ParserOK, LoopOK, Held, Parsers
  <1>3. Len(line) > room => Held(p)
    <2> SUFFICES ASSUME Len(line) > room PROVE Held(p)
      OBVIOUS
    <2>0. Len(parser.pBuf) \in Nat /\ PBSIZE \in Nat
      BY <1>2, PBSIZEAssumption
    <2>1. Len(parser.pBuf) \in Nat /\ room \in Int /\ room <= Len(line)
      <3>1. room \in Int
        BY <2>0
      <3>2. Len(line) \in Nat
        BY <1>2
      <3> HIDE DEF room, line
      <3> QED BY <2>0, <3>1, <3>2
    <2>2. /\ more \in Seq(Chars)
          /\ room < 0 => more = parser.pBuf
          /\ room >= 0 => Len(more) = Len(parser.pBuf) + room
      BY <1>2, <2>1, PrefixLemma
    <2>3. p \in Parsers /\ p.pBuf = more /\ p.dataBufferFull = parser.dataBufferFull
      BY <1>2, <2>2 DEF Parsers
    <2> HIDE DEF p, more
    <2>4. CASE room < 0
      BY <1>2, <2>2, <2>3, <2>4 DEF Held
    <2>5. CASE room >= 0
      <3>1. Len(more) = PBSIZE - 1
        BY <2>0, <2>2, <2>5
      <3>2. PBSIZE - 1 <= PBSIZE /\ PBSIZE - 1 # PBSIZE
        BY <2>0
      <3> QED BY <2>3, <3>1, <3>2 DEF Held
    <2> QED BY <2>1, <2>4, <2>5
  <1>4. Held(flushPbuf(parser))
    BY <1>2, FlushedHeld
  <1> HIDE DEF p, room, line
  <1>5. ParserOK' /\ LoopOK'
    <2>1. Held(parser')
      BY <1>1, <1>3, <1>4
    <2>2. macro' \in Seq(Seq(Chars))
      BY <1>1
    <2> QED BY <1>1, <2>1, <2>2, FollowingLemma DEF TypeInv, ParserOK, LoopOK
  <1>6. TypeInv' /\ StaysAlone /\ StaysDeaf /\ StaysUnpolled /\ StraysOnce /\ ReadFromNamed'
    <2>1. runMacro' \in 0..Len(Macros) /\ srq' \in SUBSET Instruments
      BY <1>1, LinesAssumption DEF TypeInv, StateOK
    <2> QED BY <1>1, <1>5, <2>1, QuietStep
  <1>7. StaysNamed
    BY <1>1, <1>6 DEF StaysNamed, NobodyTalks, Talking, Quiet
  <1> QED BY <1>6, <1>7 DEF Sound

LEMMA EndMacroStep ==
    ASSUME TypeInv, EndMacro
    PROVE  Sound
  <1>1. /\ pc = "running" /\ parser' = flushPbuf(parser) /\ runMacro' = 0 /\ pc' = "line"
        /\ moved' = {}
        /\ UNCHANGED <<bus, cfg, lnRdy, flags, macro, input, polled, srq, clean>>
    BY DEF EndMacro
  <1>2. ParserOK' /\ LoopOK'
    <2>1. Held(parser')
      BY <1>1, FlushedHeld DEF TypeInv, ParserOK, Held
    <2> QED BY <1>1, <2>1, FollowingLemma DEF TypeInv, ParserOK, LoopOK
  <1>3. TypeInv' /\ StaysAlone /\ StaysDeaf /\ StaysUnpolled /\ StraysOnce /\ ReadFromNamed'
    <2>1. runMacro' \in 0..Len(Macros) /\ srq' \in SUBSET Instruments
      BY <1>1, LinesAssumption DEF TypeInv, StateOK
    <2> QED BY <1>1, <1>2, <2>1, QuietStep
  <1>4. StaysNamed
    BY <1>1, <1>3 DEF StaysNamed, NobodyTalks, Talking
  <1> QED BY <1>3, <1>4 DEF Sound

LEMMA TakeInputStep ==
    ASSUME TypeInv, TakeInput
    PROVE  Sound
  <1> DEFINE p == [parser EXCEPT !.sendIdn = FALSE]
             res == serialIn_h(p, input, Idn)
  <1>1. /\ pc = "input" /\ parser' = res.parser /\ lnRdy' = res.r /\ input' = res.rest
        /\ Onward /\ moved' = {}
        /\ UNCHANGED <<bus, cfg, flags, runMacro, macro, polled, srq, clean>>
    BY DEF TakeInput
  <1>2. Held(p) /\ input \in Seq(Chars)
    BY DEF TypeInv, ParserOK, Held, Parsers
  <1> HIDE DEF p
  <1>3. Held(res.parser) /\ res.r \in 0..3 /\ res.rest \in Seq(Chars)
    BY <1>2, SerialInHeld
  <1> HIDE DEF res
  <1>4. pc' \in DOMAIN Following /\ pc' \notin {"data", "auto"}
    BY <1>1, OnwardLemma, FollowingLemma
  <1>5. ParserOK' /\ LoopOK'
    BY <1>1, <1>3, <1>4 DEF TypeInv, ParserOK, LoopOK
  <1>6. TypeInv' /\ StaysAlone /\ StaysDeaf /\ StaysUnpolled /\ StraysOnce /\ ReadFromNamed'
    <2>1. runMacro' \in 0..Len(Macros) /\ srq' \in SUBSET Instruments
      BY <1>1 DEF TypeInv, StateOK
    <2> QED BY <1>1, <1>5, <2>1, QuietStep
  <1>7. StaysNamed
    BY <1>1, <1>6 DEF StaysNamed, NobodyTalks, Talking
  <1> QED BY <1>6, <1>7 DEF Sound

LEMMA SkipStep ==
    ASSUME TypeInv, Skip
    PROVE  Sound
  <1>1. /\ pc \in DOMAIN Following /\ Onward /\ moved' = {}
        /\ UNCHANGED <<bus, cfg, parser, lnRdy, flags, runMacro, macro, input, polled, srq, clean>>
        /\ pc = "auto" => ~(cfg.amode = 3 /\ flags.autoRead /\ lnRdy = 0)
    BY DEF Skip
  <1>2. /\ pc' \in DOMAIN Following
        /\ pc = "data" => pc' = "auto"
    BY <1>1, OnwardLemma
  <1>3. ParserOK' /\ LoopOK'
    BY <1>1, <1>2 DEF TypeInv, ParserOK, LoopOK
  <1>4. TypeInv' /\ StaysAlone /\ StaysDeaf /\ StaysUnpolled /\ StraysOnce /\ ReadFromNamed'
    <2>1. runMacro' \in 0..Len(Macros) /\ srq' \in SUBSET Instruments
      BY <1>1 DEF TypeInv, StateOK
    <2> QED BY <1>1, <1>3, <2>1, QuietStep
  <1>5. StaysNamed
    BY <1>1, <1>2, <1>4 DEF StaysNamed, NobodyTalks, Talking
  <1> QED BY <1>4, <1>5 DEF Sound

LEMMA OutsideStep ==
    ASSUME TypeInv, ClientSends \/ AssertsSRQ
    PROVE  Sound
  <1>1. /\ pc \in {"input", "srq"} /\ moved' = {} /\ srq' \in SUBSET Instruments
        /\ input' \in Typed \cup {input}
        /\ UNCHANGED <<bus, cfg, parser, lnRdy, flags, runMacro, macro, pc, polled, clean>>
    BY DEF ClientSends, AssertsSRQ, TypeInv, StateOK, Settled, Bus, Buses
  <1>2. ParserOK' /\ LoopOK'
    BY <1>1, LinesAssumption DEF TypeInv, ParserOK, LoopOK
  <1>3. TypeInv' /\ StaysAlone /\ StaysDeaf /\ StaysUnpolled /\ StraysOnce /\ ReadFromNamed'
    <2>1. runMacro' \in 0..Len(Macros)
      BY <1>1 DEF TypeInv, StateOK
    <2> QED BY <1>1, <1>2, <2>1, QuietStep
  <1>4. StaysNamed
    BY <1>1, <1>3 DEF StaysNamed, NobodyTalks, Talking
  <1> QED BY <1>3, <1>4 DEF Sound

(* A step that is a command or a line of data.                             *)
LEMMA ReadsNamedLemma ==
    ASSUME ReadsNamed, ~HandshakeFaults, Mute(bus)
    PROVE  ReadFromNamed'
  BY DEF ReadsNamed, ReadFromNamed

LEMMA SendsNoLineLemma ==
    ASSUME SendsNoLine
    PROVE  StraysOnce
  BY DEF SendsNoLine, StraysOnce

LEMMA ExecCmdLemma ==
    ASSUME TypeInv, NEW buf, execCmd(buf)
    PROVE  /\ Decent /\ StraysOnce /\ Held(parser') /\ lnRdy' = 0
           /\ StaysMute \/ (/\ Len(buf) = 3 /\ buf[3] \in ReadWords
                           /\ flags'.autoRead /\ cfg'.amode = 3)
  <1>1. getCmd(buf) /\ parser' = flushPbuf(parser) /\ lnRdy' = 0
    BY DEF execCmd
  <1>2. StateOK /\ parser \in Parsers
    BY DEF TypeInv, ParserOK, Held
  <1>3. Held(parser')
    BY <1>1, <1>2, FlushedHeld
  <1> QED BY <1>1, <1>2, <1>3, CommandLemma, SendsNoLineLemma

LEMMA ExecuteLineStep ==
    ASSUME TypeInv, ExecuteLine
    PROVE  Sound
  <1>1. /\ pc = "line" /\ execCmd(parser.pBuf) /\ Onward /\ UNCHANGED <<macro, input>>
    BY DEF ExecuteLine
  <1>2. /\ Decent /\ StraysOnce /\ Held(parser') /\ lnRdy' = 0
        /\ StaysMute \/ (flags'.autoRead /\ cfg'.amode = 3)
    BY <1>1, ExecCmdLemma
  <1>3. pc' = "data" /\ pc' \in DOMAIN Following
    BY <1>1, OnwardLemma, FollowingLemma
  <1>4. TypeInv'
    BY <1>1, <1>2, <1>3 DEF Decent, TypeInv, ParserOK, LoopOK
  <1>5. StaysNamed
    <2> SUFFICES ASSUME ~HandshakeFaults, NobodyTalks PROVE NobodyTalks' /\ ReadFromNamed'
      BY DEF StaysNamed
    <2>1. Mute(bus)
      BY <1>1 DEF NobodyTalks, Talking
    <2>2. ReadFromNamed'
      BY <1>2, <2>1, ReadsNamedLemma DEF Decent
    <2>3. Mute(bus') \/ Talking'
      BY <1>2, <1>3, <2>1 DEF StaysMute, Talking
    <2> QED BY <1>1, <2>2, <2>3 DEF NobodyTalks
  <1> QED BY <1>2, <1>4, <1>5 DEF Sound, Decent

LEMMA StopAutoReadStep ==
    ASSUME TypeInv, StopAutoRead
    PROVE  Sound
  <1>1. /\ pc = "line" /\ flags' = [flags EXCEPT !.autoRead = FALSE]
        /\ bus' \in After(unAddressDevice(bus)) /\ moved' = {}
        /\ UNCHANGED <<cfg, parser, lnRdy, runMacro, macro, input, pc, polled, srq, clean>>
    BY DEF StopAutoRead
  <1>2. Bus(bus) /\ StateOK
    BY DEF TypeInv, StateOK, Settled
  <1>3. PICK o \in unAddressDevice(bus) : bus' = o.bus
    BY <1>1 DEF After
  <1>4. Keeps(bus', bus) /\ (~HandshakeFaults => Idle(bus'))
    BY <1>2, <1>3, UnaddressKeeps
  <1>5. flags' \in [autoRead : BOOLEAN, isQuery : BOOLEAN, isSrqa : BOOLEAN]
    BY <1>1, <1>2 DEF StateOK
  <1>6. TypeInv'
    BY <1>1, <1>4, <1>5 DEF TypeInv, StateOK, Settled, Keeps, ParserOK, LoopOK
  <1>7. StaysAlone /\ StaysDeaf /\ StaysUnpolled /\ StraysOnce
    BY <1>1, <1>4 DEF StaysAlone, StaysDeaf, StaysUnpolled, StraysOnce, Idle
  <1>8. StaysNamed
    BY <1>1, <1>4 DEF StaysNamed, NobodyTalks, ReadFromNamed, Idle
  <1> QED BY <1>6, <1>7, <1>8 DEF Sound

LEMMA SendLineStep ==
    ASSUME TypeInv, SendLine
    PROVE  Sound
  <1>1. /\ pc = "data" /\ lnRdy = 2 /\ sendToInstrument(parser.pBuf) /\ pc' = "reply"
        /\ UNCHANGED <<macro, input>>
    BY DEF SendLine
  <1>2. parser.pBuf \in Seq(Chars) /\ Held(parser) /\ StateOK
    BY DEF TypeInv, ParserOK, Held, Parsers
  <1>3. Decent /\ StaysMute /\ StraysOnce /\ Held(parser') /\ lnRdy' = 0
    BY <1>1, <1>2, LineLemma
  <1>4. TypeInv'
    BY <1>1, <1>3 DEF Decent, TypeInv, ParserOK, LoopOK
  <1>5. StaysNamed
    <2> SUFFICES ASSUME ~HandshakeFaults, NobodyTalks PROVE NobodyTalks' /\ ReadFromNamed'
      BY DEF StaysNamed
    <2>1. Mute(bus)
      BY <1>1 DEF NobodyTalks, Talking
    <2>2. ReadFromNamed'
      BY <1>3, <2>1, ReadsNamedLemma DEF Decent
    <2> QED BY <1>1, <1>3, <2>1, <2>2 DEF StaysMute, NobodyTalks
  <1> QED BY <1>3, <1>4, <1>5 DEF Sound, Decent

(* No word of a quiet line asks for a read.                                *)
LEMMA QuietLine ==
    ASSUME NEW p \in Seq(Chars), NEW line \in Seq(Chars), line # <<>>,
           Range(line) \cap ReadWords = {}, Len(p \o line) = 3
    PROVE  (p \o line)[3] \notin ReadWords
  <1>1. Len(p) + Len(line) = 3 /\ Len(line) > 0 /\ Len(p) \in Nat
    OBVIOUS
  <1>2. (p \o line)[3] = line[Len(line)] /\ Len(line) \in 1..Len(line)
    BY <1>1
  <1>3. line[Len(line)] \in Range(line)
    BY <1>2 DEF Range
  <1> QED BY <1>2, <1>3

LEMMA MacroLineStep ==
    ASSUME TypeInv, MacroLine
    PROVE  Sound
  <1> DEFINE line == Head(macro)
             buf == parser.pBuf \o line
  <1>1. pc = "running" /\ macro # <<>>
    BY DEF MacroLine
  <1>2. /\ line \in Seq(Chars) /\ Tail(macro) \in Seq(Seq(Chars)) /\ line = macro[1]
        /\ parser.pBuf \in Seq(Chars) /\ Held(parser) /\ StateOK
    BY <1>1 DEF TypeInv, ParserOK, LoopOK, Held, Parsers
  <1>3. CASE MacroOverflow(line, PBSIZE - 1 - Len(parser.pBuf))
    BY <1>1, <1>3, OverflowStep
  <1>4. CASE /\ macro' = Tail(macro)
             /\ execCmd(buf) \/ sendToInstrument(buf)
             /\ UNCHANGED <<input, pc>>
    <2>1. buf \in Seq(Chars)
      BY <1>2
    <2>2. Quiet(macro) => Quiet(macro')
      <3> SUFFICES ASSUME Quiet(macro), NEW k \in 1..Len(macro')
                   PROVE  macro'[k] # <<>> /\ Range(macro'[k]) \cap ReadWords = {}
        BY DEF Quiet
      <3>1. macro \in Seq(Seq(Chars))
        BY DEF TypeInv, LoopOK
      <3>2. k + 1 \in 1..Len(macro) /\ macro'[k] = macro[k + 1]
        BY <1>1, <1>4, <3>1
      <3> QED BY <3>2 DEF Quiet
    <2>3. Quiet(macro) /\ Len(buf) = 3 => buf[3] \notin ReadWords
      <3>1. Quiet(macro) => line # <<>> /\ Range(line) \cap ReadWords = {}
        <4>1. 1 \in 1..Len(macro)
          BY <1>1 DEF TypeInv, LoopOK
        <4> QED BY <1>2, <4>1 DEF Quiet
      <3> HIDE DEF line
      <3> QED BY <1>2, <3>1, QuietLine
    <2> HIDE DEF buf, line
    <2>4. /\ Decent /\ StraysOnce /\ Held(parser') /\ lnRdy' = 0
          /\ StaysMute \/ (Len(buf) = 3 /\ buf[3] \in ReadWords)
      BY <1>2, <1>4, <2>1, ExecCmdLemma, LineLemma
    <2>5. TypeInv'
      BY <1>2, <1>4, <2>4 DEF Decent, TypeInv, ParserOK, LoopOK
    <2>6. StaysNamed
      <3> SUFFICES ASSUME ~HandshakeFaults, NobodyTalks PROVE NobodyTalks' /\ ReadFromNamed'
        BY DEF StaysNamed
      <3>1. Mute(bus)
        BY <1>1 DEF NobodyTalks, Talking
      <3>2. ReadFromNamed'
        BY <2>4, <3>1, ReadsNamedLemma DEF Decent
      <3>3. Mute(bus')
        BY <2>3, <2>4, <3>1 DEF StaysMute, NobodyTalks
      <3> QED BY <2>2, <3>2, <3>3 DEF NobodyTalks
    <2> QED BY <2>4, <2>5, <2>6 DEF Sound, Decent
  <1> QED BY <1>3, <1>4 DEF MacroLine

(* The loop's own reads.                                                   *)
LEMMA LoopReads ==
    ASSUME TypeInv,
           \E r \in AddressAndRead(bus, bus.paddr) :
              bus' = r.bus /\ moved' = {Reading("read", {bus.paddr}, r.from)},
           flags' \in [autoRead : BOOLEAN, isQuery : BOOLEAN, isSrqa : BOOLEAN],
           UNCHANGED <<cfg, parser, lnRdy, runMacro, macro, input, polled, srq, clean>>,
           pc' \in DOMAIN Following
    PROVE  Sound
  <1>1. Bus(bus) /\ bus.paddr \in Nat /\ (bus.paddr <= 30 \/ bus.paddr = NoDevice) /\ StateOK
    BY PaddrLemma DEF TypeInv
  <1>2. PICK r \in AddressAndRead(bus, bus.paddr) :
           bus' = r.bus /\ moved' = {Reading("read", {bus.paddr}, r.from)}
    OBVIOUS
  <1>3. /\ Keeps(bus', bus)
        /\ ~HandshakeFaults => Idle(bus')
        /\ ~HandshakeFaults /\ bus.paddr <= 30 => r.from \subseteq {bus.paddr}
    BY <1>1, <1>2, AddressAndReadLemma
  <1>4. \A t \in moved' : t.op = "read" /\ t.named = {bus.paddr} /\ t.from = r.from
    BY <1>2, ReadingLemma
  <1>5. TypeInv'
    BY <1>3 DEF TypeInv, StateOK, Settled, Keeps, ParserOK, LoopOK
  <1>6. StaysAlone /\ StaysDeaf /\ StaysUnpolled /\ StraysOnce
    BY <1>3, <1>4 DEF StaysAlone, StaysDeaf, StaysUnpolled, StraysOnce, Idle
  <1>7. StaysNamed
    <2>1. ~HandshakeFaults => ReadFromNamed'
      BY <1>1, <1>3, <1>4 DEF ReadFromNamed
    <2> QED BY <1>3, <2>1 DEF StaysNamed, NobodyTalks, Idle
  <1> QED BY <1>5, <1>6, <1>7 DEF Sound

LEMMA ReplyStep ==
    ASSUME TypeInv, Reply
    PROVE  Sound
  <1>1. pc = "reply" /\ pc' = "auto" /\ pc' \in DOMAIN Following
        /\ UNCHANGED <<cfg, parser, lnRdy, runMacro, macro, input, polled, srq, clean>>
    BY FollowingLemma DEF Reply
  <1>2. CASE Replies(flags.isQuery)
    <2>1. /\ \E r \in AddressAndRead(bus, bus.paddr) :
                bus' = r.bus /\ moved' = {Reading("read", {bus.paddr}, r.from)}
          /\ flags' = [flags EXCEPT !.isQuery = FALSE]
      BY <1>2 DEF Reply
    <2>2. flags' \in [autoRead : BOOLEAN, isQuery : BOOLEAN, isSrqa : BOOLEAN]
      BY <2>1 DEF TypeInv, StateOK
    <2> QED BY <1>1, <2>1, <2>2, LoopReads
  <1>3. CASE ~Replies(flags.isQuery)
    <2>1. moved' = {} /\ UNCHANGED <<bus, flags>>
      BY <1>3 DEF Reply
    <2>2. ParserOK' /\ LoopOK'
      BY <1>1 DEF TypeInv, ParserOK, LoopOK
    <2>3. TypeInv' /\ StaysAlone /\ StaysDeaf /\ StaysUnpolled /\ StraysOnce /\ ReadFromNamed'
      <3>1. runMacro' \in 0..Len(Macros) /\ srq' \in SUBSET Instruments
        BY <1>1 DEF TypeInv, StateOK
      <3> QED BY <1>1, <2>1, <2>2, <3>1, QuietStep
    <2>4. StaysNamed
      BY <1>1, <2>1, <2>3 DEF StaysNamed, NobodyTalks, Talking
    <2> QED BY <2>3, <2>4 DEF Sound
  <1> QED BY <1>2, <1>3

LEMMA AutoReadStep ==
    ASSUME TypeInv, AutoRead
    PROVE  Sound
  <1>1. /\ pc = "auto" /\ Onward /\ flags' = flags
        /\ \E r \in AddressAndRead(bus, bus.paddr) :
              bus' = r.bus /\ moved' = {Reading("read", {bus.paddr}, r.from)}
        /\ UNCHANGED <<cfg, parser, lnRdy, runMacro, macro, input, polled, srq, clean>>
    BY DEF AutoRead
  <1>2. pc' \in DOMAIN Following
    BY <1>1, OnwardLemma, FollowingLemma
  <1>3. flags' \in [autoRead : BOOLEAN, isQuery : BOOLEAN, isSrqa : BOOLEAN]
    BY <1>1 DEF TypeInv, StateOK
  <1> QED BY <1>1, <1>2, <1>3, LoopReads

LEMMA AutoPollStep ==
    ASSUME TypeInv, AutoPoll
    PROVE  Sound
  <1>1. /\ pc = "srq" /\ Onward /\ spoll_h("autopoll", <<bus.paddr>>, FALSE)
        /\ UNCHANGED <<parser, lnRdy, macro, input>>
    BY DEF AutoPoll
  <1>2. StateOK /\ <<bus.paddr>> \in Seq(Nat)
    BY PaddrLemma DEF TypeInv
  <1>3. Decent /\ StaysMute /\ SendsNoLine
    BY <1>1, <1>2, SpollHandler
  <1>4. pc' \in DOMAIN Following /\ pc' \notin {"data", "auto"}
    BY <1>1, OnwardLemma, FollowingLemma
  <1>5. TypeInv'
    BY <1>1, <1>3, <1>4 DEF Decent, TypeInv, ParserOK, LoopOK
  <1>6. StaysNamed
    <2> SUFFICES ASSUME ~HandshakeFaults, NobodyTalks PROVE NobodyTalks' /\ ReadFromNamed'
      BY DEF StaysNamed
    <2>1. Mute(bus)
      BY <1>1 DEF NobodyTalks, Talking
    <2>2. ReadFromNamed'
      BY <1>3, <2>1, ReadsNamedLemma DEF Decent
    <2> QED BY <1>1, <1>3, <2>1, <2>2 DEF StaysMute, NobodyTalks
  <1> QED BY <1>3, <1>5, <1>6, SendsNoLineLemma DEF Sound, Decent

LEMMA NextLemma ==
    ASSUME TypeInv, Next
    PROVE  Sound
  BY StartMacroStep, MacroLineStep, EndMacroStep, StopAutoReadStep, ExecuteLineStep,
     SendLineStep, ReplyStep, AutoReadStep, AutoPollStep, TakeInputStep, SkipStep, OutsideStep
     DEF Next, Loop

-----------------------------------------------------------------------------
(* The theorems.                                                           *)

LEMMA InitLemma ==
    ASSUME Init
    PROVE  TypeInv /\ Idle(bus) /\ polled = {} /\ ~clean /\ macro = <<>> /\ moved = {}
  <1>1. PICK on \in SUBSET Instruments : bus = BootBus(on, StoredEoi, StoredEos)
    BY DEF Init
  <1>2. /\ bus.listeners = {} /\ bus.talkers = {} /\ bus.powered = on
        /\ bus.deviceAddressed = "TONONE" /\ bus.paddr = NoDevice /\ bus \in Buses
    BY <1>1, StoredAssumption DEF BootBus, Buses, ControlStates, Directions, Addresses
  <1>3. Idle(bus) /\ Settled(bus)
    BY <1>2 DEF Idle, Alone, Deaf, Mute, Settled, Bus
  <1>4. StateOK
    BY <1>3, LinesAssumption DEF Init, StateOK
  <1>5. Held(parser)
    <2>1. BootParser \in Parsers /\ Len(BootParser.pBuf) = 0
      BY DEF BootParser, Parsers
    <2> QED BY <2>1, PBSIZEAssumption DEF Init, Held
  <1>6. ParserOK /\ LoopOK
    BY <1>5, FollowingLemma DEF Init, ParserOK, LoopOK
  <1> QED BY <1>3, <1>4, <1>6 DEF Init, TypeInv

LEMMA StepLemma ==
    ASSUME TypeInv, [Next]_vars
    PROVE  TypeInv' /\ (UNCHANGED vars \/ Sound)
  <1>1. CASE Next
    BY <1>1, NextLemma DEF Sound
  <1>2. CASE UNCHANGED vars
    BY <1>2 DEF vars, TypeInv, StateOK, Settled, ParserOK, LoopOK
  <1> QED BY <1>1, <1>2

THEOREM TypeInvariant == Spec => []TypeInv
  <1>1. Init => TypeInv
    BY InitLemma
  <1>2. TypeInv /\ [Next]_vars => TypeInv'
    BY StepLemma
  <1> QED BY <1>1, <1>2, PTL DEF Spec

(* Every variable keeps its type and the parse buffer never runs over, for *)
(* any input, macros and commands, with a time-out at any byte: the parser *)
(* and the macros, which both fill it, leave room for one more character   *)
(* unless the line in it waits to be sent in pieces.                       *)
THEOREM TypeCorrect == Spec => []TypeOK
  <1>1. TypeInv => TypeOK
    BY DEF TypeInv, StateOK, Settled, Bus, ParserOK, LoopOK, Held, Parsers, TypeOK
  <1> QED BY <1>1, TypeInvariant, PTL

(* Nothing is addressed twice, nothing is in the serial poll mode, and once*)
(* a whole line has gone out nobody listens and the driver knows it.       *)
AddressingInv == TypeInv /\ Alone(bus) /\ polled = {} /\ (clean => Deaf(bus))

LEMMA AddressingInvariant ==
    ASSUME ~HandshakeFaults
    PROVE  Spec => []AddressingInv
  <1>1. Init => AddressingInv
    BY InitLemma DEF AddressingInv, Idle
  <1>2. AddressingInv /\ [Next]_vars => AddressingInv'
    <2> SUFFICES ASSUME AddressingInv, [Next]_vars PROVE AddressingInv'
      OBVIOUS
    <2>1. TypeInv' /\ (UNCHANGED vars \/ Sound)
      BY StepLemma DEF AddressingInv
    <2>2. CASE Sound
      BY <2>2 DEF AddressingInv, Sound, StaysAlone, StaysUnpolled, StaysDeaf
    <2>3. CASE UNCHANGED vars
      BY <2>1, <2>3 DEF AddressingInv, vars
    <2> QED BY <2>1, <2>2, <2>3
  <1> QED BY <1>1, <1>2, PTL DEF Spec

(* Whatever the client sends, typed or in a macro, at most one instrument  *)
(* is addressed, to listen or to talk.  (With time-outs it is false: a TAD *)
(* that failed half way through a serial poll leaves a second talker.)     *)
THEOREM AloneCorrect ==
    ASSUME ~HandshakeFaults
    PROVE  Spec => []OneAddressed
  <1>1. AddressingInv => OneAddressed
    <2> SUFFICES ASSUME AddressingInv PROVE OneAddressed
      OBVIOUS
    <2>1. PICK i : /\ bus.listeners \cup bus.talkers \subseteq {i}
                   /\ bus.listeners = {} \/ bus.talkers = {}
      BY DEF AddressingInv, Alone
    <2>2. Cardinality({}) = 0 /\ Cardinality({i}) = 1
      BY FS_EmptySet, FS_Singleton
    <2>3. bus.listeners \in {{}, {i}} /\ bus.talkers \in {{}, {i}}
      BY <2>1
    <2> QED BY <2>1, <2>2, <2>3 DEF OneAddressed
  <1> QED BY <1>1, AddressingInvariant, PTL

(* Once a whole line has gone out, every line after it reaches the         *)
(* instrument at cfg.paddr and no other, until ++send or ++fndl, through   *)
(* every other command, macro, automatic read and serial poll.             *)
THEOREM StrayCorrect ==
    ASSUME ~HandshakeFaults
    PROVE  Spec => StrayOnce
  <1>1. AddressingInv /\ [Next]_vars =>
          [\A t \in moved' : t.op = "data" /\ clean => t.to = t.named \cap bus.powered]_vars
    BY StepLemma DEF AddressingInv, Sound, StraysOnce
  <1> QED BY <1>1, AddressingInvariant, PTL DEF Spec, StrayOnce

(* No instrument is asked for data while it is in the serial poll mode:    *)
(* every way out of the poll takes all of them out of it.                  *)
THEOREM PolledCorrect ==
    ASSUME ~HandshakeFaults
    PROVE  Spec => StatusIsNotData
  <1>1. AddressingInv /\ [Next]_vars =>
          [\A t \in moved' : t.op = "read" => t.from \cap polled = {}]_vars
    BY DEF AddressingInv
  <1> QED BY <1>1, AddressingInvariant, PTL DEF Spec, StatusIsNotData

NamedInv == TypeInv /\ NobodyTalks /\ ReadFromNamed

(* Data and status bytes come from the instrument the client named, or     *)
(* from nobody, for every client input, as long as no macro reads.  (A     *)
(* macro that goes from ++auto 3 and ++read to ++auto 0 and ++read @n reads*)
(* from the one that the first ++read has left addressed.)                 *)
THEOREM NamedCorrect ==
    ASSUME ~HandshakeFaults, QuietMacros
    PROVE  Spec => []ReadFromNamed
  <1>1. Init => NamedInv
    BY InitLemma DEF NamedInv, NobodyTalks, Quiet, Idle, ReadFromNamed
  <1>2. NamedInv /\ [Next]_vars => NamedInv'
    <2> SUFFICES ASSUME NamedInv, [Next]_vars PROVE NamedInv'
      OBVIOUS
    <2>1. TypeInv' /\ (UNCHANGED vars \/ Sound)
      BY StepLemma DEF NamedInv
    <2>2. CASE Sound
      BY <2>1, <2>2 DEF NamedInv, Sound, StaysNamed
    <2>3. CASE UNCHANGED vars
      BY <2>1, <2>3 DEF NamedInv, vars, NobodyTalks, Talking, ReadFromNamed
    <2> QED BY <2>1, <2>2, <2>3
  <1>3. NamedInv => ReadFromNamed
    BY DEF NamedInv
  <1> QED BY <1>1, <1>2, <1>3, PTL DEF Spec
=============================================================================
