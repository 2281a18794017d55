--------------------------- MODULE GatewayProofs ---------------------------
(***************************************************************************)
(* Theorems about the gateway, for any number of slots, any requests, any  *)
(* instruments, any disturbances and any bounds.                           *)
(***************************************************************************)
EXTENDS Gateway, BusTheorems

(* What types need: only instruments that are on are addressed.            *)
TypeInv == TypeOK /\ Bus(bus)

(* A client's link is the address its slot holds.                          *)
Linked == \A s \in Slots : link[s] # NoLink => link[s] = addresses[s]

(* RoutedToLink is not inductive by itself: a request reaches the link's   *)
(* instrument because its slot holds the link's address, and no other      *)
(* instrument because nobody but the cached address is ever addressed.     *)
RoutingInv == TypeInv /\ Linked /\ ExclusiveAddressing /\ RoutedToLink

-----------------------------------------------------------------------------
(* The SCPI handler.                                                       *)

LEMMA ReleaseLemma ==
    ASSUME NEW b, Bus(b), NEW c \in Release(b)
    PROVE  /\ Bus(c) /\ Excl(c) /\ Cached(c) /\ Coherent(c) /\ c.powered = b.powered
           /\ ~HandshakeFaults => Talks(c)
  <1>1. PICK u \in unAddressDevice(b) : c = [u.bus EXCEPT !.paddr = NoDevice]
    BY DEF Release, Unaddressed
  <1>2. Bus(u.bus) /\ u.bus.powered = b.powered /\ (~HandshakeFaults => u.bus.talkers = {})
    BY UnAddressDeviceLemma
  <1>3. /\ Bus(c) /\ c.paddr = NoDevice /\ c.powered = b.powered
        /\ ~HandshakeFaults => c.talkers = {}
    BY <1>1, <1>2 DEF Bus, Buses
  <1>4. NoDevice \notin c.powered
    BY <1>3, InstrumentsAssumption DEF Bus, Buses, NoDevice
  <1> QED BY <1>3, <1>4 DEF Excl, Cached, Coherent, Talks

(* Addressing through the cache: afterwards nobody but the requested       *)
(* address is addressed, or the cache is empty.                            *)
LEMMA ScpiAddressDeviceLemma ==
    ASSUME NEW b, Bus(b), NEW address \in Addresses, NEW dir \in {"TOLISTEN", "TOTALK"},
           NEW o \in ScpiAddressDevice(b, address, dir)
    PROVE  /\ Bus(o.bus) /\ o.ok \in BOOLEAN
           /\ Excl(b) => Excl(o.bus)
           /\ Cached(b) => Cached(o.bus)
           /\ Coherent(b) => Coherent(o.bus)
           /\ ~HandshakeFaults /\ Talks(b) => Talks(o.bus)
           /\ o.bus.powered = b.powered
           /\ o.ok => o.bus.paddr = address
  <1>0. address \in Nat /\ address # NoDevice
    BY DEF Addresses, NoDevice
  <1>1. CASE b.paddr = address
    <2>1. o = Outcome(b, TRUE)
      BY <1>1 DEF ScpiAddressDevice
    <2>2. o.bus = b /\ o.ok = TRUE
      BY <2>1, OutcomeLemma
    <2> QED BY <1>1, <2>2
  <1>2. CASE b.paddr # address
    <2> DEFINE c == [b EXCEPT !.paddr = address]
               adr == addressDevice(c, address, dir)
    <2>1. Bus(c) /\ c.paddr = address /\ c.cstate \in ControlStates /\ c.powered = b.powered
      BY DEF Bus, Buses
    <2>2. c.cstate # "DLAS"
      BY <2>1 DEF ControlStates
    <2>3. ASSUME NEW a \in adr
          PROVE  /\ Bus(a.bus) /\ a.bus.paddr = address /\ a.ok \in BOOLEAN
                 /\ a.bus.powered = b.powered
                 /\ a.ok => /\ NoneBut(a.bus, address)
                            /\ a.bus.deviceAddressed = dir
                            /\ address \in a.bus.powered =>
                                  address \in IF dir = "TOTALK" THEN a.bus.talkers
                                              ELSE a.bus.listeners
      <3> HIDE DEF c
      <3> QED BY <1>0, <2>1, AddressDeviceLemma
    <2>4. \/ o \in adr /\ o.ok
          \/ o \in {Outcome(d, FALSE) :
               d \in UNION {Release(setControls(a.bus, "CIDS")) : a \in Failed(adr)}}
      BY <1>2, <2>2 DEF ScpiAddressDevice
    <2>5. CASE o \in adr /\ o.ok
      BY <2>3, <2>5 DEF Excl, Cached, Coherent, Talks, NoneBut
    <2>6. CASE o \in {Outcome(d, FALSE) :
               d \in UNION {Release(setControls(a.bus, "CIDS")) : a \in Failed(adr)}}
      <3>1. PICK a, d : /\ a \in adr /\ ~a.ok
                        /\ d \in Release(setControls(a.bus, "CIDS"))
                        /\ o = Outcome(d, FALSE)
        BY <2>6 DEF Failed
      <3>2. Bus(setControls(a.bus, "CIDS")) /\ setControls(a.bus, "CIDS").powered = b.powered
        BY <2>3, <3>1, SetControlsLemma DEF ControlStates
      <3>3. /\ Bus(d) /\ Excl(d) /\ Cached(d) /\ Coherent(d) /\ d.powered = b.powered
            /\ ~HandshakeFaults => Talks(d)
        BY <3>1, <3>2, ReleaseLemma
      <3>4. o.bus = d /\ o.ok = FALSE
        BY <3>1, OutcomeLemma
      <3> QED BY <3>3, <3>4
    <2> QED BY <2>4, <2>5, <2>6
  <1> QED BY <1>1, <1>2

(* What every operation of the handler keeps: a bus, exclusive addressing, *)
(* a truthful cache, one talker at most, and nothing moved but to or from  *)
(* the target.                                                             *)
Good(o, b, address) ==
    /\ Bus(o.bus) /\ o.rv \in StopReasons /\ o.data \in Transfers
    /\ Excl(b) => /\ Excl(o.bus)
                  /\ o.data.to \cup o.data.from \subseteq {Target(address)}
    /\ Cached(b) => Cached(o.bus)
    /\ ~HandshakeFaults /\ Coherent(b) => Coherent(o.bus)
    /\ ~HandshakeFaults /\ Talks(b) => /\ Talks(o.bus)
                                       /\ o.data.from \subseteq {Target(address)}
    /\ o.bus.powered = b.powered

(* The part of it that is kept without a transfer.                         *)
Keeps(c, b) ==
    /\ Excl(b) => Excl(c)
    /\ Cached(b) => Cached(c)
    /\ ~HandshakeFaults /\ Coherent(b) => Coherent(c)
    /\ ~HandshakeFaults /\ Talks(b) => Talks(c)
    /\ c.powered = b.powered

LEMMA DoneLemma ==
    ASSUME NEW c, NEW rv, NEW t
    PROVE  Done(c, rv, t).bus = c /\ Done(c, rv, t).rv = rv /\ Done(c, rv, t).data = t
  BY DEF Done

LEMMA TargetLemma ==
    ASSUME NEW addr \in Addresses PROVE Target(addr) \in Addresses
  BY CaddrAssumption DEF Target, Addresses

LEMMA RestoreLemma ==
    ASSUME NEW b, Bus(b), NEW i \in BOOLEAN, NEW e \in 0..3
    PROVE  /\ Bus([b EXCEPT !.eoi = i, !.eos = e])
           /\ [b EXCEPT !.eoi = i, !.eos = e].listeners = b.listeners
           /\ [b EXCEPT !.eoi = i, !.eos = e].talkers = b.talkers
           /\ [b EXCEPT !.eoi = i, !.eos = e].paddr = b.paddr
           /\ Same([b EXCEPT !.eoi = i, !.eos = e], b)
  BY DEF Bus, Buses, Same

LEMMA EosLemma ==
    ASSUME NEW b, Bus(b)
    PROVE  AsBool(b.eos) \in 0..3 /\ b.eoi \in BOOLEAN
  BY DEF Bus, Buses, AsBool

LEMMA ScpiWriteLemma ==
    ASSUME NEW b, Bus(b), NEW addr \in Addresses, NEW len \in Nat, NEW isEnd \in BOOLEAN,
           NEW o \in ScpiWrite(b, addr, len, isEnd)
    PROVE  Good(o, b, addr)
  <1>1. CASE Target(addr) = 0
    BY <1>1, DoneLemma, NoTransferLemma DEF ScpiWrite, Good, StopReasons
  <1>2. CASE Target(addr) # 0
    <2> DEFINE adr == ScpiAddressDevice(b, Target(addr), "TOLISTEN")
    <2>1. ASSUME NEW a \in adr
          PROVE  /\ Bus(a.bus) /\ a.ok \in BOOLEAN /\ Keeps(a.bus, b)
                 /\ a.ok => a.bus.paddr = Target(addr)
      BY TargetLemma, ScpiAddressDeviceLemma DEF Keeps
    <2>2. CASE o \in {Done(a.bus, "SRS_TIMEOUT", NoTransfer) : a \in Failed(adr)}
      BY <2>1, <2>2, DoneLemma, NoTransferLemma DEF Failed, Good, Keeps, StopReasons
    <2>3. ASSUME NEW c \in Passed(adr) PROVE Bus(c) /\ Keeps(c, b) /\ c.paddr = Target(addr)
      BY <2>1 DEF Passed
    <2>4. ASSUME NEW c \in Passed(adr), Excl(c) PROVE c.listeners \subseteq {Target(addr)}
      BY <2>3, <2>4, TargetLemma DEF Excl, NoneBut, Addresses, NoDevice
    <2>5. ASSUME NEW c \in Passed(adr), o \in WriteEnd(c, len) PROVE Good(o, b, addr)
      <3>1. PICK s, d :
              s \in sendData(c, len, TRUE) /\ d \in Release(s.bus) /\ o = Done(d, "SRS_NONE", s.data)
        BY <2>5 DEF WriteEnd
      <3>2. /\ Bus(s.bus) /\ s.data \in Transfers /\ s.data.to = c.listeners /\ s.data.from = {}
            /\ s.bus.powered = c.powered
        <4>1. Bus(s.bus) /\ Same(s.bus, c) /\ s.data \in Transfers
              /\ s.data.to = c.listeners /\ s.data.from = {}
          BY <2>3, <3>1, SendDataLemma
        <4> QED BY <4>1 DEF Same
      <3>3. /\ Bus(d) /\ Excl(d) /\ Cached(d) /\ Coherent(d) /\ d.powered = c.powered
            /\ ~HandshakeFaults => Talks(d)
        BY <3>1, <3>2, ReleaseLemma
      <3>4. o.bus = d /\ o.rv = "SRS_NONE" /\ o.data = s.data
        BY <3>1, DoneLemma
      <3>5. Keeps(d, b)
        BY <2>3, <3>3 DEF Keeps
      <3>6. Excl(b) => o.data.to \cup o.data.from \subseteq {Target(addr)}
        BY <2>3, <2>4, <3>2, <3>4 DEF Keeps
      <3> QED BY <3>2, <3>3, <3>4, <3>5, <3>6 DEF Good, Keeps, StopReasons
    <2>6. ASSUME NEW c \in Passed(adr), o \in WritePart(c, len) PROVE Good(o, b, addr)
      <3> DEFINE q == [c EXCEPT !.eoi = FALSE, !.eos = 3]
      <3>1. PICK s \in sendData(q, len, FALSE) :
              o = Done([s.bus EXCEPT !.eoi = c.eoi, !.eos = AsBool(c.eos)], "SRS_NONE", s.data)
        BY <2>6 DEF WritePart
      <3>2. /\ Bus(q) /\ q.listeners = c.listeners /\ q.talkers = c.talkers
            /\ Same(q, c) /\ AsBool(c.eos) \in 0..3 /\ c.eoi \in BOOLEAN
        <4>1. FALSE \in BOOLEAN /\ 3 \in 0..3
          OBVIOUS
        <4>2. /\ Bus(q) /\ q.listeners = c.listeners /\ q.talkers = c.talkers
              /\ Same(q, c)
          BY <2>3, <4>1, RestoreLemma
        <4> QED BY <2>3, <4>2, EosLemma
      <3> HIDE DEF q
      <3>3. /\ Bus(s.bus) /\ Same(s.bus, q) /\ s.data \in Transfers
            /\ s.data.to = q.listeners /\ s.data.from = {}
        BY <3>2, SendDataLemma
      <3>4. /\ Bus([s.bus EXCEPT !.eoi = c.eoi, !.eos = AsBool(c.eos)])
            /\ Same([s.bus EXCEPT !.eoi = c.eoi, !.eos = AsBool(c.eos)], s.bus)
        BY <3>2, <3>3, RestoreLemma
      <3>5. Same([s.bus EXCEPT !.eoi = c.eoi, !.eos = AsBool(c.eos)], c)
        BY <3>2, <3>3, <3>4 DEF Same
      <3>6. Keeps([s.bus EXCEPT !.eoi = c.eoi, !.eos = AsBool(c.eos)], b)
        BY <2>3, <3>5, SameLemma DEF Keeps, Same
      <3>7. /\ o.rv = "SRS_NONE" /\ o.data = s.data
            /\ o.bus = [s.bus EXCEPT !.eoi = c.eoi, !.eos = AsBool(c.eos)]
        BY <3>1, DoneLemma
      <3>8. Excl(b) => o.data.to \cup o.data.from \subseteq {Target(addr)}
        BY <2>3, <2>4, <3>2, <3>3, <3>7 DEF Keeps
      <3> QED BY <3>3, <3>4, <3>6, <3>7, <3>8 DEF Good, Keeps, StopReasons
    <2>7. \/ o \in {Done(a.bus, "SRS_TIMEOUT", NoTransfer) : a \in Failed(adr)}
          \/ \E c \in Passed(adr) : o \in IF isEnd THEN WriteEnd(c, len) ELSE WritePart(c, len)
      BY <1>2 DEF ScpiWrite
    <2> QED BY <2>2, <2>5, <2>6, <2>7
  <1> QED BY <1>1, <1>2

LEMMA ScpiReadLemma ==
    ASSUME NEW b, Bus(b), NEW addr \in Addresses, NEW o \in ScpiRead(b, addr)
    PROVE  Good(o, b, addr)
  <1>1. CASE Target(addr) = 0
    BY <1>1, DoneLemma, NoTransferLemma DEF ScpiRead, Good, StopReasons
  <1>2. CASE Target(addr) # 0
    <2> DEFINE adr == ScpiAddressDevice(b, Target(addr), "TOTALK")
    <2>1. ASSUME NEW a \in adr
          PROVE  /\ Bus(a.bus) /\ a.ok \in BOOLEAN /\ Keeps(a.bus, b)
                 /\ a.ok => a.bus.paddr = Target(addr)
      BY TargetLemma, ScpiAddressDeviceLemma DEF Keeps
    <2>2. CASE o \in {Done(a.bus, "SRS_TIMEOUT", NoTransfer) : a \in Failed(adr)}
      BY <2>1, <2>2, DoneLemma, NoTransferLemma DEF Failed, Good, Keeps, StopReasons
    <2>3. ASSUME NEW c \in Passed(adr), o \in ReadAddressed(c) PROVE Good(o, b, addr)
      <3>1. Bus(c) /\ Keeps(c, b) /\ c.paddr = Target(addr)
        BY <2>1, <2>3 DEF Passed
      <3>2. Excl(c) => c.talkers \subseteq {Target(addr)}
        BY <3>1, TargetLemma DEF Excl, NoneBut, Addresses, NoDevice
      <3>3. PICK r, d :
              /\ r \in receiveData(c, TRUE)
              /\ d \in IF r.stop = "RECEIVE_LIMIT" THEN {r.bus} ELSE Release(r.bus)
              /\ o = Done(d, StopReasonOf(r.stop), r.data)
        BY <2>3 DEF ReadAddressed
      <3>4. /\ Bus(r.bus) /\ Same(r.bus, c) /\ r.data \in Transfers
            /\ r.data.from = c.talkers /\ r.data.to = {}
        BY <3>1, <3>3, ReceiveDataLemma
      <3>5. Keeps(r.bus, b)
        BY <3>1, <3>4, SameLemma DEF Keeps, Same
      <3>6. Bus(d) /\ Keeps(d, b)
        <4>1. CASE d = r.bus
          BY <3>4, <3>5, <4>1
        <4>2. CASE d \in Release(r.bus)
          BY <3>4, <3>5, <4>2, ReleaseLemma DEF Keeps
        <4> QED BY <3>3, <4>1, <4>2
      <3>7. StopReasonOf(r.stop) \in StopReasons
        BY DEF StopReasonOf, StopReasons
      <3> QED BY <3>1, <3>2, <3>3, <3>4, <3>6, <3>7, DoneLemma DEF Good, Keeps, Talks
    <2> QED BY <1>2, <2>2, <2>3 DEF ScpiRead
  <1> QED BY <1>1, <1>2

LEMMA ScpiDevClearLemma ==
    ASSUME NEW b, Bus(b), NEW addr \in Addresses, NEW o \in ScpiDevClear(b, addr)
    PROVE  Good(o, b, addr)
  <1>1. CASE Target(addr) = 0
    <2>1. PICK c \in IF b.deviceAddressed = "TONONE" THEN {b} ELSE Release(b) :
            o = Done(setControls(c, "CIDS"), "SRS_NONE", NoTransfer)
      BY <1>1 DEF ScpiDevClear, ClearGateway
    <2>2. Bus(c) /\ Keeps(c, b)
      BY ReleaseLemma DEF Keeps
    <2>3. Bus(setControls(c, "CIDS")) /\ Same(setControls(c, "CIDS"), c)
      BY <2>2, SetControlsLemma DEF Same, ControlStates
    <2>4. Keeps(setControls(c, "CIDS"), b)
      BY <2>2, <2>3, SameLemma DEF Keeps, Same
    <2> QED BY <2>1, <2>3, <2>4, DoneLemma, NoTransferLemma DEF Good, Keeps, StopReasons
  <1>2. CASE Target(addr) # 0
    <2> DEFINE adr == ScpiAddressDevice(b, Target(addr), "TOLISTEN")
    <2>1. ASSUME NEW a \in adr
          PROVE  /\ Bus(a.bus) /\ a.ok \in BOOLEAN /\ Keeps(a.bus, b)
                 /\ a.ok => a.bus.paddr = Target(addr)
      BY TargetLemma, ScpiAddressDeviceLemma DEF Keeps
    <2>2. CASE o \in {Done(a.bus, "SRS_ERROR", NoTransfer) : a \in Failed(adr)}
      BY <2>1, <2>2, DoneLemma, NoTransferLemma DEF Failed, Good, Keeps, StopReasons
    <2>3. ASSUME NEW c \in Passed(adr), o \in ClearDevice(c) PROVE Good(o, b, addr)
      <3>1. Bus(c) /\ Keeps(c, b) /\ c.paddr = Target(addr)
        BY <2>1, <2>3 DEF Passed
      <3>2. c.paddr \in Nat /\ c.paddr # NoDevice
        BY <3>1, TargetLemma DEF Addresses, NoDevice
      <3>3. PICK s \in sendSDC(c) :
              o \in IF s.ok
                    THEN {Done(d, "SRS_NONE", [NoTransfer EXCEPT !.to = s.to]) :
                             d \in Release(setControls(s.bus, "CIDS"))}
                    ELSE {Done(s.bus, "SRS_ERROR", [NoTransfer EXCEPT !.to = s.to])}
        BY <2>3 DEF ClearDevice
      <3>4. /\ Bus(s.bus) /\ s.ok \in BOOLEAN /\ s.to \in SUBSET Instruments
            /\ s.bus.paddr = c.paddr /\ s.to \subseteq {c.paddr}
            /\ NoneBut(c, c.paddr) => NoneBut(s.bus, c.paddr)
            /\ Talks(c) => Talks(s.bus)
            /\ s.bus.powered = c.powered
            /\ c.paddr <= 30 => Reliable(s, c)
            /\ ~s.ok => s.bus.deviceAddressed \in {c.deviceAddressed, "TOLISTEN"}
        BY <3>1, <3>2, SendSDCLemma
      <3>5. ~s.ok => Keeps(s.bus, b)
        <4>1. Excl(c) => Excl(s.bus)
          BY <3>2, <3>4 DEF Excl
        <4>2. ~s.ok /\ Cached(c) => Cached(s.bus)
          BY <3>2, <3>4 DEF Cached
        <4>3. ~s.ok /\ ~HandshakeFaults => s.bus.paddr \notin s.bus.powered
          <5>0. c.powered \subseteq 0..30
            BY <3>1, InstrumentsAssumption DEF Bus, Buses
          <5>1. s.bus.paddr \in s.bus.powered => c.paddr <= 30 /\ c.powered # {}
            BY <3>4, <5>0
          <5> QED BY <3>4, <5>1 DEF Reliable
        <4> QED BY <3>1, <3>4, <4>1, <4>2, <4>3 DEF Keeps, Coherent
      <3> DEFINE t == [NoTransfer EXCEPT !.to = s.to]
      <3>6. t \in Transfers
        BY <3>4, NoTransferLemma DEF Transfers
      <3>7. t.to = s.to /\ t.from = {}
        BY DEF NoTransfer
      <3> HIDE DEF t
      <3>8. Bus(setControls(s.bus, "CIDS")) /\ setControls(s.bus, "CIDS").powered = b.powered
        BY <3>1, <3>4, SetControlsLemma DEF ControlStates, Keeps
      <3>9. \/ \E d \in Release(setControls(s.bus, "CIDS")) : o = Done(d, "SRS_NONE", t)
            \/ ~s.ok /\ o = Done(s.bus, "SRS_ERROR", t)
        BY <3>3, <3>4 DEF t
      <3> DEFINE moved == Excl(b) => t.to \cup t.from \subseteq {Target(addr)}
      <3>12. moved
        BY <3>1, <3>4, <3>7
      <3>10. CASE \E d \in Release(setControls(s.bus, "CIDS")) : o = Done(d, "SRS_NONE", t)
        <4>1. PICK d \in Release(setControls(s.bus, "CIDS")) : o = Done(d, "SRS_NONE", t)
          BY <3>10
        <4>2. /\ Bus(d) /\ Excl(d) /\ Cached(d) /\ Coherent(d) /\ d.powered = b.powered
              /\ ~HandshakeFaults => Talks(d)
          BY <3>8, ReleaseLemma
        <4> QED BY <3>6, <3>7, <3>12, <4>1, <4>2, DoneLemma DEF Good, StopReasons
      <3>11. CASE ~s.ok /\ o = Done(s.bus, "SRS_ERROR", t)
        BY <3>4, <3>5, <3>6, <3>7, <3>12, <3>11, DoneLemma DEF Good, Keeps, StopReasons
      <3> QED BY <3>9, <3>10, <3>11
    <2> QED BY <1>2, <2>2, <2>3 DEF ScpiDevClear
  <1> QED BY <1>1, <1>2

-----------------------------------------------------------------------------
(* The web page keeps a bus a bus.                                         *)

LEMMA ScanReachesLemma ==
    ASSUME NEW b, Bus(b), NEW p \in Scanned, NEW c \in ScanReaches(b, p)
    PROVE  Bus(c)
  <1>1. CASE \A q \in Scanned : q >= p
    BY <1>1 DEF ScanReaches
  <1>2. CASE ~(\A q \in Scanned : q >= p)
    <2> DEFINE q == IF p - 1 \in Scanned THEN p - 1 ELSE p - 2
    <2>1. q \in Nat
      BY <1>2, CaddrAssumption DEF Scanned
    <2>2. PICK o \in addressDevice(b, q, "TOLISTEN") : c = setControls(o.bus, "CIDS")
      BY <1>2 DEF ScanReaches, Passed
    <2> HIDE DEF q
    <2>3. Bus(o.bus)
      BY <2>1, AddressDeviceLemma
    <2> QED BY <2>2, <2>3, SetControlsLemma DEF ControlStates
  <1> QED BY <1>1, <1>2

LEMMA FndlLemma ==
    ASSUME NEW b, Bus(b), NEW c \in fndl(b)
    PROVE  Bus(c)
  <1>1. CASE \E o \in addressDevice(b, LastScanned, "TOLISTEN") : c = setControls(o.bus, "CIDS")
    <2>1. PICK o \in addressDevice(b, LastScanned, "TOLISTEN") : c = setControls(o.bus, "CIDS")
      BY <1>1
    <2>2. LastScanned \in Nat
      BY DEF LastScanned
    <2>3. Bus(o.bus)
      BY <2>2, AddressDeviceLemma
    <2> QED BY <2>1, <2>3, SetControlsLemma DEF ControlStates
  <1>2. CASE \E p \in Scanned : \E d \in ScanReaches(b, p) :
                \E o \in addressDevice(d, p, "TOLISTEN") : c = setControls(o.bus, "CIDS")
    <2>1. PICK p, d, o :
             /\ p \in Scanned
             /\ d \in ScanReaches(b, p)
             /\ o \in addressDevice(d, p, "TOLISTEN")
             /\ c = setControls(o.bus, "CIDS")
      BY <1>2
    <2>2. Bus(d) /\ p \in Nat
      BY <2>1, ScanReachesLemma DEF Scanned
    <2>3. Bus(o.bus)
      BY <2>1, <2>2, AddressDeviceLemma
    <2> QED BY <2>1, <2>3, SetControlsLemma DEF ControlStates
  <1> QED BY <1>1, <1>2 DEF fndl, Passed, Failed

LEMMA StoreAddressLemma ==
    ASSUME NEW b, Bus(b), NEW address \in Addresses
    PROVE  Bus([b EXCEPT !.paddr = address])
  BY DEF Bus, Buses

LEMMA GpibWriteLemma ==
    ASSUME NEW b, Bus(b), NEW address \in Addresses, NEW len \in Nat,
           NEW c \in gpibWrite(b, address, len)
    PROVE  Bus(c)
  <1> DEFINE d == [b EXCEPT !.paddr = address]
  <1>1. Bus(d)
    BY StoreAddressLemma
  <1>2. PICK a, s, u :
          /\ a \in addressDevice(d, address, "TOLISTEN")
          /\ s \in sendData(a.bus, len, TRUE)
          /\ u \in unAddressDevice(s.bus)
          /\ c = u.bus
    BY DEF gpibWrite, gpibWriteOwnAddress
  <1> HIDE DEF d
  <1>3. Bus(a.bus)
    BY <1>1, <1>2, AddressDeviceLemma DEF Addresses
  <1>4. Bus(s.bus)
    BY <1>2, <1>3, SendDataLemma
  <1> QED BY <1>2, <1>4, UnAddressDeviceLemma

LEMMA GpibReadLemma ==
    ASSUME NEW b, Bus(b), NEW address \in Addresses, NEW c \in gpibRead(b, address)
    PROVE  Bus(c)
  <1> DEFINE d == [b EXCEPT !.paddr = address]
  <1>1. Bus(d)
    BY StoreAddressLemma
  <1>2. PICK a, r, u :
          /\ a \in addressDevice(d, address, "TOTALK")
          /\ r \in receiveData(a.bus, FALSE)
          /\ u \in unAddressDevice(r.bus)
          /\ c = u.bus
    BY DEF gpibRead, gpibReadStillTalking
  <1> HIDE DEF d
  <1>3. Bus(a.bus)
    BY <1>1, <1>2, AddressDeviceLemma DEF Addresses
  <1>4. Bus(r.bus)
    BY <1>2, <1>3, ReceiveDataLemma
  <1> QED BY <1>2, <1>4, UnAddressDeviceLemma

LEMMA HandleRequestLemma ==
    ASSUME NEW b, Bus(b), NEW r \in WebRequestTypes, NEW c \in handleRequest(b, r)
    PROVE  Bus(c)
  <1>1. CASE r.op = "fnd"
    BY <1>1, FndlLemma DEF handleRequest
  <1>2. CASE r.op # "fnd" /\ (r.addr \notin 1..31 \/ r.op = "page")
    <2>1. handleRequest(b, r) = {b}
      BY <1>2 DEF handleRequest
    <2> QED BY <2>1
  <1>3. CASE r.op \in {"send", "read", "query"} /\ r.addr \in 1..31
    <2>1. r.addr \in Addresses /\ r.len \in Nat
      BY <1>3 DEF Addresses, WebRequestTypes
    <2>2. CASE r.op = "send"
      BY <1>3, <2>1, <2>2, GpibWriteLemma DEF handleRequest
    <2>3. CASE r.op = "read"
      BY <1>3, <2>1, <2>3, GpibReadLemma DEF handleRequest
    <2>4. CASE r.op = "query"
      <3>1. PICK d \in gpibWrite(b, r.addr, r.len) : c \in gpibRead(d, r.addr)
        BY <1>3, <2>4 DEF handleRequest
      <3>2. Bus(d)
        BY <2>1, GpibWriteLemma
      <3> QED BY <2>1, <3>1, <3>2, GpibReadLemma
    <2> QED BY <1>3, <2>2, <2>3, <2>4
  <1> QED BY <1>1, <1>2, <1>3 DEF WebRequestTypes

LEMMA BootBusLemma ==
    ASSUME NEW on \in SUBSET Instruments
    PROVE  Bus(BootBus(on, StoredEoi, StoredEos)) /\ Excl(BootBus(on, StoredEoi, StoredEos))
  BY StoredAssumption DEF BootBus, Bus, Buses, Excl, ControlStates, Directions

LEMMA PowerLemma ==
    ASSUME NEW b, Bus(b), NEW i \in Instruments
    PROVE  /\ Bus(PowerOff(b, i)) /\ Bus(PowerOn(b, i))
           /\ Excl(b) => Excl(PowerOff(b, i)) /\ Excl(PowerOn(b, i))
  BY DEF Bus, Buses, Excl, NoneBut, PowerOff, PowerOn

-----------------------------------------------------------------------------
(* Parts of the steps.                                                     *)

LEMMA ReplyLemma ==
    ASSUME NEW op \in Operations \cup {"none"}, NEW error \in Errors, NEW size \in 0..1024,
           NEW more \in BOOLEAN, NEW t \in Transfers
    PROVE  Reply(op, error, size, more, t) \in Replies
  BY DEF Reply, Replies

LEMMA ReplyDataLemma ==
    ASSUME NEW op, NEW error, NEW size, NEW more, NEW t
    PROVE  Reply(op, error, size, more, t).data = t
  BY DEF Reply

LEMMA NoReplyLemma == NoReply \in Replies
  BY NoTransferLemma DEF NoReply, Reply, Replies, Errors

(* A reply without data.                                                   *)
LEMMA EmptyReplyLemma ==
    ASSUME NEW op \in Operations, NEW error \in Errors
    PROVE  /\ Reply(op, error, 0, FALSE, NoTransfer) \in Replies
           /\ Reply(op, error, 0, FALSE, NoTransfer).data = NoTransfer
  <1>1. Reply(op, error, 0, FALSE, NoTransfer) \in Replies
    BY NoTransferLemma DEF Reply, Replies
  <1>2. Reply(op, error, 0, FALSE, NoTransfer).data = NoTransfer
    BY DEF Reply
  <1> QED BY <1>1, <1>2

(* Closing connections keeps the types and the links of the others.        *)
LEMMA StopLemma ==
    ASSUME TypeOK, NEW S, Stop(S)
    PROVE  /\ conn' \in [Slots -> {"free", "open", "closing", "reset"}]
           /\ inbox' \in [Slots -> Seq(Arrivals)]
           /\ link' \in [Slots -> Addresses \cup {NoLink}]
           /\ \A s \in Slots : link'[s] # NoLink => link'[s] = link[s]
  <1>1. conn' \in [Slots -> {"free", "open", "closing", "reset"}]
    BY DEF TypeOK, Stop
  <1>2. inbox' \in [Slots -> Seq(Arrivals)]
    <2>1. <<>> \in Seq(Arrivals)
      OBVIOUS
    <2> QED BY <2>1 DEF TypeOK, Stop
  <1>3. /\ link' \in [Slots -> Addresses \cup {NoLink}]
        /\ \A s \in Slots : link'[s] # NoLink => link'[s] = link[s]
    BY DEF TypeOK, Stop
  <1> QED BY <1>1, <1>2, <1>3

(* What is executed is one of Requests, or the zeros of an unused buffer.  *)
LEMMA TakesLemma ==
    ASSUME TypeOK, NEW op, Takes(op)
    PROVE  /\ request \in RequestTypes /\ request.blank <= request.len
           /\ inbox' \in [Slots -> Seq(Arrivals)]
           /\ buffer' \in Buffered
           /\ pc' = "answer" /\ pc = "serve" /\ turn \in Slots /\ turn' = turn
           /\ UNCHANGED <<conn, backlog, bindReq, bindReply, webReq>>
  <1>1. turn \in Slots /\ inbox[turn] \in Seq(Arrivals) /\ inbox[turn] # <<>>
    BY DEF TypeOK, Takes
  <1>2. Head(inbox[turn]) \in Arrivals /\ Tail(inbox[turn]) \in Seq(Arrivals)
    BY <1>1
  <1>3. inbox' \in [Slots -> Seq(Arrivals)]
    BY <1>2 DEF TypeOK, Takes
  <1>4. request \in Buffered
    BY <1>2 DEF request, Arrivals, Buffered, TypeOK
  <1>5. buffer' \in Buffered
    BY <1>4 DEF Takes, TypeOK
  <1>6. Zeros \in RequestTypes /\ Zeros.blank <= Zeros.len
    BY DEF Zeros, RequestTypes, Operations
  <1>7. request \in RequestTypes /\ request.blank <= request.len
    BY <1>4, <1>6, RequestsAssumption DEF Buffered
  <1> QED BY <1>1, <1>3, <1>5, <1>7 DEF Takes

(* The length without the white space at the end is not negative.          *)
LEMMA TrimLemma ==
    ASSUME NEW r \in RequestTypes, r.blank <= r.len
    PROVE  (IF r.end THEN r.len - r.blank ELSE r.len) \in Nat
  <1> DEFINE l == r.len
             k == r.blank
  <1>1. l \in 0..1024 /\ k \in 0..1024
    BY DEF RequestTypes
  <1>2. k <= l
    OBVIOUS
  <1> HIDE DEF l, k
  <1>3. l - k \in Nat /\ l \in Nat
    BY <1>1, <1>2
  <1> QED BY <1>3 DEF l, k

LEMMA AdvanceLemma ==
    ASSUME turn \in Slots, Advance
    PROVE  turn' \in Slots /\ pc' \in {"serve", "web"}
  BY NSlotsAssumption DEF Advance, Slots

LEMMA ProcessRequestLemma ==
    ASSUME NEW r PROVE process_request(r) \in BindReplies
  BY DEF process_request, BindReplies, allocate, VXI11_PORT

-----------------------------------------------------------------------------
(* Types.                                                                  *)

LEMMA TypeInit == Init => TypeInv
  <1> SUFFICES ASSUME Init PROVE TypeInv
    OBVIOUS
  <1>1. Bus(bus)
    BY BootBusLemma DEF Init
  <1>2. inbox \in [Slots -> Seq(Arrivals)]
    <2>1. <<>> \in Seq(Arrivals)
      OBVIOUS
    <2> QED BY <2>1 DEF Init
  <1>3. turn \in Slots /\ backlog \in 0..MaxBacklog
    BY NSlotsAssumption, BoundsAssumption DEF Init, Slots
  <1>4. reply \in Replies
    BY NoReplyLemma DEF Init
  <1>5. bindReply \in BindReplies
    BY DEF Init, NoBindReply, BindReplies
  <1>6. bus \in Buses
    BY <1>1 DEF Bus
  <1>7. /\ conn \in [Slots -> {"free", "open", "closing", "reset"}]
        /\ addresses \in [Slots -> Addresses]
        /\ link \in [Slots -> Addresses \cup {NoLink}]
        /\ bindReq \in [Transports -> BindRequests \cup {"none"}]
        /\ webReq \in WebRequests \cup {NoWebRequest}
        /\ pc \in {"bind", "reap", "accept", "serve", "answer", "web", "ui"}
        /\ buffer \in Buffered
    BY DEF Init, Addresses, Buffered
  <1> QED BY <1>1, <1>2, <1>3, <1>4, <1>5, <1>6, <1>7 DEF TypeInv, TypeOK

(* One step of a request handler: what it does to the types.               *)
LEMMA ServedLemma ==
    ASSUME TypeInv, NEW op, Takes(op),
           Bus(bus)', reply' \in Replies, addresses' \in [Slots -> Addresses],
           link' \in [Slots -> Addresses \cup {NoLink}]
    PROVE  TypeInv'
  <1>1. bus' \in Buses
    BY DEF Bus
  <1> QED BY <1>1, TakesLemma DEF TypeInv, TypeOK

LEMMA HandlePacketTypes == TypeInv /\ handle_packet => TypeInv'
  <1> SUFFICES ASSUME TypeInv, handle_packet PROVE TypeInv'
    OBVIOUS
  <1> USE DEF TypeInv
  <1>0. /\ addresses \in [Slots -> Addresses]
        /\ link \in [Slots -> Addresses \cup {NoLink}]
        /\ turn \in Slots /\ addresses[turn] \in Addresses
    BY DEF TypeOK
  <1>1. CASE create_link
    <2> DEFINE nr == request.nr
    <2>1. Takes("create_link")
      BY <1>1 DEF create_link
    <2>2. reply' \in Replies
      BY <1>1, EmptyReplyLemma DEF create_link, Operations, Errors
    <2>3. addresses' \in [Slots -> Addresses] /\ link' \in [Slots -> Addresses \cup {NoLink}]
      BY <1>0, <1>1 DEF create_link
    <2>4. Bus(bus)'
      BY <1>1 DEF create_link
    <2> QED BY <2>1, <2>2, <2>3, <2>4, ServedLemma
  <1>2. CASE destroy_link
    <2>1. reply' \in Replies
      BY <1>2, EmptyReplyLemma DEF destroy_link, Operations, Errors
    <2> QED BY <1>0, <1>2, <2>1, ServedLemma DEF destroy_link
  <1>3. CASE read
    <2>1. PICK o \in ScpiRead(bus, addresses[turn]) :
             /\ bus' = o.bus
             /\ reply' = Reply("read", ErrorOf(o.rv), 0, o.rv = "SRS_MAXSIZE", o.data)
      BY <1>3 DEF read
    <2>2. Good(o, bus, addresses[turn])
      BY <1>0, ScpiReadLemma
    <2>3. ErrorOf(o.rv) \in Errors
      BY DEF ErrorOf, Errors
    <2> DEFINE m == o.rv = "SRS_MAXSIZE"
    <2>4. m \in BOOLEAN /\ o.data \in Transfers
      BY <2>2 DEF Good
    <2>5. reply' = Reply("read", ErrorOf(o.rv), 0, m, o.data)
      BY <2>1
    <2> HIDE DEF m
    <2>10. "read" \in Operations \cup {"none"} /\ 0 \in 0..1024
      BY DEF Operations
    <2> HIDE DEF TypeInv
    <2>6. reply' \in Replies
      BY <2>3, <2>4, <2>5, <2>10, ReplyLemma
    <2> USE DEF TypeInv
    <2>7. Bus(bus)'
      BY <2>1, <2>2 DEF Good
    <2>8. Takes("read") /\ addresses' = addresses /\ link' = link
      BY <1>3 DEF read
    <2>9. TypeInv
      OBVIOUS
    <2> HIDE DEF TypeInv
    <2> QED BY <1>0, <2>6, <2>7, <2>8, <2>9, ServedLemma
  <1>4. CASE write
    <2> DEFINE r == request
               wlen == IF r.end THEN r.len - r.blank ELSE r.len
               fin == r.end
               m == ~r.end
    <2>1. Takes("write")
      BY <1>4 DEF write
    <2>2. r \in RequestTypes /\ r.blank <= r.len
      BY <2>1, TakesLemma
    <2> HIDE DEF r
    <2>3. r.len \in 0..1024 /\ r.blank \in 0..1024
      BY <2>2 DEF RequestTypes
    <2>4. wlen \in Nat
      BY <2>2, TrimLemma
    <2>5. fin \in BOOLEAN /\ m \in BOOLEAN
      BY <2>2 DEF RequestTypes
    <2>6. \E o \in ScpiWrite(bus, addresses[turn], wlen, fin) :
             /\ bus' = o.bus
             /\ reply' = Reply("write", ErrorOf(o.rv), r.len, m, o.data)
      BY <1>4 DEF write, r
    <2> HIDE DEF wlen, fin, m
    <2>7. PICK o \in ScpiWrite(bus, addresses[turn], wlen, fin) :
             /\ bus' = o.bus
             /\ reply' = Reply("write", ErrorOf(o.rv), r.len, m, o.data)
      BY <2>6
    <2>8. Good(o, bus, addresses[turn])
      BY <1>0, <2>4, <2>5, ScpiWriteLemma
    <2>9. ErrorOf(o.rv) \in Errors /\ o.data \in Transfers
      BY <2>8 DEF ErrorOf, Errors, Good
    <2>10. reply' \in Replies
      <3>1. m \in BOOLEAN /\ "write" \in Operations \cup {"none"}
        BY <2>5 DEF Operations
      <3>2. Reply("write", ErrorOf(o.rv), r.len, m, o.data) \in Replies
        BY <2>3, <2>9, <3>1 DEF Reply, Replies
      <3> QED BY <2>7, <3>2
    <2>11. Bus(bus)'
      BY <2>7, <2>8 DEF Good
    <2> QED BY <1>0, <1>4, <2>1, <2>10, <2>11, ServedLemma DEF write
  <1>5. CASE readstb
    <2>1. reply' \in Replies
      BY <1>5, EmptyReplyLemma DEF readstb, Operations, Errors
    <2> QED BY <1>0, <1>5, <2>1, ServedLemma DEF readstb
  <1>6. CASE devclear
    <2>1. PICK o \in ScpiDevClear(bus, addresses[turn]) :
             /\ bus' = o.bus
             /\ reply' = Reply("devclear",
                               IF o.rv = "SRS_ERROR" THEN "PARAMETER_ERROR" ELSE "NO_ERROR",
                               0, FALSE, o.data)
      BY <1>6 DEF devclear
    <2>2. Good(o, bus, addresses[turn])
      BY <1>0, ScpiDevClearLemma
    <2> DEFINE e == IF o.rv = "SRS_ERROR" THEN "PARAMETER_ERROR" ELSE "NO_ERROR"
    <2>3. e \in Errors /\ o.data \in Transfers
      BY <2>2 DEF Good, Errors
    <2>4. reply' = Reply("devclear", e, 0, FALSE, o.data)
      BY <2>1
    <2> HIDE DEF e
    <2>6. Reply("devclear", e, 0, FALSE, o.data) \in Replies
      BY <2>3 DEF Reply, Replies, Operations
    <2>7. Bus(bus)'
      BY <2>1, <2>2 DEF Good
    <2> QED BY <1>0, <1>6, <2>4, <2>6, <2>7, ServedLemma DEF devclear
  <1>7. CASE Unavailable
    <2>1. reply' \in Replies
      BY <1>7, EmptyReplyLemma DEF Unavailable, Operations, Errors
    <2>2. \E op : Takes(op)
      BY <1>7 DEF Unavailable
    <2> QED BY <1>0, <1>7, <2>1, <2>2, ServedLemma DEF Unavailable
  <1> QED BY <1>1, <1>2, <1>3, <1>4, <1>5, <1>6, <1>7 DEF handle_packet

LEMMA LoopTypes == TypeInv /\ (Bind \/ Reap \/ Accept \/ Skip \/ Answer \/ Web \/ Ui) => TypeInv'
  <1> SUFFICES ASSUME TypeInv, Bind \/ Reap \/ Accept \/ Skip \/ Answer \/ Web \/ Ui
               PROVE  TypeInv'
    OBVIOUS
  <1>0. TypeOK /\ Bus(bus)
    BY DEF TypeInv
  <1>1. CASE Bind
    <2>1. bindReply' \in BindReplies
      BY <1>1, ProcessRequestLemma DEF Bind, NoBindReply, BindReplies
    <2>2. bindReq' \in [Transports -> BindRequests \cup {"none"}]
      BY <1>0, <1>1 DEF Bind, TypeOK
    <2> QED BY <1>0, <1>1, <2>1, <2>2 DEF Bind, TypeOK, TypeInv
  <1>2. CASE Reap
    <2>1. \E S : Stop(S)
      BY <1>2 DEF Reap
    <2>2. bindReply' \in BindReplies
      BY <1>2 DEF Reap, NoBindReply, BindReplies
    <2> QED BY <1>0, <1>2, <2>1, <2>2, StopLemma DEF Reap, TypeOK, TypeInv
  <1>3. CASE Accept
    <2>1. turn' \in Slots
      BY <1>3, NSlotsAssumption DEF Accept, Slots
    <2>2. CASE \E s \in Slots : backlog > 0 /\ FirstFree(s) /\ AcceptInto(s)
      <3>1. PICK s \in Slots : backlog > 0 /\ FirstFree(s) /\ AcceptInto(s)
        BY <2>2
      <3>2. inbox' \in [Slots -> Seq(Arrivals)]
        <4>1. <<>> \in Seq(Arrivals)
          OBVIOUS
        <4> QED BY <1>0, <3>1, <4>1 DEF AcceptInto, TypeOK
      <3>3. /\ conn' \in [Slots -> {"free", "open", "closing", "reset"}]
            /\ link' \in [Slots -> Addresses \cup {NoLink}]
        BY <1>0, <3>1 DEF AcceptInto, TypeOK
      <3>4. backlog' \in 0..MaxBacklog
        BY <1>0, <3>1, BoundsAssumption DEF AcceptInto, TypeOK
      <3> QED BY <1>0, <1>3, <2>1, <3>2, <3>3, <3>4 DEF Accept, TypeOK, TypeInv
    <2>3. CASE UNCHANGED <<conn, inbox, link, backlog>>
      BY <1>0, <1>3, <2>1, <2>3 DEF Accept, TypeOK, TypeInv
    <2> QED BY <1>3, <2>2, <2>3 DEF Accept
  <1>4. CASE Skip
    BY <1>0, <1>4, AdvanceLemma DEF Skip, TypeOK, TypeInv
  <1>5. CASE Answer
    <2>1. reply' \in Replies
      BY <1>5, NoReplyLemma DEF Answer
    <2>2. turn' \in Slots /\ pc' \in {"serve", "web"}
      BY <1>0, <1>5, AdvanceLemma DEF Answer, TypeOK
    <2>3. /\ conn' \in [Slots -> {"free", "open", "closing", "reset"}]
          /\ inbox' \in [Slots -> Seq(Arrivals)]
          /\ link' \in [Slots -> Addresses \cup {NoLink}]
      <3>1. CASE Stop({turn})
        BY <1>0, <3>1, StopLemma
      <3>2. CASE UNCHANGED <<conn, inbox, link>>
        BY <1>0, <3>2 DEF TypeOK
      <3> QED BY <1>5, <3>1, <3>2 DEF Answer
    <2> QED BY <1>0, <1>5, <2>1, <2>2, <2>3 DEF Answer, TypeOK, TypeInv
  <1>6. CASE Web
    <2>1. Bus(bus')
      <3>1. CASE webReq = NoWebRequest
        BY <1>0, <1>6, <3>1 DEF Web
      <3>2. CASE webReq # NoWebRequest
        <4>1. webReq \in WebRequestTypes
          BY <1>0, <3>2, WebRequestsAssumption DEF TypeOK
        <4>2. bus' \in handleRequest(bus, webReq)
          BY <1>6, <3>2 DEF Web
        <4> QED BY <1>0, <4>1, <4>2, HandleRequestLemma
      <3> QED BY <3>1, <3>2
    <2>2. webReq' \in WebRequests \cup {NoWebRequest}
      BY <1>0, <1>6 DEF Web, TypeOK
    <2>3. bus' \in Buses
      BY <2>1 DEF Bus
    <2> QED BY <1>0, <1>6, <2>1, <2>2, <2>3 DEF Web, TypeOK, TypeInv
  <1>7. CASE Ui
    <2>1. /\ conn' \in [Slots -> {"free", "open", "closing", "reset"}]
          /\ inbox' \in [Slots -> Seq(Arrivals)]
          /\ link' \in [Slots -> Addresses \cup {NoLink}]
      <3>1. CASE UNCHANGED <<conn, inbox, link>>
        BY <1>0, <3>1 DEF TypeOK
      <3>2. CASE \E S : Stop(S)
        BY <1>0, <3>2, StopLemma
      <3> QED BY <1>7, <3>1, <3>2 DEF Ui
    <2> QED BY <1>0, <1>7, <2>1 DEF Ui, TypeOK, TypeInv
  <1> QED BY <1>1, <1>2, <1>3, <1>4, <1>5, <1>6, <1>7

LEMMA EnvironmentTypes == TypeInv /\ Environment => TypeInv'
  <1> SUFFICES ASSUME TypeInv, Environment PROVE TypeInv'
    OBVIOUS
  <1>0. TypeOK /\ Bus(bus)
    BY DEF TypeInv
  <1>1. CASE Connect
    <2>1. backlog' \in 0..MaxBacklog
      BY <1>0, <1>1, BoundsAssumption DEF Connect, TypeOK
    <2> QED BY <1>0, <1>1, <2>1 DEF Connect, TypeOK, TypeInv
  <1>2. CASE AskWeb
    BY <1>0, <1>2 DEF AskWeb, TypeOK, TypeInv
  <1>3. CASE Reboot
    <2>1. Bus(bus')
      BY <1>0, <1>3, BootBusLemma DEF Reboot, Bus, Buses
    <2>2. bus' \in Buses
      BY <2>1 DEF Bus
    <2>3. Stop(Slots)
      BY <1>3 DEF Reboot
    <2>4. turn' \in Slots /\ backlog' \in 0..MaxBacklog /\ addresses' \in [Slots -> Addresses]
      BY <1>3, NSlotsAssumption, BoundsAssumption DEF Reboot, Slots, Addresses
    <2>5. reply' \in Replies /\ bindReply' \in BindReplies
      BY <1>3, NoReplyLemma DEF Reboot, NoBindReply, BindReplies
    <2>6. /\ bindReq' \in [Transports -> BindRequests \cup {"none"}]
          /\ webReq' \in WebRequests \cup {NoWebRequest}
          /\ pc' = "bind" /\ buffer' \in Buffered
      BY <1>3 DEF Reboot, Buffered
    <2> QED BY <1>0, <2>1, <2>2, <2>3, <2>4, <2>5, <2>6, StopLemma DEF TypeOK, TypeInv
  <1>4. ASSUME NEW s \in Slots, Request(s) PROVE TypeInv'
    <2>1. PICK r \in Requests : inbox' = [inbox EXCEPT ![s] = Append(@, r)]
      BY <1>4 DEF Request
    <2>2. inbox' \in [Slots -> Seq(Arrivals)]
      <3>1. inbox[s] \in Seq(Arrivals)
        BY <1>0 DEF TypeOK
      <3>2. Append(inbox[s], r) \in Seq(Arrivals)
        BY <3>1 DEF Arrivals
      <3> QED BY <1>0, <2>1, <3>2 DEF TypeOK
    <2> QED BY <1>0, <1>4, <2>2 DEF Request, TypeOK, TypeInv
  <1>5. ASSUME NEW s \in Slots, PeerCloses(s) PROVE TypeInv'
    <2>1. conn' \in [Slots -> {"free", "open", "closing", "reset"}]
      BY <1>0, <1>5 DEF PeerCloses, TypeOK
    <2> QED BY <1>0, <1>5, <2>1 DEF PeerCloses, TypeOK, TypeInv
  <1>6. ASSUME NEW t \in Transports, AskPort(t) PROVE TypeInv'
    <2>1. bindReq' \in [Transports -> BindRequests \cup {"none"}]
      BY <1>0, <1>6 DEF AskPort, TypeOK
    <2> QED BY <1>0, <1>6, <2>1 DEF AskPort, TypeOK, TypeInv
  <1>7. ASSUME NEW i \in Instruments, SwitchInstrument(i) PROVE TypeInv'
    <2>1. Bus(bus')
      BY <1>0, <1>7, PowerLemma DEF SwitchInstrument
    <2>2. bus' \in Buses
      BY <2>1 DEF Bus
    <2> QED BY <1>0, <1>7, <2>1, <2>2 DEF SwitchInstrument, TypeOK, TypeInv
  <1>8. ASSUME NEW s \in Slots, GoesAway(s) PROVE TypeInv'
    <2>1. conn' \in [Slots -> {"free", "open", "closing", "reset"}]
      BY <1>0, <1>8 DEF GoesAway, TypeOK
    <2>2. inbox' \in [Slots -> Seq(Arrivals)]
      <3>1. inbox[s] \in Seq(Arrivals) /\ Part \in Arrivals
        BY <1>0 DEF TypeOK, Arrivals
      <3>2. Append(inbox[s], Part) \in Seq(Arrivals)
        BY <3>1
      <3> QED BY <1>0, <1>8, <3>2 DEF GoesAway, TypeOK
    <2> QED BY <1>0, <1>8, <2>1, <2>2 DEF GoesAway, TypeOK, TypeInv
  <1> QED BY <1>1, <1>2, <1>3, <1>4, <1>5, <1>6, <1>7, <1>8 DEF Environment

LEMMA TypeStep == TypeInv /\ [Next]_vars => TypeInv'
  <1> SUFFICES ASSUME TypeInv, [Next]_vars PROVE TypeInv'
    OBVIOUS
  <1>1. CASE UNCHANGED vars
    BY <1>1 DEF TypeInv, TypeOK, vars
  <1> QED BY <1>1, HandlePacketTypes, LoopTypes, EnvironmentTypes DEF Next, Loop

(* Every variable keeps its type, and only instruments that are on are     *)
(* addressed, whatever the network, the instruments, the port mapper and   *)
(* the web page do.                                                        *)
THEOREM TypeCorrect == Spec => []TypeOK
  <1>1. Spec => []TypeInv
    BY TypeInit, TypeStep, PTL DEF Spec
  <1>2. TypeInv => TypeOK
    BY DEF TypeInv
  <1> QED BY <1>1, <1>2, PTL

-----------------------------------------------------------------------------
(* Routing, when only the VXI-11 server uses the bus.                      *)

LEMMA ExclusiveLemma == ExclusiveAddressing <=> Excl(bus)
  BY DEF ExclusiveAddressing, Excl, NoneBut

LEMMA LinkedStep == TypeInv /\ Linked /\ [Next]_vars => Linked'
  <1> SUFFICES ASSUME TypeInv, Linked, [Next]_vars PROVE Linked'
    OBVIOUS
  <1>0. TypeOK
    BY DEF TypeInv
  <1>1. CASE UNCHANGED <<link, addresses>>
    BY <1>1 DEF Linked
  <1>2. CASE (\E S : Stop(S)) /\ addresses' = addresses
    BY <1>0, <1>2, StopLemma DEF Linked
  <1>3. CASE (\E s : AcceptInto(s)) /\ addresses' = addresses
    BY <1>0, <1>3 DEF Linked, AcceptInto, TypeOK
  <1>4. CASE create_link
    <2>1. CASE request.nr \in Addresses
      <3>1. /\ addresses' = [addresses EXCEPT ![turn] = request.nr]
            /\ link' = [link EXCEPT ![turn] = request.nr]
        BY <1>4, <2>1 DEF create_link
      <3>2. addresses \in [Slots -> Addresses] /\ link \in [Slots -> Addresses \cup {NoLink}]
        BY <1>0 DEF TypeOK
      <3> QED BY <3>1, <3>2 DEF Linked
    <2>2. CASE request.nr \notin Addresses
      BY <1>1, <1>4, <2>2 DEF create_link
    <2> QED BY <2>1, <2>2
  <1>5. CASE handle_packet /\ ~create_link
    <2>1. destroy_link \/ read \/ write \/ readstb \/ devclear \/ Unavailable
      BY <1>5 DEF handle_packet
    <2>2. CASE destroy_link
      BY <1>1, <2>2 DEF destroy_link
    <2>3. CASE read
      BY <1>1, <2>3 DEF read
    <2>4. CASE write
      BY <1>1, <2>4 DEF write
    <2>5. CASE readstb
      BY <1>1, <2>5 DEF readstb
    <2>6. CASE devclear
      BY <1>1, <2>6 DEF devclear
    <2>7. CASE Unavailable
      BY <1>1, <2>7 DEF Unavailable
    <2> QED BY <2>1, <2>2, <2>3, <2>4, <2>5, <2>6, <2>7
  <1>6. CASE Bind \/ Reap \/ Accept \/ Skip \/ Answer \/ Web \/ Ui
    BY <1>1, <1>2, <1>3, <1>6 DEF Bind, Reap, Accept, Skip, Answer, Web, Ui
  <1>7. CASE Reboot
    BY <1>7 DEF Reboot, Stop, Linked
  <1>8. CASE Environment /\ ~Reboot
    BY <1>1, <1>8 DEF Environment, Connect, AskWeb, Request, PeerCloses, GoesAway, AskPort,
                      SwitchInstrument
  <1>9. CASE UNCHANGED vars
    BY <1>1, <1>9 DEF vars
  <1> QED BY <1>4, <1>5, <1>6, <1>7, <1>8, <1>9 DEF Next, Loop

LEMMA RoutingInit == Init => RoutingInv
  <1> SUFFICES ASSUME Init PROVE RoutingInv
    OBVIOUS
  <1>1. Excl(bus)
    BY BootBusLemma DEF Init
  <1>2. Linked /\ RoutedToLink
    BY DEF Init, Linked, RoutedToLink
  <1> QED BY <1>1, <1>2, TypeInit, ExclusiveLemma DEF RoutingInv

(* Serving a request uses the bus for the address of the slot, or not at   *)
(* all.                                                                    *)
LEMMA HandlePacketLemma ==
    ASSUME TypeInv, handle_packet
    PROVE  /\ turn' = turn
           /\ \/ \E o : /\ Good(o, bus, addresses[turn])
                       /\ bus' = o.bus /\ reply'.data = o.data
                       /\ UNCHANGED <<addresses, link>>
              \/ bus' = bus /\ reply'.data = NoTransfer
  <1>0. /\ TypeOK /\ Bus(bus)
        /\ turn \in Slots /\ addresses[turn] \in Addresses
    BY DEF TypeInv, TypeOK
  <1>1. turn' = turn
    BY DEF handle_packet, create_link, destroy_link, read, write, readstb, devclear,
           Unavailable, Takes
  <1>2. CASE create_link \/ destroy_link \/ readstb \/ Unavailable
    <2>1. reply'.data = NoTransfer
      BY <1>2, EmptyReplyLemma
         DEF create_link, destroy_link, readstb, Unavailable, Operations, Errors
    <2> QED BY <1>1, <1>2, <2>1 DEF create_link, destroy_link, readstb, Unavailable
  <1>3. CASE read
    <2>1. PICK o \in ScpiRead(bus, addresses[turn]) :
             /\ bus' = o.bus
             /\ reply'.data = o.data
      BY <1>3, ReplyDataLemma DEF read
    <2>2. Good(o, bus, addresses[turn])
      BY <1>0, ScpiReadLemma
    <2> QED BY <1>1, <1>3, <2>1, <2>2 DEF read
  <1>4. CASE write
    <2>1. PICK len, fin, o :
             /\ len \in Nat /\ fin \in BOOLEAN
             /\ o \in ScpiWrite(bus, addresses[turn], len, fin)
             /\ bus' = o.bus
             /\ reply'.data = o.data
      <3> DEFINE r == request
                 wlen == IF r.end THEN r.len - r.blank ELSE r.len
                 fin == r.end
      <3>1. r \in RequestTypes /\ r.blank <= r.len
        BY <1>0, <1>4, TakesLemma DEF write
      <3> HIDE DEF r
      <3>2. wlen \in Nat /\ fin \in BOOLEAN
        BY <3>1, TrimLemma DEF RequestTypes
      <3>3. \E o \in ScpiWrite(bus, addresses[turn], wlen, fin) :
               /\ bus' = o.bus
               /\ reply'.data = o.data
        BY <1>4, ReplyDataLemma DEF write, r
      <3> HIDE DEF wlen, fin
      <3> QED BY <3>2, <3>3
    <2>2. Good(o, bus, addresses[turn])
      BY <1>0, <2>1, ScpiWriteLemma
    <2> QED BY <1>1, <1>4, <2>1, <2>2 DEF write
  <1>5. CASE devclear
    <2>1. PICK o \in ScpiDevClear(bus, addresses[turn]) :
             /\ bus' = o.bus
             /\ reply'.data = o.data
      BY <1>5 DEF devclear, Reply
    <2>2. Good(o, bus, addresses[turn])
      BY <1>0, ScpiDevClearLemma
    <2> QED BY <1>1, <1>5, <2>1, <2>2 DEF devclear
  <1> QED BY <1>2, <1>3, <1>4, <1>5 DEF handle_packet

LEMMA HandlePacketRouting == RoutingInv /\ handle_packet => RoutingInv'
  <1> SUFFICES ASSUME RoutingInv, handle_packet PROVE RoutingInv'
    OBVIOUS
  <1>0. /\ TypeOK /\ TypeInv /\ Bus(bus) /\ Excl(bus) /\ Linked /\ turn \in Slots
    BY ExclusiveLemma DEF RoutingInv, TypeInv, TypeOK
  <1>1. TypeInv' /\ Linked'
    BY <1>0, HandlePacketTypes, LinkedStep DEF Next, Loop
  <1>2. turn' = turn
    BY <1>0, HandlePacketLemma
  <1>3. CASE \E o :
               /\ Good(o, bus, addresses[turn])
               /\ bus' = o.bus /\ reply'.data = o.data
               /\ UNCHANGED <<addresses, link>>
    <2>1. PICK o : /\ Good(o, bus, addresses[turn])
                   /\ bus' = o.bus /\ reply'.data = o.data
                   /\ UNCHANGED <<addresses, link>>
      BY <1>3
    <2>2. Excl(bus')
      BY <1>0, <2>1 DEF Good
    <2>3. reply'.data.to \cup reply'.data.from \subseteq {Target(addresses[turn])}
      BY <1>0, <2>1 DEF Good
    <2>4. link[turn] # NoLink => link[turn] = addresses[turn]
      BY <1>0 DEF Linked
    <2>5. RoutedToLink'
      BY <1>2, <2>1, <2>3, <2>4 DEF RoutedToLink
    <2> QED BY <1>1, <2>2, <2>5, ExclusiveLemma DEF RoutingInv, ExclusiveAddressing, Excl, NoneBut
  <1>4. CASE bus' = bus /\ reply'.data = NoTransfer
    <2>1. RoutedToLink'
      BY <1>4, NoTransferLemma DEF RoutedToLink
    <2> QED BY <1>0, <1>1, <1>4, <2>1 DEF RoutingInv, ExclusiveAddressing, Excl, NoneBut
  <1> QED BY <1>0, <1>3, <1>4, HandlePacketLemma

(* Without web requests the loop uses the bus for VXI-11 requests only.    *)
LEMMA LoopBusLemma ==
    ASSUME WebRequests = {}, TypeInv, Bind \/ Reap \/ Accept \/ Skip \/ Answer \/ Web \/ Ui
    PROVE  bus' = bus
  <1>1. webReq = NoWebRequest
    BY DEF TypeInv, TypeOK
  <1> QED BY <1>1 DEF Bind, Reap, Accept, Skip, Answer, Web, Ui

LEMMA LoopRouting ==
    ASSUME WebRequests = {}
    PROVE  RoutingInv /\ (Bind \/ Reap \/ Accept \/ Skip \/ Answer \/ Web \/ Ui)
             => RoutingInv'
  <1> SUFFICES ASSUME RoutingInv, Bind \/ Reap \/ Accept \/ Skip \/ Answer \/ Web \/ Ui
               PROVE  RoutingInv'
    OBVIOUS
  <1>0. TypeInv /\ TypeOK /\ Linked /\ ExclusiveAddressing /\ turn \in Slots
    BY DEF RoutingInv, TypeInv, TypeOK
  <1>1. TypeInv' /\ Linked'
    BY <1>0, LoopTypes, LinkedStep DEF Next, Loop
  <1>2. bus' = bus
    BY <1>0, LoopBusLemma
  <1>3. pc' # "answer"
    BY <1>0, AdvanceLemma DEF Bind, Reap, Accept, Skip, Answer, Web, Ui
  <1> QED BY <1>0, <1>1, <1>2, <1>3
          DEF RoutingInv, ExclusiveAddressing, RoutedToLink

LEMMA EnvironmentRouting == RoutingInv /\ Environment => RoutingInv'
  <1> SUFFICES ASSUME RoutingInv, Environment PROVE RoutingInv'
    OBVIOUS
  <1>0. TypeInv /\ TypeOK /\ Bus(bus) /\ Linked /\ ExclusiveAddressing /\ RoutedToLink
    BY DEF RoutingInv, TypeInv
  <1>1. TypeInv'
    BY <1>0, EnvironmentTypes
  <1>2. CASE UNCHANGED <<addresses, link, pc, turn, reply>> /\ bus' = bus
    BY <1>0, <1>1, <1>2 DEF RoutingInv, Linked, ExclusiveAddressing, RoutedToLink
  <1>3. CASE Reboot
    <2>1. Excl(bus')
      BY <1>0, <1>3, BootBusLemma DEF Reboot, Bus, Buses
    <2>2. Linked'
      BY <1>3 DEF Reboot, Stop, Linked
    <2>3. RoutedToLink'
      BY <1>3 DEF Reboot, RoutedToLink
    <2> QED BY <1>1, <2>1, <2>2, <2>3 DEF RoutingInv, ExclusiveAddressing, Excl, NoneBut
  <1>4. ASSUME NEW i \in Instruments, SwitchInstrument(i) PROVE RoutingInv'
    <2>1. Excl(bus')
      BY <1>0, <1>4, PowerLemma, ExclusiveLemma DEF SwitchInstrument
    <2>2. Linked' /\ RoutedToLink'
      BY <1>0, <1>4 DEF SwitchInstrument, Linked, RoutedToLink
    <2> QED BY <1>1, <2>1, <2>2 DEF RoutingInv, ExclusiveAddressing, Excl, NoneBut
  <1> QED BY <1>2, <1>3, <1>4 DEF Environment, Connect, AskWeb, Request, PeerCloses, GoesAway, AskPort

LEMMA RoutingStep ==
    ASSUME WebRequests = {}
    PROVE  RoutingInv /\ [Next]_vars => RoutingInv'
  <1> SUFFICES ASSUME RoutingInv, [Next]_vars PROVE RoutingInv'
    OBVIOUS
  <1>1. CASE UNCHANGED vars
    BY <1>1 DEF RoutingInv, TypeInv, TypeOK, Linked, ExclusiveAddressing, RoutedToLink, vars
  <1> QED BY <1>1, HandlePacketRouting, LoopRouting, EnvironmentRouting DEF Next, Loop

LEMMA RoutingInvariant ==
    ASSUME WebRequests = {}
    PROVE  Spec => []RoutingInv
  BY RoutingInit, RoutingStep, PTL DEF Spec

(* A client with a link reaches the instrument of its link and no other,   *)
(* for any number of clients, any instruments and requests, with time-outs *)
(* and power failures at any byte, as long as no web request uses the bus. *)
THEOREM RoutedCorrect ==
    ASSUME WebRequests = {}
    PROVE  Spec => []RoutedToLink
  <1>1. RoutingInv => RoutedToLink
    BY DEF RoutingInv
  <1> QED BY <1>1, RoutingInvariant, PTL

(* Nobody but the cached address is addressed, under the same assumption.  *)
THEOREM ExclusiveCorrect ==
    ASSUME WebRequests = {}
    PROVE  Spec => []ExclusiveAddressing
  <1>1. RoutingInv => ExclusiveAddressing
    BY DEF RoutingInv
  <1> QED BY <1>1, RoutingInvariant, PTL

-----------------------------------------------------------------------------
(* The cached address.                                                     *)

LEMMA CacheInit == Init => Cached(bus) /\ Coherent(bus)
  <1> SUFFICES ASSUME Init PROVE Cached(bus) /\ Coherent(bus)
    OBVIOUS
  <1>1. PICK on \in SUBSET Instruments : bus = BootBus(on, StoredEoi, StoredEos)
    BY DEF Init
  <1>2. bus.paddr = NoDevice /\ NoDevice \notin bus.powered
    BY <1>1, InstrumentsAssumption DEF BootBus, NoDevice
  <1> QED BY <1>2 DEF Cached, Coherent

LEMMA CacheStep ==
    ASSUME WebRequests = {}, TypeInv, [Next]_vars
    PROVE  /\ Cached(bus) => Cached(bus')
           /\ ~HandshakeFaults /\ "power" \notin Disturbances /\ Coherent(bus)
                => Coherent(bus')
  <1>1. CASE bus' = bus
    BY <1>1
  <1>2. CASE handle_packet
    BY <1>1, <1>2, HandlePacketLemma DEF Good
  <1>3. CASE Bind \/ Reap \/ Accept \/ Skip \/ Answer \/ Web \/ Ui
    BY <1>1, <1>3, LoopBusLemma
  <1>4. CASE Reboot
    <2>1. bus.powered \subseteq Instruments
      BY DEF TypeInv, Bus, Buses
    <2>2. bus'.paddr = NoDevice /\ NoDevice \notin bus'.powered
      BY <1>4, <2>1, InstrumentsAssumption DEF Reboot, BootBus, NoDevice
    <2> QED BY <2>2 DEF Cached, Coherent
  <1>5. ASSUME NEW i \in Instruments, SwitchInstrument(i)
        PROVE  (Cached(bus) => Cached(bus')) /\ "power" \in Disturbances
    <2>1. bus'.paddr = bus.paddr /\ bus'.deviceAddressed = bus.deviceAddressed
      BY <1>5 DEF SwitchInstrument, PowerOff, PowerOn, TypeInv, Bus, Buses
    <2> QED BY <1>5, <2>1 DEF Cached, SwitchInstrument
  <1>6. CASE Environment /\ ~Reboot /\ ~(\E i \in Instruments : SwitchInstrument(i))
    BY <1>1, <1>6 DEF Environment, Connect, AskWeb, Request, PeerCloses, GoesAway, AskPort
  <1>7. CASE UNCHANGED vars
    BY <1>1, <1>7 DEF vars
  <1> QED BY <1>2, <1>3, <1>4, <1>5, <1>6, <1>7 DEF Next, Loop, Environment

(* A cached address always stands for an addressed device, through every   *)
(* time-out, power failure and reboot, as long as no web request uses the  *)
(* bus: SCPI_handler::addressDevice never skips an addressing when the     *)
(* driver believes that nobody is addressed.                               *)
THEOREM CachedCorrect ==
    ASSUME WebRequests = {}
    PROVE  Spec => []CachedMeansAddressed
  <1>1. Init => TypeInv /\ Cached(bus)
    BY TypeInit, CacheInit
  <1>2. TypeInv /\ Cached(bus) /\ [Next]_vars => TypeInv' /\ Cached(bus)'
    BY TypeStep, CacheStep
  <1>3. Cached(bus) => CachedMeansAddressed
    BY DEF Cached, CachedMeansAddressed
  <1> QED BY <1>1, <1>2, <1>3, PTL DEF Spec

(* The instrument at the cached address, if it is on, is addressed and in  *)
(* the direction the driver believes, when no byte times out, instruments  *)
(* stay on or off, and no web request uses the bus.  (With time-outs it is *)
(* false after a device clear that failed half way, main.cpp:290.)         *)
THEOREM CoherentCorrect ==
    ASSUME WebRequests = {}, ~HandshakeFaults, "power" \notin Disturbances
    PROVE  Spec => []CacheCoherent
  <1>1. Init => TypeInv /\ Coherent(bus)
    BY TypeInit, CacheInit
  <1>2. TypeInv /\ Coherent(bus) /\ [Next]_vars => TypeInv' /\ Coherent(bus)'
    BY TypeStep, CacheStep
  <1>3. Coherent(bus) => CacheCoherent
    BY DEF Coherent, CacheCoherent
  <1> QED BY <1>1, <1>2, <1>3, PTL DEF Spec

-----------------------------------------------------------------------------
(* Reads, while the web page uses the bus too.                             *)

(* A find ends in the addressing of a listener, and leaves no talker.      *)
LEMMA FndlTalkersLemma ==
    ASSUME ~HandshakeFaults, NEW b, Bus(b), NEW c \in fndl(b)
    PROVE  c.talkers = {}
  <1>1. ASSUME NEW d, Bus(d), NEW p \in 0..30, NEW o \in addressDevice(d, p, "TOLISTEN"),
               c = setControls(o.bus, "CIDS")
        PROVE  c.talkers = {}
    <2>1. Bus(o.bus) /\ o.bus.talkers = {}
      BY <1>1, AddressDeviceLemma
    <2> QED BY <1>1, <2>1, SetControlsLemma DEF ControlStates
  <1>2. CASE \E o \in addressDevice(b, LastScanned, "TOLISTEN") : c = setControls(o.bus, "CIDS")
    <2>1. LastScanned \in 0..30
      BY DEF LastScanned
    <2> QED BY <1>1, <1>2, <2>1
  <1>3. CASE \E p \in Scanned : \E d \in ScanReaches(b, p) :
                \E o \in addressDevice(d, p, "TOLISTEN") : c = setControls(o.bus, "CIDS")
    <2>1. PICK p, d, o :
             /\ p \in Scanned
             /\ d \in ScanReaches(b, p)
             /\ o \in addressDevice(d, p, "TOLISTEN")
             /\ c = setControls(o.bus, "CIDS")
      BY <1>3
    <2>2. Bus(d) /\ p \in 0..30
      BY <2>1, ScanReachesLemma DEF Scanned
    <2> QED BY <1>1, <2>1, <2>2
  <1> QED BY <1>2, <1>3 DEF fndl, Passed, Failed

(* A send and a read end in unAddressDevice.                               *)
LEMMA GpibWriteTalkersLemma ==
    ASSUME ~HandshakeFaults, NEW b, Bus(b), NEW address \in Addresses, NEW len \in Nat,
           NEW c \in gpibWrite(b, address, len)
    PROVE  c.talkers = {}
  <1> DEFINE d == [b EXCEPT !.paddr = address]
  <1>1. Bus(d)
    BY StoreAddressLemma
  <1>2. PICK a, s, u :
          /\ a \in addressDevice(d, address, "TOLISTEN")
          /\ s \in sendData(a.bus, len, TRUE)
          /\ u \in unAddressDevice(s.bus)
          /\ c = u.bus
    BY DEF gpibWrite, gpibWriteOwnAddress
  <1> HIDE DEF d
  <1>3. Bus(a.bus)
    BY <1>1, <1>2, AddressDeviceLemma DEF Addresses
  <1>4. Bus(s.bus)
    BY <1>2, <1>3, SendDataLemma
  <1> QED BY <1>2, <1>4, UnAddressDeviceLemma

LEMMA GpibReadTalkersLemma ==
    ASSUME ~HandshakeFaults, NEW b, Bus(b), NEW address \in Addresses,
           NEW c \in gpibRead(b, address)
    PROVE  c.talkers = {}
  <1> DEFINE d == [b EXCEPT !.paddr = address]
  <1>1. Bus(d)
    BY StoreAddressLemma
  <1>2. PICK a, r, u :
          /\ a \in addressDevice(d, address, "TOTALK")
          /\ r \in receiveData(a.bus, FALSE)
          /\ u \in unAddressDevice(r.bus)
          /\ c = u.bus
    BY DEF gpibRead, gpibReadStillTalking
  <1> HIDE DEF d
  <1>3. Bus(a.bus)
    BY <1>1, <1>2, AddressDeviceLemma DEF Addresses
  <1>4. Bus(r.bus)
    BY <1>2, <1>3, ReceiveDataLemma
  <1> QED BY <1>2, <1>4, UnAddressDeviceLemma

LEMMA WebTalksLemma ==
    ASSUME ~HandshakeFaults, NEW b, Bus(b), Talks(b), NEW r \in WebRequestTypes,
           NEW c \in handleRequest(b, r)
    PROVE  Talks(c)
  <1>1. CASE r.op = "fnd"
    BY <1>1, FndlTalkersLemma DEF handleRequest, Talks
  <1>2. CASE r.op # "fnd" /\ (r.addr \notin 1..31 \/ r.op = "page")
    <2>1. handleRequest(b, r) = {b}
      BY <1>2 DEF handleRequest
    <2> QED BY <2>1
  <1>3. CASE r.op \in {"send", "read", "query"} /\ r.addr \in 1..31
    <2>1. r.addr \in Addresses /\ r.len \in Nat
      BY <1>3 DEF Addresses, WebRequestTypes
    <2>2. CASE r.op = "send"
      BY <1>3, <2>1, <2>2, GpibWriteTalkersLemma DEF handleRequest, Talks
    <2>3. CASE r.op = "read"
      BY <1>3, <2>1, <2>3, GpibReadTalkersLemma DEF handleRequest, Talks
    <2>4. CASE r.op = "query"
      <3>1. PICK d \in gpibWrite(b, r.addr, r.len) : c \in gpibRead(d, r.addr)
        BY <1>3, <2>4 DEF handleRequest
      <3>2. Bus(d)
        BY <2>1, GpibWriteLemma
      <3> QED BY <2>1, <3>1, <3>2, GpibReadTalkersLemma DEF Talks
    <2> QED BY <1>3, <2>2, <2>3, <2>4
  <1> QED BY <1>1, <1>2, <1>3 DEF WebRequestTypes

LEMMA TalksStep ==
    ASSUME ~HandshakeFaults, TypeInv, Talks(bus), [Next]_vars
    PROVE  Talks(bus')
  <1>0. Bus(bus) /\ webReq \in WebRequests \cup {NoWebRequest}
    BY DEF TypeInv, TypeOK
  <1>1. CASE bus' = bus
    BY <1>1
  <1>2. CASE handle_packet
    BY <1>1, <1>2, HandlePacketLemma DEF Good
  <1>3. CASE Web
    <2>1. CASE webReq = NoWebRequest
      BY <1>1, <1>3, <2>1 DEF Web
    <2>2. CASE webReq # NoWebRequest
      <3>1. bus' \in handleRequest(bus, webReq) /\ webReq \in WebRequestTypes
        BY <1>0, <1>3, <2>2, WebRequestsAssumption DEF Web
      <3> QED BY <1>0, <3>1, WebTalksLemma
    <2> QED BY <2>1, <2>2
  <1>4. CASE Bind \/ Reap \/ Accept \/ Skip \/ Answer \/ Ui
    BY <1>1, <1>4 DEF Bind, Reap, Accept, Skip, Answer, Ui
  <1>5. CASE Reboot
    BY <1>5 DEF Reboot, BootBus, Talks
  <1>6. ASSUME NEW i \in Instruments, SwitchInstrument(i) PROVE Talks(bus')
    <2>1. bus'.talkers \subseteq bus.talkers /\ bus'.paddr = bus.paddr
      BY <1>0, <1>6 DEF SwitchInstrument, PowerOff, PowerOn, Bus, Buses
    <2> QED BY <2>1 DEF Talks
  <1>7. CASE Environment /\ ~Reboot /\ ~(\E i \in Instruments : SwitchInstrument(i))
    BY <1>1, <1>7 DEF Environment, Connect, AskWeb, Request, PeerCloses, GoesAway, AskPort
  <1>8. CASE UNCHANGED vars
    BY <1>1, <1>8 DEF vars
  <1> QED BY <1>2, <1>3, <1>4, <1>5, <1>6, <1>7, <1>8 DEF Next, Loop, Environment

(* A read brings its own instrument's data because whatever talks is the   *)
(* cached address, even where a web request has left somebody else         *)
(* listening.                                                              *)
ReadInv == TypeInv /\ Linked /\ Talks(bus) /\ ReadFromOwnInstrument

LEMMA ReadStep ==
    ASSUME ~HandshakeFaults
    PROVE  ReadInv /\ [Next]_vars => ReadInv'
  <1> SUFFICES ASSUME ReadInv, [Next]_vars PROVE ReadInv'
    OBVIOUS
  <1>0. TypeInv /\ TypeOK /\ Linked /\ Talks(bus) /\ ReadFromOwnInstrument /\ turn \in Slots
    BY DEF ReadInv, TypeInv, TypeOK
  <1>1. TypeInv' /\ Linked' /\ Talks(bus')
    BY <1>0, TypeStep, LinkedStep, TalksStep
  <1>2. ReadFromOwnInstrument'
    <2>1. CASE handle_packet
      <3>1. CASE \E o : /\ Good(o, bus, addresses[turn])
                        /\ bus' = o.bus /\ reply'.data = o.data
                        /\ UNCHANGED <<addresses, link>>
        <4>1. PICK o : /\ Good(o, bus, addresses[turn])
                       /\ reply'.data = o.data /\ UNCHANGED link
          BY <3>1
        <4>2. reply'.data.from \subseteq {Target(addresses[turn])}
          BY <1>0, <4>1 DEF Good
        <4>3. link[turn] # NoLink => link[turn] = addresses[turn]
          BY <1>0 DEF Linked
        <4>4. turn' = turn
          BY <1>0, <2>1, HandlePacketLemma
        <4> QED BY <4>1, <4>2, <4>3, <4>4 DEF ReadFromOwnInstrument
      <3>2. CASE reply'.data = NoTransfer
        BY <3>2, NoTransferLemma DEF ReadFromOwnInstrument
      <3> QED BY <1>0, <2>1, <3>1, <3>2, HandlePacketLemma
    <2>2. CASE Bind \/ Reap \/ Accept \/ Skip \/ Answer \/ Web \/ Ui
      <3>1. pc' # "answer"
        BY <1>0, <2>2, AdvanceLemma DEF Bind, Reap, Accept, Skip, Answer, Web, Ui
      <3> QED BY <3>1 DEF ReadFromOwnInstrument
    <2>3. CASE Reboot
      BY <2>3 DEF Reboot, ReadFromOwnInstrument
    <2>4. CASE Environment /\ ~Reboot
      BY <1>0, <2>4 DEF Environment, Connect, AskWeb, Request, PeerCloses, GoesAway, AskPort,
                        SwitchInstrument, ReadFromOwnInstrument
    <2>5. CASE UNCHANGED vars
      BY <1>0, <2>5 DEF vars, ReadFromOwnInstrument
    <2> QED BY <2>1, <2>2, <2>3, <2>4, <2>5 DEF Next, Loop
  <1> QED BY <1>1, <1>2 DEF ReadInv

(* As long as no byte times out, what a client with a link reads comes     *)
(* from the instrument of its link or from nobody, whatever web requests   *)
(* find, send or read in between, and whatever instruments are switched.   *)
THEOREM ReadCorrect ==
    ASSUME ~HandshakeFaults
    PROVE  Spec => []ReadFromOwnInstrument
  <1>1. Init => ReadInv
    <2>1. Init => Talks(bus) /\ Linked /\ ReadFromOwnInstrument
      BY DEF Init, BootBus, Talks, Linked, ReadFromOwnInstrument
    <2> QED BY <2>1, TypeInit DEF ReadInv
  <1>2. ReadInv => ReadFromOwnInstrument
    BY DEF ReadInv
  <1> QED BY <1>1, <1>2, ReadStep, PTL DEF Spec

-----------------------------------------------------------------------------
(* The port mapper.                                                        *)

LEMMA PortStep == PortNeverZero /\ [Next]_vars => PortNeverZero'
  <1> SUFFICES ASSUME PortNeverZero, [Next]_vars PROVE PortNeverZero'
    OBVIOUS
  <1>1. CASE bindReply' = bindReply
    BY <1>1 DEF PortNeverZero
  <1>2. CASE bindReply' = NoBindReply
    BY <1>2 DEF PortNeverZero, NoBindReply
  <1>3. CASE Bind
    <2>1. CASE have_free_connections /\ bindReq[NextBind] # "none"
      <3>1. bindReply' = process_request(bindReq[NextBind]) /\ allocate = VXI11_PORT
        BY <1>3, <2>1 DEF Bind, allocate
      <3> QED BY <3>1 DEF process_request, PortNeverZero, VXI11_PORT
    <2>2. CASE ~(have_free_connections /\ bindReq[NextBind] # "none")
      BY <1>2, <1>3, <2>2 DEF Bind
    <2> QED BY <2>1, <2>2
  <1>4. CASE handle_packet
    BY <1>1, <1>4 DEF handle_packet, create_link, destroy_link, read, write, readstb, devclear,
                      Unavailable, Takes
  <1>5. CASE Reap \/ Accept \/ Skip \/ Answer \/ Web \/ Ui
    BY <1>1, <1>2, <1>5 DEF Reap, Accept, Skip, Answer, Web, Ui
  <1>6. CASE Environment
    BY <1>1, <1>2, <1>6 DEF Environment, Connect, AskWeb, Request, PeerCloses, GoesAway,
                            AskPort, SwitchInstrument, Reboot
  <1>7. CASE UNCHANGED vars
    BY <1>1, <1>7 DEF vars
  <1> QED BY <1>3, <1>4, <1>5, <1>6, <1>7 DEF Next, Loop

(* No GET_PORT is answered with an error or with port 0, whatever happens  *)
(* to the connections: loop() looks at a request only while one is free.   *)
THEOREM PortCorrect == Spec => []PortNeverZero
  <1>1. Init => PortNeverZero
    BY DEF Init, PortNeverZero, NoBindReply
  <1> QED BY <1>1, PortStep, PTL DEF Spec

-----------------------------------------------------------------------------
(* The connections, when no request is cut off and nothing closes them all.*)

Whole == inbox \in [Slots -> Seq(Requests)]

(* Isolation is a property of steps; what it needs of the states is that   *)
(* addresses[] agrees with the links and that the requests are whole.      *)
SlotInv == TypeInv /\ Linked /\ Whole

LEMMA WholeStop ==
    ASSUME Whole, NEW S, Stop(S) PROVE Whole'
  <1>1. <<>> \in Seq(Requests)
    OBVIOUS
  <1> QED BY <1>1 DEF Whole, Stop

LEMMA WholeStep ==
    ASSUME "cut" \notin Disturbances, SlotInv, [Next]_vars
    PROVE  Whole'
  <1>0. TypeOK /\ Whole
    BY DEF SlotInv, TypeInv
  <1>1. CASE inbox' = inbox
    BY <1>0, <1>1 DEF Whole
  <1>2. CASE \E S : Stop(S)
    BY <1>0, <1>2, WholeStop
  <1>3. CASE \E s : AcceptInto(s)
    <2>1. <<>> \in Seq(Requests)
      OBVIOUS
    <2> QED BY <1>0, <1>3, <2>1 DEF AcceptInto, Whole
  <1>4. CASE handle_packet
    <2>1. PICK op : Takes(op)
      BY <1>4 DEF handle_packet, create_link, destroy_link, read, write, readstb, devclear,
                  Unavailable
    <2>2. inbox[turn] \in Seq(Requests) /\ inbox[turn] # <<>>
      BY <1>0, <2>1 DEF Takes, TypeOK, Whole
    <2>3. Tail(inbox[turn]) \in Seq(Requests)
      BY <2>2
    <2> QED BY <1>0, <2>1, <2>3 DEF Takes, Whole
  <1>5. CASE Bind \/ Reap \/ Accept \/ Skip \/ Answer \/ Web \/ Ui
    BY <1>1, <1>2, <1>3, <1>5 DEF Bind, Reap, Accept, Skip, Answer, Web, Ui
  <1>6. ASSUME NEW s \in Slots, Request(s) PROVE Whole'
    <2>1. PICK r \in Requests : inbox' = [inbox EXCEPT ![s] = Append(@, r)]
      BY <1>6 DEF Request
    <2>2. inbox[s] \in Seq(Requests)
      BY <1>0 DEF Whole
    <2>3. Append(inbox[s], r) \in Seq(Requests)
      BY <2>2
    <2> QED BY <1>0, <2>1, <2>3 DEF Whole
  <1>7. CASE Reboot
    BY <1>2, <1>7 DEF Reboot
  <1>8. CASE Environment /\ ~Reboot /\ ~(\E s \in Slots : Request(s))
    BY <1>1, <1>8 DEF Environment, Connect, AskWeb, PeerCloses, GoesAway, AskPort, SwitchInstrument
  <1>9. CASE UNCHANGED vars
    BY <1>1, <1>9 DEF vars
  <1> QED BY <1>4, <1>5, <1>6, <1>7, <1>8, <1>9 DEF Next, Loop, Environment

(* Serving slot turn, as the other slots and the one itself see it.        *)
LEMMA ServedIsolated ==
    ASSUME SlotInv, handle_packet, NEW s \in Slots
    PROVE  Isolated(s)
  <1>0. TypeOK /\ Linked /\ Whole
    BY DEF SlotInv, TypeInv
  <1>1. PICK op : Takes(op)
    BY DEF handle_packet, create_link, destroy_link, read, write, readstb, devclear,
           Unavailable
  <1>2. /\ pc = "serve" /\ turn \in Slots /\ conn' = conn
        /\ inbox[turn] \in Seq(Requests) /\ inbox[turn] # <<>>
        /\ inbox' = [inbox EXCEPT ![turn] = Tail(@)]
    BY <1>0, <1>1 DEF Takes, TypeOK, Whole
  <1>3. /\ s # turn => inbox'[s] = inbox[s]
        /\ s = turn => inbox'[s] = Tail(inbox[s])
    BY <1>0, <1>2 DEF Whole
  <1>4. s = turn /\ inbox'[s] = <<>> => Len(inbox[s]) <= 1
    <2> DEFINE q == inbox[turn]
    <2>1. q \in Seq(Requests) /\ q # <<>>
      BY <1>2
    <2> HIDE DEF q
    <2>2. Len(Tail(q)) = Len(q) - 1
      BY <2>1
    <2>3. Len(<<>>) = 0
      OBVIOUS
    <2>4. Tail(q) = <<>> => Len(q) <= 1
      <3>1. CASE Tail(q) = <<>>
        <4>1. Len(Tail(q)) = 0
          BY <2>3, <3>1
        <4>2. Len(q) \in Nat
          BY <2>1
        <4> QED BY <2>2, <4>1, <4>2
      <3> QED BY <3>1
    <2> QED BY <1>3, <2>4 DEF q
  <1>5. request = Head(inbox[turn])
    <2>1. Head(inbox[turn]) \in Requests
      BY <1>2
    <2>2. Part \notin Requests
      BY RequestsAssumption DEF Part, Zeros, RequestTypes, Operations
    <2> QED BY <2>1, <2>2 DEF request
  <1>6. \/ UNCHANGED <<addresses, link>>
        \/ /\ Head(inbox[turn]).op = "create_link"
           /\ \E nr \in Addresses : /\ addresses' = [addresses EXCEPT ![turn] = nr]
                                   /\ link' = [link EXCEPT ![turn] = nr]
    <2>1. CASE create_link
      BY <1>5, <2>1 DEF create_link, Takes
    <2>2. CASE handle_packet /\ ~create_link
      BY <2>2 DEF handle_packet, destroy_link, read, write, readstb, devclear, Unavailable
    <2> QED BY <2>1, <2>2
  <1>7. s # turn => link'[s] = link[s] /\ addresses'[s] = addresses[s]
    BY <1>0, <1>2, <1>6 DEF TypeOK
  <1>8. link'[turn] # link[turn] =>
           Head(inbox[turn]).op = "create_link" /\ link'[turn] = addresses'[turn]
    BY <1>0, <1>2, <1>6 DEF TypeOK
  <1>9. addresses'[turn] # addresses[turn] => link'[turn] # link[turn] \/ link[turn] = NoLink
    BY <1>0, <1>2, <1>6 DEF TypeOK, Linked
  <1> QED BY <1>2, <1>3, <1>4, <1>7, <1>8, <1>9 DEF Isolated

LEMMA UntouchedLemma ==
    ASSUME NEW s \in Slots, conn'[s] = conn[s], inbox'[s] = inbox[s], link'[s] = link[s],
           addresses'[s] = addresses[s]
    PROVE  Isolated(s)
  <1>1. inbox[s] = <<>> => Len(inbox[s]) <= 1
    OBVIOUS
  <1> QED BY <1>1 DEF Isolated

LEMMA IsolatedStep ==
    ASSUME Disturbances \subseteq {"reset", "power"}, SlotInv, Next, NEW s \in Slots
    PROVE  Isolated(s)
  <1>0. TypeOK /\ Linked /\ Whole
    BY DEF SlotInv, TypeInv
  <1>1. CASE UNCHANGED <<conn, inbox, link, addresses>>
    BY <1>1, UntouchedLemma
  <1>2. CASE handle_packet
    BY <1>2, ServedIsolated
  <1>3. CASE Reap
    <2>1. CASE ~Free(s) /\ ~Connected(s)
      BY <1>3, <2>1 DEF Reap, Stop, Isolated, Connected
    <2>2. CASE Free(s) \/ Connected(s)
      BY <1>0, <1>3, <2>2, UntouchedLemma DEF Reap, Stop
    <2> QED BY <2>1, <2>2
  <1>4. CASE Accept
    <2>1. CASE \E q \in Slots : Free(q) /\ AcceptInto(q) /\ addresses' = addresses
      <3>1. PICK q \in Slots : Free(q) /\ AcceptInto(q) /\ addresses' = addresses
        BY <2>1
      <3>2. CASE s = q
        BY <3>1, <3>2 DEF Free, Isolated
      <3>3. CASE s # q
        BY <1>0, <3>1, <3>3, UntouchedLemma DEF AcceptInto, TypeOK
      <3> QED BY <3>2, <3>3
    <2> QED BY <1>1, <1>4, <2>1 DEF Accept, FirstFree
  <1>5. CASE Answer
    <2>1. CASE reply.op = "destroy_link" /\ Stop({turn})
      <3>1. CASE s = turn
        BY <1>5, <2>1, <3>1 DEF Answer, Stop, Isolated
      <3>2. CASE s # turn
        BY <1>5, <2>1, <3>2, UntouchedLemma DEF Answer, Stop
      <3> QED BY <3>1, <3>2
    <2> QED BY <1>1, <1>5, <2>1 DEF Answer
  <1>6. CASE Bind \/ Skip \/ Web \/ Ui
    BY <1>1, <1>6 DEF Bind, Skip, Web, Ui
  <1>7. ASSUME NEW q \in Slots, Request(q) PROVE Isolated(s)
    <2>1. PICK r \in Requests : inbox' = [inbox EXCEPT ![q] = Append(@, r)]
      BY <1>7 DEF Request
    <2>2. CASE s = q
      <3>1. inbox'[s] = Append(inbox[s], r) /\ inbox[s] \in Seq(Requests)
        BY <1>0, <2>1, <2>2 DEF Whole
      <3>2. inbox'[s] # <<>>
        BY <3>1
      <3> QED BY <1>7, <3>1, <3>2 DEF Request, Isolated
    <2>3. CASE s # q
      BY <1>0, <1>7, <2>1, <2>3, UntouchedLemma DEF Request, Whole
    <2> QED BY <2>2, <2>3
  <1>8. ASSUME NEW q \in Slots, PeerCloses(q) PROVE Isolated(s)
    <2>1. /\ UNCHANGED <<inbox, link, addresses>>
          /\ \E c \in {"closing", "reset"} : conn' = [conn EXCEPT ![q] = c]
      BY <1>8 DEF PeerCloses
    <2>2. conn'[s] # "free" \/ conn'[s] = conn[s]
      BY <1>0, <2>1 DEF TypeOK
    <2>3. inbox[s] = <<>> => Len(inbox[s]) <= 1
      OBVIOUS
    <2> QED BY <2>1, <2>2, <2>3 DEF Isolated
  <1>9. CASE Environment /\ ~(\E q \in Slots : Request(q) \/ PeerCloses(q))
    BY <1>1, <1>9 DEF Environment, Connect, AskWeb, Reboot, GoesAway, AskPort, SwitchInstrument
  <1> QED BY <1>2, <1>3, <1>4, <1>5, <1>6, <1>7, <1>8, <1>9 DEF Next, Loop, Environment

(* For any number of slots and clients, with resets, power failures and    *)
(* time-outs: no step of the server or of another client closes a          *)
(* connection whose peer is there, takes, drops or reorders its requests,  *)
(* or changes its link.  (A reboot and a change of the IP address do close *)
(* connections, and a request that is cut off does make a link.)           *)
THEOREM IsolationCorrect ==
    ASSUME Disturbances \subseteq {"reset", "power"}
    PROVE  Spec => SlotIsolation
  <1>1. Init => SlotInv
    <2>1. <<>> \in Seq(Requests)
      OBVIOUS
    <2> QED BY <2>1, TypeInit DEF Init, SlotInv, Linked, Whole
  <1>2. SlotInv /\ [Next]_vars => SlotInv'
    BY TypeStep, LinkedStep, WholeStep DEF SlotInv
  <1>3. SlotInv /\ [Next]_vars => [\A s \in Slots : Isolated(s)]_vars
    BY IsolatedStep
  <1> QED BY <1>1, <1>2, <1>3, PTL DEF Spec, SlotIsolation

-----------------------------------------------------------------------------
(***************************************************************************)
(* The gateway implements the service it promises its clients, for any     *)
(* number of slots and any requests, when only the VXI-11 server uses the  *)
(* bus: every step of the gateway is one of VxiService, or a stutter.      *)
(***************************************************************************)

(* The values of VxiService's variables, as Gateway maps them.             *)
Session == [s \in Slots |-> IF Free(s) THEN 256 ELSE link[s]]
Served == IF pc = "answer"
          THEN [slot |-> turn, to |-> reply.data.to, from |-> reply.data.from]
          ELSE [slot |-> 0, to |-> {}, from |-> {}]

LEMMA InitRefinement == Init => Service!Init
  BY DEF Init, Free, Slots, Service!Init, Service!Slots, Service!Closed, Service!Nothing

(* What is served is nothing exactly when no reply is pending.             *)
LEMMA PendingLemma ==
    ASSUME turn \in Slots
    PROVE  /\ pc # "answer" => Served = Service!Nothing
           /\ pc = "answer" => Served # Service!Nothing /\ Served.slot = turn
  <1>1. turn # 0
    BY NSlotsAssumption DEF Slots
  <1>2. CASE pc = "answer"
    <2>1. Served.slot = turn
      BY <1>2 DEF Served
    <2>2. Service!Nothing.slot = 0
      BY DEF Service!Nothing
    <2> QED BY <1>1, <1>2, <2>1, <2>2
  <1>3. CASE pc # "answer"
    BY <1>3 DEF Served, Service!Nothing
  <1> QED BY <1>2, <1>3

(* Connections closed between two requests.                                *)
LEMMA CloseRefinement ==
    ASSUME RoutingInv, NEW S \in SUBSET Slots, Stop(S), pc # "answer", pc' # "answer"
    PROVE  Service!Close
  <1>1. Served = Service!Nothing /\ Served' = Served
    BY DEF Served, Service!Nothing
  <1>2. Session' = [s \in Slots |-> IF s \in S THEN 256 ELSE Session[s]]
    BY DEF Session, Stop, Free
  <1> QED BY <1>1, <1>2 DEF Service!Close, Service!Slots, Service!Closed, Slots, Session, Served

LEMMA SessionLemma ==
    ASSUME TypeOK, NEW s \in Slots, ~Free(s)
    PROVE  Session[s] = link[s] /\ Session[s] # 256
  <1>1. link[s] \in Addresses \cup {NoLink}
    BY DEF TypeOK
  <1>2. link[s] # 256
    BY <1>1 DEF Addresses, NoLink
  <1>3. Session[s] = link[s]
    BY DEF Session
  <1> QED BY <1>2, <1>3

(* A request served: nothing was pending, and afterwards it is, with what  *)
(* it moved; the sessions are as they were.                                *)
LEMMA ServeRefinement ==
    ASSUME RoutingInv, RoutingInv', NEW op, Takes(op), link' = link
    PROVE  Service!Serve(turn)
  <1>1. /\ TypeOK /\ turn \in Slots /\ reply' \in Replies /\ pc = "serve" /\ pc' = "answer"
        /\ turn' = turn /\ conn' = conn /\ ~Free(turn)
    BY TakesLemma DEF RoutingInv, TypeInv, TypeOK, Takes
  <1>2. Served = Service!Nothing
    BY <1>1, PendingLemma
  <1>3. Served' = [slot |-> turn, to |-> reply'.data.to, from |-> reply'.data.from]
    BY <1>1 DEF Served
  <1>4. reply'.data \in Transfers
    BY <1>1 DEF Replies
  <1>5. reply'.data.to \in SUBSET Instruments /\ reply'.data.from \in SUBSET Instruments
    BY <1>4 DEF Transfers
  <1>6. Session[turn] = link[turn] /\ link[turn] # 256
    BY <1>1, SessionLemma
  <1>7. link[turn] # NoLink =>
            reply'.data.to \cup reply'.data.from \subseteq {Target(link[turn])}
    BY <1>1 DEF RoutingInv, RoutedToLink
  <1>8. Session' = Session
    BY <1>1 DEF Session, Free
  <1>9. Service!Target(link[turn]) = Target(link[turn])
    BY DEF Service!Target, Target
  <1> HIDE DEF Session, Served
  <1>10. \E to, from \in SUBSET Instruments :
            /\ Session[turn] # Service!NoLink => to \cup from \subseteq {Service!Target(Session[turn])}
            /\ Served' = [slot |-> turn, to |-> to, from |-> from]
    <2>1. Session[turn] # Service!NoLink => link[turn] # NoLink
      BY <1>6 DEF Service!NoLink, NoLink
    <2>2. Session[turn] # Service!NoLink =>
              reply'.data.to \cup reply'.data.from \subseteq {Service!Target(Session[turn])}
      BY <1>6, <1>7, <1>9, <2>1
    <2> QED BY <1>3, <1>5, <2>2
  <1> QED BY <1>2, <1>6, <1>8, <1>10 DEF Service!Serve, Service!Closed, Session, Served

LEMMA HandlePacketRefinement ==
    ASSUME RoutingInv, RoutingInv', handle_packet
    PROVE  Service!Next
  <1>1. turn \in Slots /\ turn \in Service!Slots
    BY DEF RoutingInv, TypeInv, TypeOK, Slots, Service!Slots
  <1>2. CASE link' = link
    <2>1. \E op : Takes(op)
      BY DEF handle_packet, create_link, destroy_link, read, write, readstb, devclear, Unavailable
    <2>2. Service!Serve(turn)
      BY <1>2, <2>1, ServeRefinement
    <2> QED BY <1>1, <2>2 DEF Service!Next
  <1>3. CASE link' # link
    <2> DEFINE nr == request.nr
    <2>1. /\ Takes("create_link") /\ nr \in Addresses
          /\ link' = [link EXCEPT ![turn] = nr]
          /\ reply' = Reply("create_link", "NO_ERROR", 0, FALSE, NoTransfer)
      BY <1>3 DEF handle_packet, create_link, destroy_link, read, write, readstb, devclear,
                  Unavailable
    <2> HIDE DEF nr
    <2>2. /\ TypeOK /\ pc = "serve" /\ pc' = "answer" /\ turn' = turn /\ conn' = conn
          /\ ~Free(turn)
      BY <2>1, TakesLemma DEF RoutingInv, TypeInv, Takes
    <2>3. reply'.data = NoTransfer
      BY <2>1, EmptyReplyLemma DEF Operations, Errors
    <2>4. Served' = [slot |-> turn, to |-> {}, from |-> {}]
      BY <2>2, <2>3, NoTransferLemma DEF Served
    <2>5. Served = Service!Nothing
      BY <1>1, <2>2, PendingLemma
    <2>6. Session[turn] # 256
      BY <1>1, <2>2, SessionLemma
    <2>7. Session' = [Session EXCEPT ![turn] = nr]
      BY <1>1, <2>1, <2>2 DEF Session, Free, TypeOK
    <2>8. nr \in 0..31
      BY <2>1 DEF Addresses
    <2>9. PICK a \in 0..31 : Session' = [Session EXCEPT ![turn] = a]
      BY <2>7, <2>8
    <2>10. PICK s \in Service!Slots : s = turn
      BY <1>1
    <2>11. Service!CreateLink(s, a)
      BY <2>4, <2>5, <2>6, <2>9, <2>10
         DEF Service!CreateLink, Service!Closed, Session, Served
    <2> QED BY <2>11 DEF Service!Next
  <1> QED BY <1>2, <1>3

LEMMA AcceptRefinement ==
    ASSUME RoutingInv, Accept
    PROVE  Service!Next \/ UNCHANGED Service!vars
  <1>1. pc = "accept" /\ pc' = "serve"
    BY DEF Accept
  <1>2. Served = Service!Nothing /\ Served' = Served
    BY <1>1 DEF Served, Service!Nothing
  <1>3. CASE \E s \in Slots : backlog > 0 /\ FirstFree(s) /\ AcceptInto(s)
    <2>1. PICK s \in Slots : FirstFree(s) /\ AcceptInto(s)
      BY <1>3
    <2>2. Session[s] = 256
      BY <2>1 DEF FirstFree, Session
    <2>3. Session' = [Session EXCEPT ![s] = 255]
      BY <2>1 DEF Session, AcceptInto, Free, RoutingInv, TypeInv, TypeOK, NoLink
    <2>4. Service!Open(s)
      BY <1>2, <2>2, <2>3 DEF Service!Open, Service!Closed, Service!NoLink, Session, Served
    <2> QED BY <2>1, <2>4 DEF Service!Next, Service!Slots, Slots
  <1>4. CASE UNCHANGED <<conn, inbox, link, backlog>>
    <2>1. Session' = Session
      BY <1>4 DEF Session, Free
    <2> QED BY <1>2, <2>1 DEF Service!vars, Session, Served
  <1> QED BY <1>3, <1>4 DEF Accept

LEMMA AnswerRefinement ==
    ASSUME RoutingInv, Answer
    PROVE  Service!Next
  <1>1. turn \in Slots /\ pc = "answer" /\ pc' # "answer"
    BY AdvanceLemma DEF RoutingInv, TypeInv, TypeOK, Answer
  <1>2. Served # Service!Nothing /\ Served.slot = turn
    BY <1>1, PendingLemma
  <1>3. Served' = Service!Nothing
    BY <1>1 DEF Served, Service!Nothing
  <1>4. Session' = Session \/ Session' = [Session EXCEPT ![turn] = 256]
    <2>1. CASE Stop({turn})
      BY <1>1, <2>1 DEF Stop, Session, Free, RoutingInv, TypeInv, TypeOK
    <2>2. CASE UNCHANGED <<conn, inbox, link>>
      BY <2>2 DEF Session, Free
    <2> QED BY <2>1, <2>2 DEF Answer
  <1>5. Service!Answer
    BY <1>2, <1>3, <1>4 DEF Service!Answer, Service!Closed, Session, Served
  <1> QED BY <1>5 DEF Service!Next

(* What leaves connections, links and pending replies alone is a stutter.  *)
LEMMA StutterRefinement ==
    ASSUME link' = link,
           \A s \in Slots : Free(s)' <=> Free(s),
           \/ pc # "answer" /\ pc' # "answer"
           \/ UNCHANGED <<pc, turn, reply>>
    PROVE  UNCHANGED Service!vars
  <1>1. Session' = Session
    BY DEF Session
  <1>2. Served' = Served
    BY DEF Served
  <1> QED BY <1>1, <1>2 DEF Service!vars, Session, Served

LEMMA StepRefinement ==
    ASSUME WebRequests = {}, RoutingInv, [Next]_vars
    PROVE  [Service!Next]_(Service!vars)
  <1>0. RoutingInv'
    BY RoutingStep
  <1>1. turn \in Slots /\ TypeOK
    BY DEF RoutingInv, TypeInv, TypeOK
  <1>2. CASE UNCHANGED vars
    BY <1>2, StutterRefinement DEF vars, Free
  <1>3. CASE Bind
    BY <1>3, StutterRefinement DEF Bind, Free
  <1>4. CASE Skip
    BY <1>1, <1>4, AdvanceLemma, StutterRefinement DEF Skip, Free
  <1>5. CASE Web
    BY <1>5, StutterRefinement DEF Web, Free
  <1>6. CASE Reap
    BY <1>6, CloseRefinement DEF Reap, Service!Next
  <1>7. CASE Ui
    <2>1. CASE UNCHANGED <<conn, inbox, link>>
      BY <1>7, <2>1, StutterRefinement DEF Ui, Free
    <2>2. CASE \E S \in SUBSET Slots : Stop(S)
      BY <1>7, <2>2, CloseRefinement DEF Ui, Service!Next
    <2> QED BY <1>7, <2>1, <2>2 DEF Ui
  <1>8. CASE Connect \/ AskWeb \/ (\E s \in Slots : Request(s)) \/ (\E t \in Transports : AskPort(t))
          \/ (\E i \in Instruments : SwitchInstrument(i))
    BY <1>8, StutterRefinement DEF Connect, AskWeb, Request, AskPort, SwitchInstrument, Free
  <1>9. ASSUME NEW s \in Slots, PeerCloses(s) \/ GoesAway(s) PROVE UNCHANGED Service!vars
    <2>1. \A q \in Slots : Free(q)' <=> Free(q)
      BY <1>1, <1>9 DEF PeerCloses, GoesAway, Free, TypeOK
    <2> QED BY <1>9, <2>1, StutterRefinement DEF PeerCloses, GoesAway
  <1>10. CASE Reboot
    <2>1. Session' = [s \in Slots |-> 256] /\ Served' = Service!Nothing
      BY <1>10 DEF Reboot, Stop, Session, Served, Free, Service!Nothing
    <2> QED BY <2>1 DEF Service!Next, Service!Restart, Service!Slots, Service!Closed, Slots,
                        Session, Served
  <1> QED BY <1>0, <1>2, <1>3, <1>4, <1>5, <1>6, <1>7, <1>8, <1>9, <1>10,
             HandlePacketRefinement, AcceptRefinement, AnswerRefinement
          DEF Next, Loop, Environment

(* The gateway implements the service: whatever the peers, the instruments *)
(* and the power supply do, each client sees sessions that open, link,     *)
(* reach the instrument of their link, and close.                          *)
THEOREM ServiceImplemented ==
    ASSUME WebRequests = {}
    PROVE  Spec => ImplementsService
  <1>1. Spec => []RoutingInv
    BY RoutingInvariant
  <1>2. RoutingInv /\ [Next]_vars => [Service!Next]_(Service!vars)
    BY StepRefinement
  <1> QED BY <1>1, <1>2, InitRefinement, PTL DEF Spec, ImplementsService, Service!Spec

-----------------------------------------------------------------------------
(***************************************************************************)
(* The ends of messages.  A partial write suppresses them by rewriting     *)
(* cfg.eoi and cfg.eos; these theorems say that no other operation of the  *)
(* gateway, of the web page or of the bus driver leaves one of the two     *)
(* changed, so that every message is ended as configured, and only once.   *)
(***************************************************************************)

(* What the operation has left of the end of message settings.             *)
Settings(c, b) == c.eoi = b.eoi /\ c.eos = b.eos

-----------------------------------------------------------------------------
(* The bus driver.                                                         *)

LEMMA UnAddressSettings ==
    ASSUME NEW b, Bus(b), NEW o \in unAddressDevice(b)
    PROVE  Settings(o.bus, b)
  <1> DEFINE unt == sendCmd(b, "UNT", NoDevice)
             unl == UNION {sendCmd(c, "UNL", NoDevice) : c \in Passed(unt)}
             Fine(u) == Bus(u.bus) /\ Settings(u.bus, b)
  <1>1. ASSUME NEW u \in unt PROVE Fine(u)
    BY SendCmdLemma DEF BusCommands, AddressCommands, OtherCommands, Settings
  <1>2. ASSUME NEW u \in unl PROVE Fine(u)
    <2>1. PICK v \in unt : u \in sendCmd(v.bus, "UNL", NoDevice)
      BY DEF Passed
    <2>2. Fine(v)
      BY <1>1, <2>1
    <2> QED BY <2>1, <2>2, SendCmdLemma DEF BusCommands, AddressCommands, OtherCommands, Settings
  <1>3. CASE o \in Failed(unt) \cup Failed(unl)
    BY <1>1, <1>2, <1>3 DEF Failed
  <1>4. CASE o \in {Outcome([c EXCEPT !.deviceAddressed = "TONONE"], TRUE) : c \in Passed(unl)}
    <2>1. PICK u \in unl : o = Outcome([u.bus EXCEPT !.deviceAddressed = "TONONE"], TRUE)
      BY <1>4 DEF Passed
    <2>2. Fine(u)
      BY <1>2
    <2>3. o.bus = [u.bus EXCEPT !.deviceAddressed = "TONONE"]
      BY <2>1 DEF Outcome
    <2> QED BY <2>2, <2>3 DEF Bus, Buses, Settings
  <1> QED BY <1>3, <1>4 DEF unAddressDevice

LEMMA AddressSettings ==
    ASSUME NEW b, Bus(b), NEW pri \in Nat, NEW dir \in {"TOLISTEN", "TOTALK"},
           NEW o \in addressDevice(b, pri, dir)
    PROVE  Settings(o.bus, b)
  <1>1. CASE pri > 30
    <2>1. o.bus = b
      BY <1>1, OutcomeLemma DEF addressDevice
    <2> QED BY <2>1 DEF Settings
  <1>2. CASE ~(pri > 30)
    <2> DEFINE lad == IF dir = "TOTALK" THEN "TAD" ELSE "LAD"
               unl == sendCmd(b, "UNL", pri)
               unt == UNION {sendCmd(c, "UNT", pri) : c \in Passed(unl)}
               adr == UNION {sendCmd(c, lad, pri) : c \in Passed(unt)}
               Fine(u) == Bus(u.bus) /\ Settings(u.bus, b)
    <2>1. ASSUME NEW u \in unl PROVE Fine(u)
      BY SendCmdLemma DEF BusCommands, AddressCommands, OtherCommands, Settings
    <2>2. ASSUME NEW u \in unt PROVE Fine(u)
      <3>1. PICK v \in unl : u \in sendCmd(v.bus, "UNT", pri)
        BY DEF Passed
      <3>2. Fine(v)
        BY <2>1, <3>1
      <3> QED BY <3>1, <3>2, SendCmdLemma DEF BusCommands, AddressCommands, OtherCommands, Settings
    <2>3. ASSUME NEW u \in adr PROVE Fine(u)
      <3>1. PICK v \in unt : u \in sendCmd(v.bus, lad, pri)
        BY DEF Passed
      <3>2. lad \in BusCommands
        BY DEF BusCommands, AddressCommands, OtherCommands
      <3> HIDE DEF lad
      <3>3. Fine(v)
        BY <2>2, <3>1
      <3> QED BY <3>1, <3>2, <3>3, SendCmdLemma DEF Settings
    <2>4. CASE o \in Failed(unl) \cup Failed(unt) \cup Failed(adr)
      BY <2>1, <2>2, <2>3, <2>4 DEF Failed
    <2>5. CASE o \in {Outcome([c EXCEPT !.deviceAddressed = dir], TRUE) : c \in Passed(adr)}
      <3>1. PICK u \in adr : o = Outcome([u.bus EXCEPT !.deviceAddressed = dir], TRUE)
        BY <2>5 DEF Passed
      <3>2. Fine(u)
        BY <2>3, <3>1
      <3>3. o.bus = [u.bus EXCEPT !.deviceAddressed = dir]
        BY <3>1 DEF Outcome
      <3> QED BY <3>2, <3>3 DEF Bus, Buses, Settings
    <2> QED BY <1>2, <2>4, <2>5 DEF addressDevice
  <1> QED BY <1>1, <1>2

LEMMA SDCSettings ==
    ASSUME NEW b, Bus(b), b.paddr \in Nat, NEW o \in sendSDC(b)
    PROVE  Settings(o.bus, b)
  <1> DEFINE adr == addressDevice(b, b.paddr, "TOLISTEN")
             sdc(c) == sendCmd(c, "SDC", c.paddr)
             una(c) == UNION {unAddressDevice(d) : d \in Passed(sdc(c))}
             Fine(u) == Bus(u.bus) /\ Settings(u.bus, b)
  <1>1. ASSUME NEW a \in adr PROVE Fine(a)
    BY AddressDeviceLemma, AddressSettings
  <1>2. CASE o \in {[bus |-> a.bus, ok |-> FALSE, to |-> {}] : a \in Failed(adr)}
    BY <1>1, <1>2 DEF Failed
  <1>3. ASSUME NEW c \in Passed(adr),
               o \in {[bus |-> u.bus, ok |-> u.ok, to |-> c.listeners] :
                         u \in Failed(sdc(c)) \cup una(c)}
        PROVE  Settings(o.bus, b)
    <2>1. Bus(c) /\ Settings(c, b)
      BY <1>1 DEF Passed
    <2>2. ASSUME NEW v \in sdc(c) PROVE Fine(v)
      BY <2>1, SendCmdLemma DEF BusCommands, AddressCommands, OtherCommands, Settings
    <2>3. ASSUME NEW u \in una(c) PROVE Settings(u.bus, b)
      <3>1. PICK v \in sdc(c) : u \in unAddressDevice(v.bus)
        BY DEF Passed
      <3>2. Fine(v)
        BY <2>2, <3>1
      <3> QED BY <3>1, <3>2, UnAddressSettings DEF Settings
    <2>4. PICK u \in Failed(sdc(c)) \cup una(c) : o.bus = u.bus
      BY <1>3
    <2> QED BY <2>2, <2>3, <2>4 DEF Failed
  <1> QED BY <1>2, <1>3 DEF sendSDC

(* What reaches the listeners of a fault-free bus carries the end          *)
(* characters and the EOI that the settings ask for.                       *)
LEMMA SentLemma ==
    ASSUME ~HandshakeFaults, NEW b, Bus(b), NEW len \in Nat, NEW last \in BOOLEAN,
           NEW d \in sendData(b, len, last), d.data.n > 0
    PROVE  /\ d.data.ends = EndsOf(b.eos)
           /\ b.eos \in {0, 1} => d.data.eoi = b.eoi
           /\ ~b.eoi => ~d.data.eoi
  <1>1. PICK t \in Sent(b, len) :
          d = [bus |-> setControls(b, IF last THEN "CIDS" ELSE "CTAS"), data |-> t]
    BY DEF sendData
  <1>2. d.data = t
    BY <1>1
  <1> DEFINE dsize == len % 256
             marked(n, e) ==
               /\ b.eoi
               /\ IF EndsOf(b.eos) = {} THEN n = dsize /\ n > 0
                  ELSE IF b.eos = 1 THEN "CR" \in e ELSE "LF" \in e
             endings(n) ==
               IF b.listeners = {} \/ n < dsize THEN {{}}
               ELSE IF HandshakeFaults THEN SUBSET EndsOf(b.eos)
               ELSE {EndsOf(b.eos)} \cup (IF dsize = 0 THEN {{}} ELSE {})
             lengths == IF b.listeners = {} THEN {0}
                        ELSE IF HandshakeFaults THEN 0..dsize ELSE {dsize}
             rec(n, e) == [to |-> b.listeners, from |-> {}, n |-> n, ends |-> e,
                           eoi |-> marked(n, e) /\ b.listeners # {}]
  <1>3. t \in UNION {{rec(n, e) : e \in endings(n)} : n \in lengths}
    BY DEF Sent
  <1>4. dsize \in 0..255
    OBVIOUS
  <1> HIDE DEF dsize, marked, endings, lengths
  <1>5. PICK n \in lengths : \E e \in endings(n) : t = rec(n, e)
    BY <1>3
  <1>6. PICK e \in endings(n) : t = rec(n, e)
    BY <1>5
  <1>7. t.n = n /\ t.ends = e /\ t.eoi = (marked(n, e) /\ b.listeners # {})
    BY <1>6
  <1>8. n > 0 /\ b.listeners # {} /\ n = dsize
    BY <1>2, <1>7 DEF lengths
  <1>9. e = EndsOf(b.eos)
    BY <1>4, <1>6, <1>8 DEF endings
  <1>10. b.eos \in {0, 1} => marked(n, e) = b.eoi
    <2>1. b.eoi \in BOOLEAN
      BY DEF Bus, Buses
    <2>2. /\ b.eos = 0 => EndsOf(b.eos) = {"CR", "LF"}
          /\ b.eos = 1 => EndsOf(b.eos) = {"CR"}
      BY DEF EndsOf
    <2> QED BY <1>9, <2>1, <2>2 DEF marked
  <1>11. ~b.eoi => ~marked(n, e)
    BY DEF marked
  <1>12. d.data.ends = EndsOf(b.eos)
    BY <1>2, <1>7, <1>9
  <1>13. d.data.eoi = (marked(n, e) /\ b.listeners # {}) /\ b.listeners # {}
    BY <1>2, <1>7, <1>8, Zenon
  <1>14. b.eoi \in BOOLEAN
    BY DEF Bus, Buses
  <1> QED BY <1>10, <1>11, <1>12, <1>13, <1>14, Zenon
-----------------------------------------------------------------------------
(* The SCPI handler.                                                       *)

LEMMA ReleaseSettings ==
    ASSUME NEW b, Bus(b), NEW c \in Release(b) PROVE Settings(c, b)
  <1>1. PICK u \in unAddressDevice(b) : c = [u.bus EXCEPT !.paddr = NoDevice]
    BY DEF Release, Unaddressed
  <1>2. Bus(u.bus) /\ Settings(u.bus, b)
    BY UnAddressDeviceLemma, UnAddressSettings
  <1> QED BY <1>1, <1>2 DEF Bus, Buses, Settings

LEMMA IdleSettings ==
    ASSUME NEW b, Bus(b), NEW state \in ControlStates
    PROVE  Bus(setControls(b, state)) /\ Settings(setControls(b, state), b)
  BY SetControlsLemma DEF Settings

LEMMA ScpiAddressSettings ==
    ASSUME NEW b, Bus(b), NEW address \in Addresses, NEW dir \in {"TOLISTEN", "TOTALK"},
           NEW o \in ScpiAddressDevice(b, address, dir)
    PROVE  Settings(o.bus, b)
  <1>1. CASE b.paddr = address
    <2>1. o.bus = b
      BY <1>1, OutcomeLemma DEF ScpiAddressDevice
    <2> QED BY <2>1 DEF Settings
  <1>2. CASE b.paddr # address
    <2> DEFINE c == [b EXCEPT !.paddr = address]
               adr == addressDevice(c, address, dir)
    <2>1. Bus(c) /\ Settings(c, b)
      BY StoreAddressLemma DEF Bus, Buses, Settings
    <2>2. o = Outcome(c, TRUE) \/ o \in adr
             \/ o \in {Outcome(d, FALSE) :
                  d \in UNION {Release(setControls(a.bus, "CIDS")) : a \in Failed(adr)}}
      BY <1>2 DEF ScpiAddressDevice
    <2> HIDE DEF c
    <2>3. ASSUME NEW a \in adr PROVE Bus(a.bus) /\ Settings(a.bus, b)
      BY <2>1, AddressDeviceLemma, AddressSettings DEF Addresses, Settings
    <2>4. CASE o = Outcome(c, TRUE)
      BY <2>1, <2>4, OutcomeLemma
    <2>5. CASE o \in {Outcome(d, FALSE) :
               d \in UNION {Release(setControls(a.bus, "CIDS")) : a \in Failed(adr)}}
      <3>1. PICK a, d : /\ a \in adr
                        /\ d \in Release(setControls(a.bus, "CIDS"))
                        /\ o = Outcome(d, FALSE)
        BY <2>5 DEF Failed
      <3>2. /\ Bus(setControls(a.bus, "CIDS"))
            /\ Settings(setControls(a.bus, "CIDS"), b)
        BY <2>3, <3>1, IdleSettings DEF ControlStates, Settings
      <3>3. Settings(d, b)
        BY <3>1, <3>2, ReleaseSettings DEF Settings
      <3> QED BY <3>1, <3>3, OutcomeLemma
    <2> QED BY <2>2, <2>3, <2>4, <2>5
  <1> QED BY <1>1, <1>2

(* A write keeps the settings and, when it is the last part, ends as they  *)
(* say; any other part does not end.  cfg.eos comes back only from 0 and 1:*)
(* it is saved in a bool.                                                  *)
LEMMA WriteSettings ==
    ASSUME ~HandshakeFaults, NEW b, Bus(b), b.eos \in {0, 1},
           NEW addr \in Addresses, NEW len \in Nat, NEW isEnd \in BOOLEAN,
           NEW o \in ScpiWrite(b, addr, len, isEnd)
    PROVE  /\ Settings(o.bus, b)
           /\ o.data.n > 0 =>
                IF isEnd THEN o.data.ends = EndsOf(b.eos) /\ o.data.eoi = b.eoi
                ELSE o.data.ends = {} /\ ~o.data.eoi
  <1> DEFINE Nothing == o.data = NoTransfer
  <1>0. Nothing => ~(o.data.n > 0)
    BY DEF NoTransfer
  <1>1. CASE Target(addr) = 0
    BY <1>0, <1>1, DoneLemma DEF ScpiWrite, Settings
  <1>2. CASE Target(addr) # 0
    <2> DEFINE adr == ScpiAddressDevice(b, Target(addr), "TOLISTEN")
    <2>1. ASSUME NEW a \in adr PROVE Bus(a.bus) /\ Settings(a.bus, b)
      BY TargetLemma, ScpiAddressDeviceLemma, ScpiAddressSettings
    <2>2. CASE o \in {Done(a.bus, "SRS_TIMEOUT", NoTransfer) : a \in Failed(adr)}
      <3>1. Settings(o.bus, b) /\ Nothing
        BY <2>1, <2>2, DoneLemma DEF Failed
      <3> QED BY <1>0, <3>1
    <2>3. CASE isEnd /\ \E c \in Passed(adr) : o \in WriteEnd(c, len)
      <3>1. PICK c \in Passed(adr) : o \in WriteEnd(c, len)
        BY <2>3
      <3>2. PICK s, d : /\ s \in sendData(c, len, TRUE)
                        /\ d \in Release(s.bus)
                        /\ o = Done(d, "SRS_NONE", s.data)
        BY <3>1 DEF WriteEnd
      <3>3. Bus(c) /\ Settings(c, b)
        BY <2>1 DEF Passed
      <3>4. Bus(s.bus) /\ Settings(s.bus, c)
        <4>1. PICK last \in ControlStates : s.bus = setControls(c, last)
          BY <3>2 DEF sendData, ControlStates
        <4> QED BY <3>3, <4>1, IdleSettings
      <3>5. Settings(d, s.bus)
        BY <3>2, <3>4, ReleaseSettings
      <3>6. o.bus = d /\ o.data = s.data
        BY <3>2, DoneLemma
      <3>7. s.data.n > 0 => s.data.ends = EndsOf(c.eos) /\ s.data.eoi = c.eoi
        BY <3>2, <3>3, SentLemma DEF Settings
      <3> QED BY <2>3, <3>3, <3>4, <3>5, <3>6, <3>7 DEF Settings
    <2>4. CASE ~isEnd /\ \E c \in Passed(adr) : o \in WritePart(c, len)
      <3>1. PICK c \in Passed(adr) : o \in WritePart(c, len)
        BY <2>4
      <3> DEFINE q == [c EXCEPT !.eoi = FALSE, !.eos = 3]
      <3>2. Bus(c) /\ Settings(c, b)
        BY <2>1 DEF Passed
      <3>3. PICK s \in sendData(q, len, FALSE) :
              o = Done([s.bus EXCEPT !.eoi = c.eoi, !.eos = AsBool(c.eos)], "SRS_NONE", s.data)
        BY <3>1 DEF WritePart
      <3>4. Bus(q) /\ q.eoi = FALSE /\ q.eos = 3
        <4>1. FALSE \in BOOLEAN /\ 3 \in 0..3
          OBVIOUS
        <4>2. Bus(q)
          BY <3>2, <4>1, RestoreLemma
        <4> QED BY <3>2, <4>2 DEF Bus, Buses
      <3> HIDE DEF q
      <3>5. Bus(s.bus)
        BY <3>3, <3>4, SendDataLemma
      <3>6. /\ o.bus = [s.bus EXCEPT !.eoi = c.eoi, !.eos = AsBool(c.eos)]
            /\ o.data = s.data
        BY <3>3, DoneLemma
      <3>7. o.bus.eoi = c.eoi /\ o.bus.eos = AsBool(c.eos)
        BY <3>5, <3>6 DEF Bus, Buses
      <3>8. AsBool(c.eos) = c.eos
        BY <3>2 DEF AsBool, Settings
      <3>9. s.data.n > 0 => s.data.ends = {} /\ ~s.data.eoi
        <4>1. EndsOf(3) = {}
          BY DEF EndsOf
        <4>2. s.data.n > 0 => s.data.ends = EndsOf(q.eos) /\ (~q.eoi => ~s.data.eoi)
          BY <3>3, <3>4, SentLemma
        <4> QED BY <3>4, <4>1, <4>2
      <3> QED BY <2>4, <3>2, <3>6, <3>7, <3>8, <3>9 DEF Settings
    <2>5. \/ o \in {Done(a.bus, "SRS_TIMEOUT", NoTransfer) : a \in Failed(adr)}
          \/ \E c \in Passed(adr) : o \in IF isEnd THEN WriteEnd(c, len) ELSE WritePart(c, len)
      BY <1>2 DEF ScpiWrite
    <2> QED BY <2>2, <2>3, <2>4, <2>5
  <1> QED BY <1>1, <1>2

LEMMA ReadSettings ==
    ASSUME NEW b, Bus(b), NEW addr \in Addresses, NEW o \in ScpiRead(b, addr)
    PROVE  Settings(o.bus, b)
  <1>1. CASE Target(addr) = 0
    BY <1>1, DoneLemma DEF ScpiRead, Settings
  <1>2. CASE Target(addr) # 0
    <2> DEFINE adr == ScpiAddressDevice(b, Target(addr), "TOTALK")
    <2>1. ASSUME NEW a \in adr PROVE Bus(a.bus) /\ Settings(a.bus, b)
      BY TargetLemma, ScpiAddressDeviceLemma, ScpiAddressSettings
    <2>2. CASE o \in {Done(a.bus, "SRS_TIMEOUT", NoTransfer) : a \in Failed(adr)}
      BY <2>1, <2>2, DoneLemma DEF Failed
    <2>3. ASSUME NEW c \in Passed(adr), o \in ReadAddressed(c) PROVE Settings(o.bus, b)
      <3>1. PICK r, d :
              /\ r \in receiveData(c, TRUE)
              /\ d \in IF r.stop = "RECEIVE_LIMIT" THEN {r.bus} ELSE Release(r.bus)
              /\ o = Done(d, StopReasonOf(r.stop), r.data)
        BY <2>3 DEF ReadAddressed
      <3>2. Bus(c) /\ Settings(c, b)
        BY <2>1 DEF Passed
      <3>3. Bus(r.bus) /\ Settings(r.bus, c)
        <4>1. PICK state \in ControlStates : r.bus = setControls(c, state)
          BY <3>1 DEF receiveData, ControlStates
        <4> QED BY <3>2, <4>1, IdleSettings
      <3>4. Settings(d, r.bus)
        BY <3>1, <3>3, ReleaseSettings DEF Settings
      <3> QED BY <3>1, <3>2, <3>3, <3>4, DoneLemma DEF Settings
    <2> QED BY <1>2, <2>2, <2>3 DEF ScpiRead
  <1> QED BY <1>1, <1>2

LEMMA DevClearSettings ==
    ASSUME NEW b, Bus(b), NEW addr \in Addresses, NEW o \in ScpiDevClear(b, addr)
    PROVE  Settings(o.bus, b)
  <1>1. CASE Target(addr) = 0
    <2>1. PICK c \in IF b.deviceAddressed = "TONONE" THEN {b} ELSE Release(b) :
            o = Done(setControls(c, "CIDS"), "SRS_NONE", NoTransfer)
      BY <1>1 DEF ScpiDevClear, ClearGateway
    <2>2. Bus(c) /\ Settings(c, b)
      BY ReleaseLemma, ReleaseSettings DEF Settings
    <2> QED BY <2>1, <2>2, IdleSettings, DoneLemma DEF ControlStates, Settings
  <1>2. CASE Target(addr) # 0
    <2> DEFINE adr == ScpiAddressDevice(b, Target(addr), "TOLISTEN")
    <2>1. ASSUME NEW a \in adr
          PROVE  /\ Bus(a.bus) /\ Settings(a.bus, b)
                 /\ a.ok => a.bus.paddr = Target(addr)
      BY TargetLemma, ScpiAddressDeviceLemma, ScpiAddressSettings
    <2>2. CASE o \in {Done(a.bus, "SRS_ERROR", NoTransfer) : a \in Failed(adr)}
      BY <2>1, <2>2, DoneLemma DEF Failed
    <2>3. ASSUME NEW c \in Passed(adr), o \in ClearDevice(c) PROVE Settings(o.bus, b)
      <3>1. Bus(c) /\ Settings(c, b) /\ c.paddr \in Nat
        BY <2>1, TargetLemma DEF Passed, Addresses
      <3>2. PICK s \in sendSDC(c) :
              o \in IF s.ok
                    THEN {Done(d, "SRS_NONE", [NoTransfer EXCEPT !.to = s.to]) :
                             d \in Release(setControls(s.bus, "CIDS"))}
                    ELSE {Done(s.bus, "SRS_ERROR", [NoTransfer EXCEPT !.to = s.to])}
        BY <2>3 DEF ClearDevice
      <3>3. Bus(s.bus) /\ Settings(s.bus, c)
        BY <3>1, SendSDCLemma, SDCSettings
      <3>4. /\ Bus(setControls(s.bus, "CIDS"))
            /\ Settings(setControls(s.bus, "CIDS"), c)
        BY <3>3, IdleSettings DEF ControlStates, Settings
      <3>5. PICK d : /\ d = s.bus \/ d \in Release(setControls(s.bus, "CIDS"))
                     /\ o.bus = d
        BY <3>2, DoneLemma
      <3>6. Settings(d, c)
        BY <3>3, <3>4, <3>5, ReleaseSettings DEF Settings
      <3> QED BY <3>1, <3>5, <3>6 DEF Settings
    <2> QED BY <1>2, <2>2, <2>3 DEF ScpiDevClear
  <1> QED BY <1>1, <1>2

-----------------------------------------------------------------------------
(* The web page.                                                           *)

(* Addressing and idling, as a find does at every address.                 *)
LEMMA ScannedSettings ==
    ASSUME NEW b, Bus(b), NEW p \in Nat, NEW o \in addressDevice(b, p, "TOLISTEN")
    PROVE  Settings(setControls(o.bus, "CIDS"), b)
  <1>1. Bus(o.bus) /\ Settings(o.bus, b)
    BY AddressDeviceLemma, AddressSettings
  <1> QED BY <1>1, IdleSettings DEF ControlStates, Settings

LEMMA ScanReachesSettings ==
    ASSUME NEW b, Bus(b), NEW p \in Scanned, NEW c \in ScanReaches(b, p)
    PROVE  Settings(c, b)
  <1>1. CASE \A q \in Scanned : q >= p
    BY <1>1 DEF ScanReaches, Settings
  <1>2. CASE ~(\A q \in Scanned : q >= p)
    <2> DEFINE q == IF p - 1 \in Scanned THEN p - 1 ELSE p - 2
    <2>1. q \in Nat
      BY <1>2, CaddrAssumption DEF Scanned
    <2>2. PICK o \in addressDevice(b, q, "TOLISTEN") : c = setControls(o.bus, "CIDS")
      BY <1>2 DEF ScanReaches, Passed
    <2> HIDE DEF q
    <2> QED BY <2>1, <2>2, ScannedSettings
  <1> QED BY <1>1, <1>2

LEMMA FndlSettings ==
    ASSUME NEW b, Bus(b), NEW c \in fndl(b)
    PROVE  Settings(c, b)
  <1>1. CASE \E o \in addressDevice(b, LastScanned, "TOLISTEN") : c = setControls(o.bus, "CIDS")
    <2>1. LastScanned \in Nat
      BY DEF LastScanned
    <2> QED BY <1>1, <2>1, ScannedSettings
  <1>2. CASE \E p \in Scanned : \E d \in ScanReaches(b, p) :
                \E o \in addressDevice(d, p, "TOLISTEN") : c = setControls(o.bus, "CIDS")
    <2>1. PICK p, d, o :
             /\ p \in Scanned
             /\ d \in ScanReaches(b, p)
             /\ o \in addressDevice(d, p, "TOLISTEN")
             /\ c = setControls(o.bus, "CIDS")
      BY <1>2
    <2>2. Bus(d) /\ Settings(d, b) /\ p \in Nat
      BY <2>1, ScanReachesLemma, ScanReachesSettings DEF Scanned
    <2> QED BY <2>1, <2>2, ScannedSettings DEF Settings
  <1> QED BY <1>1, <1>2 DEF fndl, Passed, Failed

LEMMA StoreAddressSettings ==
    ASSUME NEW b, Bus(b), NEW address \in Addresses
    PROVE  /\ Bus([b EXCEPT !.paddr = address])
           /\ Settings([b EXCEPT !.paddr = address], b)
  BY StoreAddressLemma DEF Bus, Buses, Settings

LEMMA GpibWriteSettings ==
    ASSUME NEW b, Bus(b), NEW address \in Addresses, NEW len \in Nat,
           NEW c \in gpibWrite(b, address, len)
    PROVE  Settings(c, b)
  <1> DEFINE d == [b EXCEPT !.paddr = address]
  <1>1. Bus(d) /\ Settings(d, b)
    BY StoreAddressSettings
  <1>2. PICK a, s, u :
          /\ a \in addressDevice(d, address, "TOLISTEN")
          /\ s \in sendData(a.bus, len, TRUE)
          /\ u \in unAddressDevice(s.bus)
          /\ c = u.bus
    BY DEF gpibWrite, gpibWriteOwnAddress
  <1> HIDE DEF d
  <1>3. Bus(a.bus) /\ Settings(a.bus, d)
    BY <1>1, <1>2, AddressDeviceLemma, AddressSettings DEF Addresses
  <1>4. PICK state \in ControlStates : s.bus = setControls(a.bus, state)
    BY <1>2 DEF sendData, ControlStates
  <1>5. Bus(s.bus) /\ Settings(s.bus, a.bus)
    BY <1>3, <1>4, IdleSettings
  <1>6. Settings(c, s.bus)
    BY <1>2, <1>5, UnAddressSettings
  <1> QED BY <1>1, <1>3, <1>5, <1>6 DEF Settings

LEMMA GpibReadSettings ==
    ASSUME NEW b, Bus(b), NEW address \in Addresses, NEW c \in gpibRead(b, address)
    PROVE  Settings(c, b)
  <1> DEFINE d == [b EXCEPT !.paddr = address]
  <1>1. Bus(d) /\ Settings(d, b)
    BY StoreAddressSettings
  <1>2. PICK a, r, u :
          /\ a \in addressDevice(d, address, "TOTALK")
          /\ r \in receiveData(a.bus, FALSE)
          /\ u \in unAddressDevice(r.bus)
          /\ c = u.bus
    BY DEF gpibRead, gpibReadStillTalking
  <1> HIDE DEF d
  <1>3. Bus(a.bus) /\ Settings(a.bus, d)
    BY <1>1, <1>2, AddressDeviceLemma, AddressSettings DEF Addresses
  <1>4. PICK state \in ControlStates : r.bus = setControls(a.bus, state)
    BY <1>2 DEF receiveData, ControlStates
  <1>5. Bus(r.bus) /\ Settings(r.bus, a.bus)
    BY <1>3, <1>4, IdleSettings
  <1>6. Settings(c, r.bus)
    BY <1>2, <1>5, UnAddressSettings
  <1> QED BY <1>1, <1>3, <1>5, <1>6 DEF Settings

LEMMA HandleRequestSettings ==
    ASSUME NEW b, Bus(b), NEW r \in WebRequestTypes, NEW c \in handleRequest(b, r)
    PROVE  Settings(c, b)
  <1>1. CASE r.op = "fnd"
    BY <1>1, FndlSettings DEF handleRequest
  <1>2. CASE r.op # "fnd" /\ (r.addr \notin 1..31 \/ r.op = "page")
    <2>1. handleRequest(b, r) = {b}
      BY <1>2 DEF handleRequest
    <2> QED BY <2>1 DEF Settings
  <1>3. CASE r.op \in {"send", "read", "query"} /\ r.addr \in 1..31
    <2>1. r.addr \in Addresses /\ r.len \in Nat
      BY <1>3 DEF Addresses, WebRequestTypes
    <2>2. CASE r.op = "send"
      BY <1>3, <2>1, <2>2, GpibWriteSettings DEF handleRequest
    <2>3. CASE r.op = "read"
      BY <1>3, <2>1, <2>3, GpibReadSettings DEF handleRequest
    <2>4. CASE r.op = "query"
      <3>1. PICK d \in gpibWrite(b, r.addr, r.len) : c \in gpibRead(d, r.addr)
        BY <1>3, <2>4 DEF handleRequest
      <3>2. Bus(d) /\ Settings(d, b)
        BY <2>1, GpibWriteLemma, GpibWriteSettings
      <3> QED BY <2>1, <3>1, <3>2, GpibReadSettings DEF Settings
    <2> QED BY <1>3, <2>2, <2>3, <2>4
  <1> QED BY <1>1, <1>2, <1>3 DEF WebRequestTypes

-----------------------------------------------------------------------------
(* The gateway.                                                            *)

Configured(b) == b.eoi = StoredEoi /\ b.eos = StoredEos

(* MessageEnded says what the last write did; it rests on the settings     *)
(* being those of the EEPROM before every request.                         *)
EndedInv == TypeInv /\ Configured(bus) /\ MessageEnded

LEMMA HandlePacketEnded ==
    ASSUME ~HandshakeFaults, StoredEos \in {0, 1}, TypeInv, Configured(bus), handle_packet
    PROVE  Configured(bus') /\ MessageEnded'
  <1>0. /\ TypeOK /\ Bus(bus) /\ bus.eos \in {0, 1}
        /\ turn \in Slots /\ addresses[turn] \in Addresses
    BY DEF TypeInv, TypeOK, Configured
  <1>1. CASE create_link \/ destroy_link \/ readstb \/ Unavailable
    <2>1. bus' = bus /\ reply'.op # "write"
      BY <1>1 DEF create_link, destroy_link, readstb, Unavailable, Reply
    <2> QED BY <2>1 DEF Configured, MessageEnded
  <1>2. CASE read
    <2>1. PICK o \in ScpiRead(bus, addresses[turn]) : bus' = o.bus
      BY <1>2 DEF read
    <2>2. reply'.op # "write"
      BY <1>2 DEF read, Reply
    <2> QED BY <1>0, <2>1, <2>2, ReadSettings DEF Configured, MessageEnded, Settings
  <1>3. CASE devclear
    <2>1. PICK o \in ScpiDevClear(bus, addresses[turn]) : bus' = o.bus
      BY <1>3 DEF devclear
    <2>2. reply'.op # "write"
      BY <1>3 DEF devclear, Reply
    <2> QED BY <1>0, <2>1, <2>2, DevClearSettings DEF Configured, MessageEnded, Settings
  <1>4. CASE write
    <2>1. PICK len, fin, o :
             /\ len \in Nat /\ fin \in BOOLEAN
             /\ o \in ScpiWrite(bus, addresses[turn], len, fin)
             /\ bus' = o.bus
             /\ reply'.data = o.data /\ reply'.more = ~fin
      <3> DEFINE r == request
                 wlen == IF r.end THEN r.len - r.blank ELSE r.len
                 fin == r.end
      <3>1. r \in RequestTypes /\ r.blank <= r.len
        BY <1>0, <1>4, TakesLemma DEF write
      <3> HIDE DEF r
      <3>2. wlen \in Nat /\ fin \in BOOLEAN
        BY <3>1, TrimLemma DEF RequestTypes
      <3>3. \E o \in ScpiWrite(bus, addresses[turn], wlen, fin) :
               /\ bus' = o.bus
               /\ reply' = Reply("write", ErrorOf(o.rv), r.len, ~fin, o.data)
        BY <1>4 DEF write, r
      <3> HIDE DEF wlen, fin
      <3>4. PICK o \in ScpiWrite(bus, addresses[turn], wlen, fin) :
               /\ bus' = o.bus
               /\ reply' = Reply("write", ErrorOf(o.rv), r.len, ~fin, o.data)
        BY <3>3
      <3>5. reply'.data = o.data /\ reply'.more = ~fin
        BY <3>4, Zenon DEF Reply
      <3> QED BY <3>2, <3>4, <3>5
    <2>2. /\ Settings(o.bus, bus)
          /\ o.data.n > 0 =>
               IF fin THEN o.data.ends = EndsOf(bus.eos) /\ o.data.eoi = bus.eoi
               ELSE o.data.ends = {} /\ ~o.data.eoi
      BY <1>0, <2>1, WriteSettings
    <2>3. Configured(bus')
      BY <2>1, <2>2 DEF Configured, Settings
    <2>4. reply'.more <=> ~fin
      BY <2>1
    <2> QED BY <2>1, <2>2, <2>3, <2>4 DEF Configured, MessageEnded
  <1> QED BY <1>1, <1>2, <1>3, <1>4 DEF handle_packet

LEMMA EndedStep ==
    ASSUME ~HandshakeFaults, StoredEos \in {0, 1}
    PROVE  EndedInv /\ [Next]_vars => EndedInv'
  <1> SUFFICES ASSUME EndedInv, [Next]_vars PROVE Configured(bus') /\ MessageEnded'
    BY TypeStep DEF EndedInv, Configured
  <1>0. /\ TypeInv /\ TypeOK /\ Bus(bus) /\ Configured(bus) /\ MessageEnded
        /\ turn \in Slots /\ webReq \in WebRequests \cup {NoWebRequest}
    BY DEF EndedInv, TypeInv, TypeOK
  <1>1. CASE handle_packet
    BY <1>0, <1>1, HandlePacketEnded
  <1>2. CASE Web
    <2>1. pc' # "answer"
      BY <1>2 DEF Web
    <2>2. CASE webReq = NoWebRequest
      BY <1>0, <1>2, <2>1, <2>2 DEF Web, MessageEnded
    <2>3. CASE webReq # NoWebRequest
      <3>1. bus' \in handleRequest(bus, webReq) /\ webReq \in WebRequestTypes
        BY <1>0, <1>2, <2>3, WebRequestsAssumption DEF Web
      <3>2. Settings(bus', bus)
        BY <1>0, <3>1, HandleRequestSettings
      <3> QED BY <1>0, <2>1, <3>2 DEF Configured, Settings, MessageEnded
    <2> QED BY <2>2, <2>3
  <1>3. CASE Bind \/ Reap \/ Accept \/ Skip \/ Answer \/ Ui
    <2>1. pc' # "answer"
      BY <1>0, <1>3, AdvanceLemma DEF Bind, Reap, Accept, Skip, Answer, Ui
    <2>2. bus' = bus
      BY <1>3 DEF Bind, Reap, Accept, Skip, Answer, Ui
    <2> QED BY <1>0, <2>1, <2>2 DEF MessageEnded
  <1>4. CASE Reboot
    BY <1>4 DEF Reboot, BootBus, Configured, MessageEnded
  <1>5. ASSUME NEW i \in Instruments, SwitchInstrument(i) PROVE Configured(bus') /\ MessageEnded'
    <2>1. bus'.eoi = bus.eoi /\ bus'.eos = bus.eos
      BY <1>0, <1>5 DEF SwitchInstrument, PowerOff, PowerOn, Bus, Buses
    <2>2. UNCHANGED <<pc, reply>>
      BY <1>5 DEF SwitchInstrument
    <2> QED BY <1>0, <2>1, <2>2 DEF Configured, MessageEnded
  <1>6. CASE Environment /\ ~Reboot /\ ~(\E i \in Instruments : SwitchInstrument(i))
    <2>1. UNCHANGED <<bus, pc, reply>>
      BY <1>6 DEF Environment, Connect, AskWeb, Request, PeerCloses, GoesAway, AskPort
    <2> QED BY <1>0, <2>1 DEF MessageEnded
  <1>7. CASE UNCHANGED vars
    BY <1>0, <1>7 DEF vars, MessageEnded
  <1> QED BY <1>1, <1>2, <1>3, <1>4, <1>5, <1>6, <1>7 DEF Next, Loop, Environment

(* As long as no byte times out and the configured terminator is CR or     *)
(* CR LF, a message cut into any number of write requests, between which   *)
(* other clients and the web page use the bus, is ended once, at its last  *)
(* part, with the configured end characters and EOI.  (cfg.eos 2 and 3     *)
(* come back as 1 after a partial write: it is saved in a bool,            *)
(* main.cpp:155.)                                                          *)
THEOREM EndedCorrect ==
    ASSUME ~HandshakeFaults, StoredEos \in {0, 1}
    PROVE  Spec => []MessageEnded
  <1>1. Init => EndedInv
    <2>1. Init => Configured(bus) /\ MessageEnded
      BY DEF Init, BootBus, Configured, MessageEnded
    <2> QED BY <2>1, TypeInit DEF EndedInv
  <1>2. EndedInv => MessageEnded
    BY DEF EndedInv
  <1> QED BY <1>1, <1>2, EndedStep, PTL DEF Spec
=============================================================================
