---------------------------- MODULE ScpiHandler ----------------------------
(***************************************************************************)
(* class SCPI_handler (main.cpp): the bridge between the VXI-11 server and *)
(* the GPIB bus.  It keeps an instrument addressed between the chunks of   *)
(* one message, remembers which one in cfg.paddr, and does not address it  *)
(* again as long as the requests are for that address.                     *)
(*                                                                         *)
(* As in GpibBus, an operation is the set of its outcomes: the bus it      *)
(* leaves, the stop reason it returns, what moved on the bus.              *)
(***************************************************************************)
EXTENDS GpibBus

CONSTANT Caddr  \* cfg.caddr: 0, or the default instrument's address

ASSUME CaddrAssumption == Caddr \in 0..30

StopReasons == {"SRS_NONE", "SRS_EOI", "SRS_MAXSIZE", "SRS_TIMEOUT", "SRS_ERROR"}

ScpiOutcomes == [bus : Buses, rv : StopReasons, data : Transfers]

(* Address 0 means the default instrument, if one is configured.           *)
Target(address) == IF address = 0 THEN Caddr ELSE address

Unaddressed(b) == [b EXCEPT !.paddr = NoDevice]

Done(b, rv, t) == [bus |-> b, rv |-> rv, data |-> t]

(* A variant that forgets to mark the device as unaddressed.               *)
ReleaseKeepingPaddr(b) == {u.bus : u \in unAddressDevice(b)}

(* unAddressDevice() and paddr = 0xFF, whatever unAddressDevice returns.   *)
Release(b) == {Unaddressed(u.bus) : u \in unAddressDevice(b)}

(* A variant that keeps the new paddr when addressing has failed.          *)
ScpiAddressDeviceKeepingPaddr(b, address, dir) ==
    IF b.paddr = address
    THEN {Outcome(b, TRUE)}
    ELSE addressDevice([b EXCEPT !.paddr = address], address, dir)

(* The device is addressed only when the address differs from the last     *)
(* one; the direction is not compared.  cstate is never DLAS in controller *)
(* mode, so isDeviceAddressedToListen() is false there.                    *)
ScpiAddressDevice(b, address, dir) ==
    IF b.paddr = address
    THEN {Outcome(b, TRUE)}
    ELSE LET c == [b EXCEPT !.paddr = address] IN
         IF c.deviceAddressed # "TONONE" /\ c.cstate = "DLAS"
         THEN {Outcome(c, TRUE)}
         ELSE LET adr == addressDevice(c, address, dir)
              IN  {o \in adr : o.ok}
                    \cup
                  {Outcome(d, FALSE) :
                     d \in UNION {Release(setControls(o.bus, "CIDS")) : o \in Failed(adr)}}

-----------------------------------------------------------------------------
(* write                                                                   *)

AsBool(v) == IF v = 0 THEN 0 ELSE 1

(* A variant that leaves the settings of the partial write in place.       *)
WritePartKeepingSettings(b, len) ==
    {Done(s.bus, "SRS_NONE", s.data) :
        s \in sendData([b EXCEPT !.eoi = FALSE, !.eos = 3], len, FALSE)}

(* A message that goes on in the next request: no EOI and no end           *)
(* characters, by means of the settings, which are saved in two bools.     *)
WritePart(b, len) ==
    {Done([s.bus EXCEPT !.eoi = b.eoi, !.eos = AsBool(b.eos)], "SRS_NONE", s.data) :
        s \in sendData([b EXCEPT !.eoi = FALSE, !.eos = 3], len, FALSE)}

WriteEnd(b, len) ==
    UNION {{Done(c, "SRS_NONE", s.data) : c \in Release(s.bus)} :
              s \in sendData(b, len, TRUE)}

ScpiWrite(b, addr, len, isEnd) ==
    IF Target(addr) = 0
    THEN {Done(b, "SRS_NONE", NoTransfer)}
    ELSE LET adr == ScpiAddressDevice(b, Target(addr), "TOLISTEN")
         IN  {Done(o.bus, "SRS_TIMEOUT", NoTransfer) : o \in Failed(adr)}
               \cup
             UNION {IF isEnd THEN WriteEnd(c, len) ELSE WritePart(c, len) :
                       c \in Passed(adr)}

-----------------------------------------------------------------------------
(* read                                                                    *)

StopReasonOf(stop) == CASE stop = "RECEIVE_EOI"   -> "SRS_EOI"
                        [] stop = "RECEIVE_LIMIT" -> "SRS_MAXSIZE"
                        [] OTHER                  -> "SRS_TIMEOUT"

(* At the size limit the device stays addressed for the next read.         *)
ReadAddressed(b) ==
    UNION {{Done(c, StopReasonOf(r.stop), r.data) :
               c \in IF r.stop = "RECEIVE_LIMIT" THEN {r.bus} ELSE Release(r.bus)} :
              r \in receiveData(b, TRUE)}

(* A read of address 0 without default instrument answers with the name of *)
(* the gateway, from no instrument.                                        *)
ScpiRead(b, addr) ==
    IF Target(addr) = 0
    THEN {Done(b, "SRS_EOI", NoTransfer)}
    ELSE LET adr == ScpiAddressDevice(b, Target(addr), "TOTALK")
         IN  {Done(o.bus, "SRS_TIMEOUT", NoTransfer) : o \in Failed(adr)}
               \cup UNION {ReadAddressed(c) : c \in Passed(adr)}

-----------------------------------------------------------------------------
(* devclear                                                                *)

(* The gateway's own clear: release the addressed device, if any, and idle *)
(* the bus.  REN is driven low since the boot, so sendAllClear is called;  *)
(* it moves REN and ATN and leaves addressing and cstate alone.            *)
ClearGateway(b) ==
    {Done(setControls(c, "CIDS"), "SRS_NONE", NoTransfer) :
        c \in IF b.deviceAddressed = "TONONE" THEN {b} ELSE Release(b)}

(* When sendSDC fails the handler returns at once: paddr keeps the address.*)
ClearDevice(b) ==
    UNION {IF s.ok
           THEN {Done(c, "SRS_NONE", [NoTransfer EXCEPT !.to = s.to]) :
                    c \in Release(setControls(s.bus, "CIDS"))}
           ELSE {Done(s.bus, "SRS_ERROR", [NoTransfer EXCEPT !.to = s.to])} :
              s \in sendSDC(b)}

ScpiDevClear(b, addr) ==
    IF Target(addr) = 0
    THEN ClearGateway(b)
    ELSE LET adr == ScpiAddressDevice(b, Target(addr), "TOLISTEN")
         IN  {Done(o.bus, "SRS_ERROR", NoTransfer) : o \in Failed(adr)}
               \cup UNION {ClearDevice(c) : c \in Passed(adr)}

(* read_stb touches the bus for no address: 0xFF, which the caller turns   *)
(* into PROC_UNAVAIL, for an instrument, cfg.stat for the gateway.         *)
ScpiHasStatus(addr) == Target(addr) = 0
=============================================================================
