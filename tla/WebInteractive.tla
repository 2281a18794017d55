--------------------------- MODULE WebInteractive ---------------------------
(***************************************************************************)
(* The bus operations of the interactive web page (web_server.cpp, built   *)
(* with WEB_INTERACTIVE): find the instruments, send to one, read from one.*)
(* They work on the same gpibBus object, and the same cfg.paddr, as the    *)
(* SCPI handler of the VXI-11 server.                                      *)
(***************************************************************************)
EXTENDS ScpiHandler

(* The instruments a find looks for, in ascending order of address: all    *)
(* of 0..30 but caddr.                                                     *)
Scanned == (0..30) \ {Caddr}
LastScanned == IF Caddr = 30 THEN 29 ELSE 30

(* The buses on which the scan addresses p: at first the one it found, then*)
(* that of any address before p, which was addressed without error.        *)
ScanReaches(b, p) ==
    IF \A q \in Scanned : q >= p
    THEN {b}
    ELSE LET q == IF p - 1 \in Scanned THEN p - 1 ELSE p - 2
         IN  {setControls(c, "CIDS") : c \in Passed(addressDevice(b, q, "TOLISTEN"))}

(* fndl: every address is addressed to listen in turn; the scan ends after *)
(* the last, or at the first that cannot be addressed.  No device is       *)
(* unaddressed at the end, and paddr is not touched.                       *)
fndl(b) ==
    {setControls(c, "CIDS") : c \in Passed(addressDevice(b, LastScanned, "TOLISTEN"))}
      \cup
    {setControls(o.bus, "CIDS") :
        o \in UNION {UNION {Failed(addressDevice(c, p, "TOLISTEN")) :
                               c \in ScanReaches(b, p)} : p \in Scanned}}

(* gpibWrite from addressDevice on, when paddr has been set.               *)
gpibWriteOwnAddress(b, address, len) ==
    {u.bus : u \in UNION {unAddressDevice(s.bus) :
        s \in UNION {sendData(a.bus, len, TRUE) :
            a \in addressDevice(b, address, "TOLISTEN")}}}

(* A variant that gives up when the device cannot be addressed.            *)
gpibWriteGivesUp(b, address, len) ==
    LET adr == addressDevice([b EXCEPT !.paddr = address], address, "TOLISTEN")
    IN  {o.bus : o \in Failed(adr)}
          \cup {u.bus : u \in UNION {unAddressDevice(s.bus) :
                   s \in UNION {sendData(c, len, TRUE) : c \in Passed(adr)}}}

(* gpibWrite: the address is stored in paddr, and stays there after the    *)
(* device is unaddressed; the result of addressDevice is ignored.          *)
gpibWrite(b, address, len) ==
    gpibWriteOwnAddress([b EXCEPT !.paddr = address], address, len)

(* gpibRead up to the point where it unaddresses the device.               *)
gpibReadStillTalking(b, address) ==
    {r.bus : r \in UNION {receiveData(a.bus, FALSE) :
        a \in addressDevice([b EXCEPT !.paddr = address], address, "TOTALK")}}

gpibRead(b, address) ==
    {u.bus : u \in UNION {unAddressDevice(c) : c \in gpibReadStillTalking(b, address)}}

(* handleRequest: /fnd, /ex1 (send), /ex2 (read), /ex0 (query, which reads *)
(* only after a command that ends in a question mark).  A reply to a       *)
(* request that names no operation, or an address outside 1..31, leaves    *)
(* the bus alone.                                                          *)
handleRequest(b, r) ==
    LET named == r.addr \in 1..31 IN
    CASE r.op = "fnd"              -> fndl(b)
      [] r.op = "send" /\ named   -> gpibWrite(b, r.addr, r.len)
      [] r.op = "read" /\ named   -> gpibRead(b, r.addr)
      [] r.op = "query" /\ named  -> UNION {gpibRead(c, r.addr) :
                                             c \in gpibWrite(b, r.addr, r.len)}
      [] OTHER                    -> {b}
=============================================================================
