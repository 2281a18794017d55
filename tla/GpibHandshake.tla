--------------------------- MODULE GpibHandshake ---------------------------
(***************************************************************************)
(* The three-wire handshake under one message (AR488_GPIBbus.cpp): a       *)
(* talker in sendData/writeByte and listeners in receiveData/readByte, at  *)
(* the grain of one access to a signal.  Both ends run this code when two  *)
(* adapters face each other, one of them in controller mode.               *)
(*                                                                         *)
(* NRFD and NDAC are wired together: low when some listener asserts them.  *)
(* A byte of the message is its position; 0 is the idle data bus and the   *)
(* position after the last is the command byte the controller sends when   *)
(* it takes the bus back.  A loop may run out of time at any iteration in  *)
(* which it waits.                                                         *)
(***************************************************************************)
EXTENDS Integers, Sequences

CONSTANTS
    Listeners,  \* the stations that may be addressed to listen
    Talker,     \* the talker addressed
    Settings    \* the messages, and the parts the stations play (see Setting)

Stations == Listeners \cup {Talker}

(* controller: the station in controller mode; listeners: those addressed; *)
(* slow: those whose time-out (cfg.rtmo) may expire; data: how many bytes  *)
(* the caller sends; parts: those after which a call of sendData ends and  *)
(* the next begins; ends: the terminators after the last; limit: maxSize   *)
(* of receiveData, 0 for none.  The last byte is marked with EOI.          *)
Setting == [controller : Stations, listeners : SUBSET Listeners, slow : SUBSET Stations,
            data : Nat \ {0}, parts : SUBSET Nat, ends : 0..2, limit : Nat]

ASSUME TalkerAssumption == Talker \notin Listeners
ASSUME SettingsAssumption ==
    /\ Settings \subseteq Setting
    /\ \A m \in Settings : /\ m.parts \subseteq 1..(m.data - 1)
                           /\ m.controller \in m.listeners \cup {Talker}

VARIABLES
    setting,
    \* the signals: TRUE is asserted, which is low
    atn, dav, eoi, db, nrfd, ndac,
    \* the talker: its program counter and the byte it is at
    state, at,
    \* the listeners: program counter, byte and EOI read, what receiveData
    \* has put out, how much of it in this call, why the call ended
    gpibState, byte, eoiDetected, received, x, rstate,
    \* history: the bytes the talker saw accepted, who has timed out
    accepted, late

lines == <<atn, dav, eoi, db>>
handshake == <<nrfd, ndac>>
sender == <<state, at>>
receivers == <<gpibState, byte, eoiDetected, received, x, rstate>>
history == <<accepted, late>>
vars == <<setting, lines, handshake, sender, receivers, history>>

Total == setting.data + setting.ends
Command == Total + 1
Addressed == setting.listeners
InDeviceMode(s) == s # setting.controller

NRFD == \E l \in Addressed : nrfd[l]
NDAC == \E l \in Addressed : ndac[l]

Sending == {"HANDSHAKE_START", "WAIT_FOR_RECEIVER_READY", "DATA_READY", "RECEIVER_ACCEPTING"}
SenderStates == Sending \cup {"setControls", "PLACE_DATA", "ASSERT_DAV",
                              "HANDSHAKE_COMPLETE", "idle", "done"}
Waiting == {"WAIT_FOR_DATA", "DATA_ACCEPTED"}
Reading == {"SAMPLED", "READ_EOI", "READ_DATA", "READ_DONE"}
ReceiverStates == Waiting \cup Reading \cup {"HANDSHAKE_START", "idle", "done"}
Reasons == {"RECEIVE_INIT", "RECEIVE_EOI", "RECEIVE_LIMIT", "RECEIVE_ATN", "RECEIVE_ERR"}

Init ==
    /\ setting \in Settings
    /\ atn = FALSE /\ dav = FALSE /\ eoi = FALSE /\ db = 0
    \* addressed listeners hold both signals, from the command handshake on
    /\ nrfd = [l \in Listeners |-> TRUE]
    /\ ndac = [l \in Listeners |-> TRUE]
    /\ state = "setControls" /\ at = 1
    /\ gpibState = [l \in Listeners |-> "HANDSHAKE_START"]
    /\ byte = [l \in Listeners |-> 0]
    /\ eoiDetected = [l \in Listeners |-> FALSE]
    /\ received = [l \in Listeners |-> << >>]
    /\ x = [l \in Listeners |-> 0]
    /\ rstate = [l \in Listeners |-> "RECEIVE_INIT"]
    /\ accepted = {} /\ late = {}

-----------------------------------------------------------------------------
(* The talker.                                                             *)

(* A call of sendData begins: DAV and EOI become outputs, not asserted.    *)
SendData ==
    /\ state = "setControls"
    /\ dav' = FALSE /\ eoi' = FALSE
    /\ state' = "HANDSHAKE_START"
    /\ UNCHANGED <<setting, atn, db, handshake, at, receivers, history>>

(* A wait of writeByte is over when the wired signal has the level.        *)
Await(from, condition, to) ==
    /\ state = from
    /\ condition
    /\ state' = to
    /\ UNCHANGED <<setting, lines, handshake, at, receivers, history>>

(* Some listener holds NDAC; none holds NRFD; one is busy with the byte.   *)
WaitForAttention == Await("HANDSHAKE_START", NDAC, "WAIT_FOR_RECEIVER_READY")
(* A variant that does not wait for NRFD.                                  *)
SkipReceiverReady == Await("WAIT_FOR_RECEIVER_READY", TRUE, "PLACE_DATA")

WaitForReceiverReady == Await("WAIT_FOR_RECEIVER_READY", ~NRFD, "PLACE_DATA")
WaitForAccepting == Await("DATA_READY", NRFD, "RECEIVER_ACCEPTING")

PlaceData ==
    /\ state = "PLACE_DATA"
    /\ db' = at
    /\ state' = "ASSERT_DAV"
    /\ UNCHANGED <<setting, atn, dav, eoi, handshake, at, receivers, history>>

(* A variant that marks the caller's last byte even if terminators follow. *)
AssertDavEoiOnData ==
    /\ state = "ASSERT_DAV"
    /\ dav' = TRUE
    /\ eoi' = (eoi \/ at = setting.data)
    /\ state' = "DATA_READY"
    /\ UNCHANGED <<setting, atn, db, handshake, at, receivers, history>>

AssertDav ==
    /\ state = "ASSERT_DAV"
    /\ dav' = TRUE
    /\ eoi' = (eoi \/ at = Total)
    /\ state' = "DATA_READY"
    /\ UNCHANGED <<setting, atn, db, handshake, at, receivers, history>>

(* DAV, and EOI if this byte had it, are released as soon as the byte is   *)
(* seen accepted.                                                          *)
WaitForAccepted ==
    /\ state = "RECEIVER_ACCEPTING"
    /\ ~NDAC
    /\ dav' = FALSE
    /\ eoi' = (eoi /\ at # Total)
    /\ accepted' = accepted \cup {at}
    /\ state' = "HANDSHAKE_COMPLETE"
    /\ UNCHANGED <<setting, atn, db, handshake, at, receivers, late>>

(* Where the talker is after byte at: the next byte of this call, the next *)
(* call of sendData, or the end.                                           *)
GoOn(n) ==
    /\ at' = n
    /\ state' = IF n > Total THEN "idle"
                ELSE IF n - 1 \in setting.parts THEN "setControls" ELSE "HANDSHAKE_START"

(* A variant that does not stop after the command byte.                    *)
HandshakeCompleteRunOn ==
    /\ state = "HANDSHAKE_COMPLETE"
    /\ db' = 0
    /\ GoOn(at + 1)
    /\ UNCHANGED <<setting, atn, dav, eoi, handshake, receivers, history>>

HandshakeComplete ==
    /\ state = "HANDSHAKE_COMPLETE"
    /\ db' = 0
    /\ IF at = Command THEN state' = "done" /\ at' = at ELSE GoOn(at + 1)
    /\ UNCHANGED <<setting, atn, dav, eoi, handshake, receivers, history>>

(* The call of sendData for byte n would have ended with byte e.           *)
CallEnd(n, e) ==
    /\ e \in setting.parts \cup {setting.data}
    /\ e >= n
    /\ \A p \in setting.parts \cup {setting.data} : p >= n => p >= e

(* A data byte that times out ends its call, without terminators.  A       *)
(* terminator that times out is passed over.  Nothing releases DAV.        *)
WriteTimeOut ==
    /\ Talker \in setting.slow
    /\ state \in Sending
    /\ late' = late \cup {Talker}
    /\ IF at = Command THEN state' = "done" /\ at' = at
       ELSE IF at > setting.data THEN GoOn(at + 1)
       ELSE \E e \in 1..setting.data :
               CallEnd(at, e) /\ GoOn(IF e = setting.data THEN Total + 1 ELSE e + 1)
    /\ UNCHANGED <<setting, lines, handshake, receivers, accepted>>

(* A device gives the bus up when the controller asserts ATN.              *)
WriteAbort ==
    /\ InDeviceMode(Talker) /\ atn
    /\ state \in Sending
    /\ dav' = FALSE /\ eoi' = FALSE
    /\ state' = "idle" /\ at' = Total + 1
    /\ UNCHANGED <<setting, atn, db, handshake, receivers, history>>

(* The last call ends: CIDS or DIDS.                                       *)
SendEnd ==
    /\ state = "idle"
    /\ dav' = FALSE /\ eoi' = FALSE
    /\ state' = "done"
    /\ UNCHANGED <<setting, atn, db, handshake, at, receivers, history>>

-----------------------------------------------------------------------------
(* A listener.                                                             *)

Step(l, from, to) ==
    /\ gpibState[l] = from
    /\ gpibState' = [gpibState EXCEPT ![l] = to]

(* A new byte; NRFD is released.                                           *)
Ready(l) ==
    /\ Step(l, "HANDSHAKE_START", "WAIT_FOR_DATA")
    /\ ~atn
    /\ eoiDetected' = [eoiDetected EXCEPT ![l] = FALSE]
    /\ nrfd' = [nrfd EXCEPT ![l] = FALSE]
    /\ UNCHANGED <<setting, lines, ndac, sender, byte, received, x, rstate, history>>

SeeDav(l) ==
    /\ Step(l, "WAIT_FOR_DATA", "SAMPLED")
    /\ dav
    /\ UNCHANGED <<setting, lines, handshake, sender, byte, eoiDetected, received, x, rstate, history>>

Busy(l) ==
    /\ Step(l, "SAMPLED", "READ_EOI")
    /\ nrfd' = [nrfd EXCEPT ![l] = TRUE]
    /\ UNCHANGED <<setting, lines, ndac, sender, byte, eoiDetected, received, x, rstate, history>>

ReadEoi(l) ==
    /\ Step(l, "READ_EOI", "READ_DATA")
    /\ eoiDetected' = [eoiDetected EXCEPT ![l] = eoi]
    /\ UNCHANGED <<setting, lines, handshake, sender, byte, received, x, rstate, history>>

ReadData(l) ==
    /\ Step(l, "READ_DATA", "READ_DONE")
    /\ byte' = [byte EXCEPT ![l] = db]
    /\ UNCHANGED <<setting, lines, handshake, sender, eoiDetected, received, x, rstate, history>>

Accept(l) ==
    /\ Step(l, "READ_DONE", "DATA_ACCEPTED")
    /\ ndac' = [ndac EXCEPT ![l] = FALSE]
    /\ UNCHANGED <<setting, lines, nrfd, sender, byte, eoiDetected, received, x, rstate, history>>

(* Only the controller's callers set a limit.                              *)
AtLimit(l) == ~InDeviceMode(l) /\ setting.limit > 0 /\ x[l] + 1 >= setting.limit

(* The byte goes to the caller's stream, and the call of receiveData ends  *)
(* with EOI, or at its limit, where the signals stay as they are.          *)
PutOut(l) ==
    LET stop == IF eoiDetected[l] THEN "RECEIVE_EOI"
                ELSE IF AtLimit(l) THEN "RECEIVE_LIMIT" ELSE "RECEIVE_INIT"
    IN  /\ received' = [received EXCEPT ![l] = Append(@, byte[l])]
        /\ x' = [x EXCEPT ![l] = @ + 1]
        /\ rstate' = [rstate EXCEPT ![l] = stop]
        /\ gpibState' = [gpibState EXCEPT ![l] =
                            CASE stop = "RECEIVE_EOI"   -> "idle"
                              [] stop = "RECEIVE_LIMIT" -> "done"
                              [] OTHER                  -> "HANDSHAKE_START"]

(* A variant that does not wait for DAV to be released.                    *)
ReceiveAtOnce(l) ==
    /\ gpibState[l] = "DATA_ACCEPTED"
    /\ ndac' = [ndac EXCEPT ![l] = TRUE]
    /\ PutOut(l)
    /\ UNCHANGED <<setting, lines, nrfd, sender, byte, eoiDetected, history>>

(* A variant that leaves NDAC released.                                    *)
ReceiveWithoutNdac(l) ==
    /\ gpibState[l] = "DATA_ACCEPTED"
    /\ ~dav
    /\ PutOut(l)
    /\ UNCHANGED <<setting, lines, handshake, sender, byte, eoiDetected, history>>

(* DAV is released: NDAC is asserted again, the byte is complete.          *)
Receive(l) ==
    /\ gpibState[l] = "DATA_ACCEPTED"
    /\ ~dav
    /\ ndac' = [ndac EXCEPT ![l] = TRUE]
    /\ PutOut(l)
    /\ UNCHANGED <<setting, lines, nrfd, sender, byte, eoiDetected, history>>

End(l, reason) ==
    /\ gpibState' = [gpibState EXCEPT ![l] = "idle"]
    /\ rstate' = [rstate EXCEPT ![l] = reason]
    /\ UNCHANGED <<setting, lines, handshake, sender, byte, eoiDetected, received, x, accepted>>

(* The byte that was read, if any, is dropped.                             *)
ReadTimeOut(l) ==
    /\ l \in setting.slow
    /\ gpibState[l] \in Waiting
    /\ late' = late \cup {l}
    /\ End(l, "RECEIVE_ERR")

(* In device mode every iteration looks at ATN first; in either mode it is *)
(* looked at before a byte.                                                *)
ReadAbort(l) ==
    /\ atn
    /\ \/ gpibState[l] = "HANDSHAKE_START"
       \/ InDeviceMode(l) /\ gpibState[l] \in Waiting
    /\ late' = late
    /\ End(l, "RECEIVE_ATN")

(* CIDS or DIDS: both signals are released.                                *)
ReceiveEnd(l) ==
    /\ Step(l, "idle", "done")
    /\ nrfd' = [nrfd EXCEPT ![l] = FALSE]
    /\ ndac' = [ndac EXCEPT ![l] = FALSE]
    /\ UNCHANGED <<setting, lines, sender, byte, eoiDetected, received, x, rstate, history>>

(* The caller asks for more after the limit: both signals are asserted.    *)
ReceiveMore(l) ==
    /\ Step(l, "done", "HANDSHAKE_START")
    /\ rstate[l] = "RECEIVE_LIMIT"
    /\ ~atn
    /\ rstate' = [rstate EXCEPT ![l] = "RECEIVE_INIT"]
    /\ x' = [x EXCEPT ![l] = 0]
    /\ nrfd' = [nrfd EXCEPT ![l] = TRUE]
    /\ ndac' = [ndac EXCEPT ![l] = TRUE]
    /\ UNCHANGED <<setting, lines, sender, byte, eoiDetected, received, history>>

-----------------------------------------------------------------------------
(* The controller, when its own call is over, asserts ATN to unaddress the *)
(* stations; a talking controller goes on with the first command byte.     *)
TakeControl ==
    /\ ~atn
    /\ atn' = TRUE
    /\ IF setting.controller = Talker
       THEN state = "done" /\ state' = "HANDSHAKE_START" /\ at' = Command
       ELSE gpibState[setting.controller] = "done" /\ UNCHANGED sender
    /\ UNCHANGED <<setting, dav, eoi, db, handshake, receivers, history>>

TalkerStep ==
    \/ SendData \/ WaitForAttention \/ WaitForReceiverReady \/ PlaceData \/ AssertDav
    \/ WaitForAccepting \/ WaitForAccepted \/ HandshakeComplete \/ WriteAbort \/ SendEnd

ListenerStep(l) ==
    \/ Ready(l) \/ SeeDav(l) \/ Busy(l) \/ ReadEoi(l) \/ ReadData(l) \/ Accept(l)
    \/ Receive(l) \/ ReadAbort(l) \/ ReceiveEnd(l)

Next ==
    \/ TalkerStep \/ WriteTimeOut \/ TakeControl
    \/ \E l \in Addressed : ListenerStep(l) \/ ReadTimeOut(l) \/ ReceiveMore(l)

(* Every station runs its loop; nothing is assumed of the time-outs, of    *)
(* what the controller does next or of the caller of a read.               *)
Fairness == /\ WF_vars(TalkerStep)
            /\ \A l \in Listeners : WF_vars(l \in Addressed /\ ListenerStep(l))

Spec == Init /\ [][Next]_vars /\ Fairness

-----------------------------------------------------------------------------
(* Properties.                                                             *)

(* Types; the talker never goes beyond the command byte.                   *)
TypeOK ==
    /\ setting \in Settings
    /\ atn \in BOOLEAN /\ dav \in BOOLEAN /\ eoi \in BOOLEAN /\ db \in 0..Command
    /\ nrfd \in [Listeners -> BOOLEAN] /\ ndac \in [Listeners -> BOOLEAN]
    /\ state \in SenderStates /\ at \in 1..Command
    /\ gpibState \in [Listeners -> ReceiverStates]
    /\ byte \in [Listeners -> 0..Command] /\ eoiDetected \in [Listeners -> BOOLEAN]
    /\ received \in [Listeners -> Seq(0..Command)] /\ x \in [Listeners -> Nat]
    /\ rstate \in [Listeners -> Reasons]
    /\ accepted \subseteq 1..Command /\ late \subseteq Stations

(* Every listener puts out a beginning of the message: no byte twice, none *)
(* skipped, none that is not of the message (the idle bus, a command), at  *)
(* whatever point other listeners run out of time or the controller takes  *)
(* the bus.  (After a time-out of the talker all of these can happen.)     *)
InOrder ==
    Talker \notin late =>
        \A l \in Addressed : \A i \in 1..Len(received[l]) :
            received[l][i] = i /\ i <= Total

Has(l, n) ==
    \/ \E i \in 1..Len(received[l]) : received[l][i] = n
    \/ gpibState[l] \in {"READ_DONE", "DATA_ACCEPTED"} /\ byte[l] = n

(* A byte the talker has seen accepted was read by every listener, those   *)
(* that run out of time excepted; when one of them does, the others lose   *)
(* nothing.  Only the last byte before the controller asserts ATN can be   *)
(* lost, by a device that has not seen DAV released by then; and the last  *)
(* two, when a controller that has run out of time asserts ATN and another *)
(* device has already asked for the next byte.                             *)
NothingLost ==
    Talker \notin late =>
        \A l \in Addressed \ late : \A n \in accepted \cap (1..Total) :
            \/ Has(l, n)
            \/ /\ rstate[l] = "RECEIVE_ATN"
               /\ \A m \in accepted \ {Command} :
                     m <= IF setting.controller \in late THEN n + 1 ELSE n

(* A listener that is told of the end of the message by EOI has all of it, *)
(* if the talker was never late.                                           *)
EoiMeansAll ==
    Talker \notin late =>
        \A l \in Addressed : rstate[l] = "RECEIVE_EOI" => Len(received[l]) = Total

(* Every behaviour of the signals is a transfer of the message: nobody is  *)
(* given a byte before all listeners that are still there have put out the *)
(* one before, nobody puts out anything after the end of its read, and EOI *)
(* is told with the last byte only, unless the talker was late.            *)
Transfer == INSTANCE MessageTransfer WITH
    to <- Addressed,
    length <- Total,
    heard <- received,
    told <- rstate,
    broken <- Talker \in late

ImplementsTransfer == Transfer!Spec

(* The reading controller takes the bus back before the end of message.    *)
GivesUp == atn /\ \E l \in Addressed : ~InDeviceMode(l) /\ rstate[l] = "RECEIVE_LIMIT"

(* When nobody runs out of time and a read that reached its limit is       *)
(* followed by another, the talker gets all its bytes through and every    *)
(* listener reads to the end: no wait of the handshake is circular.        *)
Delivered ==
    /\ [](late = {} /\ ~GivesUp)
    /\ []<>(\A l \in Addressed : rstate[l] # "RECEIVE_LIMIT")
    => <>(/\ 1..Total \subseteq accepted
          /\ \A l \in Addressed : rstate[l] \in {"RECEIVE_EOI", "RECEIVE_ATN"})
=============================================================================
