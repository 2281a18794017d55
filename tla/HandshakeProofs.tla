-------------------------- MODULE HandshakeProofs --------------------------
(***************************************************************************)
(* The three-wire handshake delivers: for any number of listeners, any     *)
(* message, whichever station is the controller, and with time-outs of the *)
(* listeners at any point.                                                 *)
(***************************************************************************)
EXTENDS GpibHandshake, TLAPS

got(l) == Len(received[l])

(* In a call of receiveData, or stopped at its limit.                      *)
Active(l) == gpibState[l] \notin {"idle", "done"} \/ rstate[l] = "RECEIVE_LIMIT"

Reasonable(l) ==
    /\ gpibState[l] \notin {"idle", "done"} => rstate[l] = "RECEIVE_INIT"
    /\ gpibState[l] \in {"idle", "done"} => rstate[l] # "RECEIVE_INIT"
    /\ rstate[l] = "RECEIVE_LIMIT" => gpibState[l] = "done"

(* Who is not ready for a byte holds NRFD, who has not accepted it NDAC.   *)
Holds(l) ==
    /\ Active(l) /\ gpibState[l] \notin {"WAIT_FOR_DATA", "SAMPLED"} => nrfd[l]
    /\ Active(l) /\ gpibState[l] # "DATA_ACCEPTED" => ndac[l]

(* What a listener has put out, and the byte it is reading.                *)
Reads(l) ==
    /\ got(l) <= Total
    /\ \A i \in 1..got(l) : received[l][i] = i
    /\ gpibState[l] \in Reading \cup {"DATA_ACCEPTED"} => got(l) < Total
    /\ gpibState[l] \in {"SAMPLED", "READ_EOI", "READ_DATA"} => db = got(l) + 1
    /\ gpibState[l] \in {"READ_DONE", "DATA_ACCEPTED"} => byte[l] = got(l) + 1

(* EOI marks the last byte, and only a talker that is not the controller   *)
(* may take it back.                                                       *)
Marks(l) ==
    /\ gpibState[l] \in {"SAMPLED", "READ_EOI"} =>
          /\ eoi => got(l) + 1 = Total
          /\ setting.controller = Talker /\ got(l) + 1 = Total => eoi
    /\ gpibState[l] \in {"READ_DATA", "READ_DONE", "DATA_ACCEPTED"} =>
          /\ eoiDetected[l] => got(l) + 1 = Total
          /\ setting.controller = Talker /\ got(l) + 1 = Total => eoiDetected[l]
    /\ rstate[l] = "RECEIVE_EOI" => got(l) = Total
    /\ setting.controller = Talker /\ got(l) = Total => rstate[l] = "RECEIVE_EOI"

(* Between two bytes: some may still be completing byte n - 1.             *)
Between(l, n) ==
    Active(l) =>
        /\ gpibState[l] \notin Reading
        /\ got(l) = IF gpibState[l] = "DATA_ACCEPTED" THEN n - 2 ELSE n - 1

(* A controller that listens has taken the bus.                            *)
Seized == atn /\ setting.controller # Talker

(* Where the listener is, by where the talker is.                          *)
InStep(l) ==
    /\ state \in {"setControls", "HANDSHAKE_START", "WAIT_FOR_RECEIVER_READY"} => Between(l, at)
    /\ state \in {"PLACE_DATA", "ASSERT_DAV"} /\ Active(l) =>
          gpibState[l] = "WAIT_FOR_DATA" /\ got(l) = at - 1
    /\ state \in {"DATA_READY", "RECEIVER_ACCEPTING"} /\ Active(l) =>
          gpibState[l] \notin {"HANDSHAKE_START", "done"} /\ got(l) = at - 1
    /\ state = "HANDSHAKE_COMPLETE" => Between(l, at + 1)
    /\ state \in {"idle", "done"} => Seized \/ Between(l, Command)

(* The talker's own lines.                                                 *)
Lines ==
    /\ dav <=> state \in {"DATA_READY", "RECEIVER_ACCEPTING"}
    /\ state \in {"ASSERT_DAV", "DATA_READY", "RECEIVER_ACCEPTING"} => db = at
    /\ eoi <=> dav /\ at = Total
    /\ state \in {"idle", "done"} => at = Command
    /\ state \notin {"idle", "done"} /\ setting.controller # Talker => at <= Total
    /\ state \notin {"idle", "done"} /\ at = Command => atn

Follows(l) == Reasonable(l) /\ Holds(l) /\ Reads(l) /\ Marks(l) /\ InStep(l)

(* Nothing is said of a message whose talker has run out of time.          *)
DeliveryInv == Talker \notin late => Lines /\ \A l \in Addressed : Follows(l)
-----------------------------------------------------------------------------
(* Types.                                                                  *)

LEMMA SettingLemma ==
    ASSUME setting \in Settings
    PROVE  /\ Total \in Nat /\ setting.data \in 1..Total
           /\ Command \in Nat /\ Command = Total + 1
           /\ Addressed \subseteq Listeners
           /\ setting.controller \in Addressed \cup {Talker}
           /\ setting.slow \subseteq Stations
  <1>1. /\ setting \in Setting
        /\ setting.controller \in setting.listeners \cup {Talker}
    BY SettingsAssumption
  <1> QED BY <1>1 DEF Setting, Total, Command, Addressed

LEMMA TypeInit == Init => TypeOK
  <1> SUFFICES ASSUME Init PROVE TypeOK
    OBVIOUS
  <1>1. setting \in Settings
    BY DEF Init
  <1>2. Command \in Nat /\ 1 <= Command
    BY <1>1, SettingLemma
  <1>3. << >> \in Seq(0..Command)
    OBVIOUS
  <1>4. received \in [Listeners -> Seq(0..Command)]
    BY <1>3 DEF Init
  <1>5. state \in SenderStates /\ at \in 1..Command /\ db \in 0..Command
    BY <1>2 DEF Init, SenderStates
  <1>6. gpibState \in [Listeners -> ReceiverStates] /\ rstate \in [Listeners -> Reasons]
    BY DEF Init, ReceiverStates, Reasons
  <1>7. byte \in [Listeners -> 0..Command] /\ x \in [Listeners -> Nat]
    BY <1>2 DEF Init
  <1>8. /\ nrfd \in [Listeners -> BOOLEAN] /\ ndac \in [Listeners -> BOOLEAN]
        /\ eoiDetected \in [Listeners -> BOOLEAN]
    BY DEF Init
  <1>9. /\ atn \in BOOLEAN /\ dav \in BOOLEAN /\ eoi \in BOOLEAN
        /\ accepted \subseteq 1..Command /\ late \subseteq Stations
    BY DEF Init
  <1> HIDE DEF Command
  <1> QED BY <1>1, <1>4, <1>5, <1>6, <1>7, <1>8, <1>9 DEF TypeOK

LEMMA GoOnTypes ==
    ASSUME TypeOK, NEW n \in 1..Command, GoOn(n)
    PROVE  at' \in 1..Command /\ state' \in SenderStates
  <1>1. at' = n /\ state' \in {"idle", "setControls", "HANDSHAKE_START"}
    BY DEF GoOn
  <1> QED BY <1>1 DEF SenderStates, Sending

LEMMA TalkerTypes ==
    ASSUME TypeOK, TalkerStep \/ WriteTimeOut \/ TakeControl
    PROVE  TypeOK'
  <1>0. /\ Total \in Nat /\ setting.data \in 1..Total /\ Command = Total + 1
        /\ setting.slow \subseteq Stations /\ at \in 1..Command
    BY SettingLemma DEF TypeOK
  <1>1. setting' = setting /\ Command' = Command /\ UNCHANGED <<handshake, receivers>>
    BY DEF TalkerStep, WriteTimeOut, TakeControl, SendData, WaitForAttention,
           WaitForReceiverReady, PlaceData, AssertDav, WaitForAccepting, WaitForAccepted,
           HandshakeComplete, WriteAbort, SendEnd, Await, Command, Total, lines
  <1>2. at' \in 1..Command /\ state' \in SenderStates
    <2>1. CASE HandshakeComplete
      <3>1. CASE at = Command
        BY <1>0, <2>1, <3>1 DEF HandshakeComplete, SenderStates
      <3>2. CASE at # Command
        <4>1. at + 1 \in 1..Command
          BY <1>0, <3>2
        <4> QED BY <2>1, <3>2, <4>1, GoOnTypes DEF HandshakeComplete
      <3> QED BY <3>1, <3>2
    <2>2. CASE WriteTimeOut
      <3>1. CASE at = Command
        BY <1>0, <2>2, <3>1 DEF WriteTimeOut, SenderStates
      <3>2. CASE at # Command /\ at > setting.data
        <4>1. at + 1 \in 1..Command
          BY <1>0, <3>2
        <4> QED BY <2>2, <3>2, <4>1, GoOnTypes DEF WriteTimeOut
      <3>3. CASE at # Command /\ ~(at > setting.data)
        <4>1. PICK e \in 1..setting.data : GoOn(IF e = setting.data THEN Total + 1 ELSE e + 1)
          BY <2>2, <3>3 DEF WriteTimeOut
        <4>2. (IF e = setting.data THEN Total + 1 ELSE e + 1) \in 1..Command
          BY <1>0, <4>1
        <4> QED BY <4>1, <4>2, GoOnTypes
      <3> QED BY <3>1, <3>2, <3>3
    <2>3. CASE WriteAbort
      BY <1>0, <2>3 DEF WriteAbort, SenderStates
    <2>4. CASE TakeControl
      BY <1>0, <2>4 DEF TakeControl, TypeOK, sender, SenderStates, Sending
    <2>5. CASE SendData \/ WaitForAttention \/ WaitForReceiverReady \/ PlaceData \/ AssertDav
                \/ WaitForAccepting \/ WaitForAccepted \/ SendEnd
      BY <1>0, <2>5 DEF SendData, WaitForAttention, WaitForReceiverReady, PlaceData, AssertDav,
                       WaitForAccepting, WaitForAccepted, SendEnd, Await, SenderStates, Sending
    <2> QED BY <2>1, <2>2, <2>3, <2>4, <2>5 DEF TalkerStep
  <1>3. atn' \in BOOLEAN /\ dav' \in BOOLEAN /\ eoi' \in BOOLEAN
    BY DEF TypeOK, lines, TalkerStep, WriteTimeOut, TakeControl, SendData, WaitForAttention,
           WaitForReceiverReady, PlaceData, AssertDav, WaitForAccepting, WaitForAccepted,
           HandshakeComplete, WriteAbort, SendEnd, Await
  <1>4. db' \in 0..Command
    <2>1. db' \in {db, at, 0}
      BY DEF lines, TalkerStep, WriteTimeOut, TakeControl, SendData, WaitForAttention,
             WaitForReceiverReady, PlaceData, AssertDav, WaitForAccepting, WaitForAccepted,
             HandshakeComplete, WriteAbort, SendEnd, Await
    <2> QED BY <1>0, <2>1 DEF TypeOK
  <1>5. accepted' \subseteq 1..Command /\ late' \subseteq Stations
    <2>1. accepted' \subseteq accepted \cup {at} /\ late' \subseteq late \cup {Talker}
      BY DEF history, TalkerStep, WriteTimeOut, TakeControl, SendData, WaitForAttention,
             WaitForReceiverReady, PlaceData, AssertDav, WaitForAccepting, WaitForAccepted,
             HandshakeComplete, WriteAbort, SendEnd, Await
    <2> QED BY <1>0, <2>1 DEF TypeOK, Stations
  <1> HIDE DEF Command
  <1> QED BY <1>1, <1>2, <1>3, <1>4, <1>5 DEF TypeOK, handshake, receivers

LEMMA ListenerTypes ==
    ASSUME TypeOK, NEW l \in Addressed, ListenerStep(l) \/ ReadTimeOut(l) \/ ReceiveMore(l)
    PROVE  TypeOK'
  <1>0. /\ l \in Listeners /\ l \in Stations /\ db \in 0..Command /\ 0 \in 0..Command
        /\ byte[l] \in 0..Command
    BY SettingLemma DEF TypeOK, Stations
  <1>1. setting' = setting /\ Command' = Command /\ UNCHANGED <<lines, sender, accepted>>
    BY DEF ListenerStep, ReadTimeOut, ReceiveMore, Ready, SeeDav, Busy, ReadEoi, ReadData,
           Accept, Receive, ReadAbort, ReceiveEnd, End, Command, Total, history
  <1>2. nrfd' \in [Listeners -> BOOLEAN] /\ ndac' \in [Listeners -> BOOLEAN]
    BY <1>0 DEF TypeOK, handshake, ListenerStep, ReadTimeOut, ReceiveMore, Ready, SeeDav, Busy,
           ReadEoi, ReadData, Accept, Receive, ReadAbort, ReceiveEnd, End
  <1>3. received' \in [Listeners -> Seq(0..Command)]
    <2>1. \/ received' = received
          \/ received' = [received EXCEPT ![l] = Append(@, byte[l])]
      BY DEF ListenerStep, ReadTimeOut, ReceiveMore, Ready, SeeDav, Busy, ReadEoi, ReadData,
             Accept, Receive, PutOut, ReadAbort, ReceiveEnd, End
    <2>2. received[l] \in Seq(0..Command)
      BY <1>0 DEF TypeOK
    <2>3. Append(received[l], byte[l]) \in Seq(0..Command)
      BY <1>0, <2>2
    <2> QED BY <1>0, <2>1, <2>3 DEF TypeOK
  <1>4. byte' \in [Listeners -> 0..Command]
    <2>1. byte' = byte \/ byte' = [byte EXCEPT ![l] = db]
      BY DEF ListenerStep, ReadTimeOut, ReceiveMore, Ready, SeeDav, Busy, ReadEoi, ReadData,
             Accept, Receive, ReadAbort, ReceiveEnd, End
    <2> QED BY <1>0, <2>1 DEF TypeOK
  <1>5. /\ eoiDetected' \in [Listeners -> BOOLEAN] /\ x' \in [Listeners -> Nat]
    <2>1. \/ eoiDetected' = eoiDetected
          \/ \E e \in BOOLEAN : eoiDetected' = [eoiDetected EXCEPT ![l] = e]
      BY DEF TypeOK, ListenerStep, ReadTimeOut, ReceiveMore, Ready, SeeDav, Busy, ReadEoi,
             ReadData, Accept, Receive, ReadAbort, ReceiveEnd, End
    <2>2. x' = x \/ x' = [x EXCEPT ![l] = x[l] + 1] \/ x' = [x EXCEPT ![l] = 0]
      BY DEF ListenerStep, ReadTimeOut, ReceiveMore, Ready, SeeDav, Busy, ReadEoi, ReadData,
             Accept, Receive, PutOut, ReadAbort, ReceiveEnd, End
    <2>3. x[l] + 1 \in Nat
      BY <1>0 DEF TypeOK
    <2>4. eoiDetected' \in [Listeners -> BOOLEAN]
      BY <1>0, <2>1 DEF TypeOK
    <2>5. x' \in [Listeners -> Nat]
      <3>1. x \in [Listeners -> Nat] /\ 0 \in Nat
        BY DEF TypeOK
      <3>2. \E n \in Nat : x' = x \/ x' = [x EXCEPT ![l] = n]
        BY <2>2, <2>3, <3>1
      <3> QED BY <1>0, <3>1, <3>2
    <2> QED BY <2>4, <2>5
  <1>6. gpibState' \in [Listeners -> ReceiverStates] /\ rstate' \in [Listeners -> Reasons]
    <2>1. \E g \in ReceiverStates : gpibState' = [gpibState EXCEPT ![l] = g]
      BY DEF ListenerStep, ReadTimeOut, ReceiveMore, Ready, SeeDav, Busy, ReadEoi, ReadData,
             Accept, Receive, PutOut, ReadAbort, ReceiveEnd, End, Step,
             ReceiverStates, Waiting, Reading
    <2>2. rstate' = rstate \/ \E r \in Reasons : rstate' = [rstate EXCEPT ![l] = r]
      BY DEF ListenerStep, ReadTimeOut, ReceiveMore, Ready, SeeDav, Busy, ReadEoi, ReadData,
             Accept, Receive, PutOut, ReadAbort, ReceiveEnd, End, Reasons
    <2> QED BY <2>1, <2>2 DEF TypeOK
  <1>7. late' \subseteq Stations
    <2>1. late' \subseteq late \cup {l}
      BY DEF history, ListenerStep, ReadTimeOut, ReceiveMore, Ready, SeeDav, Busy, ReadEoi,
             ReadData, Accept, Receive, ReadAbort, ReceiveEnd, End
    <2> QED BY <1>0, <2>1 DEF TypeOK
  <1> HIDE DEF Command
  <1> QED BY <1>1, <1>2, <1>3, <1>4, <1>5, <1>6, <1>7 DEF TypeOK, lines, sender

LEMMA TypeStep == TypeOK /\ [Next]_vars => TypeOK'
  <1> SUFFICES ASSUME TypeOK, [Next]_vars PROVE TypeOK'
    OBVIOUS
  <1>1. CASE UNCHANGED vars
    BY <1>1 DEF vars, lines, handshake, sender, receivers, history, TypeOK, Command, Total
  <1> QED BY <1>1, TalkerTypes, ListenerTypes DEF Next

(* Every variable keeps its type, and the talker never runs on beyond the  *)
(* command byte, whoever times out.                                        *)
THEOREM TypeCorrect == Spec => []TypeOK
  BY TypeInit, TypeStep, PTL DEF Spec
-----------------------------------------------------------------------------
(* The invariant behind the order of the bytes.                            *)

LEMMA NumbersLemma ==
    ASSUME TypeOK, NEW l \in Addressed
    PROVE  /\ Total \in Nat \ {0} /\ Command = Total + 1 /\ at \in 1..Command
           /\ got(l) \in Nat /\ l \in Listeners /\ l # Talker
  <1>1. l \in Listeners /\ Total \in Nat \ {0} /\ Command = Total + 1
    BY SettingLemma DEF TypeOK
  <1>2. received[l] \in Seq(0..Command)
    BY <1>1 DEF TypeOK
  <1> QED BY <1>1, <1>2, TalkerAssumption DEF TypeOK, got

LEMMA DeliveryInit == Init => DeliveryInv
  <1> SUFFICES ASSUME Init PROVE DeliveryInv
    OBVIOUS
  <1>1. TypeOK
    BY TypeInit
  <1>2. Lines
    BY <1>1, SettingLemma DEF Init, Lines, TypeOK
  <1>3. ASSUME NEW l \in Addressed PROVE Follows(l)
    <2>1. received[l] = << >> /\ got(l) = 0
      BY <1>1, NumbersLemma DEF Init, got
    <2>2. /\ gpibState[l] = "HANDSHAKE_START" /\ rstate[l] = "RECEIVE_INIT"
          /\ nrfd[l] /\ ndac[l] /\ state = "setControls" /\ at = 1
      BY <1>1, NumbersLemma DEF Init
    <2> QED BY <1>1, <2>1, <2>2, NumbersLemma
            DEF Follows, Reasonable, Holds, Reads, Marks, InStep, Between, Active, Reading
  <1> QED BY <1>2, <1>3 DEF DeliveryInv

(* The talker's steps.                                                     *)
LEMMA TalkerLinesLemma ==
    ASSUME TypeOK, Lines, TalkerStep \/ TakeControl
    PROVE  Lines'
  <1>1. /\ Total \in Nat \ {0} /\ Command = Total + 1 /\ at \in 1..Command
    BY SettingLemma DEF TypeOK
  <1>2. Total' = Total /\ Command' = Command /\ setting' = setting
    BY DEF TalkerStep, TakeControl, SendData, WaitForAttention, WaitForReceiverReady,
           PlaceData, AssertDav, WaitForAccepting, WaitForAccepted, HandshakeComplete,
           WriteAbort, SendEnd, Await, Total, Command
  <1>3. CASE HandshakeComplete
    BY <1>1, <1>2, <1>3 DEF HandshakeComplete, GoOn, Lines
  <1>4. CASE WriteAbort
    BY <1>1, <1>2, <1>4 DEF WriteAbort, Lines, Command
  <1>5. CASE TakeControl
    BY <1>1, <1>2, <1>5 DEF TakeControl, Lines, sender
  <1>6. CASE AssertDav \/ WaitForAccepted
    BY <1>1, <1>2, <1>6 DEF AssertDav, WaitForAccepted, Lines
  <1>7. CASE SendData \/ SendEnd \/ PlaceData
    BY <1>1, <1>2, <1>7 DEF SendData, SendEnd, PlaceData, Lines
  <1>8. CASE WaitForAttention \/ WaitForReceiverReady \/ WaitForAccepting
    BY <1>1, <1>2, <1>8
       DEF WaitForAttention, WaitForReceiverReady, WaitForAccepting, Await, Lines, lines
  <1> QED BY <1>3, <1>4, <1>5, <1>6, <1>7, <1>8 DEF TalkerStep

LEMMA TalkerFollowsLemma ==
    ASSUME TypeOK, Lines, TalkerStep \/ TakeControl, NEW l \in Addressed, Follows(l)
    PROVE  Follows(l)'
  <1>1. /\ Total \in Nat \ {0} /\ Command = Total + 1 /\ at \in 1..Command /\ got(l) \in Nat
    BY NumbersLemma
  <1>2. UNCHANGED <<setting, nrfd, ndac, gpibState, byte, eoiDetected, received, x, rstate>>
    BY DEF TalkerStep, TakeControl, SendData, WaitForAttention, WaitForReceiverReady,
           PlaceData, AssertDav, WaitForAccepting, WaitForAccepted, HandshakeComplete,
           WriteAbort, SendEnd, Await, handshake, receivers
  <1>3. /\ Total' = Total /\ Command' = Command /\ got(l)' = got(l) /\ Active(l)' = Active(l)
        /\ Reasonable(l)' /\ Holds(l)'
    BY <1>2 DEF Total, Command, got, Active, Follows, Reasonable, Holds
  <1>4. Reads(l)' /\ Marks(l)' /\ InStep(l)'
    <2>1. CASE HandshakeComplete
      BY <1>1, <1>2, <1>3, <2>1
         DEF HandshakeComplete, GoOn, Follows, Reads, Marks, InStep, Between, Active, Reading
    <2>2. CASE WriteAbort
      BY <1>1, <1>2, <1>3, <2>2
         DEF WriteAbort, InDeviceMode, Follows, Reads, Marks, InStep, Seized
    <2>3. CASE TakeControl
      BY <1>1, <1>2, <1>3, <2>3
         DEF TakeControl, Follows, Reads, Marks, InStep, Seized, Between, sender
    <2>4. CASE AssertDav
      BY <1>1, <1>2, <1>3, <2>4
         DEF AssertDav, Follows, Reasonable, Reads, Marks, InStep, Active
    <2>5. CASE WaitForAccepted
      BY <1>1, <1>2, <1>3, <2>5
         DEF WaitForAccepted, NDAC, Follows, Holds, Reads, Marks, InStep, Between, Active, Reading
    <2>6. CASE SendData
      BY <1>1, <1>2, <1>3, <2>6
         DEF SendData, Follows, Reads, Marks, InStep, Between, Active, Reading
    <2>7. CASE SendEnd
      BY <1>1, <1>2, <1>3, <2>7
         DEF SendEnd, Lines, Follows, Reads, Marks, InStep, Between, Seized
    <2>8. CASE PlaceData
      BY <1>1, <1>2, <1>3, <2>8
         DEF PlaceData, Follows, Reads, Marks, InStep, Active
    <2>9. CASE WaitForAttention \/ WaitForAccepting
      BY <1>1, <1>2, <1>3, <2>9
         DEF WaitForAttention, WaitForAccepting, Await, Follows, Reads, Marks, InStep, Between, lines
    <2>10. CASE WaitForReceiverReady
      BY <1>1, <1>2, <1>3, <2>10
         DEF WaitForReceiverReady, Await, NRFD, Follows, Holds, Reads, Marks, InStep, Between,
             Reading, lines
    <2> QED BY <2>1, <2>2, <2>3, <2>4, <2>5, <2>6, <2>7, <2>8, <2>9, <2>10 DEF TalkerStep
  <1> QED BY <1>3, <1>4 DEF Follows

(* A listener's steps leave the talker and the other listeners alone.      *)
LEMMA OthersLemma ==
    ASSUME TypeOK, NEW l \in Addressed, NEW k \in Addressed, k # l, Follows(k),
           ListenerStep(l) \/ ReadTimeOut(l) \/ ReceiveMore(l)
    PROVE  Follows(k)'
  <1>1. k \in Listeners /\ l \in Listeners
    BY NumbersLemma
  <1>2. UNCHANGED <<setting, lines, sender>>
    BY DEF ListenerStep, ReadTimeOut, ReceiveMore, Ready, SeeDav, Busy, ReadEoi, ReadData,
           Accept, Receive, ReadAbort, ReceiveEnd, End
  <1>3. gpibState'[k] = gpibState[k] /\ rstate'[k] = rstate[k]
    BY <1>1 DEF TypeOK, ListenerStep, ReadTimeOut, ReceiveMore, Ready, SeeDav, Busy, ReadEoi,
           ReadData, Accept, Receive, PutOut, ReadAbort, ReceiveEnd, End, Step
  <1>4. nrfd'[k] = nrfd[k] /\ ndac'[k] = ndac[k]
    BY <1>1 DEF TypeOK, ListenerStep, ReadTimeOut, ReceiveMore, Ready, SeeDav, Busy, ReadEoi,
           ReadData, Accept, Receive, ReadAbort, ReceiveEnd, End, handshake
  <1>5. /\ byte'[k] = byte[k] /\ eoiDetected'[k] = eoiDetected[k]
        /\ received'[k] = received[k]
    BY <1>1 DEF TypeOK, ListenerStep, ReadTimeOut, ReceiveMore, Ready, SeeDav, Busy, ReadEoi,
           ReadData, Accept, Receive, PutOut, ReadAbort, ReceiveEnd, End
  <1>6. /\ Total' = Total /\ Command' = Command /\ got(k)' = got(k)
        /\ Active(k)' = Active(k) /\ Seized' = Seized
    BY <1>2, <1>3, <1>5 DEF Total, Command, got, Active, Seized, lines
  <1>7. \A n : Between(k, n)' = Between(k, n)
    BY <1>3, <1>6 DEF Between
  <1> QED BY <1>2, <1>3, <1>4, <1>5, <1>6, <1>7
          DEF Follows, Reasonable, Holds, Reads, Marks, InStep, Between, lines, sender

LEMMA ReceiveLemma ==
    ASSUME TypeOK, Lines, NEW l \in Addressed, Follows(l), Receive(l)
    PROVE  Follows(l)'
  <1>1. /\ Total \in Nat \ {0} /\ Command = Total + 1 /\ at \in 1..Command
        /\ got(l) \in Nat /\ l \in Listeners /\ l # Talker
    BY NumbersLemma
  <1>2. received[l] \in Seq(0..Command) /\ byte[l] \in 0..Command
    BY <1>1 DEF TypeOK
  <1>3. received'[l] = Append(received[l], byte[l]) /\ ndac'[l]
    BY <1>1 DEF TypeOK, Receive, PutOut
  <1>4. /\ got(l)' = got(l) + 1
        /\ \A i \in 1..got(l) : received'[l][i] = received[l][i]
        /\ received'[l][got(l) + 1] = byte[l]
    BY <1>2, <1>3 DEF got
  <1>5. /\ UNCHANGED <<setting, atn, dav, eoi, db, state, at, nrfd>>
        /\ Total' = Total /\ Command' = Command /\ Seized' = Seized
    BY DEF Receive, Total, Command, Seized, lines, sender
  <1>6. gpibState[l] = "DATA_ACCEPTED" /\ ~dav
    BY DEF Receive
  <1>7. \/ eoiDetected[l] /\ rstate'[l] = "RECEIVE_EOI" /\ gpibState'[l] = "idle"
        \/ /\ ~eoiDetected[l]
           /\ \/ rstate'[l] = "RECEIVE_LIMIT" /\ gpibState'[l] = "done"
              \/ rstate'[l] = "RECEIVE_INIT" /\ gpibState'[l] = "HANDSHAKE_START"
    BY <1>1 DEF TypeOK, Receive, PutOut
  <1>8. nrfd[l] /\ got(l) < Total /\ byte[l] = got(l) + 1
    BY <1>6 DEF Follows, Holds, Reads, Active
  <1>9. Reasonable(l)' /\ Holds(l)'
    BY <1>3, <1>5, <1>7, <1>8 DEF Reasonable, Holds
  <1>10. Reads(l)'
    <2>1. \A i \in 1..(got(l) + 1) : received'[l][i] = i
      BY <1>1, <1>4, <1>8 DEF Follows, Reads
    <2> QED BY <1>1, <1>4, <1>5, <1>7, <1>8, <2>1 DEF Reads, Reading
  <1>11. Marks(l)'
    BY <1>1, <1>4, <1>5, <1>6, <1>7, <1>8 DEF Follows, Marks
  <1>12. InStep(l)'
    BY <1>1, <1>4, <1>5, <1>6, <1>7 DEF Lines, Follows, InStep, Between, Active, Reading
  <1> QED BY <1>9, <1>10, <1>11, <1>12 DEF Follows

LEMMA ListenerFollowsLemma ==
    ASSUME TypeOK, Lines, NEW l \in Addressed, Follows(l),
           ListenerStep(l) \/ ReadTimeOut(l) \/ ReceiveMore(l)
    PROVE  Follows(l)'
  <1>1. CASE Receive(l)
    BY <1>1, ReceiveLemma
  <1>2. CASE ~Receive(l)
    <2>1. /\ Total \in Nat \ {0} /\ Command = Total + 1 /\ at \in 1..Command
          /\ got(l) \in Nat /\ l \in Listeners /\ l # Talker
      BY NumbersLemma
    <2>2. /\ UNCHANGED <<setting, atn, dav, eoi, db, state, at, received>>
          /\ Total' = Total /\ Command' = Command /\ Seized' = Seized /\ got(l)' = got(l)
      BY <1>2 DEF ListenerStep, ReadTimeOut, ReceiveMore, Ready, SeeDav, Busy, ReadEoi,
             ReadData, Accept, ReadAbort, ReceiveEnd, End, lines, sender, Total, Command,
             Seized, got
    <2>3. CASE Ready(l)
      BY <2>1, <2>2, <2>3 DEF Ready, Step, TypeOK, Follows, Reasonable, Holds, Reads, Marks,
         InStep, Between, Active, Reading
    <2>4. CASE SeeDav(l)
      BY <2>1, <2>2, <2>4 DEF SeeDav, Step, TypeOK, Lines, Follows, Reasonable, Holds, Reads,
         Marks, InStep, Between, Active, Reading, handshake
    <2>5. CASE Busy(l)
      BY <2>1, <2>2, <2>5 DEF Busy, Step, TypeOK, Follows, Reasonable, Holds, Reads, Marks,
         InStep, Between, Active, Reading
    <2>6. CASE ReadEoi(l)
      BY <2>1, <2>2, <2>6 DEF ReadEoi, Step, TypeOK, Follows, Reasonable, Holds, Reads, Marks,
         InStep, Between, Active, Reading, handshake
    <2>7. CASE ReadData(l)
      BY <2>1, <2>2, <2>7 DEF ReadData, Step, TypeOK, Follows, Reasonable, Holds, Reads, Marks,
         InStep, Between, Active, Reading, handshake
    <2>8. CASE Accept(l)
      BY <2>1, <2>2, <2>8 DEF Accept, Step, TypeOK, Follows, Reasonable, Holds, Reads, Marks,
         InStep, Between, Active, Reading
    <2>9. CASE ReadAbort(l) \/ ReadTimeOut(l)
      BY <2>1, <2>2, <2>9 DEF ReadAbort, ReadTimeOut, End, TypeOK, Follows, Reasonable, Holds,
         Reads, Marks, InStep, Between, Active, Reading, Waiting, handshake
    <2>10. CASE ReceiveEnd(l)
      BY <2>1, <2>2, <2>10 DEF ReceiveEnd, Step, TypeOK, Follows, Reasonable, Holds, Reads,
         Marks, InStep, Between, Active, Reading
    <2>11. CASE ReceiveMore(l)
      BY <2>1, <2>2, <2>11 DEF ReceiveMore, Step, TypeOK, Follows, Reasonable, Holds, Reads,
         Marks, InStep, Between, Active, Reading
    <2> QED BY <1>2, <2>3, <2>4, <2>5, <2>6, <2>7, <2>8, <2>9, <2>10, <2>11 DEF ListenerStep
  <1> QED BY <1>1, <1>2

LEMMA DeliveryStep == TypeOK /\ DeliveryInv /\ [Next]_vars => DeliveryInv'
  <1> SUFFICES ASSUME TypeOK, DeliveryInv, [Next]_vars, Talker \notin late'
               PROVE  (Lines /\ \A l \in Addressed : Follows(l))'
    BY DEF DeliveryInv
  <1>1. late \subseteq late' /\ Addressed' = Addressed
    BY DEF Next, vars, history, TalkerStep, WriteTimeOut, TakeControl, SendData,
           WaitForAttention, WaitForReceiverReady, PlaceData, AssertDav, WaitForAccepting,
           WaitForAccepted, HandshakeComplete, WriteAbort, SendEnd, Await, ListenerStep,
           ReadTimeOut, ReceiveMore, Ready, SeeDav, Busy, ReadEoi, ReadData, Accept, Receive,
           ReadAbort, ReceiveEnd, End, Addressed
  <1>2. Lines /\ \A l \in Addressed : Follows(l)
    BY <1>1 DEF DeliveryInv
  <1>3. CASE UNCHANGED vars
    BY <1>2, <1>3 DEF vars, lines, handshake, sender, receivers, history, Lines, Follows,
       Reasonable, Holds, Reads, Marks, InStep, Between, Active, Seized, got, Total, Command,
       Addressed
  <1>4. CASE TalkerStep \/ TakeControl
    BY <1>1, <1>2, <1>4, TalkerLinesLemma, TalkerFollowsLemma
  <1>5. CASE WriteTimeOut
    BY <1>5 DEF WriteTimeOut
  <1>6. ASSUME NEW l \in Addressed, ListenerStep(l) \/ ReadTimeOut(l) \/ ReceiveMore(l)
        PROVE  (Lines /\ \A k \in Addressed : Follows(k))'
    <2>1. UNCHANGED <<setting, lines, sender>>
      BY <1>6 DEF ListenerStep, ReadTimeOut, ReceiveMore, Ready, SeeDav, Busy, ReadEoi, ReadData,
           Accept, Receive, ReadAbort, ReceiveEnd, End
    <2>2. Lines'
      BY <1>2, <2>1 DEF Lines, lines, sender, Total, Command
    <2>3. ASSUME NEW k \in Addressed PROVE Follows(k)'
      BY <1>2, <1>6, OthersLemma, ListenerFollowsLemma
    <2> QED BY <1>1, <2>2, <2>3
  <1> QED BY <1>3, <1>4, <1>5, <1>6 DEF Next

LEMMA DeliveryCorrect == Spec => [](TypeOK /\ DeliveryInv)
  <1>1. Init => TypeOK /\ DeliveryInv
    BY TypeInit, DeliveryInit
  <1>2. TypeOK /\ DeliveryInv /\ [Next]_vars => TypeOK' /\ DeliveryInv'
    BY TypeStep, DeliveryStep
  <1> QED BY <1>1, <1>2, PTL DEF Spec

(* For any number of listeners: none puts out a byte twice, skips one or   *)
(* takes the idle bus or a command for data, whatever times out but the    *)
(* talker and whenever the controller takes the bus.                       *)
THEOREM OrderCorrect == Spec => []InOrder
  <1>1. TypeOK /\ DeliveryInv => InOrder
    <2> SUFFICES ASSUME TypeOK, DeliveryInv, Talker \notin late, NEW l \in Addressed,
                        NEW i \in 1..Len(received[l])
                 PROVE  received[l][i] = i /\ i <= Total
      BY DEF InOrder
    <2>1. got(l) \in Nat /\ Total \in Nat /\ Reads(l)
      BY NumbersLemma DEF DeliveryInv, Follows
    <2> QED BY <2>1 DEF Reads, got
  <1> QED BY <1>1, DeliveryCorrect, PTL

(* For any number of listeners: who is told by EOI that the message is     *)
(* over has all of it.                                                     *)
THEOREM EoiCorrect == Spec => []EoiMeansAll
  <1>1. TypeOK /\ DeliveryInv => EoiMeansAll
    BY DEF DeliveryInv, Follows, Marks, EoiMeansAll, got
  <1> QED BY <1>1, DeliveryCorrect, PTL
-----------------------------------------------------------------------------
(* What is lost.                                                           *)

(* At most the first n bytes of the message have been seen accepted; how   *)
(* far the talker has come.                                                *)
SeenUpTo(n) == \A m \in accepted : m <= Total => m <= n
Past == IF state = "HANDSHAKE_COMPLETE" THEN at ELSE at - 1

(* How much of the message a listener has, and how much it may still get   *)
(* while ATN is asserted.                                                  *)
Taken(l) == IF gpibState[l] \in {"READ_DONE", "DATA_ACCEPTED"} THEN got(l) + 1 ELSE got(l)
Reach(l) == IF gpibState[l] \in Waiting \cup Reading THEN got(l) + 1 ELSE got(l)

(* Cut off by ATN.                                                         *)
Gone(l) == rstate[l] = "RECEIVE_ATN"
Counts(l) == Active(l) \/ Gone(l)

Excused(l) ==
    /\ rstate[l] = "RECEIVE_ERR" => l \in late
    /\ Gone(l) => atn

Keeps(l) == got(l) <= Past /\ (Active(l) => SeenUpTo(Taken(l)))

Master == setting.controller

(* Nobody is more than a byte behind a controller that has ended its call. *)
Level(l) ==
    /\ Master = Talker => got(l) + 1 >= Total
    /\ Master # Talker /\ rstate[Master] # "RECEIVE_ERR" => got(l) + 1 >= got(Master)

(* Nobody can come more than two bytes before one that ATN has cut off,    *)
(* and the talker goes no further than the listeners.                      *)
Apart(l) == \A k \in Addressed : Reach(k) <= got(l) + 2
Halts(l) ==
    /\ state \in {"PLACE_DATA", "ASSERT_DAV", "DATA_READY"} /\ at > got(l) + 2 => ~NRFD
    /\ state \in {"RECEIVER_ACCEPTING", "HANDSHAKE_COMPLETE"} => at <= got(l) + 2
    /\ SeenUpTo(got(l) + 2)

Ended ==
    Master # Talker =>
        /\ gpibState[Master] = "done"
        /\ rstate[Master] \in {"RECEIVE_EOI", "RECEIVE_LIMIT", "RECEIVE_ERR"}

Behind(l) ==
    /\ Counts(l) => Level(l)
    /\ Master # Talker /\ rstate[Master] = "RECEIVE_ERR" =>
          (Counts(l) => Apart(l)) /\ (Gone(l) => Halts(l))

Attention == Ended /\ \A l \in Addressed : Behind(l)

LossInv ==
    Talker \notin late =>
        /\ SeenUpTo(Past)
        /\ \A l \in Addressed : Excused(l) /\ Keeps(l)
        /\ atn => Attention

LEMMA LossInit == Init => LossInv
  <1> SUFFICES ASSUME Init PROVE LossInv
    OBVIOUS
  <1>1. TypeOK
    BY TypeInit
  <1>2. SeenUpTo(Past) /\ ~atn
    BY DEF Init, SeenUpTo
  <1>3. ASSUME NEW l \in Addressed PROVE Excused(l) /\ Keeps(l)
    <2>1. received[l] = << >> /\ got(l) = 0 /\ rstate[l] = "RECEIVE_INIT"
      BY <1>1, NumbersLemma DEF Init, got
    <2>2. Past = 0 /\ accepted = {}
      BY DEF Init, Past
    <2> QED BY <2>1, <2>2 DEF Excused, Gone, Keeps, SeenUpTo
  <1> QED BY <1>2, <1>3 DEF LossInv

(* What the talker's steps leave alone.                                    *)
LEMMA TalkerFrame ==
    ASSUME TalkerStep \/ TakeControl
    PROVE  /\ UNCHANGED <<setting, nrfd, ndac, gpibState, byte, eoiDetected, received, x, rstate, late>>
           /\ Total' = Total /\ Command' = Command /\ Addressed' = Addressed /\ NRFD' = NRFD
           /\ Master' = Master
           /\ \A k : /\ got(k)' = got(k) /\ Taken(k)' = Taken(k) /\ Reach(k)' = Reach(k)
                     /\ Active(k)' = Active(k) /\ Gone(k)' = Gone(k) /\ Counts(k)' = Counts(k)
  <1>1. UNCHANGED <<setting, nrfd, ndac, gpibState, byte, eoiDetected, received, x, rstate, late>>
    BY DEF TalkerStep, TakeControl, SendData, WaitForAttention, WaitForReceiverReady,
           PlaceData, AssertDav, WaitForAccepting, WaitForAccepted, HandshakeComplete,
           WriteAbort, SendEnd, Await, handshake, receivers, history
  <1>2. Total' = Total /\ Command' = Command /\ Addressed' = Addressed /\ Master' = Master
    BY <1>1 DEF Total, Command, Addressed, Master
  <1>3. NRFD' = NRFD
    BY <1>1, <1>2 DEF NRFD
  <1>4. \A k : got(k)' = got(k) /\ Active(k)' = Active(k) /\ Gone(k)' = Gone(k)
    BY <1>1 DEF got, Active, Gone
  <1>5. \A k : Taken(k)' = Taken(k) /\ Reach(k)' = Reach(k) /\ Counts(k)' = Counts(k)
    BY <1>1, <1>4 DEF Taken, Reach, Counts
  <1> QED BY <1>1, <1>2, <1>3, <1>4, <1>5

LEMMA TalkerPastLemma ==
    ASSUME TypeOK, Lines, TalkerStep \/ TakeControl
    PROVE  \/ accepted' = accepted /\ (Past' = Past \/ Past' = Total)
           \/ WaitForAccepted /\ accepted' = accepted \cup {at} /\ Past' = at /\ Past = at - 1
  <1>1. Command = Total + 1 /\ Total \in Nat /\ at \in 1..Command
    BY SettingLemma DEF TypeOK
  <1>3. CASE HandshakeComplete
    BY <1>1, <1>3 DEF HandshakeComplete, GoOn, Past, history
  <1>4. CASE WriteAbort
    BY <1>1, <1>4 DEF WriteAbort, Past, history
  <1>5. CASE TakeControl
    BY <1>1, <1>5 DEF TakeControl, Past, Lines, sender, history
  <1>6. CASE WaitForAccepted
    BY <1>1, <1>6 DEF WaitForAccepted, Past
  <1>7. CASE SendData \/ SendEnd \/ PlaceData \/ AssertDav
    BY <1>7 DEF SendData, SendEnd, PlaceData, AssertDav, Past, history
  <1>8. CASE WaitForAttention \/ WaitForReceiverReady \/ WaitForAccepting
    BY <1>8 DEF WaitForAttention, WaitForReceiverReady, WaitForAccepting, Await, Past, history
  <1> QED BY <1>3, <1>4, <1>5, <1>6, <1>7, <1>8 DEF TalkerStep

LEMMA TalkerSeenLemma ==
    ASSUME TypeOK, Lines, SeenUpTo(Past), TalkerStep \/ TakeControl
    PROVE  SeenUpTo(Past)'
  <1>1. /\ Total \in Nat \ {0} /\ at \in 1..Command /\ accepted \subseteq 1..Command
        /\ Command = Total + 1 /\ Total' = Total
    BY SettingLemma, TalkerFrame DEF TypeOK
  <1>2. CASE accepted' = accepted /\ (Past' = Past \/ Past' = Total)
    BY <1>1, <1>2 DEF SeenUpTo
  <1>3. CASE accepted' = accepted \cup {at} /\ Past' = at /\ Past = at - 1
    BY <1>1, <1>3 DEF SeenUpTo
  <1> QED BY <1>2, <1>3, TalkerPastLemma

LEMMA TalkerKeepsLemma ==
    ASSUME TypeOK, Lines, SeenUpTo(Past), TalkerStep \/ TakeControl,
           NEW l \in Addressed, Follows(l), Excused(l), Keeps(l)
    PROVE  Excused(l)' /\ Keeps(l)'
  <1>1. /\ Total \in Nat \ {0} /\ Command = Total + 1 /\ at \in 1..Command /\ got(l) \in Nat
        /\ accepted \subseteq 1..Command
    BY NumbersLemma DEF TypeOK
  <1>2. Excused(l)'
    <2>1. atn => atn'
      BY DEF TalkerStep, TakeControl, SendData, WaitForAttention, WaitForReceiverReady,
             PlaceData, AssertDav, WaitForAccepting, WaitForAccepted, HandshakeComplete,
             WriteAbort, SendEnd, Await, lines
    <2> QED BY <2>1, TalkerFrame DEF Excused
  <1>3. got(l)' <= Past'
    <2>1. got(l)' = got(l) /\ got(l) <= Total /\ got(l) <= Past
      BY TalkerFrame DEF Keeps, Follows, Reads
    <2> QED BY <1>1, <2>1, TalkerPastLemma
  <1>4. Active(l) => SeenUpTo(Taken(l))'
    <2> SUFFICES ASSUME Active(l) PROVE SeenUpTo(Taken(l))'
      OBVIOUS
    <2>1. Taken(l)' = Taken(l) /\ Total' = Total
      BY TalkerFrame
    <2>2. SeenUpTo(Taken(l))
      BY DEF Keeps
    <2>3. CASE accepted' = accepted
      BY <2>1, <2>2, <2>3 DEF SeenUpTo
    <2>4. CASE WaitForAccepted
      <3>1. gpibState[l] = "DATA_ACCEPTED" /\ got(l) = at - 1
        BY <2>4 DEF WaitForAccepted, NDAC, Follows, Holds, InStep
      <3>2. Taken(l) = at
        BY <1>1, <3>1 DEF Taken
      <3>3. accepted' = accepted \cup {at}
        BY <2>4 DEF WaitForAccepted
      <3> QED BY <1>1, <2>1, <2>2, <3>2, <3>3 DEF SeenUpTo
    <2> QED BY <2>3, <2>4
            DEF TalkerStep, TakeControl, SendData, WaitForAttention, WaitForReceiverReady,
                PlaceData, AssertDav, WaitForAccepting, HandshakeComplete, WriteAbort, SendEnd,
                Await, history
  <1> QED BY <1>2, <1>3, <1>4, TalkerFrame DEF Keeps

(* While ATN is asserted.                                                  *)
LEMMA TalkerAttentionLemma ==
    ASSUME TypeOK, Lines, TalkerStep, Attention
    PROVE  Attention'
  <1>1. Ended'
    BY TalkerFrame DEF Attention, Ended
  <1>2. ASSUME NEW l \in Addressed PROVE Behind(l)'
    <2>1. /\ got(l) \in Nat /\ at \in 1..Command /\ Command \in Nat /\ accepted \subseteq 1..Command
          /\ got(l)' = got(l)
      BY NumbersLemma, TalkerFrame DEF TypeOK
    <2>2. (Counts(l) => Level(l))'
      BY TalkerFrame DEF Attention, Behind, Level
    <2>3. Apart(l)' = Apart(l)
      BY TalkerFrame DEF Apart
    <2>4. ASSUME Halts(l) PROVE Halts(l)'
      <3>1. /\ NRFD' = NRFD /\ Total' = Total
        BY TalkerFrame
      <3>2. SeenUpTo(got(l) + 2)'
        <4>1. CASE accepted' = accepted
          BY <2>1, <2>4, <3>1, <4>1 DEF Halts, SeenUpTo
        <4>2. CASE WaitForAccepted
          <5>1. at <= got(l) + 2 /\ accepted' = accepted \cup {at} /\ SeenUpTo(got(l) + 2)
            BY <2>4, <4>2 DEF WaitForAccepted, Halts
          <5> QED BY <2>1, <3>1, <5>1 DEF SeenUpTo
        <4> QED BY <4>1, <4>2, TalkerPastLemma
      <3>3. CASE WaitForReceiverReady
        BY <2>1, <3>1, <3>2, <3>3 DEF WaitForReceiverReady, Await, Halts
      <3>4. CASE WaitForAccepting
        BY <2>1, <2>4, <3>1, <3>2, <3>4 DEF WaitForAccepting, Await, Halts
      <3>5. CASE WaitForAccepted
        BY <2>1, <2>4, <3>1, <3>2, <3>5 DEF WaitForAccepted, Halts
      <3>6. CASE PlaceData \/ AssertDav
        BY <2>1, <2>4, <3>1, <3>2, <3>6 DEF PlaceData, AssertDav, Halts
      <3>7. CASE SendData \/ WaitForAttention \/ HandshakeComplete \/ WriteAbort \/ SendEnd
        BY <3>2, <3>7 DEF SendData, WaitForAttention, Await, HandshakeComplete, GoOn, WriteAbort,
           SendEnd, Halts
      <3> QED BY <3>3, <3>4, <3>5, <3>6, <3>7 DEF TalkerStep
    <2> QED BY <2>2, <2>3, <2>4, TalkerFrame DEF Attention, Behind
  <1> QED BY <1>1, <1>2, TalkerFrame DEF Attention

(* When the controller asserts ATN, every listener that is still there has *)
(* all but the last byte of what the talker has got through.               *)
LEMMA CloseLemma ==
    ASSUME TypeOK, Lines, ~Seized, NEW l \in Addressed, Follows(l), Active(l)
    PROVE  Past <= got(l) + 1
  <1>1. /\ Total \in Nat \ {0} /\ Command = Total + 1 /\ at \in 1..Command /\ got(l) \in Nat
        /\ state \in SenderStates
    BY NumbersLemma DEF TypeOK
  <1>2. CASE state \in {"setControls", "HANDSHAKE_START", "WAIT_FOR_RECEIVER_READY"}
    BY <1>1, <1>2 DEF Follows, InStep, Between, Past
  <1>3. CASE state \in {"PLACE_DATA", "ASSERT_DAV", "DATA_READY", "RECEIVER_ACCEPTING"}
    BY <1>1, <1>3 DEF Follows, InStep, Past
  <1>4. CASE state = "HANDSHAKE_COMPLETE"
    BY <1>1, <1>4 DEF Follows, InStep, Between, Past
  <1>5. CASE state \in {"idle", "done"}
    BY <1>1, <1>5 DEF Follows, InStep, Between, Past, Lines
  <1> QED BY <1>1, <1>2, <1>3, <1>4, <1>5 DEF SenderStates, Sending

LEMMA TakeControlLemma ==
    ASSUME TypeOK, Lines, TakeControl,
           \A l \in Addressed : Follows(l) /\ Excused(l) /\ Keeps(l)
    PROVE  Attention'
  <1>1. /\ ~atn /\ ~Seized
        /\ Master \in Addressed \cup {Talker} /\ Addressed \subseteq Listeners
    BY SettingLemma DEF TakeControl, Seized, Master, TypeOK
  <1>2. Past \in Int
    BY SettingLemma DEF TypeOK, Past
  <1>3. Ended'
    <2> SUFFICES ASSUME Master # Talker
                 PROVE  /\ gpibState[Master] = "done"
                        /\ rstate[Master] \in {"RECEIVE_EOI", "RECEIVE_LIMIT", "RECEIVE_ERR"}
      BY TalkerFrame DEF Ended
    <2>1. Master \in Addressed /\ gpibState[Master] = "done"
      BY <1>1 DEF TakeControl, Master
    <2>2. rstate[Master] \in Reasons
      BY <1>1, <2>1 DEF TypeOK
    <2> QED BY <1>1, <2>1, <2>2 DEF Follows, Reasonable, Excused, Gone, Reasons
  <1>4. ASSUME NEW l \in Addressed PROVE Behind(l)'
    <2>1. ~Gone(l)
      BY <1>1 DEF Excused
    <2>2. ASSUME Active(l) PROVE Level(l)' /\ Apart(l)'
      <3>1. Past <= got(l) + 1 /\ got(l) \in Nat
        BY <1>1, <2>2, CloseLemma, NumbersLemma
      <3>2. ASSUME Master = Talker PROVE got(l) + 1 >= Total
        <4>1. Past = Total
          BY <3>2, SettingLemma DEF TakeControl, Master, Lines, Past, TypeOK
        <4> QED BY <3>1, <4>1
      <3>3. ASSUME Master # Talker PROVE got(l) + 1 >= got(Master)
        <4>1. Master \in Addressed /\ got(Master) <= Past /\ got(Master) \in Nat
          BY <1>1, <3>3, NumbersLemma DEF Keeps
        <4> QED BY <1>2, <3>1, <4>1
      <3>4. ASSUME NEW k \in Addressed PROVE Reach(k) <= got(l) + 2
        <4>1. got(k) <= Past /\ got(k) \in Nat
          BY NumbersLemma DEF Keeps
        <4>2. Reach(k) <= got(k) + 1
          BY <4>1 DEF Reach
        <4>3. Reach(k) \in Nat
          BY <4>1 DEF Reach
        <4> QED BY <1>2, <3>1, <4>1, <4>2, <4>3
      <3>5. Apart(l)'
        BY <3>4, TalkerFrame DEF Apart
      <3>6. Level(l)'
        BY <3>2, <3>3, TalkerFrame DEF Level
      <3> QED BY <3>5, <3>6
    <2> QED BY <2>1, <2>2, TalkerFrame DEF Behind, Counts
  <1> QED BY <1>3, <1>4, TalkerFrame DEF Attention

(* What a listener's step does to its own progress, and to nobody else's.  *)
LEMMA ListenerFrame ==
    ASSUME TypeOK, NEW l \in Addressed, ListenerStep(l) \/ ReadTimeOut(l) \/ ReceiveMore(l)
    PROVE  /\ UNCHANGED <<setting, atn, state, at, accepted>> /\ late \subseteq late'
           /\ Total' = Total /\ Addressed' = Addressed /\ Master' = Master /\ Past' = Past
           /\ \A k \in Addressed \ {l} :
                /\ UNCHANGED <<nrfd[k], gpibState[k], rstate[k]>>
                /\ got(k)' = got(k) /\ Taken(k)' = Taken(k) /\ Reach(k)' = Reach(k)
                /\ Active(k)' = Active(k) /\ Gone(k)' = Gone(k) /\ Counts(k)' = Counts(k)
  <1>1. UNCHANGED <<setting, atn, state, at, accepted>> /\ late \subseteq late'
    BY DEF ListenerStep, ReadTimeOut, ReceiveMore, Ready, SeeDav, Busy, ReadEoi, ReadData,
           Accept, Receive, ReadAbort, ReceiveEnd, End, lines, sender, history
  <1>2. Total' = Total /\ Addressed' = Addressed /\ Master' = Master /\ Past' = Past
    BY <1>1 DEF Total, Addressed, Master, Past
  <1>3. ASSUME NEW k \in Addressed \ {l}
        PROVE  UNCHANGED <<nrfd[k], gpibState[k], rstate[k], received[k]>>
    <2>1. k \in Listeners /\ l \in Listeners /\ k # l
      BY <1>3, NumbersLemma
    <2>2. gpibState'[k] = gpibState[k] /\ rstate'[k] = rstate[k]
      BY <2>1 DEF TypeOK, ListenerStep, ReadTimeOut, ReceiveMore, Ready, SeeDav, Busy, ReadEoi,
           ReadData, Accept, Receive, PutOut, ReadAbort, ReceiveEnd, End, Step
    <2>3. nrfd'[k] = nrfd[k] /\ received'[k] = received[k]
      BY <2>1 DEF TypeOK, ListenerStep, ReadTimeOut, ReceiveMore, Ready, SeeDav, Busy, ReadEoi,
           ReadData, Accept, Receive, PutOut, ReadAbort, ReceiveEnd, End, handshake
    <2> QED BY <2>2, <2>3
  <1>4. ASSUME NEW k \in Addressed \ {l}
        PROVE  got(k)' = got(k) /\ Active(k)' = Active(k) /\ Gone(k)' = Gone(k)
    BY <1>3, <1>4 DEF got, Active, Gone
  <1>5. ASSUME NEW k \in Addressed \ {l}
        PROVE  Taken(k)' = Taken(k) /\ Reach(k)' = Reach(k) /\ Counts(k)' = Counts(k)
    BY <1>3, <1>4, <1>5 DEF Taken, Reach, Counts
  <1> QED BY <1>1, <1>2, <1>3, <1>4, <1>5

LEMMA ProgressLemma ==
    ASSUME TypeOK, Lines, NEW l \in Addressed, Follows(l), Keeps(l),
           ListenerStep(l) \/ ReadTimeOut(l) \/ ReceiveMore(l)
    PROVE  /\ got(l)' \in Nat /\ got(l) <= got(l)' /\ got(l)' <= Past
           /\ Active(l)' => Active(l) /\ Taken(l) <= Taken(l)'
           /\ Counts(l)' => Counts(l)
           /\ Gone(l)' => Gone(l) \/ (atn /\ Active(l))
           /\ rstate'[l] = "RECEIVE_ERR" => rstate[l] = "RECEIVE_ERR" \/ l \in late'
           /\ atn => /\ Reach(l)' <= Reach(l) /\ gpibState[l] # "done"
                     /\ nrfd'[l] => nrfd[l] \/ gpibState[l] = "SAMPLED"
  <1>1. /\ Total \in Nat \ {0} /\ Command = Total + 1 /\ at \in 1..Command
        /\ got(l) \in Nat /\ l \in Listeners /\ got(l) <= Past /\ state \in SenderStates
    BY NumbersLemma DEF Keeps, TypeOK
  <1>2. CASE Receive(l)
    <2>1. received[l] \in Seq(0..Command) /\ byte[l] \in 0..Command
      BY <1>1 DEF TypeOK
    <2>2. received'[l] = Append(received[l], byte[l]) /\ nrfd' = nrfd
      BY <1>1, <1>2 DEF TypeOK, Receive, PutOut
    <2>3. got(l)' = got(l) + 1
      BY <2>1, <2>2 DEF got
    <2>4. gpibState[l] = "DATA_ACCEPTED" /\ ~dav
      BY <1>2 DEF Receive
    <2>5. \/ rstate'[l] = "RECEIVE_EOI" /\ gpibState'[l] = "idle"
          \/ rstate'[l] = "RECEIVE_LIMIT" /\ gpibState'[l] = "done"
          \/ rstate'[l] = "RECEIVE_INIT" /\ gpibState'[l] = "HANDSHAKE_START"
      BY <1>1, <1>2 DEF TypeOK, Receive, PutOut
    <2>6. got(l) + 1 <= Past
      BY <1>1, <2>4 DEF Lines, Follows, Reads, InStep, Between, Active, Past, SenderStates, Sending
    <2>7. Active(l) /\ Taken(l) = got(l) + 1 /\ Reach(l) = got(l) + 1
      BY <2>4 DEF Active, Taken, Reach, Waiting
    <2>8. Taken(l)' = got(l) + 1 /\ Reach(l)' = got(l) + 1 /\ ~Gone(l)'
      BY <2>3, <2>5 DEF Taken, Reach, Waiting, Reading, Gone
    <2> QED BY <1>1, <2>2, <2>3, <2>4, <2>5, <2>6, <2>7, <2>8 DEF Counts
  <1>3. CASE ~Receive(l)
    <2>1. got(l)' = got(l)
      BY <1>3 DEF ListenerStep, ReadTimeOut, ReceiveMore, Ready, SeeDav, Busy, ReadEoi,
             ReadData, Accept, ReadAbort, ReceiveEnd, End, got
    <2>2. CASE Ready(l) \/ SeeDav(l) \/ Busy(l) \/ ReadEoi(l) \/ ReadData(l) \/ Accept(l)
      BY <1>1, <2>1, <2>2 DEF TypeOK, Ready, SeeDav, Busy, ReadEoi, ReadData, Accept, Step,
         handshake, Active, Taken, Counts, Gone, Reach, Waiting, Reading, Follows, Reasonable
    <2>3. CASE ReadAbort(l) \/ ReadTimeOut(l)
      BY <1>1, <2>1, <2>3 DEF TypeOK, ReadAbort, ReadTimeOut, End,
         handshake, Active, Taken, Counts, Gone, Reach, Waiting, Reading
    <2>4. CASE ReceiveEnd(l)
      <3>1. /\ gpibState[l] = "idle" /\ gpibState'[l] = "done"
            /\ rstate'[l] = rstate[l] /\ ~nrfd'[l]
        BY <1>1, <2>4 DEF TypeOK, ReceiveEnd, Step
      <3>2. rstate[l] # "RECEIVE_LIMIT"
        BY <3>1 DEF Follows, Reasonable
      <3>3. ~Active(l)' /\ (Gone(l)' => Gone(l)) /\ Reach(l)' = got(l) /\ Reach(l) = got(l)
        BY <2>1, <3>1, <3>2 DEF Active, Gone, Reach, Waiting, Reading
      <3>4. Counts(l)' => Counts(l)
        BY <3>3 DEF Counts
      <3> QED BY <1>1, <2>1, <3>1, <3>3, <3>4
    <2>5. CASE ReceiveMore(l)
      BY <1>1, <2>1, <2>5 DEF TypeOK, ReceiveMore, Step,
         Active, Taken, Counts, Gone, Reach, Waiting, Reading
    <2> QED BY <1>3, <2>2, <2>3, <2>4, <2>5 DEF ListenerStep
  <1> QED BY <1>2, <1>3

LEMMA ListenerKeepsLemma ==
    ASSUME TypeOK, Lines, NEW l \in Addressed, ListenerStep(l) \/ ReadTimeOut(l) \/ ReceiveMore(l),
           NEW k \in Addressed, Follows(l), Keeps(l), Excused(k), Keeps(k)
    PROVE  Excused(k)' /\ Keeps(k)'
  <1>1. /\ Past' = Past /\ atn' = atn /\ late \subseteq late'
        /\ \A n : SeenUpTo(n)' = SeenUpTo(n)
    BY ListenerFrame DEF SeenUpTo
  <1>2. CASE k # l
    BY <1>1, <1>2, ListenerFrame DEF Excused, Keeps, SeenUpTo
  <1>3. CASE k = l
    <2>1. Excused(l)'
      BY <1>1, <1>3, ProgressLemma DEF Excused
    <2>2. Active(l)' => SeenUpTo(Taken(l))'
      <3> SUFFICES ASSUME Active(l)' PROVE SeenUpTo(Taken(l))'
        OBVIOUS
      <3>1. got(l) \in Nat /\ got(l)' \in Nat /\ Taken(l) \in Nat /\ Taken(l)' \in Nat
        <4>1. got(l) \in Nat /\ got(l)' \in Nat
          BY NumbersLemma, ProgressLemma
        <4> QED BY <4>1 DEF Taken
      <3>2. SeenUpTo(Taken(l)) /\ Taken(l) <= Taken(l)'
        BY ProgressLemma DEF Keeps
      <3>3. accepted \subseteq 1..Command /\ Command \in Nat /\ accepted' = accepted /\ Total' = Total
        BY SettingLemma, ListenerFrame DEF TypeOK
      <3> QED BY <3>1, <3>2, <3>3 DEF SeenUpTo
    <2> QED BY <1>1, <1>3, <2>1, <2>2, ProgressLemma DEF Keeps
  <1> QED BY <1>2, <1>3

LEMMA ListenerAttentionLemma ==
    ASSUME TypeOK, Lines, NEW l \in Addressed, ListenerStep(l) \/ ReadTimeOut(l) \/ ReceiveMore(l),
           Follows(l), Keeps(l), atn, Attention
    PROVE  Attention'
  <1>1. /\ Total \in Nat \ {0} /\ Command = Total + 1 /\ at \in 1..Command /\ state \in SenderStates
        /\ got(l) \in Nat /\ got(l)' \in Nat /\ got(l) <= got(l)' /\ accepted \subseteq 1..Command
    BY NumbersLemma, ProgressLemma DEF TypeOK
  <1>2. Master \in Addressed \cup {Talker} /\ Master # l
    BY NumbersLemma, SettingLemma, ProgressLemma DEF Attention, Ended, Master, TypeOK
  <1>3. Master # Talker => /\ gpibState'[Master] = gpibState[Master]
                           /\ rstate'[Master] = rstate[Master]
                           /\ got(Master)' = got(Master) /\ got(Master) \in Nat
    BY <1>2, ListenerFrame, NumbersLemma
  <1>4. Ended'
    BY <1>3, ListenerFrame DEF Attention, Ended
  <1>5. ASSUME NEW k \in Addressed
        PROVE  /\ got(k) \in Nat /\ got(k)' \in Nat /\ got(k) <= got(k)'
               /\ Reach(k) \in Nat /\ Reach(k)' \in Nat /\ Reach(k)' <= Reach(k)
    <2>1. got(k) \in Nat /\ got(k)' \in Nat /\ got(k) <= got(k)'
      <3>1. CASE k = l
        BY <1>1, <3>1
      <3>2. CASE k # l
        <4>1. got(k)' = got(k) /\ got(k) \in Nat
          BY <3>2, ListenerFrame, NumbersLemma
        <4> QED BY <4>1
      <3> QED BY <3>1, <3>2
    <2>2. Reach(k) \in Nat /\ Reach(k)' \in Nat
      BY <2>1 DEF Reach
    <2>3. Reach(k)' <= Reach(k)
      <3>1. CASE k = l
        BY <3>1, ProgressLemma
      <3>2. CASE k # l
        <4>1. Reach(k)' = Reach(k)
          BY <3>2, ListenerFrame
        <4> QED BY <2>2, <4>1
      <3> QED BY <3>1, <3>2
    <2> QED BY <2>1, <2>2, <2>3
  <1>6. ASSUME NEW k \in Addressed PROVE Behind(k)'
    <2>1. (Counts(k)' => Counts(k)) /\ Behind(k)
      <3>1. CASE k = l
        BY <3>1, ProgressLemma DEF Attention
      <3>2. CASE k # l
        BY <3>2, ListenerFrame DEF Attention
      <3> QED BY <3>1, <3>2
    <2>2. ASSUME Counts(k)' PROVE Level(k)'
      <3>1. Level(k) /\ Master' = Master /\ Total' = Total
        BY <2>1, <2>2, ListenerFrame DEF Behind
      <3>2. got(k) \in Nat /\ got(k)' \in Nat /\ got(k) <= got(k)'
        BY <1>5
      <3> QED BY <1>1, <1>3, <3>1, <3>2 DEF Level
    <2>3. ASSUME Apart(k) PROVE Apart(k)'
      <3> SUFFICES ASSUME NEW j \in Addressed PROVE Reach(j)' <= got(k)' + 2
        BY ListenerFrame DEF Apart
      <3>1. Reach(j) <= got(k) + 2
        BY <2>3 DEF Apart
      <3>2. got(k) \in Nat /\ got(k)' \in Nat /\ got(k) <= got(k)'
        BY <1>5
      <3>3. Reach(j) \in Nat /\ Reach(j)' \in Nat /\ Reach(j)' <= Reach(j)
        BY <1>5
      <3> QED BY <3>1, <3>2, <3>3
    <2>4. ASSUME Gone(k)', Apart(k), Gone(k) => Halts(k) PROVE Halts(k)'
      <3>1. CASE Gone(k)
        <4>1. /\ accepted' = accepted /\ Total' = Total /\ state' = state /\ at' = at
              /\ got(k) \in Nat /\ got(k)' \in Nat /\ got(k) <= got(k)' /\ Halts(k)
          BY <1>5, <2>4, <3>1, ListenerFrame
        <4>2. SeenUpTo(got(k) + 2)'
          BY <1>1, <4>1 DEF Halts, SeenUpTo
        <4>3. ASSUME state \in {"PLACE_DATA", "ASSERT_DAV", "DATA_READY"}, at > got(k) + 2
              PROVE  ~NRFD'
          <5> SUFFICES ASSUME NEW j \in Addressed, nrfd'[j] PROVE FALSE
            BY ListenerFrame DEF NRFD
          <5>1. \A i \in Addressed : ~nrfd[i]
            BY <4>1, <4>3 DEF Halts, NRFD
          <5>2. j = l /\ gpibState[l] = "SAMPLED"
            BY <5>1, ListenerFrame, ProgressLemma
          <5>3. got(l) = at - 1
            BY <4>3, <5>2 DEF Follows, InStep, Active
          <5>4. Reach(l) = at
            BY <1>1, <5>2, <5>3 DEF Reach, Reading
          <5> QED BY <1>1, <2>4, <4>1, <4>3, <5>4 DEF Apart
        <4> QED BY <1>1, <4>1, <4>2, <4>3 DEF Halts, SeenUpTo
      <3>2. CASE ~Gone(k)
        <4>1. k = l /\ Active(l)
          BY <2>4, <3>2, ListenerFrame, ProgressLemma
        <4>2. /\ accepted' = accepted /\ Total' = Total /\ state' = state /\ at' = at
          BY ListenerFrame
        <4>3. SeenUpTo(got(l) + 2)'
          <5>1. SeenUpTo(Taken(l)) /\ Taken(l) \in {got(l), got(l) + 1}
            BY <4>1 DEF Keeps, Taken
          <5> QED BY <1>1, <4>2, <5>1 DEF SeenUpTo
        <4>4. state \in {"PLACE_DATA", "ASSERT_DAV", "DATA_READY", "RECEIVER_ACCEPTING",
                         "HANDSHAKE_COMPLETE"} => at <= got(l) + 2
          BY <1>1, <4>1 DEF Follows, InStep, Between
        <4> QED BY <1>1, <4>1, <4>2, <4>3, <4>4 DEF Halts, SeenUpTo
      <3> QED BY <3>1, <3>2
    <2> QED BY <1>2, <1>3, <2>1, <2>2, <2>3, <2>4, ListenerFrame DEF Behind, Counts
  <1> QED BY <1>4, <1>6, ListenerFrame DEF Attention

LEMMA LossStep == TypeOK /\ DeliveryInv /\ LossInv /\ [Next]_vars => LossInv'
  <1> SUFFICES ASSUME TypeOK, DeliveryInv, LossInv, [Next]_vars, Talker \notin late'
               PROVE  /\ SeenUpTo(Past)'
                      /\ \A l \in Addressed' : Excused(l)' /\ Keeps(l)'
                      /\ atn' => Attention'
    BY DEF LossInv
  <1>1. Talker \notin late
    BY TalkerFrame, ListenerFrame DEF Next, WriteTimeOut, vars, history
  <1>2. /\ Lines /\ SeenUpTo(Past) /\ (atn => Attention)
        /\ \A l \in Addressed : Follows(l) /\ Excused(l) /\ Keeps(l)
    BY <1>1 DEF DeliveryInv, LossInv
  <1>3. CASE UNCHANGED vars
    <2>1. /\ SeenUpTo(Past)' /\ Addressed' = Addressed /\ NRFD' = NRFD
          /\ \A k : /\ got(k)' = got(k) /\ Active(k)' = Active(k) /\ Gone(k)' = Gone(k)
                    /\ Excused(k)' = Excused(k)
      BY <1>2, <1>3 DEF vars, lines, handshake, sender, receivers, history, SeenUpTo, Past,
         Total, Addressed, got, Active, Gone, Excused, NRFD
    <2>2. \A l \in Addressed : Keeps(l)'
      BY <1>2, <1>3, <2>1 DEF vars, sender, receivers, history, Keeps, Past, SeenUpTo, Taken,
         Total
    <2>3. ASSUME atn' PROVE Attention'
      <3>1. Attention
        BY <1>2, <1>3, <2>3 DEF vars, lines
      <3>2. Ended' /\ Master' = Master /\ Total' = Total /\ rstate' = rstate
        BY <1>3, <3>1 DEF vars, receivers, Attention, Ended, Master, Total
      <3>3. \A k : Reach(k)' = Reach(k) /\ Counts(k)' = Counts(k)
        BY <1>3, <2>1 DEF vars, receivers, Reach, Counts
      <3>4. \A k : Apart(k)' = Apart(k) /\ Halts(k)' = Halts(k) /\ Level(k)' = Level(k)
        BY <1>3, <2>1, <3>2, <3>3 DEF vars, sender, history, Apart, Halts, Level, SeenUpTo
      <3> QED BY <2>1, <3>1, <3>2, <3>3, <3>4 DEF Attention, Behind
    <2> QED BY <1>2, <2>1, <2>2, <2>3
  <1>4. CASE TalkerStep \/ TakeControl
    <2>1. SeenUpTo(Past)' /\ \A l \in Addressed : Excused(l)' /\ Keeps(l)'
      BY <1>2, <1>4, TalkerSeenLemma, TalkerKeepsLemma
    <2>2. ASSUME atn' PROVE Attention'
      <3>1. CASE TakeControl
        BY <1>2, <3>1, TakeControlLemma
      <3>2. CASE TalkerStep
        <4>1. atn' = atn
          BY <3>2 DEF TalkerStep, SendData, WaitForAttention, WaitForReceiverReady, PlaceData,
             AssertDav, WaitForAccepting, WaitForAccepted, HandshakeComplete, WriteAbort,
             SendEnd, Await, lines
        <4> QED BY <1>2, <2>2, <3>2, <4>1, TalkerAttentionLemma
      <3> QED BY <1>4, <3>1, <3>2
    <2> QED BY <1>4, <2>1, <2>2, TalkerFrame
  <1>5. CASE WriteTimeOut
    BY <1>5 DEF WriteTimeOut
  <1>6. ASSUME NEW l \in Addressed, ListenerStep(l) \/ ReadTimeOut(l) \/ ReceiveMore(l)
        PROVE  /\ SeenUpTo(Past)'
               /\ \A k \in Addressed' : Excused(k)' /\ Keeps(k)'
               /\ atn' => Attention'
    <2>1. SeenUpTo(Past)' /\ Addressed' = Addressed /\ atn' = atn
      BY <1>2, <1>6, ListenerFrame DEF SeenUpTo
    <2>2. \A k \in Addressed : Excused(k)' /\ Keeps(k)'
      BY <1>2, <1>6, ListenerKeepsLemma
    <2>3. atn => Attention'
      BY <1>2, <1>6, ListenerAttentionLemma
    <2> QED BY <2>1, <2>2, <2>3
  <1> QED BY <1>3, <1>4, <1>5, <1>6 DEF Next

LEMMA LossCorrect == Spec => []LossInv
  <1>1. TypeOK /\ DeliveryInv /\ LossInv /\ [Next]_vars => TypeOK' /\ DeliveryInv' /\ LossInv'
    BY TypeStep, DeliveryStep, LossStep
  <1>2. Init => TypeOK /\ DeliveryInv /\ LossInv
    BY TypeInit, DeliveryInit, LossInit
  <1> QED BY <1>1, <1>2, PTL DEF Spec

(* For any number of listeners: what the talker has seen accepted, every   *)
(* listener has that has not run out of time, but for the last byte, or    *)
(* two, before the controller's ATN.                                       *)
THEOREM LostCorrect == Spec => []NothingLost
  <1>1. TypeOK /\ DeliveryInv /\ LossInv => NothingLost
    <2> SUFFICES ASSUME TypeOK, DeliveryInv, LossInv, Talker \notin late,
                        NEW l \in Addressed, l \notin late, NEW n \in accepted, n \in 1..Total,
                        ~Has(l, n)
                 PROVE  /\ rstate[l] = "RECEIVE_ATN"
                        /\ \A m \in accepted \ {Command} : m <= IF Master \in late THEN n + 1 ELSE n
      BY DEF NothingLost, Master
    <2>1. /\ Total \in Nat \ {0} /\ Command = Total + 1 /\ accepted \subseteq 1..Command
          /\ got(l) \in Nat /\ Follows(l) /\ Excused(l) /\ Keeps(l)
          /\ l \in Listeners /\ rstate[l] \in Reasons /\ gpibState[l] \in ReceiverStates
      BY NumbersLemma DEF TypeOK, DeliveryInv, LossInv
    <2>2. got(l) < n
      BY <2>1 DEF Has, Follows, Reads, got
    <2>3. ~(n <= Taken(l))
      <3>1. CASE gpibState[l] \in {"READ_DONE", "DATA_ACCEPTED"}
        <4>1. byte[l] = got(l) + 1 /\ byte[l] # n
          BY <2>1, <3>1 DEF Has, Follows, Reads
        <4> QED BY <2>1, <2>2, <3>1, <4>1 DEF Taken
      <3>2. CASE gpibState[l] \notin {"READ_DONE", "DATA_ACCEPTED"}
        BY <2>1, <2>2, <3>2 DEF Taken
      <3> QED BY <3>1, <3>2
    <2>4. ~Active(l)
      BY <2>1, <2>3 DEF Keeps, SeenUpTo
    <2>5. Gone(l) /\ atn
      BY <2>1, <2>2, <2>4 DEF Follows, Marks, Reasonable, Excused, Reasons, Active, Gone
    <2>6. Attention /\ Counts(l) /\ Level(l)
      BY <2>5 DEF LossInv, Attention, Behind, Counts
    <2>7. ASSUME NEW m \in accepted, m # Command
          PROVE  m <= IF Master \in late THEN n + 1 ELSE n
      <3>1. m \in 1..Total
        BY <2>1, <2>7
      <3>2. CASE Master = Talker
        BY <2>1, <2>2, <2>6, <3>1, <3>2 DEF Level
      <3>3. CASE Master # Talker /\ rstate[Master] # "RECEIVE_ERR"
        <4>1. /\ Master \in Addressed /\ got(Master) \in Nat /\ Follows(Master) /\ Keeps(Master)
              /\ gpibState[Master] = "done" /\ got(l) + 1 >= got(Master)
          BY <2>6, <3>3, SettingLemma, NumbersLemma
             DEF Master, TypeOK, DeliveryInv, LossInv, Attention, Ended, Level
        <4>2. rstate[Master] \in {"RECEIVE_EOI", "RECEIVE_LIMIT"}
          BY <2>6, <3>3 DEF Attention, Ended
        <4>3. m <= got(Master)
          <5>1. CASE rstate[Master] = "RECEIVE_EOI"
            BY <3>1, <4>1, <5>1 DEF Follows, Marks
          <5>2. CASE rstate[Master] = "RECEIVE_LIMIT"
            BY <3>1, <4>1, <5>2, <2>1 DEF Keeps, Active, Taken, SeenUpTo
          <5> QED BY <4>2, <5>1, <5>2
        <4> QED BY <2>1, <2>2, <3>1, <4>1, <4>3
      <3>4. CASE Master # Talker /\ rstate[Master] = "RECEIVE_ERR"
        <4>1. Master \in late
          BY <3>4, SettingLemma DEF Master, TypeOK, LossInv, Excused
        <4>2. SeenUpTo(got(l) + 2)
          BY <2>5, <2>6, <3>4 DEF Attention, Behind, Halts
        <4> QED BY <2>1, <2>2, <3>1, <4>1, <4>2 DEF SeenUpTo
      <3> QED BY <3>2, <3>3, <3>4
    <2> QED BY <2>5, <2>7 DEF Gone
  <1> QED BY <1>1, DeliveryCorrect, LossCorrect, PTL
-----------------------------------------------------------------------------
(* The handshake as a transfer of the message.                             *)

(* Who is at a byte has put out no more than anybody who is still there.   *)
Last(l) ==
    gpibState[l] \in Reading \cup {"DATA_ACCEPTED"} =>
        \A k \in Addressed : Active(k) => got(l) <= got(k)

StepInv == Talker \notin late => \A l \in Addressed : Last(l)

LEMMA StepInit == Init => StepInv
  <1> SUFFICES ASSUME Init, NEW l \in Addressed PROVE Last(l)
    BY DEF StepInv
  <1>1. gpibState[l] = "HANDSHAKE_START"
    BY TypeInit, NumbersLemma DEF Init
  <1> QED BY <1>1 DEF Last, Reading

LEMMA ListenerLastLemma ==
    ASSUME TypeOK, Lines, NEW l \in Addressed, ListenerStep(l) \/ ReadTimeOut(l) \/ ReceiveMore(l),
           \A k \in Addressed : Follows(k) /\ Keeps(k) /\ Last(k),
           NEW k \in Addressed
    PROVE  Last(k)'
  <1> SUFFICES ASSUME gpibState'[k] \in Reading \cup {"DATA_ACCEPTED"},
                      NEW j \in Addressed, Active(j)'
               PROVE  got(k)' <= got(j)'
    BY ListenerFrame DEF Last
  <1>1. \A i \in Addressed : got(i) \in Nat /\ got(i)' \in Nat /\ got(i) <= got(i)'
    <2> SUFFICES ASSUME NEW i \in Addressed
                 PROVE  got(i) \in Nat /\ got(i)' \in Nat /\ got(i) <= got(i)'
      OBVIOUS
    <2>1. got(i) \in Nat
      BY NumbersLemma
    <2>2. CASE i = l
      BY <2>1, <2>2, ProgressLemma
    <2>3. CASE i # l
      <3>1. got(i)' = got(i)
        BY <2>3, ListenerFrame
      <3> QED BY <2>1, <3>1
    <2> QED BY <2>2, <2>3
  <1>2. Active(j)
    <2>1. CASE j = l
      BY <2>1, ProgressLemma
    <2>2. CASE j # l
      BY <2>2, ListenerFrame
    <2> QED BY <2>1, <2>2
  <1>3. CASE gpibState[k] \in Reading \cup {"DATA_ACCEPTED"} /\ got(k)' = got(k)
    <2>1. got(k) <= got(j)
      BY <1>2, <1>3 DEF Last
    <2> QED BY <1>1, <1>3, <2>1
  <1>4. CASE ~(gpibState[k] \in Reading \cup {"DATA_ACCEPTED"} /\ got(k)' = got(k))
    <2>1. k = l
      BY <1>4, ListenerFrame
    <2>2. l \in Listeners /\ gpibState \in [Listeners -> ReceiverStates]
      BY NumbersLemma DEF TypeOK
    <2>3. SeeDav(l)
      <3>1. CASE Receive(l)
        <4>1. gpibState'[l] \in {"idle", "done", "HANDSHAKE_START"}
          BY <2>2, <3>1 DEF Receive, PutOut
        <4> QED BY <2>1, <4>1 DEF Reading
      <3>2. CASE Busy(l) \/ ReadEoi(l) \/ ReadData(l) \/ Accept(l)
        <4>1. got(l)' = got(l) /\ gpibState[l] \in Reading
          BY <3>2 DEF Busy, ReadEoi, ReadData, Accept, Step, got, Reading
        <4> QED BY <1>4, <2>1, <4>1
      <3>3. CASE Ready(l) \/ ReadAbort(l) \/ ReadTimeOut(l) \/ ReceiveEnd(l) \/ ReceiveMore(l)
        <4>1. gpibState'[l] \in {"WAIT_FOR_DATA", "idle", "done", "HANDSHAKE_START"}
          BY <2>2, <3>3 DEF Ready, ReadAbort, ReadTimeOut, ReceiveEnd, ReceiveMore, End, Step
        <4> QED BY <2>1, <4>1 DEF Reading
      <3> QED BY <3>1, <3>2, <3>3 DEF ListenerStep
    <2>4. Active(l) /\ dav /\ got(l)' = got(l)
      BY <2>3 DEF SeeDav, Step, Active, got
    <2>5. got(l) = at - 1 /\ got(j) = at - 1
      BY <1>2, <2>4 DEF Lines, Follows, InStep
    <2> QED BY <1>1, <2>1, <2>4, <2>5
  <1> QED BY <1>3, <1>4

LEMMA StepStep == TypeOK /\ DeliveryInv /\ LossInv /\ StepInv /\ [Next]_vars => StepInv'
  <1> SUFFICES ASSUME TypeOK, DeliveryInv, LossInv, StepInv, [Next]_vars, Talker \notin late',
                      NEW l \in Addressed'
               PROVE  Last(l)'
    BY DEF StepInv
  <1>1. Talker \notin late
    BY TalkerFrame, ListenerFrame DEF Next, WriteTimeOut, vars, history
  <1>2. /\ Lines
        /\ \A k \in Addressed : Follows(k) /\ Keeps(k) /\ Last(k)
    BY <1>1 DEF DeliveryInv, LossInv, StepInv
  <1>3. CASE UNCHANGED vars
    <2>1. /\ gpibState' = gpibState /\ Addressed' = Addressed
          /\ \A k : got(k)' = got(k) /\ Active(k)' = Active(k)
      BY <1>3 DEF vars, receivers, got, Active, Addressed
    <2> QED BY <1>2, <2>1 DEF Last
  <1>4. CASE TalkerStep \/ TakeControl
    BY <1>2, <1>4, TalkerFrame DEF Last
  <1>5. CASE WriteTimeOut
    BY <1>5 DEF WriteTimeOut
  <1>6. ASSUME NEW k \in Addressed, ListenerStep(k) \/ ReadTimeOut(k) \/ ReceiveMore(k)
        PROVE  Last(l)'
    BY <1>2, <1>6, ListenerFrame, ListenerLastLemma
  <1> QED BY <1>3, <1>4, <1>5, <1>6 DEF Next

LEMMA TransferInit == Init => Transfer!Init
  <1> SUFFICES ASSUME Init PROVE Transfer!Init
    OBVIOUS
  <1>1. Addressed \subseteq Listeners /\ Total \in Nat \ {0}
    BY TypeInit, SettingLemma DEF TypeOK
  <1> QED BY <1>1 DEF Init, Transfer!Init

LEMMA TransferStep ==
    TypeOK /\ DeliveryInv /\ StepInv /\ [Next]_vars => [Transfer!Next]_(Transfer!vars)
  <1> SUFFICES ASSUME TypeOK, DeliveryInv, StepInv, [Next]_vars
               PROVE  Transfer!Next \/ UNCHANGED Transfer!vars
    OBVIOUS
  <1>1. setting' = setting /\ late \subseteq late'
    BY TalkerFrame, ListenerFrame DEF Next, WriteTimeOut, vars, history
  <1>2. Addressed' = Addressed /\ Total' = Total
    BY <1>1 DEF Addressed, Total
  <1>3. CASE Talker \in late
    BY <1>1, <1>3 DEF Transfer!Next, Transfer!Broken
  <1>4. CASE Talker \notin late
    <2>1. Lines /\ \A k \in Addressed : Follows(k) /\ Last(k)
      BY <1>4 DEF DeliveryInv, StepInv
    <2>2. CASE UNCHANGED vars
      BY <1>2, <2>2 DEF vars, receivers, history, Transfer!vars
    <2>3. CASE TalkerStep \/ TakeControl
      BY <1>2, <2>3, TalkerFrame DEF Transfer!vars
    <2>4. CASE WriteTimeOut
      BY <1>2, <2>4 DEF WriteTimeOut, receivers, Transfer!Next, Transfer!Break
    <2>5. ASSUME NEW l \in Addressed, ListenerStep(l) \/ ReadTimeOut(l) \/ ReceiveMore(l)
          PROVE  Transfer!Next \/ UNCHANGED Transfer!vars
      <3>1. /\ l \in Listeners /\ l # Talker /\ got(l) \in Nat /\ Total \in Nat
            /\ rstate \in [Listeners -> Reasons]
        BY NumbersLemma DEF TypeOK
      <3>2. (Talker \in late') = (Talker \in late)
        BY <2>5, <3>1 DEF ListenerStep, ReadTimeOut, ReceiveMore, Ready, SeeDav, Busy, ReadEoi,
           ReadData, Accept, Receive, ReadAbort, ReceiveEnd, End, history
      <3>3. CASE Receive(l)
        <4>1. /\ gpibState[l] = "DATA_ACCEPTED" /\ rstate[l] = "RECEIVE_INIT"
              /\ byte[l] = got(l) + 1 /\ got(l) < Total /\ received' = [received EXCEPT ![l] = Append(@, byte[l])]
              /\ eoiDetected[l] => got(l) + 1 = Total
          BY <2>1, <3>3 DEF Receive, PutOut, Follows, Reasonable, Reads, Marks
        <4>2. \E reason \in {"RECEIVE_INIT", "RECEIVE_LIMIT", "RECEIVE_EOI"} :
                 /\ rstate' = [rstate EXCEPT ![l] = reason]
                 /\ reason = "RECEIVE_EOI" => got(l) + 1 = Total
          BY <3>3, <4>1 DEF Receive, PutOut
        <4>3. ASSUME NEW k \in Addressed, Transfer!Present(k)
              PROVE  got(l) <= got(k)
          <5>1. Active(k)
            BY <2>1, <4>3 DEF Follows, Reasonable, Active, Transfer!Present
          <5> QED BY <2>1, <4>1, <5>1 DEF Last
        <4>4. Transfer!Hear(l)
          BY <1>2, <1>4, <3>2, <4>1, <4>2, <4>3 DEF Transfer!Hear, got
        <4> QED BY <4>4 DEF Transfer!Next
      <3>4. CASE ReceiveMore(l)
        BY <1>2, <3>2, <3>4 DEF ReceiveMore, Transfer!Next, Transfer!Resume
      <3>5. CASE ReadAbort(l) \/ ReadTimeOut(l)
        <4>1. /\ rstate[l] = "RECEIVE_INIT" /\ received' = received
              /\ \E reason \in {"RECEIVE_ERR", "RECEIVE_ATN"} : rstate' = [rstate EXCEPT ![l] = reason]
          BY <2>1, <3>5 DEF ReadAbort, ReadTimeOut, End, Waiting, Follows, Reasonable
        <4>2. Transfer!Leave(l)
          BY <1>2, <3>2, <4>1 DEF Transfer!Leave
        <4> QED BY <4>2 DEF Transfer!Next
      <3>6. CASE Ready(l) \/ SeeDav(l) \/ Busy(l) \/ ReadEoi(l) \/ ReadData(l) \/ Accept(l)
                    \/ ReceiveEnd(l)
        BY <1>2, <3>2, <3>6 DEF Ready, SeeDav, Busy, ReadEoi, ReadData, Accept, ReceiveEnd,
           Transfer!vars
      <3> QED BY <2>5, <3>3, <3>4, <3>5, <3>6 DEF ListenerStep
    <2> QED BY <2>2, <2>3, <2>4, <2>5 DEF Next
  <1> QED BY <1>3, <1>4

(* For any number of listeners, the signals implement the transfer of the  *)
(* message: the listeners keep step whatever times out.                    *)
THEOREM TransferImplemented == Spec => ImplementsTransfer
  <1>1. Spec => []StepInv
    BY StepInit, StepStep, DeliveryCorrect, LossCorrect, PTL DEF Spec
  <1>2. TypeOK /\ DeliveryInv /\ StepInv /\ [Next]_vars => [Transfer!Next]_(Transfer!vars)
    BY TransferStep
  <1> QED BY <1>1, <1>2, TransferInit, DeliveryCorrect, PTL DEF Spec, ImplementsTransfer, Transfer!Spec
=============================================================================
