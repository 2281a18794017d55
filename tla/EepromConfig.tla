---------------------------- MODULE EepromConfig ----------------------------
(***************************************************************************)
(* The configuration of the adapter (gpibBus.cfg) and its copy in the      *)
(* EEPROM: how it is stored (AR488_Eeprom.cpp), loaded by setup(), and     *)
(* changed and saved from the serial menu and by the Prologix commands.    *)
(*                                                                         *)
(* Between any two EEPROM bytes the power may fail.  A write of a byte     *)
(* that is there already changes nothing, so that a step here is the next  *)
(* write of epErase or epWriteData that does change the EEPROM.            *)
(***************************************************************************)
EXTENDS Integers

CONSTANTS
    Crc(_),          \* getCRC16 of a configuration, as [hi, lo]
    Configurations,  \* what gpibBus.cfg may hold
    Ips,             \* addresses entered at the serial menu
    Numbers,         \* numbers entered as default instrument
    Settings,        \* what the firmware puts into a byte of cfg as it runs
    Builds           \* the builds looked at

VARIABLES
    eeprom,  \* its bytes, as far as they are read
    cfg,     \* gpibBus.cfg
    pc,      \* where the firmware is
    build

vars == <<eeprom, cfg, pc, build>>

Bytes == 0..255
EESTART == 2
GPIB_CFG_SIZE == 92
Index == 0..(GPIB_CFG_SIZE - 1)
Cells == 0..(EESTART + GPIB_CFG_SIZE - 1)

(* Places of members of GPIBconf in its bytes.                             *)
cmode == 2
caddr == 3
paddr == 4
hflags == 82
ip == 83

(* setDefaultCfg: controller mode, primary address 1, no secondary         *)
(* address, a read time-out of 1200 ms, and everything else 0.             *)
DefaultCfg == [i \in Index |->
    CASE i = cmode -> 2
      [] i = paddr -> 1
      [] i = 5     -> 255
      [] i = 9     -> 1200 % 256
      [] i = 10    -> 1200 \div 256
      [] OTHER     -> 0]

(* What setup() makes of the configuration it has loaded: controller or    *)
(* device mode, a default instrument that exists, no addressed instrument. *)
AsStarted(c) ==
    [c EXCEPT ![cmode] = IF @ = 2 THEN 2 ELSE 1,
              ![hflags] = IF @ = 255 THEN 0 ELSE @,
              ![caddr] = IF @ > 30 THEN 0 ELSE @,
              ![paddr] = 255]

WithIp(c, address) ==
    [i \in Index |-> IF i \in ip..(ip + 3) THEN address[i - ip + 1] ELSE c[i]]

(* The number is put into a byte before it is checked.                     *)
AsInstrument(number) == number % 256

(* The first bytes of new over the rest of old.                            *)
Torn(new, old, last) == [i \in Index |-> IF i <= last THEN new[i] ELSE old[i]]

Sums == [hi : Bytes, lo : Bytes]
Erased == [hi |-> 255, lo |-> 255]

ASSUME BuildsAssumption == Builds \subseteq {"VXI11", "PROLOGIX"}
ASSUME IpsAssumption == Ips \subseteq [1..4 -> Bytes]
ASSUME NumbersAssumption == Numbers \subseteq Int
ASSUME SettingsAssumption == Settings \subseteq [build : Builds, at : Index, to : Bytes]
ASSUME CrcAssumption == \A c \in Configurations : Crc(c) \in Sums

(* Configurations is closed under what the firmware does to cfg.           *)
ASSUME ConfigurationsAssumption ==
    /\ Configurations \subseteq [Index -> Bytes]
    /\ DefaultCfg \in Configurations
    /\ \A c \in Configurations :
          /\ AsStarted(c) \in Configurations
          /\ \A a \in Ips : WithIp(c, a) \in Configurations
          /\ \A n \in Numbers :
                AsInstrument(n) <= 30 => [c EXCEPT ![caddr] = AsInstrument(n)] \in Configurations
          /\ \A s \in Settings : [c EXCEPT ![s.at] = s.to] \in Configurations

(* The checksum of one configuration does not fit the first bytes of       *)
(* another one over the rest of it, not even with its low byte erased.     *)
(* About one torn configuration in 65536 is not told apart in this way.    *)
ASSUME CrcTells ==
    \A old, new \in Configurations :
        \A i \in {k \in Index : old[k] # new[k]} :
            LET torn == Torn(new, old, i)
            IN  /\ Crc(torn) = Crc(old) => torn = new
                /\ Crc(torn) = [hi |-> Crc(old).hi, lo |-> 255] => Crc(torn) = Crc(old)

TypeOK ==
    /\ eeprom \in [Cells -> Bytes]
    /\ cfg \in [Index -> Bytes]
    /\ pc \in {"off", "setup", "erase", "format", "begin", "run", "save", "wipe"}
    /\ build \in Builds

-----------------------------------------------------------------------------
(* The EEPROM.                                                             *)

Data == [i \in Index |-> eeprom[i + EESTART]]
Sum == [hi |-> eeprom[1], lo |-> eeprom[0]]

isEepromClear == Sum = Erased
epReadData == Crc(Data) = Sum

NotErased == {a \in Cells : eeprom[a] # 255}
NotWritten == {i \in Index : eeprom[i + EESTART] # cfg[i]}
(* Variant: the checksum is written high byte first.                       *)
CrcByteSwapped == [a \in 0..1 |-> IF a = 0 THEN Crc(cfg).hi ELSE Crc(cfg).lo]

CrcByte == [a \in 0..1 |-> IF a = 0 THEN Crc(cfg).lo ELSE Crc(cfg).hi]
CrcNotWritten == {a \in 0..1 : eeprom[a] # CrcByte[a]}

epErase ==
    \E a \in NotErased :
        /\ \A b \in NotErased : a <= b
        /\ eeprom' = [eeprom EXCEPT ![a] = 255]

(* The checksum comes last, its low byte first.                            *)
epWriteData ==
    \/ \E i \in NotWritten :
           /\ \A j \in NotWritten : i <= j
           /\ eeprom' = [eeprom EXCEPT ![i + EESTART] = cfg[i]]
    \/ /\ NotWritten = {}
       /\ \E a \in CrcNotWritten :
              /\ \A b \in CrcNotWritten : a <= b
              /\ eeprom' = [eeprom EXCEPT ![a] = CrcByte[a]]

-----------------------------------------------------------------------------
(* setup()                                                                 *)

Init ==
    /\ eeprom = [a \in Cells |-> 255]
    /\ cfg = DefaultCfg
    /\ pc = "off"
    /\ build \in Builds

PowerOn ==
    /\ pc = "off"
    /\ pc' = "setup"
    /\ UNCHANGED <<eeprom, cfg, build>>

(* Variant: the checksum is not compared.                                  *)
LoadUnchecked ==
    /\ pc = "setup"
    /\ IF isEepromClear
       THEN pc' = "erase" /\ UNCHANGED cfg
       ELSE cfg' = Data /\ pc' = "begin"
    /\ UNCHANGED <<eeprom, build>>

(* The configuration is copied before its checksum is compared.            *)
Load ==
    /\ pc = "setup"
    /\ IF isEepromClear
       THEN pc' = "erase" /\ UNCHANGED cfg
       ELSE cfg' = Data /\ pc' = IF epReadData THEN "begin" ELSE "erase"
    /\ UNCHANGED <<eeprom, build>>

EraseByte ==
    /\ pc \in {"erase", "wipe"}
    /\ epErase
    /\ UNCHANGED <<cfg, pc, build>>

(* Variant: setup() starts again instead of writing the default.           *)
EraseDoneRestarting ==
    /\ pc \in {"erase", "wipe"}
    /\ NotErased = {}
    /\ cfg' = DefaultCfg
    /\ pc' = IF pc = "erase" THEN "setup" ELSE "run"
    /\ UNCHANGED <<eeprom, build>>

(* setup() goes on to write the default, ++default wipe does not.          *)
EraseDone ==
    /\ pc \in {"erase", "wipe"}
    /\ NotErased = {}
    /\ cfg' = DefaultCfg
    /\ pc' = IF pc = "erase" THEN "format" ELSE "run"
    /\ UNCHANGED <<eeprom, build>>

WriteByte ==
    /\ pc \in {"format", "save"}
    /\ epWriteData
    /\ UNCHANGED <<cfg, pc, build>>

WriteDone ==
    /\ pc \in {"format", "save"}
    /\ NotWritten = {} /\ CrcNotWritten = {}
    /\ pc' = IF pc = "format" THEN "begin" ELSE "run"
    /\ UNCHANGED <<eeprom, cfg, build>>

Begin ==
    /\ pc = "begin"
    /\ cfg' = AsStarted(cfg)
    /\ pc' = "run"
    /\ UNCHANGED <<eeprom, build>>

-----------------------------------------------------------------------------
(* The serial menu and the commands.                                       *)

cmd1_DoIt ==
    /\ pc = "run"
    /\ \E address \in Ips : cfg' = WithIp(cfg, address)
    /\ pc' = "save"
    /\ UNCHANGED <<eeprom, build>>

(* Variant: the number is stored as it was entered.                        *)
cmd2_DoItUncut ==
    /\ pc = "run" /\ build = "VXI11"
    /\ \E n \in Numbers :
          /\ AsInstrument(n) <= 30
          /\ cfg' = [cfg EXCEPT ![caddr] = n]
    /\ pc' = "save"
    /\ UNCHANGED <<eeprom, build>>

cmd2_DoIt ==
    /\ pc = "run" /\ build = "VXI11"
    /\ \E n \in Numbers :
          /\ AsInstrument(n) <= 30
          /\ cfg' = [cfg EXCEPT ![caddr] = AsInstrument(n)]
    /\ pc' = "save"
    /\ UNCHANGED <<eeprom, build>>

(* Addressing an instrument, ++addr, ++auto, ... : changes in RAM only.    *)
Set ==
    /\ pc = "run"
    /\ \E s \in Settings : s.build = build /\ cfg' = [cfg EXCEPT ![s.at] = s.to]
    /\ UNCHANGED <<eeprom, pc, build>>

save_h ==
    /\ pc = "run" /\ build = "PROLOGIX"
    /\ pc' = "save"
    /\ UNCHANGED <<eeprom, cfg, build>>

default_h ==
    /\ pc = "run" /\ build = "PROLOGIX"
    /\ \/ pc' = "wipe" /\ UNCHANGED cfg
       \/ pc' = "run" /\ cfg' = DefaultCfg
    /\ UNCHANGED <<eeprom, build>>

(* A variable of the firmware starts with its constructor's value.         *)
PowerOff ==
    /\ pc # "off"
    /\ pc' = "off"
    /\ cfg' = DefaultCfg
    /\ UNCHANGED <<eeprom, build>>

Setup == \/ Load \/ Begin
         \/ pc \in {"erase", "format"} /\ (EraseByte \/ EraseDone \/ WriteByte \/ WriteDone)
Firmware == \/ Load \/ EraseByte \/ EraseDone \/ WriteByte \/ WriteDone \/ Begin
            \/ cmd1_DoIt \/ cmd2_DoIt \/ Set \/ save_h \/ default_h
Next == PowerOn \/ Firmware \/ PowerOff

(* setup() waits for nobody.                                               *)
Spec == Init /\ [][Next]_vars /\ WF_vars(Setup)

-----------------------------------------------------------------------------
(* Properties.                                                             *)

(* What the next start will load.                                          *)
Effective == IF ~isEepromClear /\ epReadData THEN Data ELSE DefaultCfg

Down == [i \in Index |-> 256]
Store == INSTANCE ConfigStore WITH
    Default <- DefaultCfg,
    Started <- AsStarted,
    stored <- Effective,
    running <- IF pc \in {"run", "save", "wipe"} THEN cfg ELSE Down,
    changing <- pc \in {"save", "wipe"}

(* However the power fails between the bytes of epWriteData and epErase,   *)
(* the adapter starts with a configuration that was saved whole or with    *)
(* the default, never with a mixture of two; and a start, with all the     *)
(* erasing and writing it may do, changes nothing of what is stored.       *)
ImplementsStore == Store!Spec

(* A save that has come to its end is what the next start loads, unless    *)
(* the checksum is that of an erased EEPROM.                               *)
SavedUnlessClear ==
    [][pc = "save" /\ pc' = "run" => Effective = cfg \/ Crc(cfg) = Erased]_vars

(* A start comes to an end, whatever it finds in the EEPROM, if the power  *)
(* stays on.                                                               *)
SetupEnds == pc = "setup" ~> pc \in {"run", "off"}

=============================================================================
