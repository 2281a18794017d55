---------------------------- MODULE EepromProofs ----------------------------
(***************************************************************************)
(* Theorems about EepromConfig, for any set of configurations and any      *)
(* checksum that tells them from their mixtures (CrcTells).                *)
(***************************************************************************)
EXTENDS EepromConfig, TLAPS

(* The images an EEPROM may hold: a whole configuration; one with an       *)
(* erased checksum;                                                        *)
Whole == Data \in Configurations /\ Sum = Crc(Data)
Blank == Sum = Erased

(* one whose save over an old one was cut off in the data,                 *)
Mixed(new, old) ==
    /\ Sum = Crc(old)
    /\ \E i \in Index : old[i] # new[i] /\ Data = Torn(new, old, i)

(* or between the two bytes of the checksum;                               *)
Summing(new) == Data = new /\ Sum.lo = Crc(new).lo

(* one whose erasure was cut off after the first byte.                     *)
Cut == Sum.lo = 255 /\ Sum # Crc(Data)

Image ==
    \/ Whole \/ Blank \/ Cut
    \/ \E old, new \in Configurations : Mixed(new, old)
    \/ \E new \in Configurations : Summing(new)

Rejected == Sum = Crc(Data) => Blank

Saving ==
    \/ Whole \/ Blank \/ Summing(cfg)
    \/ \E old \in Configurations : Mixed(cfg, old)

(* What the EEPROM holds, by where the firmware is.                        *)
IInv ==
    /\ TypeOK
    /\ pc \in {"format", "begin", "run", "save", "wipe"} => cfg \in Configurations
    /\ pc \in {"off", "setup"} => Image
    /\ pc = "erase" => Image /\ Rejected
    /\ pc = "format" => cfg = DefaultCfg /\ (Blank \/ Summing(cfg))
    /\ pc = "begin" => (Whole \/ Blank) /\ cfg = Effective
    /\ pc = "run" => Whole \/ Blank
    /\ pc = "save" => Saving
    /\ pc = "wipe" => Whole \/ Blank \/ Cut

-----------------------------------------------------------------------------
(* Where the two parts of an EEPROM image lie: they do not overlap.        *)
LEMMA CellFacts ==
    /\ 0 \in Cells /\ 1 \in Cells
    /\ \A i \in Index : i + EESTART \in Cells /\ i + EESTART # 0 /\ i + EESTART # 1
  BY DEF Cells, Index, EESTART, GPIB_CFG_SIZE

(* The types of the two parts of an EEPROM image.                          *)
LEMMA PartsType ==
    ASSUME eeprom \in [Cells -> Bytes]
    PROVE  Data \in [Index -> Bytes] /\ Sum \in Sums
  <1>1. eeprom[0] \in Bytes /\ eeprom[1] \in Bytes
    BY CellFacts
  <1>2. \A i \in Index : eeprom[i + EESTART] \in Bytes
    BY CellFacts
  <1>3. Data \in [Index -> Bytes]
    BY <1>2 DEF Data
  <1>4. Sum \in Sums
    BY <1>1 DEF Sum, Sums
  <1> QED BY <1>3, <1>4

(* What a write of one byte does to them.                                  *)
LEMMA WriteData ==
    ASSUME eeprom \in [Cells -> Bytes], NEW i \in Index, NEW v \in Bytes,
           eeprom' = [eeprom EXCEPT ![i + EESTART] = v]
    PROVE  /\ eeprom' \in [Cells -> Bytes]
           /\ Sum' = Sum
           /\ Data' = [Data EXCEPT ![i] = v]
  <1>1. eeprom' \in [Cells -> Bytes] /\ eeprom'[0] = eeprom[0] /\ eeprom'[1] = eeprom[1]
    BY CellFacts
  <1>2. \A j \in Index : eeprom'[j + EESTART] = IF j = i THEN v ELSE eeprom[j + EESTART]
    <2>1. \A j \in Index : j + EESTART = i + EESTART <=> j = i
      BY DEF Index, EESTART, GPIB_CFG_SIZE
    <2> QED BY <2>1, CellFacts
  <1>3. [j \in Index |-> eeprom'[j + EESTART]]
            = [j \in Index |-> IF j = i THEN v ELSE eeprom[j + EESTART]]
    BY <1>2
  <1>4. [Data EXCEPT ![i] = v]
            = [j \in Index |-> IF j = i THEN v ELSE eeprom[j + EESTART]]
    BY DEF Data
  <1> QED BY <1>1, <1>3, <1>4 DEF Data, Sum

LEMMA WriteLo ==
    ASSUME eeprom \in [Cells -> Bytes], NEW v \in Bytes,
           eeprom' = [eeprom EXCEPT ![0] = v]
    PROVE  /\ eeprom' \in [Cells -> Bytes]
           /\ Sum' = [hi |-> Sum.hi, lo |-> v]
           /\ Data' = Data
  <1>1. /\ eeprom' \in [Cells -> Bytes]
        /\ eeprom'[0] = v /\ eeprom'[1] = eeprom[1]
    BY CellFacts
  <1>2. \A j \in Index : eeprom'[j + EESTART] = eeprom[j + EESTART]
    BY CellFacts
  <1>3. Data' = Data
    BY <1>2 DEF Data
  <1>4. Sum' = [hi |-> Sum.hi, lo |-> v]
    BY <1>1 DEF Sum
  <1> QED BY <1>1, <1>3, <1>4

LEMMA WriteHi ==
    ASSUME eeprom \in [Cells -> Bytes], NEW v \in Bytes,
           eeprom' = [eeprom EXCEPT ![1] = v]
    PROVE  /\ eeprom' \in [Cells -> Bytes]
           /\ Sum' = [hi |-> v, lo |-> Sum.lo]
           /\ Data' = Data
  <1>1. /\ eeprom' \in [Cells -> Bytes]
        /\ eeprom'[1] = v /\ eeprom'[0] = eeprom[0]
    BY CellFacts
  <1>2. \A j \in Index : eeprom'[j + EESTART] = eeprom[j + EESTART]
    BY CellFacts
  <1>3. Data' = Data
    BY <1>2 DEF Data
  <1>4. Sum' = [hi |-> v, lo |-> Sum.lo]
    BY <1>1 DEF Sum
  <1> QED BY <1>1, <1>3, <1>4

(* What an image is loaded as.                                             *)
LEMMA EffectiveDefault == Blank \/ Cut => Effective = DefaultCfg
  BY DEF Blank, Cut, Effective, isEepromClear, epReadData

LEMMA EffectiveMixed ==
    ASSUME NEW old \in Configurations, NEW new \in Configurations,
           Mixed(new, old)
    PROVE  /\ Effective \in {new, DefaultCfg}
           /\ Sum = Crc(Data) => Data = new
           /\ Sum # Crc(Data) => Crc(Data) # [hi |-> Sum.hi, lo |-> 255]
  <1>1. PICK i \in Index : old[i] # new[i] /\ Data = Torn(new, old, i)
    BY DEF Mixed
  <1>2. Sum = Crc(old)
    BY DEF Mixed
  <1>3. Crc(Data) = Crc(old) => Data = new
    BY <1>1, CrcTells
  <1>4. Crc(Data) = [hi |-> Crc(old).hi, lo |-> 255] => Crc(Data) = Crc(old)
    BY <1>1, CrcTells
  <1> QED BY <1>2, <1>3, <1>4 DEF Effective, epReadData

LEMMA EffectiveSumming ==
    ASSUME NEW new, Summing(new)
    PROVE  Effective \in {new, DefaultCfg}
  BY DEF Summing, Effective

-----------------------------------------------------------------------------
(* Erasing never makes a checksum right.                                   *)
LEMMA EraseStep ==
    ASSUME TypeOK, epErase, Whole \/ (Image /\ Rejected)
    PROVE  eeprom' \in [Cells -> Bytes] /\ (Blank \/ Cut)'
  <1>1. PICK a \in NotErased :
            /\ \A b \in NotErased : a <= b
            /\ eeprom' = [eeprom EXCEPT ![a] = 255]
    BY DEF epErase
  <1>2. eeprom \in [Cells -> Bytes] /\ 255 \in Bytes /\ Sum \in Sums
    BY PartsType DEF TypeOK, Bytes
  <1>3. a \in Cells /\ eeprom[a] # 255
    BY DEF NotErased
  <1>4. CASE a = 0
    <2>1. /\ eeprom' \in [Cells -> Bytes]
          /\ Sum' = [hi |-> Sum.hi, lo |-> 255] /\ Data' = Data
      BY <1>1, <1>2, <1>4, WriteLo
    <2>2. Sum.lo # 255
      BY <1>3, <1>4 DEF Sum
    <2>3. Crc(Data) # [hi |-> Sum.hi, lo |-> 255]
      <3>1. CASE Sum = Crc(Data)
        BY <2>2, <3>1
      <3>2. CASE Sum # Crc(Data)
        <4>1. ~Whole /\ ~Blank /\ ~Cut
          BY <2>2, <3>2 DEF Whole, Blank, Cut, Erased
        <4>2. CASE \E old, new \in Configurations : Mixed(new, old)
          BY <3>2, <4>2, EffectiveMixed
        <4>3. CASE \E new \in Configurations : Summing(new)
          BY <2>2, <4>3 DEF Summing
        <4> QED BY <4>1, <4>2, <4>3 DEF Image
      <3> QED BY <3>1, <3>2
    <2> QED BY <2>1, <2>3 DEF Cut
  <1>5. CASE a # 0
    <2>1. eeprom[0] = 255
      BY <1>1, <1>3, <1>5 DEF NotErased, Cells, EESTART, GPIB_CFG_SIZE
    <2>2. CASE a = 1
      <3>1. /\ eeprom' \in [Cells -> Bytes]
            /\ Sum' = [hi |-> 255, lo |-> Sum.lo]
        BY <1>1, <1>2, <2>2, WriteHi
      <3> QED BY <2>1, <3>1 DEF Blank, Erased, Sum
    <2>3. CASE a # 1
      <3>1. eeprom[1] = 255
        BY <1>1, <1>3, <1>5, <2>3 DEF NotErased, Cells, EESTART, GPIB_CFG_SIZE
      <3>2. eeprom' \in [Cells -> Bytes] /\ eeprom'[0] = 255 /\ eeprom'[1] = 255
        BY <1>1, <1>2, <1>3, <1>5, <2>1, <2>3, <3>1
           DEF Cells, EESTART, GPIB_CFG_SIZE
      <3> QED BY <3>2 DEF Blank, Erased, Sum
    <2> QED BY <2>2, <2>3
  <1> QED BY <1>4, <1>5

(* Writing goes from what is there, over a mixture, to what is written.    *)
LEMMA WriteStep ==
    ASSUME TypeOK, cfg \in Configurations, epWriteData, UNCHANGED cfg, Saving
    PROVE  /\ eeprom' \in [Cells -> Bytes]
           /\ \/ Blank' \/ Summing(cfg)'
              \/ \E old \in Configurations : Mixed(cfg, old)'
           /\ Blank \/ Summing(cfg) => (Blank \/ Summing(cfg))'
  <1>1. /\ eeprom \in [Cells -> Bytes] /\ Sum \in Sums
        /\ Data \in [Index -> Bytes] /\ cfg \in [Index -> Bytes]
        /\ Crc(cfg) \in Sums
    BY PartsType, ConfigurationsAssumption, CrcAssumption DEF TypeOK
  <1>2. CASE \E i \in NotWritten :
                /\ \A j \in NotWritten : i <= j
                /\ eeprom' = [eeprom EXCEPT ![i + EESTART] = cfg[i]]
    <2>1. PICK i \in NotWritten :
                /\ \A j \in NotWritten : i <= j
                /\ eeprom' = [eeprom EXCEPT ![i + EESTART] = cfg[i]]
      BY <1>2
    <2>2. i \in Index /\ cfg[i] \in Bytes /\ Data[i] # cfg[i]
      BY <1>1 DEF NotWritten, Data
    <2>3. \A j \in Index : j < i => Data[j] = cfg[j]
      BY <2>1, <2>2 DEF NotWritten, Data, Index, GPIB_CFG_SIZE
    <2>4. /\ eeprom' \in [Cells -> Bytes] /\ Sum' = Sum
          /\ Data' = [Data EXCEPT ![i] = cfg[i]]
      BY <1>1, <2>1, <2>2, WriteData
    <2>5. Data' = [j \in Index |-> IF j <= i THEN cfg[j] ELSE Data[j]]
      <3>1. \A j \in Index : Data'[j] = IF j <= i THEN cfg[j] ELSE Data[j]
        BY <1>1, <2>2, <2>3, <2>4 DEF Index, GPIB_CFG_SIZE
      <3> QED BY <1>1, <2>4, <3>1
    <2>6. ~Summing(cfg)
      BY <2>2 DEF Summing
    <2>7. CASE Blank
      BY <2>4, <2>7 DEF Blank
    <2>8. CASE Whole
      <3>1. PICK old \in Configurations : Data = old /\ Sum = Crc(old)
        BY <2>8 DEF Whole
      <3>2. Data' = Torn(cfg, old, i)
        BY <2>5, <3>1 DEF Torn
      <3>3. Sum' = Crc(old)
        BY <2>4, <3>1
      <3>4. Mixed(cfg, old)'
        BY <2>2, <3>1, <3>2, <3>3 DEF Mixed
      <3> QED BY <2>4, <2>6, <3>4 DEF Blank
    <2>9. CASE \E old \in Configurations : Mixed(cfg, old)
      <3>1. PICK old \in Configurations : Mixed(cfg, old)
        BY <2>9
      <3>2. PICK k \in Index : old[k] # cfg[k] /\ Data = Torn(cfg, old, k)
        BY <3>1 DEF Mixed
      <3>3. k < i /\ old[i] # cfg[i]
        BY <2>2, <3>2 DEF Torn, Index, GPIB_CFG_SIZE
      <3>4. Data' = Torn(cfg, old, i)
        <4>1. \A j \in Index : j > i => Data[j] = old[j]
          BY <2>2, <3>2, <3>3 DEF Torn, Index, GPIB_CFG_SIZE
        <4> QED BY <2>2, <2>5, <4>1 DEF Torn, Index, GPIB_CFG_SIZE
      <3>5. Sum' = Crc(old)
        BY <2>4, <3>1 DEF Mixed
      <3>6. Mixed(cfg, old)'
        BY <2>2, <3>3, <3>4, <3>5 DEF Mixed
      <3> QED BY <2>4, <2>6, <3>6 DEF Blank
    <2> QED BY <2>6, <2>7, <2>8, <2>9 DEF Saving
  <1>3. CASE /\ NotWritten = {}
             /\ \E a \in CrcNotWritten :
                    /\ \A b \in CrcNotWritten : a <= b
                    /\ eeprom' = [eeprom EXCEPT ![a] = CrcByte[a]]
    <2>1. PICK a \in CrcNotWritten :
                /\ \A b \in CrcNotWritten : a <= b
                /\ eeprom' = [eeprom EXCEPT ![a] = CrcByte[a]]
      BY <1>3
    <2>2. Data = cfg
      BY <1>1, <1>3 DEF NotWritten, Data
    <2>3. CASE a = 0
      <3>1. CrcByte[a] = Crc(cfg).lo
        BY <2>3 DEF CrcByte
      <3>2. /\ eeprom' \in [Cells -> Bytes]
            /\ Sum' = [hi |-> Sum.hi, lo |-> Crc(cfg).lo] /\ Data' = Data
        BY <1>1, <2>1, <2>3, <3>1, WriteLo DEF Sums
      <3> QED BY <2>2, <3>2 DEF Summing
    <2>4. CASE a = 1
      <3>1. CrcByte[a] = Crc(cfg).hi
        BY <2>4 DEF CrcByte
      <3>2. /\ eeprom' \in [Cells -> Bytes]
            /\ Sum' = [hi |-> Crc(cfg).hi, lo |-> Sum.lo] /\ Data' = Data
        BY <1>1, <2>1, <2>4, <3>1, WriteHi DEF Sums
      <3>3. Sum.lo = Crc(cfg).lo
        <4>1. CrcByte[0] = Crc(cfg).lo
          BY DEF CrcByte
        <4>2. eeprom[0] = CrcByte[0]
          BY <2>1, <2>4 DEF CrcNotWritten
        <4> QED BY <4>1, <4>2 DEF Sum
      <3> QED BY <2>2, <3>2, <3>3 DEF Summing
    <2> QED BY <2>3, <2>4 DEF CrcNotWritten
  <1> QED BY <1>2, <1>3 DEF epWriteData

(* A save that is over.                                                    *)
LEMMA Written ==
    ASSUME TypeOK, cfg \in Configurations, NotWritten = {}, CrcNotWritten = {}
    PROVE  Data = cfg /\ Sum = Crc(cfg) /\ Whole
  <1>1. /\ eeprom \in [Cells -> Bytes] /\ cfg \in [Index -> Bytes]
        /\ Crc(cfg) \in Sums
    BY ConfigurationsAssumption, CrcAssumption DEF TypeOK
  <1>2. Data = cfg
    BY <1>1 DEF NotWritten, Data
  <1>3. eeprom[0] = Crc(cfg).lo /\ eeprom[1] = Crc(cfg).hi
    <2>1. eeprom[0] = CrcByte[0] /\ eeprom[1] = CrcByte[1]
      BY DEF CrcNotWritten
    <2> QED BY <2>1 DEF CrcByte
  <1>4. Sum = Crc(cfg)
    BY <1>1, <1>3 DEF Sum, Sums
  <1> QED BY <1>2, <1>4 DEF Whole

-----------------------------------------------------------------------------
(* The invariant.                                                          *)
LEMMA ImageInit == Init => IInv
  <1> SUFFICES ASSUME Init PROVE IInv
    OBVIOUS
  <1>1. TypeOK
    BY ConfigurationsAssumption DEF Init, TypeOK, Cells, Bytes, EESTART, GPIB_CFG_SIZE
  <1>2. Blank
    BY DEF Init, Blank, Sum, Erased, Cells, EESTART, GPIB_CFG_SIZE
  <1> QED BY <1>1, <1>2 DEF Init, IInv, Image

(* Power off leaves one of the images, wherever it comes.                  *)
LEMMA ImageAnywhere == IInv => Image
  <1> SUFFICES ASSUME IInv PROVE Image
    OBVIOUS
  <1>1. CASE pc \in {"off", "setup", "erase"}
    BY <1>1 DEF IInv
  <1>2. CASE pc \in {"begin", "run", "wipe"}
    BY <1>2 DEF IInv, Image
  <1>3. CASE pc = "format"
    BY <1>3 DEF IInv, Image
  <1>4. CASE pc = "save"
    BY <1>4 DEF IInv, Image, Saving
  <1> QED BY <1>1, <1>2, <1>3, <1>4 DEF IInv, TypeOK

(* What Load accepts is a whole configuration.                             *)
LEMMA LoadWhole ==
    ASSUME Image, ~isEepromClear, epReadData
    PROVE  Whole /\ ~Blank /\ Effective = Data
  <1>1. ~Blank /\ Effective = Data /\ Sum = Crc(Data)
    BY DEF Blank, isEepromClear, epReadData, Effective
  <1>2. CASE \E old, new \in Configurations : Mixed(new, old)
    BY <1>1, <1>2, EffectiveMixed DEF Whole
  <1>3. CASE \E new \in Configurations : Summing(new)
    BY <1>1, <1>3 DEF Summing, Whole
  <1> QED BY <1>1, <1>2, <1>3 DEF Image, Cut

LEMMA ImageStep ==
    ASSUME IInv, [Next]_vars
    PROVE  IInv'
  <1> USE DEF IInv
  <1>1. CASE UNCHANGED eeprom /\ pc' = "off" /\ cfg' = DefaultCfg /\ build' = build
    <2>1. Image
      BY ImageAnywhere
    <2>2. Image'
      BY <1>1, <2>1 DEF Image, Whole, Blank, Cut, Mixed, Summing, Data, Sum
    <2> QED BY <1>1, <2>2, ConfigurationsAssumption DEF TypeOK
  <1>2. CASE PowerOn
    BY <1>2 DEF PowerOn, TypeOK, Image, Whole, Blank, Cut, Mixed, Summing, Data, Sum
  <1>3. CASE Load
    <2>1. /\ pc = "setup" /\ Image /\ UNCHANGED <<eeprom, build>>
          /\ Data' = Data /\ Sum' = Sum /\ Effective' = Effective
      BY <1>3 DEF Load, Data, Sum, Effective, isEepromClear, epReadData
    <2>2. Data \in [Index -> Bytes]
      BY PartsType DEF TypeOK
    <2>3. CASE ~isEepromClear /\ epReadData
      <3>1. Whole /\ ~Blank /\ Effective = Data
        BY <2>1, <2>3, LoadWhole
      <3>2. cfg' = Data /\ pc' = "begin"
        BY <1>3, <2>3 DEF Load
      <3>3. TypeOK'
        BY <2>1, <2>2, <3>2 DEF TypeOK
      <3> QED BY <2>1, <3>1, <3>2, <3>3 DEF Whole
    <2>4. CASE isEepromClear \/ ~epReadData
      <3>1. Rejected
        BY <2>4 DEF Rejected, Blank, isEepromClear, epReadData
      <3>2. pc' = "erase" /\ cfg' \in [Index -> Bytes]
        BY <1>3, <2>2, <2>4 DEF Load, TypeOK
      <3>3. TypeOK'
        BY <2>1, <3>2 DEF TypeOK
      <3>4. Image' /\ Rejected'
        BY <2>1, <3>1 DEF Image, Whole, Blank, Cut, Mixed, Summing, Rejected
      <3> QED BY <3>2, <3>3, <3>4
    <2> QED BY <2>3, <2>4
  <1>4. CASE EraseByte
    <2>1. pc \in {"erase", "wipe"} /\ UNCHANGED <<cfg, pc, build>> /\ epErase
      BY <1>4 DEF EraseByte
    <2>2. CASE pc = "erase"
      <3>1. eeprom' \in [Cells -> Bytes] /\ (Blank \/ Cut)'
        BY <2>1, <2>2, EraseStep
      <3> QED BY <2>1, <2>2, <3>1 DEF TypeOK, Image, Rejected, Blank, Cut
    <2>3. CASE pc = "wipe"
      <3>1. Whole \/ (Image /\ Rejected)
        BY <2>3 DEF Image, Rejected, Cut
      <3>2. eeprom' \in [Cells -> Bytes] /\ (Blank \/ Cut)'
        BY <2>1, <3>1, EraseStep
      <3> QED BY <2>1, <2>3, <3>2 DEF TypeOK
    <2> QED BY <2>1, <2>2, <2>3
  <1>5. CASE EraseDone
    <2>1. /\ pc \in {"erase", "wipe"} /\ cfg' = DefaultCfg
          /\ pc' = IF pc = "erase" THEN "format" ELSE "run"
          /\ UNCHANGED <<eeprom, build>> /\ Sum' = Sum
      BY <1>5 DEF EraseDone, Sum
    <2>2. Blank
      BY <1>5 DEF EraseDone, NotErased, Blank, Sum, Erased, Cells, EESTART, GPIB_CFG_SIZE
    <2>3. TypeOK' /\ cfg' \in Configurations
      BY <2>1, ConfigurationsAssumption DEF TypeOK
    <2>4. Blank'
      BY <2>1, <2>2 DEF Blank
    <2> QED BY <2>1, <2>3, <2>4
  <1>6. CASE WriteByte
    <2>1. pc \in {"format", "save"} /\ UNCHANGED <<cfg, pc, build>> /\ epWriteData
      BY <1>6 DEF WriteByte
    <2>2. Saving /\ cfg \in Configurations
      BY <2>1 DEF Saving
    <2>3. /\ eeprom' \in [Cells -> Bytes]
          /\ \/ Blank' \/ Summing(cfg)'
             \/ \E old \in Configurations : Mixed(cfg, old)'
          /\ Blank \/ Summing(cfg) => (Blank \/ Summing(cfg))'
      BY <2>1, <2>2, WriteStep
    <2>4. TypeOK'
      BY <2>1, <2>3 DEF TypeOK
    <2>5. CASE pc = "format"
      BY <2>1, <2>3, <2>4, <2>5
    <2>6. CASE pc = "save"
      <3>1. Saving'
        BY <2>3 DEF Saving
      <3> QED BY <2>1, <2>4, <2>6, <3>1
    <2> QED BY <2>1, <2>5, <2>6
  <1>7. CASE WriteDone
    <2>1. /\ pc \in {"format", "save"} /\ NotWritten = {} /\ CrcNotWritten = {}
          /\ pc' = IF pc = "format" THEN "begin" ELSE "run"
          /\ UNCHANGED <<eeprom, cfg, build>>
          /\ Data' = Data /\ Sum' = Sum /\ Effective' = Effective
      BY <1>7 DEF WriteDone, Data, Sum, Effective, isEepromClear, epReadData
    <2>2. cfg \in Configurations
      BY <2>1
    <2>3. Data = cfg /\ Sum = Crc(cfg) /\ Whole
      BY <2>1, <2>2, Written
    <2>4. TypeOK' /\ Whole'
      BY <2>1, <2>3 DEF TypeOK, Whole
    <2>5. pc = "format" => cfg = Effective
      BY <2>3 DEF Effective
    <2> QED BY <2>1, <2>2, <2>4, <2>5
  <1>8. CASE Begin
    <2>1. /\ pc = "begin" /\ pc' = "run" /\ cfg' = AsStarted(cfg)
          /\ UNCHANGED <<eeprom, build>> /\ Data' = Data /\ Sum' = Sum
      BY <1>8 DEF Begin, Data, Sum
    <2>2. cfg' \in Configurations /\ TypeOK'
      BY <2>1, ConfigurationsAssumption DEF TypeOK
    <2> QED BY <2>1, <2>2 DEF Whole, Blank
  <1>9. CASE cmd1_DoIt \/ cmd2_DoIt \/ Set \/ save_h \/ default_h
    <2>1. /\ pc = "run" /\ pc' \in {"run", "save", "wipe"}
          /\ UNCHANGED <<eeprom, build>> /\ Data' = Data /\ Sum' = Sum
      BY <1>9 DEF cmd1_DoIt, cmd2_DoIt, Set, save_h, default_h, Data, Sum
    <2>2. cfg' \in Configurations
      BY <1>9, <2>1, ConfigurationsAssumption
         DEF cmd1_DoIt, cmd2_DoIt, Set, save_h, default_h
    <2>3. (Whole \/ Blank)' /\ TypeOK'
      BY <2>1, <2>2, ConfigurationsAssumption DEF TypeOK, Whole, Blank
    <2> QED BY <2>1, <2>2, <2>3 DEF Saving
  <1>10. CASE UNCHANGED vars
    BY <1>10 DEF vars, TypeOK, Image, Whole, Blank, Cut, Mixed, Summing, Data, Sum,
                 Rejected, Saving, Effective, isEepromClear, epReadData
  <1> QED BY <1>1, <1>2, <1>3, <1>4, <1>5, <1>6, <1>7, <1>8, <1>9, <1>10
          DEF Next, Firmware, PowerOff

THEOREM ImageInvariant == Spec => []IInv
  BY ImageInit, ImageStep, PTL DEF Spec

(* The type invariant of the configuration and its copy.                   *)
THEOREM TypeCorrect == Spec => []TypeOK
  <1>1. IInv => TypeOK
    BY DEF IInv
  <1> QED BY <1>1, ImageInvariant, PTL

-----------------------------------------------------------------------------
(* The refinement.                                                         *)
Running == pc \in {"run", "save", "wipe"}

LEMMA DownIsNone == Down \notin Configurations
  <1>1. Down[0] = 256
    BY DEF Down, Index, GPIB_CFG_SIZE
  <1>2. \A c \in Configurations : c[0] \in 0..255
    BY ConfigurationsAssumption DEF Index, Bytes, GPIB_CFG_SIZE
  <1> QED BY <1>1, <1>2

(* What a write in a save, and an erasure, make of the stored one.         *)
LEMMA StoredBySave ==
    ASSUME IInv, pc = "save", WriteByte
    PROVE  Effective' \in {cfg, DefaultCfg}
  <1>1. cfg \in Configurations /\ UNCHANGED cfg
    BY DEF IInv, WriteByte
  <1>2. \/ Blank' \/ Summing(cfg)'
        \/ \E old \in Configurations : Mixed(cfg, old)'
    BY <1>1, WriteStep DEF IInv, WriteByte
  <1>3. Blank' => Effective' = DefaultCfg
    BY DEF Blank, Effective, isEepromClear
  <1>4. Summing(cfg)' => Effective' \in {cfg, DefaultCfg}
    BY <1>1 DEF Summing, Effective
  <1>5. ASSUME NEW old \in Configurations, Mixed(cfg, old)'
        PROVE  Effective' \in {cfg, DefaultCfg}
    <2>1. PICK i \in Index : old[i] # cfg[i] /\ Data' = Torn(cfg, old, i)
      BY <1>1, <1>5 DEF Mixed
    <2>2. Sum' = Crc(old)
      BY <1>5 DEF Mixed
    <2>3. Crc(Data') = Crc(old) => Data' = cfg
      BY <1>1, <2>1, CrcTells
    <2> QED BY <2>2, <2>3 DEF Effective, epReadData
  <1> QED BY <1>2, <1>3, <1>4, <1>5

LEMMA StoredByErase ==
    ASSUME IInv, EraseByte
    PROVE  /\ pc = "erase" => Effective = DefaultCfg
           /\ Effective' = DefaultCfg
  <1>1. Whole \/ (Image /\ Rejected)
    BY DEF IInv, EraseByte, Image, Rejected, Cut
  <1>2. (Blank \/ Cut)'
    BY <1>1, EraseStep DEF IInv, EraseByte
  <1>3. Effective' = DefaultCfg
    BY <1>2 DEF Blank, Cut, Effective, isEepromClear, epReadData
  <1>4. Rejected => Effective = DefaultCfg
    BY DEF Rejected, Blank, Effective, isEepromClear, epReadData
  <1> QED BY <1>3, <1>4 DEF IInv

LEMMA StoreInit == Init => Store!Init
  <1> SUFFICES ASSUME Init PROVE Store!Init
    OBVIOUS
  <1>1. Blank
    BY DEF Init, Blank, Sum, Erased, Cells, EESTART, GPIB_CFG_SIZE
  <1> QED BY <1>1, EffectiveDefault DEF Init, Store!Init

LEMMA StoreStep ==
    ASSUME IInv, [Next]_vars
    PROVE  [Store!Next]_(Store!vars)
  <1>0. IInv' /\ DefaultCfg \in Configurations
    BY ImageStep, ConfigurationsAssumption
  <1>1. /\ Running => cfg \in Configurations /\ cfg # Down
        /\ Running' => cfg' \in Configurations
    BY <1>0, DownIsNone DEF IInv, Running
  <1>2. CASE UNCHANGED eeprom
    <2>1. Effective' = Effective
      BY <1>2 DEF Effective, isEepromClear, epReadData, Data, Sum
    <2>2. CASE ~Running /\ ~Running'
      BY <2>1, <2>2 DEF Running, Store!vars
    <2>3. CASE pc' = "off"
      BY <2>1, <2>3 DEF Store!Next, Store!PowerLoss
    <2>4. CASE Begin
      BY <2>1, <2>4 DEF IInv, Begin, Store!Next, Store!Start
    <2>5. CASE cmd1_DoIt \/ cmd2_DoIt \/ Set \/ save_h \/ default_h
      <3>1. /\ pc = "run" /\ pc' \in {"run", "save", "wipe"}
        BY <2>5 DEF cmd1_DoIt, cmd2_DoIt, Set, save_h, default_h
      <3> QED BY <1>1, <2>1, <3>1 DEF Running, Store!Next, Store!Adjust
    <2>6. CASE (EraseDone /\ pc = "wipe") \/ (WriteDone /\ pc = "save")
      <3>1. /\ pc \in {"save", "wipe"} /\ pc' = "run" /\ cfg' \in {cfg, DefaultCfg}
        BY <2>6 DEF EraseDone, WriteDone
      <3> QED BY <2>1, <3>1 DEF Store!Next, Store!Finish
    <2>7. CASE UNCHANGED vars
      BY <2>1, <2>7 DEF vars, Store!vars
    <2>8. ASSUME EraseByte \/ WriteByte PROVE UNCHANGED Store!vars
      BY <2>1, <2>8 DEF EraseByte, WriteByte, Store!vars
    <2>9. CASE PowerOn \/ Load
      BY <2>2, <2>9 DEF PowerOn, Load, Running
    <2>10. CASE (EraseDone /\ pc = "erase") \/ (WriteDone /\ pc = "format")
      BY <2>2, <2>10 DEF EraseDone, WriteDone, Running
    <2>11. /\ PowerOff => pc' = "off"
           /\ EraseDone => pc \in {"erase", "wipe"}
           /\ WriteDone => pc \in {"format", "save"}
      BY DEF PowerOff, EraseDone, WriteDone
    <2> QED BY <2>3, <2>4, <2>5, <2>6, <2>7, <2>8, <2>9, <2>10, <2>11 DEF Next, Firmware
  <1>3. CASE EraseByte
    <2>1. pc \in {"erase", "wipe"} /\ UNCHANGED <<pc, cfg>>
      BY <1>3 DEF EraseByte
    <2>2. /\ pc = "erase" => Effective = DefaultCfg
          /\ Effective' = DefaultCfg
      BY <1>3, StoredByErase
    <2> QED BY <2>1, <2>2 DEF Store!vars, Store!Next, Store!Lose
  <1>4. CASE WriteByte /\ pc = "save"
    <2>1. UNCHANGED <<pc, cfg>>
      BY <1>4 DEF WriteByte
    <2>2. Effective' \in {cfg, DefaultCfg}
      BY <1>4, StoredBySave
    <2> QED BY <1>4, <2>1, <2>2 DEF Store!Next, Store!Save, Store!Lose
  <1>5. CASE WriteByte /\ pc = "format"
    <2>1. UNCHANGED <<pc, cfg>>
      BY <1>5 DEF WriteByte
    <2>2. cfg = DefaultCfg /\ (Blank \/ Summing(cfg)) /\ (Blank \/ Summing(cfg))'
      BY <1>0, <1>5, <2>1 DEF IInv
    <2>3. Effective = DefaultCfg /\ Effective' = DefaultCfg
      BY <2>1, <2>2 DEF Blank, Summing, Effective, isEepromClear
    <2> QED BY <1>5, <2>1, <2>3 DEF Store!vars
  <1> QED BY <1>2, <1>3, <1>4, <1>5
          DEF Next, Firmware, vars, PowerOn, PowerOff, Load, EraseDone, WriteByte, WriteDone,
              Begin, cmd1_DoIt, cmd2_DoIt, Set, save_h, default_h

(* Power losses included, the adapter keeps its configuration as           *)
(* ConfigStore says: it is never a mixture of two, a start begins with it, *)
(* and only what was asked for changes it.                                 *)
THEOREM StoreImplemented == Spec => ImplementsStore
  <1>1. IInv /\ [Next]_vars => [Store!Next]_(Store!vars)
    BY StoreStep
  <1> QED BY <1>1, StoreInit, ImageInvariant, PTL DEF Spec, ImplementsStore, Store!Spec

(* A save that has come to its end is what the next start loads, unless    *)
(* the checksum is that of an erased EEPROM.                               *)
THEOREM SavedKept == Spec => SavedUnlessClear
  <1>1. ASSUME IInv, [Next]_vars
        PROVE  [pc = "save" /\ pc' = "run" => Effective = cfg \/ Crc(cfg) = Erased]_vars
    <2> SUFFICES ASSUME pc = "save", pc' = "run", Next
                 PROVE  Effective = cfg \/ Crc(cfg) = Erased
      BY <1>1 DEF vars
    <2>1. WriteDone
      BY DEF Next, Firmware, PowerOn, PowerOff, Load, EraseByte, EraseDone, WriteByte, Begin,
             cmd1_DoIt, cmd2_DoIt, Set, save_h, default_h
    <2>2. Data = cfg /\ Sum = Crc(cfg)
      BY <1>1, <2>1, Written DEF IInv, WriteDone
    <2> QED BY <2>2 DEF Effective, isEepromClear, epReadData
  <1> QED BY <1>1, ImageInvariant, PTL DEF Spec, SavedUnlessClear
=============================================================================
