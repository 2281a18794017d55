--------------------------- MODULE MCEepromConfig ---------------------------
(* The configurations for the model-checking runs of EepromConfig.         *)
EXTENDS EepromConfig, Crc16

MCCrc(c) == getCRC16(c, GPIB_CFG_SIZE - 1)

Dhcp == <<0, 0, 0, 0>>
(* With instrument 28 its checksum is that of an erased EEPROM.            *)
Unlucky == <<192, 168, 1, 204>>
TwoIps == {<<10, 0, 0, 7>>, Unlucky}
SomeNumbers == {28, 31, 284}
BothBuilds == {"VXI11", "PROLOGIX"}

Setting(b, i, v) == [build |-> b, at |-> i, to |-> v]
(* The address of the instrument in use, and ++auto 1.                     *)
InUse == {Setting("VXI11", paddr, 2), Setting("PROLOGIX", 8, 1)}

AllConfigurations ==
    {[WithIp(DefaultCfg, a) EXCEPT ![caddr] = n, ![paddr] = p, ![8] = m] :
        a \in TwoIps \cup {Dhcp}, n \in {0, 28}, p \in {1, 2, 255}, m \in {0, 1}}
=============================================================================
