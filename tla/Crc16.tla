------------------------------- MODULE Crc16 -------------------------------
(***************************************************************************)
(* The checksum over the stored configuration (AR488_Eeprom.cpp).  A 16    *)
(* bit number is the pair of its high and its low byte.                    *)
(***************************************************************************)
EXTENDS Integers, Sequences, Bitwise

XorByte == [a \in 0..255 |-> [b \in 0..255 |-> a ^^ b]]

(* What a byte adds, for each value t of "crc >> 8 ^ bytes[idx]": after    *)
(* "x ^= x>>4", the bytes of (x << 12) ^ (x << 5) ^ x, less what the       *)
(* shifts push out of 16 bits.  (SubSeq, to have the table computed once.) *)
Feedback == SubSeq([i \in 1..256 |->
    LET t == i - 1
        x == XorByte[t][t \div 16]
    IN  <<XorByte[(x * 16) % 256][x \div 8], XorByte[(x * 32) % 256][x]>>], 1, 256)

(* One turn of the loop: the checksum so far, and the next byte.           *)
Turn == [crc \in (0..255) \X (0..255), byte \in 0..255 |->
    LET add == Feedback[XorByte[crc[1]][byte] + 1]
    IN  <<XorByte[crc[2]][add[1]], add[2]>>]

(* getCRC16 of the bytes numbered 0 to last.                               *)
getCRC16(bytes, last) ==
    LET crc[i \in -1..last] == IF i = -1 THEN <<255, 255>> ELSE Turn[crc[i - 1], bytes[i]]
        sum == crc[last]
    IN  [hi |-> sum[1], lo |-> sum[2]]
=============================================================================
