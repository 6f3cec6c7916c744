-------------------------- MODULE MCDallasTemperature --------------------------
(* Two thermometers, the second without a supply of its own: two DS18B20,  *)
(* or a DS18S20 and one.                                                   *)
EXTENDS DallasTemperature
CONSTANTS d1, d2

C == INSTANCE Crc
MCCrc8(octets) == C!crc8(octets)
MCCheckCrc16(octets, inverted) == C!check_crc16(octets, inverted)
MCSensorCrc(octets) == C!crc8Direct(octets)
MCSwitchCrc(octets) == 65535 - C!Crc16Sent(octets)

MCSensors == <<d1, d2>>
MCModels ==
  {[d \in {d1, d2} |-> DS18B20]}
  \union {[d \in {d1, d2} |-> IF d = other THEN DS18S20 ELSE DS18B20] : other \in {d1, d2}}
MCTemperatures == {27 * 16 + 7, -22}
MCLows == {-60}
MCCuts == {4, 6}
MCFlips == {<<1, 0>>, <<2, 7>>, <<6, 3>>}

ASSUME ChecksumsCatch
===============================================================================
