---------------------------------- MODULE Crc ----------------------------------
(***************************************************************************)
(* The checksums of OneWire.cpp, and the shift registers of the devices    *)
(* that compute the same.                                                  *)
(***************************************************************************)
EXTENDS Integers, Sequences, Bitwise
LOCAL INSTANCE SequencesExt

(* The loop over the bits of an octet: 8Ch for crc8 (the build without a   *)
(* table, and the devices), A001h for the 16 bits of other devices.        *)
ShiftedIn[poly \in Nat, crc \in Nat, octet \in Nat, n \in 0 .. 8] ==
  IF n = 0 THEN crc
  ELSE ShiftedIn[poly, IF (crc + octet) % 2 = 1 THEN (crc \div 2) ^^ poly ELSE crc \div 2, octet \div 2, n - 1]
crc8Direct(octets) == FoldLeft(LAMBDA crc, o : ShiftedIn[140, crc, o, 8], 0, octets)
Crc16Sent(octets) == FoldLeft(LAMBDA crc, o : ShiftedIn[40961, crc, o, 8], 0, octets)

dscrc_table == <<
  0, 94, 188, 226, 97, 63, 221, 131, 194, 156, 126, 32, 163, 253, 31, 65,
  157, 195, 33, 127, 252, 162, 64, 30, 95, 1, 227, 189, 62, 96, 130, 220,
  35, 125, 159, 193, 66, 28, 254, 160, 225, 191, 93, 3, 128, 222, 60, 98,
  190, 224, 2, 92, 223, 129, 99, 61, 124, 34, 192, 158, 29, 67, 161, 255,
  70, 24, 250, 164, 39, 121, 155, 197, 132, 218, 56, 102, 229, 187, 89, 7,
  219, 133, 103, 57, 186, 228, 6, 88, 25, 71, 165, 251, 120, 38, 196, 154,
  101, 59, 217, 135, 4, 90, 184, 230, 167, 249, 27, 69, 198, 152, 122, 36,
  248, 166, 68, 26, 153, 199, 37, 123, 58, 100, 134, 216, 91, 5, 231, 185,
  140, 210, 48, 110, 237, 179, 81, 15, 78, 16, 242, 172, 47, 113, 147, 205,
  17, 79, 173, 243, 112, 46, 204, 146, 211, 141, 111, 49, 178, 236, 14, 80,
  175, 241, 19, 77, 206, 144, 114, 44, 109, 51, 209, 143, 12, 82, 176, 238,
  50, 108, 142, 208, 83, 13, 239, 177, 240, 174, 76, 18, 145, 207, 45, 115,
  202, 148, 118, 40, 171, 245, 23, 73, 8, 86, 180, 234, 105, 55, 213, 139,
  87, 9, 235, 181, 54, 104, 138, 212, 149, 203, 41, 119, 244, 170, 72, 22,
  233, 183, 85, 11, 136, 214, 52, 106, 43, 117, 151, 201, 74, 20, 246, 168,
  116, 42, 200, 150, 21, 75, 169, 247, 182, 232, 10, 84, 215, 137, 107, 53>>
crc8(octets) == FoldLeft(LAMBDA crc, o : dscrc_table[(crc ^^ o) + 1], 0, octets)

oddparity == <<0, 1, 1, 0, 1, 0, 0, 1, 1, 0, 0, 1, 0, 1, 1, 0>>
Parity(cdata) == (oddparity[(cdata % 16) + 1] + oddparity[(cdata \div 16) + 1]) % 2
crc16Octet(crc, octet) ==
  LET cdata == (octet ^^ crc) % 256
  IN  ((((crc \div 256) ^^ (49153 * Parity(cdata))) ^^ (64 * cdata)) ^^ (128 * cdata))
crc16(octets) == FoldLeft(crc16Octet, 0, octets)

(* The device sends its sum inverted, the low octet first.                 *)
check_crc16(octets, inverted) ==
  \E crc \in {65535 - crc16(octets)} : inverted = <<crc % 256, crc \div 256>>
===============================================================================
