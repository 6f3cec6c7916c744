------------------------------- MODULE Checksum -------------------------------
(***************************************************************************)
(* The Internet checksum as UIPEthernet.cpp computes it: the headers are in*)
(* uip_buf, what follows them is in the memory of the ENC28J60, and the sum*)
(* over the one is carried on over the other.  Octets are in 0 .. 255.     *)
(***************************************************************************)
EXTENDS Integers, SequencesExt

(* Addition in sixteen bits, the carry added again: of two words, by sum.  *)
AddCarry == [s \in 0 .. 2 * 65535 |-> IF s < 65536 THEN s ELSE (s % 65536) + 1]

(* The k-th word of the octets; a last odd octet is the upper half of one. *)
Word(data, k) == 256 * data[2 * k - 1] + (IF 2 * k <= Len(data) THEN data[2 * k] ELSE 0)
WordCount(data) == (Len(data) + 1) \div 2

(* UIPEthernetClass::chksum                                                *)
chksum(sum, data) ==
  LET upTo[k \in 0 .. WordCount(data)] == IF k = 0 THEN sum ELSE AddCarry[upTo[k - 1] + Word(data, k)]
  IN  upTo[WordCount(data)]

(* Enc28J60Network::chksum, of a block of packet memory: setReadPtr cuts   *)
(* the length to what the block has.                                       *)
ReadLen(block, pos, len) == IF pos + len > Len(block) THEN Len(block) - pos ELSE len

Bug_DropsOdd(sum, block, pos, len) ==
  chksum(sum, SubSeq(block, pos + 1, pos + 2 * (ReadLen(block, pos, len) \div 2)))

BlockChksum(sum, block, pos, len) == chksum(sum, SubSeq(block, pos + 1, pos + ReadLen(block, pos, len)))

UDP == 17
UDPHeader == 8

(* UIPEthernetClass::upper_layer_chksum of a UDP datagram, whose block in  *)
(* memory begins with the headers that uip_buf has a copy of.              *)
UpperLayerChksum(addresses, datagram) ==
  LET len == Len(datagram)
      inBuf == chksum(chksum(len + UDP, addresses), SubSeq(datagram, 1, UDPHeader))
      sum == IF UDPHeader < len THEN BlockChksum(inBuf, datagram, UDPHeader, len - UDPHeader) ELSE inBuf
  IN  IF sum = 0 THEN 65535 ELSE sum

(* uip_process, udp_input: a sender may leave the checksum out.            *)
Checks(addresses, datagram) ==
  \/ 256 * datagram[7] + datagram[8] = 0
  \/ UpperLayerChksum(addresses, datagram) = 65535

(* uip_process, udp_send: the checksum that goes into the header.          *)
UdpChecksum(addresses, datagram) ==
  LET sum == 65535 - UpperLayerChksum(addresses, datagram) IN IF sum = 0 THEN 65535 ELSE sum

(* What other hosts compute (RFC 768): the sum of all words, the address   *)
(* and length words included, is a multiple of 65535.                      *)
PlainSum(addresses, datagram) ==
  LET data == addresses \o datagram
      upTo[k \in 0 .. WordCount(data)] == IF k = 0 THEN Len(datagram) + UDP ELSE upTo[k - 1] + Word(data, k)
  IN  upTo[WordCount(data)]
PeerChecksum(addresses, datagram) == 65535 - (PlainSum(addresses, datagram) % 65535)
===============================================================================
