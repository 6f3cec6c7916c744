------------------------------- MODULE IpInput -------------------------------
(***************************************************************************)
(* The start of uip_process for a packet that has come in: which packets   *)
(* are for us and sound, and the answer to an ICMP echo request, which is  *)
(* made of the request in place.  Checksums are words as they lie in memory*)
(* (UIP_LITTLE_ENDIAN: the octets of a word are swapped).                  *)
(***************************************************************************)
EXTENDS Integers

VersionAndLength == 69   \* 0x45
UIP_PROTO_ICMP == 1
ICMP_ECHO == 8
ICMP_ECHO_REPLY == 0
UIP_BUFSIZE == 98

(* A packet of the given length as uIP wants it.                           *)
Sound(p) ==
  /\ p.vhl = VersionAndLength
  /\ p.total <= p.len     \* longer than it says: padded
  /\ ~p.fragment          \* without UIP_REASSEMBLY
  /\ p.checksumOk

(* To our address, or to anybody while we have none.                       *)
ForUs(p, hostaddr, none) == hostaddr \in {none, p.dest}

IsEchoRequest(p) == p.proto = UIP_PROTO_ICMP /\ p.type = ICMP_ECHO

Answered(p, hostaddr, none) == Sound(p) /\ ForUs(p, hostaddr, none) /\ IsEchoRequest(p)

Swapped(word) == (word % 256) * 256 + word \div 256
Word16(n) == n % 65536

(* HTONS(ICMP_ECHO << 8)                                                   *)
EchoWord == Swapped(ICMP_ECHO * 256)

(* The first word of the message has become ICMP_ECHO << 8 less: so much   *)
(* is added to the checksum, in one's complement.                          *)
ReplyChecksum(chksum) ==
  IF chksum >= Swapped(65535 - ICMP_ECHO * 256) THEN Word16(chksum + EchoWord + 1) ELSE Word16(chksum + EchoWord)

(* The packet that is sent.  tick has read no more than UIP_BUFSIZE octets *)
(* of the frame: what lies behind the buffer takes the place of the rest.  *)
EthHeader == 14
EchoReply(p) ==
  [p EXCEPT !.type = ICMP_ECHO_REPLY, !.chk = ReplyChecksum(@), !.dataOk = @ /\ EthHeader + p.total <= UIP_BUFSIZE]

(* Two checksums, one of a request and one of its reply, verify alike if   *)
(* they differ, in one's complement, by what the type has lost.            *)
Agree(request, reply) == (reply - request - EchoWord) % 65535 = 0
===============================================================================
