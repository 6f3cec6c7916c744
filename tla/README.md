# Verification of electronicLibs

TLA+ models, TLC runs and TLAPS proofs of the libraries in `src/Arduino Libs & Drivers/libraries`. Paths below are
relative to that directory; `uip/` stands for `arduino_uip-master/`. The modules are in this directory. `tlc -config X.cfg M`
repeats a run, `tlapm M_proofs.tla` a proof; `PROJECT.json` says for each definition which lines of the source it
stands for.

## 1. The system

The repository is a collection of Arduino libraries. They share no state with each other; what is hard in each of them
is inside the library.

| Component | State | Operations | Interacts with |
|---|---|---|---|
| Packet memory, `uip/utility/mempool.cpp` | a table of descriptors `blocks[]` chained in a list | `allocBlock` (best fit, else compaction), `freeBlock`, `resizeBlock` | called by all of UIPEthernet; calls the ENC28J60 driver to move bytes |
| ENC28J60 transmit memory, `uip/utility/Enc28J60Network.cpp` | the bytes behind the descriptors, in the controller | `writePacket`, `copyPacket`, `sendPacket`, the move callback of the compaction | packet memory; DMA of the controller |
| ENC28J60 registers, same file | which bank is selected, which registers are set, the PHY access in progress | `init`, `sendPacket`, `powerOff`, `powerOn`, `linkStatus` | the controller, which a reset changes behind the library's back |
| ENC28J60 receive ring, same file | `nextPacketPtr`, `receivePkt`, the controller's `ERXRDPT` and packet counter | `receivePacket`, `setERXRDPT`, `freePacket`, `copyPacket` | the controller writes frames at any time |
| Main loop, `uip/UIPEthernet.cpp` | `in_packet`, `uip_packet`, `packetstate`, `periodic_timer` | `tick`, `network_send`, `maintain` | called by every operation of the sketch; calls the ring, uIP, UDP |
| uIP TCP, `uip/utility/uip.c` | `uip_conns[]`: state, sequence numbers, `len`, `nrtx` | `uip_process` for a segment, the timer, a poll; `uip_connect`, `uip_listen` | calls `uipclient_appcall` in the middle of a step |
| IP input and ICMP, `uip/utility/uip.c` | none beside the packet | the checks of an arriving packet, the answer to a ping | in front of TCP and UDP |
| TCP sockets, `uip/UIPClient.cpp`, `UIPServer.cpp` | the slots `all_data[]`: handles of blocks read and to be sent, flags | `connect`, `write`, `read`, `stop`, `available`, `uipclient_appcall` | the sketch on one side, uIP on the other; packet memory |
| UDP sockets, `uip/UIPUdp.cpp` | one packet in, the next one, one out | `begin`, `beginPacket`, `endPacket`, `parsePacket`, `read`, `uipudp_appcall` | uIP, packet memory |
| DHCP, `uip/Dhcp.cpp` | lease, state, timers T1, T2, expiry | `beginWithDHCP`, `checkLease` | a UDP socket, `maintain` |
| DNS, `uip/Dns.cpp`, and checksums | one request | `getHostByName` | a UDP socket |
| ARP, `uip/utility/uip_arp.c` | a table of addresses with ages | `uip_arp_ipin`, `uip_arp_arpin`, `uip_arp_out`, `uip_arp_timer` | every frame that goes in or out |
| ArduinoThread | the threads' times, the controller's slots, `cached_size` | `add`, `remove`, `clear`, `run`, `shouldRun`, `runned` | the sketch, callbacks, a timer interrupt |
| OneWire search, `OneWire/OneWire.cpp` | `ROM_NO`, `LastDiscrepancy`, `LastDeviceFlag`, ... | `search`, `reset_search`, `target_search` | devices on the wire, which come and go |
| DallasTemperature, alarms | `alarmSearchAddress`, `-Junction`, `-Exhausted` | `alarmSearch`, `hasAlarm`, `processAlarms` | devices, the alarm handler |
| DallasTemperature, conversions | `bitResolution`, `parasite`, `waitForConversion`; scratch pad and EEPROM of each device | `begin`, `requestTemperatures`, `getTemp`, `setResolution`, alarm limits, ... | OneWire; devices that come and go |
| RTClib | the registers and memories of four chips, `RTC_Millis::offset` | `begin`, `adjust`, `now`, `isrunning`, RAM, EEPROM, charger, calibration; dates | I2C clock chips |
| ShiftRegister595, debug output, PIC headers, sketches | outputs | straight-line I/O | pins |

What is hard, and what each component owes:

* **Packet memory.** Thousands of legal calls may come before a block overlaps another; the symptom is a corrupted
  packet of some other connection. Blocks must stay apart, the loops must end, and memory must be found when it is there.
* **Transmit memory.** Bytes are moved under the feet of their owners by the compaction, and a control byte is borrowed
  from the neighbour of a frame that is sent. A handle has to stand for its own bytes all the time.
* **Receive ring.** Two parties move pointers in one ring. No frame may be overwritten, skipped, seen twice, or leaked.
* **TCP.** A slot has a life of its own beside its connection: data that is not read yet outlives the connection, blocks
  wait for acknowledgements while the sketch appends to them, the connection is stopped and restarted as handles run
  out, hosts retransmit, fall silent, close or reset. Streams must arrive intact in both directions, and handles,
  slots and connections must be given back.
* **ArduinoThread.** `run()` trusts `cached_size`, which callbacks change and which an interrupt may find out of date.
* **Searches.** They keep state between calls while the set of devices changes between and during the calls.
* **UDP, ARP.** Datagrams arrive between any two calls of a sketch that reads one and writes another over the same
  connection; a datagram waits in memory for the answer to an ARP request while the table forgets entries by age.
* **DHCP.** Requests block, are given up, and are answered late, by two servers over one socket; three timers run on
  the differences between irregular calls.
* **DNS.** Octets are parsed as they come, from whoever sends them; the sum is verified over two halves in two places.
* **Registers and chips.** An operation is several transfers. A reset of controller or processor between two of them
  leaves the device in a state that no call meant, and settings share a register that is read, changed and written.
* **Thermometers.** The library remembers resolutions that devices may not have, waits by what it remembers, and
  talks to devices that leave the bus in the middle.

## 2. Modules

A module models a component or what it promises; `MC*` modules give values for TLC, and `*_proofs` modules hold
theorems. An action is a whole call or handler where nothing can come between its parts, and one of its steps
(an iteration, a transaction, an access) where something can, or where the end of a loop is the question.

**MemoryPool** (`mempool.cpp`). An action is one iteration of one of the loops, so that their order and end are part
of the model: `AllocBlock` starts a call, `ScanExact`/`ScanNext` walk for the best fit, `CollectMove`/`CollectDone`/
`CollectFail` compact, `Place`/`NoDescriptor` take a descriptor, `FreeBlock`/`FreeNext`/`Unlink`/`FreeNotFound` free,
`NarrowBlock` narrows. `owned` is what callers know: handles they have got and not freed. Callers ask for at least one byte
and narrow only blocks they own.

**PacketStore** extends it with the bytes. The step of the compaction moves them as the callback does; `sendPacket`
saves, clears and restores the byte in front of a frame. **BlockStore** is the promise: a handle is a block of its
own, with no addresses; `KeepsBlocks` says that PacketStore implements it under the mapping `store`.

**RxRing** (`Enc28J60Network.cpp`, `tick`). `FrameArrives` is the controller, written from the driver's use of it and its
registers; the library's steps are `ReadHeader`, `DecrementCount`, `DiscardFrame`, `CopyReceived`, `FreePacket`,
`KeepPacket`, `CopyFromPool`, with frames arriving between any two of them.

**Enc28J60Control** (same file). A call (`init`, `receivePacket`, `copyPacket`, `sendPacket`, `powerOff`, `linkStatus`, ...) is the list of
its accesses to registers, those behind `readByte` and `writeByte` included, and one action makes the next. The controller has a bank selected; the library remembers
one in a static variable, which a soft reset does not change. The PHY is reached through `MIREGADR`, `MICMD` and `MISTAT`, and takes its time
(`PhyDone`) while the link goes up and down.

**IpInput** (`uip.c`) holds operators: which packets pass the checks at the start of `uip_process`, and the reply made of an
echo request in place, with its corrected checksum as a 16-bit word. **Checksum** is `chksum` over octets in two
places (the packet buffer and the controller's memory), the pseudo header, and what `uip_process` does with the sum of a datagram.

**UIPClient, UipTcp, TcpPeer.** `UIPClient` is a library of operators: what `uipclient_appcall`, `write`, `read` and
`stop` do to a slot, in the code's order (attach, new data, restart, closed or acknowledged, offer or close). `UipTcp` is the state
machine: `Input` is `uip_process` for the kept packet or a frame from the network, one disjunct per state of the
connection; `Timer` is the walk of `tick` over the connections; the sketch's calls are the rest. A step contains the
whole of `uip_process` with the call of the application inside it and the segment that leaves. `TcpPeer` is external:
hosts that keep to TCP with one segment on its way at a time (what `UIP_RECEIVE_WINDOW` of one segment makes them do), and
a network that loses, repeats and reorders. A block of packet memory is one unit here, and
MemoryPool's `FailsOnlyWhenFull` is the reason why counting is enough. A poll may come at any tick, and a retransmission
timer run out at any tick, whatever the estimate of the round trip. ARP is a loss of the segment that it
replaces.

**ArpTable** (`uip_arp.c`) is the table with its use of ages for eviction, what is learned from IP and ARP packets, and where a frame for an
address goes. **UIPUdp** (`UIPUdp.cpp`, the UDP part of `uip.c`) puts sockets, connections, the table and the packet memory
together: `Begin`, `Stop`, `BeginPacket`, `Write`, `EndPacket`, `ParsePacket`, `Read` and `Flush` are the sketch's calls; a
tick is taken apart into `UdpIn`, `ArpIn`, `Answer`, `PacketIn` (what arrives) and `Periodic` (the poll of one connection, which calls
`uipudp_appcall`). A datagram is who it is from and how much of it is unread; a datagram to be sent remembers
whom `beginPacket` named (`meant`), which the code does not.

**Dhcp** (`Dhcp.cpp`, `maintain`). One action is one turn of the loop of `request_DHCP_lease`. Every message the client has sent stays in
`asked`, and a server may answer any of them, at any time, again or never. Between calls of `maintain` time passes in
units of half a second, so that remainders matter. The ids of a call (`Begins`) are never those of an earlier one whose messages may still be answered; the code draws a first id
with `random(1, 2000)` (`Dhcp.cpp:41`) and counts up from it, which makes this likely and no more. With the same ids a late answer would pass for a new one.

**Dns** (`Dns.cpp`). `BuildRequest` and `ProcessResponse` read and write octets; the name server's side
(`Answers`) is written the other way round, so that a lookup is right or wrong from end to end. Octets change on the wire; late answers and
datagrams of strangers get into the socket. Left out are two checks: that a server is set at all (`Dns.cpp:129`), which is taken for granted, and that the message came from it (270), which
is asked of the socket's connection and cannot fail after `beginPacket` has set its remote end.

**DateTime** and **RealTimeClock** (`RTClib`). A call is the list of its I2C transactions, and the processor may be reset
between two of them; chips run on, until their battery fails too. After a reset (`Crash`) a setting counts as made if the chip holds it, and otherwise what counts is what was wanted
`before` the call, so that a chip with neither shows in `MemoryKept`. A transaction is sent as a whole or not at all. Registers are octets in BCD with flag bits. In
**DallasTemperature** a call is the list of its bus transactions, devices come, go and are reset between them (`Attach`, `Detach`, `Restart`), and octets are cut off or flipped on
the wire while they are read. The `max` of `begin` is Arduino's macro, which evaluates its second argument twice: `Compare` is the first evaluation, and where that is not below `bitResolution`, the device is
read once more and `Store` takes over what the second evaluation says, the 0 of a failure too. A search that goes on after somebody came or went may end early, pass devices over, or give one again, as often as
there were such changes (`Following`); no property depends on which. Of a device `wanted` is what the sketch has set since it got its power, `told` what it has set at all, and `known` whether the library
knows its resolution: it knows none after `Store` has stored 0, until it asks again. The two checksums are constants there (`Crc8`, `CheckCrc16`, and what the devices send), to which `MCDallasTemperature` gives
those of **Crc**, the routines of `OneWire.cpp` bit by bit; what the proofs need of them is `ChecksumsCatch`.

**ThreadController** (`Thread.cpp`, `ThreadController.cpp`). `Begin`, one step per slot, `Finish`; `Add`, `Remove` and
`Clear` in two steps, with `cached_size` set in the second (`FinishEdit`), between which a timer interrupt may run the controller.

**OneWireBus** is what a master reads when several devices answer; **RomSearch** and **AlarmSearch** are the two searches, one
action per pair of bits read and bit written, with devices that come and go at any time. **Searches** has both, over the same addresses.

### Composition

    BlockStore  <=  PacketStore --- MemoryPool        OneWireBus
    (promise)       (bytes)         (descriptors)       |-- RomSearch   --.
                                                        |-- AlarmSearch --+-- Searches
    TcpPeer --- UipTcp --- UIPClient
                                                      DallasTemperature --- MCDallasTemperature --- Crc
    UIPUdp --- ArpTable
      |------- IpInput                                RealTimeClock --- DateTime

    Dns --- Checksum       Dhcp                       RxRing          --.
                                                      Enc28J60Control --+-- MCEnc28J60
    ThreadController

`Searches` and `MCEnc28J60` put two modules side by side that share no state; the runs take one at a time.
Dhcp and Dns see a UDP socket as UIPUdp has it: one unread datagram, heard only from the first sender.

## 3. Runs

| Run | Instance | What it shows |
|---|---|---|
| memory | 3 descriptors, 4 bytes, requests of 1 and 2, bytes 0 and 1 | `NoOverlap`; `KeepsBlocks`, the refinement of BlockStore; an allocation fails only when descriptors or bytes are really used up (`FailsOnlyWhenFull`); each call returns (`CallsReturn`) |
| enc28j60 | ring of 32 bytes, 6 frames of length 2 and 5; all sequences of calls on the registers | nothing unread is overwritten (`UnreadKept`), order and no leak (`RingSound`), `EveryFrameTaken`; every access reaches its register (`ReachesRegister`), frames are received only when all is set up (`ConfiguredFirst`) |
| tcp_stream | 1 connection, 3 bytes and a FIN from the host, 2 bytes from the sketch, 2 handles each way, blocks of 2 bytes, 5 blocks, 1 retransmission, 2 connections one after the other, 1 segment under way each way | `ReadsStream`, `WritesStream`, `CloseDelivers`, `BlocksKept`, `Resolves` |
| tcp_hosts | 1 connection, a host that connects and one that is connected to and may reset, no data | `ConnectEnds`, `ConnectionsEnd` |
| udp | 1 socket, 1 connection, table of 2 entries, 3 hosts of which 2 are local, 2 cards, 3 blocks, datagrams of up to 1 octet, 2 arrivals unasked, 10 other packets of which 3 are pings | `FramesRight` (end, card, ping), `RemoteIsSender`, `BlocksKept`, `PendingSent` |
| dhcp | 2 servers, leases of 4 s with T1 absent and T2 of 3 s, 2 units in a second, calls up to 3 units apart, 4 message ids | `LeaseAgreed`, `RenewsOnTime`, `RequestsGoOn` |
| dns | names "ab" and "ba.a", address "7.10.0.255", 2 ids, 1 late request, 2 ways to damage an octet | `AnswersAsked`, `TakesWhole`, `LookupsAnswered` |
| rtc | each of the four chips, `RTC_Millis` or none; dates at the ends of a day, a year, a century and February; 2366 first dates with steps of a second and a day | `TimeTrusted`, `MemoryKept`, `NeverStartsHigh`, `DatesFollow` |
| thermometers | 2 sensors, one on parasitic power, both DS18B20 or either a DS18S20, 3 calls, 1 fault: an octet cut off or flipped, or a device that comes, goes or is reset | `FreshReading`, `ReadingsAgree`, `SettingsStay` |
| thread_controller | 3 threads, 2 slots, longs of 4 bits, clock 0 and 1, one edit by callbacks in a run | every thread that is due runs (`RunsAllDue`, `DueThreadRuns`), the slots are sound (`SlotsSound`) |
| searches | 5 devices with addresses of 5 bits, 2 of which are the family code (3 devices of one family, 2 alone); 4 of them know alarms | no address is made up, each device once and all of them (`Enumerates`), targeted searches find their family (`TargetFound`); `AllHandled`, `ProcessEnds` for alarms |

One run states what the repository says and TLC refutes it:

| Run | Property | What the code does |
|---|---|---|
| tcp_lost_data | `ReadsStream` with 2 blocks of memory | data that finds no block is kept for the next tick after its acknowledgement number has been counted; the next tick takes it for a duplicate, and the sketch reads bytes 1 and 3. `README.md` of `uip/` promises streaming connections |

Why the bounds are enough.

* *memory.* Three descriptors are a list with a first, a middle and a last block, each of which may be narrowed, freed or moved;
  4 bytes and requests of 1 and 2 give gaps too small, equal and too large, and gaps that only compaction joins.
* *enc28j60.* The ring holds two or three frames, so that six frames go round it with the header in every position at the wrap. The
  registers have no bound: all sequences of calls are reached.
* *tcp.* Two handles are the smallest number with a last one, at which the connection is stopped, and another;
  three bytes fill both and leave one that has to wait for the restart; two bytes written fit one block or are spread over two, one filled
  while the other is under way; two connections show what is left over in slot and connection; with one retransmission every timer runs
  out both ways. `Capacity = 1` means that a new segment can replace one that is under way (loss, delay); duplicates
  come from retransmission. In `tcp_stream` five blocks are what slots and one outgoing frame can ever need: the pool does not run out, and
  what happens when it does is `tcp_lost_data`. Hosts do not reset in `tcp_stream`, for the reason given in section 6.
* *udp.* Two local hosts and a far one behind a router that is one of them, over a table of two entries, make each evict another; a
  datagram being read, one behind it and one to be sent fill three blocks, so that all three allocations also fail. A datagram of
  one octet is unread, or read. The theorems of section 5 remove these bounds from the three safety properties.
* *dhcp.* A lease of 4 seconds with T2 at 3 has its three timers in different seconds; calls up to 1.5 seconds apart come late, early and with a remainder.
  Two servers and four ids allow an answer to a request that was given up, from either, next to one that counts.
* *dns.* A name of one label, one of two, and an address; names that are written out and as pointers; records in front of the address;
  datagrams of even and odd length; ids that agree and do not.
* *rtc.* Each carry of the calendar lies one second or one day behind one of the dates; `Rollover = 6` lets `millis()` start anew.
* *thermometers.* Two devices differ in family, either first, and in power; three calls are a change, what undoes or meets it, and a reading, or a `begin` that finds
  a fine resolution, one whose second reading of it fails, and a request that then waits for a coarse one. One fault can fall between the read and the write of a setter: a reset there brings old settings back.
* *thread_controller, searches.* Three threads for two slots: the array is full, and a thread is turned away. Searches need devices that part at
  the first, at a middle and at the last free bit, with the checksum as the bit that always differs too.

`MaxRtx`, `MaxSynRtx`, `MaxWrites`, `MaxOpens`, `PeerBytes`, `MaxFrames`, `MaxTime`, `MaxEdits`, `MaxArrivals`, `MaxLen`, `MaxXid`, `MaxAge`, `MaxGap`, `Limit`,
`MaxLate`, `MaxTicks`, `MaxCalls` and `MaxFaults` bound what would otherwise grow. Deadlock is not checked in `rtc` and `thermometers`, where the sketch
may run out of calls.

What some runs take for granted, each with its reason:

* `thread_controller` sets `NullReads = {}`: `remove` reads `ThreadID` through every pointer in front of the one it looks for, NULL too, and what
  is there is assumed to be no ID of a thread. With another value `SlotsSound` fails.
* `udp` sets `Overlapping = FALSE`: no tick between `beginPacket` and `endPacket`, as in the examples, and no new destination while a datagram waits for ARP.
  With `TRUE`, `FramesRight` fails (section 6). Pings fit into the packet buffer (`PingsFit`, which `MCUIPUdp` evaluates).
* `ProcessEnds`, `AllHandled` and the second half of `Enumerates` speak of searches during which no device comes or goes, and of buses
  on which no family code is 0; that no address is made up has no such condition.

## 4. Fairness

* MemoryPool: `WF(Step)`. A call of the allocator runs to its end, nothing interrupts it.
* RxRing: `WF` of `ReadHeader`, `DecrementCount` and `DiscardFrame`. Every function the sketch calls ticks, and `receivePacket` runs to its
  end. That a packet held by `tick` is let go is not assumed but a premise of `EveryFrameTaken`.
* UipTcp: `WF(Timer(i))`, since `tick` walks over all connections each period; `WF` of the sketch's own loops in
  `connect` and `write`. Nothing is assumed of hosts, of the network, or of the sketch calling `read` or `stop`.
* UIPUdp: `SF(Periodic(s))`, since every function of a socket ticks and the sketch keeps calling, also between one datagram and the next;
  `WF` of `EndPacket` for a datagram that was begun; `SF` of each host's answer, which says that a host which is asked again and again answers once. `PendingSent`
  leaves out an execution in which the memory is full again and again, since then a datagram may never get its frame.
* Dhcp: `WF` of a turn of the loop, `SF` that time passes in some turn, `WF` of calls of `maintain`. Nothing is assumed of servers.
* Dns: `WF` of sending and of waiting: the loop reads the clock in each turn. Nothing is assumed of servers.
* ThreadController: `SF(Begin("loop"))`, since the sketch's loop calls `run()` again and again and an interrupt may be running it each time
  one looks; `WF` of the steps of a run and of an edit in progress.
* AlarmSearch: `WF(Search \/ HandlerCalled)`: calls return to the loop of `processAlarms`, the handler returns.

RomSearch, the registers, RealTimeClock and DallasTemperature have no liveness property and no fairness.

## 5. Proofs

| Module | Theorem | For every |
|---|---|---|
| Enc28J60_proofs | `TypeCorrect`: `Spec => []TypeOK` | number of descriptors, size and start of the pool, set of requests of at least 1 |
| | `BlocksApart`: `Spec => []NoOverlap` | the same |
| | `StoreImplements`: `StoreSpec => KeepsBlocks` | in addition every set of bytes with 0 |
| | `UnreadStaysWhole`: `Spec => []UnreadKept` | even size of the ring, set of frame lengths, number of frames |
| | `RingStaysSound`: `Spec => []RingSound` | the same |
| UipTcp_proofs | `SlotsInOrder`: `Spec => []SlotInv` | number of connections, handles, blocks, length of a block, hosts, bytes and times they send, retransmissions |
| | `NoBlockLost`: `Spec => BlocksKept` | the same |
| | `StreamsAgree`: `Spec => []StreamInv` | the same, with `Resets = {}` |
| | `HostsGetWhatIsWritten`: `Spec => []WritesStream` | the same, with `Resets = {}` |
| | `CloseWaitsForAll`: `Spec => []CloseDelivers` | the same, with `Resets = {}` |
| | `ReadsInOrder`: `Spec /\ []HasRoom => []ReadsStream` | the same, with `Resets = {}` and one connection |
| | `EnoughMemoryReadsInOrder`: `Spec /\ [][\A s \in Conns : ~Reused(s)]_vars => []ReadsStream` | the same, with `Resets = {}`, one connection and `Blocks >= 2 * NumPackets` |
| UIPUdp_proofs | `BlocksAreKept`: `Spec => []BlocksKept` | number of sockets, connections, blocks, hosts, cards, entries of the table |
| | `RemoteIsTheSender`: `Spec => []RemoteIsSender` | the same |
| | `FramesAreRight`: `~Overlapping /\ PingsFit => (Spec => []FramesRight)` | the same, and all packets that may arrive |
| | `ReplyChecksumAgrees` | 16-bit checksum of a request |
| Dhcp_proofs | `LeaseIsGranted`: `Spec => []LeaseAgreed` | set of servers, of options, number of ids and timeouts |
| | `RenewalsInTime`: `Spec => RenewsOnTime` | set of options, lengths of a second and of the gaps between calls |
| ThreadController_proofs | `SlotsAreSound`: `NullReads = {} => (Spec => []SlotsSound)` | number of slots and threads, width of a long, bound on edits |
| | `AllDueAreRun`: `Spec => []RunsAllDue` | the same, with `NullReads = {}`, `MaxEdits <= 1` and a clock that does not start anew (`MaxTime < Longs`) |
| OneWire_proofs | `SearchEnumerates`: `Spec => Enumerates` | set of addresses, number of bits of an address and of its family code |
| | `TargetIsFound`: `Spec => TargetFound` | the same |
| | `AlarmsAreHandled`: `Alarm!Spec => AllHandled` | set of addresses and of the devices that know alarms, number of bits of an address |
| | `SettingsStaySafe`: `ChecksumsCatch => (ThermSpec => []SettingsStay)` | set of sensors, models, power supplies, temperatures, limits, resolutions, damages, number of calls and faults, and checksums |
| | `ReadingsAgreeSafe`: `ChecksumsCatch => (ThermSpec => []ReadingsAgree)` | the same |
| | `FreshReadingSafe`: `ChecksumsCatch /\ ~Finer => (ThermSpec => FreshReading)` | the same |
| Dns_proofs | `LookupsAreRight`: `MessagesRight => (Spec => []AnswersAsked)` | names and addresses, ports, ids, strangers, sections, damages, number of late requests |
| RealTimeClock_proofs | `ClocksAreTrusted`: `ThisCentury => (Spec => []TimeTrusted)` | chip, set of dates up to 2099, of data and of positions, size of the RAM |
| | `StoredIsKept`: `Spec => []MemoryKept` | chip, set of dates, data, positions, calibrations, size of the RAM |
| | `ChargerStartsLow`: `Spec => NeverStartsHigh` | the same |

**MemoryPool** (in Enc28J60_proofs). `NoOverlap` is not inductive. Compaction and allocation go by the gap between a node and its successor, and that this gap is
empty follows from the order of the whole list. The invariant `IInv` says so without induction along the list:
`GapInv` states for every node h and every *other* block k that k ends before h begins or begins at or behind h's successor.
With `LinkInv` (a successor begins behind the end of its node and is held by a caller), `InUseInv` (a descriptor has a size exactly when it is held),
`RangeInv`, `StartInv`, and `CallInv` about the locals of a running call (the chosen gap is still as large as the request) it is
kept by linking, unlinking, narrowing and moving: `PlaceList`, `UnlinkList`, `NarrowList` and `MoveList` are these four cases, the other actions
leave the list alone. `NoOverlap` follows from `GapInv` at either of two blocks and their order.

**PacketStore.** `StoreInv` is `IInv` with the type of the memory and the origin of the size asked for. `BlocksDisjoint` (no cell belongs to two handles) comes from
`InvNoOverlap`; with it every access changes one abstract block only (`PutMaps`, `WriteMaps`, `CopyMaps`). `MoveKeeps` shows that a
step of the compaction leaves all abstract blocks as they are, since a block moves down into a gap. `SendMaps` shows that the borrowed byte is the same afterwards.
`StepImplements` and `InitImplements` are the refinement.

**UipTcp.** `SlotInv` has the types of the state, with what every slot keeps to (`SlotOK`: no empty block, room only in a block), and says that a slot used by a
connection is open and used by no other, and that what an established connection has outstanding is the first block of its slot, to which `write` may not append
(`InFlight`). The application callback is taken stage by stage, in the code's order, each stage with a lemma about the slot and the connection (up to `AppCallIs`); a
step of uIP is then an effect on one connection (`Stepped`), and no stage loses a block (`Touches`). `BlocksKept` counts with `Held`, the handles of all slots as a set, so that
the sum needs no induction.

`StreamInv` relates three things: the blocks of a slot are a chain of bytes without a gap, from where the connection is to the last byte written (`Chain`); the
host has received up to the beginning or up to the end of what is outstanding (`SyncedOK`); and a segment under way to it is either old or the very one that is outstanding (`SegOK`,
`Payload`). So whatever is lost, repeated or overtaken, a segment with the number the host waits for carries the bytes that come next; an acknowledgement takes
off the chain the one block that the host has got; a FIN leaves only when the chain is empty, which is `CloseDelivers`. Acknowledgements of hosts are never ahead of what they have received
(`Answered`), and a host belongs to one connection (`OneEach`). `Resets = {}` is needed: after a reset the slot keeps its blocks and
the next connection sends them (section 6); TLC refutes both properties with resets.

`ReadsInv` is about the other direction. What is under way from a host carries the bytes its number says (`GivenOK`); the blocks of the slot go on from the last byte read to the number
the connection waits for (`Unread`, `Fills`), and as nothing is taken of a segment that is not next (`Incoming`), what is stored goes on from there (`StoredTakes`). Nothing must come for a full slot,
since its data would be acknowledged and kept for the next tick, where it counts as a duplicate: a slot with all handles in use has stopped its connection, and `read` sets `RESTART` only when a
handle is free again (`Fills`, `RestartedTakes`). When the host closes with bytes unread the slot lives on without a connection and the blocks still go on from the last byte read (`UnreadOK`). A new connection gets the
slot only when it is not in use, and so empty, and then nothing of its host has been read (`MadeReads`). Two hypotheses are needed besides `Resets = {}`. One connection: `read` asks
for the state of the connection that has the number of the slot, and with two that is another one. And a block for every packet that a slot may still take (`HasRoom`), without which
the data is acknowledged and lost: the run `tcp_lost_data`. `EnoughMemoryReadsInOrder` derives the second from the constants: memory has a block for each packet of the connection's two lists,
which is what `mempool_conf.h:14` provides descriptors for, and `tcp_stream` (4 packets, 5 blocks) meets that. By `RoomInv` every block is then free or in the slot, and a slot holds at most `NumPackets` in each list. It has one
hypothesis about behaviours, that no slot is given to a new connection with blocks left in it (`Reused`): those blocks are lost for good, the defect named in section 6, and no memory is enough for any number of them.

**UIPUdp.** None of the three properties is inductive. A datagram that waits goes where it was addressed because the remote end of its connection
changes only when a datagram arrives that the connection accepts, and one that has a remote end accepts only what comes from there: `Fits`.
That takes every connection to be the connection of one socket (`UdpInv`), which `Begin` and `BeginPacket` keep as `uip_udp_new` takes
an unused one. A broadcast would be accepted from anybody, but is never left waiting. The table has at most one entry for an address and it agrees
with what was announced last (`ArpInv`); that the code's walk finds an entry where there is one needs an order without a smaller element (`FirstIn`), which
the library's well-founded strict subsets give. `Balance` compares the sum of blocks before and after a step that changes one socket.

**IpInput** (in UIPUdp_proofs). `uip_process` adds 8 in network order to the checksum of a request, as words lie in memory, and 1 for a carry; the theorem
shows that the result is the checksum of the reply, for each of the 65536 words, by cases on the carry.

**Dhcp.** That an ACK which the client takes is from the server whose id it holds follows from what it has asked: all requests of the call in progress
name that server (`RequestsName`), so an ACK in the socket is of an earlier call or from it (`AcksAgree`). No answer changes the id once a request has named
it, since the socket hears only its first sender (`HearsSender`). `RenewsByName` and `LeaseInv` carry this through to the renewal.
For `RenewsOnTime`: a counter that has not run out has come down by the seconds that `checkLease` has counted, and what it has not counted yet is less than one, so the
age of a lease is at most the two together (`Behind`, kept by `BehindGoesOn` for any gap between two calls); a call that leaves the lease alone leaves at least 1 in the counter.

**ThreadController.** `cached_size` lags behind the slots while an edit is in progress, so that the invariant counts `NewSize` there (`Counted`); that
no other edit comes between needs `LoopAlone`: an interrupt that runs the controller does not edit. The assumption on `NullReads` is needed: with
another value the removal hits an empty slot and counts it. `RunsAllDue` takes that what is owed lies behind the slot the loop is at (`OwedInv`), and that the loop has not yet counted
more than `cached_size` allows (`LoopInv`): the threads it still has to check are no more than the slots behind it hold, plus one for an edit made in this run. With two edits that sum
is wrong, and so is the code (section 6). A time is never older than half the range of a long as the clock does not start anew (`TimeInv`).

**RxRing.** The addresses go round the ring, so no frame lies "behind" another by its address. What can be compared is how far an address
lies ahead of the read pointer `rdptr` (`Ahead`): counted that way the frames kept lie one behind the other in front of the write pointer (`OrderInv`), each
in cells of its own (`RamInv`). A frame that arrives ends short of `rdptr`; a move of `rdptr` to the next frame lowers all distances by as much.
That `setERXRDPT` writes the address in front of the frame, an odd one, matters: frames start at even addresses, and without the parity a ring full to the last address
would look empty.

**RomSearch.** Addresses are ordered by the first bit in which they differ. Between two calls, what has been found is every device up to the one returned last,
r, and `LastDiscrepancy` is the last bit at which some device parts from r to come behind it (`IsLastZero`). A search follows r up to that bit, takes the other way there
and then the least device (`Least`), so that no device lies between r and the one it ends with (`NextDevice`); without such a bit none is left (`AllFound`). `search` writes over r as it goes, so
the invariant says that there is an r. For a targeted search the invariant is that a device of the family which stays answers up to the end of the family code (`TargetInv`). It takes the
family code to be shorter than the address (`FamilyAssumption`: 8 of 64 bits): `target_search` sets the discrepancy to the last bit, which must not be one of the family's.
The proof that two addresses differ at a first bit takes the library's well-founded strict subsets in place of an induction over bits.

**AlarmSearch** (in OneWire_proofs). `alarmSearch` enumerates in the same order, but keeps the junction in one variable that it changes on the way, where `search` has `LastDiscrepancy` and a
candidate for the next one. The invariant is in two halves (`Halfway`). Up to the junction, the bits are those of the address returned last, whose last turn is the junction, and `lastJunction` is the last such bit
so far (`ToJunction`). Behind it, the way is that of a new device, and the junction is already the one for the next search (`Beyond`). At the junction the first becomes the second (`JunctionDiffers`,
`JunctionBit`), and at the end of the address `Beyond` is what `Enumerated` asks (`BeyondEnds`); `done` says that no junction is left. `HandledInv` relates this to the handler: it has been called for
every address returned, but the one it is about to be called with. An alarm that comes or goes clears `steady`, and nothing but that an address is a device's is promised from there until the next reset.

**RealTimeClock.** `RtcInv` says for each chip what the registers hold and what the transactions still to come may write, since the processor may be reset between any two. All of them
leave the registers of the time alone unless the first is the date that was set, and none touches the flag while the time is to be trusted (`TimeInv`, `Aside`); the RAM is right
once the transaction under way is through (`RamInv`); the EEPROM holds each byte in a cell of its own, as `Bank` and the address within a bank are one-to-one (`CellsDiffer`) and a page of 8 never
crosses a bank (`PageIs`, `EepromInv`); `CAL_CFG1`, in which output, frequency test and calibration share an octet, is as wanted or is the last one to be written (`OutputInv`); until then RAM and
`CAL_CFG1` have what was wanted before, which is what a reset leaves (`RamBefore`, `OutputBefore`); the charger is off from before its voltage is chosen until after (`ChargerInv`). That an octet keeps three settings apart is arithmetic over its bits (`BitsOf`, `SettingsAre`); time goes on field by field (`TickIs`).
`ThisCentury` is needed as the registers hold two digits of the year, and the chip goes on from 99 to 00.

**DallasTemperature** (in OneWire_proofs). What is left of a call is a list, and only some lists occur (`ProgramInv`): whoever reads a scratch pad uses it in the
next step, and a setter reads before it writes. What is in the buffer then is nine octets of 255, which the checksum refuses, or what a device has sent, with the settings
the device still has if it stayed on the bus (`PadInv`, `Conveyed`). From there a setter writes back what it does not change (`SettingsInv`), and a reading or an alarm is that
of the device (`ResultInv`): the octets of a temperature are a signed word (`WordsSigned`), and the extended resolution of a DS18S20 is undone (`Calculated`).
A blocking request waits long enough because the resolution the library remembers is at least that of every device it knows (`SettingsInv`). The second evaluation of the macro in `begin` does not lower it below
that of a known device: it is asked for only where the first was not below, and is the device's own, or fails, and then the library knows nobody (`RisingInv`, `StoreStep`); a device that was replaced in between by its factory self
converts with 12 bits, the most. A conversion on parasitic power is done when the device is asked for (`SeenInv`), and no device that converts has more left to do than the wait has (`AskedInv`); the last is where `~Finer` is needed.
The hypothesis `ChecksumsCatch` says of single messages that silence is refused, that damage which a sum lets through leaves the octets in use alone, and that the switch is heard exactly when its
octets are whole; `MCDallasTemperature` has TLC evaluate it for the sums of `Crc`. It speaks of the octets in use because a cut after octet 6 of the nine may have a right sum by chance. A line held low is outside of
it, as zeroes have a right sum (section 6).

**Dns.** All that tells an answer to this lookup from a late one to another is the request id. Of the requests that may still be answered only that of the lookup in progress has its id
(`AskedInv`), and a datagram in the socket which has its id is an answer to it, though it may have come before the question went out (`InboxInv`); `ProcessResponse` looks at the id first (`OnlyItsId`).
What the theorem takes of single messages is `MessagesRight`: the parser reads the right address or none from an answer, however it is damaged, if the checksum lets it pass; `MCDns` has TLC evaluate it.

Only model-checked:

* liveness, and what involves `ENABLED`, everywhere;
* `FailsOnlyWhenFull`: it speaks of a sum and of a path along the list, inductions over data;
* `DatesFollow`, `TakesWhole`, and what the recursions and folds of Dns, Checksum, DateTime and Crc compute: induction over data. So are `MessagesRight` and
  `ChecksumsCatch`, the hypotheses of the theorems above about Dns and DallasTemperature, which TLC evaluates for the values of the runs;
* `ReachesRegister` and `ConfiguredFirst`: Enc28J60Control has no constant to generalise, and TLC visits all of its states.

## 6. What is not modelled, and defects met on the way

Left out: SPI transfers, the timing of slots on the 1-Wire bus, debug output, wording; the code of uIP that is not compiled (IPv6, reassembly, address by ping); in TCP urgent data, MSS
and window arithmetic, RTT estimation, `UIPServer::write`, `flush`, `uip_unlisten`, and more than one connection at a time in a run; `begin`,
`phyRead` and `linkStatus` while the controller is asleep; `uip_timer.c` and `clock-arch.c`, the difference of two clock values; ShiftRegister595 (its
loop `for (byte i=7; i>=0; i--)`, `ShiftRegister595.cpp:34`, never ends, since a byte is never negative); headers for PIC, and sketches. One composition is missing: the ring,
the pool, TCP and UDP in one state machine have more states than TLC can visit, and meet through counts of blocks instead.

Seen in the code. Definitions in parentheses are in the modules, state what the code or its comments promise, and are refuted by TLC with the values given.

TCP:

* A reset reaches `uipclient_appcall` as `UIP_ABORT`, which it ignores (`uip.c:1392`, `UIPClient.cpp:389`): the slot stays
  `CONNECTED` and attached, and the next connection on this `uip_conn` inherits its blocks. `WritesStream` fails if the client of `tcp_stream` may reset.
* A write to a slot whose connection the host has closed repeats for ever once its handles are full (`UIPClient.cpp:178`, 191, 221): the slot's state is 0, which `_write`
  does not refuse. `uipethernet-conf.h:14-15` says it blocks until the connection is closed (`UipTcp!WriteReturns`).
* The number of a slot serves as the index of its connection (`UIPClient.cpp:272`, `UIPServer.cpp:35`), though `_allocateData` numbers slots on its own.
* A write to a dead slot leaves blocks behind which the next `_allocateData` overwrites: `BlocksKept` names this exception.
* The poll of a connection without a slot reads its timer through a NULL pointer (`UIPEthernet.cpp:247`). The model polls at any tick.
* A write of 0 bytes takes a block that is never sent and that `stop()` waits for (`UIPClient.cpp:424-447`).
* With a window smaller than a block an acknowledgement eats bytes that were not sent (`uip.c:1683`, `UIPClient.cpp:417`).

UDP, ARP and IP:

* With `Overlapping = TRUE` a datagram being written goes to the sender of one that arrives (`UIPUdp.cpp:326`, against the comment at 80): `FramesRight` fails.
* A socket hears only its first sender until `stop` or the next `beginPacket`. `beginPacket` for another end while a datagram waits redirects the waiting one.
* `endPacket` returns 1 when only an ARP request has gone out, and `stop()` then loses the datagram. An empty datagram is never sent and blocks the socket.
* The remote end is set even when no block was free for the datagram; an empty datagram allocates a block of size 0.
* `uip_arp_timer` is never called, so entries do not age. Two sockets that wait for different hosts over a table of one entry evict each other's for ever: `PendingSent` fails.
* Of a ping with more than 84 octets only the first part is in the packet buffer, and what its answer carries behind it is not what was sent (comment `uip.c:976-978`).
  Without an address any echo is answered, from 0.0.0.0.

ENC28J60:

* Addresses behind the end of the receive ring are corrected by one too little (`Enc28J60Network.cpp:158` and others), and `copyPacket` moves `ERXRDPT`
  for any source (334), so a kept frame may be overwritten.
* `init` sets bits of `MACON3` without selecting its bank, and is right because the write in front of it leaves bank 2; the second `init` is right because its first access is in bank 0.
  `sendPacket` does not wait for a transmission in progress. A packet kept by `tick` is kept over a second `begin`.

DHCP and DNS:

* A request that times out after its first message leaves DISCOVER, REQUEST or REREQUEST, which `checkLease` never retries; the comment at
  `UIPEthernet.cpp:126` says it will (`Dhcp!Retries`).
* The default T2 is twice T1, the whole lease, where the comment says 87.5 % (`Dhcp.cpp:102`); a default T1 of an earlier lease stays when a later one is shorter. The time before the first
  `checkLease` does not count; a lease that has expired stays configured; REREQUEST stays when no socket is free.
* A host name such as "a", whose letters give a number up to 255, is taken for an address (`Dns.cpp:60-62`, 67; with `AddressOf <- MCHostAddresses` of `MCDns`, `AnswersAsked` fails).
* A datagram of a stranger, or a late answer, ends the lookup; one that ends inside the question keeps the parser in its loop. `TIMED_OUT`, a `uint16_t`, equals -1 only where `int` has 16 bits. The outer loop for
  retries is commented out.

ArduinoThread, searches, thermometers, clocks:

* Two removals by callbacks lower `cached_size` below what the loop has counted, and the rest is not run (`ThreadController.cpp:27`; its `README.md:92`, 160): `RunsAllDue` fails with
  `MaxThreads = 3`, `MaxEdits = 2` and `MaxTime = 2`. `remove` reads through NULL (70). `shouldRun` compares `millis()` as signed numbers (`Thread.cpp:44`), and is wrong around 2^31 ms.
* An alarm that ends between two searches leaves the junction where it is: the same device is returned for ever, and `processAlarms` does not end
  (`DallasTemperature.cpp:608`, comment 578-580; `AlarmSearch!EndsAfterChanges`). A handler that calls `hasAlarm()` resets the search it is called from.
* Settings are copied to the EEPROM after a reset without a select (`DallasTemperature.cpp:178-180`), so no device does it (`SettingsSaved`, which 167 promises).
* `max(a, b)` is a macro (`DallasTemperature.cpp:51`): when the second reading of a resolution fails, `begin` stores 0, the next device may set 9, and `requestTemperatures` waits 94 ms for a device of 12 bits that an earlier
  `begin` has found; and a device whose only reading fails is counted with 9 bits. So "wait a set time (worst case scenario)" (300) does not hold (`WaitsLongEnough`, which TLC violates under the constants of `thermometers`);
  `FreshReading` leaves out the devices of which the library knows nothing then.
* `FreshReading` fails with `Finer = TRUE`, 4 calls and resolutions 9 and 12: the wait is that of the resolution found last. A DS18S20 needs 750 ms and is given 94. `requestTemperaturesByAddress` asks whether
  the device is there after it has started the conversion, and that resets the bus and cuts off a conversion on parasitic power. A line held low reads as zeroes, whose checksum is right: `ReadingsAgree` fails with `Faults = {"short"}`.
* `getTempCByIndex` of an index that is not there reads the device found last. `hasAlarm` truncates a fraction below zero towards zero, unlike the device.
* A reset by the watchdog clears the flag that `isrunning` looks at (`RTClib.cpp:301`, 330, 430): an invalid time is not told (`RealTimeClock!InvalidIsTold`).
* `get()` overflows on 19 January 2068, where a comment says 2099. `adjust` of the DS1307 clears its control register. The header allows 56 bytes of RAM at once where the Wire buffer has 32. `RTC_Millis` jumps when `millis()` starts anew.

## 7. Where to go from here

Done: all components but the timers, ShiftRegister595, debug output, PIC headers and sketches; thirty theorems in eight modules (and the lemmas they rest on). In the order of what they would add:

1. Two connections in one TCP run, with the mapping of slots to connections, and resets with the exception they force on `WritesStream` stated. Both need a model of TCP with coarser
   segments, since the state space of `tcp_stream` is near what can be visited.
2. `UIPServer::write` and `flush`, and `connect` by name over Dns.
3. Dhcp over UIPUdp in one state machine, with the timers scaled down.
