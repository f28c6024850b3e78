----------------------------- MODULE PacketParser -----------------------------
(***************************************************************************)
(* packetql/capture/parser.py: from a captured frame to a record, or       *)
(* nothing.  A frame is the number of its captured bytes and the fields    *)
(* the parser looks at: whether the ethertype is IPv4, the version and     *)
(* header length of the IP header and the sum of its 16-bit words (in one  *)
(* header there are at most 30), protocol, source, port and total length.  *)
(***************************************************************************)
EXTENDS Integers, Sequences, InOrder

Ethernet == 14
TCP == 6
UDP == 17

\* What is found where a port is not.
Elsewhere == 0

-----------------------------------------------------------------------------
(* verify_ip_checksum: the sum of the words, folded twice to 16 bits.      *)

MaxSum == 30 * 65535

Fold(total) == (total % 65536) + (total \div 65536)

VerifyIpChecksum(total) == Fold(Fold(total)) = 65535

-----------------------------------------------------------------------------
(* parse_packet.                                                           *)

HeaderLength(f) == f.ihl * 4

\* The early returns in their order; verify is off for live captures.
Discarded(f, verify) ==
  \/ f.size < Ethernet
  \/ ~f.ipv4
  \/ f.size < Ethernet + 20
  \/ f.version # 4
  \/ HeaderLength(f) < 20 \/ f.size < Ethernet + HeaderLength(f)
  \/ verify /\ ~VerifyIpChecksum(f.words)

\* Where the transport header begins.
Transport(f) == Ethernet + HeaderLength(f)

HasTcp(f) == f.proto = TCP /\ f.size >= Transport(f) + 14
HasUdp(f) == f.proto = UDP /\ f.size >= Transport(f) + 8

\* The ports are the first thing after the IP header.
PortAt(f, offset) == IF offset = Ethernet + HeaderLength(f) THEN f.port ELSE Elsewhere

DstPort(f) == IF HasTcp(f) \/ HasUdp(f) THEN PortAt(f, Transport(f)) ELSE 0

\* The bytes from the start of the frame to the last one that is read: the TCP
\* flags, the UDP ports, the destination address.
BytesRead(f) ==
  CASE HasTcp(f) -> Transport(f) + 14
    [] ~HasTcp(f) /\ HasUdp(f) -> Transport(f) + 4
    [] OTHER -> Ethernet + 20

\* A read beyond the end raises; unpack_from and data[...] do not clip.
Raises(f, verify) == ~Discarded(f, verify) /\ BytesRead(f) > f.size

Record(f) ==
  [src_ip |-> f.src, dst_port |-> DstPort(f), proto |-> f.proto, size |-> f.total]

\* The records of the frames that are not discarded, in their order.
Parsed(frames, verify) ==
  LET kept == Ascending({i \in DOMAIN frames : ~Discarded(frames[i], verify)})
  IN  [k \in DOMAIN kept |-> Record(frames[kept[k]])]
===============================================================================
