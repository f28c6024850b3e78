---------------------------- MODULE CaptureSession ----------------------------
(***************************************************************************)
(* Captures into one store, one after the other: a capture file is         *)
(* written, the program that writes it perhaps interrupted, and replayed   *)
(* into the store with indexes that grow with it; or a live capture, which *)
(* does not verify checksums, adds to the store.  Between captures the     *)
(* store is queried, of which `asked' is all that is seen here.            *)
(*                                                                         *)
(* Ring, writer and files are those of CapturePipeline and ColumnStore:    *)
(* nothing is dropped here and a store that is closed is whole.            *)
(***************************************************************************)
EXTENDS Pcap, PacketParser, IndexStructures

CONSTANTS Frames,       \* the frames of captures that go on
          OddFrames,    \* frames that come alone
          Cuts,         \* where files end, counted from the end of a record
          MaxStored,    \* bound on the rows
          MaxFrames     \* bound on the frames of a file

ASSUME CaptureBounds == MaxStored \in Nat /\ MaxFrames \in Nat
ASSUME CutsAssumption == Cuts \subseteq Int

\* The widths of the header fields; MaxSum is what the words of a header can add up to.
Nibbles == 0 .. 15
Bytes == 0 .. 255
Shorts == 0 .. 65535
Sums == 0 .. MaxSum
Addresses == 0 .. 2 ^ Depth - 1
Ports == 0 .. NumPorts - 1

\* A frame of the link layer.
Frame ==
  [size : Nat, ipv4 : BOOLEAN, version : Nibbles, ihl : Nibbles, words : Sums,
   proto : Bytes, src : Addresses, port : Ports, total : Shorts]

ASSUME FramesAssumption == Frames \subseteq Frame /\ OddFrames \subseteq Frame

NoFile == [frames |-> <<>>, bytes |-> 0]
NoQuery == 0

VARIABLES
  pcap,         \* the capture file
  table,        \* the store's rows
  grown,        \* the indexes that grow with it
  aborted,      \* a frame has ended an import
  owed,         \* the rows that the frames seen so far stand for (history)
  asked         \* the query whose answer is there, none while captures go on

stored == <<table, grown, aborted, owed>>
captureVars == <<pcap, stored>>

CaptureInit ==
  /\ pcap = NoFile
  /\ table = <<>> /\ grown = Empty
  /\ aborted = FALSE
  /\ owed = <<>>

-----------------------------------------------------------------------------
(* What a frame stands for, said of the packet and not as the parser does. *)

\* An IPv4 packet of which the capture kept the IP header.
Intact(f) ==
  f.ipv4 /\ f.version = 4 /\ f.ihl >= 5 /\ f.size >= Ethernet + HeaderLength(f)

Genuine(f) == f.words > 0 /\ f.words % 65535 = 0

\* The part of the transport header that must be there for its ports.
NeededOf(proto) == CASE proto = TCP -> 14 [] proto = UDP -> 8 [] OTHER -> 0

RowOf(f) ==
  [src_ip |-> f.src, proto |-> f.proto, size |-> f.total,
   dst_port |-> IF /\ f.proto \in {TCP, UDP}
                   /\ f.size >= Ethernet + HeaderLength(f) + NeededOf(f.proto)
                THEN f.port ELSE 0]

RowsOf(frames, verify) ==
  LET sound == Ascending({i \in DOMAIN frames : Intact(frames[i]) /\ (verify => Genuine(frames[i]))})
  IN  [k \in DOMAIN sound |-> RowOf(frames[sound[k]])]

\* The frames that are in the file to their last byte.
WholeFrames(f) ==
  LET whole == {k \in 0 .. Len(f.frames) : EndOf(f.frames)[k] <= f.bytes}
  IN  SubSeq(f.frames, 1, Max(whole \cup {0}))

-----------------------------------------------------------------------------
\* Records are appended, each indexed under the row that it will have.
Store(records) ==
  /\ table' = table \o records
  /\ grown' = Growing(grown, records, Len(table))[Len(records)]

Idle == pcap = NoFile /\ asked = NoQuery /\ ~aborted

\* A capture writes a file.
Capture(frames) ==
  /\ Idle
  /\ pcap' = WritePackets(frames)
  /\ UNCHANGED stored

\* The capture was interrupted: only bytes of the file are there.
Interrupt(bytes) ==
  /\ pcap.bytes = FileSize(pcap.frames) /\ bytes \in 0 .. pcap.bytes - 1
  /\ pcap' = [pcap EXCEPT !.bytes = bytes]
  /\ UNCHANGED stored

\* capture_offline(read_packets(path)): nothing is read without a whole global
\* header, and an exception in the parser ends the import.
Import ==
  /\ pcap # NoFile
  /\ LET packets == IF TooShort(pcap) THEN <<>> ELSE ReadPackets(pcap)
     IN  IF \E i \in DOMAIN packets : Raises(packets[i], TRUE)
         THEN aborted' = TRUE /\ UNCHANGED <<table, grown>>
         ELSE Store(Parsed(packets, TRUE)) /\ UNCHANGED aborted
  /\ owed' = owed \o RowsOf(WholeFrames(pcap), TRUE)
  /\ pcap' = NoFile

\* on_packet of a live capture, which does not verify checksums.
Sniff(f) ==
  /\ Idle
  /\ IF Raises(f, FALSE) THEN aborted' = TRUE /\ UNCHANGED <<table, grown>>
     ELSE Store(Parsed(<<f>>, FALSE)) /\ UNCHANGED aborted
  /\ owed' = owed \o RowsOf(<<f>>, FALSE)
  /\ UNCHANGED pcap

\* Captures go on as long as there may be room; an odd frame comes alone.
CaptureFile ==
  \/ \E frames \in BoundedSeq(Frames, Min({MaxFrames, MaxStored - Len(owed)})) \ {<<>>} :
       Capture(frames)
  \/ owed = <<>> /\ \E f \in OddFrames : Capture(<<f>>)

CaptureLive ==
  \/ Len(owed) < MaxStored /\ \E f \in Frames : Sniff(f)
  \/ owed = <<>> /\ \E f \in OddFrames : Sniff(f)

\* The file ends within its header or within the record of a frame.
CutShort ==
  \E k \in 0 .. Len(pcap.frames), cut \in Cuts : Interrupt(EndOf(pcap.frames)[k] + cut)

CaptureNext == CaptureFile \/ CutShort \/ Import \/ CaptureLive

\* Queries change nothing but `asked'.
CaptureSpec == CaptureInit /\ [][CaptureNext]_captureVars

-----------------------------------------------------------------------------
(* Properties.                                                             *)

\* The store holds the sound packets whose frames are whole in the files and those
\* that live captures saw, once each, in order and with the fields they have: torn
\* records (pcap.py:84-90), discarded frames (parser.py:60-76), options and short
\* transport headers (:82-88) shift, lose or invent nothing, and no frame of any
\* length makes the parser read beyond its end, which would end the import.
\* Sound is what the caller asks the parser to check: live captures do not have
\* the IP checksum verified (pipeline.py:101-105), so frames with a blank one are
\* owed too, against CONTRACTS.md:23, which is a finding.
ImportKeepsGoodFrames == ~aborted /\ table = owed

\* Every lookup in an index returns, in row order, the rows that a filter of the
\* column returns, and counts them, for every address and prefix length, port and
\* protocol, there or not: in the indexes that grew over several captures
\* (indexes.py:89-96) and in those built from the whole store (:70-77).
IndexesFindExactly ==
  LET Finds(rows, count, S) == rows = Ascending({i - 1 : i \in S}) /\ count = Len(rows)
      Found(ix) ==
        /\ ix.rows = Len(table)
        /\ \A value \in Addresses, bits \in 0 .. Depth :
             Finds(PrefixRows(ix.trie, value, bits), PrefixCount(ix.trie, value, bits),
                   {i \in DOMAIN table :
                      table[i].src_ip \div 2 ^ (Depth - bits) = value \div 2 ^ (Depth - bits)})
        /\ \A port \in -1 .. NumPorts :
             Finds(PortRows(ix.hash, port), PortCount(ix.hash, port),
                   {i \in DOMAIN table : table[i].dst_port = port})
        /\ \A proto \in Bytes :
             Finds(BitmapRows(ix.bitmap, proto), BitmapCount(ix.bitmap, proto),
                   {i \in DOMAIN table : table[i].proto = proto})
  IN  Idle => Found(grown) /\ Found(Build(table))
===============================================================================
