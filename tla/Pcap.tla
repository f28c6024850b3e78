--------------------------------- MODULE Pcap ---------------------------------
(***************************************************************************)
(* The classic capture-file format of packetql/capture/pcap.py: a global   *)
(* header, then a record header and the bytes of a frame for each frame.   *)
(* A file is the frames that its writer meant to write and the number of   *)
(* bytes that got there; only the lengths matter to the reader.  The file  *)
(* is of the supported byte order and link type.                           *)
(***************************************************************************)
EXTENDS Integers, Sequences

GlobalHeader == 24
RecordHeader == 16

\* Where the record of each frame ends in a file; record 0 is the global header.
EndOf(frames) ==
  LET end[k \in 0 .. Len(frames)] ==
        IF k = 0 THEN GlobalHeader ELSE end[k - 1] + RecordHeader + frames[k].size
  IN  end

\* The bytes of a file with all of these frames.
FileSize(frames) == EndOf(frames)[Len(frames)]

\* write_packets: the whole file.
WritePackets(frames) == [frames |-> frames, bytes |-> FileSize(frames)]

TooShort(file) == file.bytes < GlobalHeader

\* A reader that does not compare the bytes it got with incl_len.
HeaderIsThere(left, f) == left >= RecordHeader

\* Neither the record header nor the frame is torn, left bytes before the end.
RecordIsThere(left, f) == left >= RecordHeader /\ left - RecordHeader >= f.size

\* f.read(incl_len) with left bytes before the end.
Data(left, f) == [f EXCEPT !.size = IF f.size <= left - RecordHeader THEN f.size ELSE left - RecordHeader]

\* One round of the loop; more says that the loop has not ended.
ReadRecord(read, f) ==
  IF read.more /\ RecordIsThere(read.left, f)
  THEN [read EXCEPT !.left = @ - RecordHeader - f.size,
                    !.packets = Append(@, Data(read.left, f))]
  ELSE [read EXCEPT !.more = FALSE]

\* What has been read after so many rounds.
Reading(file) ==
  LET read[k \in 0 .. Len(file.frames)] ==
        IF k = 0 THEN [left |-> file.bytes - GlobalHeader, more |-> TRUE, packets |-> <<>>]
        ELSE ReadRecord(read[k - 1], file.frames[k])
  IN  read

ReadPackets(file) == Reading(file)[Len(file.frames)].packets
===============================================================================
