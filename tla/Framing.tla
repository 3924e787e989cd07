------------------------------ MODULE Framing -------------------------------
(***************************************************************************)
(* kanta.serialization.framing: how a record becomes bytes, and how bytes  *)
(* become records again, for the line framer and for the binary framer.    *)
(*                                                                         *)
(* Abstractions.  A file is a sequence of cells, the smallest units that   *)
(* can be torn apart.  A payload is two cells <<kind, id, part>>, kind "c" *)
(* for a change and "s" for a snapshot; it decodes only if both are there, *)
(* in order and alone.  A line ends with NL and the SNAPSHOT prefix is one *)
(* cell.  A binary frame is a marker, one cell for length and checksum     *)
(* <<"sum", kind, id, offset>>, and the payload; the sync seed at the      *)
(* start of the file has the bytes of a snapshot marker.  Bytes that are   *)
(* not a checksum at all never pass for one.  Offsets count cells from 0.  *)
(***************************************************************************)
EXTENDS Integers, Sequences, FiniteSets, SequencesExt, Order

Framers == {"line", "bin"}
Kinds   == {"c", "s"}

NL     == <<"newline">>
PREFIX == <<"SNAPSHOT">>
SYNC(kind) == IF kind = "s" THEN <<"seed">> ELSE <<"not seed">>

Payload(r) == << <<r.kind, r.id, 1>>, <<r.kind, r.id, 2>> >>

Records(ids) == [kind : Kinds, id : ids]

-----------------------------------------------------------------------------
(* LineFramer.frame_change, frame_snapshot *)
LineFrame(r) == (IF r.kind = "s" THEN <<PREFIX>> ELSE <<>>) \o Payload(r) \o <<NL>>

(* The checksum covers kind, offset and payload. *)
Sum(r, offset) == <<"sum", r.kind, r.id, offset>>

(* BinFramer.frame_change, frame_snapshot: the first record of a file      *)
(* brings the seed with it.                                                *)
BinFrame(r, offset) ==
  LET start == IF offset = 0 THEN 1 ELSE offset
  IN (IF offset = 0 THEN <<SYNC("s")>> ELSE <<>>)
       \o <<SYNC(r.kind), Sum(r, start)>> \o Payload(r)

Frame(framer, r, offset) == IF framer = "line" THEN LineFrame(r) ELSE BinFrame(r, offset)

-----------------------------------------------------------------------------
(* Reading.  The outcome is the records of the last snapshot and after it, *)
(* or the offset at which a ReplayError points.                            *)
Ok(recs)   == [ok |-> TRUE, recs |-> recs, at |-> -1]
Error(pos) == [ok |-> FALSE, recs |-> <<>>, at |-> pos]

(* Decoding: the bytes of one payload, whole, for the type asked for.      *)
Decodes(bytes, kind) == /\ Len(bytes) = 2
                        /\ bytes[1][1] = kind
                        /\ bytes = Payload([kind |-> kind, id |-> bytes[1][2]])
Decoded(bytes) == [kind |-> bytes[1][1], id |-> bytes[1][2]]

(* The newlines behind offset, the end of the line that begins with cell i *)
(* (the last line may lack its newline), and where lines begin that are    *)
(* not empty.                                                              *)
Ends(cells, offset) == {i \in offset + 1 .. Len(cells) : cells[i] = NL}
Stop(cells, i) == IF Ends(cells, i - 1) = {} THEN Len(cells) + 1 ELSE Min(Ends(cells, i - 1))
Lines(cells, offset) ==
  {i \in {offset + 1} \cup {j + 1 : j \in Ends(cells, offset)} : Stop(cells, i) > i}

(* A line that is not a SNAPSHOT line is taken for a change. *)
LineKind(cells, i) == IF cells[i] = PREFIX THEN "s" ELSE "c"
LineBody(cells, i) ==
  SubSeq(cells, IF LineKind(cells, i) = "s" THEN i + 1 ELSE i, Stop(cells, i) - 1)

(* LineFramer.iter_records and the decoding of what it yields. *)
LineRecords(cells, offset) ==
  LET lines == Lines(cells, offset)
      bad   == {i \in lines : ~Decodes(LineBody(cells, i), LineKind(cells, i))}
      order == InOrder(lines)
  IN IF bad # {} THEN Error(Min(bad) - 1)
     ELSE Ok([n \in 1 .. Cardinality(lines) |-> Decoded(LineBody(cells, order[n]))])

(* Where scan_last_snapshot sees a snapshot: at the start of a line. *)
SnapshotStarts(cells) ==
  {i \in DOMAIN cells : cells[i] = PREFIX /\ (i = 1 \/ cells[i - 1] = NL)}

(* replay() of a text log: nothing before the last snapshot is looked at. *)
ReadLine(cells) ==
  LET snaps == SnapshotStarts(cells)
      pos   == Max(snaps)
      ends  == Ends(cells, pos)
      body  == SubSeq(cells, pos + 1, Min(ends) - 1)
      rest  == LineRecords(cells, Min(ends))
  IN IF snaps = {} THEN LineRecords(cells, 0)
     ELSE IF ends = {} \/ ~Decodes(body, "s") THEN Error(pos - 1)
     ELSE IF rest.ok THEN Ok(<<Decoded(body)>> \o rest.recs) ELSE rest

(* Fault: an error is located where reading stopped. *)
ErrorAtEnd(cells, offset) == Len(cells)

(* and not where the frame it found broken begins. *)
ErrorAt(cells, offset) == offset

(* Fault: what is left at the end and is no frame is not looked at.        *)
WholeFrames(cells) == (Len(cells) - 1) \div 4

(* BinFramer._iter_records_internal: frames of four cells after the seed,  *)
(* the n-th of them at offset 4 * n + 1.                                   *)
FrameOk(cells, offset) ==
  /\ offset + 4 <= Len(cells)
  /\ \E kind \in Kinds :
       LET body == SubSeq(cells, offset + 3, offset + 4)
       IN /\ cells[offset + 1] = SYNC(kind)
          /\ Decodes(body, kind)
          /\ cells[offset + 2] = Sum(Decoded(body), offset)

FrameCount(cells) == (Len(cells) + 2) \div 4
BinRecords(cells) ==
  LET count == FrameCount(cells)
      bad   == {n \in 0 .. count - 1 : ~FrameOk(cells, 4 * n + 1)}
  IN IF bad # {} THEN Error(ErrorAt(cells, 4 * Min(bad) + 1))
     ELSE Ok([n \in 1 .. count |-> Decoded(SubSeq(cells, 4 * n, 4 * n + 1))])

(* replay() of a binary log: every frame is verified, then the records     *)
(* from the last snapshot on are used.                                     *)
FromLastSnapshot(recs) ==
  LET last == SelectLastInSeq(recs, LAMBDA r : r.kind = "s")
  IN IF last = 0 THEN recs ELSE SubSeq(recs, last, Len(recs))

ReadBin(cells) ==
  LET all == BinRecords(cells)
  IN IF cells = <<>> THEN Ok(<<>>)
     ELSE IF cells[1] # SYNC("s") THEN Error(0)
     ELSE IF all.ok THEN Ok(FromLastSnapshot(all.recs)) ELSE all

Read(framer, cells) == IF framer = "line" THEN ReadLine(cells) ELSE ReadBin(cells)
=============================================================================
