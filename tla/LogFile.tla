------------------------------ MODULE LogFile -------------------------------
(***************************************************************************)
(* kanta.filelock.LockedFile as the threads of one process use it, with    *)
(* the frames of Framing as its bytes.  Every append asks for the size     *)
(* (three lseek calls), frames its record for that offset, and writes      *)
(* (lseek to the end, then os.write).  The position belongs to the         *)
(* descriptor, which all threads share, and the interpreter may switch     *)
(* threads around every system call.  The process may die, and open() then *)
(* reads the file again.                                                   *)
(*                                                                         *)
(* Abstractions.  What is passed to os.write survives the process, so a    *)
(* crash loses no byte that was written; a write may stop short.  Each     *)
(* append is one record.  Windows is left out.                             *)
(***************************************************************************)
EXTENDS Framing

CONSTANTS Threads,
          MaxRecords,  \* bound: appends begun
          MaxCrashes,  \* bound: deaths of the process
          ShortWrites  \* TRUE: os.write may write less than it is given

ASSUME LogFileAssumption == MaxRecords \in Nat /\ MaxCrashes \in Nat /\ ShortWrites \in BOOLEAN

VARIABLES framer,   \* which framer the log was created with
          cells,    \* content of the file
          pos,      \* position of the shared descriptor
          open,     \* FALSE after a crash, until open() has read the file
          pc, cur,  \* where each thread is, and the position it saved
          size,     \* what size() told it
          rec,      \* the record it appends
          next,     \* number of the next record
          crashes,
          acked,    \* ghost: records whose write returned, in that order
          whole,    \* ghost: length of the file up to the last whole append
          mixed,    \* ghost: two appends have overlapped
          spanned,  \* ghost: a write returned inside another thread's size()
          rivals,   \* ghost: two records were framed for the same offset
          cut,      \* ghost: a write has stopped short,
          headless, \* ghost: and it left the seed alone in the file
          glued     \* ghost: open() took a last line that lacks its newline

fileVars  == <<cells, pos>>
ghostVars == <<acked, whole, mixed, spanned, rivals, cut, headless, glued>>
vars == <<framer, cells, pos, open, pc, cur, size, rec, next, crashes,
          acked, whole, mixed, spanned, rivals, cut, headless, glued>>

NoRecord == [kind |-> "c", id |-> 0]
Busy == {t \in Threads : pc[t] # "idle"}
InSize == {t \in Threads : pc[t] \in {"end", "restore"}}

Init ==
  /\ framer \in Framers
  /\ cells = <<>> /\ pos = 0 /\ open = TRUE
  /\ pc = [t \in Threads |-> "idle"] /\ cur = [t \in Threads |-> 0]
  /\ size = [t \in Threads |-> 0] /\ rec = [t \in Threads |-> NoRecord]
  /\ next = 1 /\ crashes = 0
  /\ acked = <<>> /\ whole = 0 /\ mixed = FALSE /\ spanned = FALSE /\ rivals = FALSE
  /\ cut = FALSE /\ headless = FALSE /\ glued = FALSE

Goto(t, label) == pc' = [pc EXCEPT ![t] = label]

-----------------------------------------------------------------------------
(* size(): current = lseek(0, SEEK_CUR) *)
SizeCurrent(t, kind) ==
  /\ open /\ pc[t] = "idle" /\ next <= MaxRecords
  /\ cur' = [cur EXCEPT ![t] = pos]
  /\ rec' = [rec EXCEPT ![t] = [kind |-> kind, id |-> next]]
  /\ next' = next + 1
  /\ mixed' = (mixed \/ Busy # {})
  /\ Goto(t, "end")
  /\ UNCHANGED <<framer, cells, pos, open, size, crashes, acked, whole, spanned, rivals, cut, headless, glued>>

(* end = lseek(0, SEEK_END) *)
SizeEnd(t) ==
  /\ pc[t] = "end"
  /\ size' = [size EXCEPT ![t] = Len(cells)]
  /\ pos' = Len(cells)
  /\ rivals' = (rivals \/ \E u \in Busy \ {t} : pc[u] # "end" /\ size[u] = Len(cells))
  /\ Goto(t, "restore")
  /\ UNCHANGED <<framer, cells, open, cur, rec, next, crashes,
                 acked, whole, mixed, spanned, cut, headless, glued>>

(* lseek(current, SEEK_SET), and framing for the offset returned *)
SizeRestore(t) ==
  /\ pc[t] = "restore"
  /\ pos' = cur[t]
  /\ Goto(t, "seek")
  /\ UNCHANGED <<framer, cells, open, cur, size, rec, next, crashes, ghostVars>>

(* Fault: the record is written where it was framed for. *)
WriteAtOffset(t) ==
  /\ pc[t] = "seek"
  /\ pos' = size[t]
  /\ Goto(t, "write")
  /\ UNCHANGED <<framer, cells, open, cur, size, rec, next, crashes, ghostVars>>

(* write(): lseek(0, SEEK_END) *)
WriteSeek(t) ==
  /\ pc[t] = "seek"
  /\ pos' = Len(cells)
  /\ Goto(t, "write")
  /\ UNCHANGED <<framer, cells, open, cur, size, rec, next, crashes, ghostVars>>

(* os.write at the position, of the first n cells of a frame *)
Put(t, n) ==
  LET data == SubSeq(Frame(framer, rec[t], size[t]), 1, n)
  IN /\ cells' = [i \in 1 .. Max({Len(cells), pos + n}) |->
                    IF i \in pos + 1 .. pos + n THEN data[i - pos] ELSE cells[i]]
     /\ pos' = pos + n

FrameLen(t) == Len(Frame(framer, rec[t], size[t]))

Write(t) ==
  /\ pc[t] = "write"
  /\ Put(t, FrameLen(t))
  /\ acked' = Append(acked, rec[t])
  /\ whole' = Len(cells')
  /\ spanned' = (spanned \/ InSize \ {t} # {})
  /\ Goto(t, "idle")
  /\ UNCHANGED <<framer, open, cur, size, rec, next, crashes, mixed, rivals, cut, headless, glued>>

(* The count os.write returns is ignored: the append counts as done. *)
WriteShort(t) ==
  /\ ShortWrites /\ pc[t] = "write"
  /\ \E n \in 1 .. FrameLen(t) - 1 : Put(t, n)
  /\ acked' = Append(acked, rec[t])
  /\ cut' = TRUE
  /\ headless' = (headless \/ (framer = "bin" /\ Len(cells') = 1))
  /\ spanned' = (spanned \/ InSize \ {t} # {})
  /\ Goto(t, "idle")
  /\ UNCHANGED <<framer, open, cur, size, rec, next, crashes, whole, mixed, rivals, glued>>

-----------------------------------------------------------------------------
(* The process dies, perhaps with a part of a record written. *)
Crash ==
  /\ open /\ crashes < MaxCrashes
  /\ crashes' = crashes + 1
  /\ \/ UNCHANGED fileVars
     \/ \E t \in Threads : /\ pc[t] = "write"
                           /\ \E n \in 1 .. FrameLen(t) : Put(t, n)
  /\ open' = FALSE
  /\ pc' = [t \in Threads |-> "idle"]
  /\ UNCHANGED <<framer, cur, size, rec, next, ghostVars>>

(* Fault: open() takes what it cannot read for the end of the log. *)
OpenAnyway ==
  /\ ~open
  /\ open' = TRUE
  /\ pos' = Len(cells)
  /\ UNCHANGED <<framer, cells, pc, cur, size, rec, next, crashes, ghostVars>>

(* open() reads the whole file and replays it; what cannot be read cannot  *)
(* be opened.                                                              *)
Open ==
  /\ ~open /\ Read(framer, cells).ok
  /\ open' = TRUE
  /\ pos' = Len(cells)
  /\ glued' = (framer = "line" /\ cells # <<>> /\ cells[Len(cells)] # NL)
  /\ acked' = Read(framer, cells).recs
  /\ whole' = Len(cells)
  /\ UNCHANGED <<framer, cells, pc, cur, size, rec, next, crashes, mixed, spanned, rivals, cut, headless>>

Next ==
  \/ \E t \in Threads :
       \/ \E kind \in Kinds : SizeCurrent(t, kind)
       \/ SizeEnd(t) \/ SizeRestore(t) \/ WriteSeek(t) \/ Write(t) \/ WriteShort(t)
  \/ Crash \/ Open

Spec == Init /\ [][Next]_vars

-----------------------------------------------------------------------------
TypeOK ==
  /\ framer \in Framers /\ pos \in 0 .. Len(cells) /\ open \in BOOLEAN
  /\ pc \in [Threads -> {"idle", "end", "restore", "seek", "write"}]
  /\ rec \in [Threads -> Records(0 .. MaxRecords)]
  /\ {mixed, spanned, rivals, cut, headless, glued} \subseteq BOOLEAN

Replayed == Read(framer, cells)

(* The log reads back, record by record, what was appended: a text log     *)
(* also when appends overlap, a binary log when they take turns.           *)
ReadsBack ==
  /\ open /\ Busy = {} /\ ~spanned /\ ~cut /\ ~glued
  /\ framer = "bin" => ~mixed
  => Replayed.ok /\ Replayed.recs = FromLastSnapshot(acked)

(* A binary log that reads without error holds every append that returned  *)
(* and nothing else: a record that landed elsewhere than it was framed for *)
(* and a write that stopped short are detected.  Two cases escape: of two  *)
(* records framed for the same place one may cover the other, and a first  *)
(* write that stopped right behind the seed leaves a well-formed empty log.*)
BinaryDetects ==
  framer = "bin" /\ open /\ Busy = {} /\ Replayed.ok /\ ~rivals /\ ~headless =>
    Replayed.recs = FromLastSnapshot(acked)

(* A record torn by a crash spoils nothing before it, and the error that   *)
(* refuses the log points at its first byte, or behind the seed.           *)
PointsAtTear ==
  ~mixed /\ ~cut /\ ~glued /\ ~Replayed.ok => Replayed.at = whole \/ (whole = 0 /\ Replayed.at = 1)

(* A write changes nothing that is in the file already, as long as no      *)
(* write returns between the first and the last lseek of another thread's  *)
(* size() call, which then restores a position that is not the end.        *)
AppendOnly == [][spanned \/ IsPrefix(cells, cells')]_vars
=============================================================================
