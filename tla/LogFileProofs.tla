--------------------------- MODULE LogFileProofs ----------------------------
(***************************************************************************)
(* Theorems about LogFile, for any number of threads, records and crashes  *)
(* and for both framers.  First: appends change nothing that is in the     *)
(* file.  Then what a log holds: a text log is made of pieces, lines and   *)
(* beginnings of lines, a binary log of frames of four cells, and from     *)
(* that follows what open() reads, and what it refuses and where.          *)
(***************************************************************************)
EXTENDS LogFile, FiniteSetTheorems, SequenceTheorems, TLAPS

Numbers == INSTANCE ListLemmas WITH Op <- Append, Origin <- <<>>

Cell ==
  {NL, PREFIX, SYNC("s"), SYNC("c")}
    \cup (Kinds \X Nat \X {1, 2}) \cup ({"sum"} \X Kinds \X Nat \X Nat)

(* The part of the types that the position in the file depends on.         *)
Typed ==
  /\ framer \in Framers /\ cells \in Seq(Cell)
  /\ pos \in 0 .. Len(cells) /\ next \in Nat /\ spanned \in BOOLEAN
  /\ pc \in [Threads -> {"idle", "end", "restore", "seek", "write"}]
  /\ cur \in [Threads -> 0 .. Len(cells)]
  /\ size \in [Threads -> Nat]
  /\ rec \in [Threads -> Records(Nat)]

(* AppendOnly is no consequence of the types: a write goes to the position *)
(* that the last lseek left, of whichever thread.  It is the end of the    *)
(* file unless a size() restores a position that a write has passed since. *)
AtEnd ==
  ~spanned => pos = Len(cells) /\ \A t \in InSize : cur[t] = Len(cells)

IInv == Typed /\ AtEnd

-----------------------------------------------------------------------------
(* Lemmas about the operators of the model *)

LEMMA MaxOfTwo ==
  ASSUME NEW m \in Nat, NEW n \in Nat
  PROVE  Max({m, n}) = IF m >= n THEN m ELSE n
<1>1. CASE m >= n
  BY <1>1 DEF Max
<1>2. CASE ~(m >= n)
  BY <1>2 DEF Max
<1>3. QED
  BY <1>1, <1>2

(* A frame consists of cells, and is not empty.                            *)
LEMMA FrameType ==
  ASSUME NEW f \in Framers, NEW r \in Records(Nat), NEW offset \in Nat
  PROVE  Frame(f, r, offset) \in Seq(Cell) /\ Len(Frame(f, r, offset)) > 0
<1>1. r.kind \in Kinds /\ r.id \in Nat
  BY DEF Records
<1>2. Payload(r) \in Seq(Cell) /\ Len(Payload(r)) = 2
  <2>1. <<r.kind, r.id, 1>> \in Cell /\ <<r.kind, r.id, 2>> \in Cell
    BY <1>1 DEF Cell
  <2>2. QED
    BY <2>1 DEF Payload
<1>3. NL \in Cell /\ PREFIX \in Cell /\ SYNC("s") \in Cell /\ SYNC(r.kind) \in Cell
  BY <1>1 DEF Cell, Kinds
<1>4. LineFrame(r) \in Seq(Cell) /\ Len(LineFrame(r)) > 0
  <2> DEFINE prefix == IF r.kind = "s" THEN <<PREFIX>> ELSE <<>>
  <2>1. prefix \in Seq(Cell) /\ Len(prefix) \in Nat
    BY <1>3
  <2>2. <<NL>> \in Seq(Cell) /\ Len(<<NL>>) = 1
    BY <1>3
  <2>3. LineFrame(r) = prefix \o Payload(r) \o <<NL>>
    BY DEF LineFrame
  <2> HIDE DEF prefix
  <2>4. QED
    BY <1>2, <2>1, <2>2, <2>3
<1>5. BinFrame(r, offset) \in Seq(Cell) /\ Len(BinFrame(r, offset)) > 0
  <2> DEFINE start == IF offset = 0 THEN 1 ELSE offset
             seed  == IF offset = 0 THEN <<SYNC("s")>> ELSE <<>>
             head  == <<SYNC(r.kind), Sum(r, start)>>
  <2>1. seed \in Seq(Cell) /\ Len(seed) \in Nat
    BY <1>3
  <2>2. Sum(r, start) \in Cell
    BY <1>1 DEF Sum, Cell
  <2>3. head \in Seq(Cell) /\ Len(head) = 2
    BY <1>3, <2>2
  <2>4. BinFrame(r, offset) = seed \o head \o Payload(r)
    BY DEF BinFrame
  <2> HIDE DEF seed, head
  <2>5. QED
    BY <1>2, <2>1, <2>3, <2>4
<1>6. QED
  BY <1>4, <1>5 DEF Frame

(* os.write anywhere within the file keeps a file, which grows to hold the *)
(* data; at its end it appends.                                            *)
LEMMA PutAppends ==
  ASSUME Typed, NEW t \in Threads, NEW n \in 1 .. FrameLen(t), Put(t, n)
  PROVE  /\ cells' \in Seq(Cell)
         /\ pos' \in 0 .. Len(cells')
         /\ Len(cells) <= Len(cells')
         /\ pos = Len(cells) => pos' = Len(cells') /\ IsPrefix(cells, cells')
<1> DEFINE frame == Frame(framer, rec[t], size[t])
           data  == SubSeq(frame, 1, n)
           end   == Max({Len(cells), pos + n})
<1>1. frame \in Seq(Cell) /\ Len(frame) \in Nat
  BY FrameType DEF Typed
<1>2. n \in 1 .. Len(frame)
  BY DEF FrameLen
<1>3. \A i \in 1 .. n : data[i] \in Cell
  <2> HIDE DEF frame
  <2>1. QED
    BY <1>1, <1>2
<1>4. pos \in Nat /\ n \in Nat /\ Len(cells) \in Nat /\ pos <= Len(cells)
  BY <1>1, <1>2 DEF Typed
<1>5. end = IF Len(cells) >= pos + n THEN Len(cells) ELSE pos + n
  BY <1>4, MaxOfTwo
<1>6. /\ cells' = [i \in 1 .. end |-> IF i \in pos + 1 .. pos + n THEN data[i - pos] ELSE cells[i]]
      /\ pos' = pos + n
  BY DEF Put
<1> HIDE DEF frame, data, end
<1>7. end \in Nat /\ end >= Len(cells) /\ end >= pos + n
  BY <1>4, <1>5
<1>8. \A i \in 1 .. end : (IF i \in pos + 1 .. pos + n THEN data[i - pos] ELSE cells[i]) \in Cell
  <2> TAKE i \in 1 .. end
  <2>1. CASE i \in pos + 1 .. pos + n
    <3>1. i - pos \in 1 .. n
      BY <1>4, <1>7, <2>1
    <3>2. QED
      BY <1>3, <2>1, <3>1
  <2>2. CASE i \notin pos + 1 .. pos + n
    <3>1. i \in 1 .. Len(cells)
      BY <1>4, <1>5, <1>7, <2>2
    <3>2. QED
      BY <2>2, <3>1 DEF Typed
  <2>3. QED
    BY <2>1, <2>2
<1>9. cells' \in Seq(Cell) /\ Len(cells') = end
  BY <1>6, <1>7, <1>8
<1>10. ASSUME pos = Len(cells)
       PROVE  pos' = Len(cells') /\ IsPrefix(cells, cells')
  <2>1. pos' = Len(cells')
    BY <1>4, <1>5, <1>6, <1>9, <1>10
  <2>2. \A i \in 1 .. Len(cells) : cells'[i] = cells[i]
    BY <1>4, <1>6, <1>7, <1>10
  <2>3. SubSeq(cells, 1, Len(cells)) = SubSeq(cells', 1, Len(cells))
    BY <1>4, <1>7, <1>9, <2>2 DEF Typed
  <2>4. QED
    BY <1>7, <1>9, <2>1, <2>3 DEF IsPrefix
<1>11. QED
  BY <1>4, <1>6, <1>7, <1>9, <1>10

(* A step that leaves the file alone.                                      *)
LEMMA SameIsPrefix ==
  ASSUME Typed, cells' = cells
  PROVE  IsPrefix(cells, cells')
BY DEF Typed, IsPrefix

-----------------------------------------------------------------------------
(* The steps *)

LEMMA InitHolds ==
  ASSUME Init
  PROVE  IInv
<1>1. <<>> \in Seq(Cell) /\ Len(<<>>) = 0
  OBVIOUS
<1>2. NoRecord \in Records(Nat)
  BY DEF NoRecord, Records, Kinds
<1>3. Len(cells) = 0 /\ cells \in Seq(Cell)
  BY <1>1 DEF Init
<1>4. Typed
  <2>1. framer \in Framers /\ next \in Nat /\ spanned \in BOOLEAN
    BY DEF Init
  <2>2. /\ pc \in [Threads -> {"idle", "end", "restore", "seek", "write"}]
        /\ size \in [Threads -> Nat]
    BY DEF Init
  <2>3. rec \in [Threads -> Records(Nat)]
    BY <1>2 DEF Init
  <2>4. pos \in 0 .. Len(cells) /\ cur \in [Threads -> 0 .. Len(cells)]
    <3>1. 0 \in 0 .. Len(cells)
      BY <1>3
    <3>2. pos = 0 /\ cur = [t \in Threads |-> 0]
      BY DEF Init
    <3>3. QED
      BY <3>1, <3>2
  <2>5. QED
    BY <1>3, <2>1, <2>2, <2>3, <2>4 DEF Typed
<1>5. AtEnd
  BY <1>3 DEF Init, AtEnd, InSize
<1>6. QED
  BY <1>4, <1>5 DEF IInv

(* size(), and the lseek of write(), move the position to the end or back  *)
(* to where it was.                                                        *)
LEMMA SeekHolds ==
  ASSUME IInv, NEW t \in Threads,
         (\E kind \in Kinds : SizeCurrent(t, kind)) \/ SizeEnd(t) \/ SizeRestore(t) \/ WriteSeek(t)
  PROVE  IInv' /\ cells' = cells
<1>1. Len(cells) \in Nat
  BY DEF IInv, Typed
<1>2. ASSUME NEW kind \in Kinds, SizeCurrent(t, kind)
      PROVE  IInv' /\ cells' = cells
  <2>1. [kind |-> kind, id |-> next] \in Records(Nat)
    BY DEF Records, IInv, Typed
  <2>2. Typed'
    BY <1>1, <1>2, <2>1 DEF SizeCurrent, Goto, IInv, Typed
  <2>3. AtEnd'
    BY <1>2 DEF SizeCurrent, Goto, IInv, Typed, AtEnd, InSize
  <2>4. QED
    BY <1>2, <2>2, <2>3 DEF SizeCurrent, IInv
<1>3. CASE SizeEnd(t)
  <2>1. Typed'
    BY <1>1, <1>3 DEF SizeEnd, Goto, IInv, Typed
  <2>2. AtEnd'
    BY <1>3 DEF SizeEnd, Goto, IInv, Typed, AtEnd, InSize
  <2>3. QED
    BY <1>3, <2>1, <2>2 DEF SizeEnd, IInv
<1>4. CASE SizeRestore(t)
  <2>1. Typed'
    BY <1>1, <1>4 DEF SizeRestore, Goto, IInv, Typed, ghostVars
  <2>2. AtEnd'
    BY <1>4 DEF SizeRestore, Goto, IInv, Typed, AtEnd, InSize, ghostVars
  <2>3. QED
    BY <1>4, <2>1, <2>2 DEF SizeRestore, IInv
<1>5. CASE WriteSeek(t)
  <2>1. Typed'
    BY <1>1, <1>5 DEF WriteSeek, Goto, IInv, Typed, ghostVars
  <2>2. AtEnd'
    BY <1>5 DEF WriteSeek, Goto, IInv, Typed, AtEnd, InSize, ghostVars
  <2>3. QED
    BY <1>5, <2>1, <2>2 DEF WriteSeek, IInv
<1>6. QED
  BY <1>2, <1>3, <1>4, <1>5

(* os.write, whole or short: whoever is inside size() meanwhile is noted.  *)
LEMMA WriteHolds ==
  ASSUME IInv, NEW t \in Threads, Write(t) \/ WriteShort(t)
  PROVE  IInv' /\ (spanned \/ IsPrefix(cells, cells'))
<1>1. PICK n \in 1 .. FrameLen(t) : Put(t, n)
  <2>1. Frame(framer, rec[t], size[t]) \in Seq(Cell) /\ FrameLen(t) > 0
    BY FrameType DEF IInv, Typed, FrameLen
  <2>2. FrameLen(t) \in 1 .. FrameLen(t) /\ 1 .. FrameLen(t) - 1 \subseteq 1 .. FrameLen(t)
    BY <2>1 DEF FrameLen
  <2>3. QED
    BY <2>2 DEF Write, WriteShort
<1>2. /\ cells' \in Seq(Cell) /\ pos' \in 0 .. Len(cells') /\ Len(cells) <= Len(cells')
      /\ pos = Len(cells) => pos' = Len(cells') /\ IsPrefix(cells, cells')
  BY <1>1, PutAppends DEF IInv
<1>3. /\ UNCHANGED <<framer, cur, size, rec, next>>
      /\ spanned' = (spanned \/ InSize \ {t} # {})
      /\ pc[t] = "write" /\ pc' = [pc EXCEPT ![t] = "idle"]
  BY DEF Write, WriteShort, Goto
<1>4. Typed'
  <2>1. cur' \in [Threads -> 0 .. Len(cells')]
    <3>1. Len(cells) \in Nat /\ Len(cells') \in Nat
      BY <1>2 DEF IInv, Typed
    <3>2. QED
      BY <1>2, <1>3, <3>1 DEF IInv, Typed
  <2>2. QED
    BY <1>2, <1>3, <2>1 DEF IInv, Typed
<1>5. ~spanned' => InSize' = {}
  BY <1>3 DEF InSize, IInv, Typed
<1>6. AtEnd'
  BY <1>2, <1>3, <1>5 DEF AtEnd, IInv
<1>7. QED
  BY <1>2, <1>4, <1>6 DEF IInv, AtEnd

LEMMA CrashHolds ==
  ASSUME IInv, Crash
  PROVE  IInv' /\ (spanned \/ IsPrefix(cells, cells'))
<1>1. /\ UNCHANGED <<framer, cur, size, rec, next, spanned>>
      /\ pc' = [t \in Threads |-> "idle"]
  BY DEF Crash, ghostVars
<1>2. /\ cells' \in Seq(Cell) /\ pos' \in 0 .. Len(cells') /\ Len(cells) <= Len(cells')
      /\ pos = Len(cells) => pos' = Len(cells') /\ IsPrefix(cells, cells')
  <2>1. CASE UNCHANGED fileVars
    <3>1. cells' = cells /\ pos' = pos
      BY <2>1 DEF fileVars
    <3>2. IsPrefix(cells, cells')
      BY <3>1, SameIsPrefix DEF IInv
    <3>3. QED
      BY <3>1, <3>2 DEF IInv, Typed
  <2>2. CASE \E t \in Threads : \E n \in 1 .. FrameLen(t) : Put(t, n)
    BY <2>2, PutAppends DEF IInv
  <2>3. QED
    BY <2>1, <2>2 DEF Crash
<1>3. Typed'
  <2>1. Len(cells) \in Nat /\ Len(cells') \in Nat
    BY <1>2 DEF IInv, Typed
  <2>2. cur' \in [Threads -> 0 .. Len(cells')]
    BY <1>1, <1>2, <2>1 DEF IInv, Typed
  <2>3. QED
    BY <1>1, <1>2, <2>2 DEF IInv, Typed
<1>4. InSize' = {}
  BY <1>1 DEF InSize
<1>5. AtEnd'
  BY <1>1, <1>2, <1>4 DEF AtEnd, IInv
<1>6. QED
  BY <1>2, <1>3, <1>5 DEF IInv, AtEnd

LEMMA OpenHolds ==
  ASSUME IInv, Open
  PROVE  IInv' /\ cells' = cells
<1>1. UNCHANGED <<framer, cells, pc, cur, size, rec, next, spanned>> /\ pos' = Len(cells)
  BY DEF Open
<1>2. pos' \in 0 .. Len(cells')
  BY <1>1 DEF IInv, Typed
<1>3. Typed'
  BY <1>1, <1>2 DEF IInv, Typed
<1>4. AtEnd'
  BY <1>1 DEF IInv, AtEnd, InSize
<1>5. QED
  BY <1>1, <1>3, <1>4 DEF IInv

LEMMA NextHolds ==
  ASSUME IInv, [Next]_vars
  PROVE  IInv' /\ (spanned \/ IsPrefix(cells, cells'))
<1>1. CASE UNCHANGED vars
  <2>1. cells' = cells
    BY <1>1 DEF vars
  <2>2. IInv'
    BY <1>1 DEF vars, IInv, Typed, AtEnd, InSize
  <2>3. QED
    BY <2>1, <2>2, SameIsPrefix DEF IInv
<1>2. ASSUME NEW t \in Threads,
             (\E kind \in Kinds : SizeCurrent(t, kind)) \/ SizeEnd(t) \/ SizeRestore(t) \/ WriteSeek(t)
      PROVE  IInv' /\ IsPrefix(cells, cells')
  BY <1>2, SeekHolds, SameIsPrefix DEF IInv
<1>3. ASSUME NEW t \in Threads, Write(t) \/ WriteShort(t)
      PROVE  IInv' /\ (spanned \/ IsPrefix(cells, cells'))
  BY <1>3, WriteHolds
<1>4. CASE Crash
  BY <1>4, CrashHolds
<1>5. CASE Open
  BY <1>5, OpenHolds, SameIsPrefix DEF IInv
<1>6. QED
  BY <1>1, <1>2, <1>3, <1>4, <1>5 DEF Next

(* LockedFile.write appends: whatever the threads of the process do, and   *)
(* wherever it dies, what is in the file stays as it is; until a write     *)
(* returns between the first and the last lseek of another thread's size().*)
THEOREM AppendOnlyAlways == Spec => AppendOnly
<1>1. Init => IInv
  BY InitHolds
<1>2. IInv /\ [Next]_vars => IInv' /\ [spanned \/ IsPrefix(cells, cells')]_vars
  BY NextHolds
<1>3. QED
  BY <1>1, <1>2, PTL DEF Spec, AppendOnly

-----------------------------------------------------------------------------
(* The greatest and the least number of a set. *)
LEMMA MaxIs ==
  ASSUME NEW N \in Nat, NEW S \in SUBSET (0 .. N), S # {}
  PROVE  Max(S) \in S /\ \A x \in S : x <= Max(S)
<1>1. Numbers!Max(S) \in S /\ \A x \in S : Numbers!Max(S) >= x
  BY Numbers!MaxFinds
<1>2. Max(S) = Numbers!Max(S)
  BY DEF Max, Numbers!Max
<1>3. \A x \in S : x \in Int
  OBVIOUS
<1>4. QED
  BY <1>1, <1>2, <1>3

LEMMA MinIs ==
  ASSUME NEW S \in SUBSET Nat, S # {}
  PROVE  Min(S) \in S /\ \A x \in S : Min(S) <= x
<1>1. Numbers!Min(S) \in S /\ \A x \in S : Numbers!Min(S) <= x
  BY Numbers!MinFinds
<1>2. Min(S) = Numbers!Min(S)
  BY DEF Min, Numbers!Min
<1>3. QED
  BY <1>1, <1>2

-----------------------------------------------------------------------------
(* What a frame of the text format is made of *)

Part(r, n) == <<r.kind, r.id, n>>

LEMMA CellsDiffer ==
  ASSUME NEW k, NEW n, NEW p
  PROVE  /\ <<k, n, p>> # NL /\ <<k, n, p>> # PREFIX /\ NL # PREFIX
         /\ \A kind : SYNC(kind) # <<k, n, p>>
         /\ \A kind, a, b, c : SYNC(kind) # <<"sum", a, b, c>>
<1>1. Len(<<k, n, p>>) = 3 /\ Len(NL) = 1 /\ Len(PREFIX) = 1
  BY DEF NL, PREFIX
<1>2. NL[1] = "newline" /\ PREFIX[1] = "SNAPSHOT"
  BY DEF NL, PREFIX
<1>3. \A kind : Len(SYNC(kind)) = 1
  BY DEF SYNC
<1>4. \A a, b, c : Len(<<"sum", a, b, c>>) = 4
  OBVIOUS
<1>5. <<k, n, p>> # NL /\ <<k, n, p>> # PREFIX
  BY <1>1
<1>6. NL # PREFIX
  BY <1>2
<1>7. \A kind : SYNC(kind) # <<k, n, p>>
  BY <1>1, <1>3
<1>8. \A kind, a, b, c : SYNC(kind) # <<"sum", a, b, c>>
  BY <1>3, <1>4
<1>9. QED
  BY <1>5, <1>6, <1>7, <1>8

LEMMA SameParts ==
  ASSUME NEW k, NEW n, NEW p, NEW k2, NEW n2, NEW p2, <<k, n, p>> = <<k2, n2, p2>>
  PROVE  k = k2 /\ n = n2 /\ p = p2
OBVIOUS

LEMMA TwoJoined ==
  ASSUME NEW b, NEW c, NEW d, NEW f, f = <<>> \o <<b, c>> \o <<d>>
  PROVE  Len(f) = 3 /\ f[1] = b /\ f[2] = c /\ f[3] = d
<1> DEFINE S == {b, c, d}
<1>1. <<b, c>> \in Seq(S) /\ <<d>> \in Seq(S) /\ Len(<<b, c>>) = 2 /\ Len(<<d>>) = 1
  OBVIOUS
<1>2. f = <<b, c>> \o <<d>>
  <2> HIDE DEF S
  <2>1. <<>> \o <<b, c>> = <<b, c>>
    BY <1>1, ConcatEmptySeq
  <2>2. QED
    BY <2>1
<1>3. QED
  BY <1>1, <1>2

LEMMA ThreeJoined ==
  ASSUME NEW a, NEW b, NEW c, NEW d, NEW f, f = <<a>> \o <<b, c>> \o <<d>>
  PROVE  Len(f) = 4 /\ f[1] = a /\ f[2] = b /\ f[3] = c /\ f[4] = d
<1> DEFINE S == {a, b, c, d}
           g == <<a>> \o <<b, c>>
<1>1. /\ <<a>> \in Seq(S) /\ <<b, c>> \in Seq(S) /\ <<d>> \in Seq(S)
      /\ Len(<<a>>) = 1 /\ Len(<<b, c>>) = 2 /\ Len(<<d>>) = 1
  OBVIOUS
<1>2. g \in Seq(S) /\ Len(g) = 3 /\ g[1] = a /\ g[2] = b /\ g[3] = c
  BY <1>1
<1>3. f = g \o <<d>>
  OBVIOUS
<1> HIDE DEF g
<1>4. QED
  BY <1>1, <1>2, <1>3

(* A line: its first cell begins a payload or is the prefix, its last one,  *)
(* and no other, is the newline.                                           *)
LineShape(r) ==
  LET f == LineFrame(r)
  IN /\ f \in Seq(Cell)
     /\ r.kind = "s" => /\ Len(f) = 4 /\ f[1] = PREFIX
                        /\ f[2] = Part(r, 1) /\ f[3] = Part(r, 2) /\ f[4] = NL
     /\ r.kind = "c" => Len(f) = 3 /\ f[1] = Part(r, 1) /\ f[2] = Part(r, 2) /\ f[3] = NL

LEMMA LineFrameIs ==
  ASSUME NEW r \in Records(Nat)
  PROVE  LineShape(r) /\ (r.kind = "s" \/ r.kind = "c") /\ r.id \in Nat
<1>1. (r.kind = "s" \/ r.kind = "c") /\ r.id \in Nat /\ r.kind \in Kinds
  BY DEF Records, Kinds
<1>2. Payload(r) = <<Part(r, 1), Part(r, 2)>>
  BY DEF Payload, Part
<1>3. LineFrame(r) \in Seq(Cell)
  <2>1. "line" \in Framers /\ 0 \in Nat
    BY DEF Framers
  <2>2. Frame("line", r, 0) \in Seq(Cell)
    BY <2>1, FrameType
  <2>3. QED
    BY <2>2 DEF Frame
<1>4. CASE r.kind = "s"
  <2>1. LineFrame(r) = <<PREFIX>> \o <<Part(r, 1), Part(r, 2)>> \o <<NL>>
    BY <1>2, <1>4 DEF LineFrame
  <2>2. /\ Len(LineFrame(r)) = 4 /\ LineFrame(r)[1] = PREFIX
        /\ LineFrame(r)[2] = Part(r, 1) /\ LineFrame(r)[3] = Part(r, 2) /\ LineFrame(r)[4] = NL
    <3> DEFINE p == PREFIX
               q == NL
               f == LineFrame(r)
    <3>1. f = <<p>> \o <<Part(r, 1), Part(r, 2)>> \o <<q>>
      BY <2>1
    <3> HIDE DEF p, q, f
    <3>2. Len(f) = 4 /\ f[1] = p /\ f[2] = Part(r, 1) /\ f[3] = Part(r, 2) /\ f[4] = q
      BY <3>1, ThreeJoined
    <3>3. QED
      BY <3>2 DEF p, q, f
  <2>3. QED
    BY <1>1, <1>3, <1>4, <2>2 DEF LineShape
<1>5. CASE r.kind = "c"
  <2>1. LineFrame(r) = <<>> \o <<Part(r, 1), Part(r, 2)>> \o <<NL>>
    BY <1>2, <1>5 DEF LineFrame
  <2>2. /\ Len(LineFrame(r)) = 3 /\ LineFrame(r)[1] = Part(r, 1)
        /\ LineFrame(r)[2] = Part(r, 2) /\ LineFrame(r)[3] = NL
    BY <2>1, TwoJoined
  <2>3. QED
    BY <1>1, <1>3, <1>5, <2>2 DEF LineShape
<1>6. QED
  BY <1>1, <1>4, <1>5

LEMMA LineCells ==
  ASSUME NEW r \in Records(Nat)
  PROVE  LET f == LineFrame(r)
         IN /\ Len(f) \in 3 .. 4
            /\ \A x \in 1 .. Len(f) : (f[x] = NL <=> x = Len(f)) /\ (f[x] = PREFIX <=> x = 1 /\ r.kind = "s")
            /\ f[1] = PREFIX \/ f[1] = <<"c", r.id, 1>>
<1> DEFINE f == LineFrame(r)
<1>1. LineShape(r) /\ (r.kind = "s" \/ r.kind = "c")
  BY LineFrameIs
<1>2. \A n : Part(r, n) # NL /\ Part(r, n) # PREFIX /\ NL # PREFIX
  BY CellsDiffer DEF Part
<1>3. CASE r.kind = "s"
  <2>1. Len(f) = 4 /\ f[1] = PREFIX /\ f[2] = Part(r, 1) /\ f[3] = Part(r, 2) /\ f[4] = NL
    BY <1>1, <1>3 DEF LineShape
  <2> HIDE DEF f
  <2>2. \A x \in 1 .. 4 : x = 1 \/ x = 2 \/ x = 3 \/ x = 4
    OBVIOUS
  <2>3. \A x \in 1 .. 4 : (f[x] = NL <=> x = 4) /\ (f[x] = PREFIX <=> x = 1)
    BY <1>2, <2>1, <2>2
  <2>4. QED
    BY <1>3, <2>1, <2>3 DEF f
<1>4. CASE r.kind = "c"
  <2>1. Len(f) = 3 /\ f[1] = Part(r, 1) /\ f[2] = Part(r, 2) /\ f[3] = NL
    BY <1>1, <1>4 DEF LineShape
  <2> HIDE DEF f
  <2>2. \A x \in 1 .. 3 : x = 1 \/ x = 2 \/ x = 3
    OBVIOUS
  <2>3. \A x \in 1 .. 3 : (f[x] = NL <=> x = 3) /\ f[x] # PREFIX
    BY <1>2, <2>1, <2>2
  <2>4. f[1] = <<"c", r.id, 1>>
    BY <1>4, <2>1 DEF Part
  <2>5. r.kind # "s"
    BY <1>4
  <2>6. QED
    BY <2>1, <2>3, <2>4, <2>5 DEF f
<1>5. QED
  BY <1>1, <1>3, <1>4

-----------------------------------------------------------------------------
(* The records from the last snapshot on *)

Snaps(recs) == {i \in 1 .. Len(recs) : recs[i].kind = "s"}

LEMMA FromLastIs ==
  ASSUME NEW recs \in Seq(Records(Nat))
  PROVE  /\ Snaps(recs) = {} => FromLastSnapshot(recs) = recs
         /\ \A l \in Snaps(recs) :
              (\A i \in Snaps(recs) : i <= l) => FromLastSnapshot(recs) = SubSeq(recs, l, Len(recs))
<1> DEFINE S == {i \in 1 .. Len(recs) : recs[i].kind = "s"}
           last == IF S # {} THEN Max(S) ELSE 0
<1>1. SelectLastInSeq(recs, LAMBDA r : r.kind = "s") = last
  BY DEF SelectLastInSeq
<1>2. FromLastSnapshot(recs) = IF last = 0 THEN recs ELSE SubSeq(recs, last, Len(recs))
  BY <1>1 DEF FromLastSnapshot
<1>3. S = Snaps(recs)
  BY DEF Snaps
<1>4. ASSUME NEW l \in Snaps(recs), \A i \in Snaps(recs) : i <= l
      PROVE  last = l /\ l # 0
  <2>1. S # {} /\ l \in S /\ \A i \in S : i \in Int /\ i <= l
    BY <1>3, <1>4
  <2> HIDE DEF S
  <2>2. Max(S) = l
    <3>1. \A x \in S : (\A y \in S : x >= y) => x = l
      BY <2>1
    <3>2. \A y \in S : l >= y
      BY <2>1
    <3>3. QED
      BY <2>1, <3>1, <3>2 DEF Max
  <2>3. l # 0
    BY <1>4 DEF Snaps
  <2>4. QED
    BY <2>1, <2>2, <2>3
<1> HIDE DEF last
<1>5. Snaps(recs) = {} => last = 0
  BY <1>3 DEF last
<1>6. QED
  BY <1>2, <1>4, <1>5

LEMMA LastExists ==
  ASSUME NEW recs \in Seq(Records(Nat)), Snaps(recs) # {}
  PROVE  \E l \in Snaps(recs) : \A i \in Snaps(recs) : i <= l
<1>1. Len(recs) \in Nat
  OBVIOUS
<1>2. Snaps(recs) \in SUBSET (0 .. Len(recs))
  BY <1>1 DEF Snaps
<1>3. Max(Snaps(recs)) \in Snaps(recs) /\ \A x \in Snaps(recs) : x <= Max(Snaps(recs))
  BY <1>1, <1>2, MaxIs
<1>4. QED
  BY <1>3

LEMMA SubSeqAppend ==
  ASSUME NEW S, NEW s \in Seq(S), NEW r \in S, NEW l \in 1 .. Len(s) + 1
  PROVE  SubSeq(Append(s, r), l, Len(s) + 1) = Append(SubSeq(s, l, Len(s)), r)
<1> DEFINE n == Len(s)
           all == Append(s, r)
           a == SubSeq(all, l, n + 1)
           b == SubSeq(s, l, n)
           c == Append(b, r)
<1>1. /\ n \in Nat /\ all \in Seq(S) /\ Len(all) = n + 1 /\ l \in 1 .. n + 1
      /\ \A i \in 1 .. n : all[i] = s[i]
      /\ all[n + 1] = r
  OBVIOUS
<1> HIDE DEF all
<1>2. /\ a \in Seq(S) /\ Len(a) = n + 2 - l
      /\ \A i \in 1 .. n + 2 - l : a[i] = all[l + i - 1]
  BY <1>1
<1>3. /\ b \in Seq(S) /\ Len(b) = n + 1 - l
      /\ \A i \in 1 .. n + 1 - l : b[i] = s[l + i - 1]
  BY <1>1
<1> HIDE DEF a, b
<1>4. /\ c \in Seq(S) /\ Len(c) = n + 2 - l
      /\ \A i \in 1 .. n + 1 - l : c[i] = b[i]
      /\ c[n + 2 - l] = r
  BY <1>1, <1>3
<1> HIDE DEF c
<1>5. \A i \in 1 .. n + 2 - l : a[i] = c[i]
  <2> TAKE i \in 1 .. n + 2 - l
  <2>1. CASE i = n + 2 - l
    BY <1>1, <1>2, <1>4, <2>1
  <2>2. CASE i # n + 2 - l
    <3>1. i \in 1 .. n + 1 - l /\ l + i - 1 \in 1 .. n
      BY <1>1, <2>2
    <3>2. QED
      BY <1>1, <1>2, <1>3, <1>4, <3>1
  <2>3. QED
    BY <2>1, <2>2
<1>6. a = c
  BY <1>2, <1>4, <1>5, SeqEqual
<1>7. QED
  BY <1>6 DEF a, b, c, all

(* A snapshot stands for all before it, a change follows them. *)
LEMMA FromLastAppend ==
  ASSUME NEW recs \in Seq(Records(Nat)), NEW r \in Records(Nat)
  PROVE  FromLastSnapshot(Append(recs, r)) =
           IF r.kind = "s" THEN <<r>> ELSE Append(FromLastSnapshot(recs), r)
<1> DEFINE n == Len(recs)
           all == Append(recs, r)
<1>1. /\ n \in Nat /\ all \in Seq(Records(Nat)) /\ Len(all) = n + 1
      /\ \A i \in 1 .. n : all[i] = recs[i]
      /\ all[n + 1] = r
  OBVIOUS
<1> HIDE DEF all
<1>2. CASE r.kind = "s"
  <2>1. n + 1 \in Snaps(all) /\ \A i \in Snaps(all) : i <= n + 1
    BY <1>1, <1>2 DEF Snaps
  <2>2. FromLastSnapshot(all) = SubSeq(all, n + 1, Len(all))
    BY <1>1, <2>1, FromLastIs
  <2>3. SubSeq(all, n + 1, n + 1) = <<r>>
    <3> DEFINE a == SubSeq(all, n + 1, n + 1)
               b == <<r>>
    <3>1. a \in Seq(Records(Nat)) /\ Len(a) = 1 /\ a[1] = r
      BY <1>1
    <3>2. b \in Seq(Records(Nat)) /\ Len(b) = 1 /\ b[1] = r
      OBVIOUS
    <3> HIDE DEF a, b
    <3>3. \A i \in 1 .. Len(a) : a[i] = b[i]
      BY <3>1, <3>2
    <3>4. a = b
      BY <3>1, <3>2, <3>3, SeqEqual
    <3>5. QED
      BY <3>4 DEF a, b
  <2>4. QED
    BY <1>1, <1>2, <2>2, <2>3 DEF all
<1>3. CASE r.kind # "s"
  <2>1. Snaps(all) = Snaps(recs)
    BY <1>1, <1>3 DEF Snaps
  <2>2. CASE Snaps(recs) = {}
    BY <1>1, <1>3, <2>1, <2>2, FromLastIs DEF all
  <2>3. CASE Snaps(recs) # {}
    <3>1. PICK l \in Snaps(recs) : \A i \in Snaps(recs) : i <= l
      BY <2>3, LastExists
    <3>2. FromLastSnapshot(recs) = SubSeq(recs, l, n)
      BY <3>1, FromLastIs
    <3>3. FromLastSnapshot(all) = SubSeq(all, l, n + 1)
      BY <1>1, <2>1, <3>1, FromLastIs
    <3>4. l \in 1 .. n
      BY <3>1 DEF Snaps
    <3>5. SubSeq(all, l, n + 1) = Append(SubSeq(recs, l, n), r)
      BY <3>4, SubSeqAppend DEF all
    <3>6. QED
      BY <1>3, <3>2, <3>3, <3>5 DEF all
  <2>4. QED
    BY <2>2, <2>3
<1>4. QED
  BY <1>2, <1>3

LEMMA FromLastTwice ==
  ASSUME NEW recs \in Seq(Records(Nat))
  PROVE  /\ FromLastSnapshot(recs) \in Seq(Records(Nat))
         /\ FromLastSnapshot(FromLastSnapshot(recs)) = FromLastSnapshot(recs)
<1>1. CASE Snaps(recs) = {}
  BY <1>1, FromLastIs
<1>2. CASE Snaps(recs) # {}
  <2>1. PICK l \in Snaps(recs) : \A i \in Snaps(recs) : i <= l
    BY <1>2, LastExists
  <2> DEFINE n == Len(recs)
             tail == SubSeq(recs, l, n)
  <2>2. FromLastSnapshot(recs) = tail
    BY <2>1, FromLastIs
  <2>3. l \in 1 .. n /\ n \in Nat /\ recs[l].kind = "s"
    BY <2>1 DEF Snaps
  <2>4. /\ tail \in Seq(Records(Nat)) /\ Len(tail) = n - l + 1
        /\ \A i \in 1 .. n - l + 1 : tail[i] = recs[l + i - 1]
    BY <2>3
  <2> HIDE DEF tail
  <2>5. 1 \in Snaps(tail)
    BY <2>3, <2>4 DEF Snaps
  <2>6. \A i \in Snaps(tail) : i <= 1
    <3> SUFFICES ASSUME NEW i \in Snaps(tail) PROVE i <= 1
      OBVIOUS
    <3>1. i \in 1 .. n - l + 1 /\ tail[i].kind = "s"
      BY <2>4 DEF Snaps
    <3>2. l + i - 1 \in Snaps(recs)
      BY <2>3, <2>4, <3>1 DEF Snaps
    <3>3. l + i - 1 <= l
      BY <2>1, <3>2
    <3>4. QED
      BY <2>3, <3>1, <3>3
  <2>7. FromLastSnapshot(tail) = SubSeq(tail, 1, Len(tail))
    BY <2>4, <2>5, <2>6, FromLastIs
  <2>8. SubSeq(tail, 1, Len(tail)) = tail
    BY <2>4
  <2>9. QED
    BY <2>2, <2>4, <2>7, <2>8
<1>3. QED
  BY <1>1, <1>2

-----------------------------------------------------------------------------
(* InOrder finds the one ascending enumeration. *)
LEMMA InOrderIs ==
  ASSUME NEW N \in Nat, NEW a \in [1 .. N -> Nat],
         \A i, j \in 1 .. N : i < j => a[i] < a[j],
         NEW S, S = {a[i] : i \in 1 .. N}
  PROVE  Cardinality(S) = N /\ InOrder(S) = a
<1>1. Numbers!Cardinality(S) = Cardinality(S)
  BY DEF Numbers!Cardinality, Cardinality
<1>2. Numbers!InOrder(S) = InOrder(S)
  BY <1>1 DEF Numbers!InOrder, InOrder
<1>3. Numbers!Cardinality(S) = N /\ Numbers!InOrder(S) = a
  BY Numbers!InOrderIs
<1>4. QED
  BY <1>1, <1>2, <1>3

-----------------------------------------------------------------------------
(* A text file is made of pieces: piece i ends at e[i] and is the line of  *)
(* record rs[i], or a beginning of it that a crash or a short write left.  *)
Pieces(c, rs, e) ==
  /\ c \in Seq(Cell) /\ rs \in Seq(Records(Nat))
  /\ e \in [0 .. Len(rs) -> Nat] /\ e[0] = 0 /\ e[Len(rs)] = Len(c)
  /\ \A i, j \in 0 .. Len(rs) : i < j => e[i] < e[j]
  /\ \A i \in 1 .. Len(rs) :
       /\ e[i] - e[i - 1] <= Len(LineFrame(rs[i]))
       /\ \A x \in 1 .. e[i] - e[i - 1] : c[e[i - 1] + x] = LineFrame(rs[i])[x]

Full(rs, e, i) == e[i] - e[i - 1] = Len(LineFrame(rs[i]))

LEMMA PiecesTypes ==
  ASSUME NEW c, NEW rs, NEW e, Pieces(c, rs, e)
  PROVE  /\ Len(rs) \in Nat /\ Len(c) \in Nat
         /\ \A i \in 0 .. Len(rs) : e[i] \in Nat /\ e[i] <= Len(c)
         /\ \A i \in 1 .. Len(rs) : /\ i - 1 \in 0 .. Len(rs) /\ i \in 0 .. Len(rs) /\ rs[i] \in Records(Nat)
                                    /\ e[i - 1] < e[i] /\ e[i] - e[i - 1] \in 1 .. Len(LineFrame(rs[i]))
<1>1. /\ Len(rs) \in Nat /\ Len(c) \in Nat /\ \A i \in 0 .. Len(rs) : e[i] \in Nat
      /\ Len(rs) \in 0 .. Len(rs)
      /\ \A i \in 1 .. Len(rs) : i - 1 \in 0 .. Len(rs) /\ i \in 0 .. Len(rs) /\ i - 1 < i /\ rs[i] \in Records(Nat)
  <2>1. c \in Seq(Cell) /\ rs \in Seq(Records(Nat)) /\ e \in [0 .. Len(rs) -> Nat]
    BY DEF Pieces
  <2>2. Len(rs) \in Nat /\ Len(c) \in Nat /\ \A i \in 1 .. Len(rs) : rs[i] \in Records(Nat)
    BY <2>1
  <2>3. \A i \in 1 .. Len(rs) : i - 1 \in 0 .. Len(rs) /\ i \in 0 .. Len(rs) /\ i - 1 < i
    BY <2>2
  <2>4. \A i \in 0 .. Len(rs) : e[i] \in Nat
    BY <2>1
  <2>5. Len(rs) \in 0 .. Len(rs)
    BY <2>2
  <2>6. QED
    BY <2>2, <2>3, <2>4, <2>5
<1>2. \A i \in 0 .. Len(rs) : e[i] <= Len(c)
  <2> TAKE i \in 0 .. Len(rs)
  <2>1. i = Len(rs) \/ i < Len(rs)
    BY <1>1
  <2>2. e[Len(rs)] = Len(c) /\ (i < Len(rs) => e[i] < e[Len(rs)])
    BY <1>1 DEF Pieces
  <2>3. QED
    BY <1>1, <2>1, <2>2
<1>3. ASSUME NEW i \in 1 .. Len(rs)
      PROVE  e[i - 1] < e[i] /\ e[i] - e[i - 1] \in 1 .. Len(LineFrame(rs[i]))
  <2>1. Len(LineFrame(rs[i])) \in 3 .. 4
    BY <1>1, LineCells
  <2>2. e[i - 1] < e[i] /\ e[i] - e[i - 1] <= Len(LineFrame(rs[i]))
    BY <1>1 DEF Pieces
  <2>3. QED
    BY <1>1, <2>1, <2>2
<1>4. QED
  BY <1>1, <1>2, <1>3

(* Every cell is in a piece. *)
LEMMA InPiece ==
  ASSUME NEW c, NEW rs, NEW e, Pieces(c, rs, e), NEW x \in 1 .. Len(c)
  PROVE  \E i \in 1 .. Len(rs) : e[i - 1] < x /\ x <= e[i]
<1> DEFINE n == Len(rs)
           S == {i \in 0 .. n : x <= e[i]}
<1>1. n \in Nat /\ Len(c) \in Nat /\ \A i \in 0 .. n : e[i] \in Nat
  BY PiecesTypes
<1>2. e[0] = 0 /\ e[n] = Len(c)
  BY DEF Pieces
<1>3. S \in SUBSET Nat /\ n \in S /\ 0 \notin S
  BY <1>1, <1>2
<1> HIDE DEF S
<1>4. PICK i \in S : \A j \in S : i <= j
  BY <1>3, Numbers!LeastNumber
<1>5. i \in 1 .. n
  BY <1>1, <1>3, <1>4 DEF S
<1>6. i - 1 \in 0 .. n /\ ~ (i <= i - 1)
  BY <1>1, <1>5
<1>7. ~ (x <= e[i - 1])
  BY <1>4, <1>6 DEF S
<1>8. x <= e[i]
  BY <1>4 DEF S
<1>9. QED
  BY <1>1, <1>5, <1>6, <1>7, <1>8

(* The cells of one piece. *)
LEMMA PieceCells ==
  ASSUME NEW c, NEW rs, NEW e, Pieces(c, rs, e), NEW i \in 1 .. Len(rs),
         NEW x \in Int, e[i - 1] < x, x <= e[i]
  PROVE  /\ x \in 1 .. Len(c)
         /\ c[x] = LineFrame(rs[i])[x - e[i - 1]]
         /\ c[x] = NL <=> x = e[i] /\ Full(rs, e, i)
         /\ c[x] = PREFIX <=> x = e[i - 1] + 1 /\ rs[i].kind = "s"
         /\ x = e[i - 1] + 1 => c[x] = PREFIX \/ c[x] = <<"c", rs[i].id, 1>>
<1> DEFINE f == LineFrame(rs[i])
           y == x - e[i - 1]
<1>1. /\ e[i - 1] \in Nat /\ e[i] \in Nat /\ e[i] <= Len(c) /\ Len(c) \in Nat
      /\ rs[i] \in Records(Nat) /\ e[i] - e[i - 1] \in 1 .. Len(f)
  BY PiecesTypes
<1>2. /\ Len(f) \in 3 .. 4
      /\ \A z \in 1 .. Len(f) : (f[z] = NL <=> z = Len(f)) /\ (f[z] = PREFIX <=> z = 1 /\ rs[i].kind = "s")
      /\ f[1] = PREFIX \/ f[1] = <<"c", rs[i].id, 1>>
  BY <1>1, LineCells
<1>3. y \in 1 .. e[i] - e[i - 1] /\ y \in 1 .. Len(f) /\ x = e[i - 1] + y
  BY <1>1
<1>4. c[x] = f[y]
  BY <1>3 DEF Pieces
<1>5. y = Len(f) <=> x = e[i] /\ e[i] - e[i - 1] = Len(f)
  <2> DEFINE p == e[i - 1]
             q == e[i]
             m == Len(f)
  <2>1. p \in Int /\ q \in Int /\ m \in Int /\ q - p <= m /\ x <= q
    BY <1>1, <1>2
  <2> HIDE DEF f, p, q, m
  <2>2. x - p = m <=> x = q /\ q - p = m
    BY <2>1
  <2>3. QED
    BY <2>2 DEF p, q, m
<1>6. y = 1 <=> x = e[i - 1] + 1
  BY <1>1
<1>7. x \in 1 .. Len(c)
  BY <1>1
<1> HIDE DEF y, f
<1>8. (f[y] = NL <=> y = Len(f)) /\ (f[y] = PREFIX <=> y = 1 /\ rs[i].kind = "s")
  BY <1>2, <1>3
<1>9. c[x] = NL <=> x = e[i] /\ e[i] - e[i - 1] = Len(f)
  BY <1>4, <1>5, <1>8
<1>10. c[x] = PREFIX <=> x = e[i - 1] + 1 /\ rs[i].kind = "s"
  BY <1>4, <1>6, <1>8
<1>11. x = e[i - 1] + 1 => c[x] = PREFIX \/ c[x] = <<"c", rs[i].id, 1>>
  BY <1>2, <1>4, <1>6
<1>12. c[x] = LineFrame(rs[i])[x - e[i - 1]]
  BY <1>4 DEF y, f
<1>13. QED
  BY <1>7, <1>9, <1>10, <1>11, <1>12 DEF Full, f

(* Newlines are the ends of whole pieces, prefixes the beginnings of those *)
(* of snapshots.                                                           *)
LEMMA FileFacts ==
  ASSUME NEW c, NEW rs, NEW e, Pieces(c, rs, e)
  PROVE  /\ \A x \in 1 .. Len(c) : c[x] = NL => \E i \in 1 .. Len(rs) : Full(rs, e, i) /\ x = e[i]
         /\ \A x \in 1 .. Len(c) : c[x] = PREFIX => \E i \in 1 .. Len(rs) : rs[i].kind = "s" /\ x = e[i - 1] + 1
         /\ \A i \in 1 .. Len(rs) :
              /\ c[e[i]] = NL <=> Full(rs, e, i)
              /\ c[e[i - 1] + 1] = PREFIX <=> rs[i].kind = "s"
              /\ c[e[i - 1] + 1] = PREFIX \/ c[e[i - 1] + 1] = <<"c", rs[i].id, 1>>
              /\ e[i] \in 1 .. Len(c) /\ e[i - 1] + 1 \in 1 .. Len(c)
<1>1. ASSUME NEW x \in 1 .. Len(c)
      PROVE  \E i \in 1 .. Len(rs) : /\ c[x] = NL => Full(rs, e, i) /\ x = e[i]
                                     /\ c[x] = PREFIX => rs[i].kind = "s" /\ x = e[i - 1] + 1
  <2>1. PICK i \in 1 .. Len(rs) : e[i - 1] < x /\ x <= e[i]
    BY InPiece
  <2>2. x \in Int
    BY PiecesTypes
  <2>3. QED
    BY <2>1, <2>2, PieceCells
<1>2. ASSUME NEW i \in 1 .. Len(rs)
      PROVE  /\ c[e[i]] = NL <=> Full(rs, e, i)
             /\ c[e[i - 1] + 1] = PREFIX <=> rs[i].kind = "s"
             /\ c[e[i - 1] + 1] = PREFIX \/ c[e[i - 1] + 1] = <<"c", rs[i].id, 1>>
             /\ e[i] \in 1 .. Len(c) /\ e[i - 1] + 1 \in 1 .. Len(c)
  <2> DEFINE x == e[i - 1] + 1
  <2>1. e[i - 1] \in Nat /\ e[i] \in Nat /\ e[i - 1] < e[i]
    BY PiecesTypes
  <2>2. x \in Int /\ e[i - 1] < x /\ x <= e[i] /\ e[i] \in Int /\ e[i] <= e[i]
    BY <2>1
  <2>3. /\ x \in 1 .. Len(c)
        /\ c[x] = PREFIX <=> x = e[i - 1] + 1 /\ rs[i].kind = "s"
        /\ x = e[i - 1] + 1 => c[x] = PREFIX \/ c[x] = <<"c", rs[i].id, 1>>
    <3> HIDE DEF x
    <3>1. QED
      BY <2>2, PieceCells
  <2>4. e[i] \in 1 .. Len(c) /\ (c[e[i]] = NL <=> Full(rs, e, i))
    BY <2>1, <2>2, PieceCells
  <2>5. QED
    BY <2>3, <2>4
<1>3. QED
  BY <1>1, <1>2

-----------------------------------------------------------------------------
(* The lines of a file that is made of pieces *)

LEMMA PieceOrder ==
  ASSUME NEW c, NEW rs, NEW e, Pieces(c, rs, e), NEW i \in 0 .. Len(rs), NEW j \in 0 .. Len(rs)
  PROVE  (i < j <=> e[i] < e[j]) /\ (i <= j <=> e[i] <= e[j]) /\ (i = j <=> e[i] = e[j])
<1>1. i \in Int /\ j \in Int /\ e[i] \in Int /\ e[j] \in Int
  BY PiecesTypes
<1>2. (i < j => e[i] < e[j]) /\ (j < i => e[j] < e[i])
  BY DEF Pieces
<1>3. QED
  BY <1>1, <1>2

LEMMA EndsAre ==
  ASSUME NEW c, NEW rs, NEW e, Pieces(c, rs, e), NEW o \in Nat
  PROVE  /\ Ends(c, o) \in SUBSET Nat
         /\ \A y \in Ends(c, o) : \E i \in 1 .. Len(rs) : Full(rs, e, i) /\ y = e[i] /\ o < y
         /\ \A i \in 1 .. Len(rs) : Full(rs, e, i) /\ o < e[i] => e[i] \in Ends(c, o)
<1>1. Len(c) \in Nat /\ Len(rs) \in Nat
  BY PiecesTypes
<1>2. Ends(c, o) \in SUBSET Nat
  BY <1>1 DEF Ends
<1>3. ASSUME NEW y \in Ends(c, o)
      PROVE  \E i \in 1 .. Len(rs) : Full(rs, e, i) /\ y = e[i] /\ o < y
  <2>1. y \in 1 .. Len(c) /\ c[y] = NL /\ o < y
    BY <1>1 DEF Ends
  <2>2. QED
    BY <2>1, FileFacts
<1>4. ASSUME NEW i \in 1 .. Len(rs), Full(rs, e, i), o < e[i]
      PROVE  e[i] \in Ends(c, o)
  <2>1. e[i] \in 1 .. Len(c) /\ c[e[i]] = NL
    BY <1>4, FileFacts
  <2>2. e[i] \in o + 1 .. Len(c)
    BY <1>1, <1>4, <2>1
  <2>3. QED
    BY <2>1, <2>2 DEF Ends
<1>5. QED
  BY <1>2, <1>3, <1>4

(* A line that begins within a whole piece ends with it. *)
LEMMA StopIs ==
  ASSUME NEW c, NEW rs, NEW e, Pieces(c, rs, e), NEW i \in 1 .. Len(rs), Full(rs, e, i),
         NEW x \in Nat, e[i - 1] < x, x <= e[i]
  PROVE  /\ Ends(c, x - 1) # {} /\ Min(Ends(c, x - 1)) = e[i]
         /\ Stop(c, x) = e[i]
<1> DEFINE S == Ends(c, x - 1)
<1>1. e[i - 1] \in Nat /\ e[i] \in Nat /\ x - 1 \in Nat /\ x - 1 < e[i] /\ i - 1 \in 0 .. Len(rs) /\ i \in 0 .. Len(rs) /\ i \in Int
  BY PiecesTypes
<1>2. S \in SUBSET Nat /\ e[i] \in S
  BY <1>1, EndsAre
<1>3. ASSUME NEW y \in S PROVE e[i] <= y
  <2>1. PICK j \in 1 .. Len(rs) : y = e[j] /\ x - 1 < y
    BY <1>1, EndsAre
  <2>2. e[j] \in Nat /\ j \in 0 .. Len(rs) /\ j \in Int
    BY PiecesTypes
  <2>3. ~ (j <= i - 1)
    <3>1. j <= i - 1 => e[j] <= e[i - 1]
      BY <1>1, <2>2, PieceOrder
    <3>2. QED
      BY <1>1, <2>1, <2>2, <3>1
  <2>4. i <= j
    BY <1>1, <2>2, <2>3
  <2>5. QED
    BY <1>1, <2>1, <2>2, <2>4, PieceOrder
<1> HIDE DEF S
<1>4. S # {} /\ Min(S) \in S /\ Min(S) <= e[i]
  BY <1>2, MinIs
<1>5. Min(S) = e[i]
  <2>1. Min(S) \in Nat /\ e[i] <= Min(S)
    BY <1>2, <1>3, <1>4
  <2>2. QED
    BY <1>1, <1>4, <2>1
<1>6. QED
  BY <1>4, <1>5 DEF S, Stop

(* A last piece that is not whole has no end. *)
LEMMA LastStop ==
  ASSUME NEW c, NEW rs, NEW e, Pieces(c, rs, e), Len(rs) > 0, ~Full(rs, e, Len(rs)),
         NEW x \in Nat, e[Len(rs) - 1] < x
  PROVE  Ends(c, x - 1) = {} /\ Stop(c, x) = Len(c) + 1
<1> DEFINE n == Len(rs)
<1>1. n \in 1 .. n /\ n - 1 \in 0 .. n /\ e[n - 1] \in Nat /\ x - 1 \in Nat /\ n \in Nat
  <2>1. n \in Nat
    BY PiecesTypes
  <2>2. n \in 1 .. n /\ n - 1 \in 0 .. n
    BY <2>1
  <2>3. e[n - 1] \in Nat
    BY <2>2, PiecesTypes
  <2>4. x - 1 \in Nat
    BY <2>3
  <2>5. QED
    BY <2>1, <2>2, <2>3, <2>4
<1>2. ASSUME NEW y \in Ends(c, x - 1) PROVE FALSE
  <2>1. PICK j \in 1 .. n : Full(rs, e, j) /\ y = e[j] /\ x - 1 < y
    BY <1>1, EndsAre
  <2>2. e[j] \in Nat /\ j \in 0 .. n /\ j \in Int
    BY PiecesTypes
  <2>3. ~ (j <= n - 1)
    <3>1. j <= n - 1 => e[j] <= e[n - 1]
      BY <1>1, <2>2, PieceOrder
    <3>2. QED
      BY <1>1, <2>1, <2>2, <3>1
  <2>4. j = n
    BY <1>1, <2>2, <2>3
  <2>5. QED
    BY <2>1, <2>4
<1>3. QED
  BY <1>2 DEF Stop

(* After the end of a whole piece the lines are the pieces, as long as all *)
(* but the last of them are whole.                                         *)
LEMMA LinesAre ==
  ASSUME NEW c, NEW rs, NEW e, Pieces(c, rs, e), NEW l \in 0 .. Len(rs),
         \A i \in l + 1 .. Len(rs) - 1 : Full(rs, e, i)
  PROVE  Lines(c, e[l]) = {e[i - 1] + 1 : i \in l + 1 .. Len(rs)}
<1> DEFINE n == Len(rs)
<1>1. /\ n \in Nat /\ Len(c) \in Nat /\ e[l] \in Nat /\ l \in Nat /\ e[n] = Len(c)
      /\ \A i \in 1 .. n : /\ e[i - 1] \in Nat /\ e[i] \in Nat /\ e[i - 1] < e[i] /\ i \in Nat
                           /\ i - 1 \in 0 .. n /\ i \in 0 .. n
  <2>1. n \in Nat /\ Len(c) \in Nat /\ e[l] \in Nat
    BY PiecesTypes
  <2>2. \A i \in 1 .. n : e[i - 1] \in Nat /\ e[i] \in Nat /\ e[i - 1] < e[i] /\ i - 1 \in 0 .. n /\ i \in 0 .. n
    BY PiecesTypes
  <2>3. e[n] = Len(c)
    BY DEF Pieces
  <2>4. QED
    BY <2>1, <2>2, <2>3
<1>2. Stop(c, Len(c) + 1) = Len(c) + 1
  <2>1. Ends(c, Len(c) + 1 - 1) = {}
    BY <1>1 DEF Ends
  <2>2. QED
    BY <2>1 DEF Stop
<1>3. ASSUME NEW x \in Lines(c, e[l])
      PROVE  \E i \in l + 1 .. n : x = e[i - 1] + 1
  <2>1. (x = e[l] + 1 \/ \E j \in Ends(c, e[l]) : x = j + 1) /\ Stop(c, x) > x
    BY DEF Lines
  <2>2. x # Len(c) + 1
    BY <1>1, <1>2, <2>1
  <2>3. CASE x = e[l] + 1
    <3>1. l # n
      BY <1>1, <2>2, <2>3
    <3>2. l + 1 \in l + 1 .. n /\ l + 1 - 1 = l
      BY <1>1, <3>1
    <3>3. QED
      BY <2>3, <3>2
  <2>4. CASE \E j \in Ends(c, e[l]) : x = j + 1
    <3>1. PICK j \in Ends(c, e[l]) : x = j + 1
      BY <2>4
    <3>2. PICK h \in 1 .. n : j = e[h] /\ e[l] < j
      BY <1>1, EndsAre
    <3>3. l < h /\ h # n
      <4>1. l < h
        BY <1>1, <3>2, PieceOrder
      <4>2. QED
        BY <1>1, <2>2, <3>1, <3>2, <4>1
    <3>4. h + 1 \in l + 1 .. n /\ h + 1 - 1 = h
      BY <1>1, <3>3
    <3>5. QED
      BY <3>1, <3>2, <3>4
  <2>5. QED
    BY <2>1, <2>3, <2>4
<1>4. ASSUME NEW i \in l + 1 .. n
      PROVE  e[i - 1] + 1 \in Lines(c, e[l])
  <2> DEFINE x == e[i - 1] + 1
  <2>1. i \in 1 .. n /\ i \in Nat /\ l <= i - 1
    BY <1>1
  <2>2. e[i - 1] \in Nat /\ e[i] \in Nat /\ e[i - 1] < e[i] /\ i - 1 \in 0 .. n
    BY <1>1, <2>1
  <2>3. x = e[l] + 1 \/ \E j \in Ends(c, e[l]) : x = j + 1
    <3>1. CASE i = l + 1
      BY <1>1, <3>1
    <3>2. CASE i # l + 1
      <4>1. i - 1 \in l + 1 .. n - 1 /\ i - 1 \in 1 .. n /\ l < i - 1
        BY <1>1, <2>1, <3>2
      <4>2. Full(rs, e, i - 1) /\ e[l] < e[i - 1]
        BY <2>2, <4>1, PieceOrder
      <4>3. e[i - 1] \in Ends(c, e[l])
        BY <1>1, <4>1, <4>2, EndsAre
      <4>4. QED
        BY <4>3
    <3>3. QED
      BY <3>1, <3>2
  <2>4. x \in Nat /\ e[i - 1] < x /\ x <= e[i]
    BY <2>2
  <2>5. Stop(c, x) > x
    <3>1. CASE Full(rs, e, i)
      <4>1. Stop(c, x) = e[i]
        <5> HIDE DEF x
        <5>1. QED
          BY <2>1, <2>4, <3>1, StopIs
      <4>2. e[i] - e[i - 1] = Len(LineFrame(rs[i])) /\ Len(LineFrame(rs[i])) \in 3 .. 4
        <5>1. rs[i] \in Records(Nat)
          BY <2>1, PiecesTypes
        <5>2. QED
          BY <3>1, <5>1, LineCells DEF Full
      <4>3. e[i - 1] + 1 < e[i]
        <5> DEFINE m == Len(LineFrame(rs[i]))
        <5>1. e[i] - e[i - 1] = m /\ m \in 3 .. 4
          BY <4>2
        <5> HIDE DEF m
        <5>2. QED
          BY <2>2, <5>1
      <4>4. QED
        BY <2>2, <4>1, <4>3
    <3>2. CASE ~ Full(rs, e, i)
      <4>1. i = n
        BY <1>1, <2>1, <3>2
      <4>2. n > 0
        BY <2>1, <4>1
      <4>3. Stop(c, x) = Len(c) + 1
        <5> HIDE DEF x
        <5>1. QED
          BY <2>4, <3>2, <4>1, <4>2, LastStop
      <4>4. QED
        BY <1>1, <2>2, <4>1, <4>3
    <3>3. QED
      BY <3>1, <3>2
  <2>6. QED
    BY <2>3, <2>5 DEF Lines
<1>5. QED
  BY <1>3, <1>4

-----------------------------------------------------------------------------
(* What a line decodes to *)

LEMMA SubSeqTwo ==
  ASSUME NEW S, NEW s \in Seq(S), NEW p \in 1 .. Len(s) - 1
  PROVE  SubSeq(s, p, p + 1) = <<s[p], s[p + 1]>>
<1> DEFINE a == SubSeq(s, p, p + 1)
           b == <<s[p], s[p + 1]>>
<1>1. Len(s) \in Nat /\ s[p] \in S /\ s[p + 1] \in S
  OBVIOUS
<1>2. a \in Seq(S) /\ Len(a) = 2 /\ a[1] = s[p] /\ a[2] = s[p + 1]
  BY <1>1
<1>3. b \in Seq(S) /\ Len(b) = 2 /\ b[1] = s[p] /\ b[2] = s[p + 1]
  BY <1>1
<1> HIDE DEF a, b
<1>4. \A i \in 1 .. 2 : i = 1 \/ i = 2
  OBVIOUS
<1>5. \A i \in 1 .. Len(a) : a[i] = b[i]
  BY <1>2, <1>3, <1>4
<1>6. a = b
  BY <1>2, <1>3, <1>5, SeqEqual
<1>7. QED
  BY <1>6 DEF a, b

LEMMA PayloadDecodes ==
  ASSUME NEW r \in Records(Nat)
  PROVE  Decodes(Payload(r), r.kind) /\ Decoded(Payload(r)) = r
<1> DEFINE a == Part(r, 1)
           b == Part(r, 2)
           q == [kind |-> r.kind, id |-> r.id]
<1>1. Payload(r) = <<a, b>> /\ a[1] = r.kind /\ a[2] = r.id
  BY DEF Payload, Part
<1>2. Payload(q) = <<a, b>>
  BY DEF Payload, Part
<1>3. r = q
  BY DEF Records
<1> HIDE DEF a, b, q
<1>4. Len(<<a, b>>) = 2 /\ <<a, b>>[1] = a
  OBVIOUS
<1>5. Decodes(<<a, b>>, r.kind)
  BY <1>1, <1>2, <1>4 DEF Decodes, q
<1>6. Decoded(<<a, b>>) = q
  BY <1>1, <1>4 DEF Decoded, q
<1>7. QED
  BY <1>1, <1>3, <1>5, <1>6

LEMMA DecodesOnly ==
  ASSUME NEW b, NEW kind, Decodes(b, kind)
  PROVE  \E id : Len(b) = 2 /\ b[1] = <<kind, id, 1>> /\ b[2] = <<kind, id, 2>>
<1> DEFINE r == [kind |-> kind, id |-> b[1][2]]
<1>1. Len(b) = 2 /\ b = Payload(r)
  BY DEF Decodes
<1>2. Payload(r) = <<Part(r, 1), Part(r, 2)>>
  BY DEF Payload, Part
<1>3. b[1] = Part(r, 1) /\ b[2] = Part(r, 2)
  BY <1>1, <1>2
<1>4. Part(r, 1) = <<kind, r.id, 1>> /\ Part(r, 2) = <<kind, r.id, 2>>
  BY DEF Part
<1>5. QED
  BY <1>1, <1>3, <1>4

(* The line of a whole piece is its record. *)
LEMMA WholeLine ==
  ASSUME NEW c, NEW rs, NEW e, Pieces(c, rs, e), NEW i \in 1 .. Len(rs), Full(rs, e, i)
  PROVE  LET x == e[i - 1] + 1
         IN /\ LineKind(c, x) = rs[i].kind
            /\ LineBody(c, x) = Payload(rs[i])
            /\ rs[i].kind = "s" => SubSeq(c, x + 1, e[i] - 1) = Payload(rs[i])
<1> DEFINE r == rs[i]
           f == LineFrame(r)
           p == e[i - 1]
           x == p + 1
<1>1. /\ r \in Records(Nat) /\ p \in Nat /\ e[i] \in Nat /\ e[i] <= Len(c) /\ p < e[i]
      /\ Len(c) \in Nat /\ c \in Seq(Cell)
  <2>1. c \in Seq(Cell)
    BY DEF Pieces
  <2>2. QED
    BY <2>1, PiecesTypes
<1>2. LineShape(r) /\ (r.kind = "s" \/ r.kind = "c")
  BY <1>1, LineFrameIs
<1>3. e[i] = p + Len(f) /\ \A y \in 1 .. Len(f) : c[p + y] = f[y]
  <2>1. e[i] - p = Len(f) /\ \A y \in 1 .. e[i] - p : c[p + y] = f[y]
    BY DEF Full, Pieces
  <2>2. e[i] = p + Len(f)
    <3> DEFINE m == Len(f)
    <3>1. m \in 3 .. 4
      BY <1>1, LineCells
    <3>2. e[i] - p = m
      BY <2>1
    <3> HIDE DEF m, p
    <3>3. e[i] = p + m
      BY <1>1, <3>1, <3>2
    <3>4. QED
      BY <3>3 DEF m
  <2>3. QED
    BY <2>1, <2>2
<1>4. Payload(r) = <<Part(r, 1), Part(r, 2)>>
  BY DEF Payload, Part
<1>5. LineKind(c, x) = r.kind
  <2>1. c[x] = PREFIX <=> r.kind = "s"
    BY FileFacts
  <2>2. QED
    BY <1>2, <2>1 DEF LineKind
<1>6. Stop(c, x) = e[i]
  <2>1. x \in Nat /\ e[i - 1] < x /\ x <= e[i]
    BY <1>1
  <2> HIDE DEF x
  <2>2. QED
    BY <2>1, StopIs
<1>7. CASE r.kind = "s"
  <2>1. Len(f) = 4 /\ f[2] = Part(r, 1) /\ f[3] = Part(r, 2)
    BY <1>2, <1>7 DEF LineShape
  <2> HIDE DEF f
  <2>2. c[p + 2] = Part(r, 1) /\ c[p + 3] = Part(r, 2) /\ e[i] = p + 4
    BY <1>3, <2>1
  <2>3. SubSeq(c, p + 2, p + 3) = Payload(r)
    <3> HIDE DEF p
    <3>1. p + 2 \in 1 .. Len(c) - 1 /\ p + 2 + 1 = p + 3
      BY <1>1, <2>2
    <3>2. SubSeq(c, p + 2, p + 2 + 1) = <<c[p + 2], c[p + 2 + 1]>>
      BY <1>1, <3>1, SubSeqTwo
    <3>3. QED
      BY <1>4, <2>2, <3>1, <3>2
  <2>4. x + 1 = p + 2 /\ e[i] - 1 = p + 3
    BY <1>1, <2>2
  <2>5. SubSeq(c, x + 1, e[i] - 1) = Payload(r)
    BY <2>3, <2>4
  <2>6. LineBody(c, x) = Payload(r)
    BY <1>5, <1>6, <1>7, <2>5 DEF LineBody
  <2>7. QED
    BY <1>5, <2>5, <2>6
<1>8. CASE r.kind = "c"
  <2>1. Len(f) = 3 /\ f[1] = Part(r, 1) /\ f[2] = Part(r, 2)
    BY <1>2, <1>8 DEF LineShape
  <2> HIDE DEF f
  <2>2. c[p + 1] = Part(r, 1) /\ c[p + 2] = Part(r, 2) /\ e[i] = p + 3
    BY <1>3, <2>1
  <2>3. SubSeq(c, p + 1, p + 2) = Payload(r)
    <3> HIDE DEF p
    <3>1. p + 1 \in 1 .. Len(c) - 1 /\ p + 1 + 1 = p + 2
      BY <1>1, <2>2
    <3>2. SubSeq(c, p + 1, p + 1 + 1) = <<c[p + 1], c[p + 1 + 1]>>
      BY <1>1, <3>1, SubSeqTwo
    <3>3. QED
      BY <1>4, <2>2, <3>1, <3>2
  <2>4. x = p + 1 /\ e[i] - 1 = p + 2
    BY <1>1, <2>2
  <2>5. r.kind # "s"
    BY <1>8
  <2>6. LineBody(c, x) = Payload(r)
    BY <1>5, <1>6, <2>3, <2>4, <2>5 DEF LineBody
  <2>7. QED
    BY <1>5, <2>5, <2>6
<1>9. QED
  BY <1>2, <1>7, <1>8

-----------------------------------------------------------------------------
(* What LineFramer.iter_records yields *)

(* Whole pieces are read as their records. *)
LEMMA RecordsFrom ==
  ASSUME NEW c, NEW rs, NEW e, Pieces(c, rs, e), NEW l \in 0 .. Len(rs),
         \A i \in l + 1 .. Len(rs) : Full(rs, e, i)
  PROVE  LineRecords(c, e[l]) = Ok(SubSeq(rs, l + 1, Len(rs)))
<1> DEFINE n == Len(rs)
           N == n - l
           a == [m \in 1 .. N |-> e[l + m - 1] + 1]
           S == Lines(c, e[l])
<1>1. /\ n \in Nat /\ l \in Nat /\ N \in Nat /\ rs \in Seq(Records(Nat))
      /\ \A i \in 1 .. n : e[i - 1] \in Nat /\ e[i] \in Nat /\ i - 1 \in 0 .. n /\ rs[i] \in Records(Nat)
  <2>1. n \in Nat /\ \A i \in 1 .. n : e[i - 1] \in Nat /\ e[i] \in Nat /\ i - 1 \in 0 .. n /\ rs[i] \in Records(Nat)
    BY PiecesTypes
  <2>2. rs \in Seq(Records(Nat))
    BY DEF Pieces
  <2>3. l \in Nat /\ N \in Nat
    BY <2>1
  <2>4. QED
    BY <2>1, <2>2, <2>3
<1>2. S = {e[i - 1] + 1 : i \in l + 1 .. n}
  <2>1. \A i \in l + 1 .. Len(rs) - 1 : Full(rs, e, i)
    <3>1. \A i \in l + 1 .. Len(rs) - 1 : i \in l + 1 .. Len(rs)
      BY <1>1
    <3>2. QED
      BY <3>1
  <2> HIDE DEF n, N, a, S
  <2>2. Lines(c, e[l]) = {e[i - 1] + 1 : i \in l + 1 .. Len(rs)}
    BY <2>1, LinesAre, SMTT(30)
  <2>3. QED
    BY <2>2 DEF n, S
<1>3. \A m \in 1 .. N : l + m \in 1 .. n /\ l + m \in l + 1 .. n /\ a[m] = e[(l + m) - 1] + 1 /\ a[m] \in Nat
  <2> TAKE m \in 1 .. N
  <2>1. l + m \in 1 .. n /\ l + m \in l + 1 .. n /\ a[m] = e[l + m - 1] + 1
    BY <1>1
  <2>2. e[(l + m) - 1] \in Nat
    BY <1>1, <2>1
  <2>3. QED
    BY <2>1, <2>2
<1>4. S = {a[m] : m \in 1 .. N}
  <2>1. ASSUME NEW x \in S PROVE x \in {a[m] : m \in 1 .. N}
    <3>1. PICK i \in l + 1 .. n : x = e[i - 1] + 1
      BY <1>2
    <3>2. i - l \in 1 .. N /\ l + (i - l) = i
      BY <1>1
    <3>3. a[i - l] = e[i - 1] + 1
      BY <1>3, <3>2
    <3>4. QED
      BY <3>1, <3>2, <3>3
  <2>2. ASSUME NEW m \in 1 .. N PROVE a[m] \in S
    BY <1>2, <1>3
  <2>3. QED
    BY <2>1, <2>2
<1>5. a \in [1 .. N -> Nat] /\ \A i, j \in 1 .. N : i < j => a[i] < a[j]
  <2>1. a \in [1 .. N -> Nat]
    BY <1>3
  <2>2. ASSUME NEW i \in 1 .. N, NEW j \in 1 .. N, i < j
        PROVE  a[i] < a[j]
    <3> DEFINE u == (l + i) - 1
               v == (l + j) - 1
    <3>1. u \in 0 .. n /\ v \in 0 .. n /\ u < v
      BY <1>1, <2>2
    <3>2. a[i] = e[u] + 1 /\ a[j] = e[v] + 1
      BY <1>3
    <3> HIDE DEF u, v, a
    <3>3. e[u] < e[v] /\ e[u] \in Nat /\ e[v] \in Nat
      BY <3>1, PieceOrder, PiecesTypes
    <3>4. QED
      BY <3>2, <3>3
  <2>3. QED
    BY <2>1, <2>2
<1> HIDE DEF a
<1>6. Cardinality(S) = N /\ InOrder(S) = a
  BY <1>1, <1>4, <1>5, InOrderIs
<1>7. \A m \in 1 .. N : /\ LineBody(c, a[m]) = Payload(rs[l + m])
                        /\ LineKind(c, a[m]) = rs[l + m].kind
                        /\ Decodes(LineBody(c, a[m]), LineKind(c, a[m]))
                        /\ Decoded(LineBody(c, a[m])) = rs[l + m]
  <2> TAKE m \in 1 .. N
  <2> DEFINE i == l + m
  <2>1. i \in 1 .. n /\ i \in l + 1 .. n /\ a[m] = e[i - 1] + 1
    BY <1>3
  <2>2. Full(rs, e, i) /\ rs[i] \in Records(Nat)
    BY <1>1, <2>1
  <2> HIDE DEF i
  <2>3. LineBody(c, a[m]) = Payload(rs[i]) /\ LineKind(c, a[m]) = rs[i].kind
    BY <2>1, <2>2, WholeLine
  <2>4. Decodes(Payload(rs[i]), rs[i].kind) /\ Decoded(Payload(rs[i])) = rs[i]
    BY <2>2, PayloadDecodes
  <2>5. QED
    BY <2>3, <2>4 DEF i
<1>8. {i \in S : ~Decodes(LineBody(c, i), LineKind(c, i))} = {}
  BY <1>4, <1>7
<1> DEFINE out == [m \in 1 .. N |-> Decoded(LineBody(c, a[m]))]
           tail == SubSeq(rs, l + 1, n)
<1>9. LineRecords(c, e[l]) = Ok(out)
  BY <1>6, <1>8 DEF LineRecords
<1>10. out = tail
  <2>1. \A m \in 1 .. N : out[m] = rs[l + m]
    BY <1>7
  <2>2. out \in Seq(Records(Nat)) /\ Len(out) = N
    <3>1. \A m \in 1 .. N : Decoded(LineBody(c, a[m])) \in Records(Nat)
      BY <1>1, <1>3, <1>7
    <3>2. QED
      BY <1>1, <3>1
  <2>3. tail \in Seq(Records(Nat)) /\ Len(tail) = N /\ \A m \in 1 .. N : tail[m] = rs[l + m]
    <3>1. l + 1 \in 1 .. n + 1
      BY <1>1
    <3>2. tail \in Seq(Records(Nat)) /\ Len(tail) = N /\ \A m \in 1 .. N : tail[m] = rs[l + 1 + m - 1]
      BY <1>1, <3>1
    <3>3. \A m \in 1 .. N : l + 1 + m - 1 = l + m
      BY <1>1
    <3>4. QED
      BY <3>2, <3>3
  <2> HIDE DEF out, tail
  <2>4. QED
    BY <2>1, <2>2, <2>3, SeqEqual
<1>11. QED
  BY <1>9, <1>10

(* If only the last piece is not whole, an error points at it. *)
LEMMA TornRecords ==
  ASSUME NEW c, NEW rs, NEW e, Pieces(c, rs, e), NEW l \in 0 .. Len(rs), l < Len(rs),
         \A i \in l + 1 .. Len(rs) - 1 : Full(rs, e, i),
         ~LineRecords(c, e[l]).ok
  PROVE  LineRecords(c, e[l]).at = e[Len(rs) - 1]
<1> DEFINE n == Len(rs)
           S == Lines(c, e[l])
           bad == {i \in S : ~Decodes(LineBody(c, i), LineKind(c, i))}
<1>1. n \in Nat /\ l \in Nat /\ n \in 1 .. n /\ n - 1 \in 0 .. n
  <2>1. n \in Nat
    BY PiecesTypes
  <2>2. QED
    BY <2>1
<1>2. S = {e[i - 1] + 1 : i \in l + 1 .. n}
  <2> HIDE DEF n, S, bad
  <2>1. \A i \in l + 1 .. Len(rs) - 1 : Full(rs, e, i)
    OBVIOUS
  <2>2. Lines(c, e[l]) = {e[i - 1] + 1 : i \in l + 1 .. Len(rs)}
    BY <2>1, LinesAre, SMTT(30)
  <2>3. QED
    BY <2>2 DEF n, S
<1>3. ASSUME NEW x \in bad PROVE x = e[n - 1] + 1
  <2>1. PICK i \in l + 1 .. n : x = e[i - 1] + 1
    BY <1>2
  <2>2. CASE i = n
    BY <2>1, <2>2
  <2>3. CASE i # n
    <3>1. i \in l + 1 .. n - 1 /\ i \in 1 .. n
      BY <1>1, <2>3
    <3>2. Full(rs, e, i) /\ rs[i] \in Records(Nat)
      BY <3>1, PiecesTypes
    <3>3. LineBody(c, x) = Payload(rs[i]) /\ LineKind(c, x) = rs[i].kind
      BY <2>1, <3>1, <3>2, WholeLine
    <3>4. QED
      BY <3>2, <3>3, PayloadDecodes
  <2>4. QED
    BY <2>2, <2>3
<1>4. bad # {} /\ LineRecords(c, e[l]) = Error(Min(bad) - 1)
  BY DEF LineRecords, Ok, Error
<1>5. e[n - 1] \in Nat
  BY <1>1, PiecesTypes
<1> HIDE DEF bad
<1>6. bad \in SUBSET Nat
  BY <1>3, <1>5
<1>7. Min(bad) = e[n - 1] + 1
  <2>1. Min(bad) \in bad
    BY <1>4, <1>6, MinIs
  <2>2. QED
    BY <1>3, <2>1
<1>8. QED
  BY <1>4, <1>5, <1>7 DEF Error

-----------------------------------------------------------------------------
(* A piece that is not whole, and is not the last, spoils its line. *)

LEMMA BadStop ==
  ASSUME NEW c, NEW rs, NEW e, Pieces(c, rs, e), NEW j \in 1 .. Len(rs) - 1,
         ~Full(rs, e, j), Full(rs, e, Len(rs)),
         NEW x \in Nat, e[j - 1] < x, x <= e[j] + 1
  PROVE  /\ Ends(c, x - 1) # {} /\ Min(Ends(c, x - 1)) \in Nat
         /\ e[j] + 1 < Min(Ends(c, x - 1)) /\ Min(Ends(c, x - 1)) <= Len(c)
         /\ Stop(c, x) = Min(Ends(c, x - 1))
<1> DEFINE n == Len(rs)
           S == Ends(c, x - 1)
<1>1. /\ n \in Nat /\ j \in Nat /\ n \in 1 .. n /\ j \in 0 .. n /\ j - 1 \in 0 .. n /\ n \in 0 .. n /\ j < n
      /\ e[j - 1] \in Nat /\ e[j] \in Nat /\ e[n] \in Nat /\ Len(c) \in Nat
  <2>1. n \in Nat
    BY PiecesTypes
  <2>2. j \in Nat /\ n \in 1 .. n /\ j \in 0 .. n /\ j - 1 \in 0 .. n /\ n \in 0 .. n /\ j < n
    BY <2>1
  <2>3. QED
    BY <2>1, <2>2, PiecesTypes
<1>2. x - 1 \in Nat
  <2> DEFINE p == e[j - 1]
  <2>1. p \in Nat /\ p < x
    BY <1>1
  <2> HIDE DEF p
  <2>2. QED
    BY <2>1
<1>3. ASSUME NEW y \in S PROVE y \in Nat /\ e[j] + 1 < y /\ y <= Len(c)
  <2>1. PICK h \in 1 .. n : Full(rs, e, h) /\ y = e[h] /\ x - 1 < y
    BY <1>2, EndsAre
  <2>2. /\ e[h] \in Nat /\ h \in 0 .. n /\ h \in Int /\ e[h - 1] \in Nat /\ h - 1 \in 0 .. n
        /\ e[h] <= Len(c) /\ rs[h] \in Records(Nat)
    <3>1. h \in 1 .. Len(rs) /\ h \in 0 .. Len(rs) /\ h \in Int /\ h - 1 \in 0 .. Len(rs)
      BY <1>1
    <3> HIDE DEF S
    <3>2. e[h] \in Nat /\ e[h - 1] \in Nat /\ rs[h] \in Records(Nat)
      BY <3>1, PiecesTypes
    <3>3. e[h] <= Len(c)
      BY <3>1, PiecesTypes
    <3>4. QED
      BY <3>1, <3>2, <3>3
  <2>3. ~ (h <= j - 1)
    <3>1. h <= j - 1 => e[h] <= e[j - 1]
      BY <1>1, <2>2, PieceOrder
    <3> DEFINE p == e[j - 1]
               w == e[h]
    <3>2. p \in Nat /\ w \in Nat /\ p < x /\ x - 1 < w /\ (h <= j - 1 => w <= p)
      BY <1>1, <2>1, <2>2, <3>1
    <3> HIDE DEF p, w
    <3>3. QED
      BY <3>2
  <2>4. j <= h - 1
    BY <1>1, <2>1, <2>2, <2>3
  <2>5. e[j] <= e[h - 1]
    BY <1>1, <2>2, <2>4, PieceOrder
  <2>6. e[h - 1] + 1 < e[h]
    <3> DEFINE m == Len(LineFrame(rs[h]))
    <3>1. e[h] - e[h - 1] = m /\ m \in 3 .. 4
      BY <2>1, <2>2, LineCells DEF Full
    <3> DEFINE p == e[h - 1]
               w == e[h]
    <3>2. p \in Nat /\ w \in Nat /\ w - p = m /\ m \in 3 .. 4
      BY <2>2, <3>1
    <3> HIDE DEF m, p, w
    <3>3. p + 1 < w
      BY <3>2
    <3>4. QED
      BY <3>3 DEF p, w
  <2>7. e[j] + 1 < e[h]
    <3> DEFINE p == e[j]
               q == e[h - 1]
               w == e[h]
    <3>1. p \in Nat /\ q \in Nat /\ w \in Nat /\ p <= q /\ q + 1 < w
      BY <1>1, <2>2, <2>5, <2>6
    <3> HIDE DEF p, q, w
    <3>2. p + 1 < w
      BY <3>1
    <3>3. QED
      BY <3>2 DEF p, w
  <2>8. QED
    BY <2>1, <2>2, <2>7
<1>4. S # {}
  <2>1. e[j] < e[n]
    BY <1>1, PieceOrder
  <2>2. x - 1 < e[n]
    BY <1>1, <2>1
  <2>3. e[n] \in S
    BY <1>1, <1>2, <2>2, EndsAre
  <2>4. QED
    BY <2>3
<1> HIDE DEF S
<1>5. S \in SUBSET Nat /\ Min(S) \in S
  <2>1. S \in SUBSET Nat
    BY <1>3
  <2>2. QED
    BY <1>4, <2>1, MinIs
<1>6. QED
  BY <1>3, <1>4, <1>5 DEF S, Stop

LEMMA BadBody ==
  ASSUME NEW c, NEW rs, NEW e, Pieces(c, rs, e), NEW j \in 1 .. Len(rs) - 1,
         NEW kind \in Kinds, NEW b \in Nat, NEW z \in Nat, b > 0, e[j] + 1 <= z, z <= Len(c),
         b <= e[j] \/ (b = e[j] + 1 /\ kind = "s")
  PROVE  ~Decodes(SubSeq(c, b, z), kind)
<1> DEFINE a == e[j] + 1
           body == SubSeq(c, b, z)
<1>1. e[j] \in Nat /\ Len(c) \in Nat /\ c \in Seq(Cell) /\ j + 1 \in 1 .. Len(rs) /\ (j + 1) - 1 = j
  <2>1. Len(rs) \in Nat
    BY PiecesTypes
  <2>2. j \in 1 .. Len(rs) /\ j + 1 \in 1 .. Len(rs) /\ (j + 1) - 1 = j
    BY <2>1
  <2>3. c \in Seq(Cell)
    BY DEF Pieces
  <2>4. QED
    BY <2>2, <2>3, PiecesTypes
<1>2. c[a] = PREFIX \/ \E id : c[a] = <<"c", id, 1>>
  BY <1>1, FileFacts
<1> SUFFICES ASSUME Decodes(body, kind) PROVE FALSE
  OBVIOUS
<1>3. PICK id : Len(body) = 2 /\ body[1] = <<kind, id, 1>> /\ body[2] = <<kind, id, 2>>
  BY DecodesOnly
<1>4. Len(body) = z - b + 1 /\ b <= z
  BY <1>1
<1>5. z = b + 1
  BY <1>3, <1>4
<1>6. c[b] = <<kind, id, 1>> /\ c[b + 1] = <<kind, id, 2>>
  BY <1>1, <1>3, <1>5
<1>7. a = b \/ a = b + 1
  BY <1>1, <1>5
<1>8. PREFIX # <<kind, id, 1>> /\ PREFIX # <<kind, id, 2>>
  BY CellsDiffer
<1>9. CASE a = b
  <2>1. kind = "s"
    BY <1>1, <1>9
  <2>2. PICK i2 : c[a] = <<"c", i2, 1>>
    BY <1>2, <1>6, <1>8, <1>9
  <2>3. <<"c", i2, 1>> = <<kind, id, 1>>
    BY <1>6, <1>9, <2>2
  <2>4. "c" = kind
    BY <2>3, SameParts
  <2>5. QED
    BY <2>1, <2>4
<1>10. CASE a = b + 1
  <2>1. PICK i2 : c[a] = <<"c", i2, 1>>
    BY <1>2, <1>6, <1>8, <1>10
  <2>2. <<"c", i2, 1>> = <<kind, id, 2>>
    BY <1>6, <1>10, <2>1
  <2>3. QED
    BY <2>2, SameParts
<1>11. QED
  BY <1>7, <1>9, <1>10

(* So what is read without an error, up to a whole piece, is whole. *)
LEMMA AllWhole ==
  ASSUME NEW c, NEW rs, NEW e, Pieces(c, rs, e), NEW l \in 0 .. Len(rs),
         l = Len(rs) \/ Full(rs, e, Len(rs)), LineRecords(c, e[l]).ok
  PROVE  \A i \in l + 1 .. Len(rs) : Full(rs, e, i)
<1> DEFINE n == Len(rs)
           D == {i \in l + 1 .. n : ~Full(rs, e, i)}
<1> SUFFICES ASSUME D # {} PROVE FALSE
  OBVIOUS
<1>1. n \in Nat /\ l \in Nat
  <2>1. n \in Nat
    BY PiecesTypes
  <2>2. QED
    BY <2>1
<1>2. D \in SUBSET Nat
  BY <1>1
<1> HIDE DEF D
<1>3. PICK j \in D : \A i \in D : j <= i
  BY <1>2, Numbers!LeastNumber
<1>4. j \in l + 1 .. n /\ ~Full(rs, e, j)
  BY <1>3 DEF D
<1>5. Full(rs, e, n) /\ j \in 1 .. n - 1 /\ j \in 1 .. n /\ j \in Nat
  BY <1>1, <1>4
<1>6. \A i \in l + 1 .. j - 1 : Full(rs, e, i)
  <2> SUFFICES ASSUME NEW i \in l + 1 .. j - 1, ~Full(rs, e, i) PROVE FALSE
    OBVIOUS
  <2>1. i \in D /\ i \in Nat /\ i < j
    BY <1>1, <1>4 DEF D
  <2>2. QED
    BY <1>3, <1>5, <2>1
<1> DEFINE x == e[j - 1] + 1
<1>7. e[j - 1] \in Nat /\ e[j] \in Nat /\ e[j - 1] < e[j] /\ e[l] \in Nat /\ Len(c) \in Nat /\ j - 1 \in 0 .. n
  BY <1>5, PiecesTypes
<1>8. x \in Nat /\ x > 0 /\ x <= e[j] /\ e[j - 1] < x /\ x <= e[j] + 1
  BY <1>7
<1>9. /\ Stop(c, x) \in Nat /\ e[j] + 1 < Stop(c, x) /\ Stop(c, x) <= Len(c)
  <2> HIDE DEF x
  <2>1. QED
    BY <1>4, <1>5, <1>8, BadStop
<1>10. x \in Lines(c, e[l])
  <2>1. x = e[l] + 1 \/ \E y \in Ends(c, e[l]) : x = y + 1
    <3>1. CASE j = l + 1
      BY <1>1, <3>1
    <3>2. CASE j # l + 1
      <4>1. j - 1 \in l + 1 .. j - 1 /\ j - 1 \in 1 .. n /\ l < j - 1
        BY <1>1, <1>4, <1>5, <3>2
      <4>2. Full(rs, e, j - 1) /\ e[l] < e[j - 1]
        BY <1>6, <1>7, <4>1, PieceOrder
      <4>3. e[j - 1] \in Ends(c, e[l])
        BY <1>7, <4>1, <4>2, EndsAre
      <4>4. QED
        BY <4>3
    <3>3. QED
      BY <3>1, <3>2
  <2>2. Stop(c, x) > x
    <3> HIDE DEF x
    <3>1. QED
      BY <1>7, <1>8, <1>9
  <2>3. QED
    BY <2>1, <2>2 DEF Lines
<1> DEFINE kind == LineKind(c, x)
           b == IF kind = "s" THEN x + 1 ELSE x
           z == Stop(c, x) - 1
<1>11. kind \in Kinds
  BY DEF LineKind, Kinds
<1>12. b \in Nat /\ z \in Nat /\ b > 0 /\ e[j] + 1 <= z /\ z <= Len(c) /\ (b <= e[j] \/ (b = e[j] + 1 /\ kind = "s"))
  <2>1. b \in Nat /\ b > 0 /\ (b <= e[j] \/ (b = e[j] + 1 /\ kind = "s"))
    <3> HIDE DEF x, kind
    <3>1. QED
      BY <1>7, <1>8
  <2>2. z \in Nat /\ e[j] + 1 <= z /\ z <= Len(c)
    <3> HIDE DEF x
    <3>1. QED
      BY <1>7, <1>9
  <2>3. QED
    BY <2>1, <2>2
<1>13. LineBody(c, x) = SubSeq(c, b, z)
  BY DEF LineBody
<1> HIDE DEF x, kind, b, z
<1>14. ~Decodes(LineBody(c, x), kind)
  BY <1>5, <1>11, <1>12, <1>13, BadBody
<1>15. {i \in Lines(c, e[l]) : ~Decodes(LineBody(c, i), LineKind(c, i))} # {}
  BY <1>10, <1>14 DEF kind
<1>16. QED
  BY <1>15 DEF LineRecords, Error

-----------------------------------------------------------------------------
(* replay() of a text log *)

(* A file whose last n pieces can be read: from the last snapshot l on, or *)
(* from the start (l = 0), its first n pieces are whole.                   *)
Readable(rs, e, l, n) ==
  /\ l \in 0 .. n
  /\ \A i \in l + 1 .. n : Full(rs, e, i) /\ rs[i].kind # "s"
  /\ l > 0 => rs[l].kind = "s" /\ Full(rs, e, l) /\ (l = 1 \/ Full(rs, e, l - 1))

Recs(rs, l, n) == SubSeq(rs, IF l = 0 THEN 1 ELSE l, n)

Starts(rs, e, i) == rs[i].kind = "s" /\ (i = 1 \/ Full(rs, e, i - 1))

LEMMA SnapshotsAre ==
  ASSUME NEW c, NEW rs, NEW e, Pieces(c, rs, e)
  PROVE  /\ \A i \in 1 .. Len(rs) : Starts(rs, e, i) => e[i - 1] + 1 \in SnapshotStarts(c)
         /\ \A x \in SnapshotStarts(c) :
              x \in 1 .. Len(c) /\ \E i \in 1 .. Len(rs) : Starts(rs, e, i) /\ x = e[i - 1] + 1
<1> DEFINE n == Len(rs)
<1>1. /\ n \in Nat /\ Len(c) \in Nat /\ e[0] = 0 /\ DOMAIN c = 1 .. Len(c)
      /\ \A i \in 1 .. n : e[i - 1] \in Nat /\ i - 1 \in 0 .. n /\ i \in 0 .. n
  <2>1. c \in Seq(Cell) /\ e[0] = 0
    BY DEF Pieces
  <2>2. QED
    BY <2>1, PiecesTypes
<1>2. ASSUME NEW i \in 1 .. n, rs[i].kind = "s", NEW x, x = e[i - 1] + 1
      PROVE  (x = 1 \/ c[x - 1] = NL) <=> (i = 1 \/ Full(rs, e, i - 1))
  <2>1. e[i - 1] \in Nat /\ i - 1 \in 0 .. n /\ 0 \in 0 .. n
    BY <1>1
  <2>2. x - 1 = e[i - 1]
    BY <1>2, <2>1
  <2>3. e[i - 1] = 0 <=> i = 1
    <3>1. i - 1 = 0 <=> e[i - 1] = e[0]
      BY <2>1, PieceOrder
    <3>2. QED
      BY <1>1, <3>1
  <2>4. i # 1 => (c[x - 1] = NL <=> Full(rs, e, i - 1))
    <3>1. i # 1 => i - 1 \in 1 .. n
      BY <1>1
    <3>2. QED
      BY <2>2, <3>1, FileFacts
  <2>5. x = 1 <=> i = 1
    BY <1>2, <2>1, <2>3
  <2>6. QED
    BY <2>4, <2>5
<1>3. ASSUME NEW i \in 1 .. n, Starts(rs, e, i), NEW x, x = e[i - 1] + 1
      PROVE  x \in SnapshotStarts(c)
  <2>1. c[x] = PREFIX /\ x \in DOMAIN c
    BY <1>1, <1>3, FileFacts DEF Starts
  <2>2. x = 1 \/ c[x - 1] = NL
    BY <1>2, <1>3 DEF Starts
  <2>3. QED
    BY <2>1, <2>2 DEF SnapshotStarts
<1>4. ASSUME NEW x \in SnapshotStarts(c)
      PROVE  x \in 1 .. Len(c) /\ \E i \in 1 .. n : Starts(rs, e, i) /\ x = e[i - 1] + 1
  <2>1. x \in 1 .. Len(c) /\ c[x] = PREFIX /\ (x = 1 \/ c[x - 1] = NL)
    BY <1>1 DEF SnapshotStarts
  <2>2. PICK i \in 1 .. n : rs[i].kind = "s" /\ x = e[i - 1] + 1
    BY <2>1, FileFacts
  <2>3. i = 1 \/ Full(rs, e, i - 1)
    BY <1>2, <2>1, <2>2
  <2>4. QED
    BY <2>1, <2>2, <2>3 DEF Starts
<1>5. QED
  BY <1>3, <1>4

LEMMA LastSnapshotIs ==
  ASSUME NEW c, NEW rs, NEW e, Pieces(c, rs, e), NEW l \in 1 .. Len(rs), Starts(rs, e, l),
         \A i \in l + 1 .. Len(rs) : ~Starts(rs, e, i)
  PROVE  SnapshotStarts(c) # {} /\ Max(SnapshotStarts(c)) = e[l - 1] + 1
<1> DEFINE S == SnapshotStarts(c)
           n == Len(rs)
<1>1. n \in Nat /\ Len(c) \in Nat /\ \A i \in 1 .. n : e[i - 1] \in Nat /\ i - 1 \in 0 .. n /\ i \in Int
  <2>1. n \in Nat /\ Len(c) \in Nat /\ \A i \in 1 .. n : e[i - 1] \in Nat /\ i - 1 \in 0 .. n
    BY PiecesTypes
  <2>2. QED
    BY <2>1
<1>2. e[l - 1] + 1 \in S
  BY SnapshotsAre
<1>3. S \in SUBSET (0 .. Len(c))
  <2>1. \A x \in S : x \in 1 .. Len(c)
    BY SnapshotsAre
  <2>2. QED
    BY <1>1, <2>1
<1>4. ASSUME NEW x \in S PROVE x <= e[l - 1] + 1
  <2>1. PICK i \in 1 .. n : Starts(rs, e, i) /\ x = e[i - 1] + 1
    BY SnapshotsAre
  <2>2. i \notin l + 1 .. n
    BY <2>1
  <2>3. i - 1 <= l - 1
    BY <1>1, <2>2
  <2>4. i - 1 \in 0 .. n /\ l - 1 \in 0 .. n /\ e[i - 1] \in Nat /\ e[l - 1] \in Nat
    BY <1>1
  <2>5. e[i - 1] <= e[l - 1]
    <3> DEFINE u == i - 1
               v == l - 1
    <3>1. u \in 0 .. n /\ v \in 0 .. n /\ u <= v
      BY <2>3, <2>4
    <3> HIDE DEF u, v
    <3>2. e[u] <= e[v]
      BY <3>1, PieceOrder
    <3>3. QED
      BY <3>2 DEF u, v
  <2>6. QED
    BY <2>1, <2>4, <2>5
<1> HIDE DEF S
<1>5. Max(S) \in S /\ \A x \in S : x <= Max(S)
  BY <1>1, <1>2, <1>3, MaxIs
<1>6. Max(S) <= e[l - 1] + 1 /\ e[l - 1] + 1 <= Max(S) /\ Max(S) \in Int /\ e[l - 1] + 1 \in Int
  <2>1. Max(S) \in Int /\ e[l - 1] + 1 \in Int
    <3>1. Max(S) \in Int
      <4> DEFINE u == Max(S)
      <4>1. u \in 0 .. Len(c)
        BY <1>3, <1>5
      <4> HIDE DEF u
      <4>2. u \in Int
        BY <1>1, <4>1
      <4>3. QED
        BY <4>2 DEF u
    <3>2. e[l - 1] \in Nat
      BY <1>1
    <3>3. QED
      BY <3>1, <3>2
  <2>2. QED
    BY <1>2, <1>4, <1>5, <2>1
<1>7. Max(S) = e[l - 1] + 1
  <2> DEFINE u == Max(S)
             v == e[l - 1] + 1
  <2>1. u \in Int /\ v \in Int /\ u <= v /\ v <= u
    BY <1>6
  <2> HIDE DEF u, v
  <2>2. u = v
    BY <2>1
  <2>3. QED
    BY <2>2 DEF u, v
<1>8. QED
  BY <1>2, <1>7 DEF S

(* Where the line that begins with the snapshot of a whole piece leads. *)
LEMMA AfterSnapshot ==
  ASSUME NEW c, NEW rs, NEW e, Pieces(c, rs, e), NEW l \in 1 .. Len(rs), Starts(rs, e, l), Full(rs, e, l)
  PROVE  LET top == e[l - 1] + 1
         IN /\ Ends(c, top) # {} /\ Min(Ends(c, top)) = e[l]
            /\ SubSeq(c, top + 1, e[l] - 1) = Payload(rs[l])
            /\ Decodes(Payload(rs[l]), "s") /\ Decoded(Payload(rs[l])) = rs[l]
<1> DEFINE top == e[l - 1] + 1
           x == top + 1
<1>1. e[l - 1] \in Nat /\ e[l] \in Nat /\ rs[l] \in Records(Nat) /\ rs[l].kind = "s"
  BY PiecesTypes DEF Starts
<1>2. x \in Nat /\ e[l - 1] < x /\ x <= e[l] /\ x - 1 = top
  <2> DEFINE m == Len(LineFrame(rs[l]))
             p == e[l - 1]
  <2>1. m \in 3 .. 4 /\ e[l] - p = m /\ p \in Nat
    BY <1>1, LineCells DEF Full
  <2>2. x = p + 2 /\ x - 1 = top /\ top = p + 1
    BY <1>1
  <2> HIDE DEF m, p, x, top
  <2>3. x \in Nat /\ p < x /\ x <= e[l] /\ x - 1 = top
    BY <1>1, <2>1, <2>2
  <2>4. QED
    BY <2>3 DEF p
<1>3. SubSeq(c, top + 1, e[l] - 1) = Payload(rs[l])
  BY <1>1, WholeLine
<1>4. Decodes(Payload(rs[l]), "s") /\ Decoded(Payload(rs[l])) = rs[l]
  BY <1>1, PayloadDecodes
<1> HIDE DEF x
<1>5. Ends(c, x - 1) # {} /\ Min(Ends(c, x - 1)) = e[l]
  BY <1>2, StopIs
<1>6. QED
  BY <1>2, <1>3, <1>4, <1>5

LEMMA ReadsLine ==
  ASSUME NEW c, NEW rs, NEW e, Pieces(c, rs, e), NEW l \in Nat, Readable(rs, e, l, Len(rs))
  PROVE  ReadLine(c) = Ok(Recs(rs, l, Len(rs)))
<1> DEFINE n == Len(rs)
<1>1. n \in Nat /\ rs \in Seq(Records(Nat)) /\ e[0] = 0 /\ l \in 0 .. n
  <2>1. rs \in Seq(Records(Nat)) /\ e[0] = 0
    BY DEF Pieces
  <2>2. QED
    BY <2>1 DEF Readable
<1>2. LineRecords(c, e[l]) = Ok(SubSeq(rs, l + 1, n))
  <2>1. \A i \in l + 1 .. Len(rs) : Full(rs, e, i)
    BY DEF Readable
  <2>2. QED
    BY <1>1, <2>1, RecordsFrom
<1>3. \A i \in l + 1 .. n : ~Starts(rs, e, i)
  BY DEF Readable, Starts
<1>4. CASE l = 0
  <2>1. SnapshotStarts(c) = {}
    <3> SUFFICES ASSUME NEW x \in SnapshotStarts(c) PROVE FALSE
      OBVIOUS
    <3>1. PICK i \in 1 .. n : Starts(rs, e, i)
      BY SnapshotsAre
    <3>2. i \in l + 1 .. n
      BY <1>4
    <3>3. QED
      BY <1>3, <3>1, <3>2
  <2>2. ReadLine(c) = LineRecords(c, 0)
    BY <2>1 DEF ReadLine
  <2>3. LineRecords(c, 0) = Ok(SubSeq(rs, 1, n))
    BY <1>1, <1>2, <1>4
  <2>4. QED
    BY <1>4, <2>2, <2>3 DEF Recs
<1>5. CASE l # 0
  <2>1. l \in 1 .. n /\ Starts(rs, e, l) /\ Full(rs, e, l)
    BY <1>1, <1>5 DEF Readable, Starts
  <2> DEFINE top == e[l - 1] + 1
             S == SnapshotStarts(c)
  <2>2. S # {} /\ Max(S) = top
    BY <1>3, <2>1, LastSnapshotIs
  <2>3. /\ Ends(c, top) # {} /\ Min(Ends(c, top)) = e[l]
        /\ SubSeq(c, top + 1, e[l] - 1) = Payload(rs[l])
        /\ Decodes(Payload(rs[l]), "s") /\ Decoded(Payload(rs[l])) = rs[l]
    BY <2>1, AfterSnapshot
  <2> HIDE DEF top, S
  <2>4. ReadLine(c) = Ok(<<rs[l]>> \o SubSeq(rs, l + 1, n))
    <3>1. LineRecords(c, e[l]).ok /\ LineRecords(c, e[l]).recs = SubSeq(rs, l + 1, n)
      BY <1>2 DEF Ok
    <3>2. Max(S) = top /\ Min(Ends(c, Max(S))) = e[l] /\ Ends(c, Max(S)) # {}
      BY <2>2, <2>3
    <3>3. Decodes(SubSeq(c, Max(S) + 1, Min(Ends(c, Max(S))) - 1), "s")
          /\ Decoded(SubSeq(c, Max(S) + 1, Min(Ends(c, Max(S))) - 1)) = rs[l]
      BY <2>3, <3>2
    <3>4. QED
      BY <2>2, <3>1, <3>2, <3>3 DEF ReadLine, S
  <2>5. <<rs[l]>> \o SubSeq(rs, l + 1, n) = SubSeq(rs, l, n)
    <3> DEFINE h == <<rs[l]>>
               t == SubSeq(rs, l + 1, n)
               a == h \o t
               b == SubSeq(rs, l, n)
    <3>1. h \in Seq(Records(Nat)) /\ Len(h) = 1 /\ h[1] = rs[l]
      BY <1>1, <2>1
    <3>2. t \in Seq(Records(Nat)) /\ Len(t) = n - l /\ \A i \in 1 .. n - l : t[i] = rs[l + 1 + i - 1]
      BY <1>1, <2>1
    <3>3. b \in Seq(Records(Nat)) /\ Len(b) = n - l + 1 /\ \A i \in 1 .. n - l + 1 : b[i] = rs[l + i - 1]
      BY <1>1, <2>1
    <3> HIDE DEF h, t, b
    <3>4. /\ a \in Seq(Records(Nat)) /\ Len(a) = n - l + 1 /\ a[1] = rs[l]
          /\ \A i \in 2 .. n - l + 1 : a[i] = t[i - 1]
      <4>1. /\ a \in Seq(Records(Nat)) /\ Len(a) = Len(h) + Len(t)
            /\ \A i \in 1 .. Len(h) + Len(t) : a[i] = IF i <= Len(h) THEN h[i] ELSE t[i - Len(h)]
        BY <3>1, <3>2, ConcatProperties
      <4> HIDE DEF a
      <4>2. Len(h) + Len(t) = n - l + 1 /\ n - l \in Nat
        BY <1>1, <2>1, <3>1, <3>2
      <4>3. QED
        BY <3>1, <4>1, <4>2
    <3> HIDE DEF a
    <3>5. \A i \in 1 .. Len(a) : a[i] = b[i]
      <4> TAKE i \in 1 .. Len(a)
      <4>1. CASE i = 1
        BY <1>1, <2>1, <3>3, <3>4, <4>1
      <4>2. CASE i # 1
        <5>1. i \in 2 .. n - l + 1 /\ i - 1 \in 1 .. n - l /\ l + 1 + (i - 1) - 1 = l + i - 1 /\ i \in 1 .. n - l + 1
          BY <1>1, <2>1, <3>4, <4>2
        <5>2. a[i] = t[i - 1] /\ t[i - 1] = rs[l + 1 + (i - 1) - 1] /\ b[i] = rs[l + i - 1]
          BY <3>2, <3>3, <3>4, <5>1
        <5>3. QED
          BY <5>1, <5>2
      <4>3. QED
        BY <4>1, <4>2
    <3>6. a = b
      BY <3>3, <3>4, <3>5, SeqEqual
    <3>7. QED
      BY <3>6 DEF a, b, h, t
  <2>6. QED
    BY <1>5, <2>4, <2>5 DEF Recs
<1>6. QED
  BY <1>4, <1>5

(* If a file whose last piece alone is not whole cannot be read, the error *)
(* points at that piece.                                                   *)
LEMMA TornLine ==
  ASSUME NEW c, NEW rs, NEW e, Pieces(c, rs, e), Len(rs) > 0, ~Full(rs, e, Len(rs)),
         NEW l \in Nat, Readable(rs, e, l, Len(rs) - 1), ~ReadLine(c).ok
  PROVE  ReadLine(c).at = e[Len(rs) - 1]
<1> DEFINE n == Len(rs)
           S == SnapshotStarts(c)
<1>1. /\ n \in Nat /\ n > 0 /\ e[0] = 0 /\ l \in 0 .. n - 1 /\ l \in 0 .. n /\ l < n /\ n \in 1 .. n
      /\ n - 1 \in 0 .. n /\ e[n - 1] \in Nat
  <2>1. n \in Nat
    BY PiecesTypes
  <2>2. l \in 0 .. n - 1 /\ n > 0
    BY DEF Readable
  <2>3. l \in 0 .. n /\ l < n /\ n \in 1 .. n /\ n - 1 \in 0 .. n
    BY <2>1, <2>2
  <2>4. e[0] = 0
    BY DEF Pieces
  <2>5. e[n - 1] \in Nat
    BY <2>3, PiecesTypes
  <2>6. QED
    BY <2>1, <2>2, <2>3, <2>4, <2>5
<1>2. ~LineRecords(c, e[l]).ok => LineRecords(c, e[l]).at = e[n - 1]
  <2>1. \A i \in l + 1 .. Len(rs) - 1 : Full(rs, e, i)
    BY DEF Readable
  <2>2. QED
    BY <1>1, <2>1, TornRecords
<1>3. \A i \in l + 1 .. n - 1 : ~Starts(rs, e, i)
  BY DEF Readable, Starts
<1>4. CASE Starts(rs, e, n)
  <2> DEFINE top == e[n - 1] + 1
  <2>1. S # {} /\ Max(S) = top
    <3>1. \A i \in n + 1 .. Len(rs) : ~Starts(rs, e, i)
      BY <1>1
    <3>2. QED
      BY <1>1, <1>4, <3>1, LastSnapshotIs
  <2>2. Ends(c, top) = {}
    <3> DEFINE x == top + 1
    <3>1. x \in Nat /\ e[n - 1] < x /\ x - 1 = top
      BY <1>1
    <3> HIDE DEF x
    <3>2. Ends(c, x - 1) = {}
      BY <1>1, <3>1, LastStop
    <3>3. QED
      BY <3>1, <3>2
  <2>3. ReadLine(c) = Error(top - 1)
    <3>1. Ends(c, Max(S)) = {} /\ S # {}
      BY <2>1, <2>2
    <3> HIDE DEF top
    <3>2. QED
      BY <2>1, <3>1 DEF ReadLine, S
  <2>4. top - 1 = e[n - 1]
    BY <1>1
  <2>5. QED
    BY <2>3, <2>4 DEF Error
<1>5. CASE ~Starts(rs, e, n)
  <2>1. \A i \in l + 1 .. n : ~Starts(rs, e, i)
    <3>1. \A i \in l + 1 .. n : i = n \/ i \in l + 1 .. n - 1
      BY <1>1
    <3>2. QED
      BY <1>3, <1>5, <3>1
  <2>2. CASE l = 0
    <3>1. S = {}
      <4> SUFFICES ASSUME NEW x \in S PROVE FALSE
        OBVIOUS
      <4>1. PICK i \in 1 .. n : Starts(rs, e, i)
        BY SnapshotsAre
      <4>2. i \in l + 1 .. n
        BY <2>2
      <4>3. QED
        BY <2>1, <4>1, <4>2
    <3>2. ReadLine(c) = LineRecords(c, e[l])
      BY <1>1, <2>2, <3>1 DEF ReadLine
    <3>3. QED
      BY <1>2, <3>2
  <2>3. CASE l # 0
    <3>1. l \in 1 .. n /\ Starts(rs, e, l) /\ Full(rs, e, l)
      BY <1>1, <2>3 DEF Readable, Starts
    <3> DEFINE top == e[l - 1] + 1
    <3>2. S # {} /\ Max(S) = top
      BY <2>1, <3>1, LastSnapshotIs
    <3>3. /\ Ends(c, top) # {} /\ Min(Ends(c, top)) = e[l]
          /\ SubSeq(c, top + 1, e[l] - 1) = Payload(rs[l])
          /\ Decodes(Payload(rs[l]), "s")
      BY <3>1, AfterSnapshot
    <3> HIDE DEF top, S
    <3>4. /\ Max(S) = top /\ Min(Ends(c, Max(S))) = e[l] /\ Ends(c, Max(S)) # {}
          /\ Decodes(SubSeq(c, Max(S) + 1, Min(Ends(c, Max(S))) - 1), "s")
      BY <3>2, <3>3
    <3>5. \/ ReadLine(c) = LineRecords(c, e[l]) /\ ~LineRecords(c, e[l]).ok
          \/ ReadLine(c).ok
      BY <3>2, <3>4 DEF ReadLine, S, Ok
    <3>6. QED
      BY <1>2, <3>5
  <2>4. QED
    BY <2>2, <2>3
<1>6. QED
  BY <1>4, <1>5

(* What open() can read, and which ends with a line, is readable. *)
LEMMA OpenLine ==
  ASSUME NEW c, NEW rs, NEW e, Pieces(c, rs, e), ReadLine(c).ok,
         c = <<>> \/ c[Len(c)] = NL
  PROVE  \E l \in 0 .. Len(rs) : Readable(rs, e, l, Len(rs))
<1> DEFINE n == Len(rs)
           S == SnapshotStarts(c)
<1>1. n \in Nat /\ e[0] = 0 /\ e[n] = Len(c) /\ 0 \in 0 .. n /\ n \in 0 .. n
  <2>1. n \in Nat
    BY PiecesTypes
  <2>2. e[0] = 0 /\ e[n] = Len(c)
    BY DEF Pieces
  <2>3. QED
    BY <2>1, <2>2
<1>2. n = 0 \/ Full(rs, e, n)
  <2> SUFFICES ASSUME n # 0 PROVE Full(rs, e, n)
    OBVIOUS
  <2>1. n \in 1 .. n
    BY <1>1
  <2>2. e[n] \in 1 .. Len(c) /\ (c[e[n]] = NL <=> Full(rs, e, n))
    BY <2>1, FileFacts
  <2>3. c # <<>>
    BY <1>1, <2>2
  <2>4. QED
    BY <1>1, <2>2, <2>3
<1>3. CASE S = {}
  <2>1. LineRecords(c, e[0]).ok
    BY <1>1, <1>3 DEF ReadLine
  <2>2. \A i \in 0 + 1 .. n : Full(rs, e, i)
    <3>1. 0 = Len(rs) \/ Full(rs, e, Len(rs))
      BY <1>2
    <3>2. QED
      BY <1>1, <2>1, <3>1, AllWhole
  <2>3. \A i \in 0 + 1 .. n : rs[i].kind # "s"
    <3> TAKE i \in 0 + 1 .. n
    <3>1. i \in 1 .. n /\ (i = 1 \/ i - 1 \in 0 + 1 .. n)
      BY <1>1
    <3>2. ~Starts(rs, e, i)
      BY <1>3, <3>1, SnapshotsAre
    <3>3. QED
      BY <2>2, <3>1, <3>2 DEF Starts
  <2>4. Readable(rs, e, 0, n)
    BY <1>1, <2>2, <2>3 DEF Readable
  <2>5. QED
    BY <1>1, <2>4
<1>4. CASE S # {}
  <2> DEFINE D == {i \in 1 .. n : Starts(rs, e, i)}
  <2>1. D \in SUBSET (0 .. n) /\ D # {}
    <3>1. D # {}
      BY <1>4, SnapshotsAre
    <3>2. \A i \in 1 .. n : i \in 0 .. n
      BY <1>1
    <3>3. QED
      BY <3>1, <3>2
  <2>2. PICK l \in D : \A i \in D : i <= l
    <3> HIDE DEF D
    <3>1. Max(D) \in D /\ \A x \in D : x <= Max(D)
      BY <1>1, <2>1, MaxIs
    <3>2. QED
      BY <3>1
  <2>3. l \in 1 .. n /\ Starts(rs, e, l) /\ l \in Nat
    BY <1>1, <2>2
  <2>4. \A i \in l + 1 .. n : ~Starts(rs, e, i)
    <3> SUFFICES ASSUME NEW i \in l + 1 .. n, Starts(rs, e, i) PROVE FALSE
      OBVIOUS
    <3>1. i \in 1 .. n /\ ~(i <= l)
      BY <1>1, <2>3
    <3>2. i \in D
      BY <3>1
    <3> HIDE DEF D
    <3>3. QED
      BY <2>2, <3>1, <3>2
  <2> DEFINE top == e[l - 1] + 1
             m == Min(Ends(c, top))
  <2>5. Max(S) = top
    BY <2>3, <2>4, LastSnapshotIs
  <2>6. Ends(c, top) # {} /\ Decodes(SubSeq(c, top + 1, m - 1), "s") /\ LineRecords(c, m).ok
    <3> HIDE DEF top, S
    <3>1. Ends(c, Max(S)) # {} /\ Decodes(SubSeq(c, Max(S) + 1, Min(Ends(c, Max(S))) - 1), "s")
          /\ LineRecords(c, Min(Ends(c, Max(S)))).ok
      BY <1>4 DEF ReadLine, Error, S
    <3>2. QED
      BY <2>5, <3>1
  <2>7. e[l - 1] \in Nat /\ e[l] \in Nat /\ e[l - 1] < e[l] /\ l \in 0 .. n /\ Len(c) \in Nat
    BY <2>3, PiecesTypes
  <2>8. Full(rs, e, l)
    <3> SUFFICES ASSUME ~Full(rs, e, l) PROVE FALSE
      OBVIOUS
    <3>1. l \in 1 .. n - 1 /\ Full(rs, e, n)
      <4>1. l # n /\ Full(rs, e, n)
        BY <1>1, <1>2, <2>3
      <4>2. QED
        BY <1>1, <2>3, <4>1
    <3> DEFINE x == top + 1
    <3>2. x \in Nat /\ x - 1 = top /\ e[l - 1] < x /\ x <= e[l] + 1 /\ top + 1 \in Nat /\ top + 1 > 0
          /\ (x <= e[l] \/ x = e[l] + 1)
      BY <2>7
    <3> HIDE DEF x, top
    <3>3. Min(Ends(c, x - 1)) \in Nat /\ e[l] + 1 < Min(Ends(c, x - 1)) /\ Min(Ends(c, x - 1)) <= Len(c)
      BY <3>1, <3>2, BadStop
    <3>4. m \in Nat /\ e[l] + 1 < m /\ m <= Len(c)
      BY <3>2, <3>3
    <3> HIDE DEF m
    <3> DEFINE z == m - 1
    <3>5. z \in Nat /\ e[l] + 1 <= z /\ z <= Len(c)
      BY <2>7, <3>4
    <3> HIDE DEF z
    <3>6. "s" \in Kinds /\ x > 0
      BY <3>2 DEF Kinds, x
    <3>7. ~Decodes(SubSeq(c, x, z), "s")
      BY <3>1, <3>2, <3>5, <3>6, BadBody
    <3>8. QED
      BY <2>6, <3>7 DEF x, z
  <2>9. m = e[l]
    BY <2>3, <2>8, AfterSnapshot
  <2>10. \A i \in l + 1 .. n : Full(rs, e, i)
    <3>1. LineRecords(c, e[l]).ok
      BY <2>6, <2>9
    <3>2. l = Len(rs) \/ Full(rs, e, Len(rs))
      BY <1>2, <2>3
    <3>3. QED
      BY <2>7, <3>1, <3>2, AllWhole
  <2>11. \A i \in l + 1 .. n : rs[i].kind # "s"
    <3> TAKE i \in l + 1 .. n
    <3>1. i - 1 = l \/ i - 1 \in l + 1 .. n
      BY <1>1, <2>3
    <3>2. Full(rs, e, i - 1)
      BY <2>8, <2>10, <3>1
    <3>3. QED
      BY <2>4, <3>2 DEF Starts
  <2>12. Readable(rs, e, l, n)
    BY <2>3, <2>7, <2>8, <2>10, <2>11 DEF Readable, Starts
  <2>13. QED
    BY <2>7, <2>12
<1>5. QED
  BY <1>3, <1>4

LEMMA ReadableRecs ==
  ASSUME NEW rs \in Seq(Records(Nat)), NEW e, NEW l \in Nat, Readable(rs, e, l, Len(rs))
  PROVE  Recs(rs, l, Len(rs)) = FromLastSnapshot(rs)
<1> DEFINE n == Len(rs)
<1>1. n \in Nat /\ l \in 0 .. n
  BY DEF Readable
<1>2. \A i \in l + 1 .. n : i \notin Snaps(rs)
  BY DEF Readable, Snaps
<1>3. CASE l = 0
  <2>1. Snaps(rs) = {}
    BY <1>2, <1>3 DEF Snaps
  <2>2. SubSeq(rs, 1, Len(rs)) = rs
    OBVIOUS
  <2>3. QED
    BY <1>3, <2>1, <2>2, FromLastIs DEF Recs
<1>4. CASE l # 0
  <2>1. l \in Snaps(rs)
    BY <1>1, <1>4 DEF Readable, Snaps
  <2>2. \A i \in Snaps(rs) : i <= l
    <3> TAKE i \in Snaps(rs)
    <3>1. i \in 1 .. n
      BY DEF Snaps
    <3>2. QED
      BY <1>1, <1>2, <3>1
  <2>3. QED
    BY <1>4, <2>1, <2>2, FromLastIs DEF Recs
<1>5. QED
  BY <1>3, <1>4

-----------------------------------------------------------------------------
(* The file c grows by the first m cells of frame f. *)
Grown(c, c2, f, m) ==
  /\ c \in Seq(Cell) /\ c2 \in Seq(Cell) /\ Len(c2) = Len(c) + m
  /\ \A x \in 1 .. Len(c) : c2[x] = c[x]
  /\ \A x \in 1 .. m : c2[Len(c) + x] = f[x]

(* A file of pieces grows by a piece. *)
OneMore(rs, e, end) == [i \in 0 .. Len(rs) + 1 |-> IF i <= Len(rs) THEN e[i] ELSE end]

LEMMA PiecesGrow ==
  ASSUME NEW c, NEW rs, NEW e, Pieces(c, rs, e), NEW r \in Records(Nat),
         NEW m \in 1 .. Len(LineFrame(r)), NEW c2, Grown(c, c2, LineFrame(r), m)
  PROVE  LET rs2 == Append(rs, r)
             e2  == OneMore(rs, e, Len(c2))
         IN /\ Pieces(c2, rs2, e2) /\ Len(rs2) = Len(rs) + 1
            /\ e2[Len(rs)] = Len(c)
            /\ Full(rs2, e2, Len(rs) + 1) <=> m = Len(LineFrame(r))
            /\ \A l \in Nat : Readable(rs, e, l, Len(rs)) =>
                 /\ Readable(rs2, e2, l, Len(rs))
                 /\ m = Len(LineFrame(r)) =>
                      Readable(rs2, e2, IF r.kind = "s" THEN Len(rs) + 1 ELSE l, Len(rs) + 1)
<1> DEFINE n == Len(rs)
           rs2 == Append(rs, r)
           e2 == OneMore(rs, e, Len(c2))
           f == LineFrame(r)
<1>1. /\ n \in Nat /\ Len(c) \in Nat /\ \A i \in 0 .. n : e[i] \in Nat /\ e[i] <= Len(c)
      /\ \A i \in 1 .. n : i - 1 \in 0 .. n /\ i \in 0 .. n
      /\ c \in Seq(Cell) /\ rs \in Seq(Records(Nat)) /\ e[0] = 0 /\ e[n] = Len(c)
      /\ \A i, j \in 0 .. n : i < j => e[i] < e[j]
  <2>1. /\ c \in Seq(Cell) /\ rs \in Seq(Records(Nat)) /\ e[0] = 0 /\ e[n] = Len(c)
        /\ \A i, j \in 0 .. n : i < j => e[i] < e[j]
    BY DEF Pieces
  <2>2. QED
    BY <2>1, PiecesTypes
<1>2. c2 \in Seq(Cell) /\ Len(c2) = Len(c) + m /\ Len(f) \in 3 .. 4 /\ m \in 1 .. 4 /\ Len(c2) \in Nat
  <2>1. Len(LineFrame(r)) \in 3 .. 4
    BY LineCells
  <2>2. c2 \in Seq(Cell) /\ Len(c2) = Len(c) + m
    BY DEF Grown
  <2> HIDE DEF f
  <2>3. m \in 1 .. Len(f)
    BY DEF f
  <2>4. m \in 1 .. 4
    <3> DEFINE k == Len(f)
    <3>1. k \in 3 .. 4 /\ m \in 1 .. k
      BY <2>1, <2>3 DEF f
    <3> HIDE DEF k
    <3>2. QED
      BY <3>1
  <2>5. QED
    BY <1>1, <2>1, <2>2, <2>4 DEF f
<1> HIDE DEF f
<1>3. /\ rs2 \in Seq(Records(Nat)) /\ Len(rs2) = n + 1 /\ rs2[n + 1] = r
      /\ \A i \in 1 .. n : rs2[i] = rs[i]
  BY <1>1
<1>4. /\ e2 \in [0 .. n + 1 -> Nat] /\ e2[n + 1] = Len(c2)
      /\ \A i \in 0 .. n : e2[i] = e[i]
  BY <1>1, <1>2 DEF OneMore
<1> HIDE DEF rs2, e2
<1>5. \A i \in 1 .. n : Full(rs2, e2, i) <=> Full(rs, e, i)
  BY <1>1, <1>3, <1>4 DEF Full
<1>6. e2[n + 1] - e2[n] = m /\ e2[n] = Len(c) /\ e2[0] = 0
  BY <1>1, <1>2, <1>4
<1>7. \A i, j \in 0 .. n + 1 : i < j => e2[i] < e2[j]
  <2> TAKE i, j \in 0 .. n + 1
  <2> HAVE i < j
  <2>1. i \in 0 .. n
    BY <1>1
  <2>2. CASE j \in 0 .. n
    BY <1>1, <1>4, <2>1, <2>2
  <2>3. CASE j = n + 1
    BY <1>1, <1>2, <1>4, <2>1, <2>3
  <2>4. QED
    BY <1>1, <2>2, <2>3
<1>8. ASSUME NEW i \in 1 .. n + 1
      PROVE  /\ e2[i] - e2[i - 1] <= Len(LineFrame(rs2[i]))
             /\ \A x \in 1 .. e2[i] - e2[i - 1] : c2[e2[i - 1] + x] = LineFrame(rs2[i])[x]
  <2>1. CASE i = n + 1
    <3>1. e2[i] - e2[i - 1] = m /\ e2[i - 1] = Len(c) /\ rs2[i] = r
      BY <1>1, <1>3, <1>6, <2>1
    <3>2. \A x \in 1 .. m : c2[Len(c) + x] = f[x]
      BY DEF Grown, f
    <3>3. m <= Len(f)
      BY <1>2 DEF f
    <3>4. QED
      BY <3>1, <3>2, <3>3 DEF f
  <2>2. CASE i # n + 1
    <3>1. i \in 1 .. n
      BY <1>1, <2>2
    <3>2. e2[i] = e[i] /\ e2[i - 1] = e[i - 1] /\ rs2[i] = rs[i] /\ e[i] \in Nat /\ e[i - 1] \in Nat /\ e[i] <= Len(c)
      BY <1>1, <1>3, <1>4, <3>1
    <3>3. /\ e[i] - e[i - 1] <= Len(LineFrame(rs[i]))
          /\ \A x \in 1 .. e[i] - e[i - 1] : c[e[i - 1] + x] = LineFrame(rs[i])[x]
      BY <3>1 DEF Pieces
    <3>4. \A x \in 1 .. e[i] - e[i - 1] : c2[e[i - 1] + x] = c[e[i - 1] + x]
      <4> TAKE x \in 1 .. e[i] - e[i - 1]
      <4> DEFINE p == e[i - 1] + x
      <4>1. p \in 1 .. Len(c)
        <5> DEFINE y == e[i - 1]
                   z == e[i]
                   w == Len(c)
        <5>1. y \in Nat /\ z \in Nat /\ w \in Nat /\ z <= w /\ x \in 1 .. z - y /\ p = y + x
          BY <1>1, <3>2
        <5> HIDE DEF y, z, w, p
        <5>2. p \in 1 .. w
          BY <5>1
        <5>3. QED
          BY <5>2 DEF w
      <4> HIDE DEF p
      <4>2. c2[p] = c[p]
        BY <4>1 DEF Grown
      <4>3. QED
        BY <4>2 DEF p
    <3>5. QED
      BY <3>2, <3>3, <3>4
  <2>3. QED
    BY <2>1, <2>2
<1>9. Pieces(c2, rs2, e2)
  <2>1. Len(rs2) = n + 1 /\ c2 \in Seq(Cell) /\ rs2 \in Seq(Records(Nat))
    BY <1>2, <1>3
  <2>2. QED
    BY <1>4, <1>6, <1>7, <1>8, <2>1 DEF Pieces
<1>10. Full(rs2, e2, n + 1) <=> m = Len(f)
  <2>1. n + 1 - 1 = n
    BY <1>1
  <2>2. QED
    BY <1>3, <1>6, <2>1 DEF Full, f
<1>11. ASSUME NEW l \in Nat, Readable(rs, e, l, n)
       PROVE  /\ Readable(rs2, e2, l, n)
              /\ m = Len(f) => Readable(rs2, e2, IF r.kind = "s" THEN n + 1 ELSE l, n + 1)
  <2>1. /\ l \in 0 .. n
        /\ \A i \in l + 1 .. n : Full(rs, e, i) /\ rs[i].kind # "s"
        /\ l > 0 => rs[l].kind = "s" /\ Full(rs, e, l) /\ (l = 1 \/ Full(rs, e, l - 1))
    BY <1>11 DEF Readable
  <2>2. \A i \in l + 1 .. n : i \in 1 .. n /\ Full(rs2, e2, i) /\ rs2[i].kind # "s"
    <3> TAKE i \in l + 1 .. n
    <3>1. i \in 1 .. n
      BY <1>1
    <3>2. QED
      BY <1>3, <1>5, <2>1, <3>1
  <2>3. l > 0 => rs2[l].kind = "s" /\ Full(rs2, e2, l) /\ (l = 1 \/ Full(rs2, e2, l - 1))
    <3> HAVE l > 0
    <3>1. l \in 1 .. n /\ (l # 1 => l - 1 \in 1 .. n)
      BY <1>1, <2>1
    <3>2. QED
      BY <1>3, <1>5, <2>1, <3>1
  <2>4. Readable(rs2, e2, l, n)
    BY <2>1, <2>2, <2>3 DEF Readable
  <2>5. ASSUME m = Len(f), r.kind = "s"
        PROVE  Readable(rs2, e2, n + 1, n + 1)
    <3>1. n + 1 \in 0 .. n + 1 /\ n + 1 > 0 /\ n + 1 - 1 = n /\ \A i \in n + 1 + 1 .. n + 1 : FALSE
      BY <1>1
    <3>2. n + 1 = 1 \/ Full(rs2, e2, n)
      <4>1. CASE l = n
        <5>1. n = 0 \/ l > 0
          BY <1>1, <4>1
        <5>2. QED
          BY <2>3, <4>1, <5>1
      <4>2. CASE l # n
        <5>1. n \in l + 1 .. n
          BY <1>1, <2>1, <4>2
        <5>2. QED
          BY <2>2, <5>1
      <4>3. QED
        BY <4>1, <4>2
    <3>3. Full(rs2, e2, n + 1) /\ rs2[n + 1].kind = "s"
      BY <1>3, <1>10, <2>5
    <3>4. QED
      BY <3>1, <3>2, <3>3 DEF Readable
  <2>6. ASSUME m = Len(f), r.kind # "s"
        PROVE  Readable(rs2, e2, l, n + 1)
    <3>1. l \in 0 .. n + 1
      BY <1>1, <2>1
    <3>2. \A i \in l + 1 .. n + 1 : Full(rs2, e2, i) /\ rs2[i].kind # "s"
      <4> TAKE i \in l + 1 .. n + 1
      <4>1. i = n + 1 \/ i \in l + 1 .. n
        BY <1>1
      <4>2. Full(rs2, e2, n + 1) /\ rs2[n + 1].kind # "s"
        BY <1>3, <1>10, <2>6
      <4>3. QED
        BY <2>2, <4>1, <4>2
    <3>3. QED
      BY <2>3, <3>1, <3>2 DEF Readable
  <2>7. QED
    BY <2>4, <2>5, <2>6
<1>12. QED
  BY <1>3, <1>6, <1>9, <1>10, <1>11 DEF rs2, e2, f

-----------------------------------------------------------------------------
(* A binary file: frames of four cells behind the seed *)

(* Its first frames are those of the records rs. *)
Frames(c, rs) ==
  /\ rs \in Seq(Records(Nat)) /\ 4 * Len(rs) + 1 <= Len(c) /\ c[1] = SYNC("s")
  /\ \A i \in 1 .. Len(rs) :
       /\ c[4 * i - 2] = SYNC(rs[i].kind) /\ c[4 * i - 1] = Sum(rs[i], 4 * i - 3)
       /\ c[4 * i] = Part(rs[i], 1) /\ c[4 * i + 1] = Part(rs[i], 2)

(* It holds nothing else; it stops within frame k + 1; that frame is whole *)
(* and wrong.                                                              *)
Whole(c, rs) == (c = <<>> /\ rs = <<>>) \/ (Frames(c, rs) /\ Len(c) = 4 * Len(rs) + 1)
Torn(c, k)   == 4 * k + 2 <= Len(c) /\ Len(c) <= 4 * k + 4
Broken(c, k) == 4 * k + 5 <= Len(c) /\ ~FrameOk(c, 4 * k + 1)

(* What a frame consists of, at the start of a file and elsewhere. *)
LEMMA BinFrameIs ==
  ASSUME NEW r \in Records(Nat), NEW o \in Nat
  PROVE  LET f == BinFrame(r, o)
         IN /\ o = 0 => /\ Len(f) = 5 /\ f[1] = SYNC("s") /\ f[2] = SYNC(r.kind) /\ f[3] = Sum(r, 1)
                        /\ f[4] = Part(r, 1) /\ f[5] = Part(r, 2)
            /\ o # 0 => /\ Len(f) = 4 /\ f[1] = SYNC(r.kind) /\ f[2] = Sum(r, o)
                        /\ f[3] = Part(r, 1) /\ f[4] = Part(r, 2)
<1> DEFINE f == BinFrame(r, o)
           start == IF o = 0 THEN 1 ELSE o
           seed  == IF o = 0 THEN <<SYNC("s")>> ELSE <<>>
           a == SYNC(r.kind)
           b == Sum(r, start)
           p == Part(r, 1)
           q == Part(r, 2)
           s == SYNC("s")
           S == {a, b, p, q, s}
           left == seed \o <<a, b>>
<1>1. f = left \o <<p, q>>
  BY DEF BinFrame, Payload, Part
<1>2. seed \in Seq(S) /\ (o = 0 => Len(seed) = 1 /\ seed[1] = s) /\ (o # 0 => Len(seed) = 0 /\ seed = <<>>)
  <2>1. CASE o = 0
    <3>1. seed = <<s>>
      BY <2>1
    <3> HIDE DEF a, b, p, q, s, seed
    <3>2. <<s>> \in Seq(S) /\ Len(<<s>>) = 1 /\ <<s>>[1] = s
      OBVIOUS
    <3>3. QED
      BY <2>1, <3>1, <3>2
  <2>2. CASE o # 0
    <3>1. seed = <<>>
      BY <2>2
    <3> HIDE DEF a, b, p, q, s, seed
    <3>2. QED
      BY <2>2, <3>1
  <2>3. QED
    BY <2>1, <2>2
<1>3. /\ <<a, b>> \in Seq(S) /\ Len(<<a, b>>) = 2 /\ <<a, b>>[1] = a /\ <<a, b>>[2] = b
      /\ <<p, q>> \in Seq(S) /\ Len(<<p, q>>) = 2 /\ <<p, q>>[1] = p /\ <<p, q>>[2] = q
  <2> HIDE DEF a, b, p, q, s
  <2>1. QED
    OBVIOUS
<1> HIDE DEF a, b, p, q, s, S, seed, f
<1>4. /\ left \in Seq(S) /\ Len(left) = Len(seed) + 2
      /\ \A i \in 1 .. Len(seed) + 2 : left[i] = IF i <= Len(seed) THEN seed[i] ELSE <<a, b>>[i - Len(seed)]
  BY <1>2, <1>3, ConcatProperties
<1>5. /\ Len(left \o <<p, q>>) = Len(left) + 2
      /\ \A i \in 1 .. Len(left) + 2 : (left \o <<p, q>>)[i] = IF i <= Len(left) THEN left[i] ELSE <<p, q>>[i - Len(left)]
  BY <1>3, <1>4, ConcatProperties
<1> HIDE DEF left
<1>6. CASE o = 0
  <2>1. Len(left) = 3 /\ left[1] = s /\ left[2] = a /\ left[3] = b
    <3>1. Len(seed) = 1 /\ seed[1] = s
      BY <1>2, <1>6
    <3>2. Len(left) = 3 /\ \A i \in 1 .. 3 : left[i] = IF i <= 1 THEN seed[i] ELSE <<a, b>>[i - 1]
      BY <1>4, <3>1
    <3>3. left[1] = seed[1] /\ left[2] = <<a, b>>[1] /\ left[3] = <<a, b>>[2]
      BY <3>2
    <3>4. QED
      BY <1>3, <3>1, <3>2, <3>3
  <2>2. Len(f) = 5 /\ f[1] = s /\ f[2] = a /\ f[3] = b /\ f[4] = p /\ f[5] = q
    BY <1>1, <1>3, <1>5, <2>1
  <2>3. b = Sum(r, 1)
    BY <1>6 DEF b
  <2>4. QED
    BY <1>6, <2>2, <2>3 DEF a, p, q, s, f
<1>7. CASE o # 0
  <2>1. Len(left) = 2 /\ left[1] = a /\ left[2] = b
    BY <1>2, <1>3, <1>4, <1>7
  <2>2. Len(f) = 4 /\ f[1] = a /\ f[2] = b /\ f[3] = p /\ f[4] = q
    BY <1>1, <1>3, <1>5, <2>1
  <2>3. b = Sum(r, o)
    BY <1>7 DEF b
  <2>4. QED
    BY <1>7, <2>2, <2>3 DEF a, p, q, s, f
<1>8. QED
  BY <1>6, <1>7

(* What the reader checks of a frame. *)
LEMMA FrameNeeds ==
  ASSUME NEW c \in Seq(Cell), NEW o \in Nat, FrameOk(c, o)
  PROVE  \E kind, id, x : /\ c[o + 1] = SYNC(kind) /\ c[o + 2] = <<"sum", kind, id, o>>
                          /\ c[o + 3] = <<kind, id, 1>> /\ c[o + 4] = <<kind, id, 2>>
<1> DEFINE body == SubSeq(c, o + 3, o + 4)
<1>1. Len(c) \in Nat /\ o + 4 <= Len(c)
  BY DEF FrameOk
<1>2. PICK kind \in Kinds : /\ c[o + 1] = SYNC(kind) /\ Decodes(body, kind)
                            /\ c[o + 2] = Sum(Decoded(body), o)
  BY DEF FrameOk
<1>3. body = <<c[o + 3], c[o + 4]>>
  <2> DEFINE p == o + 3
  <2>1. p \in 1 .. Len(c) - 1 /\ p + 1 = o + 4
    BY <1>1
  <2> HIDE DEF p
  <2>2. SubSeq(c, p, p + 1) = <<c[p], c[p + 1]>>
    BY <2>1, SubSeqTwo
  <2>3. QED
    BY <2>1, <2>2 DEF p
<1>4. body[1] = c[o + 3] /\ body[2] = c[o + 4]
  BY <1>3
<1> HIDE DEF body
<1>5. PICK id : body[1] = <<kind, id, 1>> /\ body[2] = <<kind, id, 2>>
  BY <1>2, DecodesOnly
<1>6. Decoded(body) = [kind |-> kind, id |-> id]
  <2> DEFINE h == <<kind, id, 1>>
  <2>1. h[1] = kind /\ h[2] = id /\ body[1] = h
    BY <1>5
  <2> HIDE DEF h
  <2>2. QED
    BY <2>1 DEF Decoded
<1>7. Sum(Decoded(body), o) = <<"sum", kind, id, o>>
  BY <1>6 DEF Sum
<1>8. QED
  BY <1>2, <1>4, <1>5, <1>7

LEMMA FrameReads ==
  ASSUME NEW c \in Seq(Cell), NEW r \in Records(Nat), NEW o \in Nat, o + 4 <= Len(c),
         c[o + 1] = SYNC(r.kind), c[o + 2] = Sum(r, o), c[o + 3] = Part(r, 1), c[o + 4] = Part(r, 2)
  PROVE  FrameOk(c, o) /\ Decoded(SubSeq(c, o + 3, o + 4)) = r
<1> DEFINE body == SubSeq(c, o + 3, o + 4)
<1>1. Len(c) \in Nat
  OBVIOUS
<1>2. body = <<c[o + 3], c[o + 4]>>
  <2> DEFINE p == o + 3
  <2>1. p \in 1 .. Len(c) - 1 /\ p + 1 = o + 4
    BY <1>1
  <2> HIDE DEF p
  <2>2. SubSeq(c, p, p + 1) = <<c[p], c[p + 1]>>
    BY <2>1, SubSeqTwo
  <2>3. QED
    BY <2>1, <2>2 DEF p
<1>3. body = Payload(r)
  BY <1>2 DEF Payload, Part
<1> HIDE DEF body
<1>4. Decodes(body, r.kind) /\ Decoded(body) = r
  BY <1>3, PayloadDecodes
<1>5. r.kind \in Kinds
  BY DEF Records
<1>6. FrameOk(c, o)
  BY <1>4, <1>5 DEF FrameOk, body
<1>7. QED
  BY <1>4, <1>6 DEF body

LEMMA FramesRead ==
  ASSUME NEW c \in Seq(Cell), NEW rs, Frames(c, rs), NEW n \in 0 .. Len(rs) - 1
  PROVE  FrameOk(c, 4 * n + 1) /\ Decoded(SubSeq(c, 4 * n + 4, 4 * n + 5)) = rs[n + 1]
<1> DEFINE i == n + 1
           o == 4 * n + 1
<1>1. Len(rs) \in Nat /\ Len(c) \in Nat /\ i \in 1 .. Len(rs) /\ n \in Nat /\ rs[i] \in Records(Nat)
      /\ 4 * Len(rs) + 1 <= Len(c)
  <2>1. rs \in Seq(Records(Nat)) /\ 4 * Len(rs) + 1 <= Len(c)
    BY DEF Frames
  <2>2. QED
    BY <2>1
<1>2. /\ 4 * i - 2 = o + 1 /\ 4 * i - 1 = o + 2 /\ 4 * i - 3 = o /\ 4 * i = o + 3 /\ 4 * i + 1 = o + 4
      /\ o \in Nat /\ o + 4 <= Len(c) /\ 4 * n + 4 = o + 3 /\ 4 * n + 5 = o + 4
  BY <1>1
<1> HIDE DEF i, o
<1>3. /\ c[4 * i - 2] = SYNC(rs[i].kind) /\ c[4 * i - 1] = Sum(rs[i], 4 * i - 3)
      /\ c[4 * i] = Part(rs[i], 1) /\ c[4 * i + 1] = Part(rs[i], 2)
  BY <1>1 DEF Frames
<1>4. c[o + 1] = SYNC(rs[i].kind) /\ c[o + 2] = Sum(rs[i], o) /\ c[o + 3] = Part(rs[i], 1) /\ c[o + 4] = Part(rs[i], 2)
  BY <1>2, <1>3
<1>5. FrameOk(c, o) /\ Decoded(SubSeq(c, o + 3, o + 4)) = rs[i]
  BY <1>1, <1>2, <1>4, FrameReads
<1>6. QED
  BY <1>2, <1>5 DEF i, o

LEMMA FrameCountIs ==
  ASSUME NEW c \in Seq(Cell), NEW k \in Nat
  PROVE  /\ Len(c) = 4 * k + 1 => FrameCount(c) = k
         /\ Torn(c, k) => FrameCount(c) = k + 1
         /\ 4 * k + 2 <= Len(c) => FrameCount(c) \in Nat /\ k < FrameCount(c)
<1> DEFINE n == Len(c)
<1>1. n \in Nat
  OBVIOUS
<1> HIDE DEF n
<1>2. n = 4 * k + 1 => (n + 2) \div 4 = k
  BY <1>1
<1>3. 4 * k + 2 <= n /\ n <= 4 * k + 4 => (n + 2) \div 4 = k + 1
  BY <1>1
<1>4. 4 * k + 2 <= n => (n + 2) \div 4 \in Nat /\ k < (n + 2) \div 4
  BY <1>1
<1>5. QED
  BY <1>2, <1>3, <1>4 DEF FrameCount, Torn, n

LEMMA ReadsBin ==
  ASSUME NEW c \in Seq(Cell), NEW rs, Whole(c, rs)
  PROVE  ReadBin(c) = Ok(FromLastSnapshot(rs))
<1>1. CASE c = <<>> /\ rs = <<>>
  <2>1. rs \in Seq(Records(Nat)) /\ Snaps(rs) = {}
    BY <1>1 DEF Snaps
  <2>2. FromLastSnapshot(rs) = <<>>
    BY <1>1, <2>1, FromLastIs
  <2>3. QED
    BY <1>1, <2>2 DEF ReadBin
<1>2. CASE Frames(c, rs) /\ Len(c) = 4 * Len(rs) + 1
  <2> DEFINE n == Len(rs)
             out == [m \in 1 .. n |-> Decoded(SubSeq(c, 4 * m, 4 * m + 1))]
  <2>1. n \in Nat /\ rs \in Seq(Records(Nat)) /\ c[1] = SYNC("s") /\ c # <<>>
    <3>1. rs \in Seq(Records(Nat)) /\ c[1] = SYNC("s")
      BY <1>2 DEF Frames
    <3>2. c # <<>>
      BY <1>2, <3>1
    <3>3. QED
      BY <3>1, <3>2
  <2>2. FrameCount(c) = n
    BY <1>2, <2>1, FrameCountIs
  <2>3. {m \in 0 .. n - 1 : ~FrameOk(c, 4 * m + 1)} = {}
    BY <1>2, FramesRead
  <2>4. \A m \in 1 .. n : Decoded(SubSeq(c, 4 * m, 4 * m + 1)) = rs[m]
    <3> TAKE m \in 1 .. n
    <3> DEFINE u == m - 1
    <3>1. u \in 0 .. Len(rs) - 1 /\ 4 * u + 4 = 4 * m /\ 4 * u + 5 = 4 * m + 1 /\ u + 1 = m
      BY <2>1
    <3> HIDE DEF u
    <3>2. Decoded(SubSeq(c, 4 * u + 4, 4 * u + 5)) = rs[u + 1]
      BY <1>2, <3>1, FramesRead
    <3>3. QED
      BY <3>1, <3>2
  <2>5. out = rs
    <3>1. \A m \in 1 .. n : out[m] = rs[m]
      BY <2>4
    <3>2. out \in Seq(Records(Nat)) /\ Len(out) = n
      <4>1. \A m \in 1 .. n : Decoded(SubSeq(c, 4 * m, 4 * m + 1)) \in Records(Nat)
        BY <2>1, <2>4
      <4>2. QED
        BY <2>1, <4>1
    <3> HIDE DEF out
    <3>3. QED
      BY <2>1, <3>1, <3>2, SeqEqual
  <2>6. BinRecords(c) = Ok(out)
    BY <2>2, <2>3 DEF BinRecords
  <2> HIDE DEF out
  <2>7. QED
    BY <2>1, <2>5, <2>6 DEF ReadBin, Ok
<1>3. QED
  BY <1>1, <1>2 DEF Whole

(* A frame that is not right, or not there to its end, is not accepted. *)
LEMMA BadFrame ==
  ASSUME NEW c \in Seq(Cell), NEW k \in Nat, 4 * k + 2 <= Len(c), ~FrameOk(c, 4 * k + 1)
  PROVE  ~ReadBin(c).ok
<1>1. FrameCount(c) \in Nat /\ k < FrameCount(c)
  BY FrameCountIs
<1>2. k \in {m \in 0 .. FrameCount(c) - 1 : ~FrameOk(c, 4 * m + 1)}
  BY <1>1
<1>3. ~BinRecords(c).ok
  BY <1>2 DEF BinRecords, Error
<1>4. c # <<>>
  <2>1. Len(c) # 0
    OBVIOUS
  <2>2. QED
    BY <2>1
<1>5. QED
  BY <1>3, <1>4 DEF ReadBin, Error

LEMMA TornBin ==
  ASSUME NEW c \in Seq(Cell), NEW k \in Nat, Torn(c, k)
  PROVE  /\ ~ReadBin(c).ok
         /\ \A rs : Frames(c, rs) /\ k = Len(rs) => ReadBin(c).at = 4 * k + 1
<1>1. Len(c) \in Nat /\ 4 * k + 2 <= Len(c) /\ Len(c) <= 4 * k + 4
  BY DEF Torn
<1>2. ~FrameOk(c, 4 * k + 1)
  <2>1. ~(4 * k + 1 + 4 <= Len(c))
    BY <1>1
  <2>2. QED
    BY <2>1 DEF FrameOk
<1>3. ~ReadBin(c).ok
  BY <1>1, <1>2, BadFrame
<1>4. ASSUME NEW rs, Frames(c, rs), k = Len(rs)
      PROVE  ReadBin(c).at = 4 * k + 1
  <2> DEFINE bad == {m \in 0 .. k : ~FrameOk(c, 4 * m + 1)}
  <2>1. FrameCount(c) = k + 1
    BY FrameCountIs
  <2>2. bad = {k}
    <3>1. \A m \in 0 .. k : m # k => FrameOk(c, 4 * m + 1)
      <4> TAKE m \in 0 .. k
      <4> HAVE m # k
      <4>1. m \in 0 .. Len(rs) - 1
        BY <1>4
      <4>2. QED
        BY <1>4, <4>1, FramesRead
    <3>2. k \in 0 .. k
      OBVIOUS
    <3>3. QED
      BY <1>2, <3>1, <3>2
  <2>3. {m \in 0 .. FrameCount(c) - 1 : ~FrameOk(c, 4 * m + 1)} = bad
    BY <2>1
  <2> HIDE DEF bad
  <2>4. Min(bad) = k
    <3>1. Min(bad) \in bad
      BY <2>2, MinIs
    <3>2. QED
      BY <2>2, <3>1
  <2>5. BinRecords(c) = Error(4 * k + 1)
    BY <2>2, <2>3, <2>4 DEF BinRecords, ErrorAt
  <2>6. c # <<>> /\ c[1] = SYNC("s")
    <3>1. Len(c) # 0
      BY <1>1
    <3>2. QED
      BY <1>4, <3>1 DEF Frames
  <2>7. QED
    BY <2>5, <2>6 DEF ReadBin, Error
<1>5. QED
  BY <1>3, <1>4

(* How binary files grow: at the end of a whole one by a frame or a part   *)
(* of one, and into a wrong frame at the end of one that stops short.      *)
LEMMA FrameStays ==
  ASSUME NEW c \in Seq(Cell), NEW rs, NEW c2 \in Seq(Cell), Len(c) <= Len(c2),
         \A x \in 1 .. Len(c) : c2[x] = c[x], Frames(c, rs)
  PROVE  Frames(c2, rs)
<1>1. /\ rs \in Seq(Records(Nat)) /\ 4 * Len(rs) + 1 <= Len(c) /\ c[1] = SYNC("s")
      /\ \A i \in 1 .. Len(rs) :
           /\ c[4 * i - 2] = SYNC(rs[i].kind) /\ c[4 * i - 1] = Sum(rs[i], 4 * i - 3)
           /\ c[4 * i] = Part(rs[i], 1) /\ c[4 * i + 1] = Part(rs[i], 2)
  BY DEF Frames
<1>2. Len(rs) \in Nat /\ Len(c) \in Nat /\ Len(c2) \in Nat
  BY <1>1
<1>3. 4 * Len(rs) + 1 <= Len(c2) /\ c2[1] = SYNC("s")
  <2>1. 1 \in 1 .. Len(c)
    BY <1>1, <1>2
  <2>2. QED
    BY <1>1, <1>2, <2>1
<1>4. ASSUME NEW i \in 1 .. Len(rs)
      PROVE  /\ c2[4 * i - 2] = SYNC(rs[i].kind) /\ c2[4 * i - 1] = Sum(rs[i], 4 * i - 3)
             /\ c2[4 * i] = Part(rs[i], 1) /\ c2[4 * i + 1] = Part(rs[i], 2)
  <2>1. /\ 4 * i - 2 \in 1 .. Len(c) /\ 4 * i - 1 \in 1 .. Len(c)
        /\ 4 * i \in 1 .. Len(c) /\ 4 * i + 1 \in 1 .. Len(c)
    BY <1>1, <1>2
  <2>2. /\ c2[4 * i - 2] = c[4 * i - 2] /\ c2[4 * i - 1] = c[4 * i - 1]
        /\ c2[4 * i] = c[4 * i] /\ c2[4 * i + 1] = c[4 * i + 1]
    BY <2>1
  <2>3. QED
    BY <1>1, <2>2
<1>5. QED
  BY <1>1, <1>3, <1>4 DEF Frames

LEMMA GrowWhole ==
  ASSUME NEW c, NEW rs, Whole(c, rs), NEW r \in Records(Nat),
         NEW m \in 1 .. Len(BinFrame(r, Len(c))), NEW c2, Grown(c, c2, BinFrame(r, Len(c)), m)
  PROVE  /\ m = Len(BinFrame(r, Len(c))) => Whole(c2, Append(rs, r))
         /\ m # Len(BinFrame(r, Len(c))) =>
              \/ c = <<>> /\ m = 1 /\ Whole(c2, <<>>) /\ rs = <<>> /\ Len(c2) = 1
              \/ /\ Torn(c2, Len(rs)) /\ Frames(c2, rs)
                 /\ Len(c) = 4 * Len(rs) + 1 \/ (Len(rs) = 0 /\ Len(c) = 0)
<1> DEFINE o == Len(c)
           f == BinFrame(r, o)
<1>1. /\ c \in Seq(Cell) /\ c2 \in Seq(Cell) /\ Len(c2) = o + m
      /\ \A x \in 1 .. o : c2[x] = c[x]
      /\ \A x \in 1 .. m : c2[o + x] = f[x]
      /\ o \in Nat
  <2>1. c \in Seq(Cell)
    BY DEF Grown
  <2>2. o \in Nat
    BY <2>1
  <2>3. QED
    BY <2>2 DEF Grown
<1>2. CASE c = <<>> /\ rs = <<>>
  <2>1. o = 0 /\ Len(rs) = 0 /\ rs \in Seq(Records(Nat))
    BY <1>2
  <2>2. /\ Len(f) = 5 /\ f[1] = SYNC("s") /\ f[2] = SYNC(r.kind) /\ f[3] = Sum(r, 1)
        /\ f[4] = Part(r, 1) /\ f[5] = Part(r, 2)
    BY <2>1, BinFrameIs
  <2> HIDE DEF f, o
  <2>3. m \in 1 .. 5
    <3>1. m \in 1 .. Len(f)
      BY DEF f, o
    <3>2. QED
      BY <2>2, <3>1
  <2>4. Len(c2) = m /\ \A x \in 1 .. m : c2[x] = f[x]
    <3>1. Len(c2) = m
      BY <1>1, <2>1, <2>3
    <3>2. ASSUME NEW x \in 1 .. m PROVE c2[x] = f[x]
      <4>1. o + x = x
        BY <2>1, <2>3
      <4>2. c2[o + x] = f[x]
        BY <1>1
      <4>3. QED
        BY <4>1, <4>2
    <3>3. QED
      BY <3>1, <3>2
  <2>5. Frames(c2, <<>>)
    <3>1. Len(<<>>) = 0 /\ <<>> \in Seq(Records(Nat))
      OBVIOUS
    <3>2. c2[1] = SYNC("s") /\ 4 * 0 + 1 <= Len(c2)
      BY <2>2, <2>3, <2>4
    <3>3. \A i \in 1 .. 0 : FALSE
      OBVIOUS
    <3>4. QED
      BY <3>1, <3>2, <3>3 DEF Frames
  <2>6. m = 5 => Whole(c2, Append(rs, r))
    <3> HAVE m = 5
    <3> DEFINE rs2 == Append(rs, r)
    <3>1. rs2 \in Seq(Records(Nat)) /\ Len(rs2) = 1 /\ rs2[1] = r
      BY <2>1
    <3> HIDE DEF rs2
    <3>2. Len(c2) = 5 /\ c2[1] = SYNC("s") /\ c2[2] = SYNC(r.kind) /\ c2[3] = Sum(r, 1)
          /\ c2[4] = Part(r, 1) /\ c2[5] = Part(r, 2)
      BY <2>2, <2>4
    <3>3. ASSUME NEW i \in 1 .. Len(rs2)
          PROVE  /\ c2[4 * i - 2] = SYNC(rs2[i].kind) /\ c2[4 * i - 1] = Sum(rs2[i], 4 * i - 3)
                 /\ c2[4 * i] = Part(rs2[i], 1) /\ c2[4 * i + 1] = Part(rs2[i], 2)
      <4>1. i = 1 /\ 4 * i - 2 = 2 /\ 4 * i - 1 = 3 /\ 4 * i - 3 = 1 /\ 4 * i = 4 /\ 4 * i + 1 = 5
        BY <3>1
      <4>2. QED
        BY <3>1, <3>2, <4>1
    <3>4. 4 * Len(rs2) + 1 = 5
      BY <3>1
    <3>5. Frames(c2, rs2) /\ Len(c2) = 4 * Len(rs2) + 1
      BY <3>1, <3>2, <3>3, <3>4 DEF Frames
    <3>6. QED
      BY <3>5 DEF Whole, rs2
  <2>7. m # 5 /\ m # 1 => Torn(c2, Len(rs)) /\ Frames(c2, rs)
    BY <1>2, <2>1, <2>3, <2>4, <2>5 DEF Torn
  <2>8. m = 1 => Whole(c2, <<>>) /\ Len(c2) = 1
    BY <2>4, <2>5 DEF Whole
  <2>9. QED
    BY <1>2, <2>1, <2>2, <2>6, <2>7, <2>8 DEF f, o
<1>3. CASE Frames(c, rs) /\ Len(c) = 4 * Len(rs) + 1
  <2> DEFINE n == Len(rs)
  <2>1. n \in Nat /\ rs \in Seq(Records(Nat)) /\ o = 4 * n + 1 /\ o # 0
    <3>1. rs \in Seq(Records(Nat))
      BY <1>3 DEF Frames
    <3>2. QED
      BY <1>3, <3>1
  <2>2. /\ Len(f) = 4 /\ f[1] = SYNC(r.kind) /\ f[2] = Sum(r, o)
        /\ f[3] = Part(r, 1) /\ f[4] = Part(r, 2)
    BY <2>1, BinFrameIs
  <2> HIDE DEF f, o, n
  <2>3. m \in 1 .. 4
    <3>1. m \in 1 .. Len(f)
      BY DEF f, o
    <3>2. QED
      BY <2>2, <3>1
  <2>4. Len(c2) = 4 * n + 1 + m /\ o <= Len(c2) /\ Len(c2) \in Nat
    BY <1>1, <2>1, <2>3
  <2>5. Frames(c2, rs)
    <3>1. Len(c) <= Len(c2) /\ \A x \in 1 .. Len(c) : c2[x] = c[x]
      BY <1>1, <2>4 DEF o
    <3>2. QED
      BY <1>1, <1>3, <3>1, FrameStays
  <2>6. m = 4 => Whole(c2, Append(rs, r))
    <3> HAVE m = 4
    <3> DEFINE rs2 == Append(rs, r)
    <3>1. rs2 \in Seq(Records(Nat)) /\ Len(rs2) = n + 1 /\ rs2[n + 1] = r /\ \A i \in 1 .. n : rs2[i] = rs[i]
      BY <2>1 DEF n
    <3> HIDE DEF rs2
    <3>2. Len(c2) = 4 * Len(rs2) + 1
      BY <2>1, <2>4, <3>1
    <3>3. c2[o + 1] = SYNC(r.kind) /\ c2[o + 2] = Sum(r, o) /\ c2[o + 3] = Part(r, 1) /\ c2[o + 4] = Part(r, 2)
      BY <1>1, <2>2
    <3>4. ASSUME NEW i \in 1 .. Len(rs2)
          PROVE  /\ c2[4 * i - 2] = SYNC(rs2[i].kind) /\ c2[4 * i - 1] = Sum(rs2[i], 4 * i - 3)
                 /\ c2[4 * i] = Part(rs2[i], 1) /\ c2[4 * i + 1] = Part(rs2[i], 2)
      <4>1. CASE i = n + 1
        <5>1. 4 * i - 2 = o + 1 /\ 4 * i - 1 = o + 2 /\ 4 * i - 3 = o /\ 4 * i = o + 3 /\ 4 * i + 1 = o + 4
          BY <2>1, <4>1
        <5>2. rs2[i] = r
          BY <3>1, <4>1
        <5>3. QED
          BY <3>3, <5>1, <5>2
      <4>2. CASE i # n + 1
        <5>1. i \in 1 .. n /\ rs2[i] = rs[i]
          BY <2>1, <3>1, <4>2
        <5>2. QED
          BY <2>5, <5>1 DEF Frames, n
      <4>3. QED
        BY <4>1, <4>2
    <3>5. c2[1] = SYNC("s")
      BY <2>5 DEF Frames
    <3>6. 4 * Len(rs2) + 1 <= Len(c2)
      BY <2>4, <3>2
    <3>7. Frames(c2, rs2)
      BY <3>1, <3>4, <3>5, <3>6 DEF Frames
    <3>8. QED
      BY <3>2, <3>7 DEF Whole, rs2
  <2>7. m # 4 => Torn(c2, n)
    BY <2>1, <2>3, <2>4 DEF Torn
  <2>8. QED
    BY <1>3, <2>2, <2>5, <2>6, <2>7 DEF f, o, n
<1>4. QED
  BY <1>2, <1>3 DEF Whole

LEMMA GrowTorn ==
  ASSUME NEW c, NEW k \in Nat, Torn(c, k), NEW r \in Records(Nat),
         NEW m \in 1 .. Len(BinFrame(r, Len(c))), NEW c2, Grown(c, c2, BinFrame(r, Len(c)), m)
  PROVE  Torn(c2, k) \/ Broken(c2, k)
<1> DEFINE o == Len(c)
           f == BinFrame(r, o)
           a == 4 * k + 1
<1>1. /\ c2 \in Seq(Cell) /\ Len(c2) = o + m
      /\ \A x \in 1 .. m : c2[o + x] = f[x]
      /\ o \in Nat /\ a + 1 <= o /\ o <= a + 3 /\ a \in Nat
  <2>1. c \in Seq(Cell)
    BY DEF Grown
  <2>2. o \in Nat
    BY <2>1
  <2>3. a + 1 <= o /\ o <= a + 3 /\ a \in Nat
    BY <2>2 DEF Torn
  <2>4. QED
    BY <2>2, <2>3 DEF Grown
<1>2. Len(f) = 4 /\ f[1] = SYNC(r.kind)
  <2>1. o # 0
    BY <1>1
  <2>2. QED
    BY <1>1, <2>1, BinFrameIs
<1>3. m \in 1 .. 4
  <2> HIDE DEF f, o
  <2>1. m \in 1 .. Len(f)
    BY DEF f, o
  <2>2. QED
    BY <1>2, <2>1
<1>4. CASE Len(c2) <= 4 * k + 4
  <2>1. 4 * k + 2 <= Len(c2)
    BY <1>1, <1>3
  <2>2. QED
    BY <1>4, <2>1 DEF Torn
<1>5. CASE ~(Len(c2) <= 4 * k + 4)
  <2>1. 4 * k + 5 <= Len(c2)
    BY <1>1, <1>3, <1>5
  <2>2. c2[o + 1] = SYNC(r.kind)
    BY <1>1, <1>2, <1>3
  <2>3. ~FrameOk(c2, a)
    <3> SUFFICES ASSUME FrameOk(c2, a) PROVE FALSE
      OBVIOUS
    <3> HIDE DEF a, o
    <3>1. PICK kind, id, x : /\ c2[a + 1] = SYNC(kind) /\ c2[a + 2] = <<"sum", kind, id, a>>
                             /\ c2[a + 3] = <<kind, id, 1>> /\ c2[a + 4] = <<kind, id, 2>>
      BY <1>1, FrameNeeds
    <3>2. /\ SYNC(r.kind) # <<"sum", kind, id, a>>
          /\ SYNC(r.kind) # <<kind, id, 1>> /\ SYNC(r.kind) # <<kind, id, 2>>
      BY CellsDiffer
    <3>3. o + 1 = a + 2 \/ o + 1 = a + 3 \/ o + 1 = a + 4
      BY <1>1
    <3>4. QED
      BY <2>2, <3>1, <3>2, <3>3
  <2>4. QED
    BY <2>1, <2>3 DEF Broken
<1>6. QED
  BY <1>4, <1>5

LEMMA GrowBroken ==
  ASSUME NEW c, NEW k \in Nat, Broken(c, k), NEW f, NEW m \in Nat, NEW c2, Grown(c, c2, f, m)
  PROVE  Broken(c2, k)
<1> DEFINE a == 4 * k + 1
<1>1. /\ c \in Seq(Cell) /\ c2 \in Seq(Cell) /\ Len(c) \in Nat /\ Len(c2) = Len(c) + m
      /\ \A x \in 1 .. Len(c) : c2[x] = c[x]
  <2>1. c \in Seq(Cell)
    BY DEF Grown
  <2>2. QED
    BY <2>1 DEF Grown
<1>2. a \in Nat /\ a + 4 <= Len(c) /\ a + 4 <= Len(c2) /\ 4 * k + 5 <= Len(c2)
  BY <1>1 DEF Broken
<1> HIDE DEF a
<1>3. SubSeq(c2, a + 3, a + 4) = SubSeq(c, a + 3, a + 4)
  <2> DEFINE p == a + 3
  <2>1. p \in 1 .. Len(c) - 1 /\ p \in 1 .. Len(c2) - 1 /\ p + 1 = a + 4 /\ p \in 1 .. Len(c) /\ p + 1 \in 1 .. Len(c)
    BY <1>1, <1>2
  <2>2. c2[p] = c[p] /\ c2[p + 1] = c[p + 1]
    BY <1>1, <2>1
  <2> HIDE DEF p
  <2>3. SubSeq(c, p, p + 1) = <<c[p], c[p + 1]>> /\ SubSeq(c2, p, p + 1) = <<c2[p], c2[p + 1]>>
    BY <1>1, <2>1, SubSeqTwo
  <2>4. SubSeq(c2, p, p + 1) = SubSeq(c, p, p + 1)
    BY <2>2, <2>3
  <2>5. QED
    BY <2>1, <2>4 DEF p
<1>4. c2[a + 1] = c[a + 1] /\ c2[a + 2] = c[a + 2]
  <2>1. a + 1 \in 1 .. Len(c) /\ a + 2 \in 1 .. Len(c)
    BY <1>1, <1>2
  <2>2. QED
    BY <1>1, <2>1
<1>5. FrameOk(c2, a) => FrameOk(c, a)
  BY <1>2, <1>3, <1>4 DEF FrameOk
<1>6. QED
  BY <1>2, <1>5 DEF Broken, a

-----------------------------------------------------------------------------
(* What the log holds *)

Framed == {t \in Threads : pc[t] \in {"restore", "seek", "write"}}

(* Appends that take turns meet in neither way, and a record that is alone *)
(* in being framed is framed for the end of the file and written there.    *)
Turns ==
  /\ ~mixed => ~spanned /\ ~rivals /\ \A t, u \in Busy : t = u
  /\ ~cut => ~headless
  /\ ~rivals => \A t \in Framed : /\ size[t] = Len(cells)
                                  /\ pc[t] = "write" => pos = Len(cells)
                                  /\ \A u \in Framed : t = u
  /\ ~open => Busy = {}

Same(rs) == acked \in Seq(Records(Nat)) /\ FromLastSnapshot(acked) = FromLastSnapshot(rs)

(* A text log is made of pieces, wherever appends overlap, stop short or   *)
(* die. If none stopped short and open() took no torn line for a whole one,*)
(* it holds what was acknowledged, and after a crash perhaps a torn piece. *)
LineLog ==
  \E rs, e : /\ Pieces(cells, rs, e)
             /\ ~cut /\ ~glued =>
                  \E l \in Nat :
                    \/ /\ Readable(rs, e, l, Len(rs))
                       /\ open => Same(rs) /\ whole = Len(cells)
                    \/ /\ ~open /\ Len(rs) > 0 /\ ~Full(rs, e, Len(rs))
                       /\ Readable(rs, e, l, Len(rs) - 1) /\ whole = e[Len(rs) - 1]

(* A binary log holds what was acknowledged, or cannot be read.            *)
BinLog ==
  \/ \E rs : /\ Whole(cells, rs)
             /\ open => Same(rs) /\ (~cut => whole = Len(cells))
  \/ \E k \in Nat : /\ Torn(cells, k) /\ (open => cut)
                    /\ ~cut => /\ \E rs : Frames(cells, rs) /\ k = Len(rs)
                               /\ whole = 4 * k + 1 \/ (k = 0 /\ whole = 0)
  \/ \E k \in Nat : Broken(cells, k) /\ cut

Logs ==
  /\ framer = "line" /\ ~spanned => LineLog
  /\ framer = "bin" /\ ~rivals /\ ~headless => BinLog

LEMMA TurnsInit ==
  ASSUME Init
  PROVE  Turns /\ Logs
<1>1. Busy = {} /\ Framed = {}
  BY DEF Init, Busy, Framed
<1>2. Turns
  BY <1>1 DEF Init, Turns
<1> DEFINE e == [i \in 0 .. 0 |-> 0]
<1>3. <<>> \in Seq(Records(Nat)) /\ <<>> \in Seq(Cell) /\ Len(<<>>) = 0
  OBVIOUS
<1>4. cells = <<>> /\ acked = <<>> /\ whole = 0
  BY DEF Init
<1>5. Same(<<>>)
  BY <1>3, <1>4 DEF Same
<1>6. Pieces(cells, <<>>, e)
  <2>1. e \in [0 .. 0 -> Nat] /\ e[0] = 0
    OBVIOUS
  <2> HIDE DEF e
  <2>2. \A i, j \in 0 .. 0 : ~(i < j)
    OBVIOUS
  <2>3. \A i \in 1 .. 0 : FALSE
    OBVIOUS
  <2>4. QED
    BY <1>3, <1>4, <2>1, <2>2, <2>3 DEF Pieces
<1>7. Readable(<<>>, e, 0, 0)
  <2> HIDE DEF e
  <2>1. 0 \in 0 .. 0 /\ ~(0 > 0) /\ \A i \in 0 + 1 .. 0 : FALSE
    OBVIOUS
  <2>2. QED
    BY <2>1 DEF Readable
<1> HIDE DEF e
<1>8. LineLog
  BY <1>3, <1>4, <1>5, <1>6, <1>7 DEF LineLog
<1>9. BinLog
  BY <1>3, <1>4, <1>5 DEF BinLog, Whole
<1>10. QED
  BY <1>2, <1>8, <1>9 DEF Logs

(* Steps that only move the position leave the log alone. *)
LEMMA LogsStay ==
  ASSUME Logs, UNCHANGED <<framer, cells, open, acked, whole, cut, glued, headless>>,
         spanned => spanned', rivals => rivals'
  PROVE  Logs'
BY DEF Logs, LineLog, BinLog, Same

LEMMA SeekTurns ==
  ASSUME Typed, Turns, Logs, NEW t \in Threads,
         (\E kind \in Kinds : SizeCurrent(t, kind)) \/ SizeEnd(t) \/ SizeRestore(t) \/ WriteSeek(t)
  PROVE  Turns' /\ Logs'
<1>1. pc \in [Threads -> {"idle", "end", "restore", "seek", "write"}] /\ size \in [Threads -> Nat]
  BY DEF Typed
<1>2. ASSUME NEW kind \in Kinds, SizeCurrent(t, kind)
      PROVE  Turns' /\ Logs'
  <2>1. /\ open /\ pc[t] = "idle" /\ pc' = [pc EXCEPT ![t] = "end"] /\ mixed' = (mixed \/ Busy # {})
        /\ UNCHANGED <<framer, cells, pos, open, size, acked, whole, spanned, rivals, cut, headless, glued>>
    BY <1>2 DEF SizeCurrent, Goto
  <2>2. Busy' = Busy \cup {t} /\ Framed' = Framed
    BY <1>1, <2>1 DEF Busy, Framed
  <2>3. \A u \in Framed' : pc'[u] = pc[u]
    BY <1>1, <2>1 DEF Framed
  <2>4. Turns'
    BY <2>1, <2>2, <2>3 DEF Turns
  <2>5. Logs'
    BY <2>1, LogsStay
  <2>6. QED
    BY <2>4, <2>5
<1>3. CASE SizeEnd(t)
  <2>1. /\ pc[t] = "end" /\ pc' = [pc EXCEPT ![t] = "restore"] /\ size' = [size EXCEPT ![t] = Len(cells)]
        /\ rivals' = (rivals \/ \E u \in Busy \ {t} : pc[u] # "end" /\ size[u] = Len(cells))
        /\ UNCHANGED <<framer, cells, open, acked, whole, mixed, spanned, cut, headless, glued>>
    BY <1>3 DEF SizeEnd, Goto
  <2>2. Busy' = Busy /\ t \in Busy
    BY <1>1, <2>1 DEF Busy
  <2>3. ~rivals' => Framed' = {t} /\ pc'[t] = "restore" /\ size'[t] = Len(cells)
    <3> HAVE ~rivals'
    <3>1. \A u \in Framed : u \in Busy \ {t} /\ pc[u] # "end"
      BY <2>1 DEF Framed, Busy
    <3>2. Framed = {}
      BY <2>1, <3>1 DEF Turns
    <3>3. QED
      BY <1>1, <2>1, <3>2 DEF Framed
  <2>4. ~mixed => ~rivals'
    BY <2>1, <2>2 DEF Turns
  <2>5. Turns'
    BY <2>1, <2>2, <2>3, <2>4 DEF Turns
  <2>6. Logs'
    BY <2>1, LogsStay
  <2>7. QED
    BY <2>5, <2>6
<1>4. CASE SizeRestore(t)
  <2>1. /\ pc[t] = "restore" /\ pc' = [pc EXCEPT ![t] = "seek"]
        /\ UNCHANGED <<framer, cells, open, size, acked, whole, mixed, spanned, rivals, cut, headless, glued>>
    BY <1>4 DEF SizeRestore, Goto, ghostVars
  <2>2. Busy' = Busy /\ Framed' = Framed /\ t \in Framed
    BY <1>1, <2>1 DEF Busy, Framed
  <2>3. pc'[t] = "seek"
    BY <1>1, <2>1
  <2>4. ~rivals' => \A u \in Framed' : size'[u] = Len(cells') /\ u = t
    BY <2>1, <2>2 DEF Turns
  <2>5. Turns'
    BY <2>1, <2>2, <2>3, <2>4 DEF Turns
  <2>6. Logs'
    BY <2>1, LogsStay
  <2>7. QED
    BY <2>5, <2>6
<1>5. CASE WriteSeek(t)
  <2>1. /\ pc[t] = "seek" /\ pc' = [pc EXCEPT ![t] = "write"] /\ pos' = Len(cells)
        /\ UNCHANGED <<framer, cells, open, size, acked, whole, mixed, spanned, rivals, cut, headless, glued>>
    BY <1>5 DEF WriteSeek, Goto, ghostVars
  <2>2. Busy' = Busy /\ Framed' = Framed
    BY <1>1, <2>1 DEF Busy, Framed
  <2>3. Turns'
    BY <2>1, <2>2 DEF Turns
  <2>4. Logs'
    BY <2>1, LogsStay
  <2>5. QED
    BY <2>3, <2>4
<1>6. QED
  BY <1>2, <1>3, <1>4, <1>5

-----------------------------------------------------------------------------
(* The write, and the crash in the middle of one *)

(* os.write at the end of the file. *)
LEMMA PutGrows ==
  ASSUME Typed, NEW t \in Threads, NEW n \in 1 .. FrameLen(t), Put(t, n), pos = Len(cells)
  PROVE  Grown(cells, cells', Frame(framer, rec[t], size[t]), n)
<1> DEFINE frame == Frame(framer, rec[t], size[t])
           data  == SubSeq(frame, 1, n)
           len   == Len(cells)
           end   == Max({len, pos + n})
<1>1. frame \in Seq(Cell) /\ Len(frame) \in Nat /\ n \in 1 .. Len(frame)
  BY FrameType DEF Typed, FrameLen
<1>2. \A i \in 1 .. n : data[i] = frame[i]
  <2> HIDE DEF frame
  <2>1. QED
    BY <1>1
<1>3. len \in Nat /\ n \in Nat /\ pos = len /\ n > 0
  BY <1>1 DEF Typed
<1>4. end = len + n
  <2> HIDE DEF len
  <2>1. len + n \in Nat
    BY <1>3
  <2>2. Max({len, len + n}) = IF len >= len + n THEN len ELSE len + n
    BY <1>3, <2>1, MaxOfTwo
  <2>3. QED
    BY <1>3, <2>2 DEF len
<1>5. cells' = [i \in 1 .. end |-> IF i \in pos + 1 .. pos + n THEN data[i - pos] ELSE cells[i]]
  BY DEF Put
<1> HIDE DEF frame, data, end
<1>6. cells' \in Seq(Cell)
  BY PutAppends
<1>7. cells' = [i \in 1 .. len + n |-> IF i \in len + 1 .. len + n THEN data[i - len] ELSE cells[i]]
  BY <1>3, <1>4, <1>5
<1> HIDE DEF len
<1>8. Len(cells') = len + n
  BY <1>3, <1>6, <1>7
<1>9. \A i \in 1 .. len : cells'[i] = cells[i]
  BY <1>3, <1>7
<1>10. \A i \in 1 .. n : cells'[len + i] = frame[i]
  <2> TAKE i \in 1 .. n
  <2> DEFINE x == len + i
  <2>2. x \in 1 .. len + n /\ x \in len + 1 .. len + n /\ x - len = i
    BY <1>3
  <2> HIDE DEF x
  <2>3. cells'[x] = data[x - len]
    BY <1>7, <2>2
  <2>4. QED
    BY <1>2, <2>2, <2>3 DEF x
<1>11. QED
  BY <1>6, <1>8, <1>9, <1>10 DEF Grown, Typed, frame, len

LEMMA SameGrows ==
  ASSUME NEW rs \in Seq(Records(Nat)), NEW r \in Records(Nat), Same(rs), acked' = Append(acked, r)
  PROVE  Same(Append(rs, r))'
<1>1. acked \in Seq(Records(Nat)) /\ FromLastSnapshot(acked) = FromLastSnapshot(rs)
  BY DEF Same
<1>2. FromLastSnapshot(Append(acked, r)) = FromLastSnapshot(Append(rs, r))
  BY <1>1, FromLastAppend
<1>3. Append(acked, r) \in Seq(Records(Nat))
  BY <1>1
<1>4. QED
  BY <1>2, <1>3 DEF Same

LEMMA WholeRecords ==
  ASSUME NEW c, NEW rs, Whole(c, rs)
  PROVE  rs \in Seq(Records(Nat)) /\ Len(rs) \in Nat
<1>1. CASE rs = <<>>
  BY <1>1
<1>2. CASE Frames(c, rs)
  <2>1. rs \in Seq(Records(Nat))
    BY <1>2 DEF Frames
  <2>2. QED
    BY <2>1
<1>3. QED
  BY <1>1, <1>2 DEF Whole

LEMMA WriteLogs ==
  ASSUME IInv, Turns, Logs, NEW t \in Threads, Write(t) \/ WriteShort(t)
  PROVE  Turns' /\ Logs'
<1>0. PICK r \in Records(Nat) : r = rec[t]
  BY DEF IInv, Typed
<1>1. Typed /\ r \in Records(Nat) /\ cells \in Seq(Cell) /\ Len(cells) \in Nat /\ framer \in Framers
  BY DEF IInv, Typed
<1>2. /\ pc[t] = "write" /\ pc' = [pc EXCEPT ![t] = "idle"] /\ acked' = Append(acked, r)
      /\ spanned' = (spanned \/ InSize \ {t} # {})
      /\ UNCHANGED <<framer, open, size, rec, mixed, rivals, glued>>
  BY <1>0 DEF Write, WriteShort, Goto
<1>3. PICK n \in 1 .. FrameLen(t) :
        /\ Put(t, n)
        /\ \/ n = FrameLen(t) /\ whole' = Len(cells') /\ cut' = cut /\ headless' = headless
           \/ /\ n # FrameLen(t) /\ cut' /\ (headless => headless')
              /\ framer = "bin" /\ Len(cells') = 1 => headless'
  <2> DEFINE m == FrameLen(t)
  <2>1. m \in Nat /\ m > 0
    BY <1>1, FrameType DEF IInv, Typed, FrameLen
  <2>2. CASE Write(t)
    <3>1. m \in 1 .. m /\ Put(t, m) /\ whole' = Len(cells') /\ cut' = cut /\ headless' = headless
      BY <2>1, <2>2 DEF Write
    <3>2. QED
      BY <3>1
  <2>3. CASE WriteShort(t)
    <3>1. PICK n \in 1 .. m - 1 : Put(t, n)
      BY <2>3 DEF WriteShort
    <3> HIDE DEF m
    <3>2. n \in 1 .. m /\ n # m
      BY <2>1
    <3>3. cut' /\ (headless => headless') /\ (framer = "bin" /\ Len(cells') = 1 => headless')
      BY <2>3 DEF WriteShort
    <3>4. QED
      BY <3>1, <3>2, <3>3 DEF m
  <2>4. QED
    BY <2>2, <2>3
<1>4. t \in Busy /\ t \in Framed /\ Busy' = Busy \ {t} /\ Framed' = Framed \ {t} /\ InSize \subseteq Busy
  BY <1>1, <1>2 DEF Busy, Framed, InSize, Typed
<1>5. open
  BY <1>4 DEF Turns
<1>6. Turns'
  <2>1. ~mixed' => ~spanned' /\ ~rivals' /\ Busy' = {}
    BY <1>2, <1>4 DEF Turns
  <2>2. ~cut' => ~headless'
    BY <1>3 DEF Turns
  <2>3. ~rivals' => Framed' = {}
    BY <1>2, <1>4 DEF Turns
  <2>4. QED
    BY <1>2, <1>5, <2>1, <2>2, <2>3 DEF Turns
<1>7. ASSUME framer = "line", ~spanned'
      PROVE  LineLog'
  <2>1. ~spanned /\ pos = Len(cells)
    BY <1>2, <1>7 DEF IInv, AtEnd
  <2>2. Grown(cells, cells', LineFrame(r), n) /\ n \in 1 .. Len(LineFrame(r)) /\ FrameLen(t) = Len(LineFrame(r))
    <3>1. Frame(framer, r, size[t]) = LineFrame(r)
      BY <1>7 DEF Frame
    <3>2. Grown(cells, cells', Frame(framer, r, size[t]), n)
      BY <1>0, <1>1, <1>3, <2>1, PutGrows
    <3>3. QED
      BY <1>0, <1>3, <3>1, <3>2 DEF FrameLen
  <2>3. PICK rs, e : /\ Pieces(cells, rs, e)
                     /\ ~cut /\ ~glued =>
                          \E l \in Nat : Readable(rs, e, l, Len(rs)) /\ Same(rs)
    BY <1>5, <1>7, <2>1 DEF Logs, LineLog
  <2> DEFINE rs2 == Append(rs, r)
             e2  == OneMore(rs, e, Len(cells'))
  <2>4. /\ Pieces(cells', rs2, e2) /\ Len(rs2) = Len(rs) + 1
        /\ \A l \in Nat : Readable(rs, e, l, Len(rs)) /\ n = Len(LineFrame(r)) =>
             Readable(rs2, e2, IF r.kind = "s" THEN Len(rs) + 1 ELSE l, Len(rs) + 1)
    BY <1>1, <2>2, <2>3, PiecesGrow
  <2>5. rs \in Seq(Records(Nat)) /\ Len(rs) \in Nat
    BY <2>3, PiecesTypes DEF Pieces
  <2> HIDE DEF rs2, e2
  <2>6. ~cut' /\ ~glued' =>
          \E l \in Nat : Readable(rs2, e2, l, Len(rs2)) /\ Same(rs2)' /\ whole' = Len(cells')
    <3> HAVE ~cut' /\ ~glued'
    <3>1. n = Len(LineFrame(r)) /\ ~cut /\ ~glued /\ whole' = Len(cells')
      BY <1>2, <1>3, <2>2
    <3>2. PICK l \in Nat : Readable(rs, e, l, Len(rs)) /\ Same(rs)
      BY <2>3, <3>1
    <3> DEFINE l2 == IF r.kind = "s" THEN Len(rs) + 1 ELSE l
    <3>3. l2 \in Nat /\ Readable(rs2, e2, l2, Len(rs2))
      BY <2>4, <2>5, <3>1, <3>2
    <3>4. Same(rs2)'
      <4>1. Same(Append(rs, r))'
        BY <1>1, <1>2, <2>5, <3>2, SameGrows
      <4>2. QED
        BY <4>1 DEF rs2
    <3> HIDE DEF l2
    <3>5. QED
      BY <3>1, <3>3, <3>4
  <2>7. QED
    BY <2>4, <2>6 DEF LineLog, Same
<1>8. ASSUME framer = "bin", ~rivals', ~headless'
      PROVE  BinLog'
  <2>1. ~rivals /\ ~headless
    BY <1>2, <1>3, <1>8
  <2>2. pos = Len(cells) /\ size[t] = Len(cells)
    BY <1>2, <1>4, <2>1 DEF Turns
  <2> DEFINE f == BinFrame(r, Len(cells))
  <2>3. Grown(cells, cells', f, n) /\ n \in 1 .. Len(f) /\ FrameLen(t) = Len(f)
    <3>1. Frame(framer, r, size[t]) = f
      BY <1>8, <2>2 DEF Frame
    <3>2. Grown(cells, cells', Frame(framer, r, size[t]), n)
      BY <1>0, <1>1, <1>3, <2>2, PutGrows
    <3>3. QED
      BY <1>0, <1>3, <3>1, <3>2 DEF FrameLen
  <2>4. BinLog
    BY <1>8, <2>1 DEF Logs
  <2>5. CASE \E rs : Whole(cells, rs) /\ Same(rs) /\ (~cut => whole = Len(cells))
    <3>1. PICK rs : Whole(cells, rs) /\ Same(rs)
      BY <2>5
    <3>2. rs \in Seq(Records(Nat)) /\ Len(rs) \in Nat
      BY <3>1, WholeRecords
    <3>3. CASE n = Len(f)
      <4>1. Whole(cells', Append(rs, r))
        BY <1>1, <2>3, <3>1, <3>3, GrowWhole
      <4>2. Same(Append(rs, r))'
        BY <1>1, <1>2, <3>1, <3>2, SameGrows
      <4>3. whole' = Len(cells')
        BY <1>3, <2>3, <3>3
      <4>4. QED
        BY <4>1, <4>2, <4>3 DEF BinLog, Same
    <3>4. CASE n # Len(f)
      <4>1. cut' /\ (framer = "bin" /\ Len(cells') = 1 => headless')
        BY <1>3, <2>3, <3>4
      <4>2. Len(cells') # 1
        BY <1>8, <4>1
      <4>3. Torn(cells', Len(rs))
        <5>1. \/ Len(cells') = 1
              \/ Torn(cells', Len(rs))
          BY <1>1, <2>3, <3>1, <3>4, GrowWhole
        <5>2. QED
          BY <4>2, <5>1
      <4>4. QED
        BY <3>2, <4>1, <4>3 DEF BinLog
    <3>5. QED
      BY <3>3, <3>4
  <2>6. CASE \E k \in Nat : Torn(cells, k) /\ cut
    <3>1. PICK k \in Nat : Torn(cells, k) /\ cut
      BY <2>6
    <3>2. cut'
      BY <1>3, <3>1
    <3>3. Torn(cells', k) \/ Broken(cells', k)
      BY <1>1, <2>3, <3>1, GrowTorn
    <3>4. QED
      BY <3>2, <3>3 DEF BinLog
  <2>7. CASE \E k \in Nat : Broken(cells, k) /\ cut
    <3>1. PICK k \in Nat : Broken(cells, k) /\ cut
      BY <2>7
    <3>2. cut'
      BY <1>3, <3>1
    <3>3. n \in Nat
      <4> HIDE DEF f
      <4>1. QED
        BY <2>3
    <3>4. Broken(cells', k)
      BY <2>3, <3>1, <3>3, GrowBroken
    <3>5. QED
      BY <3>2, <3>4 DEF BinLog
  <2>8. QED
    BY <1>5, <2>4, <2>5, <2>6, <2>7 DEF BinLog
<1>9. QED
  BY <1>2, <1>6, <1>7, <1>8 DEF Logs

LEMMA CrashLogs ==
  ASSUME IInv, Turns, Logs, Crash
  PROVE  Turns' /\ Logs'
<1>1. /\ open /\ ~open' /\ pc' = [t \in Threads |-> "idle"]
      /\ UNCHANGED <<framer, size, rec, acked, whole, mixed, spanned, rivals, cut, headless, glued>>
  BY DEF Crash, ghostVars
<1>2. Busy' = {} /\ Framed' = {}
  BY <1>1 DEF Busy, Framed
<1>3. Turns'
  BY <1>1, <1>2 DEF Turns
<1>4. CASE UNCHANGED fileVars
  <2>1. cells' = cells
    BY <1>4 DEF fileVars
  <2>2. LineLog => LineLog'
    BY <1>1, <2>1 DEF LineLog
  <2>3. BinLog => BinLog'
    BY <1>1, <2>1 DEF BinLog
  <2>4. Logs'
    BY <1>1, <2>2, <2>3 DEF Logs
  <2>5. QED
    BY <1>3, <2>4
<1>5. ASSUME NEW t \in Threads, pc[t] = "write", NEW n \in 1 .. FrameLen(t), Put(t, n)
      PROVE  Logs'
  <2>0. PICK r \in Records(Nat) : r = rec[t]
    BY DEF IInv, Typed
  <2>1. Typed /\ r \in Records(Nat) /\ cells \in Seq(Cell) /\ Len(cells) \in Nat /\ t \in Framed
    BY <1>5 DEF IInv, Typed, Framed
  <2>2. ASSUME framer = "line", ~spanned'
        PROVE  LineLog'
    <3>1. pos = Len(cells)
      BY <1>1, <2>2 DEF IInv, AtEnd
    <3>2. Grown(cells, cells', LineFrame(r), n) /\ n \in 1 .. Len(LineFrame(r))
      <4>1. Frame(framer, r, size[t]) = LineFrame(r)
        BY <2>2 DEF Frame
      <4>2. Grown(cells, cells', Frame(framer, r, size[t]), n)
        BY <1>5, <2>0, <2>1, <3>1, PutGrows
      <4>3. QED
        BY <2>0, <4>1, <4>2 DEF FrameLen
    <3>3. PICK rs, e : /\ Pieces(cells, rs, e)
                       /\ ~cut /\ ~glued =>
                            \E l \in Nat : Readable(rs, e, l, Len(rs)) /\ whole = Len(cells)
      BY <1>1, <2>2 DEF Logs, LineLog
    <3> DEFINE rs2 == Append(rs, r)
               e2  == OneMore(rs, e, Len(cells'))
    <3>4. /\ Pieces(cells', rs2, e2) /\ Len(rs2) = Len(rs) + 1 /\ e2[Len(rs)] = Len(cells)
          /\ Full(rs2, e2, Len(rs) + 1) <=> n = Len(LineFrame(r))
          /\ \A l \in Nat : Readable(rs, e, l, Len(rs)) =>
               /\ Readable(rs2, e2, l, Len(rs))
               /\ n = Len(LineFrame(r)) =>
                    Readable(rs2, e2, IF r.kind = "s" THEN Len(rs) + 1 ELSE l, Len(rs) + 1)
      BY <2>1, <3>2, <3>3, PiecesGrow
    <3>5. Len(rs) \in Nat
      BY <3>3, PiecesTypes
    <3> HIDE DEF rs2, e2
    <3>6. ASSUME ~cut, ~glued
          PROVE  \E l \in Nat :
                   \/ Readable(rs2, e2, l, Len(rs2))
                   \/ /\ Len(rs2) > 0 /\ ~Full(rs2, e2, Len(rs2))
                      /\ Readable(rs2, e2, l, Len(rs2) - 1) /\ whole = e2[Len(rs2) - 1]
      <4>1. PICK l \in Nat : Readable(rs, e, l, Len(rs)) /\ whole = Len(cells)
        BY <3>3, <3>6
      <4>2. CASE n = Len(LineFrame(r))
        <5> DEFINE l2 == IF r.kind = "s" THEN Len(rs) + 1 ELSE l
        <5>1. l2 \in Nat /\ Readable(rs2, e2, l2, Len(rs2))
          BY <3>4, <3>5, <4>1, <4>2
        <5> HIDE DEF l2
        <5>2. QED
          BY <5>1
      <4>3. CASE n # Len(LineFrame(r))
        <5>1. Len(rs2) > 0 /\ Len(rs2) - 1 = Len(rs)
          BY <3>4, <3>5
        <5>2. ~Full(rs2, e2, Len(rs2)) /\ Readable(rs2, e2, l, Len(rs)) /\ whole = e2[Len(rs)]
          BY <3>4, <4>1, <4>3
        <5>3. QED
          BY <5>1, <5>2
      <4>4. QED
        BY <4>2, <4>3
    <3>7. QED
      BY <1>1, <3>4, <3>6 DEF LineLog
  <2>3. ASSUME framer = "bin", ~rivals', ~headless'
        PROVE  BinLog'
    <3>1. pos = Len(cells) /\ size[t] = Len(cells)
      BY <1>1, <1>5, <2>1, <2>3 DEF Turns
    <3> DEFINE f == BinFrame(r, Len(cells))
    <3>2. Grown(cells, cells', f, n) /\ n \in 1 .. Len(f)
      <4>1. Frame(framer, r, size[t]) = f
        BY <2>3, <3>1 DEF Frame
      <4>2. Grown(cells, cells', Frame(framer, r, size[t]), n)
        BY <1>5, <2>0, <2>1, <3>1, PutGrows
      <4>3. QED
        BY <2>0, <4>1, <4>2 DEF FrameLen
    <3>3. BinLog
      BY <1>1, <2>3 DEF Logs
    <3>4. CASE \E rs : Whole(cells, rs) /\ (~cut => whole = Len(cells))
      <4>1. PICK rs : Whole(cells, rs) /\ (~cut => whole = Len(cells))
        BY <3>4
      <4>2. rs \in Seq(Records(Nat)) /\ Len(rs) \in Nat
        BY <4>1, WholeRecords
      <4>3. CASE \E rs2 : Whole(cells', rs2)
        BY <1>1, <4>3 DEF BinLog
      <4>4. CASE /\ Torn(cells', Len(rs)) /\ Frames(cells', rs)
                 /\ Len(cells) = 4 * Len(rs) + 1 \/ (Len(rs) = 0 /\ Len(cells) = 0)
        <5>1. ~cut => whole = 4 * Len(rs) + 1 \/ (Len(rs) = 0 /\ whole = 0)
          BY <4>1, <4>4
        <5>2. QED
          BY <1>1, <4>2, <4>4, <5>1 DEF BinLog
      <4>5. QED
        BY <2>1, <3>2, <4>1, <4>3, <4>4, GrowWhole
    <3>5. CASE \E k \in Nat : Torn(cells, k) /\ cut
      <4>1. PICK k \in Nat : Torn(cells, k) /\ cut
        BY <3>5
      <4>2. Torn(cells', k) \/ Broken(cells', k)
        BY <2>1, <3>2, <4>1, GrowTorn
      <4>3. QED
        BY <1>1, <4>1, <4>2 DEF BinLog
    <3>6. CASE \E k \in Nat : Broken(cells, k) /\ cut
      <4>1. PICK k \in Nat : Broken(cells, k) /\ cut
        BY <3>6
      <4>2. n \in Nat
        <5> HIDE DEF f
        <5>1. QED
          BY <3>2
      <4>3. Broken(cells', k)
        BY <3>2, <4>1, <4>2, GrowBroken
      <4>4. QED
        BY <1>1, <4>1, <4>3 DEF BinLog
    <3>7. QED
      BY <1>1, <3>3, <3>4, <3>5, <3>6 DEF BinLog
  <2>4. QED
    BY <1>1, <2>2, <2>3 DEF Logs
<1>6. QED
  BY <1>3, <1>4, <1>5 DEF Crash

LEMMA OpenLogs ==
  ASSUME IInv, Turns, Logs, Open
  PROVE  Turns' /\ Logs'
<1>1. /\ ~open /\ open' /\ Read(framer, cells).ok /\ acked' = Read(framer, cells).recs
      /\ whole' = Len(cells) /\ glued' = (framer = "line" /\ cells # <<>> /\ cells[Len(cells)] # NL)
      /\ UNCHANGED <<framer, cells, pc, size, mixed, spanned, rivals, cut, headless>>
  BY DEF Open
<1>2. cells \in Seq(Cell)
  BY DEF IInv, Typed
<1>3. Turns'
  <2>1. Busy = {} /\ Framed \subseteq Busy
    BY <1>1 DEF Turns, Busy, Framed
  <2>2. Busy' = {} /\ Framed' = {}
    BY <1>1, <2>1 DEF Busy, Framed
  <2>3. QED
    BY <1>1, <2>2 DEF Turns
<1>4. ASSUME NEW rs \in Seq(Records(Nat)), Read(framer, cells).recs = FromLastSnapshot(rs)
      PROVE  Same(rs)'
  BY <1>1, <1>4, FromLastTwice DEF Same
<1>5. ASSUME framer = "line", ~spanned'
      PROVE  LineLog'
  <2>1. PICK rs, e : Pieces(cells, rs, e)
    BY <1>1, <1>5 DEF Logs, LineLog
  <2>2. rs \in Seq(Records(Nat)) /\ Len(rs) \in Nat
    BY <2>1, PiecesTypes DEF Pieces
  <2>3. ASSUME ~glued' PROVE \E l \in Nat : Readable(rs, e, l, Len(rs)) /\ Same(rs)'
    <3>1. cells = <<>> \/ cells[Len(cells)] = NL
      BY <1>1, <1>5, <2>3
    <3>2. Read(framer, cells) = ReadLine(cells)
      BY <1>5 DEF Read
    <3>3. PICK l \in 0 .. Len(rs) : Readable(rs, e, l, Len(rs))
      BY <1>1, <2>1, <3>1, <3>2, OpenLine
    <3>4. l \in Nat
      BY <2>2
    <3>5. ReadLine(cells) = Ok(FromLastSnapshot(rs))
      BY <2>1, <2>2, <3>3, <3>4, ReadsLine, ReadableRecs
    <3>6. Same(rs)'
      BY <1>4, <2>2, <3>2, <3>5 DEF Ok
    <3>7. QED
      BY <3>3, <3>4, <3>6
  <2>4. QED
    BY <1>1, <2>1, <2>3 DEF LineLog, Same
<1>6. ASSUME framer = "bin", ~rivals', ~headless'
      PROVE  BinLog'
  <2>1. BinLog
    BY <1>1, <1>6 DEF Logs
  <2>2. Read(framer, cells) = ReadBin(cells)
    BY <1>6 DEF Read
  <2>3. CASE \E rs : Whole(cells, rs)
    <3>1. PICK rs : Whole(cells, rs)
      BY <2>3
    <3>2. rs \in Seq(Records(Nat))
      BY <3>1, WholeRecords
    <3>3. ReadBin(cells) = Ok(FromLastSnapshot(rs))
      BY <1>2, <3>1, ReadsBin
    <3>4. Same(rs)'
      BY <1>4, <2>2, <3>2, <3>3 DEF Ok
    <3>5. QED
      BY <1>1, <3>1, <3>4 DEF BinLog, Same
  <2>4. CASE \E k \in Nat : Torn(cells, k)
    BY <1>1, <1>2, <2>2, <2>4, TornBin
  <2>5. CASE \E k \in Nat : Broken(cells, k)
    <3>1. PICK k \in Nat : Broken(cells, k)
      BY <2>5
    <3>2. 4 * k + 2 <= Len(cells) /\ ~FrameOk(cells, 4 * k + 1)
      BY <1>2, <3>1 DEF Broken
    <3>3. QED
      BY <1>1, <1>2, <2>2, <3>2, BadFrame
  <2>6. QED
    BY <2>1, <2>3, <2>4, <2>5 DEF BinLog
<1>7. QED
  BY <1>1, <1>3, <1>5, <1>6 DEF Logs

-----------------------------------------------------------------------------
(* The invariant, and what it says of what is read *)

LogInv == IInv /\ Turns /\ Logs

LEMMA LogNext ==
  ASSUME LogInv, [Next]_vars
  PROVE  LogInv'
<1>1. IInv'
  BY NextHolds DEF LogInv
<1>2. CASE UNCHANGED vars
  <2>1. Turns'
    BY <1>2 DEF LogInv, Turns, Busy, Framed, vars
  <2>2. Logs'
    BY <1>2, LogsStay DEF LogInv, vars
  <2>3. QED
    BY <1>1, <2>1, <2>2 DEF LogInv
<1>3. ASSUME NEW t \in Threads,
             (\E kind \in Kinds : SizeCurrent(t, kind)) \/ SizeEnd(t) \/ SizeRestore(t) \/ WriteSeek(t)
      PROVE  Turns' /\ Logs'
  BY <1>3, SeekTurns DEF LogInv, IInv
<1>4. ASSUME NEW t \in Threads, Write(t) \/ WriteShort(t)
      PROVE  Turns' /\ Logs'
  BY <1>4, WriteLogs DEF LogInv
<1>5. CASE Crash
  BY <1>1, <1>5, CrashLogs DEF LogInv
<1>6. CASE Open
  BY <1>1, <1>6, OpenLogs DEF LogInv
<1>7. QED
  BY <1>1, <1>2, <1>3, <1>4, <1>5, <1>6 DEF LogInv, Next

(* What is there is what was acknowledged. *)
LEMMA WholeReads ==
  ASSUME LogInv, open, framer = "bin" => ~rivals /\ ~headless
  PROVE  /\ framer = "line" /\ ~spanned /\ ~cut /\ ~glued =>
              Replayed.ok /\ Replayed.recs = FromLastSnapshot(acked)
         /\ framer = "bin" /\ Replayed.ok => Replayed.recs = FromLastSnapshot(acked)
         /\ framer = "bin" /\ ~cut => Replayed.ok
<1>1. cells \in Seq(Cell)
  BY DEF LogInv, IInv, Typed
<1>2. ASSUME framer = "line", ~spanned, ~cut, ~glued
      PROVE  Replayed.ok /\ Replayed.recs = FromLastSnapshot(acked)
  <2>1. PICK rs, e : /\ Pieces(cells, rs, e)
                     /\ \E l \in Nat : Readable(rs, e, l, Len(rs)) /\ Same(rs)
    BY <1>2 DEF LogInv, Logs, LineLog
  <2>2. PICK l \in Nat : Readable(rs, e, l, Len(rs)) /\ Same(rs)
    BY <2>1
  <2>3. rs \in Seq(Records(Nat))
    BY <2>1 DEF Pieces
  <2>4. ReadLine(cells) = Ok(FromLastSnapshot(rs))
    BY <2>1, <2>2, <2>3, ReadsLine, ReadableRecs
  <2>5. QED
    BY <1>2, <2>2, <2>4 DEF Replayed, Read, Ok, Same
<1>3. ASSUME framer = "bin"
      PROVE  /\ Replayed.ok => Replayed.recs = FromLastSnapshot(acked)
             /\ ~cut => Replayed.ok
  <2>1. BinLog /\ Replayed = ReadBin(cells)
    BY <1>3 DEF LogInv, Logs, Replayed, Read
  <2>2. CASE \E rs : Whole(cells, rs) /\ Same(rs)
    <3>1. PICK rs : Whole(cells, rs) /\ Same(rs)
      BY <2>2
    <3>2. ReadBin(cells) = Ok(FromLastSnapshot(rs))
      BY <1>1, <3>1, ReadsBin
    <3>3. QED
      BY <2>1, <3>1, <3>2 DEF Ok, Same
  <2>3. CASE \E k \in Nat : Torn(cells, k) /\ cut
    BY <1>1, <2>1, <2>3, TornBin
  <2>4. CASE \E k \in Nat : Broken(cells, k) /\ cut
    <3>1. PICK k \in Nat : Broken(cells, k) /\ cut
      BY <2>4
    <3>2. 4 * k + 2 <= Len(cells) /\ ~FrameOk(cells, 4 * k + 1)
      BY <1>1, <3>1 DEF Broken
    <3>3. QED
      BY <1>1, <2>1, <3>1, <3>2, BadFrame
  <2>5. QED
    BY <2>1, <2>2, <2>3, <2>4 DEF BinLog
<1>4. QED
  BY <1>2, <1>3

LEMMA LogInvReadsBack ==
  ASSUME LogInv
  PROVE  ReadsBack
<1> SUFFICES ASSUME open, Busy = {}, ~spanned, ~cut, ~glued, framer = "bin" => ~mixed
             PROVE  Replayed.ok /\ Replayed.recs = FromLastSnapshot(acked)
  BY DEF ReadsBack
<1>1. framer = "bin" => ~rivals /\ ~headless
  BY DEF LogInv, Turns
<1>2. framer = "line" \/ framer = "bin"
  BY DEF LogInv, IInv, Typed, Framers
<1>3. QED
  BY <1>1, <1>2, WholeReads

LEMMA LogInvDetects ==
  ASSUME LogInv
  PROVE  BinaryDetects
BY WholeReads DEF BinaryDetects

LEMMA LogInvPoints ==
  ASSUME LogInv
  PROVE  PointsAtTear
<1> SUFFICES ASSUME ~mixed, ~cut, ~glued, ~Replayed.ok
             PROVE  Replayed.at = whole \/ (whole = 0 /\ Replayed.at = 1)
  BY DEF PointsAtTear
<1>1. ~spanned /\ ~rivals /\ ~headless
  BY DEF LogInv, Turns
<1>2. cells \in Seq(Cell) /\ (framer = "line" \/ framer = "bin")
  BY DEF LogInv, IInv, Typed, Framers
<1>3. CASE framer = "line"
  <2>1. PICK rs, e : /\ Pieces(cells, rs, e)
                     /\ \E l \in Nat :
                          \/ Readable(rs, e, l, Len(rs))
                          \/ /\ Len(rs) > 0 /\ ~Full(rs, e, Len(rs))
                             /\ Readable(rs, e, l, Len(rs) - 1) /\ whole = e[Len(rs) - 1]
    BY <1>1, <1>3 DEF LogInv, Logs, LineLog
  <2>2. Replayed = ReadLine(cells)
    BY <1>3 DEF Replayed, Read
  <2>3. \A l \in Nat : ~Readable(rs, e, l, Len(rs))
    BY <2>1, <2>2, ReadsLine DEF Ok
  <2>4. QED
    BY <2>1, <2>2, <2>3, TornLine
<1>4. CASE framer = "bin"
  <2>1. BinLog /\ Replayed = ReadBin(cells)
    BY <1>1, <1>4 DEF LogInv, Logs, Replayed, Read
  <2>2. ~ \E rs : Whole(cells, rs)
    BY <1>2, <2>1, ReadsBin DEF Ok
  <2>3. PICK k \in Nat : /\ Torn(cells, k)
                         /\ \E rs : Frames(cells, rs) /\ k = Len(rs)
                         /\ whole = 4 * k + 1 \/ (k = 0 /\ whole = 0)
    BY <2>1, <2>2 DEF BinLog
  <2>4. PICK rs : Frames(cells, rs) /\ k = Len(rs)
    BY <2>3
  <2>5. ReadBin(cells).at = 4 * k + 1
    BY <1>2, <2>3, <2>4, TornBin
  <2>6. QED
    BY <2>1, <2>3, <2>5
<1>5. QED
  BY <1>2, <1>3, <1>4

(* serialization.framing with filelock: whatever was appended is read back *)
(* record by record, for any number of threads, records and crashes; a     *)
(* text log even when appends overlap, as long as none returns inside the  *)
(* size() of another, none stops short and no torn line was opened.        *)
THEOREM ReadsBackAlways == Spec => []ReadsBack
<1>1. Init => LogInv
  BY InitHolds, TurnsInit DEF LogInv
<1>2. LogInv /\ [Next]_vars => LogInv'
  BY LogNext
<1>3. LogInv => ReadsBack
  BY LogInvReadsBack
<1>4. QED
  BY <1>1, <1>2, <1>3, PTL DEF Spec

(* BinFramer's checksums: a binary log that reads without an error holds   *)
(* every append that returned and nothing else, also when appends overlap  *)
(* and writes stop short, unless two records were framed for one offset or *)
(* a first write left nothing but the seed.                                *)
THEOREM BinaryAlwaysDetects == Spec => []BinaryDetects
<1>1. Init => LogInv
  BY InitHolds, TurnsInit DEF LogInv
<1>2. LogInv /\ [Next]_vars => LogInv'
  BY LogNext
<1>3. LogInv => BinaryDetects
  BY LogInvDetects
<1>4. QED
  BY <1>1, <1>2, <1>3, PTL DEF Spec

(* ReplayError's offset: of appends that take turns, a record that a crash *)
(* has torn is where the error points, and nothing before it is lost.      *)
THEOREM PointsAtTearAlways == Spec => []PointsAtTear
<1>1. Init => LogInv
  BY InitHolds, TurnsInit DEF LogInv
<1>2. LogInv /\ [Next]_vars => LogInv'
  BY LogNext
<1>3. LogInv => PointsAtTear
  BY LogInvPoints
<1>4. QED
  BY <1>1, <1>2, <1>3, PTL DEF Spec
=============================================================================
