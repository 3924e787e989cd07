--------------------------- MODULE OpeningProofs ----------------------------
(***************************************************************************)
(* Theorems about Opening, for any number of instances, openers, opens,    *)
(* records and failures.  The path never has two writers (OneWriterAlways, *)
(* from IInv and Pending).  An instance that is closed holds nothing, and one that is  *)
(* open is served (from Life: how the attributes, the calls under way and  *)
(* what went wrong so far go together).  Logs stay chained over any number *)
(* of lives, and no failed open() removes records (from OpeningInv, which  *)
(* adds what each instance knows of its log).                              *)
(***************************************************************************)
EXTENDS Opening, FiniteSetTheorems, SequenceTheorems, TLAPS

Writer(i) == kanta[i].fd # 0 /\ kanta[i].writable

(* The attributes are those of a fresh instance.                           *)
Shape ==
  /\ DOMAIN kanta = Instances
  /\ \A i \in Instances : DOMAIN kanta[i] = DOMAIN Fresh

(* OneWriter is not inductive: that nobody else writes follows from the    *)
(* lock only if every writer has the file that the path names.             *)
LockHeld ==
  "unlinked" \notin mishaps =>
    \A i \in Instances : Writer(i) =>
      kanta[i].fd = path /\ \A j \in Instances : Writer(j) => i = j

IInv == Shape /\ LockHeld

(* A file that is opened and not locked yet is the one that the path names. *)
Pending ==
  \A o \in Openers : open[o].fd # 0 =>
    /\ open[o].pc \in {"reading", "stray"} /\ open[o].fd \in 1 .. Len(files)
    /\ "unlinked" \notin mishaps => open[o].fd = path

(* A step that leaves a LockedFile as it is, or releases it.               *)
Keeps(k, l) ==
  /\ DOMAIN l = DOMAIN Fresh
  /\ (l.fd = k.fd /\ l.writable = k.writable) \/ l.fd = 0

Quiet ==
  /\ DOMAIN kanta' = Instances
  /\ \A i \in Instances : Keeps(kanta[i], kanta'[i])

-----------------------------------------------------------------------------
(* Lemmas about the attributes of an instance *)

LEMMA FreshFields ==
  /\ DOMAIN Fresh = {"opened", "readonly", "fd", "writable", "state", "pending",
                     "flush_failed", "task", "orphans"}
  /\ Fresh.fd = 0
BY DEF Fresh

(* Whatever is assigned to the other attributes, the file stays.           *)
LEMMA OtherFields ==
  ASSUME NEW k, DOMAIN k = DOMAIN Fresh, NEW v
  PROVE  /\ Keeps(k, k)
         /\ Keeps(k, [k EXCEPT !.opened = v])
         /\ Keeps(k, [k EXCEPT !.readonly = v])
         /\ Keeps(k, [k EXCEPT !.state = v])
         /\ Keeps(k, [k EXCEPT !.pending = v])
         /\ Keeps(k, [k EXCEPT !.flush_failed = v])
         /\ Keeps(k, [k EXCEPT !.task = v])
         /\ Keeps(k, [k EXCEPT !.orphans = v])
BY FreshFields DEF Keeps

LEMMA KeepsTransitive ==
  ASSUME NEW k, NEW l, NEW m, Keeps(k, l), Keeps(l, m)
  PROVE  Keeps(k, m)
BY DEF Keeps

LEMMA ReleasedKeeps ==
  ASSUME NEW k, DOMAIN k = DOMAIN Fresh
  PROVE  Keeps(k, Released(k))
BY FreshFields DEF Keeps, Released

LEMMA WithLoopKeeps ==
  ASSUME NEW k, DOMAIN k = DOMAIN Fresh
  PROVE  Keeps(k, WithLoop(k))
BY FreshFields DEF Keeps, WithLoop

LEMMA QueuedKeeps ==
  ASSUME NEW k, DOMAIN k = DOMAIN Fresh, NEW n
  PROVE  Keeps(k, Queued(k, n))
BY FreshFields DEF Keeps, Queued

LEMMA LoopEndKeeps ==
  ASSUME NEW k, DOMAIN k = DOMAIN Fresh, NEW how, NEW l \in OneLoopEnds(k, how)
  PROVE  Keeps(k, l)
BY FreshFields DEF Keeps, OneLoopEnds

-----------------------------------------------------------------------------
(* Steps that open no file *)

(* An assignment to one instance, of attributes that keep its file.        *)
LEMMA OneAssigned ==
  ASSUME Shape, NEW i, NEW l, i \in Instances => Keeps(kanta[i], l),
         kanta' = [kanta EXCEPT ![i] = l]
  PROVE  Quiet
<1>1. DOMAIN kanta' = Instances
  BY DEF Shape
<1>2. ASSUME NEW j \in Instances
      PROVE  Keeps(kanta[j], kanta'[j])
  <2>1. CASE j = i
    BY <2>1 DEF Shape
  <2>2. CASE j # i
    BY <2>2, OtherFields DEF Shape
  <2>3. QED
    BY <2>1, <2>2
<1>3. QED
  BY <1>1, <1>2 DEF Quiet

LEMMA NoneAssigned ==
  ASSUME Shape, UNCHANGED kanta
  PROVE  Quiet
BY OtherFields DEF Shape, Quiet

(* Such a step preserves the invariant, if the path stays.                 *)
LEMMA QuietStep ==
  ASSUME IInv, Quiet, path' = path, mishaps \subseteq mishaps'
  PROVE  IInv'
<1>1. Shape'
  BY DEF Quiet, Keeps, Shape
<1>2. \A i \in Instances : Writer(i)' => Writer(i) /\ kanta'[i].fd = kanta[i].fd
  BY DEF Quiet, Keeps, Writer
<1>3. LockHeld'
  BY <1>2 DEF IInv, LockHeld
<1>4. QED
  BY <1>1, <1>3 DEF IInv

LEMMA NotesGrow ==
  ASSUME NEW what, NEW when, Notes(what, when)
  PROVE  mishaps \subseteq mishaps'
BY DEF Notes

(* The stretches of open() between the awaits, but for the one that opens. *)
LEMMA OpenSteps ==
  ASSUME IInv, NEW o \in Openers,
         \/ \E i \in Instances, mode \in Modes : Call(o, i, mode)
         \/ ReadAgain(o) \/ OpenRefused(o)
         \/ RejectEmpty(o) \/ RejectEmptyReadonly(o) \/ Proceed(o)
         \/ LoadRaises(o) \/ LoadInvalid(o) \/ Load(o) \/ LoadMigrated(o)
         \/ RecordMigration(o) \/ RecordingRaises(o)
         \/ Bootstrap(o) \/ BootstrapFails(o) \/ Cancel(o)
  PROVE  Quiet /\ path' = path /\ mishaps \subseteq mishaps'
<1> DEFINE i == open[o].of
<1>1. Shape /\ (i \in Instances => DOMAIN kanta[i] = DOMAIN Fresh)
  BY DEF IInv, Shape
<1>2. ASSUME NEW j \in Instances, NEW mode \in Modes, Call(o, j, mode)
      PROVE  Quiet /\ path' = path /\ mishaps \subseteq mishaps'
  <2>1. DOMAIN kanta[j] = DOMAIN Fresh
    BY <1>1 DEF Shape
  <2>2. Keeps(kanta[j], [kanta[j] EXCEPT !.readonly = (mode = "readonly")])
    BY <2>1, OtherFields
  <2>3. kanta' = [kanta EXCEPT ![j] = [kanta[j] EXCEPT !.readonly = (mode = "readonly")]]
    BY <1>2 DEF Call
  <2>4. Quiet
    BY <1>1, <2>2, <2>3, OneAssigned
  <2>5. QED
    BY <1>2, <2>4, NotesGrow DEF Call, Misuse
<1>3. CASE ReadAgain(o) \/ OpenRefused(o) \/ LoadRaises(o) \/ Cancel(o)
  <2>1. UNCHANGED kanta
    BY <1>3 DEF ReadAgain, OpenRefused, LoadRaises, Cancel
  <2>2. Quiet
    BY <1>1, <2>1, NoneAssigned
  <2>3. QED
    BY <1>3, <2>2, NotesGrow DEF ReadAgain, OpenRefused, LoadRaises, Cancel
<1>4. CASE RejectEmpty(o)
  <2>1. i \in Instances => Keeps(kanta[i], Released(kanta[i]))
    BY <1>1, ReleasedKeeps
  <2>2. kanta' = [kanta EXCEPT ![i] = Released(kanta[i])]
    BY <1>4 DEF RejectEmpty
  <2>3. Quiet
    BY <1>1, <2>1, <2>2, OneAssigned
  <2>4. QED
    BY <1>4, <2>3 DEF RejectEmpty
<1>5. CASE RejectEmptyReadonly(o)
  <2> DEFINE l == [Released(kanta[i]) EXCEPT !.opened = FALSE]
  <2>1. i \in Instances => Keeps(kanta[i], l)
    <3> SUFFICES ASSUME i \in Instances PROVE Keeps(kanta[i], l)
      OBVIOUS
    <3>1. Keeps(kanta[i], Released(kanta[i]))
      BY <1>1, ReleasedKeeps
    <3>2. Keeps(Released(kanta[i]), l)
      BY <3>1, OtherFields DEF Keeps
    <3>3. QED
      BY <3>1, <3>2, KeepsTransitive
  <2>2. kanta' = [kanta EXCEPT ![i] = l]
    BY <1>5 DEF RejectEmptyReadonly
  <2>3. Quiet
    BY <1>1, <2>1, <2>2, OneAssigned
  <2>4. QED
    BY <1>5, <2>3 DEF RejectEmptyReadonly
<1>6. CASE Proceed(o)
  <2>1. i \in Instances => Keeps(kanta[i], [kanta[i] EXCEPT !.opened = TRUE])
    BY <1>1, OtherFields
  <2>2. kanta' = [kanta EXCEPT ![i] = [kanta[i] EXCEPT !.opened = TRUE]]
    BY <1>6 DEF Proceed
  <2>3. Quiet
    BY <1>1, <2>1, <2>2, OneAssigned
  <2>4. QED
    BY <1>6, <2>3 DEF Proceed
<1>7. CASE LoadInvalid(o)
  <2> DEFINE l == [Released(kanta[i]) EXCEPT !.opened = FALSE, !.state = ReplayedState(o)]
  <2>1. i \in Instances => Keeps(kanta[i], l)
    <3> SUFFICES ASSUME i \in Instances PROVE Keeps(kanta[i], l)
      OBVIOUS
    <3> DEFINE m == [Released(kanta[i]) EXCEPT !.opened = FALSE]
    <3>1. Keeps(kanta[i], Released(kanta[i]))
      BY <1>1, ReleasedKeeps
    <3>2. Keeps(Released(kanta[i]), m)
      BY <3>1, OtherFields DEF Keeps
    <3>3. Keeps(m, [m EXCEPT !.state = ReplayedState(o)])
      BY <3>2, OtherFields DEF Keeps
    <3>4. QED
      BY <3>1, <3>2, <3>3, KeepsTransitive
  <2>2. kanta' = [kanta EXCEPT ![i] = l]
    BY <1>7 DEF LoadInvalid
  <2>3. Quiet
    BY <1>1, <2>1, <2>2, OneAssigned
  <2>4. QED
    BY <1>7, <2>3 DEF LoadInvalid
<1>8. CASE Load(o)
  <2> DEFINE l == [kanta[i] EXCEPT !.state = ReplayedState(o)]
  <2>1. i \in Instances => Keeps(kanta[i], WithLoop(l))
    <3> SUFFICES ASSUME i \in Instances PROVE Keeps(kanta[i], WithLoop(l))
      OBVIOUS
    <3>1. Keeps(kanta[i], l)
      BY <1>1, OtherFields
    <3>2. Keeps(l, WithLoop(l))
      BY <3>1, WithLoopKeeps DEF Keeps
    <3>3. QED
      BY <3>1, <3>2, KeepsTransitive
  <2>2. kanta' = [kanta EXCEPT ![i] = WithLoop(l)]
    BY <1>8 DEF Load
  <2>3. Quiet
    BY <1>1, <2>1, <2>2, OneAssigned
  <2>4. QED
    BY <1>8, <2>3, NotesGrow DEF Load
<1>9. CASE LoadMigrated(o)
  <2> DEFINE l == [kanta[i] EXCEPT !.state = ReplayedState(o)]
  <2>1. i \in Instances => Keeps(kanta[i], Queued(l, last'))
    <3> SUFFICES ASSUME i \in Instances PROVE Keeps(kanta[i], Queued(l, last'))
      OBVIOUS
    <3>1. Keeps(kanta[i], l)
      BY <1>1, OtherFields
    <3>2. Keeps(l, Queued(l, last'))
      BY <3>1, QueuedKeeps DEF Keeps
    <3>3. QED
      BY <3>1, <3>2, KeepsTransitive
  <2>2. kanta' = [kanta EXCEPT ![i] = Queued(l, last')]
    BY <1>9 DEF LoadMigrated
  <2>3. Quiet
    BY <1>1, <2>1, <2>2, OneAssigned
  <2>4. QED
    BY <1>9, <2>3, NotesGrow DEF LoadMigrated
<1>10. CASE RecordMigration(o)
  <2>1. PICK p : kanta' = [kanta EXCEPT ![i] = WithLoop([kanta[i] EXCEPT !.pending = p])]
    BY <1>10 DEF RecordMigration
  <2> DEFINE l == [kanta[i] EXCEPT !.pending = p]
  <2>2. i \in Instances => Keeps(kanta[i], WithLoop(l))
    <3> SUFFICES ASSUME i \in Instances PROVE Keeps(kanta[i], WithLoop(l))
      OBVIOUS
    <3>1. Keeps(kanta[i], l)
      BY <1>1, OtherFields
    <3>2. Keeps(l, WithLoop(l))
      BY <3>1, WithLoopKeeps DEF Keeps
    <3>3. QED
      BY <3>1, <3>2, KeepsTransitive
  <2>3. Quiet
    BY <1>1, <2>1, <2>2, OneAssigned
  <2>4. QED
    BY <1>10, <2>3, NotesGrow DEF RecordMigration
<1>11. CASE RecordingRaises(o)
  <2>1. path' = path /\ mishaps \subseteq mishaps'
    BY <1>11, NotesGrow DEF RecordingRaises
  <2>2. CASE UNCHANGED kanta
    BY <1>1, <2>1, <2>2, NoneAssigned
  <2>3. ASSUME NEW broken \in BOOLEAN, kanta' = [kanta EXCEPT ![i].flush_failed = broken]
        PROVE  Quiet
    <3>1. i \in Instances => Keeps(kanta[i], [kanta[i] EXCEPT !.flush_failed = broken])
      BY <1>1, OtherFields
    <3>2. kanta' = [kanta EXCEPT ![i] = [kanta[i] EXCEPT !.flush_failed = broken]]
      BY <2>3
    <3>3. QED
      BY <1>1, <3>1, <3>2, OneAssigned
  <2>4. QED
    BY <1>11, <2>1, <2>2, <2>3 DEF RecordingRaises
<1>12. CASE Bootstrap(o)
  <2> DEFINE l == [kanta[i] EXCEPT !.state = 0]
  <2>1. i \in Instances => Keeps(kanta[i], WithLoop(Queued(l, last')))
    <3> SUFFICES ASSUME i \in Instances PROVE Keeps(kanta[i], WithLoop(Queued(l, last')))
      OBVIOUS
    <3>1. Keeps(kanta[i], l)
      BY <1>1, OtherFields
    <3>2. Keeps(l, Queued(l, last'))
      BY <3>1, QueuedKeeps DEF Keeps
    <3>3. Keeps(Queued(l, last'), WithLoop(Queued(l, last')))
      BY <3>2, WithLoopKeeps DEF Keeps
    <3>4. QED
      BY <3>1, <3>2, <3>3, KeepsTransitive
  <2>2. kanta' = [kanta EXCEPT ![i] = WithLoop(Queued(l, last'))]
    BY <1>12 DEF Bootstrap
  <2>3. Quiet
    BY <1>1, <2>1, <2>2, OneAssigned
  <2>4. QED
    BY <1>12, <2>3, NotesGrow DEF Bootstrap
<1>13. CASE BootstrapFails(o)
  <2> DEFINE l == [Released(kanta[i]) EXCEPT !.opened = FALSE]
             m == [Released(kanta[i]) EXCEPT !.opened = FALSE, !.state = 0]
  <2>1. i \in Instances => Keeps(kanta[i], l)
    <3> SUFFICES ASSUME i \in Instances PROVE Keeps(kanta[i], l)
      OBVIOUS
    <3>1. Keeps(kanta[i], Released(kanta[i]))
      BY <1>1, ReleasedKeeps
    <3>2. Keeps(Released(kanta[i]), l)
      BY <3>1, OtherFields DEF Keeps
    <3>3. QED
      BY <3>1, <3>2, KeepsTransitive
  <2>2. i \in Instances => Keeps(kanta[i], Queued(m, last'))
    <3> SUFFICES ASSUME i \in Instances PROVE Keeps(kanta[i], Queued(m, last'))
      OBVIOUS
    <3>1. m = [l EXCEPT !.state = 0]
      OBVIOUS
    <3>2. Keeps(l, m)
      BY <2>1, <3>1, OtherFields DEF Keeps
    <3>3. Keeps(m, Queued(m, last'))
      BY <3>2, QueuedKeeps DEF Keeps
    <3>4. QED
      BY <2>1, <3>2, <3>3, KeepsTransitive
  <2>3. \/ kanta' = [kanta EXCEPT ![i] = l]
        \/ kanta' = [kanta EXCEPT ![i] = Queued(m, last')]
    BY <1>13 DEF BootstrapFails
  <2>4. Quiet
    BY <1>1, <2>1, <2>2, <2>3, OneAssigned
  <2>5. QED
    BY <1>13, <2>4, NotesGrow DEF BootstrapFails
<1>14. QED
  BY <1>2, <1>3, <1>4, <1>5, <1>6, <1>7, <1>8, <1>9, <1>10, <1>11, <1>12, <1>13

(* The steps of an opened instance and of close(), but for those that open *)
(* a file or lose it with the process.                                     *)
LEMMA InstanceSteps ==
  ASSUME IInv, NEW i \in Instances,
         \/ Commit(i) \/ Flush(i) \/ FlushesOverlap(i) \/ FlushFails(i) \/ LoopDies(i)
         \/ CloseBegin(i) \/ CloseEnd(i) \/ CloseRaises(i)
  PROVE  Quiet /\ path' = path /\ mishaps \subseteq mishaps'
<1>1. Shape /\ DOMAIN kanta[i] = DOMAIN Fresh
  BY DEF IInv, Shape
<1>2. CASE Commit(i)
  <2>1. kanta' = [kanta EXCEPT ![i] = Queued(kanta[i], last')]
    BY <1>2 DEF Commit
  <2>2. Quiet
    BY <1>1, <2>1, QueuedKeeps, OneAssigned
  <2>3. QED
    BY <1>2, <2>2, NotesGrow DEF Commit, Misuse
<1>3. CASE Flush(i)
  <2>1. kanta' = [kanta EXCEPT ![i] = [kanta[i] EXCEPT !.pending = <<>>]]
    BY <1>3 DEF Flush
  <2>2. Quiet
    BY <1>1, <2>1, OtherFields, OneAssigned
  <2>3. QED
    BY <1>3, <2>2 DEF Flush
<1>4. CASE FlushFails(i)
  <2>1. PICK broken \in BOOLEAN, k \in OneLoopEnds(kanta[i], "done") \cup {kanta[i]} :
          kanta' = [kanta EXCEPT ![i] = [k EXCEPT !.flush_failed = broken]]
    BY <1>4 DEF FlushFails
  <2>2. Keeps(kanta[i], k)
    BY <1>1, LoopEndKeeps, OtherFields
  <2>3. Keeps(k, [k EXCEPT !.flush_failed = broken])
    BY <2>2, OtherFields DEF Keeps
  <2>4. Keeps(kanta[i], [k EXCEPT !.flush_failed = broken])
    BY <2>2, <2>3, KeepsTransitive
  <2>5. Quiet
    BY <1>1, <2>1, <2>4, OneAssigned
  <2>6. QED
    BY <1>4, <2>5 DEF FlushFails
<1>5. CASE LoopDies(i)
  <2>1. PICK k \in OneLoopEnds(kanta[i], "error") : kanta' = [kanta EXCEPT ![i] = k]
    BY <1>5 DEF LoopDies
  <2>2. Quiet
    BY <1>1, <2>1, LoopEndKeeps, OneAssigned
  <2>3. QED
    BY <1>5, <2>2 DEF LoopDies
<1>6. CASE CloseBegin(i)
  BY <1>1, <1>6, NoneAssigned, NotesGrow DEF CloseBegin, Misuse
<1>7. CASE CloseEnd(i)
  <2>1. PICK p : kanta' = [kanta EXCEPT ![i] = [Released(kanta[i]) EXCEPT
                             !.opened = FALSE, !.task = "none", !.pending = p]]
    BY <1>7 DEF CloseEnd
  <2> DEFINE k == Released(kanta[i])
             l == [k EXCEPT !.opened = FALSE]
             m == [l EXCEPT !.task = "none"]
  <2>2. Keeps(kanta[i], k)
    BY <1>1, ReleasedKeeps
  <2>3. Keeps(k, l)
    BY <2>2, OtherFields DEF Keeps
  <2>4. Keeps(l, m)
    BY <2>3, OtherFields DEF Keeps
  <2>5. Keeps(m, [m EXCEPT !.pending = p])
    BY <2>4, OtherFields DEF Keeps
  <2>6. Keeps(kanta[i], [m EXCEPT !.pending = p])
    BY <2>2, <2>3, <2>4, <2>5, KeepsTransitive
  <2>7. kanta' = [kanta EXCEPT ![i] = [m EXCEPT !.pending = p]]
    BY <2>1
  <2>8. Quiet
    BY <1>1, <2>6, <2>7, OneAssigned
  <2>9. QED
    BY <1>7, <2>8 DEF CloseEnd
<1>8. CASE CloseRaises(i)
  <2>1. path' = path /\ mishaps' = mishaps
    BY <1>8 DEF CloseRaises
  <2>2. \/ \E t : kanta' = [kanta EXCEPT ![i].task = t]
        \/ \E b, t : kanta' = [kanta EXCEPT ![i].flush_failed = b, ![i].task = t]
    BY <1>8 DEF CloseRaises
  <2>3. ASSUME NEW t, kanta' = [kanta EXCEPT ![i].task = t]
        PROVE  Quiet
    <3>1. kanta' = [kanta EXCEPT ![i] = [kanta[i] EXCEPT !.task = t]]
      BY <2>3
    <3>2. QED
      BY <1>1, <3>1, OtherFields, OneAssigned
  <2>4. ASSUME NEW b, NEW t, kanta' = [kanta EXCEPT ![i].flush_failed = b, ![i].task = t]
        PROVE  Quiet
    <3> DEFINE k == [kanta[i] EXCEPT !.flush_failed = b]
    <3>1. kanta' = [kanta EXCEPT ![i] = [k EXCEPT !.task = t]]
      BY <2>4, <1>1 DEF Shape
    <3>2. Keeps(kanta[i], k)
      BY <1>1, OtherFields
    <3>3. Keeps(k, [k EXCEPT !.task = t])
      BY <3>2, OtherFields DEF Keeps
    <3>4. QED
      BY <1>1, <3>1, <3>2, <3>3, KeepsTransitive, OneAssigned
  <2>5. QED
    BY <2>1, <2>2, <2>3, <2>4
<1>9. CASE FlushesOverlap(i)
  <2> PICK k \in {kanta[i]} \cup OneLoopEnds(kanta[i], "error") :
          \E n : kanta' = [kanta EXCEPT ![i] = [k EXCEPT !.pending = n]]
    BY <1>9 DEF FlushesOverlap
  <2>1. PICK n : kanta' = [kanta EXCEPT ![i] = [k EXCEPT !.pending = n]]
    OBVIOUS
  <2>2. Keeps(kanta[i], k)
    BY <1>1, LoopEndKeeps, OtherFields
  <2>3. Keeps(k, [k EXCEPT !.pending = n])
    BY <2>2, OtherFields DEF Keeps
  <2>4. Keeps(kanta[i], [k EXCEPT !.pending = n])
    BY <2>2, <2>3, KeepsTransitive
  <2>5. Quiet
    BY <1>1, <2>1, <2>4, OneAssigned
  <2>6. QED
    BY <1>9, <2>5, NotesGrow DEF FlushesOverlap, Misuse
<1>10. QED
  BY <1>2, <1>3, <1>4, <1>5, <1>6, <1>7, <1>8, <1>9

-----------------------------------------------------------------------------
(* Steps that open a file, lose one, or change the path *)

(* One instance becomes the holder of a file; it may write to it only when *)
(* it is the file of the path and there was no writer.                     *)
LEMMA Takes ==
  ASSUME IInv, NEW i, NEW f, NEW w, mishaps' = mishaps,
         kanta' = [kanta EXCEPT ![i].fd = f, ![i].writable = w],
         "unlinked" \notin mishaps => f = path',
         "unlinked" \notin mishaps /\ w => \A j \in Instances : ~Writer(j),
         path' # path => \A j \in Instances : ~Writer(j) \/ "unlinked" \in mishaps
  PROVE  IInv'
<1>1. DOMAIN kanta' = Instances /\ \A j \in Instances \ {i} : kanta'[j] = kanta[j]
  BY DEF IInv, Shape
<1>2. i \in Instances => /\ DOMAIN kanta'[i] = DOMAIN Fresh
                         /\ kanta'[i].fd = f /\ kanta'[i].writable = w
  BY FreshFields DEF IInv, Shape
<1>3. Shape'
  BY <1>1, <1>2 DEF IInv, Shape
<1>4. LockHeld'
  <2> SUFFICES ASSUME "unlinked" \notin mishaps,
                      NEW j \in Instances, Writer(j)'
               PROVE  kanta'[j].fd = path' /\ \A h \in Instances : Writer(h)' => j = h
    BY DEF LockHeld
  <2>1. CASE w
    BY <2>1, <1>1, <1>2 DEF Writer
  <2>2. CASE ~w
    <3>1. ~(i \in Instances /\ Writer(i)')
      BY <2>2, <1>2 DEF Writer
    <3>2. \A h \in Instances : Writer(h)' => Writer(h) /\ kanta'[h] = kanta[h]
      BY <1>1, <3>1 DEF Writer
    <3>3. path' = path
      BY <3>2
    <3>4. QED
      BY <3>2, <3>3 DEF IInv, LockHeld
  <2>3. QED
    BY <2>1, <2>2
<1>5. QED
  BY <1>3, <1>4 DEF IInv

(* Without a path there is no writer, and none if its file is not locked.  *)
LEMMA NoWriter ==
  ASSUME IInv, "unlinked" \notin mishaps, path = 0 \/ ~Locked(path)
  PROVE  \A i \in Instances : ~Writer(i)
BY DEF IInv, LockHeld, Writer, Locked

LEMMA InitHolds ==
  ASSUME Init
  PROVE  IInv
BY FreshFields DEF Init, IInv, Shape, LockHeld, Writer

LEMMA NextHolds ==
  ASSUME IInv, Pending, [Next]_vars
  PROVE  IInv'
<1>1. CASE UNCHANGED vars
  BY <1>1 DEF vars, IInv, Shape, LockHeld, Writer
<1>2. ASSUME NEW o \in Openers, OpenFile(o)
      PROVE  IInv'
  <2>1. kanta' = kanta /\ mishaps' = mishaps /\ (path' # path => path = 0)
    BY <1>2 DEF OpenFile, Opened
  <2>2. CASE path' = path
    BY <2>1, <2>2, NoneAssigned, QuietStep DEF IInv
  <2>3. CASE path' # path
    <3>1. "unlinked" \notin mishaps => \A j \in Instances : ~Writer(j)
      BY <2>1, <2>3, NoWriter
    <3>2. QED
      BY <2>1, <3>1 DEF IInv, Shape, LockHeld, Writer
  <2>4. QED
    BY <2>2, <2>3
<1>3. ASSUME NEW o \in Openers, LockAndRead(o)
      PROVE  IInv'
  <2> DEFINE w == open[o].mode # "readonly"
             f == open[o].fd
  <2>1. "unlinked" \notin mishaps => f = path
    BY <1>3 DEF LockAndRead, Pending
  <2>2. "unlinked" \notin mishaps /\ w => \A j \in Instances : ~Writer(j)
    BY <1>3, <2>1, NoWriter DEF LockAndRead
  <2>3. path' = path /\ mishaps' = mishaps
    BY <1>3 DEF LockAndRead, TakeFile
  <2>4. kanta' = [kanta EXCEPT ![open[o].of].fd = f, ![open[o].of].writable = w]
    BY <1>3 DEF LockAndRead, TakeFile
  <2> HIDE DEF w, f
  <2>5. QED
    BY <2>1, <2>2, <2>3, <2>4, Takes
<1>4. ASSUME NEW i \in Instances, Reopen(i)
      PROVE  IInv'
  <2>1. "unlinked" \notin mishaps => \A j \in Instances : ~Writer(j)
    BY <1>4, NoWriter DEF Reopen
  <2>2. kanta' = [kanta EXCEPT ![i].fd = path', ![i].writable = TRUE]
    BY <1>4 DEF Reopen
  <2>3. mishaps' = mishaps
    BY <1>4 DEF Reopen
  <2>4. QED
    BY <2>1, <2>2, <2>3, Takes
<1>5. ASSUME NEW o \in Openers, Unlink(o)
      PROVE  IInv'
  <2>1. kanta' = kanta /\ mishaps \subseteq mishaps'
    BY <1>5, NotesGrow DEF Unlink
  <2>2. "unlinked" \notin mishaps' => path = 0 \/ \A i \in Instances : kanta[i].fd # path
    BY <1>5 DEF Unlink, Notes
  <2>3. "unlinked" \notin mishaps' => \A i \in Instances : ~Writer(i)
    BY <2>1, <2>2 DEF IInv, LockHeld, Writer
  <2>4. QED
    BY <2>1, <2>3 DEF IInv, Shape, LockHeld, Writer
<1>6. ASSUME NEW i \in Instances, Crash(i)
      PROVE  IInv'
  <2>1. path' = path /\ mishaps' = mishaps /\ kanta' = [kanta EXCEPT ![i] = Fresh]
    BY <1>6 DEF Crash
  <2>2. Keeps(kanta[i], Fresh)
    BY FreshFields DEF Keeps
  <2>3. Quiet
    BY <2>1, <2>2, OneAssigned DEF IInv
  <2>4. QED
    BY <2>1, <2>3, QuietStep
<1>7. ASSUME NEW o \in Openers,
             \/ \E i \in Instances, mode \in Modes : Call(o, i, mode)
             \/ ReadAgain(o) \/ OpenRefused(o)
             \/ RejectEmpty(o) \/ RejectEmptyReadonly(o) \/ Proceed(o)
             \/ LoadRaises(o) \/ LoadInvalid(o) \/ Load(o) \/ LoadMigrated(o)
             \/ RecordMigration(o) \/ RecordingRaises(o)
             \/ Bootstrap(o) \/ BootstrapFails(o) \/ Cancel(o)
      PROVE  IInv'
  BY <1>7, OpenSteps, QuietStep
<1>8. ASSUME NEW i \in Instances,
             \/ Commit(i) \/ Flush(i) \/ FlushesOverlap(i) \/ FlushFails(i) \/ LoopDies(i)
             \/ CloseBegin(i) \/ CloseEnd(i) \/ CloseRaises(i)
      PROVE  IInv'
  BY <1>8, InstanceSteps, QuietStep
<1>9. CASE Next
  <2>1. CASE \E o \in Openers : OpenFile(o) \/ LockAndRead(o) \/ Unlink(o)
    BY <2>1, <1>2, <1>3, <1>5
  <2>2. CASE \E i \in Instances : Reopen(i) \/ Crash(i)
    BY <2>2, <1>4, <1>6
  <2>3. QED
    BY <1>9, <2>1, <2>2, <1>7, <1>8 DEF Next
<1>10. QED
  BY <1>1, <1>9

LEMMA AtMostOne ==
  ASSUME IInv
  PROVE  OneWriter
<1> SUFFICES ASSUME "unlinked" \notin mishaps
             PROVE  Cardinality({i \in Instances : kanta[i].fd # 0 /\ kanta[i].writable}) <= 1
  BY DEF OneWriter
<1> DEFINE W == {i \in Instances : kanta[i].fd # 0 /\ kanta[i].writable}
<1>1. \A i, j \in W : i = j
  BY DEF IInv, LockHeld, Writer
<1>2. CASE W = {}
  <2>1. Cardinality(W) = 0
    BY <1>2, FS_EmptySet
  <2>2. QED
    BY <2>1
<1>3. CASE W # {}
  <2>1. PICK i : W = {i}
    BY <1>1, <1>3
  <2>2. Cardinality(W) = 1
    BY <2>1, FS_Singleton
  <2>3. QED
    BY <2>2
<1>4. QED
  BY <1>2, <1>3

-----------------------------------------------------------------------------
(* Types *)

Change == [from : Nat, to : Nat]
Attributes ==
  [opened : BOOLEAN, readonly : BOOLEAN, fd : Nat, writable : BOOLEAN, state : Nat, pending : Seq(Change),
   flush_failed : BOOLEAN, task : {"none", "live", "done", "error"}, orphans : Nat]
Steps == {"idle", "reading", "stray", "read", "loading", "recording", "bootstrapping", "unlinking"}
OpenCall ==
  [pc : Steps, of : Instances \cup {Nobody}, mode : Modes, existed : BOOLEAN, fd : Nat,
   content : Seq(Change), alone : BOOLEAN]

FilesType == files \in Seq(Seq(Change)) /\ path \in 0 .. Len(files) /\ last \in Nat
KantaType == kanta \in [Instances -> Attributes] /\ \A i \in Instances : kanta[i].fd \in 0 .. Len(files)
OpenType ==
  /\ open \in [Openers -> OpenCall] /\ closing \subseteq Instances
  /\ \A o \in Openers : /\ open[o].pc = "idle" <=> open[o].of = Nobody
                        /\ open[o].pc = "loading" => open[o].content # <<>>

OpeningType == FilesType /\ KantaType /\ OpenType

LEMMA FreshType == Fresh \in Attributes /\ Fresh.fd = 0
BY DEF Fresh, Attributes

LEMMA NoCallType == NoCall \in OpenCall /\ NoCall.pc = "idle" /\ NoCall.of = Nobody
BY DEF NoCall, OpenCall, Steps, Modes

(* A value of the right type, assigned to one instance. *)
LEMMA KantaAssigned ==
  ASSUME KantaType, NEW i, NEW l, i \in Instances => l \in Attributes /\ l.fd \in 0 .. Len(files'),
         Len(files) \in Nat, Len(files') \in Nat, Len(files) <= Len(files'), kanta' = [kanta EXCEPT ![i] = l]
  PROVE  KantaType'
<1>1. \A j \in Instances : kanta'[j] = IF j = i THEN l ELSE kanta[j]
  BY DEF KantaType
<1>2. \A j \in Instances : kanta'[j] \in Attributes
  BY <1>1 DEF KantaType
<1>3. kanta' \in [Instances -> Attributes]
  BY <1>2 DEF KantaType
<1>4. \A j \in Instances : kanta[j].fd \in 0 .. Len(files')
  BY DEF KantaType
<1>5. \A j \in Instances : kanta'[j].fd \in 0 .. Len(files')
  BY <1>1, <1>4
<1>6. QED
  BY <1>3, <1>5 DEF KantaType

(* The next call of one opener. *)
LEMMA OpenAssigned ==
  ASSUME OpenType, NEW o \in Openers, NEW c \in OpenCall, c.pc = "idle" <=> c.of = Nobody,
         c.pc = "loading" => c.content # <<>>,
         open' = [open EXCEPT ![o] = c], closing' \subseteq Instances
  PROVE  OpenType'
<1>1. \A p \in Openers : open'[p] = IF p = o THEN c ELSE open[p]
  BY DEF OpenType
<1>2. open' \in [Openers -> OpenCall]
  BY DEF OpenType
<1>3. QED
  BY <1>1, <1>2 DEF OpenType

LEMMA OpenEnds ==
  ASSUME OpenType, NEW o \in Openers, Ends(o), closing' \subseteq Instances
  PROVE  OpenType'
BY NoCallType, OpenAssigned DEF Ends

LEMMA StepTyped ==
  ASSUME OpenType, NEW o \in Openers, NEW pc \in Steps, Step(o, pc), pc # "idle", open[o].pc # "idle",
         pc = "loading" => open[o].content # <<>>, closing' \subseteq Instances
  PROVE  OpenType'
<1> DEFINE c == [open[o] EXCEPT !.pc = pc]
<1>1. open[o] \in OpenCall /\ open[o].of # Nobody
  BY DEF OpenType
<1>2. c \in OpenCall /\ c.pc = pc /\ c.of = open[o].of /\ c.content = open[o].content
  BY <1>1 DEF OpenCall
<1>3. open' = [open EXCEPT ![o] = c]
  BY DEF Step
<1> HIDE DEF c
<1>4. QED
  BY <1>1, <1>2, <1>3, OpenAssigned

LEMMA OpenReads ==
  ASSUME OpenType, NEW o \in Openers, open[o].pc \in {"reading", "stray"}, NEW n, files \in Seq(Seq(Change)),
         Reads(o, n), closing' = closing
  PROVE  OpenType'
<1> DEFINE content == IF n \in DOMAIN files THEN files[n] ELSE <<>>
<1>1. content \in Seq(Change)
  OBVIOUS
<1> HIDE DEF content
<1>2. open' = [p \in Openers |->
                IF p # o THEN [open[p] EXCEPT !.alone = FALSE]
                ELSE IF At(o, "stray") THEN NoCall
                ELSE [open[o] EXCEPT !.pc = "read", !.fd = 0, !.content = content]]
  BY DEF Reads, content
<1>3. \A p \in Openers : open'[p] = IF p # o THEN [open[p] EXCEPT !.alone = FALSE]
                                    ELSE IF At(o, "stray") THEN NoCall
                                    ELSE [open[o] EXCEPT !.pc = "read", !.fd = 0, !.content = content]
  BY <1>2
<1>4. ASSUME NEW p \in Openers
      PROVE  /\ open'[p] \in OpenCall
             /\ open'[p].pc = "idle" <=> open'[p].of = Nobody
             /\ open'[p].pc = "loading" => open'[p].content # <<>>
  <2>1. /\ open[p] \in OpenCall
        /\ open[p].pc = "idle" <=> open[p].of = Nobody
        /\ open[p].pc = "loading" => open[p].content # <<>>
    BY DEF OpenType
  <2>2. CASE p # o
    <3>1. open'[p] = [open[p] EXCEPT !.alone = FALSE]
      BY <1>3, <2>2
    <3>2. QED
      BY <2>1, <3>1 DEF OpenCall
  <2>3. CASE p = o /\ At(o, "stray")
    BY <1>3, <2>3, NoCallType
  <2>4. CASE p = o /\ ~At(o, "stray")
    <3>1. open'[p] = [open[p] EXCEPT !.pc = "read", !.fd = 0, !.content = content]
      BY <1>3, <2>4
    <3> DEFINE c == [open[p] EXCEPT !.pc = "read", !.fd = 0]
    <3>2. c \in OpenCall /\ c.pc = "read" /\ c.of = open[p].of
      BY <2>1 DEF OpenCall, Steps
    <3>3. open'[p] = [c EXCEPT !.content = content]
      BY <2>4, <3>1
    <3> HIDE DEF c
    <3>4. open'[p] \in OpenCall /\ open'[p].pc = "read" /\ open'[p].of = open[p].of
      BY <1>1, <3>2, <3>3 DEF OpenCall
    <3>5. open[p].of # Nobody
      BY <2>1, <2>4
    <3>6. QED
      BY <3>4, <3>5
  <2>5. QED
    BY <2>2, <2>3, <2>4
<1>5. open' \in [Openers -> OpenCall]
  BY <1>2, <1>4
<1>6. QED
  BY <1>4, <1>5 DEF OpenType

(* The types of the attributes that the operators return. *)
LEMMA ReleasedType ==
  ASSUME NEW k \in Attributes
  PROVE  /\ Released(k) \in Attributes /\ Released(k).fd = 0 /\ ~Released(k).writable
         /\ \A f \in {"opened", "readonly", "state", "pending", "flush_failed", "task", "orphans"} : Released(k)[f] = k[f]
BY DEF Released, Attributes

LEMMA WithLoopType ==
  ASSUME NEW k \in Attributes
  PROVE  /\ WithLoop(k) \in Attributes
         /\ \A f \in {"opened", "readonly", "fd", "writable", "state", "pending", "flush_failed"} : WithLoop(k)[f] = k[f]
         /\ k.readonly => WithLoop(k) = k
         /\ ~k.readonly => WithLoop(k).task = "live"
         /\ ~k.readonly /\ k.task # "live" => WithLoop(k).orphans = k.orphans
<1>1. CASE k.readonly
  BY <1>1 DEF WithLoop
<1>2. CASE ~k.readonly
  <2> DEFINE n == IF k.task = "live" THEN k.orphans + 1 ELSE k.orphans
  <2>1. n \in Nat /\ (k.task # "live" => n = k.orphans)
    BY DEF Attributes
  <2>2. WithLoop(k) = [k EXCEPT !.task = "live", !.orphans = n]
    BY <1>2 DEF WithLoop
  <2> HIDE DEF n
  <2>3. QED
    BY <1>2, <2>1, <2>2 DEF Attributes
<1>3. QED
  BY <1>1, <1>2

LEMMA QueuedType ==
  ASSUME NEW k \in Attributes, NEW n \in Nat
  PROVE  /\ Queued(k, n) \in Attributes
         /\ \A f \in {"opened", "readonly", "fd", "writable", "flush_failed", "task", "orphans"} : Queued(k, n)[f] = k[f]
         /\ Queued(k, n).state = n /\ Queued(k, n).pending = Append(k.pending, [from |-> k.state, to |-> n])
         /\ [from |-> k.state, to |-> n] \in Change
<1> DEFINE c == [from |-> k.state, to |-> n]
           q == Append(k.pending, c)
<1>1. c \in Change /\ k.pending \in Seq(Change)
  BY DEF Attributes, Change
<1> HIDE DEF c
<1>2. q \in Seq(Change)
  BY <1>1
<1>3. Queued(k, n) = [k EXCEPT !.state = n, !.pending = q]
  BY DEF Queued, c
<1> HIDE DEF q
<1>4. /\ Queued(k, n) \in Attributes /\ Queued(k, n).state = n /\ Queued(k, n).pending = q
      /\ \A f \in {"opened", "readonly", "fd", "writable", "flush_failed", "task", "orphans"} : Queued(k, n)[f] = k[f]
  BY <1>2, <1>3 DEF Attributes
<1>5. QED
  BY <1>1, <1>4 DEF q, c

LEMMA LoopEndType ==
  ASSUME NEW k \in Attributes, NEW how \in {"done", "error"}, NEW l \in OneLoopEnds(k, how)
  PROVE  /\ l \in Attributes
         /\ \A f \in {"opened", "readonly", "fd", "writable", "state", "pending", "flush_failed"} : l[f] = k[f]
         /\ \/ k.task = "live" /\ l.task = how /\ l.orphans = k.orphans
            \/ k.orphans # 0 /\ l.task = k.task
<1>1. CASE k.task = "live" /\ l = [k EXCEPT !.task = how]
  BY <1>1 DEF Attributes
<1>2. CASE k.orphans \in Nat \ {0} /\ l = [k EXCEPT !.orphans = k.orphans - 1]
  BY <1>2 DEF Attributes
<1>3. k.orphans \in Nat
  BY DEF Attributes
<1>4. QED
  BY <1>1, <1>2, <1>3 DEF OneLoopEnds

-----------------------------------------------------------------------------
(* What each step makes of the attributes of its instance *)

Fields(l, opened, readonly, fd, writable, state, pending, failed, task, orphans) ==
  /\ l \in Attributes
  /\ l.opened = opened /\ l.readonly = readonly /\ l.fd = fd /\ l.writable = writable
  /\ l.state = state /\ l.pending = pending /\ l.flush_failed = failed
  /\ l.task = task /\ l.orphans = orphans

(* Attributes assigned one by one *)
LEMMA Assign ==
  ASSUME NEW k \in Attributes
  PROVE  /\ Fields(k, k.opened, k.readonly, k.fd, k.writable, k.state, k.pending, k.flush_failed, k.task, k.orphans)
         /\ \A b \in BOOLEAN :
              /\ Fields([k EXCEPT !.opened = b], b, k.readonly, k.fd, k.writable, k.state, k.pending,
                        k.flush_failed, k.task, k.orphans)
              /\ Fields([k EXCEPT !.readonly = b], k.opened, b, k.fd, k.writable, k.state, k.pending,
                        k.flush_failed, k.task, k.orphans)
              /\ Fields([k EXCEPT !.flush_failed = b], k.opened, k.readonly, k.fd, k.writable, k.state, k.pending,
                        b, k.task, k.orphans)
         /\ \A n \in Nat :
              Fields([k EXCEPT !.state = n], k.opened, k.readonly, k.fd, k.writable, n, k.pending,
                     k.flush_failed, k.task, k.orphans)
         /\ \A q \in Seq(Change) :
              Fields([k EXCEPT !.pending = q], k.opened, k.readonly, k.fd, k.writable, k.state, q,
                     k.flush_failed, k.task, k.orphans)
         /\ \A t \in {"none", "live", "done", "error"} :
              Fields([k EXCEPT !.task = t], k.opened, k.readonly, k.fd, k.writable, k.state, k.pending,
                     k.flush_failed, t, k.orphans)
         /\ \A n \in Nat, w \in BOOLEAN :
              Fields([k EXCEPT !.fd = n, !.writable = w], k.opened, k.readonly, n, w, k.state, k.pending,
                     k.flush_failed, k.task, k.orphans)
BY DEF Fields, Attributes

LEMMA ReleasedFields ==
  ASSUME NEW k \in Attributes
  PROVE  Fields(Released(k), k.opened, k.readonly, 0, FALSE, k.state, k.pending, k.flush_failed, k.task, k.orphans)
BY ReleasedType DEF Fields

LEMMA WithLoopFields ==
  ASSUME NEW k \in Attributes, k.task # "live"
  PROVE  Fields(WithLoop(k), k.opened, k.readonly, k.fd, k.writable, k.state, k.pending, k.flush_failed,
                IF k.readonly THEN k.task ELSE "live", k.orphans)
<1>1. WithLoop(k) \in Attributes
  BY WithLoopType
<1>2. CASE k.readonly
  BY <1>1, <1>2, WithLoopType DEF Fields
<1>3. CASE ~k.readonly
  BY <1>1, <1>3, WithLoopType DEF Fields
<1>4. QED
  BY <1>2, <1>3 DEF Attributes

LEMMA QueuedFields ==
  ASSUME NEW k \in Attributes, NEW n \in Nat
  PROVE  Fields(Queued(k, n), k.opened, k.readonly, k.fd, k.writable, n,
                Append(k.pending, [from |-> k.state, to |-> n]), k.flush_failed, k.task, k.orphans)
BY QueuedType DEF Fields

(* An opener that is not idle serves an instance. *)
LEMMA Serves ==
  ASSUME OpeningType, NEW o \in Openers, open[o].pc # "idle"
  PROVE  /\ open[o] \in OpenCall /\ open[o].of \in Instances
         /\ kanta[open[o].of] \in Attributes /\ kanta[open[o].of].fd \in 0 .. Len(files)
BY DEF OpeningType, OpenType, KantaType, OpenCall

LEMMA ReplayedType ==
  ASSUME OpeningType, NEW o \in Openers, At(o, "loading")
  PROVE  ReplayedState(o) \in Nat
<1> DEFINE log == open[o].content
<1>1. log \in Seq(Change) /\ log # <<>>
  BY DEF OpeningType, OpenType, OpenCall, At
<1> HIDE DEF log
<1>2. Last(log) \in Change
  BY <1>1 DEF Last
<1>3. QED
  BY <1>2 DEF ReplayedState, Change, log

-----------------------------------------------------------------------------
(* What each action does to the attributes of its instance *)

Becomes(i, opened, readonly, fd, writable, state, pending, failed, task, orphans) ==
  /\ \A j \in Instances : j # i => kanta'[j] = kanta[j]
  /\ Fields(kanta'[i], opened, readonly, fd, writable, state, pending, failed, task, orphans)

LEMMA Becoming ==
  ASSUME KantaType, NEW i \in Instances, NEW l, kanta' = [kanta EXCEPT ![i] = l],
         NEW opened, NEW readonly, NEW fd, NEW writable, NEW state, NEW pending, NEW failed, NEW task, NEW orphans,
         Fields(l, opened, readonly, fd, writable, state, pending, failed, task, orphans),
         fd \in 0 .. Len(files'), Len(files) \in Nat, Len(files') \in Nat, Len(files) <= Len(files')
  PROVE  /\ KantaType'
         /\ Becomes(i, opened, readonly, fd, writable, state, pending, failed, task, orphans)
<1>1. l \in Attributes /\ l.fd \in 0 .. Len(files')
  BY DEF Fields
<1>2. KantaType'
  BY <1>1, KantaAssigned
<1>3. kanta'[i] = l /\ \A j \in Instances : j # i => kanta'[j] = kanta[j]
  BY DEF KantaType
<1>4. QED
  BY <1>2, <1>3 DEF Becomes

(* Files that stay as they are. *)
LEMMA FilesStay ==
  ASSUME FilesType, files' = files, path' = path, last' \in Nat
  PROVE  FilesType' /\ Len(files) \in Nat /\ Len(files') \in Nat /\ Len(files) <= Len(files')
<1>1. Len(files) \in Nat
  BY DEF FilesType
<1>2. QED
  BY <1>1 DEF FilesType

LEMMA FileWritten ==
  ASSUME FilesType, NEW n \in 1 .. Len(files), NEW s \in Seq(Change), files' = [files EXCEPT ![n] = s],
         path' = path, last' \in Nat
  PROVE  /\ FilesType' /\ Len(files) \in Nat /\ Len(files') = Len(files) /\ Len(files) <= Len(files')
         /\ files'[n] = s /\ \A m \in DOMAIN files : m # n => files'[m] = files[m]
<1>1. Len(files) \in Nat /\ files \in Seq(Seq(Change)) /\ DOMAIN files = 1 .. Len(files)
  BY DEF FilesType
<1>2. files' \in Seq(Seq(Change)) /\ Len(files') = Len(files)
  BY <1>1
<1>3. files'[n] = s /\ \A m \in DOMAIN files : m # n => files'[m] = files[m]
  BY <1>1
<1>4. QED
  BY <1>1, <1>2, <1>3 DEF FilesType

LEMMA FileCreated ==
  ASSUME FilesType, files' = Append(files, <<>>), path' = Len(files) + 1, last' \in Nat
  PROVE  /\ FilesType' /\ Len(files) \in Nat /\ Len(files') = Len(files) + 1 /\ Len(files) <= Len(files')
         /\ files'[path'] = <<>> /\ \A m \in DOMAIN files : files'[m] = files[m]
<1>1. Len(files) \in Nat /\ files \in Seq(Seq(Change)) /\ DOMAIN files = 1 .. Len(files)
  BY DEF FilesType
<1>2. files' \in Seq(Seq(Change)) /\ Len(files') = Len(files) + 1
  <2>1. <<>> \in Seq(Change)
    OBVIOUS
  <2>2. QED
    BY <1>1, <2>1
<1>3. files'[path'] = <<>> /\ \A m \in DOMAIN files : files'[m] = files[m]
  BY <1>1
<1>4. QED
  BY <1>1, <1>2, <1>3 DEF FilesType

LEMMA CallEffect ==
  ASSUME OpeningType, NEW o \in Openers, NEW i \in Instances, NEW mode \in Modes, Call(o, i, mode)
  PROVE  LET k == kanta[i] IN
         /\ OpeningType'
         /\ Becomes(i, k.opened, mode = "readonly", k.fd, k.writable, k.state, k.pending, k.flush_failed, k.task,
                    k.orphans)
<1> DEFINE k == kanta[i]
           l == [k EXCEPT !.readonly = (mode = "readonly")]
           c == [NoCall EXCEPT !.pc = "reading", !.of = i, !.mode = mode, !.existed = (path # 0)]
<1>1. k \in Attributes /\ k.fd \in 0 .. Len(files)
  BY DEF OpeningType, KantaType
<1>2. kanta' = [kanta EXCEPT ![i] = l] /\ files' = files /\ path' = path /\ last' = last /\ closing' = closing
      /\ open' = [open EXCEPT ![o] = c]
  BY DEF Call
<1>3. FilesType' /\ Len(files) \in Nat /\ Len(files') \in Nat /\ Len(files) <= Len(files')
  BY <1>2, FilesStay DEF OpeningType, FilesType
<1>4. Fields(l, k.opened, mode = "readonly", k.fd, k.writable, k.state, k.pending, k.flush_failed, k.task, k.orphans)
  BY <1>1, Assign
<1>5. c \in OpenCall /\ c.pc = "reading" /\ c.of = i /\ i # Nobody
  BY NoCallType, OpeningAssumption DEF OpenCall, Steps
<1> HIDE DEF l, c
<1>6. KantaType' /\ Becomes(i, k.opened, mode = "readonly", k.fd, k.writable, k.state, k.pending, k.flush_failed,
                            k.task, k.orphans)
  BY <1>1, <1>2, <1>3, <1>4, Becoming DEF OpeningType
<1>7. OpenType'
  BY <1>2, <1>5, OpenAssigned DEF OpeningType, OpenType
<1>8. QED
  BY <1>3, <1>6, <1>7 DEF OpeningType

(* What os.open does to the path and the files. *)
LEMMA OpenedType ==
  ASSUME FilesType, NEW create, Opened(create), last' = last
  PROVE  /\ FilesType' /\ Len(files) \in Nat /\ Len(files') \in Nat /\ Len(files) <= Len(files')
         /\ path' \in 1 .. Len(files') /\ \A m \in DOMAIN files : files'[m] = files[m]
         /\ \/ path # 0 /\ path' = path /\ files' = files
            \/ path = 0 /\ path' = Len(files) + 1 /\ files' = Append(files, <<>>)
<1>1. CASE path # 0
  <2>1. path' = path /\ files' = files
    BY <1>1 DEF Opened
  <2>2. FilesType' /\ Len(files) \in Nat /\ Len(files') \in Nat /\ Len(files) <= Len(files')
    BY <2>1, FilesStay DEF FilesType
  <2>3. QED
    BY <1>1, <2>1, <2>2 DEF FilesType
<1>2. CASE path = 0
  <2>1. path' = Len(files) + 1 /\ files' = Append(files, <<>>)
    BY <1>2 DEF Opened
  <2>2. /\ FilesType' /\ Len(files) \in Nat /\ Len(files') = Len(files) + 1 /\ Len(files) <= Len(files')
        /\ \A m \in DOMAIN files : files'[m] = files[m]
    BY <2>1, FileCreated DEF FilesType
  <2>3. QED
    BY <1>2, <2>1, <2>2
<1>3. QED
  BY <1>1, <1>2

(* What is written to the file of an instance: files stay what they are. *)
LEMMA WrittenType ==
  ASSUME FilesType, KantaType, NEW i \in Instances, NEW records \in Seq(Change),
         files' = Written(kanta[i], records), path' = path, last' \in Nat
  PROVE  /\ FilesType' /\ Len(files) \in Nat /\ Len(files') = Len(files) /\ Len(files) <= Len(files')
         /\ \A m \in DOMAIN files :
              files'[m] = IF m = kanta[i].fd /\ kanta[i].writable THEN files[m] \o records ELSE files[m]
<1> DEFINE k == kanta[i]
<1>1. k.fd \in 0 .. Len(files) /\ Len(files) \in Nat /\ files \in Seq(Seq(Change)) /\ DOMAIN files = 1 .. Len(files)
  BY DEF KantaType, FilesType
<1>2. files' = IF k.fd # 0 /\ k.writable THEN [files EXCEPT ![k.fd] = files[k.fd] \o records] ELSE files
  BY DEF Written
<1> HIDE DEF k
<1>3. CASE k.fd # 0 /\ k.writable
  <2>1. k.fd \in 1 .. Len(files)
    BY <1>1, <1>3
  <2>2. files[k.fd] \o records \in Seq(Change)
    BY <1>1, <2>1
  <2>3. files' = [files EXCEPT ![k.fd] = files[k.fd] \o records]
    BY <1>2, <1>3
  <2>4. /\ FilesType' /\ Len(files') = Len(files) /\ Len(files) <= Len(files')
        /\ files'[k.fd] = files[k.fd] \o records /\ \A m \in DOMAIN files : m # k.fd => files'[m] = files[m]
    BY <2>1, <2>2, <2>3, FileWritten
  <2>5. QED
    BY <1>1, <1>3, <2>4 DEF k
<1>4. CASE ~(k.fd # 0 /\ k.writable)
  <2>1. files' = files
    BY <1>2, <1>4
  <2>2. FilesType' /\ Len(files') = Len(files) /\ Len(files) <= Len(files')
    BY <1>1, <2>1, FilesStay
  <2>3. \A m \in DOMAIN files : ~(m = k.fd /\ k.writable)
    BY <1>1, <1>4
  <2>4. QED
    BY <1>1, <2>1, <2>2, <2>3 DEF k
<1>5. QED
  BY <1>3, <1>4

(* Steps of open() that assign no attribute *)
LEMMA OpenOnlyType ==
  ASSUME OpeningType, NEW o \in Openers,
         ReadAgain(o) \/ OpenRefused(o) \/ LoadRaises(o) \/ Unlink(o) \/ Cancel(o)
  PROVE  /\ OpeningType' /\ Len(files') = Len(files)
         /\ ~Cancel(o) => files' = files
<1>1. kanta' = kanta /\ closing' = closing /\ last' = last
  BY DEF ReadAgain, OpenRefused, LoadRaises, Unlink, Cancel, bounds
<1>2. FilesType' /\ Len(files') = Len(files) /\ (~Cancel(o) => files' = files)
  <2>1. CASE files' = files
    <3>1. path' \in {0, path}
      BY DEF ReadAgain, OpenRefused, LoadRaises, Unlink, Cancel
    <3>2. QED
      BY <1>1, <2>1, <3>1 DEF OpeningType, FilesType
  <2>2. CASE files' # files
    <3> DEFINE i == open[o].of
    <3>1. Cancel(o) /\ At(o, "recording") /\ files' = Written(kanta[i], kanta[i].pending) /\ path' = path
      BY <2>2 DEF ReadAgain, OpenRefused, LoadRaises, Unlink, Cancel
    <3>2. i \in Instances /\ kanta[i] \in Attributes
      BY <3>1, Serves DEF At
    <3>3. kanta[i].pending \in Seq(Change) /\ last' \in Nat
      BY <1>1, <3>2 DEF Attributes, OpeningType, FilesType
    <3>4. FilesType' /\ Len(files') = Len(files)
      BY <3>1, <3>2, <3>3, WrittenType DEF OpeningType
    <3>5. QED
      BY <3>1, <3>4
  <2>3. QED
    BY <2>1, <2>2
<1>3. KantaType'
  BY <1>1, <1>2 DEF OpeningType, KantaType
<1>4. closing' \subseteq Instances /\ files \in Seq(Seq(Change))
  BY <1>1 DEF OpeningType, OpenType, FilesType
<1>5. ASSUME Ends(o) PROVE OpenType'
  BY <1>4, <1>5, OpenEnds DEF OpeningType
<1>6. ASSUME At(o, "reading"), Step(o, "stray") PROVE OpenType'
  BY <1>4, <1>6, StepTyped DEF OpeningType, At, Steps
<1>7. ASSUME ReadAgain(o) PROVE OpenType'
  BY <1>1, <1>4, <1>7, OpenReads DEF OpeningType, ReadAgain
<1>8. ASSUME UNCHANGED open PROVE OpenType'
  BY <1>1, <1>8 DEF OpeningType, OpenType
<1>9. OpenType'
  BY <1>5, <1>6, <1>7, <1>8 DEF OpenRefused, LoadRaises, Unlink, Cancel
<1>10. QED
  BY <1>2, <1>3, <1>9 DEF OpeningType

LEMMA OpenFileEffect ==
  ASSUME OpeningType, NEW o \in Openers, OpenFile(o)
  PROVE  /\ OpeningType' /\ open[o].of \in Instances /\ kanta' = kanta
         /\ Len(files) \in Nat /\ Len(files') \in Nat /\ Len(files) <= Len(files')
         /\ path' \in 1 .. Len(files') /\ \A m \in DOMAIN files : files'[m] = files[m]
         /\ \/ path # 0 /\ path' = path /\ files' = files
            \/ path = 0 /\ path' = Len(files) + 1 /\ files' = Append(files, <<>>)
         /\ \A p \in Openers : open'[p] = IF p = o THEN [open[p] EXCEPT !.fd = path'] ELSE open[p]
<1> DEFINE c == [open[o] EXCEPT !.fd = path']
<1>1. open[o].of \in Instances /\ open[o] \in OpenCall
  BY Serves DEF OpenFile
<1>2. kanta' = kanta /\ last' = last /\ closing' = closing /\ open' = [open EXCEPT ![o] = c]
      /\ \E create : Opened(create)
  BY DEF OpenFile, bounds
<1>3. /\ FilesType' /\ Len(files) \in Nat /\ Len(files') \in Nat /\ Len(files) <= Len(files')
      /\ path' \in 1 .. Len(files') /\ \A m \in DOMAIN files : files'[m] = files[m]
      /\ \/ path # 0 /\ path' = path /\ files' = files
         \/ path = 0 /\ path' = Len(files) + 1 /\ files' = Append(files, <<>>)
  BY <1>2, OpenedType DEF OpeningType
<1>4. path' \in Nat
  BY <1>3
<1>5. c \in OpenCall /\ c.pc = open[o].pc /\ c.of = open[o].of /\ c.content = open[o].content
  BY <1>1, <1>4 DEF OpenCall
<1>6. OpenType' /\ \A p \in Openers : open'[p] = IF p = o THEN c ELSE open[p]
  <2> HIDE DEF c
  <2>1. OpenType'
    BY <1>2, <1>5, OpenAssigned DEF OpeningType, OpenType
  <2>2. QED
    BY <1>2, <2>1 DEF OpeningType, OpenType
<1>7. KantaType'
  BY <1>2, <1>3 DEF OpeningType, KantaType
<1>8. QED
  BY <1>1, <1>2, <1>3, <1>6, <1>7 DEF OpeningType

LEMMA LockAndReadEffect ==
  ASSUME OpeningType, Pending, NEW o \in Openers, LockAndRead(o)
  PROVE  LET k == kanta[open[o].of] IN
         /\ OpeningType' /\ open[o].of \in Instances /\ open[o].pc \in {"reading", "stray"}
         /\ open[o].fd \in DOMAIN files /\ files' = files /\ path' = path /\ Reads(o, open[o].fd)
         /\ Becomes(open[o].of, k.opened, k.readonly, open[o].fd, open[o].mode # "readonly", k.state, k.pending,
                    k.flush_failed, k.task, k.orphans)
<1> DEFINE i == open[o].of
           k == kanta[i]
           w == open[o].mode # "readonly"
           f == open[o].fd
           l == [k EXCEPT !.fd = f, !.writable = w]
<1>1. open[o].pc \in {"reading", "stray"} /\ f \in 1 .. Len(files)
  BY DEF LockAndRead, Pending
<1>2. i \in Instances /\ k \in Attributes /\ k.fd \in 0 .. Len(files)
  BY <1>1, Serves
<1>3. files' = files /\ path' = path /\ last' = last /\ closing' = closing /\ Reads(o, f)
  BY DEF LockAndRead, TakeFile, bounds
<1>4. FilesType' /\ Len(files) \in Nat /\ Len(files') \in Nat /\ Len(files) <= Len(files')
  BY <1>3, FilesStay DEF OpeningType, FilesType
<1>5. f \in Nat /\ f \in 0 .. Len(files') /\ w \in BOOLEAN /\ f \in DOMAIN files
  <2>1. DOMAIN files = 1 .. Len(files)
    BY DEF OpeningType, FilesType
  <2>2. QED
    BY <1>1, <1>3, <1>4, <2>1
<1>6. kanta' = [kanta EXCEPT ![i] = l]
  BY <1>2 DEF LockAndRead, TakeFile, OpeningType, KantaType
<1>7. Fields(l, k.opened, k.readonly, f, w, k.state, k.pending, k.flush_failed, k.task, k.orphans)
  BY <1>2, <1>5, Assign
<1> HIDE DEF l
<1>8. KantaType' /\ Becomes(i, k.opened, k.readonly, f, w, k.state, k.pending, k.flush_failed, k.task, k.orphans)
  BY <1>2, <1>4, <1>5, <1>6, <1>7, Becoming DEF OpeningType
<1>9. OpenType'
  BY <1>1, <1>3, OpenReads DEF OpeningType, FilesType
<1>10. QED
  BY <1>1, <1>2, <1>3, <1>4, <1>5, <1>8, <1>9 DEF OpeningType

LEMMA ReopenEffect ==
  ASSUME OpeningType, NEW i \in Instances, Reopen(i)
  PROVE  LET k == kanta[i] IN
         /\ OpeningType'
         /\ Becomes(i, k.opened, k.readonly, path', TRUE, k.state, k.pending, k.flush_failed, k.task, k.orphans)
<1> DEFINE k == kanta[i]
           l == [k EXCEPT !.fd = path', !.writable = TRUE]
<1>1. k \in Attributes /\ k.fd \in 0 .. Len(files)
  BY DEF OpeningType, KantaType
<1>2. last' = last /\ closing' = closing /\ open' = open
      /\ ((path' = path /\ files' = files) \/ (path' = Len(files) + 1 /\ files' = Append(files, <<>>)))
  BY DEF Reopen, Opened, bounds
<1>3. FilesType' /\ Len(files) \in Nat /\ Len(files') \in Nat /\ Len(files) <= Len(files')
  <2>1. CASE path' = path /\ files' = files
    BY <1>2, <2>1, FilesStay DEF OpeningType, FilesType
  <2>2. CASE path' = Len(files) + 1 /\ files' = Append(files, <<>>)
    <3>1. FilesType' /\ Len(files) \in Nat /\ Len(files') = Len(files) + 1 /\ Len(files) <= Len(files')
      BY <1>2, <2>2, FileCreated DEF OpeningType, FilesType
    <3>2. QED
      BY <3>1
  <2>3. QED
    BY <1>2, <2>1, <2>2
<1>4. path' \in Nat /\ path' \in 0 .. Len(files')
  BY <1>3 DEF FilesType
<1>5. kanta' = [kanta EXCEPT ![i] = l]
  BY <1>1 DEF Reopen, OpeningType, KantaType
<1>6. Fields(l, k.opened, k.readonly, path', TRUE, k.state, k.pending, k.flush_failed, k.task, k.orphans)
  BY <1>1, <1>4, Assign
<1> HIDE DEF l
<1>7. KantaType' /\ Becomes(i, k.opened, k.readonly, path', TRUE, k.state, k.pending, k.flush_failed, k.task, k.orphans)
  BY <1>1, <1>3, <1>4, <1>5, <1>6, Becoming DEF OpeningType
<1>8. OpenType'
  BY <1>2 DEF OpeningType, OpenType
<1>9. QED
  BY <1>3, <1>7, <1>8 DEF OpeningType

(* The stretches of open() from the await of open_and_read on *)
LEMMA RejectEffect ==
  ASSUME OpeningType, NEW o \in Openers, RejectEmpty(o) \/ RejectEmptyReadonly(o)
  PROVE  LET k == kanta[open[o].of] IN
         /\ OpeningType' /\ open[o].of \in Instances
         /\ \E opened \in {FALSE, k.opened} :
              /\ RejectEmptyReadonly(o) => ~opened
              /\ Becomes(open[o].of, opened, k.readonly, 0, FALSE, k.state, k.pending, k.flush_failed, k.task, k.orphans)
<1> DEFINE i == open[o].of
           k == kanta[i]
<1>1. i \in Instances /\ k \in Attributes
  BY Serves DEF RejectEmpty, RejectEmptyReadonly, At
<1>2. files' = files /\ path' = path /\ last' = last /\ closing' = closing /\ Ends(o)
  BY DEF RejectEmpty, RejectEmptyReadonly, bounds
<1>3. FilesType' /\ Len(files) \in Nat /\ Len(files') \in Nat /\ Len(files) <= Len(files')
  BY <1>2, FilesStay DEF OpeningType, FilesType
<1>4. PICK l, opened :
         /\ opened \in {FALSE, k.opened}
         /\ kanta' = [kanta EXCEPT ![i] = l]
         /\ Fields(l, opened, k.readonly, 0, FALSE, k.state, k.pending, k.flush_failed, k.task, k.orphans)
         /\ RejectEmptyReadonly(o) => ~opened
  <2>1. Fields(Released(k), k.opened, k.readonly, 0, FALSE, k.state, k.pending, k.flush_failed, k.task, k.orphans)
    BY <1>1, ReleasedFields
  <2>2. Fields([Released(k) EXCEPT !.opened = FALSE], FALSE, k.readonly, 0, FALSE, k.state, k.pending,
               k.flush_failed, k.task, k.orphans)
    BY <2>1, Assign DEF Fields
  <2>3. CASE RejectEmptyReadonly(o)
    <3>1. kanta' = [kanta EXCEPT ![i] = [Released(k) EXCEPT !.opened = FALSE]]
      BY <2>3 DEF RejectEmptyReadonly
    <3>2. QED
      BY <2>2, <3>1
  <2>4. CASE ~RejectEmptyReadonly(o)
    <3>1. kanta' = [kanta EXCEPT ![i] = Released(k)]
      BY <2>4 DEF RejectEmpty
    <3>2. QED
      BY <2>1, <2>4, <3>1
  <2>5. QED
    BY <2>3, <2>4
<1>5. 0 \in 0 .. Len(files')
  BY <1>3
<1>6. KantaType'
      /\ Becomes(i, opened, k.readonly, 0, FALSE, k.state, k.pending, k.flush_failed, k.task, k.orphans)
  BY <1>1, <1>3, <1>4, <1>5, Becoming DEF OpeningType
<1>7. OpenType'
  BY <1>2, OpenEnds DEF OpeningType, OpenType
<1>8. QED
  BY <1>1, <1>3, <1>4, <1>6, <1>7 DEF OpeningType

LEMMA ProceedEffect ==
  ASSUME OpeningType, NEW o \in Openers, Proceed(o)
  PROVE  LET k == kanta[open[o].of] IN
         /\ OpeningType' /\ open[o].of \in Instances
         /\ Becomes(open[o].of, TRUE, k.readonly, k.fd, k.writable, k.state, k.pending, k.flush_failed, k.task, k.orphans)
<1> DEFINE i == open[o].of
           k == kanta[i]
           l == [k EXCEPT !.opened = TRUE]
<1>1. i \in Instances /\ k \in Attributes /\ k.fd \in 0 .. Len(files)
  BY Serves DEF Proceed, At
<1>2. files' = files /\ path' = path /\ last' = last /\ closing' = closing /\ kanta' = [kanta EXCEPT ![i] = l]
  BY DEF Proceed, bounds
<1>3. FilesType' /\ Len(files) \in Nat /\ Len(files') \in Nat /\ Len(files) <= Len(files')
  BY <1>2, FilesStay DEF OpeningType, FilesType
<1>4. Fields(l, TRUE, k.readonly, k.fd, k.writable, k.state, k.pending, k.flush_failed, k.task, k.orphans)
  BY <1>1, Assign
<1> HIDE DEF l
<1>5. KantaType'
      /\ Becomes(i, TRUE, k.readonly, k.fd, k.writable, k.state, k.pending, k.flush_failed, k.task, k.orphans)
  BY <1>1, <1>2, <1>3, <1>4, Becoming DEF OpeningType
<1>6. OpenType'
  <2>1. open[o].content = <<>> => Step(o, "bootstrapping")
    BY DEF Proceed
  <2>2. open[o].content # <<>> => Step(o, "loading")
    BY DEF Proceed
  <2>3. closing' \subseteq Instances /\ open[o].pc = "read"
    BY <1>2 DEF OpeningType, OpenType, Proceed, At
  <2>4. QED
    BY <2>1, <2>2, <2>3, StepTyped DEF OpeningType, Steps
<1>7. QED
  BY <1>1, <1>3, <1>5, <1>6 DEF OpeningType

LEMMA LoadInvalidEffect ==
  ASSUME OpeningType, NEW o \in Openers, LoadInvalid(o)
  PROVE  LET k == kanta[open[o].of] IN
         /\ OpeningType' /\ open[o].of \in Instances
         /\ Becomes(open[o].of, FALSE, k.readonly, 0, FALSE, ReplayedState(o), k.pending, k.flush_failed, k.task,
                    k.orphans)
<1> DEFINE i == open[o].of
           k == kanta[i]
           s == ReplayedState(o)
           l == [Released(k) EXCEPT !.opened = FALSE]
           m == [l EXCEPT !.state = s]
<1>1. i \in Instances /\ k \in Attributes /\ s \in Nat
  BY Serves, ReplayedType DEF LoadInvalid, At
<1>2. files' = files /\ path' = path /\ last' = last /\ closing' = closing /\ Ends(o)
      /\ kanta' = [kanta EXCEPT ![i] = m]
  BY DEF LoadInvalid, bounds
<1>3. FilesType' /\ Len(files) \in Nat /\ Len(files') \in Nat /\ Len(files) <= Len(files') /\ 0 \in 0 .. Len(files')
  BY <1>2, FilesStay DEF OpeningType, FilesType
<1>4. Fields(Released(k), k.opened, k.readonly, 0, FALSE, k.state, k.pending, k.flush_failed, k.task, k.orphans)
  BY <1>1, ReleasedFields
<1>5. Fields(l, FALSE, k.readonly, 0, FALSE, k.state, k.pending, k.flush_failed, k.task, k.orphans)
  BY <1>4, Assign DEF Fields
<1> HIDE DEF l, s
<1>6. Fields(m, FALSE, k.readonly, 0, FALSE, s, k.pending, k.flush_failed, k.task, k.orphans)
  <2>1. l \in Attributes
    BY <1>5 DEF Fields
  <2>2. Fields(m, l.opened, l.readonly, l.fd, l.writable, s, l.pending, l.flush_failed, l.task, l.orphans)
    BY <1>1, <2>1, Assign
  <2>3. QED
    BY <1>5, <2>2 DEF Fields
<1> HIDE DEF m
<1>7. KantaType'
      /\ Becomes(i, FALSE, k.readonly, 0, FALSE, s, k.pending, k.flush_failed, k.task, k.orphans)
  BY <1>1, <1>2, <1>3, <1>6, Becoming DEF OpeningType
<1>8. OpenType'
  BY <1>2, OpenEnds DEF OpeningType, OpenType
<1>9. QED
  BY <1>1, <1>3, <1>7, <1>8 DEF OpeningType, s

LEMMA LoadEffect ==
  ASSUME OpeningType, NEW o \in Openers, Load(o)
  PROVE  LET k == kanta[open[o].of] IN
         /\ OpeningType' /\ open[o].of \in Instances
         /\ k.task # "live" =>
              Becomes(open[o].of, k.opened, k.readonly, k.fd, k.writable, ReplayedState(o), k.pending, k.flush_failed,
                      IF k.readonly THEN k.task ELSE "live", k.orphans)
<1> DEFINE i == open[o].of
           k == kanta[i]
           s == ReplayedState(o)
           l == [k EXCEPT !.state = s]
           m == WithLoop(l)
<1>1. i \in Instances /\ k \in Attributes /\ k.fd \in 0 .. Len(files) /\ s \in Nat
  BY Serves, ReplayedType DEF Load, At
<1>2. files' = files /\ path' = path /\ last' = last /\ closing' = closing /\ Ends(o)
      /\ kanta' = [kanta EXCEPT ![i] = m]
  BY DEF Load, bounds
<1>3. FilesType' /\ Len(files) \in Nat /\ Len(files') \in Nat /\ Len(files) <= Len(files')
  BY <1>2, FilesStay DEF OpeningType, FilesType
<1>4. Fields(l, k.opened, k.readonly, k.fd, k.writable, s, k.pending, k.flush_failed, k.task, k.orphans)
  BY <1>1, Assign
<1> HIDE DEF l, s
<1>5. m \in Attributes /\ m.fd = k.fd
  BY <1>4, WithLoopType DEF Fields
<1>6. k.task # "live" =>
        Fields(m, k.opened, k.readonly, k.fd, k.writable, s, k.pending, k.flush_failed,
               IF k.readonly THEN k.task ELSE "live", k.orphans)
  BY <1>4, WithLoopFields DEF Fields
<1> HIDE DEF m
<1>7. KantaType'
  BY <1>1, <1>2, <1>3, <1>5, KantaAssigned DEF OpeningType
<1>8. k.task # "live" =>
        Becomes(i, k.opened, k.readonly, k.fd, k.writable, s, k.pending, k.flush_failed,
                IF k.readonly THEN k.task ELSE "live", k.orphans)
  BY <1>1, <1>2, <1>3, <1>6, Becoming DEF OpeningType
<1>9. OpenType'
  BY <1>2, OpenEnds DEF OpeningType, OpenType
<1>10. QED
  BY <1>1, <1>3, <1>7, <1>8, <1>9 DEF OpeningType, s

LEMMA LoadMigratedEffect ==
  ASSUME OpeningType, NEW o \in Openers, LoadMigrated(o)
  PROVE  LET k == kanta[open[o].of]  s == ReplayedState(o) IN
         /\ OpeningType' /\ open[o].of \in Instances /\ s \in Nat /\ last' = last + 1
         /\ Becomes(open[o].of, k.opened, k.readonly, k.fd, k.writable, last',
                    Append(k.pending, [from |-> s, to |-> last']), k.flush_failed, k.task, k.orphans)
<1> DEFINE i == open[o].of
           k == kanta[i]
           s == ReplayedState(o)
           l == [k EXCEPT !.state = s]
           n == last + 1
           m == Queued(l, n)
<1>1. i \in Instances /\ k \in Attributes /\ k.fd \in 0 .. Len(files) /\ s \in Nat
  BY Serves, ReplayedType DEF LoadMigrated, At
<1>2. files' = files /\ path' = path /\ last' = n /\ closing' = closing /\ Step(o, "recording")
      /\ kanta' = [kanta EXCEPT ![i] = m] /\ At(o, "loading")
  BY DEF LoadMigrated
<1>3. n \in Nat
  BY DEF OpeningType, FilesType
<1>4. FilesType' /\ Len(files) \in Nat /\ Len(files') \in Nat /\ Len(files) <= Len(files')
  BY <1>2, <1>3, FilesStay DEF OpeningType
<1>5. Fields(l, k.opened, k.readonly, k.fd, k.writable, s, k.pending, k.flush_failed, k.task, k.orphans)
  BY <1>1, Assign
<1> DEFINE q == Append(k.pending, [from |-> s, to |-> n])
<1> HIDE DEF l, s, n
<1>6. Fields(m, k.opened, k.readonly, k.fd, k.writable, n, q, k.flush_failed, k.task, k.orphans)
  <2>1. Fields(m, l.opened, l.readonly, l.fd, l.writable, n, Append(l.pending, [from |-> l.state, to |-> n]),
               l.flush_failed, l.task, l.orphans)
    BY <1>3, <1>5, QueuedFields DEF Fields
  <2>2. QED
    BY <1>5, <2>1 DEF Fields
<1> HIDE DEF m, q
<1>7. KantaType' /\ Becomes(i, k.opened, k.readonly, k.fd, k.writable, n, q, k.flush_failed, k.task, k.orphans)
  BY <1>1, <1>2, <1>4, <1>6, Becoming DEF OpeningType
<1>8. OpenType'
  BY <1>2, StepTyped DEF OpeningType, OpenType, At, Steps
<1>9. OpeningType'
  BY <1>4, <1>7, <1>8 DEF OpeningType
<1>10. last' = last + 1
  BY <1>2 DEF n
<1>11. Becomes(i, k.opened, k.readonly, k.fd, k.writable, last', Append(k.pending, [from |-> s, to |-> last']),
               k.flush_failed, k.task, k.orphans)
  BY <1>2, <1>7 DEF q
<1>12. QED
  BY <1>1, <1>9, <1>10, <1>11 DEF s

LEMMA RecordMigrationEffect ==
  ASSUME OpeningType, NEW o \in Openers, RecordMigration(o)
  PROVE  LET k == kanta[open[o].of]
             log == files[k.fd] \o (IF k.flush_failed THEN <<>> ELSE k.pending)
                      \o <<[from |-> k.state, to |-> k.state]>> IN
         /\ OpeningType' /\ open[o].of \in Instances /\ k.fd \in DOMAIN files
         /\ Len(files') = Len(files) /\ files'[k.fd] = log /\ \A m \in DOMAIN files : m # k.fd => files'[m] = files[m]
         /\ k.task # "live" =>
              Becomes(open[o].of, k.opened, k.readonly, k.fd, k.writable, k.state,
                      IF k.flush_failed THEN k.pending ELSE <<>>, k.flush_failed, "live", k.orphans)
<1> DEFINE i == open[o].of
           k == kanta[i]
           c == [from |-> k.state, to |-> k.state]
           written == IF k.flush_failed THEN <<>> ELSE k.pending
           kept == IF k.flush_failed THEN k.pending ELSE <<>>
           log == files[k.fd] \o written \o <<c>>
           l == [k EXCEPT !.pending = kept]
           m == WithLoop(l)
<1>1. i \in Instances /\ k \in Attributes /\ k.fd \in 0 .. Len(files)
  BY Serves DEF RecordMigration, At
<1>2. path' = path /\ last' = last /\ closing' = closing /\ Ends(o) /\ ~k.readonly /\ k.fd # 0
      /\ kanta' = [kanta EXCEPT ![i] = m] /\ files' = [files EXCEPT ![k.fd] = log]
  BY <1>1 DEF RecordMigration, bounds, OpeningType, KantaType, FilesType
<1>3. k.pending \in Seq(Change) /\ k.state \in Nat /\ k.flush_failed \in BOOLEAN
  BY <1>1 DEF Attributes
<1>4. c \in Change
  BY <1>3 DEF Change
<1>5. Len(files) \in Nat /\ files \in Seq(Seq(Change)) /\ DOMAIN files = 1 .. Len(files)
  BY DEF OpeningType, FilesType
<1>6. k.fd \in 1 .. Len(files)
  <2>1. k.fd \in 0 .. Len(files) /\ k.fd # 0
    BY <1>1, <1>2
  <2>2. Len(files) \in Nat
    BY <1>5
  <2> HIDE DEF k
  <2>3. QED
    BY <2>1, <2>2
<1>7. log \in Seq(Change) /\ kept \in Seq(Change)
  <2>1. files[k.fd] \in Seq(Change)
    BY <1>5, <1>6
  <2>2. written \in Seq(Change) /\ kept \in Seq(Change)
    BY <1>3
  <2> HIDE DEF c, written, kept
  <2>3. <<c>> \in Seq(Change)
    BY <1>4
  <2>4. QED
    BY <2>1, <2>2, <2>3
<1>8. last' \in Nat
  BY <1>2 DEF OpeningType, FilesType
<1> HIDE DEF log, kept, written, c
<1>9. FilesType' /\ Len(files') = Len(files) /\ Len(files) <= Len(files')
      /\ files'[k.fd] = log /\ \A n \in DOMAIN files : n # k.fd => files'[n] = files[n]
  BY <1>2, <1>6, <1>7, <1>8, FileWritten DEF OpeningType
<1>10. Fields(l, k.opened, k.readonly, k.fd, k.writable, k.state, kept, k.flush_failed, k.task, k.orphans)
  BY <1>1, <1>7, Assign
<1> HIDE DEF l
<1>11. m \in Attributes /\ m.fd = k.fd
  BY <1>10, WithLoopType DEF Fields
<1>12. k.task # "live" =>
        Fields(m, k.opened, k.readonly, k.fd, k.writable, k.state, kept, k.flush_failed, "live", k.orphans)
  <2> SUFFICES ASSUME k.task # "live"
               PROVE  Fields(m, k.opened, k.readonly, k.fd, k.writable, k.state, kept, k.flush_failed, "live", k.orphans)
    OBVIOUS
  <2>1. l \in Attributes /\ l.task # "live" /\ ~l.readonly
    BY <1>2, <1>10 DEF Fields
  <2>2. Fields(m, l.opened, l.readonly, l.fd, l.writable, l.state, l.pending, l.flush_failed,
               IF l.readonly THEN l.task ELSE "live", l.orphans)
    BY <2>1, WithLoopFields
  <2>3. QED
    BY <1>10, <2>1, <2>2 DEF Fields
<1> HIDE DEF m
<1>13. KantaType'
  BY <1>1, <1>2, <1>5, <1>9, <1>11, KantaAssigned DEF OpeningType
<1>14. k.task # "live" =>
         Becomes(i, k.opened, k.readonly, k.fd, k.writable, k.state, kept, k.flush_failed, "live", k.orphans)
  BY <1>1, <1>2, <1>5, <1>9, <1>12, Becoming DEF OpeningType
<1>15. OpenType'
  BY <1>2, OpenEnds DEF OpeningType, OpenType
<1>16. OpeningType'
  BY <1>9, <1>13, <1>15 DEF OpeningType
<1>17. QED
  BY <1>1, <1>5, <1>6, <1>9, <1>14, <1>16 DEF log, kept, written, c

LEMMA RecordingRaisesEffect ==
  ASSUME OpeningType, NEW o \in Openers, RecordingRaises(o)
  PROVE  LET k == kanta[open[o].of] IN
         /\ OpeningType' /\ open[o].of \in Instances
         /\ \E failed \in BOOLEAN :
              /\ \/ failed = k.flush_failed /\ (~k.opened \/ k.readonly)
                 \/ k.opened /\ ~k.readonly /\ (failed \/ k.fd = 0)
              /\ Becomes(open[o].of, k.opened, k.readonly, k.fd, k.writable, k.state, k.pending, failed, k.task, k.orphans)
<1> DEFINE i == open[o].of
           k == kanta[i]
<1>1. i \in Instances /\ k \in Attributes /\ k.fd \in 0 .. Len(files)
  BY Serves DEF RecordingRaises, At
<1>2. files' = files /\ path' = path /\ last' = last /\ closing' = closing /\ Ends(o)
  BY DEF RecordingRaises
<1>3. FilesType' /\ Len(files) \in Nat /\ Len(files') \in Nat /\ Len(files) <= Len(files')
  BY <1>2, FilesStay DEF OpeningType, FilesType
<1>4. PICK failed \in BOOLEAN :
        /\ kanta' = [kanta EXCEPT ![i] = [k EXCEPT !.flush_failed = failed]]
        /\ \/ failed = k.flush_failed /\ (~k.opened \/ k.readonly)
           \/ k.opened /\ ~k.readonly /\ (failed \/ k.fd = 0)
  <2>1. CASE (~k.opened \/ k.readonly) /\ kanta' = kanta
    <3>1. k = [k EXCEPT !.flush_failed = k.flush_failed] /\ k.flush_failed \in BOOLEAN
      BY <1>1 DEF Attributes
    <3>2. kanta = [kanta EXCEPT ![i] = k]
      BY <1>1 DEF OpeningType, KantaType
    <3>3. QED
      BY <2>1, <3>1, <3>2
  <2>2. ASSUME NEW broken \in BOOLEAN, Flushing(i), Refused(i, broken),
               kanta' = [kanta EXCEPT ![i].flush_failed = broken]
        PROVE  \E failed \in BOOLEAN :
                 /\ kanta' = [kanta EXCEPT ![i] = [k EXCEPT !.flush_failed = failed]]
                 /\ \/ failed = k.flush_failed /\ (~k.opened \/ k.readonly)
                    \/ k.opened /\ ~k.readonly /\ (failed \/ k.fd = 0)
    <3>1. k.opened /\ ~k.readonly /\ (broken \/ k.fd = 0)
      BY <2>2 DEF Flushing, Refused
    <3>2. kanta' = [kanta EXCEPT ![i] = [k EXCEPT !.flush_failed = broken]]
      BY <2>2, <1>1 DEF OpeningType, KantaType
    <3>3. QED
      BY <3>1, <3>2
  <2>3. QED
    BY <2>1, <2>2 DEF RecordingRaises
<1> DEFINE l == [k EXCEPT !.flush_failed = failed]
<1>5. Fields(l, k.opened, k.readonly, k.fd, k.writable, k.state, k.pending, failed, k.task, k.orphans)
  BY <1>1, Assign
<1> HIDE DEF l
<1>6. KantaType'
      /\ Becomes(i, k.opened, k.readonly, k.fd, k.writable, k.state, k.pending, failed, k.task, k.orphans)
  <2>1. kanta' = [kanta EXCEPT ![i] = l]
    BY <1>4 DEF l
  <2>2. k.fd \in 0 .. Len(files')
    BY <1>1, <1>2
  <2>3. QED
    BY <1>1, <1>3, <1>5, <2>1, <2>2, Becoming DEF OpeningType
<1>7. OpenType'
  BY <1>2, OpenEnds DEF OpeningType, OpenType
<1>8. OpeningType'
  BY <1>3, <1>6, <1>7 DEF OpeningType
<1>9. QED
  BY <1>1, <1>4, <1>6, <1>8

LEMMA BootstrapEffect ==
  ASSUME OpeningType, NEW o \in Openers, Bootstrap(o)
  PROVE  LET k == kanta[open[o].of] IN
         /\ OpeningType' /\ open[o].of \in Instances /\ last' = last + 1
         /\ k.task # "live" =>
              Becomes(open[o].of, k.opened, k.readonly, k.fd, k.writable, last',
                      Append(k.pending, [from |-> 0, to |-> last']), k.flush_failed,
                      IF k.readonly THEN k.task ELSE "live", k.orphans)
<1> DEFINE i == open[o].of
           k == kanta[i]
           l == [k EXCEPT !.state = 0]
           n == last + 1
           q == Append(k.pending, [from |-> 0, to |-> n])
           m == Queued(l, n)
           w == WithLoop(m)
<1>1. i \in Instances /\ k \in Attributes /\ k.fd \in 0 .. Len(files)
  BY Serves DEF Bootstrap, At
<1>2. files' = files /\ path' = path /\ last' = n /\ closing' = closing /\ Ends(o)
      /\ kanta' = [kanta EXCEPT ![i] = w]
  BY DEF Bootstrap
<1>3. n \in Nat
  BY DEF OpeningType, FilesType
<1>4. FilesType' /\ Len(files) \in Nat /\ Len(files') \in Nat /\ Len(files) <= Len(files')
  BY <1>2, <1>3, FilesStay DEF OpeningType
<1>5. Fields(l, k.opened, k.readonly, k.fd, k.writable, 0, k.pending, k.flush_failed, k.task, k.orphans)
  BY <1>1, Assign
<1> HIDE DEF l, n
<1>6. Fields(m, k.opened, k.readonly, k.fd, k.writable, n, q, k.flush_failed, k.task, k.orphans)
  <2>1. Fields(m, l.opened, l.readonly, l.fd, l.writable, n, Append(l.pending, [from |-> l.state, to |-> n]),
               l.flush_failed, l.task, l.orphans)
    BY <1>3, <1>5, QueuedFields DEF Fields
  <2>2. QED
    BY <1>5, <2>1 DEF Fields
<1> HIDE DEF m, q
<1>7. w \in Attributes /\ w.fd = k.fd
  BY <1>6, WithLoopType DEF Fields
<1>8. k.task # "live" =>
        Fields(w, k.opened, k.readonly, k.fd, k.writable, n, q, k.flush_failed,
               IF k.readonly THEN k.task ELSE "live", k.orphans)
  BY <1>6, WithLoopFields DEF Fields
<1> HIDE DEF w
<1>9. KantaType'
  BY <1>1, <1>2, <1>4, <1>7, KantaAssigned DEF OpeningType
<1>10. k.task # "live" =>
         Becomes(i, k.opened, k.readonly, k.fd, k.writable, n, q, k.flush_failed,
                 IF k.readonly THEN k.task ELSE "live", k.orphans)
  BY <1>1, <1>2, <1>4, <1>8, Becoming DEF OpeningType
<1>11. OpenType'
  BY <1>2, OpenEnds DEF OpeningType, OpenType
<1>12. OpeningType'
  BY <1>4, <1>9, <1>11 DEF OpeningType
<1>13. last' = last + 1
  BY <1>2 DEF n
<1>14. QED
  BY <1>1, <1>2, <1>10, <1>12, <1>13 DEF q

LEMMA BootstrapFailsEffect ==
  ASSUME OpeningType, NEW o \in Openers, BootstrapFails(o)
  PROVE  LET k == kanta[open[o].of] IN
         /\ OpeningType' /\ open[o].of \in Instances
         /\ \E state \in Nat, pending \in Seq(Change) :
              /\ pending = k.pending \/ "leftover" \in mishaps'
              /\ Becomes(open[o].of, FALSE, k.readonly, 0, FALSE, state, pending, k.flush_failed, k.task, k.orphans)
<1> DEFINE i == open[o].of
           k == kanta[i]
           l == [Released(k) EXCEPT !.opened = FALSE]
           s == [l EXCEPT !.state = 0]
           n == last + 1
           m == Queued(s, n)
<1>1. i \in Instances /\ k \in Attributes /\ k.fd \in 0 .. Len(files)
  BY Serves DEF BootstrapFails, At
<1>2. files' = files /\ path' = path /\ closing' = closing /\ (last' = n \/ last' = last)
  BY DEF BootstrapFails
<1>3. n \in Nat /\ last \in Nat
  BY DEF OpeningType, FilesType
<1>4. FilesType' /\ Len(files) \in Nat /\ Len(files') \in Nat /\ Len(files) <= Len(files') /\ 0 \in 0 .. Len(files')
  BY <1>2, <1>3, FilesStay DEF OpeningType
<1>5. Fields(Released(k), k.opened, k.readonly, 0, FALSE, k.state, k.pending, k.flush_failed, k.task, k.orphans)
  BY <1>1, ReleasedFields
<1>6. Fields(l, FALSE, k.readonly, 0, FALSE, k.state, k.pending, k.flush_failed, k.task, k.orphans)
  BY <1>5, Assign DEF Fields
<1>7. \/ kanta' = [kanta EXCEPT ![i] = l]
      \/ kanta' = [kanta EXCEPT ![i] = m] /\ "leftover" \in mishaps'
  <2>1. [Released(k) EXCEPT !.opened = FALSE, !.state = 0] = s
    OBVIOUS
  <2>2. QED
    BY <2>1 DEF BootstrapFails, Notes
<1> HIDE DEF l, n
<1>8. l \in Attributes
  BY <1>6 DEF Fields
<1>9. Fields(s, l.opened, l.readonly, l.fd, l.writable, 0, l.pending, l.flush_failed, l.task, l.orphans)
  BY <1>8, Assign
<1>10. Fields(s, FALSE, k.readonly, 0, FALSE, 0, k.pending, k.flush_failed, k.task, k.orphans)
  BY <1>6, <1>9 DEF Fields
<1> HIDE DEF s
<1>11. Fields(m, s.opened, s.readonly, s.fd, s.writable, n, Append(s.pending, [from |-> s.state, to |-> n]),
              s.flush_failed, s.task, s.orphans)
  BY <1>3, <1>10, QueuedFields DEF Fields
<1>12. Fields(m, FALSE, k.readonly, 0, FALSE, n, m.pending, k.flush_failed, k.task, k.orphans)
  BY <1>10, <1>11 DEF Fields
<1> HIDE DEF m
<1>13. PICK v : /\ kanta' = [kanta EXCEPT ![i] = v]
                /\ Fields(v, FALSE, k.readonly, 0, FALSE, v.state, v.pending, k.flush_failed, k.task, k.orphans)
                /\ v.pending = k.pending \/ "leftover" \in mishaps'
  <2>1. CASE kanta' = [kanta EXCEPT ![i] = l]
    <3>1. Fields(l, FALSE, k.readonly, 0, FALSE, l.state, l.pending, k.flush_failed, k.task, k.orphans)
          /\ l.pending = k.pending
      BY <1>6 DEF Fields
    <3>2. QED
      BY <2>1, <3>1
  <2>2. CASE kanta' = [kanta EXCEPT ![i] = m] /\ "leftover" \in mishaps'
    <3>1. Fields(m, FALSE, k.readonly, 0, FALSE, m.state, m.pending, k.flush_failed, k.task, k.orphans)
      BY <1>12 DEF Fields
    <3>2. QED
      BY <2>2, <3>1
  <2>3. QED
    BY <1>7, <2>1, <2>2
<1>14. KantaType'
       /\ Becomes(i, FALSE, k.readonly, 0, FALSE, v.state, v.pending, k.flush_failed, k.task, k.orphans)
  BY <1>1, <1>4, <1>13, Becoming DEF OpeningType
<1>15. v.state \in Nat /\ v.pending \in Seq(Change)
  BY <1>13 DEF Fields, Attributes
<1>16. OpenType'
  <2> DEFINE c == [open[o] EXCEPT !.pc = "unlinking", !.alone = Alone(i)]
  <2>1. open[o] \in OpenCall /\ i # Nobody
    BY <1>1, Serves, OpeningAssumption DEF BootstrapFails, At
  <2>2. open' = [open EXCEPT ![o] = c]
    BY DEF BootstrapFails, OpeningType, OpenType
  <2>3. Alone(i) \in BOOLEAN
    BY DEF Alone
  <2>4. c \in OpenCall /\ c.pc = "unlinking" /\ c.of = i
    BY <2>1, <2>3 DEF OpenCall, Steps
  <2> HIDE DEF c
  <2>5. QED
    BY <1>2, <2>1, <2>2, <2>4, OpenAssigned DEF OpeningType, OpenType
<1>17. OpeningType'
  BY <1>4, <1>14, <1>16 DEF OpeningType
<1>18. QED
  BY <1>1, <1>13, <1>14, <1>15, <1>17

(* The opened instance and close() *)
LEMMA CommitEffect ==
  ASSUME OpeningType, NEW i \in Instances, Commit(i)
  PROVE  LET k == kanta[i] IN
         /\ OpeningType' /\ last' = last + 1
         /\ Becomes(i, k.opened, k.readonly, k.fd, k.writable, last',
                    Append(k.pending, [from |-> k.state, to |-> last']), k.flush_failed, k.task, k.orphans)
<1> DEFINE k == kanta[i]
           n == last + 1
           q == Append(k.pending, [from |-> k.state, to |-> n])
           m == Queued(k, n)
<1>1. k \in Attributes /\ k.fd \in 0 .. Len(files)
  BY DEF OpeningType, KantaType
<1>2. files' = files /\ path' = path /\ last' = n /\ closing' = closing /\ open' = open
      /\ kanta' = [kanta EXCEPT ![i] = m]
  BY DEF Commit
<1>3. n \in Nat
  BY DEF OpeningType, FilesType
<1>4. FilesType' /\ Len(files) \in Nat /\ Len(files') \in Nat /\ Len(files) <= Len(files')
  BY <1>2, <1>3, FilesStay DEF OpeningType
<1> HIDE DEF n
<1>5. Fields(m, k.opened, k.readonly, k.fd, k.writable, n, q, k.flush_failed, k.task, k.orphans)
  BY <1>1, <1>3, QueuedFields
<1> HIDE DEF m, q
<1>6. KantaType' /\ Becomes(i, k.opened, k.readonly, k.fd, k.writable, n, q, k.flush_failed, k.task, k.orphans)
  BY <1>1, <1>2, <1>4, <1>5, Becoming DEF OpeningType
<1>7. OpenType'
  BY <1>2 DEF OpeningType, OpenType
<1>8. OpeningType'
  BY <1>4, <1>6, <1>7 DEF OpeningType
<1>9. last' = last + 1
  BY <1>2 DEF n
<1>10. QED
  BY <1>2, <1>6, <1>8, <1>9 DEF q

LEMMA FlushEffect ==
  ASSUME OpeningType, NEW i \in Instances, Flush(i)
  PROVE  LET k == kanta[i] IN
         /\ OpeningType' /\ k.fd \in DOMAIN files
         /\ Len(files') = Len(files) /\ files'[k.fd] = files[k.fd] \o k.pending
         /\ \A m \in DOMAIN files : m # k.fd => files'[m] = files[m]
         /\ Becomes(i, k.opened, k.readonly, k.fd, k.writable, k.state, <<>>, k.flush_failed, k.task, k.orphans)
<1> DEFINE k == kanta[i]
           log == files[k.fd] \o k.pending
           l == [k EXCEPT !.pending = <<>>]
<1>1. k \in Attributes /\ k.fd \in 0 .. Len(files)
  BY DEF OpeningType, KantaType
<1>2. path' = path /\ last' = last /\ closing' = closing /\ open' = open /\ k.fd # 0
      /\ kanta' = [kanta EXCEPT ![i] = l] /\ files' = [files EXCEPT ![k.fd] = log]
  BY <1>1 DEF Flush, bounds, OpeningType, KantaType, FilesType
<1>3. Len(files) \in Nat /\ files \in Seq(Seq(Change)) /\ DOMAIN files = 1 .. Len(files)
  BY DEF OpeningType, FilesType
<1>4. k.fd \in 1 .. Len(files)
  <2>1. k.fd \in 0 .. Len(files) /\ k.fd # 0 /\ Len(files) \in Nat
    BY <1>1, <1>2, <1>3
  <2> HIDE DEF k
  <2>2. QED
    BY <2>1
<1>5. log \in Seq(Change)
  <2>1. files[k.fd] \in Seq(Change) /\ k.pending \in Seq(Change)
    BY <1>1, <1>3, <1>4 DEF Attributes
  <2>2. QED
    BY <2>1
<1>6. last' \in Nat
  BY <1>2 DEF OpeningType, FilesType
<1> HIDE DEF log
<1>7. FilesType' /\ Len(files') = Len(files) /\ Len(files) <= Len(files')
      /\ files'[k.fd] = log /\ \A n \in DOMAIN files : n # k.fd => files'[n] = files[n]
  BY <1>2, <1>4, <1>5, <1>6, FileWritten DEF OpeningType
<1>8. <<>> \in Seq(Change)
  OBVIOUS
<1>9. Fields(l, k.opened, k.readonly, k.fd, k.writable, k.state, <<>>, k.flush_failed, k.task, k.orphans)
  BY <1>1, <1>8, Assign
<1> HIDE DEF l
<1>10. KantaType' /\ Becomes(i, k.opened, k.readonly, k.fd, k.writable, k.state, <<>>, k.flush_failed, k.task, k.orphans)
  BY <1>1, <1>2, <1>3, <1>7, <1>9, Becoming DEF OpeningType
<1>11. OpenType'
  BY <1>2 DEF OpeningType, OpenType
<1>12. OpeningType'
  BY <1>7, <1>10, <1>11 DEF OpeningType
<1>13. QED
  BY <1>3, <1>4, <1>7, <1>10, <1>12 DEF log

(* What a flush had listed is a part of the queue, from its beginning.     *)
LEMMA BatchType ==
  ASSUME NEW k \in Attributes, NEW batch \in Batches(k)
  PROVE  /\ batch \in Seq(Change)
         /\ \E n \in 0 .. Len(k.pending) : batch = SubSeq(k.pending, 1, n) /\ (k.task # "live" => n = 0)
<1>1. k.pending \in Seq(Change) /\ Len(k.pending) \in Nat
  BY DEF Attributes
<1>2. PICK n \in IF k.task = "live" THEN 0 .. Len(k.pending) ELSE {0} : batch = SubSeq(k.pending, 1, n)
  BY DEF Batches
<1>3. n \in 0 .. Len(k.pending) /\ (k.task # "live" => n = 0)
  BY <1>1, <1>2
<1>4. SubSeq(k.pending, 1, n) \in Seq(Change)
  BY <1>1, <1>3
<1>5. QED
  BY <1>2, <1>3, <1>4

LEMMA FlushesOverlapEffect ==
  ASSUME OpeningType, NEW i \in Instances, FlushesOverlap(i)
  PROVE  LET k == kanta[i] IN
         /\ OpeningType' /\ Len(files') = Len(files) /\ k.opened /\ ~k.readonly /\ "flushes" \in mishaps'
         /\ \A m \in DOMAIN files : m # k.fd => files'[m] = files[m]
         /\ \E pending \in Seq(Change), task \in {"none", "live", "done", "error"}, orphans \in Nat :
              /\ k.orphans = 0 => orphans = 0 /\ (task = k.task \/ (k.task = "live" /\ task = "error"))
              /\ Becomes(i, k.opened, k.readonly, k.fd, k.writable, k.state, pending, k.flush_failed, task, orphans)
<1> DEFINE k == kanta[i]
           queued == Len(k.pending)
<1>1. k \in Attributes /\ k.fd \in 0 .. Len(files) /\ last \in Nat
  BY DEF OpeningType, KantaType, FilesType
<1>2. k.pending \in Seq(Change) /\ queued \in Nat
  BY <1>1 DEF Attributes
<1>3. path' = path /\ last' = last /\ closing' = closing /\ open' = open /\ k.opened /\ ~k.readonly
      /\ "flushes" \in mishaps'
  BY DEF FlushesOverlap, Flushing, Misuse, Notes
<1>4. PICK m \in 1 .. queued, n \in 1 .. queued, l \in {k} \cup OneLoopEnds(k, "error") :
        /\ files' = Written(k, SubSeq(k.pending, 1, m) \o SubSeq(k.pending, 1, n))
        /\ kanta' = [kanta EXCEPT ![i] = [l EXCEPT !.pending = SubSeq(l.pending, m + n + 1, queued)]]
  BY DEF FlushesOverlap
<1> DEFINE written == SubSeq(k.pending, 1, m) \o SubSeq(k.pending, 1, n)
           kept == SubSeq(l.pending, m + n + 1, queued)
           v == [l EXCEPT !.pending = kept]
<1>5. SubSeq(k.pending, 1, m) \in Seq(Change) /\ SubSeq(k.pending, 1, n) \in Seq(Change)
  BY <1>2
<1>6. written \in Seq(Change)
  BY <1>5
<1>7. files' = Written(kanta[i], written)
  BY <1>4
<1> HIDE DEF written
<1>8. /\ FilesType' /\ Len(files) \in Nat /\ Len(files') = Len(files) /\ Len(files) <= Len(files')
      /\ \A p \in DOMAIN files :
           files'[p] = IF p = kanta[i].fd /\ kanta[i].writable THEN files[p] \o written ELSE files[p]
  BY <1>1, <1>3, <1>6, <1>7, WrittenType DEF OpeningType
<1>9. /\ l \in Attributes
      /\ \A f \in {"opened", "readonly", "fd", "writable", "state", "pending", "flush_failed"} : l[f] = k[f]
      /\ k.orphans = 0 => l.orphans = 0 /\ (l.task = k.task \/ (k.task = "live" /\ l.task = "error"))
  BY <1>1, <1>4, LoopEndType
<1>10. kept \in Seq(Change)
  BY <1>2, <1>9
<1> HIDE DEF kept
<1>11. Fields(v, l.opened, l.readonly, l.fd, l.writable, l.state, kept, l.flush_failed, l.task, l.orphans)
  BY <1>9, <1>10, Assign
<1>12. kanta' = [kanta EXCEPT ![i] = v]
  BY <1>4 DEF kept
<1> HIDE DEF v
<1>13. Fields(v, k.opened, k.readonly, k.fd, k.writable, k.state, kept, k.flush_failed, l.task, l.orphans)
  BY <1>9, <1>11 DEF Fields
<1>14. k.fd \in 0 .. Len(files') /\ Len(files') \in Nat
  BY <1>1, <1>8
<1>15. KantaType' /\ Becomes(i, k.opened, k.readonly, k.fd, k.writable, k.state, kept, k.flush_failed, l.task, l.orphans)
  BY <1>8, <1>12, <1>13, <1>14, Becoming DEF OpeningType
<1>16. OpeningType'
  BY <1>3, <1>8, <1>15 DEF OpeningType, OpenType
<1>17. l.task \in {"none", "live", "done", "error"} /\ l.orphans \in Nat
  BY <1>9 DEF Attributes
<1>18. QED
  BY <1>3, <1>8, <1>9, <1>10, <1>15, <1>16, <1>17

LEMMA FlushFailsEffect ==
  ASSUME OpeningType, NEW i \in Instances, FlushFails(i)
  PROVE  LET k == kanta[i] IN
         /\ OpeningType' /\ k.opened /\ ~k.readonly
         /\ \E failed \in BOOLEAN, task \in {"none", "live", "done", "error"}, orphans \in Nat :
              /\ failed \/ k.fd = 0
              /\ k.orphans = 0 => orphans = 0 /\ (task = k.task \/ (k.task = "live" /\ task = "done"))
              /\ Becomes(i, k.opened, k.readonly, k.fd, k.writable, k.state, k.pending, failed, task, orphans)
<1> DEFINE k == kanta[i]
<1>1. k \in Attributes /\ k.fd \in 0 .. Len(files)
  BY DEF OpeningType, KantaType
<1>2. files' = files /\ path' = path /\ last' = last /\ closing' = closing /\ open' = open
      /\ k.opened /\ ~k.readonly
  BY DEF FlushFails, Flushing
<1>3. PICK failed \in BOOLEAN, l \in OneLoopEnds(k, "done") \cup {k} :
        Refused(i, failed) /\ kanta' = [kanta EXCEPT ![i] = [l EXCEPT !.flush_failed = failed]]
  BY DEF FlushFails
<1>4. failed \/ k.fd = 0
  BY <1>3 DEF Refused
<1>5. FilesType' /\ Len(files) \in Nat /\ Len(files') \in Nat /\ Len(files) <= Len(files')
  BY <1>2, FilesStay DEF OpeningType, FilesType
<1>6. /\ l \in Attributes
      /\ \A f \in {"opened", "readonly", "fd", "writable", "state", "pending", "flush_failed"} : l[f] = k[f]
      /\ k.orphans = 0 => l.orphans = 0 /\ (l.task = k.task \/ (k.task = "live" /\ l.task = "done"))
  BY <1>1, <1>3, LoopEndType
<1> DEFINE m == [l EXCEPT !.flush_failed = failed]
<1>7. Fields(m, l.opened, l.readonly, l.fd, l.writable, l.state, l.pending, failed, l.task, l.orphans)
  BY <1>6, Assign
<1>8. Fields(m, k.opened, k.readonly, k.fd, k.writable, k.state, k.pending, failed, l.task, l.orphans)
  BY <1>6, <1>7 DEF Fields
<1>9. kanta' = [kanta EXCEPT ![i] = m]
  BY <1>3
<1> HIDE DEF m
<1>10. KantaType'
       /\ Becomes(i, k.opened, k.readonly, k.fd, k.writable, k.state, k.pending, failed, l.task, l.orphans)
  <2>1. k.fd \in 0 .. Len(files')
    BY <1>1, <1>2
  <2>2. QED
    BY <1>5, <1>8, <1>9, <2>1, Becoming DEF OpeningType
<1>11. l.task \in {"none", "live", "done", "error"} /\ l.orphans \in Nat
  BY <1>6 DEF Attributes
<1>12. OpeningType'
  BY <1>2, <1>5, <1>10 DEF OpeningType, OpenType
<1>13. QED
  BY <1>2, <1>4, <1>6, <1>10, <1>11, <1>12

LEMMA LoopDiesEffect ==
  ASSUME OpeningType, NEW i \in Instances, LoopDies(i)
  PROVE  LET k == kanta[i] IN
         /\ OpeningType' /\ (~k.opened \/ k.readonly) /\ (k.task = "live" \/ k.orphans # 0)
         /\ \A j \in Instances : j # i => kanta'[j] = kanta[j]
<1> DEFINE k == kanta[i]
<1>1. k \in Attributes /\ k.fd \in 0 .. Len(files)
  BY DEF OpeningType, KantaType
<1>2. files' = files /\ path' = path /\ last' = last /\ closing' = closing /\ open' = open
      /\ (~k.opened \/ k.readonly)
  BY DEF LoopDies, bounds
<1>3. PICK l \in OneLoopEnds(k, "error") : kanta' = [kanta EXCEPT ![i] = l]
  BY DEF LoopDies
<1>4. FilesType' /\ Len(files) \in Nat /\ Len(files') \in Nat /\ Len(files) <= Len(files')
  BY <1>2, FilesStay DEF OpeningType, FilesType
<1>5. /\ l \in Attributes
      /\ \A f \in {"opened", "readonly", "fd", "writable", "state", "pending", "flush_failed"} : l[f] = k[f]
      /\ k.task = "live" \/ k.orphans # 0
  BY <1>1, LoopEndType
<1>6. l.fd \in 0 .. Len(files')
  BY <1>1, <1>2, <1>5
<1>7. KantaType' /\ \A j \in Instances : j # i => kanta'[j] = kanta[j]
  BY <1>3, <1>4, <1>5, <1>6, KantaAssigned DEF OpeningType, KantaType
<1>8. OpeningType'
  BY <1>2, <1>4, <1>7 DEF OpeningType, OpenType
<1>9. QED
  BY <1>2, <1>5, <1>7, <1>8

LEMMA CloseBeginType ==
  ASSUME OpeningType, NEW i \in Instances, CloseBegin(i)
  PROVE  OpeningType'
BY DEF CloseBegin, OpeningType, FilesType, KantaType, OpenType

LEMMA CloseEndEffect ==
  ASSUME OpeningType, NEW i \in Instances, CloseEnd(i)
  PROVE  LET k == kanta[i] IN
         /\ OpeningType' /\ Len(files') = Len(files)
         /\ Flushing(i) => /\ k.fd \in DOMAIN files /\ \A m \in DOMAIN files : m # k.fd => files'[m] = files[m]
                           /\ \E batch \in Batches(k) : files'[k.fd] \in {files[k.fd] \o (batch \o k.pending),
                                                                          files[k.fd] \o (k.pending \o batch)}
         /\ ~Flushing(i) => files' = files
         /\ Becomes(i, FALSE, k.readonly, 0, FALSE, k.state, IF Flushing(i) THEN <<>> ELSE k.pending, k.flush_failed,
                    "none", k.orphans)
<1> DEFINE k == kanta[i]
           kept == IF Flushing(i) THEN <<>> ELSE k.pending
           r == Released(k)
           u == [r EXCEPT !.opened = FALSE]
           v == [u EXCEPT !.task = "none"]
           w == [v EXCEPT !.pending = kept]
<1>1. k \in Attributes /\ k.fd \in 0 .. Len(files)
  BY DEF OpeningType, KantaType
<1>2. path' = path /\ last' = last /\ closing' \subseteq Instances /\ open' = open
      /\ (Flushing(i) => k.fd # 0 /\ k.writable)
  BY DEF CloseEnd, bounds, OpeningType, OpenType
<1>3. /\ Flushing(i) => \E batch \in Batches(k) :
                          files' \in {Written(k, batch \o k.pending), Written(k, k.pending \o batch)}
      /\ ~Flushing(i) => files' = files
  BY DEF CloseEnd
<1>4. kanta' = [kanta EXCEPT ![i] = w]
  <2>1. kanta' = [kanta EXCEPT ![i] = [Released(k) EXCEPT !.opened = FALSE, !.task = "none", !.pending = kept]]
    BY DEF CloseEnd
  <2>2. QED
    BY <2>1
<1>5. Len(files) \in Nat /\ files \in Seq(Seq(Change)) /\ DOMAIN files = 1 .. Len(files) /\ last' \in Nat
  BY <1>2 DEF OpeningType, FilesType
<1>7. k.pending \in Seq(Change) /\ kept \in Seq(Change)
  BY <1>1 DEF Attributes
<1> HIDE DEF kept
<1>9. /\ FilesType' /\ Len(files') = Len(files) /\ Len(files) <= Len(files')
      /\ Flushing(i) => /\ k.fd \in DOMAIN files /\ \A m \in DOMAIN files : m # k.fd => files'[m] = files[m]
                        /\ \E batch \in Batches(k) : files'[k.fd] \in {files[k.fd] \o (batch \o k.pending),
                                                                       files[k.fd] \o (k.pending \o batch)}
  <2>1. CASE Flushing(i)
    <3>1. k.fd \in DOMAIN files
      <4>1. k.fd # 0
        BY <1>2, <2>1
      <4>2. k.fd \in 1 .. Len(files)
        <5> HIDE DEF k
        <5>1. QED
          BY <1>1, <1>5, <4>1
      <4>3. QED
        BY <1>5, <4>2
    <3> PICK batch \in Batches(k) : files' \in {Written(k, batch \o k.pending), Written(k, k.pending \o batch)}
      BY <1>3, <2>1
    <3>2. PICK records \in {batch \o k.pending, k.pending \o batch} : files' = Written(k, records)
      OBVIOUS
    <3>3. records \in Seq(Change)
      <4>1. batch \in Seq(Change)
        BY <1>1, BatchType
      <4> HIDE DEF k
      <4>2. batch \o k.pending \in Seq(Change) /\ k.pending \o batch \in Seq(Change)
        BY <1>7, <4>1
      <4>3. QED
        BY <4>2
    <3>4. /\ FilesType' /\ Len(files') = Len(files) /\ Len(files) <= Len(files')
          /\ \A m \in DOMAIN files :
               files'[m] = IF m = kanta[i].fd /\ kanta[i].writable THEN files[m] \o records ELSE files[m]
      BY <1>2, <1>5, <3>2, <3>3, WrittenType DEF OpeningType
    <3>5. files'[k.fd] = files[k.fd] \o records /\ \A m \in DOMAIN files : m # k.fd => files'[m] = files[m]
      BY <1>2, <2>1, <3>1, <3>4
    <3>6. QED
      BY <2>1, <3>1, <3>2, <3>4, <3>5
  <2>2. CASE ~Flushing(i)
    BY <1>2, <1>3, <1>5, <2>2, FilesStay DEF OpeningType
  <2>3. QED
    BY <2>1, <2>2
<1>10. Fields(r, k.opened, k.readonly, 0, FALSE, k.state, k.pending, k.flush_failed, k.task, k.orphans)
  BY <1>1, ReleasedFields
<1> HIDE DEF r
<1>11. Fields(u, FALSE, r.readonly, r.fd, r.writable, r.state, r.pending, r.flush_failed, r.task, r.orphans)
  <2>1. r \in Attributes
    BY <1>10 DEF Fields
  <2>2. QED
    BY <2>1, Assign
<1> HIDE DEF u
<1>12. Fields(v, u.opened, u.readonly, u.fd, u.writable, u.state, u.pending, u.flush_failed, "none", u.orphans)
  <2>1. u \in Attributes
    BY <1>11 DEF Fields
  <2>2. QED
    BY <2>1, Assign
<1> HIDE DEF v
<1>13. Fields(w, v.opened, v.readonly, v.fd, v.writable, v.state, kept, v.flush_failed, v.task, v.orphans)
  <2>1. v \in Attributes
    BY <1>12 DEF Fields
  <2>2. QED
    BY <1>7, <2>1, Assign
<1> HIDE DEF w
<1>14. Fields(w, FALSE, k.readonly, 0, FALSE, k.state, kept, k.flush_failed, "none", k.orphans)
  BY <1>10, <1>11, <1>12, <1>13 DEF Fields
<1>15. 0 \in 0 .. Len(files') /\ Len(files') \in Nat
  BY <1>5, <1>9
<1>16. KantaType' /\ Becomes(i, FALSE, k.readonly, 0, FALSE, k.state, kept, k.flush_failed, "none", k.orphans)
  BY <1>4, <1>5, <1>9, <1>14, <1>15, Becoming DEF OpeningType
<1>17. OpeningType'
  BY <1>2, <1>9, <1>16 DEF OpeningType, OpenType
<1>18. QED
  BY <1>3, <1>9, <1>16, <1>17 DEF kept

LEMMA CloseRaisesEffect ==
  ASSUME OpeningType, NEW i \in Instances, CloseRaises(i)
  PROVE  LET k == kanta[i] IN
         /\ OpeningType' /\ Len(files') = Len(files)
         /\ \/ files' = files
            \/ /\ Flushing(i) /\ k.fd \in DOMAIN files /\ k.writable
               /\ \A m \in DOMAIN files : m # k.fd => files'[m] = files[m]
               /\ \E batch \in Batches(k) : files'[k.fd] = files[k.fd] \o batch
         /\ \E failed \in BOOLEAN, task \in {"none", "live", "done", "error"} :
              /\ \/ /\ k.task = "error" \/ (~k.readonly /\ ~k.opened)
                    /\ failed = k.flush_failed /\ task = IF k.task = "live" THEN "error" ELSE k.task
                 \/ k.opened /\ ~k.readonly /\ (failed \/ k.fd = 0)
              /\ Becomes(i, k.opened, k.readonly, k.fd, k.writable, k.state, k.pending, failed, task, k.orphans)
<1> DEFINE k == kanta[i]
<1>1. k \in Attributes /\ k.fd \in 0 .. Len(files)
  BY DEF OpeningType, KantaType
<1>2. path' = path /\ last' = last /\ closing' \subseteq Instances /\ open' = open /\ last' \in Nat
      /\ (files' = files \/ (Flushing(i) /\ \E batch \in Batches(k) : files' = Written(k, batch)))
  BY DEF CloseRaises, OpeningType, OpenType, FilesType
<1>3. /\ FilesType' /\ Len(files) \in Nat /\ Len(files') = Len(files) /\ Len(files) <= Len(files')
      /\ \/ files' = files
         \/ /\ Flushing(i) /\ k.fd \in DOMAIN files /\ k.writable
            /\ \A m \in DOMAIN files : m # k.fd => files'[m] = files[m]
            /\ \E batch \in Batches(k) : files'[k.fd] = files[k.fd] \o batch
  <2>1. CASE files' = files
    BY <1>2, <2>1, FilesStay DEF OpeningType
  <2>2. CASE files' # files
    <3>1. PICK batch \in Batches(k) : files' = Written(k, batch)
      BY <1>2, <2>2
    <3>2. batch \in Seq(Change)
      BY <1>1, BatchType
    <3>3. /\ FilesType' /\ Len(files) \in Nat /\ Len(files') = Len(files) /\ Len(files) <= Len(files')
          /\ \A m \in DOMAIN files :
               files'[m] = IF m = kanta[i].fd /\ kanta[i].writable THEN files[m] \o batch ELSE files[m]
      BY <1>2, <3>1, <3>2, WrittenType DEF OpeningType
    <3>4. k.fd # 0 /\ k.writable
      BY <2>2, <3>1 DEF Written
    <3>5. k.fd \in DOMAIN files
      <4>1. Len(files) \in Nat /\ DOMAIN files = 1 .. Len(files)
        BY DEF OpeningType, FilesType
      <4>2. k.fd \in 1 .. Len(files)
        <5> HIDE DEF k
        <5>1. QED
          BY <1>1, <3>4, <4>1
      <4>3. QED
        BY <4>1, <4>2
    <3>6. files'[k.fd] = files[k.fd] \o batch /\ \A m \in DOMAIN files : m # k.fd => files'[m] = files[m]
      BY <3>3, <3>4, <3>5
    <3>7. QED
      BY <1>2, <2>2, <3>3, <3>4, <3>5, <3>6
  <2>3. QED
    BY <2>1, <2>2
<1>4. PICK failed \in BOOLEAN, task \in {"none", "live", "done", "error"} :
        /\ kanta' = [kanta EXCEPT ![i] = [[k EXCEPT !.flush_failed = failed] EXCEPT !.task = task]]
        /\ \/ /\ k.task = "error" \/ (~k.readonly /\ ~k.opened)
              /\ failed = k.flush_failed /\ task = IF k.task = "live" THEN "error" ELSE k.task
           \/ k.opened /\ ~k.readonly /\ (failed \/ k.fd = 0)
  <2>1. CASE /\ k.task = "error" \/ ~(k.readonly \/ k.opened)
             /\ kanta' = [kanta EXCEPT ![i].task = IF k.task = "live" THEN "error" ELSE @]
    <3> DEFINE t == IF k.task = "live" THEN "error" ELSE k.task
    <3>1. k.flush_failed \in BOOLEAN /\ t \in {"none", "live", "done", "error"}
          /\ [k EXCEPT !.flush_failed = k.flush_failed] = k
      BY <1>1 DEF Attributes
    <3>2. kanta' = [kanta EXCEPT ![i] = [k EXCEPT !.task = t]]
      BY <2>1
    <3>3. QED
      BY <2>1, <3>1, <3>2
  <2>2. ASSUME NEW broken \in BOOLEAN, Flushing(i), Refused(i, broken),
               kanta' = [kanta EXCEPT ![i].flush_failed = broken,
                                      ![i].task = IF @ = "live" THEN "error" ELSE "none"]
        PROVE  \E failed \in BOOLEAN, task \in {"none", "live", "done", "error"} :
                 /\ kanta' = [kanta EXCEPT ![i] = [[k EXCEPT !.flush_failed = failed] EXCEPT !.task = task]]
                 /\ \/ /\ k.task = "error" \/ (~k.readonly /\ ~k.opened)
                       /\ failed = k.flush_failed /\ task = IF k.task = "live" THEN "error" ELSE k.task
                    \/ k.opened /\ ~k.readonly /\ (failed \/ k.fd = 0)
    <3> DEFINE t == IF k.task = "live" THEN "error" ELSE "none"
    <3>1. t \in {"none", "live", "done", "error"}
      OBVIOUS
    <3>2. k.opened /\ ~k.readonly /\ (broken \/ k.fd = 0)
      BY <2>2 DEF Flushing, Refused
    <3>3. kanta' = [kanta EXCEPT ![i] = [[k EXCEPT !.flush_failed = broken] EXCEPT !.task = t]]
      BY <2>2, <1>1 DEF OpeningType, KantaType, Attributes
    <3>4. QED
      BY <3>1, <3>2, <3>3
  <2>3. QED
    BY <2>1, <2>2 DEF CloseRaises
<1> DEFINE l == [k EXCEPT !.flush_failed = failed]
           m == [l EXCEPT !.task = task]
<1>5. Fields(l, k.opened, k.readonly, k.fd, k.writable, k.state, k.pending, failed, k.task, k.orphans)
  BY <1>1, Assign
<1>6. kanta' = [kanta EXCEPT ![i] = m]
  BY <1>4
<1> HIDE DEF l
<1>7. Fields(m, l.opened, l.readonly, l.fd, l.writable, l.state, l.pending, l.flush_failed, task, l.orphans)
  <2>1. l \in Attributes
    BY <1>5 DEF Fields
  <2>2. QED
    BY <1>4, <2>1, Assign
<1> HIDE DEF m
<1>8. Fields(m, k.opened, k.readonly, k.fd, k.writable, k.state, k.pending, failed, task, k.orphans)
  BY <1>5, <1>7 DEF Fields
<1>9. KantaType'
      /\ Becomes(i, k.opened, k.readonly, k.fd, k.writable, k.state, k.pending, failed, task, k.orphans)
  <2>1. k.fd \in 0 .. Len(files') /\ Len(files') \in Nat
    BY <1>1, <1>3
  <2>2. QED
    BY <1>3, <1>6, <1>8, <2>1, Becoming DEF OpeningType
<1>10. OpeningType'
  BY <1>2, <1>3, <1>9 DEF OpeningType, OpenType
<1>11. QED
  BY <1>3, <1>4, <1>9, <1>10

LEMMA CrashType ==
  ASSUME OpeningType, NEW i \in Instances, Crash(i)
  PROVE  /\ OpeningType' /\ kanta'[i] = Fresh
         /\ \A j \in Instances : j # i => kanta'[j] = kanta[j]
<1>1. files' = files /\ path' = path /\ last' = last /\ closing' \subseteq Instances
      /\ kanta' = [kanta EXCEPT ![i] = Fresh]
      /\ open' = [o \in Openers |-> IF open[o].of = i THEN NoCall ELSE open[o]]
  BY DEF Crash, OpeningType, OpenType
<1>2. FilesType' /\ Len(files) \in Nat /\ Len(files') \in Nat /\ Len(files) <= Len(files')
  BY <1>1, FilesStay DEF OpeningType, FilesType
<1>3. Fresh \in Attributes /\ Fresh.fd \in 0 .. Len(files')
  BY <1>2, FreshType
<1>4. KantaType'
  BY <1>1, <1>2, <1>3, KantaAssigned DEF OpeningType
<1>5. OpenType'
  BY <1>1, NoCallType DEF OpeningType, OpenType
<1>6. OpeningType'
  BY <1>2, <1>4, <1>5 DEF OpeningType
<1>7. QED
  BY <1>1, <1>6 DEF OpeningType, KantaType

LEMMA TypeKept == OpeningType /\ Pending /\ [Next]_vars => OpeningType'
<1> SUFFICES ASSUME OpeningType, Pending, [Next]_vars PROVE OpeningType'
  OBVIOUS
<1>1. ASSUME NEW o \in Openers, NEW i \in Instances, NEW mode \in Modes, Call(o, i, mode) PROVE OpeningType'
  BY <1>1, CallEffect
<1>2. ASSUME NEW o \in Openers,
             OpenFile(o) \/ ReadAgain(o) \/ LockAndRead(o) \/ OpenRefused(o) \/ Unlink(o) \/ Cancel(o)
      PROVE  OpeningType'
  BY <1>2, OpenOnlyType, OpenFileEffect, LockAndReadEffect
<1>3. ASSUME NEW o \in Openers,
             RejectEmpty(o) \/ RejectEmptyReadonly(o) \/ Proceed(o) \/ LoadRaises(o) \/ LoadInvalid(o) \/ Load(o)
      PROVE  OpeningType'
  BY <1>3, OpenOnlyType, RejectEffect, ProceedEffect, LoadInvalidEffect, LoadEffect
<1>4. ASSUME NEW o \in Openers,
             LoadMigrated(o) \/ RecordMigration(o) \/ RecordingRaises(o) \/ Bootstrap(o) \/ BootstrapFails(o)
      PROVE  OpeningType'
  BY <1>4, LoadMigratedEffect, RecordMigrationEffect, RecordingRaisesEffect, BootstrapEffect, BootstrapFailsEffect
<1>5. ASSUME NEW i \in Instances,
             \/ Commit(i) \/ Flush(i) \/ FlushesOverlap(i) \/ Reopen(i) \/ FlushFails(i) \/ LoopDies(i)
      PROVE  OpeningType'
  BY <1>5, CommitEffect, FlushEffect, FlushesOverlapEffect, ReopenEffect, FlushFailsEffect, LoopDiesEffect
<1>6. ASSUME NEW i \in Instances, CloseBegin(i) \/ CloseEnd(i) \/ CloseRaises(i) \/ Crash(i)
      PROVE  OpeningType'
  BY <1>6, CloseBeginType, CloseEndEffect, CloseRaisesEffect, CrashType
<1>7. CASE UNCHANGED vars
  BY <1>7 DEF vars, bounds, OpeningType, FilesType, KantaType, OpenType
<1>8. QED
  BY <1>1, <1>2, <1>3, <1>4, <1>5, <1>6, <1>7 DEF Next

-----------------------------------------------------------------------------
(* Files that are opened and not locked yet *)

(* No call opens a file, and one that has opened a file awaits the lock.   *)
Carried ==
  \A p \in Openers : \/ open'[p].fd = 0
                     \/ open'[p].fd = open[p].fd /\ (open'[p].pc = open[p].pc \/ open'[p].pc = "stray")

LEMMA NothingCarried == NoCall.fd = 0
BY DEF NoCall

LEMMA CarriedByCall ==
  ASSUME OpenType, NEW o \in Openers,
         \/ Ends(o) \/ UNCHANGED open
         \/ \E pc : Step(o, pc) /\ (pc = "stray" \/ open[o].fd = 0)
         \/ open[o].fd = 0 /\ \E alone : open' = [open EXCEPT ![o].pc = "unlinking", ![o].alone = alone]
         \/ \E n : Reads(o, n)
  PROVE  Carried
<1>1. DOMAIN open = Openers /\ \A p \in Openers : open[p] \in OpenCall
  BY DEF OpenType
<1>2. CASE Ends(o)
  BY <1>1, <1>2, NothingCarried DEF Ends, Carried
<1>3. CASE UNCHANGED open
  BY <1>3 DEF Carried
<1>4. ASSUME NEW pc, Step(o, pc), pc = "stray" \/ open[o].fd = 0
      PROVE  Carried
  <2>1. \A p \in Openers : open'[p] = IF p = o THEN [open[o] EXCEPT !.pc = pc] ELSE open[p]
    BY <1>1, <1>4 DEF Step
  <2>2. open'[o].fd = open[o].fd /\ open'[o].pc = pc
    BY <1>1, <2>1 DEF OpenCall
  <2>3. QED
    BY <1>4, <2>1, <2>2 DEF Carried
<1>5. ASSUME open[o].fd = 0, NEW alone, open' = [open EXCEPT ![o].pc = "unlinking", ![o].alone = alone]
      PROVE  Carried
  <2>1. \A p \in Openers :
          open'[p] = IF p = o THEN [open[o] EXCEPT !.pc = "unlinking", !.alone = alone] ELSE open[p]
    BY <1>1, <1>5
  <2>2. open'[o].fd = 0
    BY <1>1, <1>5, <2>1 DEF OpenCall
  <2>3. QED
    BY <2>1, <2>2 DEF Carried
<1>6. ASSUME NEW n, Reads(o, n)
      PROVE  Carried
  <2> DEFINE content == IF n \in DOMAIN files THEN files[n] ELSE <<>>
             c == [open[o] EXCEPT !.pc = "read", !.fd = 0, !.content = content]
  <2>1. \A p \in Openers : open'[p] = IF p # o THEN [open[p] EXCEPT !.alone = FALSE]
                                      ELSE IF At(o, "stray") THEN NoCall ELSE c
    BY <1>6 DEF Reads
  <2> HIDE DEF content
  <2>2. c.fd = 0
    BY <1>1 DEF OpenCall
  <2> HIDE DEF c
  <2>3. ASSUME NEW p \in Openers, p # o
        PROVE  open'[p].fd = open[p].fd /\ open'[p].pc = open[p].pc
    BY <1>1, <2>1, <2>3 DEF OpenCall
  <2>4. open'[o].fd = 0
    BY <2>1, <2>2, NothingCarried
  <2>5. QED
    BY <2>3, <2>4 DEF Carried
<1>7. QED
  BY <1>2, <1>3, <1>4, <1>5, <1>6

LEMMA PendingCarried ==
  ASSUME Pending, Carried, Len(files) \in Nat, Len(files') \in Nat, Len(files) <= Len(files'), mishaps \subseteq mishaps',
         "unlinked" \notin mishaps' => path' = path \/ path = 0 \/ \A p \in Openers : open[p].fd # path
  PROVE  Pending'
<1> SUFFICES ASSUME NEW o \in Openers, open'[o].fd # 0
             PROVE  /\ open'[o].pc \in {"reading", "stray"} /\ open'[o].fd \in 1 .. Len(files')
                    /\ "unlinked" \notin mishaps' => open'[o].fd = path'
  BY DEF Pending
<1>1. open'[o].fd = open[o].fd /\ (open'[o].pc = open[o].pc \/ open'[o].pc = "stray")
  BY DEF Carried
<1>2. /\ open[o].pc \in {"reading", "stray"} /\ open[o].fd \in 1 .. Len(files)
      /\ "unlinked" \notin mishaps => open[o].fd = path
  BY <1>1 DEF Pending
<1>3. open'[o].fd \in 1 .. Len(files')
  BY <1>1, <1>2
<1>4. "unlinked" \notin mishaps' => path' = path
  BY <1>1, <1>2
<1>5. QED
  BY <1>1, <1>2, <1>3, <1>4

LEMMA PendingKept == OpeningType /\ Pending /\ [Next]_vars => Pending'
<1> SUFFICES ASSUME OpeningType, Pending, [Next]_vars PROVE Pending'
  OBVIOUS
<1>1. Len(files) \in Nat /\ OpenType
  BY DEF OpeningType, FilesType
<1>2. ASSUME NEW o \in Openers, NEW i \in Instances, NEW mode \in Modes, Call(o, i, mode) PROVE Pending'
  <2> DEFINE c == [NoCall EXCEPT !.pc = "reading", !.of = i, !.mode = mode, !.existed = (path # 0)]
  <2>1. open' = [open EXCEPT ![o] = c] /\ files' = files /\ path' = path /\ mishaps \subseteq mishaps'
    BY <1>2, NotesGrow DEF Call, Misuse
  <2>2. c.fd = 0
    BY DEF NoCall
  <2> HIDE DEF c
  <2>3. Carried
    BY <1>1, <2>1, <2>2 DEF Carried, OpenType
  <2>4. QED
    BY <1>1, <2>1, <2>3, PendingCarried
<1>3. ASSUME NEW o \in Openers, OpenFile(o) PROVE Pending'
  <2>1. /\ Len(files') \in Nat /\ Len(files) <= Len(files') /\ path' \in 1 .. Len(files')
        /\ path' = path \/ path = 0
        /\ \A p \in Openers : open'[p] = IF p = o THEN [open[p] EXCEPT !.fd = path'] ELSE open[p]
    BY <1>3, OpenFileEffect
  <2>2. mishaps' = mishaps /\ open[o].pc \in {"reading", "stray"} /\ open[o] \in OpenCall
    BY <1>1, <1>3 DEF OpenFile, OpenType
  <2>3. open'[o].fd = path' /\ open'[o].pc = open[o].pc
    BY <2>1, <2>2 DEF OpenCall
  <2>4. ASSUME NEW p \in Openers, p # o, open'[p].fd # 0
        PROVE  /\ open'[p].pc \in {"reading", "stray"} /\ open'[p].fd \in 1 .. Len(files')
               /\ "unlinked" \notin mishaps' => open'[p].fd = path'
    <3>1. open'[p] = open[p]
      BY <2>1, <2>4
    <3>2. /\ open[p].pc \in {"reading", "stray"} /\ open[p].fd \in 1 .. Len(files)
          /\ "unlinked" \notin mishaps => open[p].fd = path
      BY <2>4, <3>1 DEF Pending
    <3>3. open'[p].fd \in 1 .. Len(files')
      BY <1>1, <2>1, <3>1, <3>2
    <3>4. QED
      BY <2>1, <2>2, <2>4, <3>1, <3>2, <3>3
  <2>5. QED
    BY <2>1, <2>2, <2>3, <2>4 DEF Pending
<1>4. ASSUME NEW o \in Openers,
             \/ ReadAgain(o) \/ LockAndRead(o) \/ OpenRefused(o) \/ Cancel(o) \/ RejectEmpty(o) \/ RejectEmptyReadonly(o)
             \/ Proceed(o) \/ LoadRaises(o) \/ LoadInvalid(o) \/ Load(o) \/ LoadMigrated(o) \/ RecordMigration(o)
             \/ RecordingRaises(o) \/ Bootstrap(o) \/ BootstrapFails(o)
      PROVE  Pending'
  <2>1. open[o].pc \notin {"reading", "stray"} => open[o].fd = 0
    BY DEF Pending
  <2>2. Carried
    <3>1. CASE ReadAgain(o) \/ LockAndRead(o)
      BY <1>1, <3>1, CarriedByCall DEF ReadAgain, LockAndRead, TakeFile
    <3>2. CASE OpenRefused(o) \/ RejectEmpty(o) \/ RejectEmptyReadonly(o)
      BY <1>1, <3>2, CarriedByCall DEF OpenRefused, RejectEmpty, RejectEmptyReadonly
    <3>3. CASE LoadRaises(o) \/ LoadInvalid(o) \/ Load(o) \/ RecordMigration(o) \/ RecordingRaises(o) \/ Bootstrap(o)
      BY <1>1, <3>3, CarriedByCall DEF LoadRaises, LoadInvalid, Load, RecordMigration, RecordingRaises, Bootstrap
    <3>4. CASE Cancel(o)
      BY <1>1, <3>4, CarriedByCall DEF Cancel
    <3>5. CASE Proceed(o) \/ LoadMigrated(o)
      <4>1. open[o].fd = 0
        BY <2>1, <3>5 DEF Proceed, LoadMigrated, At
      <4>2. \E pc : Step(o, pc)
        BY <3>5 DEF Proceed, LoadMigrated
      <4>3. QED
        BY <1>1, <4>1, <4>2, CarriedByCall
    <3>6. CASE BootstrapFails(o)
      <4>1. open[o].fd = 0
        BY <2>1, <3>6 DEF BootstrapFails, At
      <4>2. \E alone : open' = [open EXCEPT ![o].pc = "unlinking", ![o].alone = alone]
        BY <3>6 DEF BootstrapFails
      <4>3. QED
        BY <1>1, <4>1, <4>2, CarriedByCall
    <3>7. QED
      BY <1>4, <3>1, <3>2, <3>3, <3>4, <3>5, <3>6
  <2>3. Len(files') = Len(files)
    <3>1. CASE ReadAgain(o) \/ OpenRefused(o) \/ LoadRaises(o) \/ Cancel(o)
      BY <3>1, OpenOnlyType
    <3>2. CASE RecordMigration(o)
      BY <3>2, RecordMigrationEffect
    <3>3. CASE files' = files
      BY <3>3
    <3>4. QED
      BY <1>4, <3>1, <3>2, <3>3 DEF LockAndRead, TakeFile, RejectEmpty, RejectEmptyReadonly, Proceed, LoadInvalid, Load,
            LoadMigrated, RecordingRaises, Bootstrap, BootstrapFails
  <2>4. path' = path /\ mishaps \subseteq mishaps'
    BY <1>4, NotesGrow DEF ReadAgain, LockAndRead, TakeFile, OpenRefused, Cancel, RejectEmpty, RejectEmptyReadonly,
       Proceed, LoadRaises, LoadInvalid, Load, LoadMigrated, RecordMigration, RecordingRaises, Bootstrap, BootstrapFails
  <2>5. QED
    BY <1>1, <2>2, <2>3, <2>4, PendingCarried
<1>5. ASSUME NEW o \in Openers, Unlink(o) PROVE Pending'
  <2>1. Carried
    BY <1>1, <1>5, CarriedByCall DEF Unlink
  <2>2. files' = files /\ mishaps \subseteq mishaps'
    BY <1>5, NotesGrow DEF Unlink
  <2>3. "unlinked" \notin mishaps' => path = 0 \/ \A p \in Openers : open[p].fd # path
    BY <1>5 DEF Unlink, Notes
  <2>4. QED
    BY <1>1, <2>1, <2>2, <2>3, PendingCarried
<1>6. ASSUME NEW i \in Instances,
             \/ Commit(i) \/ Flush(i) \/ FlushesOverlap(i) \/ Reopen(i) \/ FlushFails(i) \/ LoopDies(i)
             \/ CloseBegin(i) \/ CloseEnd(i) \/ CloseRaises(i)
      PROVE  Pending'
  <2>1. open' = open /\ mishaps \subseteq mishaps'
    BY <1>6, NotesGrow DEF Commit, Flush, FlushesOverlap, Reopen, FlushFails, LoopDies, CloseBegin, CloseEnd,
       CloseRaises, Misuse
  <2>2. Len(files') \in Nat /\ Len(files) <= Len(files') /\ (path' = path \/ path = 0)
    <3>1. CASE Reopen(i)
      <4>1. Opened(TRUE) /\ last' = last
        BY <3>1 DEF Reopen, bounds
      <4>2. QED
        BY <4>1, OpenedType DEF OpeningType
    <3>2. CASE ~Reopen(i)
      <4>1. path' = path
        BY <1>6, <3>2 DEF Commit, Flush, FlushesOverlap, FlushFails, LoopDies, CloseBegin, CloseEnd, CloseRaises
      <4>2. Len(files') = Len(files)
        BY <1>6, <3>2, FlushEffect, FlushesOverlapEffect, CloseEndEffect, CloseRaisesEffect
           DEF Commit, FlushFails, LoopDies, CloseBegin
      <4>3. QED
        BY <1>1, <4>1, <4>2
    <3>3. QED
      BY <3>1, <3>2
  <2>3. Carried
    BY <2>1 DEF Carried
  <2>4. QED
    BY <1>1, <2>1, <2>2, <2>3, PendingCarried
<1>7. ASSUME NEW i \in Instances, Crash(i) PROVE Pending'
  <2>1. files' = files /\ path' = path /\ mishaps' = mishaps
        /\ open' = [o \in Openers |-> IF open[o].of = i THEN NoCall ELSE open[o]]
    BY <1>7 DEF Crash
  <2>2. Carried
    BY <2>1, NothingCarried DEF Carried
  <2>3. QED
    BY <1>1, <2>1, <2>2, PendingCarried
<1>8. CASE UNCHANGED vars
  BY <1>8 DEF vars, Pending
<1>9. QED
  BY <1>2, <1>3, <1>4, <1>5, <1>6, <1>7, <1>8 DEF Next

LEMMA TypesBegin == Init => OpeningType /\ Pending
BY FreshType, NoCallType, NothingCarried DEF Init, OpeningType, FilesType, KantaType, OpenType, Pending

(* LockedFile, as open(), flush() and close() use it, admits one writer to *)
(* the path, in whatever way opens fail, overlap or are cancelled; until a *)
(* failed bootstrap removes a path that another instance has opened since. *)
THEOREM OneWriterAlways == Spec => []OneWriter
<1>1. Init => OpeningType /\ Pending /\ IInv
  BY TypesBegin, InitHolds
<1>2. OpeningType /\ Pending /\ IInv /\ [Next]_vars => (OpeningType /\ Pending /\ IInv)'
  BY TypeKept, PendingKept, NextHolds
<1>3. IInv => OneWriter
  BY AtMostOne
<1>4. QED
  BY <1>1, <1>2, <1>3, PTL DEF Spec

-----------------------------------------------------------------------------
(* The life of an instance, as long as no calls of open() and close() of   *)
(* it overlap: at rest, or served by one call of open()                    *)

Tidy(k, m) ==
  /\ k.orphans = 0
  /\ ~k.opened \/ k.readonly => k.task = "none"
  /\ k.task = "none" \/ k.task = "live" \/ k.flush_failed \/ "flushes" \in m
  /\ k.opened => k.fd # 0 /\ (k.writable \/ k.readonly \/ "unlocked" \in m)

OwesNothing(k, m) ==
  k.task = "none" => k.pending = <<>> \/ k.flush_failed \/ "early" \in m \/ "leftover" \in m

Rest(k, closes, m) ==
  /\ Tidy(k, m) /\ (OwesNothing(k, m) \/ (k.opened /\ ~k.readonly /\ "cancelled" \in m))
  /\ closes => k.opened
  /\ ~k.opened => k.fd = 0 \/ "cancelled" \in m
  /\ k.opened /\ ~k.readonly /\ "cancelled" \notin m /\ "abandoned" \notin m =>
       k.task = "live" \/ k.flush_failed \/ "flushes" \in m

Serving(k, pc, mode, m) ==
  /\ Tidy(k, m) /\ (pc # "recording" => OwesNothing(k, m))
  /\ pc \in {"reading", "stray", "read", "unlinking"} <=> ~k.opened
  /\ pc \in {"reading", "unlinking"} => k.fd = 0 \/ "cancelled" \in m
  /\ pc = "unlinking" => k.fd = 0
  /\ pc = "stray" => "cancelled" \in m
  /\ pc \in {"reading", "read", "loading"} => k.readonly = (mode = "readonly")
  /\ pc = "read" => k.fd # 0 /\ (k.writable \/ k.readonly \/ "unlocked" \in m)
  /\ pc \in {"loading", "bootstrapping", "recording"} => k.task = "none"
  /\ pc \in {"bootstrapping", "recording"} => ~k.readonly

Unserved(i) == \A o \in Openers : open[o].of # i
ServedBy(i, o) == \A p \in Openers : open[p].of = i <=> p = o

LifeOf(i) ==
  \/ Unserved(i) /\ Rest(kanta[i], i \in closing, mishaps)
  \/ /\ i \notin closing
     /\ \E o \in Openers : ServedBy(i, o) /\ Serving(kanta[i], open[o].pc, open[o].mode, mishaps)

(* A descriptor without a lock is what a cancelled open() left.            *)
CancelledBefore(m) == "unlocked" \in m => "cancelled" \in m

Life == "overlap" \notin mishaps => CancelledBefore(mishaps) /\ \A i \in Instances : LifeOf(i)

LEMMA MoreMishaps ==
  ASSUME NEW k, NEW m, NEW n, m \subseteq n
  PROVE  /\ \A closes : Rest(k, closes, m) => Rest(k, closes, n)
         /\ \A pc, mode : Serving(k, pc, mode, m) => Serving(k, pc, mode, n)
<1>1. Tidy(k, m) => Tidy(k, n)
  BY DEF Tidy
<1>2. OwesNothing(k, m) => OwesNothing(k, n)
  BY DEF OwesNothing
<1>3. ASSUME NEW closes, Rest(k, closes, m) PROVE Rest(k, closes, n)
  BY <1>1, <1>2, <1>3 DEF Rest
<1>4. ASSUME NEW pc, NEW mode, Serving(k, pc, mode, m) PROVE Serving(k, pc, mode, n)
  BY <1>1, <1>2, <1>4 DEF Serving
<1>5. QED
  BY <1>3, <1>4

(* Calls of open() that serve the same instance at the same stretch *)
Alike(c, d) == c.pc = d.pc /\ c.of = d.of /\ c.mode = d.mode /\ c.content = d.content /\ (c.alone => d.alone)

(* Whatever happens to another instance, one lives on. *)
LEMMA OthersLive ==
  ASSUME NEW j, LifeOf(j), kanta'[j] = kanta[j], j \in closing' <=> j \in closing, mishaps \subseteq mishaps',
         \A p \in Openers : Alike(open'[p], open[p]) \/ (open'[p].of # j /\ open[p].of # j)
  PROVE  LifeOf(j)'
<1>1. \A p \in Openers : open'[p].of = j <=> open[p].of = j
  BY DEF Alike
<1>2. CASE Unserved(j) /\ Rest(kanta[j], j \in closing, mishaps)
  <2>1. Unserved(j)'
    BY <1>1, <1>2 DEF Unserved
  <2>2. Rest(kanta[j], j \in closing, mishaps')
    BY <1>2, MoreMishaps
  <2>3. Rest(kanta'[j], j \in closing', mishaps')
    BY <2>2 DEF Rest
  <2>4. QED
    BY <2>1, <2>3 DEF LifeOf
<1>3. ASSUME j \notin closing, NEW o \in Openers, ServedBy(j, o), Serving(kanta[j], open[o].pc, open[o].mode, mishaps)
      PROVE  LifeOf(j)'
  <2>1. ServedBy(j, o)'
    BY <1>1, <1>3 DEF ServedBy
  <2>2. open'[o].pc = open[o].pc /\ open'[o].mode = open[o].mode
    BY <1>3 DEF ServedBy, Alike
  <2>3. Serving(kanta'[j], open'[o].pc, open'[o].mode, mishaps')
    BY <1>3, <2>2, MoreMishaps
  <2>4. QED
    BY <1>3, <2>1, <2>3 DEF LifeOf
<1>4. QED
  BY <1>2, <1>3 DEF LifeOf

(* A step of one instance *)
LEMMA LifeStep ==
  ASSUME Life, NEW i \in Instances, mishaps \subseteq mishaps',
         \A j \in Instances : j # i => kanta'[j] = kanta[j] /\ (j \in closing' <=> j \in closing),
         \A p \in Openers : \/ Alike(open'[p], open[p])
                            \/ open'[p].of \in {i, Nobody} /\ open[p].of \in {i, Nobody},
         "overlap" \notin mishaps' => CancelledBefore(mishaps') /\ LifeOf(i)'
  PROVE  Life'
<1> SUFFICES ASSUME "overlap" \notin mishaps'
             PROVE  CancelledBefore(mishaps') /\ \A j \in Instances : LifeOf(j)'
  BY DEF Life
<1>1. ASSUME NEW j \in Instances, j # i PROVE LifeOf(j)'
  <2>1. LifeOf(j)
    BY DEF Life
  <2>2. \A p \in Openers : Alike(open'[p], open[p]) \/ (open'[p].of # j /\ open[p].of # j)
    BY <1>1, OpeningAssumption
  <2>3. QED
    BY <1>1, <2>1, <2>2, OthersLive
<1>2. QED
  BY <1>1

(* The call of o goes on as c, or ends. *)
Moves(o, c) == open'[o] = c /\ \A p \in Openers : p # o => Alike(open'[p], open[p])

(* and the instance with it.                                               *)
GoesOn(i, o, c) ==
  "overlap" \notin mishaps' /\ CancelledBefore(mishaps) /\ Serving(kanta[i], open[o].pc, open[o].mode, mishaps) =>
    /\ CancelledBefore(mishaps')
    /\ c.of = Nobody => Rest(kanta'[i], FALSE, mishaps')
    /\ c.of = i => Serving(kanta'[i], c.pc, c.mode, mishaps')

LEMMA OpenerStep ==
  ASSUME Life, NEW o \in Openers, NEW c, Moves(o, c), NEW i \in Instances, i = open[o].of,
         \A j \in Instances : j # i => kanta'[j] = kanta[j],
         closing' = closing, mishaps \subseteq mishaps', c.of = Nobody \/ c.of = i, GoesOn(i, o, c)
  PROVE  Life'
<1>1. \A p \in Openers : \/ Alike(open'[p], open[p])
                         \/ open'[p].of \in {i, Nobody} /\ open[p].of \in {i, Nobody}
  BY DEF Moves
<1>2. ASSUME "overlap" \notin mishaps' PROVE CancelledBefore(mishaps') /\ LifeOf(i)'
  <2>1. LifeOf(i) /\ CancelledBefore(mishaps)
    BY <1>2 DEF Life
  <2>2. ServedBy(i, o) /\ i \notin closing /\ Serving(kanta[i], open[o].pc, open[o].mode, mishaps)
    BY <2>1 DEF LifeOf, Unserved, ServedBy
  <2>3. /\ CancelledBefore(mishaps')
        /\ c.of = Nobody => Rest(kanta'[i], FALSE, mishaps')
        /\ c.of = i => Serving(kanta'[i], c.pc, c.mode, mishaps')
    BY <1>2, <2>1, <2>2 DEF GoesOn
  <2>4. \A p \in Openers : p # o => open'[p].of # i
    BY <2>2 DEF Moves, Alike, ServedBy
  <2>5. CASE c.of = Nobody
    <3>1. Unserved(i)'
      BY <2>4, <2>5, OpeningAssumption DEF Moves, Unserved
    <3>2. Rest(kanta'[i], i \in closing', mishaps')
      BY <2>2, <2>3, <2>5 DEF Rest
    <3>3. QED
      BY <2>3, <3>1, <3>2 DEF LifeOf
  <2>6. CASE c.of = i
    <3>1. ServedBy(i, o)'
      BY <2>4, <2>6 DEF Moves, ServedBy
    <3>2. Serving(kanta'[i], open'[o].pc, open'[o].mode, mishaps')
      BY <2>3, <2>6 DEF Moves
    <3>3. QED
      BY <2>2, <2>3, <3>1, <3>2 DEF LifeOf
  <2>7. QED
    BY <2>5, <2>6
<1>3. QED
  BY <1>1, <1>2, LifeStep

(* A step that no call of open() makes. *)
StaysAlive(i) ==
  "overlap" \notin mishaps' =>
    /\ "unlocked" \in mishaps' => "unlocked" \in mishaps
    /\ Unserved(i) /\ Rest(kanta[i], i \in closing, mishaps) => Rest(kanta'[i], i \in closing', mishaps')
    /\ \A o \in Openers :
         open[o].of = i /\ i \notin closing /\ Serving(kanta[i], open[o].pc, open[o].mode, mishaps)
           => i \notin closing' /\ Serving(kanta'[i], open[o].pc, open[o].mode, mishaps')

LEMMA InstanceStep ==
  ASSUME Life, NEW i \in Instances, open' = open,
         \A j \in Instances : j # i => kanta'[j] = kanta[j] /\ (j \in closing' <=> j \in closing),
         mishaps \subseteq mishaps',
         StaysAlive(i)
  PROVE  Life'
<1>1. \A p \in Openers : Alike(open'[p], open[p])
  BY DEF Alike
<1>2. ASSUME "overlap" \notin mishaps' PROVE CancelledBefore(mishaps') /\ LifeOf(i)'
  <2>1. LifeOf(i) /\ CancelledBefore(mishaps)
    BY <1>2 DEF Life
  <2>2. CancelledBefore(mishaps')
    BY <1>2, <2>1 DEF CancelledBefore, StaysAlive
  <2>3. CASE Unserved(i) /\ Rest(kanta[i], i \in closing, mishaps)
    BY <1>2, <2>2, <2>3 DEF LifeOf, Unserved, StaysAlive
  <2>4. ASSUME i \notin closing, NEW o \in Openers, ServedBy(i, o), Serving(kanta[i], open[o].pc, open[o].mode, mishaps)
        PROVE  LifeOf(i)'
    <3>1. open[o].of = i
      BY <2>4 DEF ServedBy
    <3>2. i \notin closing' /\ Serving(kanta'[i], open[o].pc, open[o].mode, mishaps')
      BY <1>2, <2>4, <3>1 DEF StaysAlive
    <3>3. ServedBy(i, o)'
      BY <2>4 DEF ServedBy
    <3>4. QED
      BY <3>2, <3>3 DEF LifeOf
  <2>5. QED
    BY <2>1, <2>2, <2>3, <2>4 DEF LifeOf
<1>3. QED
  BY <1>1, <1>2, LifeStep

(* Where the call of an opener goes *)
LEMMA EndsMoves ==
  ASSUME OpenType, NEW o \in Openers, Ends(o)
  PROVE  Moves(o, NoCall) /\ NoCall.of = Nobody
BY NoCallType DEF OpenType, Ends, Moves, Alike

LEMMA StepMoves ==
  ASSUME OpenType, NEW o \in Openers, NEW pc, Step(o, pc)
  PROVE  \E c : Moves(o, c) /\ c.pc = pc /\ c.of = open[o].of /\ c.mode = open[o].mode /\ c.content = open[o].content
<1> DEFINE c == [open[o] EXCEPT !.pc = pc]
<1>1. open[o] \in OpenCall /\ DOMAIN open = Openers
  BY DEF OpenType
<1>2. Moves(o, c)
  BY <1>1 DEF Step, Moves, Alike
<1>3. c.pc = pc /\ c.of = open[o].of /\ c.mode = open[o].mode /\ c.content = open[o].content
  BY <1>1 DEF OpenCall
<1>4. QED
  BY <1>2, <1>3

ToUnlink(o, alone) == open' = [open EXCEPT ![o].pc = "unlinking", ![o].alone = alone]

LEMMA UnlinkingMoves ==
  ASSUME OpenType, NEW o \in Openers, NEW alone, ToUnlink(o, alone)
  PROVE  \E c : /\ Moves(o, c) /\ c.pc = "unlinking" /\ c.of = open[o].of /\ c.mode = open[o].mode
                /\ c.content = open[o].content /\ c.alone = alone
<1> DEFINE c == [open[o] EXCEPT !.pc = "unlinking", !.alone = alone]
<1>1. open[o] \in OpenCall /\ DOMAIN open = Openers
  BY DEF OpenType
<1>2. Moves(o, c)
  BY <1>1 DEF ToUnlink, Moves, Alike
<1>3. /\ c.pc = "unlinking" /\ c.of = open[o].of /\ c.mode = open[o].mode
      /\ c.content = open[o].content /\ c.alone = alone
  BY <1>1 DEF OpenCall
<1>4. QED
  BY <1>2, <1>3

LEMMA ReadsMoves ==
  ASSUME OpenType, NEW o \in Openers, NEW n, Reads(o, n)
  PROVE  \/ At(o, "stray") /\ Moves(o, NoCall) /\ NoCall.of = Nobody
         \/ /\ ~At(o, "stray")
            /\ \E c : Moves(o, c) /\ c.pc = "read" /\ c.of = open[o].of /\ c.mode = open[o].mode /\ c.content = IF n \in DOMAIN files THEN files[n] ELSE <<>>
<1> DEFINE content == IF n \in DOMAIN files THEN files[n] ELSE <<>>
           c == [open[o] EXCEPT !.pc = "read", !.fd = 0, !.content = content]
<1>1. open[o] \in OpenCall
  BY DEF OpenType
<1>2. \A p \in Openers : open'[p] = IF p # o THEN [open[p] EXCEPT !.alone = FALSE]
                                    ELSE IF At(o, "stray") THEN NoCall ELSE c
  BY DEF Reads
<1> HIDE DEF content
<1>3. c.pc = "read" /\ c.of = open[o].of /\ c.mode = open[o].mode /\ c.content = content
  BY <1>1 DEF OpenCall
<1> HIDE DEF c
<1>4. ASSUME NEW p \in Openers, p # o PROVE Alike(open'[p], open[p])
  <2>1. open'[p] = [open[p] EXCEPT !.alone = FALSE] /\ open[p] \in OpenCall
    BY <1>2, <1>4 DEF OpenType
  <2>2. QED
    BY <2>1 DEF Alike, OpenCall
<1>5. CASE At(o, "stray")
  BY <1>2, <1>4, <1>5, NoCallType DEF Moves
<1>6. CASE ~At(o, "stray")
  BY <1>2, <1>3, <1>4, <1>6 DEF Moves, content
<1>7. QED
  BY <1>5, <1>6

LEMMA LifeCall ==
  ASSUME OpeningType, Life, NEW o \in Openers, NEW i \in Instances, NEW mode \in Modes, Call(o, i, mode)
  PROVE  Life'
<1> DEFINE k == kanta[i]
           l == kanta'[i]
<1>1. /\ \A j \in Instances : j # i => kanta'[j] = kanta[j]
      /\ Fields(l, k.opened, mode = "readonly", k.fd, k.writable, k.state, k.pending, k.flush_failed, k.task, k.orphans)
  BY CallEffect DEF Becomes
<1>2. At(o, "idle") /\ open[o].of = Nobody /\ ~k.opened /\ closing' = closing /\ mishaps \subseteq mishaps'
      /\ (Busy(i) => "overlap" \in mishaps') /\ mishaps' \subseteq mishaps \cup {"overlap"}
  BY DEF Call, Misuse, Notes, OpeningType, OpenType, At
<1>3. open'[o].pc = "reading" /\ open'[o].of = i /\ open'[o].mode = mode
      /\ \A p \in Openers : p # o => open'[p] = open[p]
  <2> DEFINE c == [NoCall EXCEPT !.pc = "reading", !.of = i, !.mode = mode, !.existed = (path # 0)]
  <2>1. c.pc = "reading" /\ c.of = i /\ c.mode = mode
    BY DEF NoCall
  <2>2. open' = [open EXCEPT ![o] = c]
    BY DEF Call
  <2> HIDE DEF c
  <2>3. QED
    BY <2>1, <2>2 DEF OpeningType, OpenType
<1>4. \A p \in Openers : \/ Alike(open'[p], open[p])
                         \/ open'[p].of \in {i, Nobody} /\ open[p].of \in {i, Nobody}
  BY <1>2, <1>3 DEF Alike
<1>5. ASSUME "overlap" \notin mishaps' PROVE CancelledBefore(mishaps') /\ LifeOf(i)'
  <2>1. ~Busy(i) /\ "overlap" \notin mishaps
    BY <1>2, <1>5
  <2>2. CancelledBefore(mishaps) /\ Rest(k, FALSE, mishaps) /\ i \notin closing /\ Unserved(i)
    BY <2>1 DEF Life, LifeOf, Busy, Unserved, ServedBy, Rest
  <2>3. Serving(l, "reading", mode, mishaps)
    BY <1>1, <1>2, <2>2 DEF Fields, Rest, Serving, Tidy, OwesNothing
  <2>4. Serving(l, open'[o].pc, open'[o].mode, mishaps')
    BY <1>2, <1>3, <2>3, MoreMishaps
  <2>5. ServedBy(i, o)'
    BY <1>3, <2>2 DEF ServedBy, Unserved
  <2>6. CancelledBefore(mishaps')
    BY <1>2, <2>2 DEF CancelledBefore
  <2>7. QED
    BY <1>2, <2>2, <2>4, <2>5, <2>6 DEF LifeOf
<1>6. QED
  BY <1>1, <1>2, <1>4, <1>5, LifeStep

(* A call that opens a file tells nobody yet. *)
LEMMA LifeOpensFile ==
  ASSUME OpeningType, Life, NEW o \in Openers, OpenFile(o)
  PROVE  Life'
<1>1. kanta' = kanta /\ \A p \in Openers : open'[p] = IF p = o THEN [open[p] EXCEPT !.fd = path'] ELSE open[p]
  BY OpenFileEffect
<1>2. closing' = closing /\ mishaps' = mishaps
  BY DEF OpenFile
<1>3. \A p \in Openers : Alike(open'[p], open[p])
  BY <1>1 DEF Alike, OpeningType, OpenType, OpenCall
<1>4. ASSUME NEW j \in Instances, LifeOf(j) PROVE LifeOf(j)'
  BY <1>1, <1>2, <1>3, <1>4, OthersLive
<1>5. QED
  BY <1>2, <1>4 DEF Life

(* The file is read again, or locked and read, or refused. *)
LEMMA LifeReads ==
  ASSUME OpeningType, Pending, Life, NEW o \in Openers, ReadAgain(o) \/ LockAndRead(o) \/ OpenRefused(o)
  PROVE  Life'
<1> DEFINE i == open[o].of
           k == kanta[i]
           l == kanta'[i]
<1>1. open[o].pc \in {"reading", "stray"} /\ i \in Instances /\ k \in Attributes /\ closing' = closing
      /\ mishaps \subseteq mishaps' /\ mishaps' \subseteq mishaps \cup {"unlocked"}
  BY Serves DEF ReadAgain, LockAndRead, TakeFile, OpenRefused, Notes, Pending
<1>2. /\ \A j \in Instances : j # i => kanta'[j] = kanta[j]
      /\ \E fd, writable :
           /\ Fields(l, k.opened, k.readonly, fd, writable, k.state, k.pending, k.flush_failed, k.task, k.orphans)
           /\ OpenRefused(o) => fd = k.fd
           /\ ~OpenRefused(o) => fd # 0 /\ (writable \/ open[o].mode = "readonly" \/ "unlocked" \in mishaps')
           /\ "unlocked" \in mishaps' => "unlocked" \in mishaps \/ k.fd # 0
  <2>1. CASE ReadAgain(o)
    <3>1. kanta' = kanta /\ k.fd # 0 /\ (k.writable \/ open[o].mode = "readonly" \/ "unlocked" \in mishaps')
      BY <2>1 DEF ReadAgain, Notes
    <3>2. Fields(l, k.opened, k.readonly, k.fd, k.writable, k.state, k.pending, k.flush_failed, k.task, k.orphans)
      BY <1>1, <3>1, Assign
    <3>3. QED
      BY <3>1, <3>2
  <2>3. CASE LockAndRead(o)
    <3> DEFINE w == open[o].mode # "readonly"
               f == open[o].fd
    <3>1. mishaps' = mishaps /\ f # 0 /\ (w \/ open[o].mode = "readonly")
      BY <2>3 DEF LockAndRead, TakeFile
    <3>2. Becomes(i, k.opened, k.readonly, f, w, k.state, k.pending, k.flush_failed, k.task, k.orphans)
      BY <2>3, LockAndReadEffect
    <3>3. OpenRefused(o) => f = k.fd
      BY <2>3 DEF LockAndRead, OpenRefused
    <3> HIDE DEF w, f
    <3>4. QED
      BY <3>1, <3>2, <3>3 DEF Becomes
  <2>4. CASE OpenRefused(o)
    <3>1. kanta' = kanta /\ mishaps' = mishaps
      BY <2>4 DEF OpenRefused
    <3>2. Fields(l, k.opened, k.readonly, k.fd, k.writable, k.state, k.pending, k.flush_failed, k.task, k.orphans)
      BY <1>1, <3>1, Assign
    <3>3. QED
      BY <2>4, <3>1, <3>2
  <2>5. QED
    BY <2>1, <2>3, <2>4
<1>3. PICK c : /\ Moves(o, c) /\ (c.of = Nobody \/ c.of = i)
               /\ c.of = i => At(o, "reading") /\ c.pc = "read" /\ c.mode = open[o].mode /\ ~OpenRefused(o)
  <2>1. CASE OpenRefused(o)
    BY <2>1, <1>1, EndsMoves, OpeningAssumption DEF OpenRefused, OpeningType
  <2>2. CASE ~OpenRefused(o)
    <3>1. PICK n : Reads(o, n)
      BY <2>2 DEF ReadAgain, LockAndRead, TakeFile
    <3>2. \/ At(o, "stray") /\ Moves(o, NoCall) /\ NoCall.of = Nobody
          \/ /\ ~At(o, "stray")
             /\ \E c : Moves(o, c) /\ c.pc = "read" /\ c.of = open[o].of /\ c.mode = open[o].mode
      BY <3>1, ReadsMoves DEF OpeningType
    <3>3. QED
      BY <1>1, <2>2, <3>2, OpeningAssumption DEF At
  <2>3. QED
    BY <2>1, <2>2
<1>4. ASSUME CancelledBefore(mishaps), Serving(k, open[o].pc, open[o].mode, mishaps)
      PROVE  /\ CancelledBefore(mishaps')
             /\ c.of = Nobody => Rest(l, FALSE, mishaps')
             /\ c.of = i => Serving(l, c.pc, c.mode, mishaps')
  <2>1. PICK fd, writable :
           /\ Fields(l, k.opened, k.readonly, fd, writable, k.state, k.pending, k.flush_failed, k.task, k.orphans)
           /\ OpenRefused(o) => fd = k.fd
           /\ ~OpenRefused(o) => fd # 0 /\ (writable \/ open[o].mode = "readonly" \/ "unlocked" \in mishaps')
           /\ "unlocked" \in mishaps' => "unlocked" \in mishaps \/ k.fd # 0
    BY <1>2
  <2>2. CancelledBefore(mishaps')
    BY <1>1, <1>4, <2>1 DEF CancelledBefore, Serving
  <2>3. ASSUME c.of = Nobody PROVE Rest(l, FALSE, mishaps')
    <3>1. ~k.opened /\ Tidy(k, mishaps) /\ OwesNothing(k, mishaps)
      BY <1>1, <1>4 DEF Serving
    <3>2. fd = 0 \/ "cancelled" \in mishaps'
      <4>1. CASE At(o, "stray")
        BY <1>1, <1>4, <4>1 DEF Serving, At
      <4>2. CASE OpenRefused(o)
        BY <1>1, <1>4, <2>1, <4>2 DEF Serving
      <4>3. CASE ~At(o, "stray") /\ ~OpenRefused(o)
        <5>1. PICK n : Reads(o, n)
          BY <4>3 DEF ReadAgain, LockAndRead, TakeFile
        <5>2. open'[o].of = i
          BY <4>3, <5>1, ReadsMoves DEF Moves, OpeningType
        <5>3. QED
          BY <1>1, <1>3, <2>3, <5>2, OpeningAssumption DEF Moves
      <4>4. QED
        BY <4>1, <4>2, <4>3
    <3>3. QED
      BY <1>1, <2>1, <3>1, <3>2 DEF Fields, Rest, Tidy, OwesNothing
  <2>4. ASSUME c.of = i PROVE Serving(l, c.pc, c.mode, mishaps')
    <3>1. At(o, "reading") /\ c.pc = "read" /\ c.mode = open[o].mode /\ ~OpenRefused(o)
      BY <1>3, <2>4
    <3>2. Serving(l, "read", open[o].mode, mishaps')
      BY <1>1, <1>4, <2>1, <3>1 DEF Fields, Serving, Tidy, OwesNothing, At
    <3>3. QED
      BY <3>1, <3>2
  <2>5. QED
    BY <2>2, <2>3, <2>4
<1>5. GoesOn(i, o, c)
  BY <1>4 DEF GoesOn
<1>6. \A j \in Instances : j # i => kanta'[j] = kanta[j]
  BY <1>2
<1>7. QED
  BY <1>1, <1>3, <1>5, <1>6, OpenerStep

(* The stretches after the file is read *)
LEMMA LifeRejected ==
  ASSUME OpeningType, Life, NEW o \in Openers, RejectEmpty(o) \/ RejectEmptyReadonly(o)
  PROVE  Life'
<1> DEFINE i == open[o].of
           k == kanta[i]
<1>1. PICK opened \in {FALSE, k.opened} :
        Becomes(i, opened, k.readonly, 0, FALSE, k.state, k.pending, k.flush_failed, k.task, k.orphans)
  BY RejectEffect
<1>2. i \in Instances /\ closing' = closing /\ mishaps' = mishaps /\ At(o, "read") /\ Ends(o)
  BY Serves DEF RejectEmpty, RejectEmptyReadonly, At
<1>3. Moves(o, NoCall) /\ NoCall.of = Nobody /\ NoCall.of # i
  BY <1>2, EndsMoves, OpeningAssumption DEF OpeningType
<1>4. GoesOn(i, o, NoCall)
  BY <1>1, <1>2, <1>3 DEF GoesOn, Becomes, Fields, Serving, Rest, Tidy, OwesNothing, At
<1>5. \A j \in Instances : j # i => kanta'[j] = kanta[j]
  BY <1>1 DEF Becomes
<1>6. QED
  BY <1>2, <1>3, <1>4, <1>5, OpenerStep

LEMMA LifeProceeds ==
  ASSUME OpeningType, Life, NEW o \in Openers, Proceed(o)
  PROVE  Life'
<1> DEFINE i == open[o].of
           k == kanta[i]
           pc == IF open[o].content = <<>> THEN "bootstrapping" ELSE "loading"
<1>1. Becomes(i, TRUE, k.readonly, k.fd, k.writable, k.state, k.pending, k.flush_failed, k.task, k.orphans)
      /\ i \in Instances
  BY ProceedEffect
<1>2. closing' = closing /\ mishaps' = mishaps /\ At(o, "read") /\ Step(o, pc)
      /\ (pc = "bootstrapping" => ~k.readonly) /\ pc \in {"bootstrapping", "loading"}
  BY DEF Proceed
<1> HIDE DEF pc
<1>3. PICK c : Moves(o, c) /\ c.pc = pc /\ c.of = i /\ c.mode = open[o].mode
  BY <1>2, StepMoves DEF OpeningType
<1>4. c.of # Nobody
  BY <1>1, <1>3, OpeningAssumption
<1>5. GoesOn(i, o, c)
  BY <1>1, <1>2, <1>3, <1>4 DEF GoesOn, Becomes, Fields, Serving, Tidy, OwesNothing, At
<1>6. \A j \in Instances : j # i => kanta'[j] = kanta[j]
  BY <1>1 DEF Becomes
<1>7. QED
  BY <1>1, <1>2, <1>3, <1>5, <1>6, OpenerStep

LEMMA LifeLoads ==
  ASSUME OpeningType, Life, NEW o \in Openers, LoadRaises(o) \/ LoadInvalid(o) \/ Load(o)
  PROVE  Life'
<1> DEFINE i == open[o].of
           k == kanta[i]
           l == kanta'[i]
<1>1. i \in Instances /\ k \in Attributes /\ closing' = closing /\ mishaps \subseteq mishaps' /\ At(o, "loading")
      /\ Ends(o) /\ mishaps' \subseteq mishaps \cup {"abandoned", "leftover"}
  BY Serves DEF LoadRaises, LoadInvalid, Load, At, Notes
<1>2. Moves(o, NoCall) /\ NoCall.of = Nobody /\ NoCall.of # i
  BY <1>1, EndsMoves, OpeningAssumption DEF OpeningType
<1>3. CancelledBefore(mishaps) => CancelledBefore(mishaps')
  BY <1>1 DEF CancelledBefore
<1>4. CASE LoadRaises(o)
  <2>1. kanta' = kanta /\ "abandoned" \in mishaps'
    BY <1>4 DEF LoadRaises, Notes
  <2>2. GoesOn(i, o, NoCall)
    BY <1>1, <1>2, <1>3, <2>1 DEF GoesOn, Serving, Rest, Tidy, OwesNothing, At
  <2>3. QED
    BY <1>1, <1>2, <2>1, <2>2, OpenerStep
<1>5. CASE LoadInvalid(o)
  <2>1. Becomes(i, FALSE, k.readonly, 0, FALSE, ReplayedState(o), k.pending, k.flush_failed, k.task, k.orphans)
    BY <1>5, LoadInvalidEffect
  <2>2. GoesOn(i, o, NoCall)
    BY <1>1, <1>2, <1>3, <2>1 DEF GoesOn, Becomes, Fields, Serving, Rest, Tidy, OwesNothing, At
  <2>3. \A j \in Instances : j # i => kanta'[j] = kanta[j]
    BY <2>1 DEF Becomes
  <2>4. QED
    BY <1>1, <1>2, <2>2, <2>3, OpenerStep
<1>6. CASE Load(o)
  <2>1. k.task # "live" =>
          Becomes(i, k.opened, k.readonly, k.fd, k.writable, ReplayedState(o), k.pending, k.flush_failed,
                  IF k.readonly THEN k.task ELSE "live", k.orphans)
    BY <1>6, LoadEffect
  <2>2. GoesOn(i, o, NoCall)
    BY <1>1, <1>2, <1>3, <2>1 DEF GoesOn, Becomes, Fields, Serving, Rest, Tidy, OwesNothing, At
  <2>3. \A j \in Instances : j # i => kanta'[j] = kanta[j]
    BY <1>1, <1>6 DEF Load, OpeningType, KantaType
  <2>4. QED
    BY <1>1, <1>2, <2>2, <2>3, OpenerStep
<1>7. QED
  BY <1>4, <1>5, <1>6

LEMMA LifeRecords ==
  ASSUME OpeningType, Life, NEW o \in Openers, LoadMigrated(o) \/ RecordMigration(o) \/ RecordingRaises(o)
  PROVE  Life'
<1> DEFINE i == open[o].of
           k == kanta[i]
           l == kanta'[i]
<1>1. i \in Instances /\ k \in Attributes /\ closing' = closing /\ mishaps \subseteq mishaps'
      /\ mishaps' \subseteq mishaps \cup {"abandoned", "leftover"}
  BY Serves DEF LoadMigrated, RecordMigration, RecordingRaises, At, Notes
<1>2. CancelledBefore(mishaps) => CancelledBefore(mishaps')
  BY <1>1 DEF CancelledBefore
<1>3. CASE LoadMigrated(o)
  <2>1. PICK q : Becomes(i, k.opened, k.readonly, k.fd, k.writable, last', q, k.flush_failed, k.task, k.orphans)
    BY <1>3, LoadMigratedEffect
  <2>2. At(o, "loading") /\ ~k.readonly
    BY <1>3 DEF LoadMigrated
  <2>3. PICK c : Moves(o, c) /\ c.pc = "recording" /\ c.of = i /\ c.mode = open[o].mode
    BY <1>3, StepMoves DEF LoadMigrated, OpeningType
  <2>4. c.of # Nobody
    BY <1>1, <2>3, OpeningAssumption
  <2>5. GoesOn(i, o, c)
    BY <1>1, <1>2, <2>1, <2>2, <2>3, <2>4 DEF GoesOn, Becomes, Fields, Serving, Tidy, OwesNothing, At
  <2>6. \A j \in Instances : j # i => kanta'[j] = kanta[j]
    BY <2>1 DEF Becomes
  <2>7. QED
    BY <1>1, <2>3, <2>5, <2>6, OpenerStep
<1>4. CASE RecordMigration(o) \/ RecordingRaises(o)
  <2>1. At(o, "recording") /\ Ends(o)
    BY <1>4 DEF RecordMigration, RecordingRaises
  <2>2. Moves(o, NoCall) /\ NoCall.of = Nobody /\ NoCall.of # i
    BY <1>1, <2>1, EndsMoves, OpeningAssumption DEF OpeningType
  <2>3. CASE RecordMigration(o)
    <3> DEFINE kept == IF k.flush_failed THEN k.pending ELSE <<>>
    <3>1. k.task # "live" =>
            Becomes(i, k.opened, k.readonly, k.fd, k.writable, k.state, kept, k.flush_failed, "live", k.orphans)
      BY <2>3, RecordMigrationEffect
    <3> HIDE DEF kept
    <3>2. k.opened /\ ~k.readonly
      BY <2>3 DEF RecordMigration
    <3>3. GoesOn(i, o, NoCall)
      BY <1>1, <1>2, <2>1, <2>2, <3>1, <3>2 DEF GoesOn, Becomes, Fields, Serving, Rest, Tidy, OwesNothing, At
    <3>4. \A j \in Instances : j # i => kanta'[j] = kanta[j]
      BY <1>1, <2>3 DEF RecordMigration, OpeningType, KantaType
    <3>5. QED
      BY <1>1, <2>2, <3>3, <3>4, OpenerStep
  <2>4. CASE RecordingRaises(o)
    <3>1. PICK failed \in BOOLEAN :
             /\ \/ failed = k.flush_failed /\ (~k.opened \/ k.readonly)
                \/ k.opened /\ ~k.readonly /\ (failed \/ k.fd = 0)
             /\ Becomes(i, k.opened, k.readonly, k.fd, k.writable, k.state, k.pending, failed, k.task, k.orphans)
      BY <2>4, RecordingRaisesEffect
    <3>2. "abandoned" \in mishaps'
      BY <2>4 DEF RecordingRaises, Notes
    <3>3. GoesOn(i, o, NoCall)
      BY <1>1, <1>2, <2>1, <2>2, <3>1, <3>2 DEF GoesOn, Becomes, Fields, Serving, Rest, Tidy, OwesNothing, At
    <3>4. \A j \in Instances : j # i => kanta'[j] = kanta[j]
      BY <3>1 DEF Becomes
    <3>5. QED
      BY <1>1, <2>2, <3>3, <3>4, OpenerStep
  <2>5. QED
    BY <1>4, <2>3, <2>4
<1>5. QED
  BY <1>3, <1>4

LEMMA LifeBootstraps ==
  ASSUME OpeningType, Life, NEW o \in Openers, Bootstrap(o) \/ BootstrapFails(o) \/ Unlink(o)
  PROVE  Life'
<1> DEFINE i == open[o].of
           k == kanta[i]
           l == kanta'[i]
<1>1. i \in Instances /\ k \in Attributes /\ closing' = closing /\ mishaps \subseteq mishaps'
      /\ mishaps' \subseteq mishaps \cup {"unlinked", "leftover"}
  BY Serves DEF Bootstrap, BootstrapFails, Unlink, At, Notes
<1>2. CancelledBefore(mishaps) => CancelledBefore(mishaps')
  BY <1>1 DEF CancelledBefore
<1>3. Ends(o) => Moves(o, NoCall) /\ NoCall.of = Nobody /\ NoCall.of # i
  BY <1>1, EndsMoves, OpeningAssumption DEF OpeningType
<1>4. CASE Bootstrap(o)
  <2>1. PICK q : k.task # "live" =>
          Becomes(i, k.opened, k.readonly, k.fd, k.writable, last', q, k.flush_failed,
                  IF k.readonly THEN k.task ELSE "live", k.orphans)
    BY <1>4, BootstrapEffect
  <2>2. At(o, "bootstrapping") /\ Ends(o)
    BY <1>4 DEF Bootstrap
  <2>3. GoesOn(i, o, NoCall)
    BY <1>1, <1>2, <1>3, <2>1, <2>2 DEF GoesOn, Becomes, Fields, Serving, Rest, Tidy, OwesNothing, At
  <2>4. \A j \in Instances : j # i => kanta'[j] = kanta[j]
    BY <1>1, <1>4 DEF Bootstrap, OpeningType, KantaType
  <2>5. QED
    BY <1>1, <1>3, <2>2, <2>3, <2>4, OpenerStep
<1>5. CASE BootstrapFails(o)
  <2>1. PICK state, pending :
          /\ pending = k.pending \/ "leftover" \in mishaps'
          /\ Becomes(i, FALSE, k.readonly, 0, FALSE, state, pending, k.flush_failed, k.task, k.orphans)
    BY <1>5, BootstrapFailsEffect
  <2>2. At(o, "bootstrapping")
    BY <1>5 DEF BootstrapFails
  <2>3. PICK c : Moves(o, c) /\ c.pc = "unlinking" /\ c.of = i /\ c.mode = open[o].mode
    <3> DEFINE alone == Alone(i)
    <3>1. ToUnlink(o, alone)
      BY <1>5 DEF BootstrapFails, ToUnlink
    <3> HIDE DEF alone
    <3>2. QED
      BY <3>1, UnlinkingMoves DEF OpeningType
  <2>4. c.of # Nobody
    BY <1>1, <2>3, OpeningAssumption
  <2>5. GoesOn(i, o, c)
    BY <1>1, <1>2, <2>1, <2>2, <2>3, <2>4 DEF GoesOn, Becomes, Fields, Serving, Tidy, OwesNothing, At
  <2>6. \A j \in Instances : j # i => kanta'[j] = kanta[j]
    BY <2>1 DEF Becomes
  <2>7. QED
    BY <1>1, <2>3, <2>5, <2>6, OpenerStep
<1>6. CASE Unlink(o)
  <2>1. At(o, "unlinking") /\ Ends(o) /\ kanta' = kanta
    BY <1>6 DEF Unlink
  <2>2. GoesOn(i, o, NoCall)
    BY <1>1, <1>2, <1>3, <2>1 DEF GoesOn, Serving, Rest, Tidy, OwesNothing, At
  <2>3. QED
    BY <1>1, <1>3, <2>1, <2>2, OpenerStep
<1>7. QED
  BY <1>4, <1>5, <1>6

LEMMA LifeCancelled ==
  ASSUME OpeningType, Life, NEW o \in Openers, Cancel(o)
  PROVE  Life'
<1> DEFINE i == open[o].of
           k == kanta[i]
<1>1. i \in Instances /\ k \in Attributes /\ closing' = closing /\ mishaps \subseteq mishaps' /\ kanta' = kanta
      /\ "cancelled" \in mishaps' /\ open[o].pc \in {"reading", "read", "loading", "recording", "bootstrapping", "unlinking"}
      /\ mishaps' \subseteq mishaps \cup {"cancelled"}
  BY Serves DEF Cancel, At, Notes
<1>2. PICK c : /\ Moves(o, c) /\ (c.of = Nobody \/ c.of = i)
               /\ c.of = i => \/ c.pc = "stray" /\ At(o, "reading")
                              \/ c.pc = open[o].pc /\ c.mode = open[o].mode
  <2>1. CASE At(o, "reading")
    <3>1. Step(o, "stray")
      BY <2>1 DEF Cancel, At
    <3>2. PICK c : Moves(o, c) /\ c.pc = "stray" /\ c.of = i
      BY <3>1, StepMoves DEF OpeningType
    <3>3. QED
      BY <2>1, <3>2
  <2>2. CASE Ends(o)
    BY <1>1, <2>2, EndsMoves, OpeningAssumption DEF OpeningType
  <2>3. CASE UNCHANGED open
    <3>1. Moves(o, open[o])
      BY <2>3 DEF Moves, Alike
    <3>2. QED
      BY <3>1
  <2>4. QED
    BY <2>1, <2>2, <2>3 DEF Cancel
<1>3. ASSUME CancelledBefore(mishaps), Serving(k, open[o].pc, open[o].mode, mishaps)
      PROVE  /\ CancelledBefore(mishaps')
             /\ c.of = Nobody => Rest(kanta'[i], FALSE, mishaps')
             /\ c.of = i => Serving(kanta'[i], c.pc, c.mode, mishaps')
  <2>1. CancelledBefore(mishaps')
    BY <1>1 DEF CancelledBefore
  <2>2. Serving(k, open[o].pc, open[o].mode, mishaps')
    BY <1>1, <1>3, MoreMishaps
  <2>3. Rest(k, FALSE, mishaps')
    BY <1>1, <2>2 DEF Serving, Rest
  <2>4. ASSUME c.of = i PROVE Serving(k, c.pc, c.mode, mishaps')
    <3>1. CASE c.pc = "stray" /\ At(o, "reading")
      BY <1>1, <2>2, <3>1 DEF Serving, At
    <3>2. CASE c.pc = open[o].pc /\ c.mode = open[o].mode
      BY <2>2, <3>2
    <3>3. QED
      BY <1>2, <2>4, <3>1, <3>2
  <2>5. QED
    BY <1>1, <2>1, <2>3, <2>4
<1>4. GoesOn(i, o, c)
  BY <1>3 DEF GoesOn
<1>5. QED
  BY <1>1, <1>2, <1>4, OpenerStep

-----------------------------------------------------------------------------
(* Steps that no call of open() makes *)
LEMMA LifeCommits ==
  ASSUME OpeningType, Life, NEW i \in Instances, Commit(i)
  PROVE  Life'
<1> DEFINE k == kanta[i]
<1>1. PICK n, q : Becomes(i, k.opened, k.readonly, k.fd, k.writable, n, q, k.flush_failed, k.task, k.orphans)
  BY CommitEffect
<1>2. open' = open /\ closing' = closing /\ mishaps \subseteq mishaps' /\ mishaps' \subseteq mishaps \cup {"early"}
      /\ ("early" \in mishaps' \/ (~Busy(i) /\ k.task # "none"))
  BY DEF Commit, Misuse, Notes
<1>3. StaysAlive(i)
  <2>1. Tidy(k, mishaps) => Tidy(kanta'[i], mishaps')
    BY <1>1, <1>2 DEF Becomes, Fields, Tidy
  <2>2. OwesNothing(kanta'[i], mishaps')
    BY <1>1, <1>2 DEF Becomes, Fields, OwesNothing
  <2>3. Rest(k, i \in closing, mishaps) => Rest(kanta'[i], i \in closing', mishaps')
    BY <1>1, <1>2, <2>1, <2>2 DEF Becomes, Fields, Rest
  <2>4. ASSUME NEW o \in Openers, Serving(k, open[o].pc, open[o].mode, mishaps)
        PROVE  Serving(kanta'[i], open[o].pc, open[o].mode, mishaps')
    BY <1>1, <1>2, <2>1, <2>2, <2>4 DEF Becomes, Fields, Serving
  <2>5. QED
    BY <1>2, <2>3, <2>4 DEF StaysAlive
<1>4. \A j \in Instances : j # i => kanta'[j] = kanta[j] /\ (j \in closing' <=> j \in closing)
  BY <1>1, <1>2 DEF Becomes
<1>5. QED
  BY <1>2, <1>3, <1>4, InstanceStep

LEMMA LifeFlushes ==
  ASSUME OpeningType, Life, NEW i \in Instances, Flush(i) \/ Reopen(i) \/ FlushFails(i) \/ LoopDies(i)
  PROVE  Life'
<1> DEFINE k == kanta[i]
<1>1. open' = open /\ closing' = closing /\ mishaps' = mishaps
  BY DEF Flush, Reopen, FlushFails, LoopDies
<1>2. \A j \in Instances : j # i => kanta'[j] = kanta[j] /\ (j \in closing' <=> j \in closing)
  BY <1>1, FlushEffect, ReopenEffect, FlushFailsEffect, LoopDiesEffect DEF Becomes
<1>3. CASE Flush(i)
  <2>1. Becomes(i, k.opened, k.readonly, k.fd, k.writable, k.state, <<>>, k.flush_failed, k.task, k.orphans)
    BY <1>3, FlushEffect
  <2>2. StaysAlive(i)
    BY <1>1, <2>1 DEF StaysAlive, Becomes, Fields, Rest, Serving, Tidy, OwesNothing
  <2>3. QED
    BY <1>1, <1>2, <2>2, InstanceStep
<1>4. CASE Reopen(i) \/ LoopDies(i)
  <2>1. ~Tidy(k, mishaps)
    BY <1>4, LoopDiesEffect DEF Reopen, Flushing, Tidy
  <2>2. StaysAlive(i)
    BY <1>1, <2>1 DEF StaysAlive, Rest, Serving
  <2>3. QED
    BY <1>1, <1>2, <2>2, InstanceStep
<1>5. CASE FlushFails(i)
  <2>1. k.opened /\ ~k.readonly
    BY <1>5, FlushFailsEffect
  <2>2. PICK failed \in BOOLEAN, task \in {"none", "live", "done", "error"}, orphans \in Nat :
          /\ failed \/ k.fd = 0
          /\ k.orphans = 0 => orphans = 0 /\ (task = k.task \/ (k.task = "live" /\ task = "done"))
          /\ Becomes(i, k.opened, k.readonly, k.fd, k.writable, k.state, k.pending, failed, task, orphans)
    BY <1>5, FlushFailsEffect
  <2>3. Tidy(k, mishaps) => failed /\ Tidy(kanta'[i], mishaps)
    BY <2>1, <2>2 DEF Becomes, Fields, Tidy
  <2>4. Rest(k, i \in closing, mishaps) => Rest(kanta'[i], i \in closing, mishaps)
    BY <2>1, <2>2, <2>3 DEF Becomes, Fields, Rest, OwesNothing
  <2>5. ASSUME NEW o \in Openers, Serving(k, open[o].pc, open[o].mode, mishaps)
        PROVE  Serving(kanta'[i], open[o].pc, open[o].mode, mishaps)
    BY <2>1, <2>2, <2>3, <2>5 DEF Becomes, Fields, Serving, OwesNothing, Tidy
  <2>6. StaysAlive(i)
    BY <1>1, <2>4, <2>5 DEF StaysAlive
  <2>7. QED
    BY <1>1, <1>2, <2>6, InstanceStep
<1>6. QED
  BY <1>3, <1>4, <1>5

LEMMA LifeOverlaps ==
  ASSUME OpeningType, Life, NEW i \in Instances, FlushesOverlap(i)
  PROVE  Life'
<1> DEFINE k == kanta[i]
<1>1. open' = open /\ closing' = closing /\ "flushes" \in mishaps' /\ mishaps \subseteq mishaps'
      /\ mishaps' \subseteq mishaps \cup {"flushes"} /\ ~Busy(i) /\ Flushing(i)
  BY DEF FlushesOverlap, Misuse, Notes
<1>2. PICK pending \in Seq(Change), task \in {"none", "live", "done", "error"}, orphans \in Nat :
        /\ k.orphans = 0 => orphans = 0 /\ (task = k.task \/ (k.task = "live" /\ task = "error"))
        /\ Becomes(i, k.opened, k.readonly, k.fd, k.writable, k.state, pending, k.flush_failed, task, orphans)
  BY FlushesOverlapEffect
<1>3. Rest(k, i \in closing, mishaps) => Rest(kanta'[i], i \in closing', mishaps')
  <2> SUFFICES ASSUME Rest(k, i \in closing, mishaps) PROVE Rest(kanta'[i], i \in closing', mishaps')
    OBVIOUS
  <2>1. k.opened /\ ~k.readonly /\ k.pending # <<>> /\ ~k.flush_failed
    BY <1>1 DEF Flushing
  <2>2. k.task = "none" => "early" \in mishaps \/ "leftover" \in mishaps \/ "cancelled" \in mishaps
    BY <2>1 DEF Rest, OwesNothing
  <2>3. Tidy(kanta'[i], mishaps')
    BY <1>1, <1>2, <2>1 DEF Rest, Becomes, Fields, Tidy
  <2>4. OwesNothing(kanta'[i], mishaps') \/ "cancelled" \in mishaps'
    BY <1>1, <1>2, <2>2 DEF Rest, Tidy, Becomes, Fields, OwesNothing
  <2>5. QED
    BY <1>1, <1>2, <2>1, <2>3, <2>4 DEF Rest, Becomes, Fields
<1>4. \A o \in Openers : open[o].of # i
  BY <1>1 DEF Busy
<1>5. StaysAlive(i)
  BY <1>1, <1>3, <1>4 DEF StaysAlive
<1>6. \A j \in Instances : j # i => kanta'[j] = kanta[j] /\ (j \in closing' <=> j \in closing)
  BY <1>1, <1>2 DEF Becomes
<1>7. QED
  BY <1>1, <1>5, <1>6, InstanceStep

LEMMA LifeCloses ==
  ASSUME OpeningType, Life, NEW i \in Instances, CloseBegin(i) \/ CloseEnd(i) \/ CloseRaises(i)
  PROVE  Life'
<1> DEFINE k == kanta[i]
<1>1. open' = open /\ mishaps \subseteq mishaps' /\ mishaps' \subseteq mishaps \cup {"overlap"}
      /\ \A j \in Instances : j # i => (j \in closing' <=> j \in closing)
  BY DEF CloseBegin, CloseEnd, CloseRaises, Misuse, Notes, bounds
<1>2. \A j \in Instances : j # i => kanta'[j] = kanta[j]
  <2>1. CloseBegin(i) => kanta' = kanta
    BY DEF CloseBegin
  <2>2. QED
    BY <2>1, CloseEndEffect, CloseRaisesEffect DEF Becomes
<1>3. CASE CloseBegin(i)
  <2>1. kanta' = kanta /\ k.opened /\ ("overlap" \notin mishaps' => mishaps' = mishaps /\ ~Busy(i))
    BY <1>3 DEF CloseBegin, Misuse, Notes
  <2>2. StaysAlive(i)
    BY <1>1, <2>1 DEF StaysAlive, Rest, Busy
  <2>3. QED
    BY <1>1, <1>2, <2>2, InstanceStep
<1>4. CASE CloseEnd(i)
  <2> DEFINE kept == IF Flushing(i) THEN <<>> ELSE k.pending
  <2>1. i \in closing /\ i \notin closing' /\ mishaps' = mishaps
    BY <1>4 DEF CloseEnd
  <2>2. kept = <<>> \/ (kept = k.pending /\ (~k.opened \/ k.readonly \/ k.flush_failed))
    BY DEF Flushing
  <2>3. Becomes(i, FALSE, k.readonly, 0, FALSE, k.state, kept, k.flush_failed, "none", k.orphans)
    BY <1>4, CloseEndEffect
  <2> HIDE DEF kept
  <2>4. Rest(k, TRUE, mishaps) => Rest(kanta'[i], FALSE, mishaps)
    BY <2>2, <2>3 DEF Becomes, Fields, Rest, Tidy, OwesNothing
  <2>5. StaysAlive(i)
    BY <2>1, <2>4 DEF StaysAlive, Rest
  <2>6. QED
    BY <1>1, <1>2, <2>5, InstanceStep
<1>5. CASE CloseRaises(i)
  <2>1. i \in closing /\ i \notin closing' /\ mishaps' = mishaps
    BY <1>5 DEF CloseRaises
  <2>2. PICK failed \in BOOLEAN, task \in {"none", "live", "done", "error"} :
          /\ \/ /\ k.task = "error" \/ (~k.readonly /\ ~k.opened)
                /\ failed = k.flush_failed /\ task = IF k.task = "live" THEN "error" ELSE k.task
             \/ k.opened /\ ~k.readonly /\ (failed \/ k.fd = 0)
          /\ Becomes(i, k.opened, k.readonly, k.fd, k.writable, k.state, k.pending, failed, task, k.orphans)
    BY <1>5, CloseRaisesEffect
  <2>3. Rest(k, TRUE, mishaps) => k.opened /\ ~k.readonly /\ (failed \/ (failed = k.flush_failed /\ task = k.task))
    BY <2>2 DEF Rest, Tidy
  <2>4. Rest(k, TRUE, mishaps) => Rest(kanta'[i], FALSE, mishaps)
    <3>1. CASE failed
      BY <2>2, <2>3, <3>1 DEF Becomes, Fields, Rest, Tidy, OwesNothing
    <3>2. CASE failed = k.flush_failed /\ task = k.task
      BY <2>2, <2>3, <3>2 DEF Becomes, Fields, Rest, Tidy, OwesNothing
    <3>3. QED
      BY <2>3, <3>1, <3>2
  <2>5. StaysAlive(i)
    BY <2>1, <2>4 DEF StaysAlive, Rest
  <2>6. QED
    BY <1>1, <1>2, <2>5, InstanceStep
<1>6. QED
  BY <1>3, <1>4, <1>5

LEMMA LifeCrashes ==
  ASSUME OpeningType, Life, NEW i \in Instances, Crash(i)
  PROVE  Life'
<1>1. kanta'[i] = Fresh /\ \A j \in Instances : j # i => kanta'[j] = kanta[j]
  BY CrashType
<1>2. closing' = closing \ {i} /\ mishaps' = mishaps
      /\ \A p \in Openers : open'[p] = IF open[p].of = i THEN NoCall ELSE open[p]
  BY DEF Crash
<1>3. \A p \in Openers : \/ Alike(open'[p], open[p])
                         \/ open'[p].of \in {i, Nobody} /\ open[p].of \in {i, Nobody}
  BY <1>2, NoCallType DEF Alike
<1>4. ASSUME "overlap" \notin mishaps' PROVE CancelledBefore(mishaps') /\ LifeOf(i)'
  <2>1. CancelledBefore(mishaps')
    BY <1>2, <1>4 DEF Life
  <2>2. Unserved(i)'
    BY <1>2, NoCallType, OpeningAssumption DEF Unserved
  <2>3. Rest(kanta'[i], i \in closing', mishaps')
    BY <1>1, <1>2 DEF Fresh, Rest, Tidy, OwesNothing
  <2>4. QED
    BY <2>1, <2>2, <2>3 DEF LifeOf
<1>5. QED
  BY <1>1, <1>2, <1>3, <1>4, LifeStep

LEMMA LifeBegins == Init => OpeningType /\ Life
<1> SUFFICES ASSUME Init PROVE OpeningType /\ Life
  OBVIOUS
<1>1. OpeningType
  BY FreshType, NoCallType DEF Init, OpeningType, FilesType, KantaType, OpenType
<1>2. CancelledBefore(mishaps)
  BY DEF Init, CancelledBefore
<1>3. ASSUME NEW i \in Instances PROVE LifeOf(i)
  <2>1. Unserved(i)
    BY NoCallType, OpeningAssumption DEF Init, Unserved
  <2>2. Rest(kanta[i], i \in closing, mishaps)
    BY DEF Init, Fresh, Rest, Tidy, OwesNothing
  <2>3. QED
    BY <2>1, <2>2 DEF LifeOf
<1>4. QED
  BY <1>1, <1>2, <1>3 DEF Life

LEMMA LifeGoesOn == OpeningType /\ Pending /\ Life /\ [Next]_vars => Life'
<1> SUFFICES ASSUME OpeningType, Pending, Life, [Next]_vars PROVE Life'
  OBVIOUS
<1>1. ASSUME NEW o \in Openers, NEW i \in Instances, NEW mode \in Modes, Call(o, i, mode) PROVE Life'
  BY <1>1, LifeCall
<1>2. ASSUME NEW o \in Openers, OpenFile(o) \/ ReadAgain(o) \/ LockAndRead(o) \/ OpenRefused(o) PROVE Life'
  BY <1>2, LifeOpensFile, LifeReads
<1>3. ASSUME NEW o \in Openers,
             RejectEmpty(o) \/ RejectEmptyReadonly(o) \/ Proceed(o) \/ LoadRaises(o) \/ LoadInvalid(o) \/ Load(o)
      PROVE  Life'
  BY <1>3, LifeRejected, LifeProceeds, LifeLoads
<1>4. ASSUME NEW o \in Openers, \/ LoadMigrated(o) \/ RecordMigration(o) \/ RecordingRaises(o)
                                \/ Bootstrap(o) \/ BootstrapFails(o) \/ Unlink(o) \/ Cancel(o)
      PROVE  Life'
  BY <1>4, LifeRecords, LifeBootstraps, LifeCancelled
<1>5. ASSUME NEW i \in Instances,
             Commit(i) \/ Flush(i) \/ FlushesOverlap(i) \/ Reopen(i) \/ FlushFails(i) \/ LoopDies(i)
      PROVE  Life'
  BY <1>5, LifeCommits, LifeFlushes, LifeOverlaps
<1>6. ASSUME NEW i \in Instances, CloseBegin(i) \/ CloseEnd(i) \/ CloseRaises(i) \/ Crash(i)
      PROVE  Life'
  BY <1>6, LifeCloses, LifeCrashes
<1>7. CASE UNCHANGED vars
  BY <1>7 DEF vars, Life, CancelledBefore, LifeOf, Unserved, ServedBy
<1>8. QED
  BY <1>1, <1>2, <1>3, <1>4, <1>5, <1>6, <1>7 DEF Next

LEMMA LifeAlways == Spec => [](OpeningType /\ Pending /\ Life)
<1>1. Init => OpeningType /\ Pending /\ Life
  BY TypesBegin, LifeBegins
<1>2. OpeningType /\ Pending /\ Life /\ [Next]_vars => (OpeningType /\ Pending /\ Life)'
  BY TypeKept, PendingKept, LifeGoesOn
<1>3. QED
  BY <1>1, <1>2, PTL DEF Spec

LEMMA LifeMeansQuiet ==
  ASSUME OpeningType, Life
  PROVE  ClosedIsQuiet /\ OpenedIsServed
<1>1. ASSUME NEW i \in Instances, ~Busy(i), "overlap" \notin mishaps
      PROVE  Rest(kanta[i], FALSE, mishaps) /\ CancelledBefore(mishaps)
  <2>1. LifeOf(i) /\ i \notin closing /\ \A o \in Openers : open[o].of # i
    BY <1>1 DEF Life, Busy
  <2>2. Rest(kanta[i], i \in closing, mishaps)
    BY <2>1 DEF LifeOf, ServedBy
  <2>3. QED
    BY <1>1, <2>1, <2>2 DEF Rest, Life
<1>2. ClosedIsQuiet
  BY <1>1 DEF ClosedIsQuiet, Rest, Tidy, OwesNothing
<1>3. OpenedIsServed
  BY <1>1 DEF OpenedIsServed, CancelledBefore, Rest, Tidy
<1>4. QED
  BY <1>2, <1>3

(* As long as no open() is cancelled and opens and closes of an instance   *)
(* follow each other: one that is not open has released its file and left  *)
(* no loop behind, in whatever way its open() and close() ended.  It owes  *)
(* no record either, unless a write was refused, a transaction ran outside *)
(* open() and close(), or a failed bootstrap left one.                     *)
THEOREM ClosedAlwaysQuiet == Spec => []ClosedIsQuiet
BY LifeAlways, LifeMeansQuiet, PTL

(* As long as no open() raises half-way or is cancelled and opens and      *)
(* closes of an instance follow each other: an opened writer holds the     *)
(* lock of its file, and one loop writes what it queues, until a write is  *)
(* refused or two flushes overlap, which may end the loop with an error.   *)
THEOREM OpenedAlwaysServed == Spec => []OpenedIsServed
BY LifeAlways, LifeMeansQuiet, PTL

-----------------------------------------------------------------------------
(* Logs *)

EndOf(log) == IF log = <<>> THEN 0 ELSE Last(log).to

(* The records q continue the log, and lead to the state s.                *)
Continues(log, q, s) == Chained(log \o q) /\ EndOf(log \o q) = s

Fits(log, n) ==
  \/ log[n].from = IF n = 1 THEN 0 ELSE log[n - 1].to
  \/ \E m \in 1 .. n - 1 : log[m] = log[n]

LEMMA ChainedFits == \A log : Chained(log) <=> \A n \in DOMAIN log : Fits(log, n)
BY DEF Chained, Fits

LEMMA FitsMeans ==
  \A log, n : Fits(log, n) /\ n # 1 =>
    log[n].from = log[n - 1].to \/ \E m \in 1 .. n - 1 : log[m] = log[n]
BY DEF Fits

(* A record that fits still does when only what comes after it differs.    *)
LEMMA FitsStill ==
  ASSUME NEW log, NEW longer, NEW n \in Nat \ {0}, \A m \in 1 .. n : longer[m] = log[m], Fits(log, n)
  PROVE  Fits(longer, n)
<1>1. longer[n] = log[n] /\ (n # 1 => longer[n - 1] = log[n - 1])
  OBVIOUS
<1>2. \A m \in 1 .. n - 1 : longer[m] = log[m]
  OBVIOUS
<1>3. CASE log[n].from = IF n = 1 THEN 0 ELSE log[n - 1].to
  BY <1>1, <1>3 DEF Fits
<1>4. CASE \E m \in 1 .. n - 1 : log[m] = log[n]
  BY <1>1, <1>2, <1>4 DEF Fits
<1>5. QED
  BY <1>3, <1>4 DEF Fits

LEMMA Joined ==
  ASSUME NEW log \in Seq(Change), NEW q \in Seq(Change)
  PROVE  /\ log \o q \in Seq(Change) /\ Len(log) \in Nat /\ Len(q) \in Nat /\ Len(log \o q) = Len(log) + Len(q)
         /\ DOMAIN log = 1 .. Len(log) /\ DOMAIN q = 1 .. Len(q) /\ DOMAIN (log \o q) = 1 .. Len(log) + Len(q)
         /\ \A m \in 1 .. Len(log) : (log \o q)[m] = log[m]
         /\ \A m \in 1 .. Len(q) : (log \o q)[Len(log) + m] = q[m]
OBVIOUS

(* What was in the log already may be written to it again.                 *)
LEMMA ChainedRepeats ==
  ASSUME NEW log \in Seq(Change), NEW q \in Seq(Change), Chained(log),
         \A n \in DOMAIN q : \E m \in DOMAIN log : log[m] = q[n]
  PROVE  Chained(log \o q)
<1> DEFINE longer == log \o q
<1>1. /\ Len(log) \in Nat /\ Len(q) \in Nat
      /\ DOMAIN log = 1 .. Len(log) /\ DOMAIN q = 1 .. Len(q) /\ DOMAIN longer = 1 .. Len(log) + Len(q)
      /\ \A m \in 1 .. Len(log) : longer[m] = log[m]
      /\ \A m \in 1 .. Len(q) : longer[Len(log) + m] = q[m]
  BY Joined
<1> HIDE DEF longer
<1>2. ASSUME NEW n \in DOMAIN longer PROVE Fits(longer, n)
  <2>1. CASE n <= Len(log)
    <3>1. n \in Nat \ {0} /\ n \in DOMAIN log /\ \A m \in 1 .. n : longer[m] = log[m]
      BY <1>1, <2>1
    <3>2. Fits(log, n)
      BY <3>1, ChainedFits
    <3>3. QED
      BY <3>1, <3>2, FitsStill
  <2>2. CASE ~(n <= Len(log))
    <3>1. n - Len(log) \in 1 .. Len(q) /\ n = Len(log) + (n - Len(log))
      BY <1>1, <2>2
    <3>2. longer[n] = q[n - Len(log)]
      BY <1>1, <3>1
    <3>3. PICK m \in DOMAIN log : log[m] = q[n - Len(log)]
      BY <1>1, <3>1
    <3>4. longer[m] = longer[n]
      BY <1>1, <3>2, <3>3
    <3>5. m \in 1 .. n - 1
      BY <1>1, <2>2, <3>3
    <3>6. QED
      BY <3>4, <3>5 DEF Fits
  <2>3. QED
    BY <2>1, <2>2
<1>3. Chained(longer)
  BY <1>2, ChainedFits
<1>4. QED
  BY <1>3 DEF longer

(* The records up to some point are chained, as all of them are.           *)
LEMMA ChainedPrefix ==
  ASSUME NEW log \in Seq(Change), NEW q \in Seq(Change), Chained(log \o q), NEW n \in 0 .. Len(q)
  PROVE  SubSeq(q, 1, n) \in Seq(Change) /\ Chained(log \o SubSeq(q, 1, n))
<1> DEFINE b == SubSeq(q, 1, n)
           whole == log \o q
           part == log \o b
<1>1. b \in Seq(Change) /\ Len(b) = n /\ n \in Nat /\ n <= Len(q) /\ Len(q) \in Nat /\ \A j \in 1 .. n : b[j] = q[j]
  OBVIOUS
<1> HIDE DEF b
<1>2. /\ Len(log) \in Nat /\ DOMAIN whole = 1 .. Len(log) + Len(q) /\ DOMAIN part = 1 .. Len(log) + n
      /\ \A m \in 1 .. Len(log) : whole[m] = log[m] /\ part[m] = log[m]
      /\ \A m \in 1 .. Len(q) : whole[Len(log) + m] = q[m]
      /\ \A m \in 1 .. n : part[Len(log) + m] = b[m]
  BY <1>1, Joined
<1> HIDE DEF whole, part
<1>3. \A m \in DOMAIN part : part[m] = whole[m]
  <2> SUFFICES ASSUME NEW m \in DOMAIN part PROVE part[m] = whole[m]
    OBVIOUS
  <2>1. CASE m <= Len(log)
    BY <1>2, <2>1
  <2>2. CASE ~(m <= Len(log))
    <3>1. m - Len(log) \in 1 .. n /\ m - Len(log) \in 1 .. Len(q) /\ m = Len(log) + (m - Len(log))
      BY <1>1, <1>2, <2>2
    <3>2. part[m] = b[m - Len(log)] /\ whole[m] = q[m - Len(log)]
      BY <1>2, <3>1
    <3>3. QED
      BY <1>1, <3>1, <3>2
  <2>3. QED
    BY <2>1, <2>2
<1>4. Chained(whole)
  BY DEF whole
<1>5. ASSUME NEW m \in DOMAIN part PROVE Fits(part, m)
  <2>1. m \in Nat \ {0} /\ m \in DOMAIN whole /\ \A j \in 1 .. m : j \in DOMAIN part
    BY <1>1, <1>2
  <2>2. Fits(whole, m) /\ \A j \in 1 .. m : part[j] = whole[j]
    BY <1>3, <1>4, <2>1, ChainedFits
  <2>3. QED
    BY <2>1, <2>2, FitsStill
<1>6. Chained(part)
  BY <1>5, ChainedFits
<1>7. QED
  BY <1>1, <1>6 DEF b, part

(* Some of the records are written, and then all of them.                  *)
LEMMA ChainedTwice ==
  ASSUME NEW log \in Seq(Change), NEW q \in Seq(Change), Chained(log \o q), NEW n \in 0 .. Len(q)
  PROVE  Chained(log \o (SubSeq(q, 1, n) \o q))
<1> DEFINE b == SubSeq(q, 1, n)
           part == log \o b
           whole == log \o q
           longer == part \o q
           L == Len(log)
<1>1. b \in Seq(Change) /\ Len(b) = n /\ n \in Nat /\ n <= Len(q) /\ Len(q) \in Nat /\ \A j \in 1 .. n : b[j] = q[j]
  OBVIOUS
<1>2. Chained(part)
  BY ChainedPrefix
<1>3. log \o (b \o q) = longer
  BY <1>1
<1> HIDE DEF b
<1>4. /\ part \in Seq(Change) /\ Len(part) = L + n /\ L \in Nat
      /\ \A m \in 1 .. L : part[m] = log[m] /\ whole[m] = log[m]
      /\ \A m \in 1 .. n : part[L + m] = b[m]
      /\ \A m \in 1 .. Len(q) : whole[L + m] = q[m]
      /\ DOMAIN part = 1 .. L + n /\ DOMAIN whole = 1 .. L + Len(q)
  BY <1>1, Joined
<1> HIDE DEF part, whole
<1>5. /\ DOMAIN longer = 1 .. L + n + Len(q)
      /\ \A m \in 1 .. L + n : longer[m] = part[m]
      /\ \A m \in 1 .. Len(q) : longer[L + n + m] = q[m]
  <2>1. part \in Seq(Change) /\ Len(part) = L + n
    BY <1>4
  <2>2. /\ DOMAIN longer = 1 .. Len(part) + Len(q)
        /\ \A m \in 1 .. Len(part) : longer[m] = part[m]
        /\ \A m \in 1 .. Len(q) : longer[Len(part) + m] = q[m]
    BY <2>1, Joined
  <2>3. QED
    BY <2>1, <2>2
<1> HIDE DEF longer, L
<1>6. CASE n = 0
  <2>1. b = <<>>
    BY <1>6 DEF b
  <2>2. b \o q = q
    BY <2>1
  <2>3. QED
    BY <2>2 DEF b
<1>7. CASE n # 0
  <2>1. ASSUME NEW m \in DOMAIN longer PROVE Fits(longer, m)
    <3>1. m \in Nat \ {0} /\ m <= L + n + Len(q)
      BY <1>1, <1>4, <1>5
    <3>2. CASE m <= L + n
      <4>1. m \in DOMAIN part /\ \A j \in 1 .. m : longer[j] = part[j]
        BY <1>1, <1>4, <1>5, <3>1, <3>2
      <4>2. Fits(part, m)
        BY <1>2, <4>1, ChainedFits
      <4>3. QED
        BY <3>1, <4>1, <4>2, FitsStill
    <3>3. CASE m > L + n /\ m <= L + n + n
      <4> DEFINE j == m - (L + n)
      <4>1. j \in 1 .. n /\ j \in 1 .. Len(q) /\ m = L + n + j
        <5>1. n \in Nat /\ n <= Len(q) /\ Len(q) \in Nat /\ L \in Nat /\ m \in Nat
          BY <1>1, <1>4, <3>1
        <5>2. j \in 1 .. n /\ m = L + n + j
          BY <3>3, <5>1
        <5> HIDE DEF j
        <5>3. j \in 1 .. Len(q)
          BY <5>1, <5>2
        <5>4. QED
          BY <5>2, <5>3
      <4>2. longer[m] = q[j]
        BY <1>5, <4>1
      <4> HIDE DEF j
      <4>3. L + j \in 1 .. L + n /\ L + j \in 1 .. m - 1
        BY <1>1, <1>4, <1>7, <4>1
      <4>4. longer[L + j] = b[j]
        BY <1>4, <1>5, <4>1, <4>3
      <4>5. longer[L + j] = longer[m]
        BY <1>1, <4>1, <4>2, <4>4
      <4>6. QED
        BY <4>3, <4>5 DEF Fits
    <3>4. CASE m > L + n + n
      <4> DEFINE j == m - (L + n)
      <4>1. j \in 2 .. Len(q) /\ m = L + n + j /\ j - 1 \in 1 .. Len(q) /\ L + n + (j - 1) = m - 1
        <5>1. n \in Nat /\ n # 0 /\ n <= Len(q) /\ Len(q) \in Nat /\ L \in Nat /\ m \in Nat
          BY <1>1, <1>4, <1>7, <3>1
        <5>2. m > L + n + n /\ m <= L + n + Len(q)
          BY <3>1, <3>4
        <5>3. j \in Int /\ m = L + n + j
          BY <5>1
        <5> HIDE DEF j
        <5>4. j > n /\ j <= Len(q)
          BY <5>1, <5>2, <5>3
        <5>5. j \in 2 .. Len(q) /\ j - 1 \in 1 .. Len(q)
          BY <5>1, <5>3, <5>4
        <5>6. L + n + (j - 1) = m - 1
          BY <5>1, <5>3
        <5>7. QED
          BY <5>3, <5>5, <5>6
      <4>2. longer[m] = q[j] /\ longer[m - 1] = q[j - 1]
        BY <1>1, <1>5, <4>1
      <4> HIDE DEF j
      <4>3. whole[L + j] = q[j] /\ whole[L + j - 1] = q[j - 1] /\ L + j \in DOMAIN whole
        <5>1. L + j - 1 = L + (j - 1) /\ j \in 1 .. Len(q) /\ L + j \in 1 .. L + Len(q)
          BY <1>1, <1>4, <4>1
        <5>2. QED
          BY <1>4, <4>1, <5>1
      <4>4. Fits(whole, L + j)
        <5>1. Chained(whole)
          BY DEF whole
        <5>2. QED
          BY <4>3, <5>1, ChainedFits
      <4>5. L + j # 1 /\ m # 1
        BY <1>1, <1>4, <4>1
      <4>6. CASE whole[L + j].from = whole[L + j - 1].to
        BY <4>2, <4>3, <4>5, <4>6 DEF Fits
      <4>7. ASSUME NEW p \in 1 .. L + j - 1, whole[p] = whole[L + j]
            PROVE  Fits(longer, m)
        <5>1. CASE p <= L
          <6>1. p \in 1 .. L /\ p \in 1 .. L + n /\ p \in 1 .. m - 1
            BY <1>1, <1>4, <4>1, <5>1
          <6>2. longer[p] = whole[p]
            BY <1>4, <1>5, <6>1
          <6>3. QED
            BY <4>2, <4>3, <4>7, <6>1, <6>2 DEF Fits
        <5>2. CASE ~(p <= L)
          <6>1. p - L \in 1 .. Len(q) /\ p = L + (p - L) /\ L + n + (p - L) = p + n /\ p + n \in 1 .. m - 1
            BY <1>1, <1>4, <4>1, <5>2
          <6>2. whole[p] = q[p - L] /\ longer[p + n] = q[p - L]
            BY <1>4, <1>5, <6>1
          <6>3. longer[p + n] = longer[m]
            BY <4>2, <4>3, <4>7, <6>2
          <6>4. QED
            BY <6>1, <6>3 DEF Fits
        <5>3. QED
          BY <5>1, <5>2
      <4>8. whole[L + j].from = whole[L + j - 1].to \/ \E p \in 1 .. L + j - 1 : whole[p] = whole[L + j]
        <5> DEFINE d == L + j
        <5>1. Fits(whole, d) /\ d # 1
          BY <4>4, <4>5
        <5> HIDE DEF d
        <5>2. whole[d].from = whole[d - 1].to \/ \E p \in 1 .. d - 1 : whole[p] = whole[d]
          BY <5>1, FitsMeans
        <5>3. d - 1 = L + j - 1 /\ d = L + j
          BY <1>4, <4>1 DEF d
        <5>4. QED
          BY <5>2, <5>3
      <4>9. QED
        BY <4>6, <4>7, <4>8
    <3>5. QED
      BY <1>1, <1>4, <3>1, <3>2, <3>3, <3>4
  <2>2. Chained(longer)
    BY <2>1, ChainedFits
  <2>3. QED
    BY <1>3, <2>2 DEF b
<1>8. QED
  BY <1>6, <1>7

(* All of the records are written, and then some of them again.            *)
LEMMA ChainedAgain ==
  ASSUME NEW log \in Seq(Change), NEW q \in Seq(Change), Chained(log \o q), NEW n \in 0 .. Len(q)
  PROVE  Chained(log \o (q \o SubSeq(q, 1, n)))
<1> DEFINE b == SubSeq(q, 1, n)
           whole == log \o q
<1>1. b \in Seq(Change) /\ DOMAIN b = 1 .. n /\ \A j \in 1 .. n : b[j] = q[j] /\ j \in 1 .. Len(q)
  OBVIOUS
<1>2. log \o (q \o b) = whole \o b
  <2>1. \A x, y, z \in Seq(Change) : x \o (y \o z) = (x \o y) \o z
    OBVIOUS
  <2>2. b \in Seq(Change)
    BY <1>1
  <2> HIDE DEF b
  <2>3. QED
    BY <2>1, <2>2
<1>3. /\ whole \in Seq(Change) /\ Len(log) \in Nat /\ DOMAIN whole = 1 .. Len(log) + Len(q) /\ Len(q) \in Nat
      /\ \A m \in 1 .. Len(q) : whole[Len(log) + m] = q[m]
  BY Joined
<1> HIDE DEF b, whole
<1>4. ASSUME NEW j \in DOMAIN b PROVE \E m \in DOMAIN whole : whole[m] = b[j]
  <2>1. j \in 1 .. Len(q) /\ b[j] = q[j]
    BY <1>1
  <2>2. Len(log) + j \in DOMAIN whole
    BY <1>3, <2>1
  <2>3. QED
    BY <1>3, <2>1, <2>2
<1>5. Chained(whole)
  BY DEF whole
<1>6. Chained(whole \o b)
  BY <1>1, <1>3, <1>4, <1>5, ChainedRepeats
<1>7. QED
  BY <1>2, <1>6 DEF b

LEMMA ChainedAppend ==
  ASSUME NEW log \in Seq(Change), Chained(log), NEW n \in Nat
  PROVE  /\ Chained(Append(log, [from |-> EndOf(log), to |-> n]))
         /\ EndOf(Append(log, [from |-> EndOf(log), to |-> n])) = n
<1> DEFINE c == [from |-> EndOf(log), to |-> n]
           longer == Append(log, c)
<1>1. c.from = EndOf(log) /\ c.to = n
  OBVIOUS
<1>2. Len(log) \in Nat /\ DOMAIN log = 1 .. Len(log)
  OBVIOUS
<1> HIDE DEF c
<1>3. /\ Len(longer) = Len(log) + 1 /\ DOMAIN longer = 1 .. Len(log) + 1
      /\ longer[Len(log) + 1] = c /\ \A m \in 1 .. Len(log) : longer[m] = log[m]
      /\ longer # <<>>
  <2>1. Append(log, c) = log \o <<c>>
    OBVIOUS
  <2>2. QED
    BY <1>2
<1>4. EndOf(log) = IF Len(log) = 0 THEN 0 ELSE log[Len(log)].to
  BY DEF EndOf, Last
<1> HIDE DEF longer
<1>5. ASSUME NEW m \in DOMAIN longer PROVE Fits(longer, m)
  <2>1. CASE m \in 1 .. Len(log)
    <3>1. m \in Nat \ {0} /\ \A j \in 1 .. m : longer[j] = log[j]
      BY <1>2, <1>3, <2>1
    <3>2. Fits(log, m)
      BY <1>2, <2>1, ChainedFits
    <3>3. QED
      BY <3>1, <3>2, FitsStill
  <2>2. CASE m = Len(log) + 1
    <3>1. longer[m].from = EndOf(log)
      BY <1>1, <1>3, <2>2
    <3>2. CASE Len(log) = 0
      BY <1>4, <2>2, <3>1, <3>2 DEF Fits
    <3>3. CASE Len(log) # 0
      <4>1. m # 1 /\ m - 1 = Len(log) /\ Len(log) \in 1 .. Len(log)
        BY <1>2, <2>2, <3>3
      <4>2. longer[m - 1] = log[Len(log)]
        BY <1>3, <4>1
      <4>3. QED
        BY <1>4, <3>1, <3>3, <4>1, <4>2 DEF Fits
    <3>4. QED
      BY <3>2, <3>3
  <2>3. QED
    BY <1>2, <1>3, <2>1, <2>2
<1>6. EndOf(longer) = n
  BY <1>1, <1>2, <1>3 DEF EndOf, Last
<1>7. QED
  BY <1>5, <1>6, ChainedFits DEF longer, c

LEMMA ContinuesAppend ==
  ASSUME NEW log \in Seq(Change), NEW q \in Seq(Change), NEW s, Continues(log, q, s), NEW n \in Nat
  PROVE  Continues(log, Append(q, [from |-> s, to |-> n]), n)
<1>1. log \o q \in Seq(Change) /\ Chained(log \o q) /\ EndOf(log \o q) = s
  BY DEF Continues
<1> DEFINE c == [from |-> s, to |-> n]
<1>2. s \in Nat
  <2>1. \A l \in Seq(Change) : EndOf(l) \in Nat
    <3> SUFFICES ASSUME NEW l \in Seq(Change) PROVE EndOf(l) \in Nat
      OBVIOUS
    <3>1. l = <<>> \/ Last(l) \in Change
      BY DEF Last
    <3>2. QED
      BY <3>1 DEF EndOf, Change
  <2>2. QED
    BY <1>1, <2>1
<1>3. c \in Change
  BY <1>2 DEF Change
<1>4. Chained(Append(log \o q, c)) /\ EndOf(Append(log \o q, c)) = n
  BY <1>1, ChainedAppend
<1> HIDE DEF c
<1>5. log \o Append(q, c) = Append(log \o q, c)
  BY <1>3
<1>6. Continues(log, Append(q, c), n)
  BY <1>4, <1>5 DEF Continues
<1>7. QED
  BY <1>6 DEF c

LEMMA ContinuesWritten ==
  ASSUME NEW log \in Seq(Change), NEW q \in Seq(Change), NEW s \in Nat, Continues(log, q, s)
  PROVE  /\ Chained(log \o q) /\ Continues(log \o q, <<>>, s)
         /\ Chained(log \o q \o <<[from |-> s, to |-> s]>>)
         /\ Continues(log \o q \o <<[from |-> s, to |-> s]>>, <<>>, s)
<1>1. log \o q \in Seq(Change) /\ Chained(log \o q) /\ EndOf(log \o q) = s
  BY DEF Continues
<1>2. [from |-> s, to |-> s] \in Change
  BY DEF Change
<1>3. \A l \in Seq(Change) : l \o <<>> = l
  OBVIOUS
<1>4. \A l \in Seq(Change), c \in Change : l \o <<c>> = Append(l, c) /\ Append(l, c) \in Seq(Change)
  OBVIOUS
<1>5. Chained(Append(log \o q, [from |-> s, to |-> s])) /\ EndOf(Append(log \o q, [from |-> s, to |-> s])) = s
  BY <1>1, ChainedAppend
<1>6. QED
  BY <1>1, <1>2, <1>3, <1>4, <1>5 DEF Continues

LEMMA ContinuesRead ==
  ASSUME NEW log \in Seq(Change), Chained(log)
  PROVE  Continues(log, <<>>, EndOf(log))
<1>1. log \o <<>> = log
  OBVIOUS
<1>2. QED
  BY <1>1 DEF Continues

LEMMA EmptyChained == Chained(<<>>) /\ EndOf(<<>>) = 0
BY DEF Chained, EndOf

-----------------------------------------------------------------------------
(* Whatever became of the path, no file has two writers. *)
Distinct == \A i, j \in Instances : Writer(i) /\ Writer(j) /\ kanta[i].fd = kanta[j].fd => i = j

LEMMA DistinctQuiet ==
  ASSUME Distinct, Quiet
  PROVE  Distinct'
<1>1. \A i \in Instances : Writer(i)' => Writer(i) /\ kanta'[i].fd = kanta[i].fd
  BY DEF Quiet, Keeps, Writer
<1>2. QED
  BY <1>1 DEF Distinct

LEMMA DistinctTakes ==
  ASSUME Distinct, NEW i \in Instances, \A j \in Instances : j # i => kanta'[j] = kanta[j],
         kanta'[i].writable => \A j \in Instances : Writer(j) => kanta[j].fd # kanta'[i].fd
  PROVE  Distinct'
BY DEF Distinct, Writer

LEMMA DistinctGoesOn ==
  ASSUME OpeningType, Pending, IInv, Distinct, [Next]_vars
  PROVE  Distinct'
<1>1. \A j \in Instances : kanta[j].fd \in 0 .. Len(files)
  BY DEF OpeningType, KantaType
<1>2. Len(files) \in Nat
  BY DEF OpeningType, FilesType
<1>3. \A j \in Instances : kanta[j].fd # Len(files) + 1
  BY <1>1, <1>2
<1>4. ASSUME NEW o \in Openers, OpenFile(o) PROVE kanta' = kanta
  BY <1>4, OpenFileEffect
<1>5. ASSUME NEW o \in Openers, LockAndRead(o) PROVE Distinct'
  <2> DEFINE w == open[o].mode # "readonly"
             f == open[o].fd
             k == kanta[open[o].of]
  <2>1. open[o].of \in Instances
        /\ Becomes(open[o].of, k.opened, k.readonly, f, w, k.state, k.pending, k.flush_failed, k.task, k.orphans)
    BY <1>5, LockAndReadEffect
  <2>2. w => \A j \in Instances : Writer(j) => kanta[j].fd # f
    BY <1>5 DEF LockAndRead, Locked, Writer
  <2> HIDE DEF w, f
  <2>3. kanta'[open[o].of].fd = f /\ kanta'[open[o].of].writable = w
        /\ \A j \in Instances : j # open[o].of => kanta'[j] = kanta[j]
    BY <2>1 DEF Becomes, Fields
  <2>4. QED
    BY <2>1, <2>2, <2>3, DistinctTakes
<1>6. ASSUME NEW i \in Instances, Reopen(i) PROVE Distinct'
  <2>1. \A j \in Instances : Writer(j) => kanta[j].fd # path'
    BY <1>3, <1>6 DEF Reopen, Opened, Locked, Writer
  <2>2. kanta'[i].fd = path' /\ \A j \in Instances : j # i => kanta'[j] = kanta[j]
    BY <1>6, ReopenEffect DEF Becomes, Fields
  <2>3. QED
    BY <2>1, <2>2, DistinctTakes
<1>7. ASSUME NEW i \in Instances, Crash(i) PROVE Distinct'
  BY <1>7, CrashType, DistinctTakes DEF Fresh
<1>8. CASE kanta' = kanta
  BY <1>8 DEF Distinct, Writer
<1>9. ASSUME NEW o \in Openers,
             \/ \E i \in Instances, mode \in Modes : Call(o, i, mode)
             \/ ReadAgain(o) \/ OpenRefused(o)
             \/ RejectEmpty(o) \/ RejectEmptyReadonly(o) \/ Proceed(o)
             \/ LoadRaises(o) \/ LoadInvalid(o) \/ Load(o) \/ LoadMigrated(o)
             \/ RecordMigration(o) \/ RecordingRaises(o)
             \/ Bootstrap(o) \/ BootstrapFails(o) \/ Cancel(o)
      PROVE  Distinct'
  BY <1>9, OpenSteps, DistinctQuiet
<1>10. ASSUME NEW i \in Instances,
              \/ Commit(i) \/ Flush(i) \/ FlushesOverlap(i) \/ FlushFails(i) \/ LoopDies(i)
              \/ CloseBegin(i) \/ CloseEnd(i) \/ CloseRaises(i)
       PROVE  Distinct'
  BY <1>10, InstanceSteps, DistinctQuiet
<1>11. CASE \E o \in Openers : Unlink(o)
  BY <1>8, <1>11 DEF Unlink
<1>12. CASE UNCHANGED vars
  BY <1>8, <1>12 DEF vars
<1>13. CASE Next
  <2>1. CASE \E o \in Openers : OpenFile(o) \/ LockAndRead(o)
    BY <1>4, <1>5, <1>8, <2>1
  <2>2. CASE \E i \in Instances : Reopen(i) \/ Crash(i)
    BY <1>6, <1>7, <2>2
  <2>3. QED
    BY <1>9, <1>10, <1>11, <1>13, <2>1, <2>2 DEF Next
<1>14. QED
  BY <1>12, <1>13

-----------------------------------------------------------------------------
(* What an instance, and the call of open() that serves it, know of the    *)
(* log: the state that it and the pending records lead to, or what it said *)
(* when it was read, or that the pending records may be written to it      *)
(* (the last conjunct: what a cancelled open() left queued, and may have   *)
(* written already).                                                       *)
Traces(k, c, log) ==
  /\ k.task # "none" \/ c.pc = "recording" => k.flush_failed \/ Continues(log, k.pending, k.state)
  /\ c.pc \in {"read", "loading", "bootstrapping"} /\ ~k.readonly =>
       c.content = log /\ (c.pc = "bootstrapping" => log = <<>>)
  /\ c.pc = "idle" /\ k.opened /\ ~k.readonly => k.flush_failed \/ Chained(log \o k.pending)

Follows(i) ==
  /\ Unserved(i) => Traces(kanta[i], NoCall, files[kanta[i].fd])
  /\ \A o \in Openers : open[o].of = i => Traces(kanta[i], open[o], files[kanta[i].fd])

AllChained == \A n \in DOMAIN files : Chained(files[n])
Chain == Regular => AllChained /\ \A i \in Instances : Follows(i)

(* Whoever knows something of a log has it locked.                         *)
Dependent(k, c) ==
  \/ k.task # "none" \/ c.pc = "recording"
  \/ c.pc \in {"read", "loading", "bootstrapping"} /\ ~k.readonly
  \/ c.pc = "idle" /\ k.opened /\ ~k.readonly

LEMMA RegularBefore ==
  ASSUME mishaps \subseteq mishaps', Regular'
  PROVE  Regular /\ {"overlap", "flushes", "early", "leftover", "unlocked"} \cap mishaps' = {}
BY DEF Regular

LEMMA DependentsWrite ==
  ASSUME Life, Regular, NEW i \in Instances
  PROVE  /\ Unserved(i) /\ Dependent(kanta[i], NoCall) => Writer(i)
         /\ \A o \in Openers : open[o].of = i /\ Dependent(kanta[i], open[o]) => Writer(i)
<1>1. LifeOf(i) /\ "unlocked" \notin mishaps
  BY DEF Life, Regular
<1>2. CASE Unserved(i) /\ Rest(kanta[i], i \in closing, mishaps)
  <2>1. kanta[i].task # "none" => Writer(i)
    BY <1>1, <1>2 DEF Rest, Tidy, Writer
  <2>2. ~(NoCall.pc \in {"recording", "read", "loading", "bootstrapping"})
    BY NoCallType
  <2>3. kanta[i].opened /\ ~kanta[i].readonly => Writer(i)
    BY <1>1, <1>2 DEF Rest, Tidy, Writer
  <2>4. QED
    BY <1>2, <2>1, <2>2, <2>3 DEF Unserved, Dependent
<1>3. ASSUME NEW o \in Openers, ServedBy(i, o), Serving(kanta[i], open[o].pc, open[o].mode, mishaps)
      PROVE  /\ Unserved(i) /\ Dependent(kanta[i], NoCall) => Writer(i)
             /\ \A p \in Openers : open[p].of = i /\ Dependent(kanta[i], open[p]) => Writer(i)
  <2>1. ~Unserved(i) /\ \A p \in Openers : open[p].of = i => p = o
    BY <1>3 DEF Unserved, ServedBy
  <2>2. Dependent(kanta[i], open[o]) => Writer(i)
    BY <1>1, <1>3 DEF Serving, Tidy, Writer, Dependent
  <2>3. QED
    BY <2>1, <2>2
<1>4. QED
  BY <1>1, <1>2, <1>3 DEF LifeOf

LEMMA TracesNothing ==
  ASSUME NEW k, NEW c, NEW log, ~Dependent(k, c)
  PROVE  Traces(k, c, log)
BY DEF Traces, Dependent

LEMMA FollowsOn ==
  ASSUME Life, Regular, NEW j \in Instances, Follows(j), kanta'[j] = kanta[j],
         \A p \in Openers : Alike(open'[p], open[p]) \/ (open'[p].of # j /\ open[p].of # j),
         Writer(j) => files'[kanta[j].fd] = files[kanta[j].fd]
  PROVE  Follows(j)'
<1> DEFINE log == files[kanta[j].fd]
           log2 == files'[kanta'[j].fd]
<1>1. Unserved(j)' <=> Unserved(j)
  BY DEF Unserved, Alike
<1>2. Unserved(j) => Traces(kanta'[j], NoCall, log2)
  <2>1. CASE Dependent(kanta[j], NoCall)
    BY <2>1, DependentsWrite DEF Follows
  <2>2. CASE ~Dependent(kanta[j], NoCall)
    BY <2>2, TracesNothing
  <2>3. QED
    BY <2>1, <2>2
<1>3. ASSUME NEW o \in Openers, open'[o].of = j PROVE Traces(kanta'[j], open'[o], log2)
  <2>1. Alike(open'[o], open[o]) /\ open[o].of = j
    BY <1>3 DEF Alike
  <2>2. CASE Dependent(kanta[j], open[o])
    <3>1. log2 = log /\ Traces(kanta[j], open[o], log)
      BY <2>1, <2>2, DependentsWrite DEF Follows
    <3>2. QED
      BY <2>1, <3>1 DEF Traces, Alike
  <2>3. CASE ~Dependent(kanta[j], open[o])
    <3>1. ~Dependent(kanta'[j], open'[o])
      BY <2>1, <2>3 DEF Dependent, Alike
    <3>2. QED
      BY <3>1, TracesNothing
  <2>4. QED
    BY <2>2, <2>3
<1>4. QED
  BY <1>1, <1>2, <1>3 DEF Follows

(* A step of one instance writes to its own file, if to any. *)
OwnFile(i) == \A n \in DOMAIN files : files'[n] = files[n] \/ (Writer(i) /\ n = kanta[i].fd)

LEMMA ChainStep ==
  ASSUME OpeningType, Life, Distinct, Chain, NEW i \in Instances, mishaps \subseteq mishaps', OwnFile(i),
         \A j \in Instances : j # i => kanta'[j] = kanta[j],
         \A p \in Openers : \/ Alike(open'[p], open[p])
                            \/ open'[p].of \in {i, Nobody} /\ open[p].of \in {i, Nobody},
         Regular' => AllChained' /\ Follows(i)'
  PROVE  Chain'
<1> SUFFICES ASSUME Regular' PROVE AllChained' /\ \A j \in Instances : Follows(j)'
  BY DEF Chain
<1>1. ASSUME NEW j \in Instances, j # i PROVE Follows(j)'
  <2>1. Follows(j) /\ Regular
    BY RegularBefore DEF Chain
  <2>2. Writer(j) => files'[kanta[j].fd] = files[kanta[j].fd]
    <3>1. Writer(j) => kanta[j].fd \in DOMAIN files
      <4>1. kanta[j].fd \in 0 .. Len(files) /\ Len(files) \in Nat /\ DOMAIN files = 1 .. Len(files)
        BY DEF OpeningType, KantaType, FilesType
      <4>2. QED
        BY <4>1 DEF Writer
    <3>2. ~(Writer(i) /\ Writer(j) /\ kanta[i].fd = kanta[j].fd)
      BY <1>1 DEF Distinct
    <3>3. QED
      BY <3>1, <3>2 DEF OwnFile
  <2>3. \A p \in Openers : Alike(open'[p], open[p]) \/ (open'[p].of # j /\ open[p].of # j)
    BY <1>1, OpeningAssumption
  <2>4. QED
    BY <1>1, <2>1, <2>2, <2>3, FollowsOn
<1>2. QED
  BY <1>1

LEMMA ChainOpenerStep ==
  ASSUME OpeningType, Life, Distinct, Chain, NEW o \in Openers, NEW c, Moves(o, c),
         NEW i \in Instances, i = open[o].of, c = NoCall \/ c.of = i,
         \A j \in Instances : j # i => kanta'[j] = kanta[j], mishaps \subseteq mishaps', OwnFile(i),
         Regular' /\ AllChained /\ Serving(kanta[i], open[o].pc, open[o].mode, mishaps)
           /\ Traces(kanta[i], open[o], files[kanta[i].fd])
           => AllChained' /\ Traces(kanta'[i], c, files'[kanta'[i].fd])
  PROVE  Chain'
<1>1. c.of \in {i, Nobody}
  BY NoCallType
<1>2. \A p \in Openers : \/ Alike(open'[p], open[p])
                         \/ open'[p].of \in {i, Nobody} /\ open[p].of \in {i, Nobody}
  BY <1>1 DEF Moves
<1>3. ASSUME Regular' PROVE AllChained' /\ Follows(i)'
  <2>1. Regular /\ AllChained /\ Follows(i) /\ LifeOf(i)
    BY <1>3, RegularBefore DEF Chain, Life, Regular
  <2>2. ServedBy(i, o) /\ Serving(kanta[i], open[o].pc, open[o].mode, mishaps)
    BY <2>1 DEF LifeOf, Unserved, ServedBy
  <2>3. AllChained' /\ Traces(kanta'[i], c, files'[kanta'[i].fd])
    BY <1>3, <2>1, <2>2 DEF Follows
  <2>4. \A p \in Openers : p # o => open'[p].of # i
    BY <2>2 DEF Moves, Alike, ServedBy
  <2>5. CASE c = NoCall
    <3>1. open'[o].of # i
      BY <2>5, NoCallType, OpeningAssumption DEF Moves
    <3>2. QED
      BY <2>3, <2>4, <2>5, <3>1 DEF Follows
  <2>6. CASE c.of = i
    <3>1. open'[o] = c /\ ~Unserved(i)'
      BY <2>6 DEF Moves, Unserved
    <3>2. QED
      BY <2>3, <2>4, <3>1 DEF Follows
  <2>7. QED
    BY <2>5, <2>6
<1>4. QED
  BY <1>2, <1>3, ChainStep

(* c is the call of open() that serves i, or there is none. *)
Lives(i, c) ==
  \/ c = NoCall /\ Unserved(i) /\ Rest(kanta[i], i \in closing, mishaps)
  \/ /\ i \notin closing /\ c.of = i /\ \E o \in Openers : c = open[o]
     /\ Serving(kanta[i], c.pc, c.mode, mishaps)

LEMMA ChainInstanceStep ==
  ASSUME OpeningType, Life, Distinct, Chain, NEW i \in Instances, open' = open,
         \A j \in Instances : j # i => kanta'[j] = kanta[j], mishaps \subseteq mishaps', OwnFile(i),
         \A c : Regular' /\ AllChained /\ Lives(i, c) /\ Traces(kanta[i], c, files[kanta[i].fd])
                  => AllChained' /\ Traces(kanta'[i], c, files'[kanta'[i].fd])
  PROVE  Chain'
<1>1. \A p \in Openers : Alike(open'[p], open[p])
  BY DEF Alike
<1>2. ASSUME Regular' PROVE AllChained' /\ Follows(i)'
  <2>1. Regular /\ AllChained /\ Follows(i) /\ LifeOf(i)
    BY <1>2, RegularBefore DEF Chain, Life, Regular
  <2>2. CASE Unserved(i) /\ Rest(kanta[i], i \in closing, mishaps)
    <3>1. AllChained' /\ Traces(kanta'[i], NoCall, files'[kanta'[i].fd])
      BY <1>2, <2>1, <2>2 DEF Follows, Lives
    <3>2. QED
      BY <2>2, <3>1 DEF Follows, Unserved
  <2>3. ASSUME i \notin closing, NEW o \in Openers, ServedBy(i, o), Serving(kanta[i], open[o].pc, open[o].mode, mishaps)
        PROVE  AllChained' /\ Follows(i)'
    <3>1. open[o].of = i /\ Lives(i, open[o])
      BY <2>3 DEF ServedBy, Lives
    <3>2. AllChained' /\ Traces(kanta'[i], open[o], files'[kanta'[i].fd])
      BY <1>2, <2>1, <3>1 DEF Follows
    <3>3. QED
      BY <2>3, <3>1, <3>2 DEF Follows, Unserved, ServedBy
  <2>4. QED
    BY <2>1, <2>2, <2>3 DEF LifeOf
<1>3. QED
  BY <1>1, <1>2, ChainStep

LEMMA FilesChained ==
  ASSUME files' = files
  PROVE  (AllChained => AllChained') /\ \A i \in Instances : OwnFile(i)
BY DEF AllChained, OwnFile

(* A step of open() after which it knows nothing of the log. *)
LEMMA ChainForgets ==
  ASSUME OpeningType, Life, Distinct, Chain, NEW o \in Openers, NEW c, Moves(o, c),
         NEW i \in Instances, i = open[o].of, c = NoCall \/ c.of = i,
         \A j \in Instances : j # i => kanta'[j] = kanta[j], mishaps \subseteq mishaps', files' = files,
         Serving(kanta[i], open[o].pc, open[o].mode, mishaps) => ~Dependent(kanta'[i], c)
  PROVE  Chain'
BY FilesChained, TracesNothing, ChainOpenerStep

LEMMA NoCallKnows == \A k : Dependent(k, NoCall) <=> k.task # "none" \/ (k.opened /\ ~k.readonly)
BY NoCallType DEF Dependent

LEMMA ChainCall ==
  ASSUME OpeningType, Life, Distinct, Chain, NEW o \in Openers, NEW i \in Instances, NEW mode \in Modes, Call(o, i, mode)
  PROVE  Chain'
<1> DEFINE k == kanta[i]
           l == kanta'[i]
           c == [NoCall EXCEPT !.pc = "reading", !.of = i, !.mode = mode, !.existed = (path # 0)]
<1>1. l.task = k.task /\ \A j \in Instances : j # i => kanta'[j] = kanta[j]
  BY CallEffect DEF Becomes, Fields
<1>2. open[o].of = Nobody /\ ~k.opened /\ files' = files /\ mishaps \subseteq mishaps'
      /\ (Busy(i) => "overlap" \in mishaps')
  BY DEF Call, Misuse, Notes, OpeningType, OpenType, At
<1>3. open'[o].pc = "reading" /\ open'[o].of = i /\ \A p \in Openers : p # o => open'[p] = open[p]
  <2>1. c.pc = "reading" /\ c.of = i
    BY DEF NoCall
  <2>2. open' = [open EXCEPT ![o] = c]
    BY DEF Call
  <2> HIDE DEF c
  <2>3. QED
    BY <2>1, <2>2 DEF OpeningType, OpenType
<1>4. \A p \in Openers : \/ Alike(open'[p], open[p])
                         \/ open'[p].of \in {i, Nobody} /\ open[p].of \in {i, Nobody}
  BY <1>2, <1>3 DEF Alike
<1>5. ASSUME Regular' PROVE AllChained' /\ Follows(i)'
  <2>1. ~Busy(i) /\ Regular /\ "overlap" \notin mishaps
    BY <1>2, <1>5, RegularBefore
  <2>2. Rest(k, FALSE, mishaps) /\ Unserved(i)
    BY <2>1 DEF Life, LifeOf, Busy, Unserved, ServedBy, Rest
  <2>3. l.task = "none"
    BY <1>1, <1>2, <2>2 DEF Rest, Tidy
  <2>4. \A p \in Openers : open'[p].of = i => p = o
    BY <1>3, <2>2 DEF Unserved
  <2>5. ~Unserved(i)' /\ ~Dependent(l, open'[o])
    BY <1>3, <2>3 DEF Unserved, Dependent
  <2>6. Follows(i)'
    BY <2>4, <2>5, TracesNothing DEF Follows
  <2>7. QED
    BY <1>2, <2>1, <2>6, FilesChained DEF Chain
<1>6. OwnFile(i)
  BY <1>2, FilesChained
<1>7. QED
  BY <1>1, <1>2, <1>4, <1>5, <1>6, ChainStep

LEMMA ChainOpensFile ==
  ASSUME OpeningType, Life, Distinct, Chain, NEW o \in Openers, OpenFile(o)
  PROVE  Chain'
<1> PICK i \in Instances : i = open[o].of
  BY OpenFileEffect
<1>1. /\ kanta' = kanta /\ mishaps' = mishaps
      /\ \A m \in DOMAIN files : files'[m] = files[m]
      /\ files' = files \/ (files' = Append(files, <<>>) /\ path' = Len(files) + 1)
      /\ \A p \in Openers : open'[p] = IF p = o THEN [open[p] EXCEPT !.fd = path'] ELSE open[p]
  BY OpenFileEffect DEF OpenFile
<1>2. \A p \in Openers : Alike(open'[p], open[p])
  <2> SUFFICES ASSUME NEW p \in Openers PROVE Alike(open'[p], open[p])
    OBVIOUS
  <2>1. open[p] \in OpenCall
    BY DEF OpeningType, OpenType
  <2>2. QED
    BY <1>1, <2>1 DEF Alike, OpenCall
<1>3. OwnFile(i)
  BY <1>1 DEF OwnFile
<1>4. AllChained => AllChained'
  <2>1. CASE files' = files
    BY <2>1, FilesChained
  <2>2. CASE files' = Append(files, <<>>) /\ path' = Len(files) + 1
    <3>1. last' \in Nat
      BY DEF OpenFile, bounds, OpeningType, FilesType
    <3>2. /\ FilesType' /\ Len(files') = Len(files) + 1 /\ Len(files) \in Nat
          /\ files'[path'] = <<>> /\ \A m \in DOMAIN files : files'[m] = files[m]
      BY <2>2, <3>1, FileCreated DEF OpeningType
    <3>3. DOMAIN files = 1 .. Len(files) /\ DOMAIN files' = 1 .. Len(files')
      BY <3>2 DEF OpeningType, FilesType
    <3>4. \A m \in DOMAIN files' : m \in DOMAIN files \/ m = path'
      BY <2>2, <3>2, <3>3
    <3>5. QED
      BY <3>2, <3>4, EmptyChained DEF AllChained
  <2>3. QED
    BY <1>1, <2>1, <2>2
<1>5. ASSUME Regular' PROVE AllChained' /\ Follows(i)'
  <2>1. Regular /\ AllChained /\ Follows(i)
    BY <1>1, <1>5, RegularBefore DEF Chain
  <2>2. Writer(i) => files'[kanta[i].fd] = files[kanta[i].fd]
    <3>1. kanta[i].fd \in 0 .. Len(files) /\ Len(files) \in Nat /\ DOMAIN files = 1 .. Len(files)
      BY <1>1 DEF OpeningType, KantaType, FilesType
    <3>2. Writer(i) => kanta[i].fd \in DOMAIN files
      BY <3>1 DEF Writer
    <3>3. QED
      BY <1>1, <3>2
  <2>3. Follows(i)'
    BY <1>1, <1>2, <2>1, <2>2, FollowsOn
  <2>4. QED
    BY <1>4, <2>1, <2>3
<1>6. QED
  BY <1>1, <1>2, <1>3, <1>5, ChainStep

LEMMA ChainReads ==
  ASSUME OpeningType, Pending, Life, Distinct, Chain, NEW o \in Openers, ReadAgain(o) \/ LockAndRead(o)
  PROVE  Chain'
<1> DEFINE i == open[o].of
           k == kanta[i]
           l == kanta'[i]
<1>1. open[o].pc \in {"reading", "stray"} /\ mishaps \subseteq mishaps' /\ files' = files
  BY DEF ReadAgain, LockAndRead, TakeFile, Pending, Notes
<1>2. i \in Instances /\ k \in Attributes /\ k.fd \in 0 .. Len(files)
      /\ Len(files) \in Nat /\ DOMAIN files = 1 .. Len(files)
  BY <1>1, Serves DEF OpeningType, FilesType
<1>3. /\ \A j \in Instances : j # i => kanta'[j] = kanta[j]
      /\ l.task = k.task /\ l.opened = k.opened
      /\ \E n \in DOMAIN files : Reads(o, n) /\ l.fd = n
  <2>1. CASE ReadAgain(o)
    <3>1. kanta' = kanta /\ Reads(o, k.fd) /\ k.fd # 0
      BY <2>1 DEF ReadAgain
    <3>2. k.fd \in DOMAIN files
      BY <1>2, <3>1
    <3>3. QED
      BY <3>1, <3>2
  <2>2. CASE LockAndRead(o)
    BY <2>2, LockAndReadEffect DEF Becomes, Fields
  <2>3. QED
    BY <2>1, <2>2
<1>4. PICK n \in DOMAIN files : Reads(o, n) /\ l.fd = n
  BY <1>3
<1> DEFINE log == IF n \in DOMAIN files THEN files[n] ELSE <<>>
<1>5. log = files'[n]
  BY <1>1, <1>4
<1>6. PICK c : /\ Moves(o, c) /\ (c = NoCall \/ c.of = i)
               /\ c.of = i => c.pc = "read" /\ c.content = log
  <2>1. CASE At(o, "stray")
    BY <1>2, <1>4, <2>1, ReadsMoves, OpeningAssumption DEF OpeningType
  <2>2. CASE ~At(o, "stray")
    BY <1>4, <2>2, ReadsMoves DEF OpeningType
  <2>3. QED
    BY <2>1, <2>2
<1> HIDE DEF log
<1>7. ASSUME Serving(k, open[o].pc, open[o].mode, mishaps) PROVE Traces(l, c, files'[l.fd])
  <2>1. l.task = "none" /\ ~l.opened
    BY <1>1, <1>3, <1>7 DEF Serving, Tidy
  <2>2. CASE c = NoCall
    BY <2>1, <2>2, NoCallKnows, TracesNothing
  <2>3. CASE c.of = i
    BY <1>4, <1>5, <1>6, <2>1, <2>3 DEF Traces
  <2>4. QED
    BY <1>6, <2>2, <2>3
<1>8. QED
  BY <1>1, <1>2, <1>3, <1>6, <1>7, FilesChained, ChainOpenerStep

(* open() ends without a word about the log. *)
LEMMA ChainEnds ==
  ASSUME OpeningType, Pending, Life, Distinct, Chain, NEW o \in Openers,
         OpenRefused(o) \/ RejectEmpty(o) \/ RejectEmptyReadonly(o) \/ LoadInvalid(o) \/ Unlink(o)
  PROVE  Chain'
<1> DEFINE i == open[o].of
           k == kanta[i]
           l == kanta'[i]
<1>1. mishaps \subseteq mishaps' /\ Ends(o) /\ files' = files
      /\ open[o].pc \in {"reading", "stray", "read", "loading", "unlinking"}
  BY DEF OpenRefused, RejectEmpty, RejectEmptyReadonly, LoadInvalid, Unlink, At, Notes, Pending
<1>2. Moves(o, NoCall) /\ i \in Instances
  BY <1>1, EndsMoves, Serves DEF OpeningType
<1>3. /\ l.task = k.task /\ \A j \in Instances : j # i => kanta'[j] = kanta[j]
      /\ l.opened => k.opened /\ open[o].pc \in {"reading", "stray", "read", "unlinking"}
  <2>1. CASE OpenRefused(o) \/ Unlink(o)
    BY <2>1 DEF OpenRefused, Unlink, At, Pending
  <2>2. CASE RejectEmpty(o) \/ RejectEmptyReadonly(o)
    <3>1. At(o, "read")
      BY <2>2 DEF RejectEmpty, RejectEmptyReadonly
    <3>2. QED
      BY <2>2, <3>1, RejectEffect DEF Becomes, Fields, At
  <2>3. CASE LoadInvalid(o)
    BY <2>3, LoadInvalidEffect DEF Becomes, Fields
  <2>4. QED
    BY <2>1, <2>2, <2>3
<1>4. Serving(k, open[o].pc, open[o].mode, mishaps) => ~Dependent(l, NoCall)
  <2>1. ASSUME Serving(k, open[o].pc, open[o].mode, mishaps) PROVE k.task = "none" /\ ~l.opened
    BY <1>1, <1>3, <2>1 DEF Serving, Tidy
  <2>2. QED
    BY <1>3, <2>1, NoCallKnows
<1>5. QED
  BY <1>1, <1>2, <1>3, <1>4, ChainForgets

(* An instance that open() leaves as it is owes nothing that its log would *)
(* not take.                                                               *)
LEMMA LeftAlone ==
  ASSUME OpeningType, AllChained, Regular, NEW o \in Openers,
         open[o].pc \in {"reading", "stray", "read", "loading", "bootstrapping", "unlinking"},
         Serving(kanta[open[o].of], open[o].pc, open[o].mode, mishaps)
  PROVE  Traces(kanta[open[o].of], NoCall, files[kanta[open[o].of].fd])
<1> DEFINE k == kanta[open[o].of]
           log == files[k.fd]
<1>1. k.task = "none" /\ OwesNothing(k, mishaps) /\ (k.opened => k.fd # 0)
  BY DEF Serving, Tidy
<1>2. CASE ~k.opened
  BY <1>1, <1>2, NoCallKnows, TracesNothing
<1>3. CASE k.opened /\ k.flush_failed
  BY <1>3 DEF Traces, NoCall
<1>4. CASE k.opened /\ ~k.flush_failed
  <2>1. k.pending = <<>>
    BY <1>1, <1>4 DEF OwesNothing, Regular
  <2>2. log \in Seq(Change) /\ Chained(log)
    <3>1. k.fd \in 0 .. Len(files) /\ Len(files) \in Nat /\ files \in Seq(Seq(Change))
      BY Serves DEF OpeningType, FilesType
    <3>2. k.fd # 0
      BY <1>1, <1>4
    <3> HIDE DEF k
    <3>3. k.fd \in DOMAIN files
      BY <3>1, <3>2
    <3>4. QED
      BY <3>1, <3>3 DEF AllChained
  <2> HIDE DEF log
  <2>3. log \o <<>> = log
    BY <2>2
  <2>4. Chained(log \o k.pending)
    BY <2>1, <2>2, <2>3
  <2>5. QED
    BY <1>1, <2>4, NoCallType DEF Traces, log
<1>5. QED
  BY <1>2, <1>3, <1>4

LEMMA ChainAbandons ==
  ASSUME OpeningType, Life, Distinct, Chain, NEW o \in Openers, LoadRaises(o) \/ RecordingRaises(o)
  PROVE  Chain'
<1> DEFINE i == open[o].of
           k == kanta[i]
           l == kanta'[i]
<1>1. mishaps \subseteq mishaps' /\ Ends(o) /\ files' = files /\ open[o].pc \in {"loading", "recording"}
  BY DEF LoadRaises, RecordingRaises, At, Notes
<1>2. Moves(o, NoCall) /\ i \in Instances
  BY <1>1, EndsMoves, Serves DEF OpeningType
<1>3. \A j \in Instances : j # i => kanta'[j] = kanta[j]
  <2>1. CASE LoadRaises(o)
    BY <2>1 DEF LoadRaises
  <2>2. CASE RecordingRaises(o)
    BY <2>2, RecordingRaisesEffect DEF Becomes
  <2>3. QED
    BY <2>1, <2>2
<1>4. ASSUME Regular', AllChained, Serving(k, open[o].pc, open[o].mode, mishaps)
      PROVE  Traces(l, NoCall, files'[l.fd])
  <2>1. CASE LoadRaises(o)
    <3>1. l = k /\ open[o].pc = "loading" /\ Regular
      BY <1>1, <1>4, <2>1, RegularBefore DEF LoadRaises, At
    <3>2. QED
      BY <1>1, <1>4, <3>1, LeftAlone
  <2>2. CASE RecordingRaises(o)
    <3>1. k.opened /\ ~k.readonly /\ k.fd # 0
      BY <1>4, <2>2 DEF Serving, Tidy, RecordingRaises, At
    <3>2. l.flush_failed
      BY <2>2, <3>1, RecordingRaisesEffect DEF Becomes, Fields
    <3>3. QED
      BY <3>2, NoCallType DEF Traces
  <2>3. QED
    BY <2>1, <2>2
<1>5. QED
  BY <1>1, <1>2, <1>3, <1>4, FilesChained, ChainOpenerStep

(* A cancelled flush leaves pending what its thread writes all the same.   *)
LEMMA ChainCancelled ==
  ASSUME OpeningType, Life, Distinct, Chain, NEW o \in Openers, Cancel(o)
  PROVE  Chain'
<1> DEFINE i == open[o].of
           k == kanta[i]
           log == files[k.fd]
<1>1. mishaps \subseteq mishaps' /\ kanta' = kanta
      /\ open[o].pc \in {"reading", "read", "loading", "recording", "bootstrapping", "unlinking"}
  BY DEF Cancel, At, Notes
<1>2. i \in Instances /\ k \in Attributes
  BY <1>1, Serves
<1>3. CASE At(o, "reading") /\ Step(o, "stray") /\ files' = files
  <2>1. PICK c : Moves(o, c) /\ c.pc = "stray" /\ c.of = i
    BY <1>3, StepMoves DEF OpeningType
  <2>2. Serving(k, open[o].pc, open[o].mode, mishaps) => ~Dependent(kanta'[i], c)
    BY <1>1, <1>3, <2>1 DEF Serving, Tidy, At, Dependent
  <2>3. QED
    BY <1>1, <1>2, <1>3, <2>1, <2>2, ChainForgets
<1>4. CASE open' = open /\ files' = files
  <2>1. Moves(o, open[o])
    BY <1>4 DEF Moves, Alike
  <2>2. QED
    BY <1>1, <1>2, <1>4, <2>1, FilesChained, ChainOpenerStep
<1>5. CASE Ends(o) /\ files' = files /\ ~At(o, "unlinking") /\ ~At(o, "reading")
  <2>1. Moves(o, NoCall)
    BY <1>5, EndsMoves DEF OpeningType
  <2>2. ASSUME Regular', AllChained, Serving(k, open[o].pc, open[o].mode, mishaps), Traces(k, open[o], log)
        PROVE  Traces(k, NoCall, log)
    <3>1. Regular
      BY <1>1, <2>2, RegularBefore
    <3>2. CASE At(o, "recording")
      <4>1. k.task = "none" /\ (k.flush_failed \/ Chained(log \o k.pending))
        BY <2>2, <3>2 DEF Serving, Traces, Continues, At
      <4>2. QED
        BY <4>1, NoCallType DEF Traces
    <3>3. CASE ~At(o, "recording")
      BY <1>1, <2>2, <3>1, <3>3, LeftAlone DEF At
    <3>4. QED
      BY <3>2, <3>3
  <2>3. QED
    BY <1>1, <1>2, <1>5, <2>1, <2>2, FilesChained, ChainOpenerStep
<1>6. CASE At(o, "recording") /\ Flushing(i) /\ Ends(o) /\ files' = Written(k, k.pending)
  <2> DEFINE q == k.pending
             longer == log \o q
  <2>1. Moves(o, NoCall)
    BY <1>6, EndsMoves DEF OpeningType
  <2>2. q \in Seq(Change) /\ k.state \in Nat
    BY <1>2 DEF Attributes
  <2>3. /\ FilesType' /\ Len(files') = Len(files)
        /\ \A m \in DOMAIN files : files'[m] = IF m = k.fd /\ k.writable THEN files[m] \o q ELSE files[m]
    <3>1. path' = path /\ last' = last /\ last \in Nat
      BY DEF Cancel, OpeningType, FilesType
    <3>2. QED
      BY <1>2, <1>6, <2>2, <3>1, WrittenType DEF OpeningType
  <2>4. files \in Seq(Seq(Change)) /\ DOMAIN files' = DOMAIN files /\ DOMAIN files = 1 .. Len(files) /\ Len(files) \in Nat
    BY <2>3 DEF OpeningType, FilesType
  <2>5. OwnFile(i)
    <3>1. \A m \in DOMAIN files : m = k.fd /\ k.writable => Writer(i)
      BY <2>4 DEF Writer
    <3>2. QED
      BY <2>3, <3>1 DEF OwnFile
  <2>6. ASSUME Regular', AllChained, Serving(k, open[o].pc, open[o].mode, mishaps), Traces(k, open[o], log)
        PROVE  AllChained' /\ Traces(k, NoCall, files'[k.fd])
    <3>1. Regular
      BY <1>1, <2>6, RegularBefore
    <3>2. k.fd # 0 /\ k.writable /\ k.task = "none" /\ ~k.flush_failed
      BY <1>6, <2>6, <3>1 DEF Serving, Tidy, Flushing, Regular, At
    <3>3. k.fd \in DOMAIN files
      <4>1. k.fd \in 0 .. Len(files)
        BY <1>2 DEF OpeningType, KantaType
      <4> HIDE DEF k
      <4>2. QED
        BY <2>4, <3>2, <4>1
    <3>4. files'[k.fd] = longer
      BY <2>3, <3>2, <3>3
    <3>5. log \in Seq(Change)
      <4> HIDE DEF k
      <4>1. QED
        BY <2>4, <3>3
    <3>6. Chained(longer)
      BY <1>6, <2>6, <3>2 DEF Traces, Continues, At
    <3>7. Chained(longer \o q)
      <4> HIDE DEF log, q
      <4>1. /\ longer \in Seq(Change) /\ Len(log) \in Nat /\ DOMAIN q = 1 .. Len(q) /\ Len(q) \in Nat
            /\ DOMAIN longer = 1 .. Len(log) + Len(q) /\ \A m \in 1 .. Len(q) : longer[Len(log) + m] = q[m]
        BY <2>2, <3>5, Joined
      <4> HIDE DEF longer
      <4>2. \A n \in DOMAIN q : \E m \in DOMAIN longer : longer[m] = q[n]
        <5> SUFFICES ASSUME NEW n \in DOMAIN q PROVE \E m \in DOMAIN longer : longer[m] = q[n]
          OBVIOUS
        <5>1. Len(log) + n \in DOMAIN longer /\ longer[Len(log) + n] = q[n]
          BY <4>1
        <5>2. QED
          BY <5>1
      <4>3. QED
        BY <2>2, <3>6, <4>1, <4>2, ChainedRepeats
    <3> HIDE DEF longer, q
    <3>8. AllChained'
      BY <2>3, <2>4, <2>6, <3>4, <3>6 DEF AllChained
    <3>9. Chained(files'[k.fd] \o k.pending)
      BY <3>4, <3>7 DEF q
    <3>10. Traces(k, NoCall, files'[k.fd])
      BY <3>2, <3>9, NoCallType DEF Traces
    <3>11. QED
      BY <3>8, <3>10
  <2>7. QED
    BY <1>1, <1>2, <2>1, <2>5, <2>6, ChainOpenerStep
<1>7. QED
  BY <1>3, <1>4, <1>5, <1>6 DEF Cancel, At

LEMMA ChainBootstrapFails ==
  ASSUME OpeningType, Life, Distinct, Chain, NEW o \in Openers, BootstrapFails(o)
  PROVE  Chain'
<1> DEFINE i == open[o].of
           k == kanta[i]
<1>1. i \in Instances /\ mishaps \subseteq mishaps' /\ files' = files /\ At(o, "bootstrapping")
  BY Serves DEF BootstrapFails, At, Notes
<1>2. kanta'[i].task = k.task /\ \A j \in Instances : j # i => kanta'[j] = kanta[j]
  BY BootstrapFailsEffect DEF Becomes, Fields
<1>3. PICK c : Moves(o, c) /\ c.pc = "unlinking" /\ c.of = i
  <2> DEFINE alone == Alone(i)
  <2>1. ToUnlink(o, alone)
    BY DEF BootstrapFails, ToUnlink
  <2> HIDE DEF alone
  <2>2. QED
    BY <2>1, UnlinkingMoves DEF OpeningType
<1>4. Serving(k, open[o].pc, open[o].mode, mishaps) => ~Dependent(kanta'[i], c)
  BY <1>1, <1>2, <1>3 DEF Serving, Dependent, At
<1>5. QED
  BY <1>1, <1>2, <1>3, <1>4, ChainForgets

(* What open() has read is the state it knows, and bootstrapping or a      *)
(* migration continues from there.                                         *)
LEMMA ChainProceeds ==
  ASSUME OpeningType, Life, Distinct, Chain, NEW o \in Openers, Proceed(o)
  PROVE  Chain'
<1> DEFINE i == open[o].of
           k == kanta[i]
           l == kanta'[i]
           pc == IF open[o].content = <<>> THEN "bootstrapping" ELSE "loading"
           log == files[k.fd]
<1>1. i \in Instances /\ Becomes(i, TRUE, k.readonly, k.fd, k.writable, k.state, k.pending, k.flush_failed, k.task, k.orphans)
  BY ProceedEffect
<1>2. files' = files /\ mishaps' = mishaps /\ At(o, "read") /\ Step(o, pc) /\ pc \in {"bootstrapping", "loading"}
      /\ (pc = "bootstrapping" => open[o].content = <<>>)
  BY DEF Proceed
<1> HIDE DEF pc
<1>3. PICK c : Moves(o, c) /\ c.pc = pc /\ c.of = i /\ c.content = open[o].content
  BY <1>2, StepMoves DEF OpeningType
<1>4. ASSUME Serving(k, open[o].pc, open[o].mode, mishaps), Traces(k, open[o], log)
      PROVE  Traces(l, c, log)
  <2>1. k.task = "none"
    BY <1>2, <1>4 DEF Serving, Tidy, At
  <2> HIDE DEF log
  <2>2. QED
    BY <1>1, <1>2, <1>3, <1>4, <2>1 DEF Traces, Becomes, Fields, At
<1>5. l.fd = k.fd /\ \A j \in Instances : j # i => kanta'[j] = kanta[j]
  BY <1>1 DEF Becomes, Fields
<1>6. QED
  BY <1>1, <1>2, <1>3, <1>4, <1>5, FilesChained, ChainOpenerStep

LEMMA ReplayedEnd ==
  ASSUME NEW o, open[o].content # <<>>
  PROVE  ReplayedState(o) = EndOf(open[o].content)
BY DEF ReplayedState, EndOf

(* Read from a file that is chained, by an instance without records left. *)
LEMMA LoadedContinues ==
  ASSUME OpeningType, AllChained, NEW o \in Openers, open[o].pc \in {"loading", "bootstrapping"},
         LET k == kanta[open[o].of] IN
         /\ Serving(k, open[o].pc, open[o].mode, mishaps) /\ Traces(k, open[o], files[k.fd])
         /\ ~k.readonly /\ ~Leftover(o)
  PROVE  LET k == kanta[open[o].of] IN
         /\ files[k.fd] \in Seq(Change) /\ k.pending = <<>> /\ k.task = "none"
         /\ At(o, "loading") => Continues(files[k.fd], <<>>, ReplayedState(o))
         /\ At(o, "bootstrapping") => Continues(files[k.fd], <<>>, 0)
<1> DEFINE k == kanta[open[o].of]
           log == files[k.fd]
<1>1. k.pending = <<>> /\ k.task = "none" /\ k.fd # 0
  BY DEF Leftover, Serving, Tidy
<1>2. open[o].content = log /\ (open[o].pc = "bootstrapping" => log = <<>>)
  BY DEF Traces
<1>3. log \in Seq(Change) /\ Chained(log)
  <2>1. k.fd \in 0 .. Len(files) /\ Len(files) \in Nat /\ files \in Seq(Seq(Change))
    BY Serves DEF OpeningType, FilesType
  <2> HIDE DEF k
  <2>2. k.fd \in DOMAIN files
    BY <1>1, <2>1
  <2>3. QED
    BY <2>1, <2>2 DEF AllChained
<1>4. Continues(log, <<>>, EndOf(log))
  BY <1>3, ContinuesRead
<1>5. At(o, "loading") => ReplayedState(o) = EndOf(log)
  BY <1>2, ReplayedEnd DEF At, OpeningType, OpenType
<1>6. At(o, "bootstrapping") => EndOf(log) = 0
  BY <1>2, EmptyChained DEF At
<1>7. QED
  BY <1>1, <1>3, <1>4, <1>5, <1>6

LEMMA ChainLoads ==
  ASSUME OpeningType, Life, Distinct, Chain, NEW o \in Openers, Load(o) \/ LoadMigrated(o)
  PROVE  Chain'
<1> DEFINE i == open[o].of
           k == kanta[i]
           l == kanta'[i]
           log == files[k.fd]
           s == ReplayedState(o)
<1>1. i \in Instances /\ k \in Attributes /\ mishaps \subseteq mishaps' /\ files' = files /\ At(o, "loading")
      /\ (Leftover(o) => "leftover" \in mishaps')
  BY Serves DEF Load, LoadMigrated, At, Notes
<1>2. \A j \in Instances : j # i => kanta'[j] = kanta[j]
  BY <1>1 DEF Load, LoadMigrated, OpeningType, KantaType
<1>3. Regular' => ~Leftover(o)
  BY <1>1, RegularBefore
<1>4. CASE Load(o)
  <2>1. Moves(o, NoCall)
    BY <1>4, EndsMoves DEF Load, OpeningType
  <2>2. k.task # "live" =>
          Becomes(i, k.opened, k.readonly, k.fd, k.writable, s, k.pending, k.flush_failed,
                  IF k.readonly THEN k.task ELSE "live", k.orphans)
    BY <1>4, LoadEffect
  <2>3. ASSUME Regular', AllChained, Serving(k, open[o].pc, open[o].mode, mishaps), Traces(k, open[o], log)
        PROVE  Traces(l, NoCall, files'[l.fd])
    <3>1. k.task = "none"
      BY <1>1, <2>3 DEF Serving, At
    <3>2. l.fd = k.fd /\ l.pending = k.pending /\ l.state = s /\ l.readonly = k.readonly
          /\ (k.readonly => l.task = "none")
      BY <2>2, <3>1 DEF Becomes, Fields
    <3>3. CASE k.readonly
      BY <3>2, <3>3, NoCallKnows, TracesNothing
    <3>4. CASE ~k.readonly
      <4>1. k.pending = <<>> /\ Continues(log, <<>>, s)
        BY <1>1, <1>3, <2>3, <3>4, LoadedContinues DEF At
      <4>2. Continues(files'[l.fd], l.pending, l.state)
        BY <1>1, <3>2, <4>1
      <4>3. QED
        BY <4>2, NoCallType DEF Traces, Continues
    <3>5. QED
      BY <3>3, <3>4
  <2>4. QED
    BY <1>1, <1>2, <2>1, <2>3, FilesChained, ChainOpenerStep
<1>5. CASE LoadMigrated(o)
  <2> DEFINE q == Append(k.pending, [from |-> s, to |-> last'])
  <2>1. PICK c : Moves(o, c) /\ c.pc = "recording" /\ c.of = i
    BY <1>5, StepMoves DEF LoadMigrated, OpeningType
  <2>2. Becomes(i, k.opened, k.readonly, k.fd, k.writable, last', q, k.flush_failed, k.task, k.orphans) /\ s \in Nat
    BY <1>5, LoadMigratedEffect
  <2>3. ~k.readonly /\ last' \in Nat
    BY <1>5 DEF LoadMigrated, OpeningType, FilesType
  <2>4. ASSUME Regular', AllChained, Serving(k, open[o].pc, open[o].mode, mishaps), Traces(k, open[o], log)
        PROVE  Traces(l, c, files'[l.fd])
    <3>1. log \in Seq(Change) /\ k.pending = <<>> /\ Continues(log, <<>>, s)
      BY <1>1, <1>3, <2>3, <2>4, LoadedContinues DEF At
    <3>2. <<>> \in Seq(Change)
      OBVIOUS
    <3>3. Continues(log, q, last')
      BY <2>3, <3>1, <3>2, ContinuesAppend
    <3> HIDE DEF q
    <3>4. l.fd = k.fd /\ l.pending = q /\ l.state = last'
      BY <2>2 DEF Becomes, Fields
    <3>5. Continues(files'[l.fd], l.pending, l.state)
      BY <1>1, <3>3, <3>4
    <3>6. QED
      BY <2>1, <3>5 DEF Traces
  <2>5. QED
    BY <1>1, <1>2, <2>1, <2>4, FilesChained, ChainOpenerStep
<1>6. QED
  BY <1>4, <1>5

LEMMA ChainBootstraps ==
  ASSUME OpeningType, Life, Distinct, Chain, NEW o \in Openers, Bootstrap(o)
  PROVE  Chain'
<1> DEFINE i == open[o].of
           k == kanta[i]
           l == kanta'[i]
           log == files[k.fd]
           q == Append(k.pending, [from |-> 0, to |-> last'])
<1>1. i \in Instances /\ mishaps \subseteq mishaps' /\ files' = files /\ At(o, "bootstrapping")
      /\ (Leftover(o) => "leftover" \in mishaps') /\ last' \in Nat
  BY Serves DEF Bootstrap, At, Notes, OpeningType, FilesType
<1>2. \A j \in Instances : j # i => kanta'[j] = kanta[j]
  BY <1>1 DEF Bootstrap, OpeningType, KantaType
<1>3. Regular' => ~Leftover(o)
  BY <1>1, RegularBefore
<1>4. Moves(o, NoCall)
  BY EndsMoves DEF Bootstrap, OpeningType
<1>5. k.task # "live" =>
        Becomes(i, k.opened, k.readonly, k.fd, k.writable, last', q, k.flush_failed,
                IF k.readonly THEN k.task ELSE "live", k.orphans)
  BY BootstrapEffect
<1>6. ASSUME Regular', AllChained, Serving(k, open[o].pc, open[o].mode, mishaps), Traces(k, open[o], log)
      PROVE  Traces(l, NoCall, files'[l.fd])
  <2>1. ~k.readonly
    BY <1>1, <1>6 DEF Serving, At
  <2>2. log \in Seq(Change) /\ k.pending = <<>> /\ k.task = "none" /\ Continues(log, <<>>, 0)
    BY <1>1, <1>3, <1>6, <2>1, LoadedContinues DEF At
  <2>3. <<>> \in Seq(Change)
    OBVIOUS
  <2>4. Continues(log, q, last')
    BY <1>1, <2>2, <2>3, ContinuesAppend
  <2> HIDE DEF q
  <2>5. l.fd = k.fd /\ l.pending = q /\ l.state = last'
    BY <1>5, <2>2 DEF Becomes, Fields
  <2>6. Continues(files'[l.fd], l.pending, l.state)
    BY <1>1, <2>4, <2>5
  <2>7. QED
    BY <2>6, NoCallType DEF Traces, Continues
<1>7. QED
  BY <1>1, <1>2, <1>4, <1>6, FilesChained, ChainOpenerStep

LEMMA ChainRecords ==
  ASSUME OpeningType, Life, Distinct, Chain, NEW o \in Openers, RecordMigration(o)
  PROVE  Chain'
<1> DEFINE i == open[o].of
           k == kanta[i]
           l == kanta'[i]
           log == files[k.fd]
           written == IF k.flush_failed THEN <<>> ELSE k.pending
           kept == IF k.flush_failed THEN k.pending ELSE <<>>
           longer == log \o written \o <<[from |-> k.state, to |-> k.state]>>
<1>1. i \in Instances /\ k \in Attributes /\ mishaps \subseteq mishaps' /\ At(o, "recording")
      /\ (k.flush_failed => "leftover" \in mishaps') /\ Writer(i)
  BY Serves DEF RecordMigration, At, Notes, Writer
<1>2. \A j \in Instances : j # i => kanta'[j] = kanta[j]
  BY <1>1 DEF RecordMigration, OpeningType, KantaType
<1>3. Regular' => ~k.flush_failed
  BY <1>1, RegularBefore
<1>4. Moves(o, NoCall)
  BY EndsMoves DEF RecordMigration, OpeningType
<1>5. /\ k.fd \in DOMAIN files /\ Len(files') = Len(files) /\ files'[k.fd] = longer
      /\ \A m \in DOMAIN files : m # k.fd => files'[m] = files[m]
      /\ OpeningType'
  BY RecordMigrationEffect
<1>6. k.task # "live" =>
        Becomes(i, k.opened, k.readonly, k.fd, k.writable, k.state, kept, k.flush_failed, "live", k.orphans)
  BY RecordMigrationEffect
<1>7. files \in Seq(Seq(Change)) /\ files' \in Seq(Seq(Change))
  BY <1>5 DEF OpeningType, FilesType
<1>8. ASSUME Regular', AllChained, Serving(k, open[o].pc, open[o].mode, mishaps), Traces(k, open[o], log)
      PROVE  AllChained' /\ Traces(l, NoCall, files'[l.fd])
  <2>1. ~k.flush_failed /\ k.task = "none"
    BY <1>1, <1>3, <1>8 DEF Serving, At
  <2>2. Continues(log, k.pending, k.state)
    BY <1>1, <1>8, <2>1 DEF Traces, At
  <2>3. log \in Seq(Change) /\ k.pending \in Seq(Change) /\ k.state \in Nat
    <3>1. k.pending \in Seq(Change) /\ k.state \in Nat
      BY <1>1 DEF Attributes
    <3>2. k.fd \in DOMAIN files
      BY <1>5
    <3> HIDE DEF k
    <3>3. log \in Seq(Change)
      BY <1>7, <3>2
    <3>4. QED
      BY <3>1, <3>3
  <2>4. Chained(longer) /\ Continues(longer, <<>>, k.state)
    BY <2>1, <2>2, <2>3, ContinuesWritten
  <2>5. kept = <<>>
    BY <2>1
  <2> HIDE DEF longer, kept
  <2>6. AllChained'
    <3>1. DOMAIN files' = DOMAIN files
      BY <1>5, <1>7
    <3>2. QED
      BY <1>5, <1>8, <2>4, <3>1 DEF AllChained
  <2>7. l.fd = k.fd /\ l.pending = <<>> /\ l.state = k.state
    BY <1>6, <2>1, <2>5 DEF Becomes, Fields
  <2>8. Continues(files'[l.fd], l.pending, l.state)
    BY <1>5, <2>4, <2>7
  <2>9. QED
    BY <2>6, <2>8, NoCallType DEF Traces, Continues
<1>9. OwnFile(i)
  BY <1>1, <1>5 DEF OwnFile
<1>10. QED
  BY <1>1, <1>2, <1>4, <1>8, <1>9, ChainOpenerStep

-----------------------------------------------------------------------------
(* The steps of the opened instance *)

LEMMA ChainCommits ==
  ASSUME OpeningType, Life, Distinct, Chain, NEW i \in Instances, Commit(i)
  PROVE  Chain'
<1> DEFINE k == kanta[i]
           l == kanta'[i]
           log == files[k.fd]
           q == Append(k.pending, [from |-> k.state, to |-> last'])
<1>1. k \in Attributes /\ mishaps \subseteq mishaps' /\ open' = open /\ files' = files /\ last' \in Nat
      /\ ("early" \in mishaps' \/ (k.opened /\ ~Busy(i) /\ k.task # "none")) /\ ~k.readonly
  BY DEF Commit, Misuse, Notes, OpeningType, KantaType, FilesType
<1>2. Becomes(i, k.opened, k.readonly, k.fd, k.writable, last', q, k.flush_failed, k.task, k.orphans)
  BY CommitEffect
<1>3. ASSUME NEW c, Regular', AllChained, Lives(i, c), Traces(k, c, log)
      PROVE  Traces(l, c, files'[l.fd])
  <2>1. k.opened /\ ~Busy(i) /\ k.task # "none"
    BY <1>1, <1>3, RegularBefore
  <2>2. c = NoCall
    BY <1>3, <2>1 DEF Lives, Busy
  <2>3. l.fd = k.fd /\ l.pending = q /\ l.state = last' /\ l.flush_failed = k.flush_failed
    <3> HIDE DEF q
    <3>1. QED
      BY <1>2 DEF Becomes, Fields
  <2>4. ASSUME ~k.flush_failed PROVE Continues(log, q, last')
    <3>1. Continues(log, k.pending, k.state)
      BY <1>3, <2>1, <2>4 DEF Traces
    <3>2. Writer(i)
      <4>1. Regular /\ Dependent(k, NoCall) /\ Unserved(i)
        BY <1>1, <1>3, <2>1, NoCallKnows, RegularBefore DEF Busy, Unserved
      <4>2. QED
        BY <4>1, DependentsWrite
    <3>3. k.fd \in DOMAIN files /\ files \in Seq(Seq(Change))
      <4>1. k.fd \in 0 .. Len(files) /\ Len(files) \in Nat /\ DOMAIN files = 1 .. Len(files) /\ k.fd # 0
            /\ files \in Seq(Seq(Change))
        BY <3>2 DEF OpeningType, KantaType, FilesType, Writer
      <4> HIDE DEF k
      <4>2. QED
        BY <4>1
    <3>4. log \in Seq(Change) /\ k.pending \in Seq(Change)
      BY <1>1, <3>3 DEF Attributes
    <3>5. QED
      BY <1>1, <3>1, <3>4, ContinuesAppend
  <2>5. l.flush_failed \/ Continues(files'[l.fd], l.pending, l.state)
    BY <1>1, <2>3, <2>4
  <2>6. QED
    BY <2>2, <2>5, NoCallType DEF Traces, Continues
<1>4. \A j \in Instances : j # i => kanta'[j] = kanta[j]
  BY <1>2 DEF Becomes
<1>5. QED
  BY <1>1, <1>3, <1>4, FilesChained, ChainInstanceStep

(* What a flush finds pending belongs to the log.                          *)
LEMMA FlushedContinues ==
  ASSUME NEW i \in Instances, Flushing(i), Regular, NEW c, Lives(i, c), NEW log, Traces(kanta[i], c, log)
  PROVE  /\ Chained(log \o kanta[i].pending)
         /\ kanta[i].task # "none" \/ c.pc = "recording" => Continues(log, kanta[i].pending, kanta[i].state)
<1> DEFINE k == kanta[i]
<1>1. k.opened /\ ~k.readonly /\ ~k.flush_failed /\ k.pending # <<>>
  BY DEF Flushing
<1>2. mishaps \cap {"early", "leftover"} = {}
  BY DEF Regular
<1>3. k.task # "none" \/ c.pc = "recording" \/ c = NoCall
  BY <1>1, <1>2 DEF Lives, Serving, OwesNothing
<1>4. QED
  BY <1>1, <1>3, NoCallType DEF Traces, Continues

(* The file of an instance that writes what is pending *)
LEMMA WrittenChained ==
  ASSUME OpeningType, OpeningType', Distinct, AllChained, NEW i \in Instances, Flushing(i), Writer(i), Regular,
         NEW c, Lives(i, c), Traces(kanta[i], c, files[kanta[i].fd]),
         kanta[i].fd \in DOMAIN files, Len(files') = Len(files),
         files'[kanta[i].fd] = files[kanta[i].fd] \o kanta[i].pending,
         \A m \in DOMAIN files : m # kanta[i].fd => files'[m] = files[m]
  PROVE  /\ AllChained' /\ Chained(files'[kanta[i].fd] \o <<>>)
         /\ kanta[i].task # "none" \/ c.pc = "recording" => Continues(files'[kanta[i].fd], <<>>, kanta[i].state)
<1> DEFINE k == kanta[i]
           log == files[k.fd]
           longer == log \o k.pending
<1>1. files \in Seq(Seq(Change)) /\ files' \in Seq(Seq(Change)) /\ k \in Attributes
  BY DEF OpeningType, FilesType, KantaType
<1>2. log \in Seq(Change) /\ k.pending \in Seq(Change) /\ k.state \in Nat
  BY <1>1 DEF Attributes
<1>3. longer \o <<>> = longer /\ Chained(longer)
  <2>1. Chained(longer)
    BY FlushedContinues
  <2>2. longer \o <<>> = longer
    BY <1>2
  <2>3. QED
    BY <2>1, <2>2
<1>4. k.task # "none" \/ c.pc = "recording" => Continues(longer, <<>>, k.state)
  BY <1>2, FlushedContinues, ContinuesWritten
<1>5. DOMAIN files' = DOMAIN files
  BY <1>1
<1>6. AllChained'
  BY <1>3, <1>5 DEF AllChained
<1>7. QED
  BY <1>3, <1>4, <1>6

(* The file of an instance whose close() writes some of it twice *)
LEMMA BatchChained ==
  ASSUME OpeningType, OpeningType', AllChained, NEW i \in Instances, Flushing(i), Regular,
         NEW c, Lives(i, c), Traces(kanta[i], c, files[kanta[i].fd]),
         kanta[i].fd \in DOMAIN files, Len(files') = Len(files), NEW batch \in Batches(kanta[i]),
         files'[kanta[i].fd] \in {files[kanta[i].fd] \o batch, files[kanta[i].fd] \o (batch \o kanta[i].pending),
                                  files[kanta[i].fd] \o (kanta[i].pending \o batch)},
         \A m \in DOMAIN files : m # kanta[i].fd => files'[m] = files[m]
  PROVE  AllChained'
<1> DEFINE k == kanta[i]
           log == files[k.fd]
           q == k.pending
<1>1. files \in Seq(Seq(Change)) /\ files' \in Seq(Seq(Change)) /\ k \in Attributes
  BY DEF OpeningType, FilesType, KantaType
<1>2. log \in Seq(Change) /\ q \in Seq(Change) /\ Chained(log \o q)
  <2>1. log \in Seq(Change) /\ q \in Seq(Change)
    BY <1>1 DEF Attributes
  <2>2. Chained(log \o q)
    BY FlushedContinues
  <2>3. QED
    BY <2>1, <2>2
<1>3. PICK n \in 0 .. Len(q) : batch = SubSeq(q, 1, n)
  BY <1>1, BatchType
<1>4. DOMAIN files' = DOMAIN files
  BY <1>1
<1>5. Chained(files'[k.fd])
  <2> HIDE DEF log, q
  <2>1. Chained(log \o batch) /\ Chained(log \o (batch \o q)) /\ Chained(log \o (q \o batch))
    BY <1>2, <1>3, ChainedPrefix, ChainedTwice, ChainedAgain
  <2>2. QED
    BY <2>1 DEF log, q
<1>6. QED
  BY <1>4, <1>5 DEF AllChained

LEMMA ChainFlushes ==
  ASSUME OpeningType, Life, Distinct, Chain, NEW i \in Instances,
         Flush(i) \/ FlushesOverlap(i) \/ Reopen(i) \/ FlushFails(i) \/ LoopDies(i)
  PROVE  Chain'
<1> DEFINE k == kanta[i]
           l == kanta'[i]
           log == files[k.fd]
<1>1. CASE FlushesOverlap(i)
  <2>1. "flushes" \in mishaps'
    BY <1>1, FlushesOverlapEffect
  <2>2. QED
    BY <2>1 DEF Chain, Regular
<1> SUFFICES ASSUME Flush(i) \/ Reopen(i) \/ FlushFails(i) \/ LoopDies(i) PROVE Chain'
  BY <1>1
<1>2. /\ open' = open /\ mishaps' = mishaps
      /\ \A j \in Instances : j # i => kanta'[j] = kanta[j]
  <2>1. open' = open /\ mishaps' = mishaps
    BY DEF Flush, Reopen, FlushFails, LoopDies
  <2>2. QED
    BY <2>1, FlushEffect, ReopenEffect, FlushFailsEffect, LoopDiesEffect DEF Becomes
<1>3. CASE Flush(i)
  <2>1. Flushing(i) /\ Writer(i)
    BY <1>3 DEF Flush, Writer
  <2>2. /\ k.fd \in DOMAIN files /\ Len(files') = Len(files) /\ files'[k.fd] = log \o k.pending
        /\ \A m \in DOMAIN files : m # k.fd => files'[m] = files[m]
        /\ OpeningType'
    BY <1>3, FlushEffect
  <2>3. l.fd = k.fd /\ l.pending = <<>> /\ l.state = k.state /\ l.task = k.task /\ l.readonly = k.readonly
    BY <1>3, FlushEffect DEF Becomes, Fields
  <2>4. OwnFile(i)
    BY <2>1, <2>2 DEF OwnFile
  <2>5. ASSUME NEW c, Regular', AllChained, Lives(i, c), Traces(k, c, log)
        PROVE  AllChained' /\ Traces(l, c, files'[l.fd])
    <3>1. Regular
      BY <1>2, <2>5 DEF Regular
    <3>2. AllChained' /\ Chained(files'[k.fd] \o <<>>)
          /\ (k.task # "none" \/ c.pc = "recording" => Continues(files'[k.fd], <<>>, k.state))
      BY <2>1, <2>2, <2>5, <3>1, WrittenChained
    <3>3. c.pc \notin {"read", "loading", "bootstrapping"}
      BY <2>1, <2>5, <3>1, NoCallType DEF Lives, Serving, OwesNothing, Flushing, Regular
    <3>4. QED
      BY <2>3, <3>2, <3>3 DEF Traces
  <2>6. QED
    BY <1>2, <2>4, <2>5, ChainInstanceStep
<1>4. CASE Reopen(i) \/ LoopDies(i)
  <2>1. ~Tidy(k, mishaps)
    BY <1>4, LoopDiesEffect DEF Reopen, Flushing, Tidy
  <2>2. \A c : ~Lives(i, c)
    BY <2>1 DEF Lives, Rest, Serving
  <2>3. OwnFile(i)
    <3>1. CASE files' = files
      BY <3>1, FilesChained
    <3>2. CASE Opened(TRUE) /\ last' = last
      BY <3>2, OpenedType DEF OpeningType, OwnFile
    <3>3. QED
      BY <1>4, <3>1, <3>2 DEF Reopen, LoopDies, bounds
  <2>4. QED
    BY <1>2, <2>2, <2>3, ChainInstanceStep
<1>5. CASE FlushFails(i)
  <2>1. files' = files
    BY <1>5 DEF FlushFails
  <2>2. PICK failed \in BOOLEAN, task \in {"none", "live", "done", "error"}, orphans \in Nat :
          /\ failed \/ k.fd = 0
          /\ Becomes(i, k.opened, k.readonly, k.fd, k.writable, k.state, k.pending, failed, task, orphans)
    BY <1>5, FlushFailsEffect
  <2>3. k.opened
    BY <1>5 DEF FlushFails, Flushing
  <2>4. ASSUME NEW c, Lives(i, c), Traces(k, c, log)
        PROVE  Traces(l, c, files'[l.fd])
    <3>1. l.fd = k.fd /\ l.readonly = k.readonly /\ l.flush_failed
      BY <2>2, <2>3, <2>4 DEF Becomes, Fields, Lives, Rest, Serving, Tidy
    <3>2. QED
      BY <2>1, <2>4, <3>1 DEF Traces
  <2>5. QED
    BY <1>2, <2>1, <2>4, FilesChained, ChainInstanceStep
<1>6. QED
  BY <1>3, <1>4, <1>5

LEMMA ChainCloses ==
  ASSUME OpeningType, Life, Distinct, Chain, NEW i \in Instances, CloseBegin(i) \/ CloseEnd(i) \/ CloseRaises(i)
  PROVE  Chain'
<1> DEFINE k == kanta[i]
           l == kanta'[i]
           log == files[k.fd]
<1>1. open' = open /\ mishaps \subseteq mishaps'
  BY DEF CloseBegin, CloseEnd, CloseRaises, Misuse, Notes
<1>2. \A j \in Instances : j # i => kanta'[j] = kanta[j]
  <2>1. CloseBegin(i) => kanta' = kanta
    BY DEF CloseBegin
  <2>2. QED
    BY <2>1, CloseEndEffect, CloseRaisesEffect DEF Becomes
<1>3. CASE CloseBegin(i)
  <2>1. kanta' = kanta /\ files' = files
    BY <1>3 DEF CloseBegin
  <2>2. QED
    BY <1>1, <1>2, <2>1, FilesChained, ChainInstanceStep
<1>4. CASE CloseEnd(i)
  <2>1. i \in closing /\ mishaps' = mishaps /\ (Flushing(i) => Writer(i))
    BY <1>4 DEF CloseEnd, Writer
  <2>2. l.task = "none" /\ ~l.opened
    BY <1>4, CloseEndEffect DEF Becomes, Fields
  <2>3. ASSUME NEW c, Lives(i, c) PROVE c = NoCall
    BY <2>1, <2>3 DEF Lives
  <2>4. CASE Flushing(i)
    <3>1. /\ k.fd \in DOMAIN files /\ Len(files') = Len(files)
          /\ \E batch \in Batches(k) : files'[k.fd] \in {log \o (batch \o k.pending), log \o (k.pending \o batch)}
          /\ \A m \in DOMAIN files : m # k.fd => files'[m] = files[m]
          /\ OpeningType'
      BY <1>4, <2>4, CloseEndEffect
    <3>2. OwnFile(i)
      BY <2>1, <2>4, <3>1 DEF OwnFile
    <3>3. ASSUME NEW c, Regular', AllChained, Lives(i, c), Traces(k, c, log)
          PROVE  AllChained' /\ Traces(l, c, files'[l.fd])
      <4>1. Regular
        BY <2>1, <3>3 DEF Regular
      <4>2. PICK batch \in Batches(k) : files'[k.fd] \in {log \o (batch \o k.pending), log \o (k.pending \o batch)}
        BY <3>1
      <4>3. AllChained'
        BY <2>4, <3>1, <3>3, <4>1, <4>2, BatchChained
      <4>4. QED
        BY <2>2, <2>3, <3>3, <4>3, NoCallKnows, TracesNothing
    <3>4. QED
      BY <1>1, <1>2, <3>2, <3>3, ChainInstanceStep
  <2>5. CASE ~Flushing(i)
    <3>1. files' = files
      BY <1>4, <2>5, CloseEndEffect
    <3>2. \A c : Lives(i, c) => Traces(l, c, files'[l.fd])
      BY <2>2, <2>3, NoCallKnows, TracesNothing
    <3>3. QED
      BY <1>1, <1>2, <3>1, <3>2, FilesChained, ChainInstanceStep
  <2>6. QED
    BY <2>4, <2>5
<1>5. CASE CloseRaises(i)
  <2>1. i \in closing /\ mishaps' = mishaps /\ OpeningType' /\ Len(files') = Len(files)
    BY <1>5, CloseRaisesEffect DEF CloseRaises
  <2>2. PICK failed \in BOOLEAN, task \in {"none", "live", "done", "error"} :
          /\ \/ /\ k.task = "error" \/ (~k.readonly /\ ~k.opened)
                /\ failed = k.flush_failed /\ task = IF k.task = "live" THEN "error" ELSE k.task
             \/ k.opened /\ ~k.readonly /\ (failed \/ k.fd = 0)
          /\ Becomes(i, k.opened, k.readonly, k.fd, k.writable, k.state, k.pending, failed, task, k.orphans)
    BY <1>5, CloseRaisesEffect
  <2>3. ASSUME NEW c, Regular', Lives(i, c) PROVE Traces(l, c, files'[l.fd])
    <3>1. c = NoCall /\ Rest(k, TRUE, mishaps) /\ "flushes" \notin mishaps
      BY <2>1, <2>3 DEF Lives, Rest, Regular
    <3>2. failed
      BY <2>2, <3>1 DEF Rest, Tidy
    <3>3. l.flush_failed
      BY <2>2, <3>2 DEF Becomes, Fields
    <3>4. QED
      BY <3>1, <3>3, NoCallType DEF Traces
  <2>4. CASE files' = files
    BY <1>1, <1>2, <2>3, <2>4, FilesChained, ChainInstanceStep
  <2>5. CASE ~(files' = files)
    <3>1. /\ Flushing(i) /\ k.fd \in DOMAIN files /\ k.writable
          /\ \A m \in DOMAIN files : m # k.fd => files'[m] = files[m]
          /\ \E batch \in Batches(k) : files'[k.fd] = log \o batch
      BY <1>5, <2>5, CloseRaisesEffect
    <3>2. OwnFile(i)
      <4>1. k.fd # 0
        BY <3>1 DEF OpeningType, FilesType
      <4>2. QED
        BY <3>1, <4>1 DEF OwnFile, Writer
    <3>3. ASSUME NEW c, Regular', AllChained, Lives(i, c), Traces(k, c, log) PROVE AllChained'
      <4>1. Regular
        BY <2>1, <3>3 DEF Regular
      <4>2. PICK batch \in Batches(k) : files'[k.fd] = log \o batch
        BY <3>1
      <4>3. QED
        BY <2>1, <3>1, <3>3, <4>1, <4>2, BatchChained
    <3>4. QED
      BY <1>1, <1>2, <2>3, <3>2, <3>3, ChainInstanceStep
  <2>6. QED
    BY <2>4, <2>5
<1>6. QED
  BY <1>3, <1>4, <1>5

LEMMA ChainCrashes ==
  ASSUME OpeningType, Life, Distinct, Chain, NEW i \in Instances, Crash(i)
  PROVE  Chain'
<1>1. kanta'[i] = Fresh /\ \A j \in Instances : j # i => kanta'[j] = kanta[j]
  BY CrashType
<1>2. files' = files /\ mishaps' = mishaps
      /\ \A p \in Openers : open'[p] = IF open[p].of = i THEN NoCall ELSE open[p]
  BY DEF Crash
<1>3. \A p \in Openers : \/ Alike(open'[p], open[p])
                         \/ open'[p].of \in {i, Nobody} /\ open[p].of \in {i, Nobody}
  BY <1>2, NoCallType DEF Alike
<1>4. ASSUME Regular' PROVE AllChained' /\ Follows(i)'
  <2>1. \A p \in Openers : open'[p].of # i
    BY <1>2, NoCallType, OpeningAssumption
  <2>2. Traces(kanta'[i], NoCall, files'[kanta'[i].fd])
    BY <1>1, NoCallKnows, TracesNothing DEF Fresh
  <2>3. AllChained
    BY <1>2, <1>4, RegularBefore DEF Chain
  <2>4. QED
    BY <1>2, <2>1, <2>2, <2>3, FilesChained DEF Follows
<1>5. OwnFile(i)
  BY <1>2, FilesChained
<1>6. QED
  BY <1>1, <1>2, <1>3, <1>4, <1>5, ChainStep

LEMMA ChainGoesOn ==
  ASSUME OpeningType, Pending, Life, Distinct, Chain, [Next]_vars
  PROVE  Chain'
<1>1. ASSUME NEW o \in Openers, NEW i \in Instances, NEW mode \in Modes, Call(o, i, mode) PROVE Chain'
  BY <1>1, ChainCall
<1>2. ASSUME NEW o \in Openers, OpenFile(o) \/ ReadAgain(o) \/ LockAndRead(o) PROVE Chain'
  BY <1>2, ChainOpensFile, ChainReads
<1>3. ASSUME NEW o \in Openers,
             \/ OpenRefused(o) \/ RejectEmpty(o) \/ RejectEmptyReadonly(o) \/ LoadRaises(o) \/ LoadInvalid(o)
             \/ RecordingRaises(o) \/ Unlink(o) \/ Cancel(o) \/ BootstrapFails(o)
      PROVE  Chain'
  BY <1>3, ChainEnds, ChainAbandons, ChainCancelled, ChainBootstrapFails
<1>4. ASSUME NEW o \in Openers, Proceed(o) \/ Load(o) \/ LoadMigrated(o) \/ RecordMigration(o) \/ Bootstrap(o)
      PROVE  Chain'
  BY <1>4, ChainProceeds, ChainLoads, ChainRecords, ChainBootstraps
<1>5. ASSUME NEW i \in Instances,
             Commit(i) \/ Flush(i) \/ FlushesOverlap(i) \/ Reopen(i) \/ FlushFails(i) \/ LoopDies(i)
      PROVE  Chain'
  BY <1>5, ChainCommits, ChainFlushes
<1>6. ASSUME NEW i \in Instances, CloseBegin(i) \/ CloseEnd(i) \/ CloseRaises(i) \/ Crash(i)
      PROVE  Chain'
  BY <1>6, ChainCloses, ChainCrashes
<1>7. CASE UNCHANGED vars
  BY <1>7 DEF vars, Chain, Regular, AllChained, Follows, Unserved
<1>8. QED
  BY <1>1, <1>2, <1>3, <1>4, <1>5, <1>6, <1>7 DEF Next

LEMMA ChainBegins ==
  ASSUME Init
  PROVE  Distinct /\ Chain
<1>1. Distinct
  BY DEF Init, Fresh, Distinct, Writer
<1>2. AllChained
  BY DEF Init, AllChained
<1>3. ASSUME NEW i \in Instances PROVE Follows(i)
  <2>1. Unserved(i)
    BY NoCallType, OpeningAssumption DEF Init, Unserved
  <2>2. Traces(kanta[i], NoCall, files[kanta[i].fd])
    BY NoCallKnows, TracesNothing DEF Init, Fresh
  <2>3. QED
    BY <2>1, <2>2 DEF Follows, Unserved
<1>4. QED
  BY <1>1, <1>2, <1>3 DEF Chain

-----------------------------------------------------------------------------
(* The path that a failed bootstrap is about to remove leads to an empty   *)
(* file, which nobody has open, as long as nobody has opened the path      *)
(* since.                                                                  *)
Deserted ==
  Regular => \A o \in Openers : At(o, "unlinking") /\ open[o].alone /\ path # 0 =>
               files[path] = <<>> /\ \A i \in Instances : kanta[i].fd # path

(* A step that opens no file. *)
LEMMA DesertedStep ==
  ASSUME OpeningType, Deserted, mishaps \subseteq mishaps', path' \in {path, 0},
         \A i \in Instances : kanta'[i].fd \in {kanta[i].fd, 0},
         \A n \in DOMAIN files : files'[n] = files[n] \/ \E i \in Instances : kanta[i].fd = n,
         \A o \in Openers : open'[o].pc = "unlinking" /\ open'[o].alone => At(o, "unlinking") /\ open[o].alone
  PROVE  Deserted'
<1> SUFFICES ASSUME Regular', NEW o \in Openers, At(o, "unlinking")', open'[o].alone, path' # 0
             PROVE  files'[path'] = <<>> /\ \A i \in Instances : kanta'[i].fd # path'
  BY DEF Deserted
<1>1. path' = path /\ Regular /\ At(o, "unlinking") /\ open[o].alone
  BY RegularBefore DEF At
<1>2. files[path] = <<>> /\ \A i \in Instances : kanta[i].fd # path
  BY <1>1 DEF Deserted
<1>3. path \in DOMAIN files
  <2>1. path \in 0 .. Len(files) /\ Len(files) \in Nat /\ DOMAIN files = 1 .. Len(files)
    BY DEF OpeningType, FilesType
  <2>2. QED
    BY <1>1, <2>1
<1>4. QED
  BY <1>1, <1>2, <1>3

(* Whoever opens the path takes the claim of being alone from the others.  *)
LEMMA DesertedReads ==
  ASSUME OpenType, NEW o \in Openers, NEW n, Reads(o, n)
  PROVE  \A p \in Openers : ~(open'[p].pc = "unlinking" /\ open'[p].alone)
<1>1. ASSUME NEW p \in Openers, p # o PROVE ~open'[p].alone
  <2>1. open'[p] = [open[p] EXCEPT !.alone = FALSE] /\ open[p] \in OpenCall
    BY <1>1 DEF Reads, OpenType
  <2>2. QED
    BY <2>1 DEF OpenCall
<1>2. open'[o].pc # "unlinking"
  BY ReadsMoves, NoCallType DEF Moves
<1>3. QED
  BY <1>1, <1>2

LEMMA DesertedBootstrap ==
  ASSUME OpeningType, Life, Chain, Deserted, NEW o \in Openers, BootstrapFails(o)
  PROVE  Deserted'
<1> DEFINE i == open[o].of
           k == kanta[i]
<1>1. i \in Instances /\ mishaps \subseteq mishaps' /\ files' = files /\ path' = path /\ At(o, "bootstrapping")
  BY Serves DEF BootstrapFails, At, Notes
<1>2. kanta'[i].fd = 0 /\ \A j \in Instances : j # i => kanta'[j] = kanta[j]
  BY BootstrapFailsEffect DEF Becomes, Fields
<1>3. PICK c : Moves(o, c) /\ (c.alone => Alone(i))
  <2> DEFINE alone == Alone(i)
  <2>1. ToUnlink(o, alone)
    BY DEF BootstrapFails, ToUnlink
  <2> HIDE DEF alone
  <2>2. PICK c : Moves(o, c) /\ c.alone = alone
    BY <2>1, UnlinkingMoves DEF OpeningType
  <2>3. QED
    BY <2>2 DEF alone
<1>4. ASSUME Regular', NEW p \in Openers, At(p, "unlinking")', open'[p].alone, path' # 0
      PROVE  files'[path'] = <<>> /\ \A j \in Instances : kanta'[j].fd # path'
  <2>1. Regular
    BY <1>1, <1>4, RegularBefore
  <2>2. CASE p # o
    <3>1. At(p, "unlinking") /\ open[p].alone
      BY <1>3, <1>4, <2>2 DEF Moves, Alike, At
    <3>2. files[path] = <<>> /\ \A j \in Instances : kanta[j].fd # path
      BY <1>1, <1>4, <2>1, <3>1 DEF Deserted
    <3>3. QED
      BY <1>1, <1>2, <1>4, <3>2
  <2>3. CASE p = o
    <3>1. k.fd = path /\ \A j \in Instances \ {i} : kanta[j].fd # k.fd
      BY <1>3, <1>4, <2>3 DEF Moves, Alone
    <3>2. LifeOf(i) /\ Follows(i)
      BY <1>1, <2>1 DEF Life, Chain, Regular
    <3>3. Serving(k, open[o].pc, open[o].mode, mishaps) /\ Traces(k, open[o], files[k.fd])
      BY <3>2 DEF LifeOf, Unserved, ServedBy, Follows
    <3>4. files[path] = <<>>
      BY <1>1, <3>1, <3>3 DEF Serving, Traces, At
    <3>5. QED
      BY <1>1, <1>2, <1>4, <3>1, <3>4
  <2>4. QED
    BY <2>2, <2>3
<1>5. QED
  BY <1>4 DEF Deserted

LEMMA DesertedOpens ==
  ASSUME OpeningType, IInv, Deserted, NEW o \in Openers,
         \/ OpenRefused(o) \/ RejectEmpty(o) \/ RejectEmptyReadonly(o) \/ Proceed(o)
         \/ LoadRaises(o) \/ LoadInvalid(o) \/ Load(o) \/ LoadMigrated(o)
         \/ RecordMigration(o) \/ RecordingRaises(o) \/ Bootstrap(o) \/ Cancel(o)
  PROVE  Deserted'
<1>1. Quiet /\ path' = path /\ mishaps \subseteq mishaps'
  BY OpenSteps
<1>2. \A i \in Instances : kanta'[i].fd \in {kanta[i].fd, 0}
  BY <1>1 DEF Quiet, Keeps
<1>3. \/ open' = open
      \/ \E pc : pc # "unlinking" /\ (Ends(o) \/ Step(o, pc))
  <2>1. CASE Proceed(o)
    <3> DEFINE pc == IF open[o].content = <<>> THEN "bootstrapping" ELSE "loading"
    <3>1. Step(o, pc) /\ pc # "unlinking"
      BY <2>1 DEF Proceed
    <3> HIDE DEF pc
    <3>2. QED
      BY <3>1
  <2>2. CASE LoadMigrated(o) \/ Cancel(o)
    <3>1. Step(o, "recording") \/ Step(o, "stray") \/ Ends(o) \/ open' = open
      BY <2>2 DEF LoadMigrated, Cancel
    <3>2. "recording" # "unlinking" /\ "stray" # "unlinking"
      OBVIOUS
    <3>3. QED
      BY <3>1, <3>2
  <2>3. CASE ~Proceed(o) /\ ~LoadMigrated(o) /\ ~Cancel(o)
    <3>1. Ends(o)
      BY <2>3 DEF OpenRefused, RejectEmpty, RejectEmptyReadonly, LoadRaises, LoadInvalid, Load, RecordMigration,
                  RecordingRaises, Bootstrap
    <3>2. "idle" # "unlinking"
      OBVIOUS
    <3>3. QED
      BY <3>1, <3>2
  <2>4. QED
    BY <2>1, <2>2, <2>3
<1>4. \/ open' = open
      \/ \E c : Moves(o, c) /\ c.pc # "unlinking"
  <2>1. CASE Ends(o)
    BY <2>1, EndsMoves, NoCallType DEF OpeningType
  <2>2. ASSUME NEW pc, pc # "unlinking", Step(o, pc) PROVE \E c : Moves(o, c) /\ c.pc # "unlinking"
    BY <2>2, StepMoves DEF OpeningType
  <2>3. QED
    BY <1>3, <2>1, <2>2
<1>5. \A p \in Openers : open'[p].pc = "unlinking" /\ open'[p].alone => At(p, "unlinking") /\ open[p].alone
  BY <1>4 DEF Moves, Alike, At
<1>6. \A n \in DOMAIN files : files'[n] = files[n] \/ \E i \in Instances : kanta[i].fd = n
  <2>1. CASE RecordMigration(o)
    BY <2>1, RecordMigrationEffect
  <2>2. CASE Cancel(o)
    <3>1. open[o].pc # "idle"
      BY <2>2 DEF Cancel, At
    <3>2. open[o].of \in Instances /\ kanta[open[o].of] \in Attributes
      BY <3>1, Serves
    <3>3. files' = files \/ files' = Written(kanta[open[o].of], kanta[open[o].of].pending)
      BY <2>2 DEF Cancel
    <3>4. path' = path /\ last' \in Nat /\ kanta[open[o].of].pending \in Seq(Change)
      BY <2>2, <3>2 DEF Cancel, OpeningType, FilesType, Attributes
    <3>5. QED
      BY <3>2, <3>3, <3>4, WrittenType DEF OpeningType
  <2>3. CASE ~RecordMigration(o) /\ ~Cancel(o)
    BY <2>3 DEF OpenRefused, RejectEmpty, RejectEmptyReadonly, Proceed, LoadRaises, LoadInvalid, Load, LoadMigrated,
                RecordingRaises, Bootstrap
  <2>4. QED
    BY <2>1, <2>2, <2>3
<1>7. QED
  BY <1>1, <1>2, <1>5, <1>6, DesertedStep

LEMMA DesertedCall ==
  ASSUME OpeningType, IInv, Deserted, NEW o \in Openers, NEW i \in Instances, NEW mode \in Modes, Call(o, i, mode)
  PROVE  Deserted'
<1> DEFINE c == [NoCall EXCEPT !.pc = "reading", !.of = i, !.mode = mode, !.existed = (path # 0)]
<1>1. Quiet /\ path' = path /\ mishaps \subseteq mishaps'
  BY OpenSteps
<1>2. \A j \in Instances : kanta'[j].fd \in {kanta[j].fd, 0}
  BY <1>1 DEF Quiet, Keeps
<1>3. c.pc = "reading"
  BY DEF NoCall
<1>4. files' = files /\ open' = [open EXCEPT ![o] = c]
  BY DEF Call
<1> HIDE DEF c
<1>5. \A p \in Openers : open'[p].pc = "unlinking" /\ open'[p].alone => At(p, "unlinking") /\ open[p].alone
  BY <1>3, <1>4 DEF At, OpeningType, OpenType
<1>6. QED
  BY <1>1, <1>2, <1>4, <1>5, DesertedStep

LEMMA DesertedInstance ==
  ASSUME OpeningType, IInv, Deserted, NEW i \in Instances,
         \/ Commit(i) \/ Flush(i) \/ FlushesOverlap(i) \/ FlushFails(i) \/ LoopDies(i)
         \/ CloseBegin(i) \/ CloseEnd(i) \/ CloseRaises(i)
  PROVE  Deserted'
<1>1. Quiet /\ path' = path /\ mishaps \subseteq mishaps'
  BY InstanceSteps
<1>2. \A j \in Instances : kanta'[j].fd \in {kanta[j].fd, 0}
  BY <1>1 DEF Quiet, Keeps
<1>3. open' = open
  BY DEF Commit, Flush, FlushesOverlap, FlushFails, LoopDies, CloseBegin, CloseEnd, CloseRaises
<1>4. \A n \in DOMAIN files : files'[n] = files[n] \/ \E j \in Instances : kanta[j].fd = n
  <2>1. CASE Flush(i) \/ FlushesOverlap(i)
    BY <2>1, FlushEffect, FlushesOverlapEffect
  <2>2. CASE CloseEnd(i) \/ CloseRaises(i)
    BY <2>2, CloseEndEffect, CloseRaisesEffect
  <2>3. CASE Commit(i) \/ FlushFails(i) \/ LoopDies(i) \/ CloseBegin(i)
    BY <2>3 DEF Commit, FlushFails, LoopDies, CloseBegin
  <2>4. QED
    BY <2>1, <2>2, <2>3
<1>5. QED
  BY <1>1, <1>2, <1>3, <1>4, DesertedStep DEF At

(* A file that was not there is empty. *)
LEMMA DesertedOpensFile ==
  ASSUME OpeningType, Deserted, NEW o \in Openers, OpenFile(o)
  PROVE  Deserted'
<1>1. /\ kanta' = kanta /\ mishaps' = mishaps /\ Len(files) \in Nat
      /\ \/ path # 0 /\ path' = path /\ files' = files
         \/ path = 0 /\ path' = Len(files) + 1 /\ files' = Append(files, <<>>)
      /\ \A p \in Openers : open'[p] = IF p = o THEN [open[p] EXCEPT !.fd = path'] ELSE open[p]
  BY OpenFileEffect DEF OpenFile
<1>2. \A p \in Openers : open'[p].pc = open[p].pc /\ open'[p].alone = open[p].alone
  <2> SUFFICES ASSUME NEW p \in Openers PROVE open'[p].pc = open[p].pc /\ open'[p].alone = open[p].alone
    OBVIOUS
  <2>1. open[p] \in OpenCall
    BY DEF OpeningType, OpenType
  <2>2. QED
    BY <1>1, <2>1 DEF OpenCall
<1>3. CASE path # 0
  BY <1>1, <1>2, <1>3 DEF Deserted, At, Regular
<1>4. CASE path = 0
  <2>1. files'[path'] = <<>>
    BY <1>1, <1>4 DEF OpeningType, FilesType
  <2>2. \A i \in Instances : kanta[i].fd \in 0 .. Len(files)
    BY DEF OpeningType, KantaType
  <2>3. \A i \in Instances : kanta[i].fd # path'
    BY <1>1, <1>4, <2>2
  <2>4. QED
    BY <1>1, <2>1, <2>3 DEF Deserted
<1>5. QED
  BY <1>3, <1>4

LEMMA DesertedGoesOn ==
  ASSUME OpeningType, IInv, Life, Chain, Deserted, [Next]_vars
  PROVE  Deserted'
<1>1. ASSUME NEW o \in Openers, NEW i \in Instances, NEW mode \in Modes, Call(o, i, mode) PROVE Deserted'
  BY <1>1, DesertedCall
<1>2. ASSUME NEW o \in Openers, OpenFile(o) \/ ReadAgain(o) \/ LockAndRead(o) PROVE Deserted'
  <2>1. CASE OpenFile(o)
    BY <2>1, DesertedOpensFile
  <2>2. ASSUME NEW n, Reads(o, n) PROVE Deserted'
    BY <2>2, DesertedReads DEF Deserted, At, OpeningType
  <2>3. QED
    BY <1>2, <2>1, <2>2 DEF ReadAgain, LockAndRead, TakeFile
<1>3. ASSUME NEW o \in Openers,
             \/ OpenRefused(o) \/ RejectEmpty(o) \/ RejectEmptyReadonly(o) \/ Proceed(o)
             \/ LoadRaises(o) \/ LoadInvalid(o) \/ Load(o) \/ LoadMigrated(o)
             \/ RecordMigration(o) \/ RecordingRaises(o) \/ Bootstrap(o) \/ Cancel(o)
      PROVE  Deserted'
  BY <1>3, DesertedOpens
<1>4. ASSUME NEW o \in Openers, BootstrapFails(o) PROVE Deserted'
  BY <1>4, DesertedBootstrap
<1>5. ASSUME NEW o \in Openers, Unlink(o) PROVE Deserted'
  <2>1. path' = 0
    BY <1>5 DEF Unlink
  <2>2. QED
    BY <2>1 DEF Deserted
<1>6. ASSUME NEW i \in Instances,
             \/ Commit(i) \/ Flush(i) \/ FlushesOverlap(i) \/ FlushFails(i) \/ LoopDies(i)
             \/ CloseBegin(i) \/ CloseEnd(i) \/ CloseRaises(i)
      PROVE  Deserted'
  BY <1>6, DesertedInstance
<1>7. ASSUME NEW i \in Instances, Reopen(i) PROVE Deserted'
  <2>1. mishaps' = mishaps /\ kanta[i].opened /\ kanta[i].fd = 0
    BY <1>7 DEF Reopen, Flushing
  <2>2. ASSUME Regular' PROVE FALSE
    <3>1. LifeOf(i)
      BY <2>1, <2>2 DEF Life, Regular
    <3>2. Tidy(kanta[i], mishaps)
      BY <3>1 DEF LifeOf, Rest, Serving
    <3>3. QED
      BY <2>1, <3>2 DEF Tidy
  <2>3. QED
    BY <2>2 DEF Deserted
<1>8. ASSUME NEW i \in Instances, Crash(i) PROVE Deserted'
  <2>1. path' = path /\ files' = files /\ mishaps' = mishaps
        /\ \A p \in Openers : open'[p] = IF open[p].of = i THEN NoCall ELSE open[p]
    BY <1>8 DEF Crash
  <2>2. \A j \in Instances : kanta'[j].fd \in {kanta[j].fd, 0}
    BY <1>8, CrashType DEF Fresh
  <2>3. \A p \in Openers : open'[p].pc = "unlinking" /\ open'[p].alone => At(p, "unlinking") /\ open[p].alone
    BY <2>1, NoCallType DEF At
  <2>4. QED
    BY <2>1, <2>2, <2>3, DesertedStep
<1>9. CASE UNCHANGED vars
  BY <1>9 DEF vars, Deserted, Regular, At
<1>10. QED
  BY <1>1, <1>2, <1>3, <1>4, <1>5, <1>6, <1>7, <1>8, <1>9 DEF Next

-----------------------------------------------------------------------------
OpeningInv == OpeningType /\ Pending /\ IInv /\ Life /\ Distinct /\ Chain /\ Deserted

LEMMA OpeningAlways == Spec => []OpeningInv
<1>1. Init => OpeningInv
  <2>1. Init => Deserted
    BY NoCallType DEF Init, Deserted, At
  <2>2. QED
    BY <2>1, TypesBegin, LifeBegins, InitHolds, ChainBegins DEF OpeningInv
<1>2. OpeningInv /\ [Next]_vars => OpeningInv'
  <2> SUFFICES ASSUME OpeningInv, [Next]_vars PROVE OpeningInv'
    OBVIOUS
  <2>1. OpeningType' /\ Pending' /\ Life'
    BY TypeKept, PendingKept, LifeGoesOn DEF OpeningInv
  <2>2. IInv'
    BY NextHolds DEF OpeningInv
  <2>3. Distinct' /\ Chain' /\ Deserted'
    BY DistinctGoesOn, ChainGoesOn, DesertedGoesOn DEF OpeningInv
  <2>4. QED
    BY <2>1, <2>2, <2>3 DEF OpeningInv
<1>3. QED
  BY <1>1, <1>2, PTL DEF Spec

(* Each record of a log continues where the one before it ended or repeats *)
(* one that a cancelled flush wrote, whoever wrote them and however often  *)
(* the path was opened, closed and bootstrapped again, in whatever way     *)
(* opens failed or were cancelled and processes died; as long as the       *)
(* instances are used regularly: no overlapping opens, closes or flushes,  *)
(* no transaction outside open() and close(), nothing left of a former     *)
(* life.                                                                   *)
THEOREM AlwaysChained == Spec => []ChainedLog
<1>1. OpeningInv => ChainedLog
  BY DEF OpeningInv, Chain, AllChained, ChainedLog
<1>2. QED
  BY <1>1, OpeningAlways, PTL

(* As long as the instances are used regularly, the path that open()       *)
(* removes after a failed bootstrap leads to an empty file, unless another *)
(* instance has opened it since.                                           *)
THEOREM NeverDeletesRecords == Spec => DeletesNoRecords
<1>1. OpeningInv =>
        [\A o \in Openers :
           At(o, "unlinking") /\ open[o].alone /\ path # 0 /\ path' = 0 /\ Regular => files[path] = <<>>]_vars
  BY DEF OpeningInv, Deserted
<1>2. QED
  BY <1>1, OpeningAlways, PTL DEF DeletesNoRecords
=============================================================================
