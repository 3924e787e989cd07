-------------------------- MODULE BackgroundProofs --------------------------
(***************************************************************************)
(* The background loop as the only task: neither kanta.flush() nor close() *)
(* is called.  Then, with snapshots, refused writes and crashes, the log   *)
(* holds each change record once and in order, at the offset it was framed *)
(* for, and log and queue together rebuild the state.                      *)
(***************************************************************************)
EXTENDS PersistenceProofs

(* Nothing is cancelled, so that no write is abandoned. *)
AloneInv == cancel = "no" /\ orphan = <<>> /\ pc["closer"] = "idle"

(* A step that changes neither queue nor log, nor where a flush is, except *)
(* that one without a completed write may be given up.                     *)
Idles ==
  /\ UNCHANGED <<statedict, history, pending, file, batch, base, changes>>
  /\ \/ pc'["bg"] = pc["bg"]
     \/ pc["bg"] # "written" /\ pc'["bg"] \notin InFlush
  /\ \/ force' = force
     \/ Cardinality({i \in DOMAIN file : file[i].kind = "snapshot"}) <= MaxSnapshots

(* What a crash leaves of a write under way. *)
Landed ==
  \/ file' = file
  \/ /\ pc["bg"] = "writing"
     /\ \E n \in 0 .. Len(batch["bg"]) :
          file' = file \o SubSeq(Framed(batch["bg"], base["bg"]), 1, n)

LEMMA InitAlone == ASSUME Init PROVE AloneInv
  BY DEF Init, AloneInv, Tasks

(* The steps there are, and that the loop stays alone. *)
LEMMA LoneSteps ==
  ASSUME Flushers = {}, AllowClose = FALSE, TypeInv, DurableInv, AloneInv, [Next]_vars
  PROVE  /\ AloneInv'
         /\ \/ \E k \in Keys : Commit(k)
            \/ ReadSize("bg") \/ Write("bg") \/ BgFlush \/ BgTick \/ BgDone
            \/ CrashRestart /\ Landed
            \/ Idles
<1> DEFINE Goal == /\ AloneInv'
                   /\ \/ \E k \in Keys : Commit(k)
                      \/ ReadSize("bg") \/ Write("bg") \/ BgFlush \/ BgTick \/ BgDone
                      \/ CrashRestart /\ Landed
                      \/ Idles
<1>1. /\ Tasks = Own /\ "bg" \in Own /\ "closer" \in Own /\ DOMAIN pc = Own
      /\ cancel = "no" /\ orphan = <<>> /\ pc["closer"] = "idle"
  BY Types, Flushers = {} DEF Tasks, Own, AloneInv
<1>2. CASE UNCHANGED vars
  BY <1>2 DEF vars, memory, jobs, snap, AloneInv, Idles
<1>3. CASE \E k \in Keys : Commit(k)
  BY <1>3 DEF Commit, AloneInv
<1>4. CASE RequestSnapshot
  BY <1>4 DEF RequestSnapshot, memory, jobs, AloneInv, Idles
<1>5. ASSUME NEW t \in Own, ReadSize(t) \/ Write(t) \/ WriteFails(t) \/ Fail(t) PROVE Goal
  <2>1. t = "bg"
    BY <1>1, <1>5 DEF ReadSize, Write, WriteFails, Fail, Own
  <2>2. CASE ReadSize("bg") \/ Write("bg")
    <3>1. /\ UNCHANGED <<cancel, orphan>>
          /\ pc' = [pc EXCEPT !["bg"] = "writing"] \/ pc' = [pc EXCEPT !["bg"] = "written"]
      BY <2>2 DEF ReadSize, Write
    <3>2. pc'["closer"] = "idle"
      BY <1>1, <3>1
    <3>3. QED
      BY <1>1, <2>2, <3>1, <3>2 DEF AloneInv
  <2>3. CASE WriteFails("bg") \/ Fail("bg")
    <3>1. /\ UNCHANGED <<cancel, orphan>> /\ pc["bg"] # "written"
          /\ pc' = [pc EXCEPT !["bg"] = "failed"] \/ pc' = [pc EXCEPT !["bg"] = "done"]
      BY <1>1, <2>3, Flushers = {} DEF WriteFails, Fail
    <3>2. pc'["closer"] = "idle" /\ pc'["bg"] \notin InFlush
      BY <1>1, <3>1 DEF InFlush
    <3>3. UNCHANGED <<statedict, history, pending, file, batch, base, changes, force>>
      BY <2>3 DEF WriteFails, Fail, memory, jobs, snap
    <3>4. QED
      BY <1>1, <3>1, <3>2, <3>3 DEF AloneInv, Idles
  <2>4. QED
    BY <1>5, <2>1, <2>2, <2>3
<1>6. ASSUME NEW t \in Own, FlushStart(t) \/ FlushDone(t) \/ FileClosed(t) PROVE Goal
  BY <1>6, Flushers = {} DEF FlushStart, FlushDone, FileClosed
<1>7. CASE BgStart
  <2>1. /\ UNCHANGED <<cancel, orphan>> /\ pc["bg"] = "new"
        /\ UNCHANGED <<statedict, history, pending, file, batch, base, changes, force>>
        /\ pc' = [pc EXCEPT !["bg"] = "idle"]
    BY <1>7 DEF BgStart, memory, jobs, snap
  <2>2. pc'["closer"] = "idle" /\ pc'["bg"] \notin InFlush
    BY <1>1, <2>1 DEF InFlush
  <2>3. QED
    BY <1>1, <2>1, <2>2 DEF AloneInv, Idles
<1>8. CASE BgFlush \/ BgTick \/ BgDone
  <2>1. /\ UNCHANGED <<cancel, orphan>>
        /\ pc' = pc \/ \E s \in {"sizing", "idle", "done"} : pc' = [pc EXCEPT !["bg"] = s]
    BY <1>8 DEF BgFlush, BgTick, BgDone, BeginFlush
  <2>2. pc'["closer"] = "idle"
    BY <1>1, <2>1
  <2>3. QED
    BY <1>1, <1>8, <2>1, <2>2 DEF AloneInv
<1>9. CASE BgShort
  BY <1>1, <1>9, NeverShort DEF BgShort
<1>10. CASE BgCancelled \/ OrphanWrite \/ CloseBegin \/ CloseRaises \/ CloseFlush \/ CloseFile \/ CloseDone
  BY <1>1, <1>10, AllowClose = FALSE
     DEF BgCancelled, OrphanWrite, CloseBegin, CloseRaises, CloseFlush, CloseFile, CloseDone
<1>11. CASE CrashRestart
  <2>1. AloneInv'
    BY <1>1, <1>11 DEF CrashRestart, AloneInv
  <2>2. PICK w \in Landing : \E n \in 0 .. Len(w) : file' = file \o SubSeq(w, 1, n)
    BY <1>11 DEF CrashRestart
  <2>3. PICK n \in 0 .. Len(w) : file' = file \o SubSeq(w, 1, n)
    BY <2>2
  <2>4. file \in Seq(Entry)
    BY Types
  <2>5. CASE w = <<>>
    <3>1. SubSeq(w, 1, n) = <<>>
      BY <2>3, <2>5
    <3>2. file \o <<>> = file
      BY <2>4
    <3>3. file' = file
      BY <2>3, <3>1, <3>2
    <3>4. QED
      BY <1>11, <2>1, <3>3 DEF Landed
  <2>6. CASE w # <<>>
    <3>1. pc["bg"] = "writing" /\ w = Framed(batch["bg"], base["bg"])
      <4>1. PICK t \in Own : pc[t] = "writing" /\ w = Framed(batch[t], base[t])
        BY <1>1, <2>6 DEF Landing
      <4>2. t = "bg"
        BY <1>1, <4>1 DEF Own
      <4>3. QED
        BY <4>1, <4>2
    <3>2. Len(w) = Len(batch["bg"])
      BY <1>1, <3>1, Types, FramedType
    <3>3. QED
      BY <1>11, <2>1, <2>3, <3>1, <3>2 DEF Landed
  <2>7. QED
    BY <2>5, <2>6
<1>12. QED
  BY <1>1, <1>2, <1>3, <1>4, <1>5, <1>6, <1>7, <1>8, <1>9, <1>10, <1>11 DEF Next

(* The shapes of a step, for an invariant of log and queue: either nothing *)
(* is written; or a batch is, or a snapshot, or what a crash leaves.       *)
LEMMA Appends ==
  ASSUME TypeInv, AloneInv, Write("bg")
  PROVE  /\ pc["bg"] = "writing" /\ pc'["bg"] = "written"
         /\ file' = file \o Framed(batch["bg"], base["bg"])
         /\ UNCHANGED <<statedict, history, pending, batch, base, changes, force>>
<1>1. "bg" \in DOMAIN pc
  BY Types DEF Own
<1>2. QED
  BY <1>1 DEF Write, memory, jobs, snap

LEMMA Dequeues ==
  ASSUME TypeInv, DurableInv, AloneInv, BgDone
  PROVE  /\ pc["bg"] = "written" /\ pc'["bg"] = "idle"
         /\ UNCHANGED <<statedict, history>>
         /\ file' = file \/ file' = Append(file, SnapshotOf(Len(file)))
         /\ pending \in Seq(Change) /\ batch["bg"] \in Seq(Change)
         /\ pending' \in Seq(Change)
         /\ Len(batch["bg"]) \in 0 .. Len(pending)
         /\ Len(pending') = Len(pending) - Len(batch["bg"])
         /\ \A i \in 1 .. Len(pending') : pending'[i] = pending[Len(batch["bg"]) + i]
         /\ Dequeued' = Dequeued + Len(batch["bg"])
<1>1. /\ pc["bg"] = "written" /\ Dequeue("bg") /\ MaybeSnapshot(Counted("bg"))
      /\ pc' = [pc EXCEPT !["bg"] = IF cancel = "no" THEN "idle" ELSE "done"]
      /\ UNCHANGED <<statedict, history>> /\ "bg" \in Own /\ "bg" \in DOMAIN pc
  BY Types DEF BgDone, Own
<1> DEFINE n == Len(batch["bg"])
           m == Len(pending)
<1>2. /\ n \in Nat /\ m \in Nat /\ n <= m /\ pending \in Seq(Change)
      /\ batch["bg"] \in Seq(Change)
  BY <1>1, Types DEF DurableInv, InFlush
<1>3. pending' = SubSeq(pending, n + 1, m)
  BY <1>1, <1>2 DEF Dequeue
<1> HIDE DEF n
<1>4. /\ pending' \in Seq(Change) /\ Len(pending') = m - n
      /\ \A i \in 1 .. Len(pending') : pending'[i] = pending[n + i]
  BY <1>2, <1>3
<1>5. Dequeued' = Dequeued + n
  BY <1>1, <1>2, <1>4, Types DEF Dequeued
<1>6. file' = file \/ file' = Append(file, SnapshotOf(Len(file)))
  BY <1>1 DEF MaybeSnapshot
<1>7. pc'["bg"] = "idle"
  BY <1>1 DEF AloneInv
<1>8. n \in 0 .. m /\ batch["bg"] \in Seq(Change)
  BY <1>2
<1>9. QED
  BY <1>1, <1>2, <1>4, <1>5, <1>6, <1>7, <1>8 DEF n

LEMMA Ticks ==
  ASSUME BgTick
  PROVE  /\ pc["bg"] = "idle" /\ pc' = pc /\ UNCHANGED <<statedict, history, pending, batch, base>>
         /\ file' = file \/ file' = Append(file, SnapshotOf(Len(file)))
  BY DEF BgTick, MaybeSnapshot, memory, jobs

LEMMA Begins ==
  ASSUME TypeInv, BgFlush
  PROVE  /\ pc'["bg"] = "sizing" /\ batch'["bg"] = pending /\ pending # <<>>
         /\ UNCHANGED <<statedict, history, pending, file, base, changes, force>>
<1>1. "bg" \in DOMAIN pc /\ "bg" \in DOMAIN batch
  BY Types DEF Own
<1>2. QED
  BY <1>1 DEF BgFlush, BeginFlush, CanFlush, memory, snap

LEMMA Sizes ==
  ASSUME TypeInv, ReadSize("bg")
  PROVE  /\ pc["bg"] = "sizing" /\ pc'["bg"] = "writing" /\ base'["bg"] = Len(file)
         /\ UNCHANGED <<statedict, history, pending, file, batch, changes, force>>
<1>1. "bg" \in DOMAIN pc /\ "bg" \in DOMAIN base
  BY Types DEF Own, TypeInv, TypeOK
<1>2. QED
  BY <1>1 DEF ReadSize, memory, snap

LEMMA Restarts ==
  ASSUME TypeInv, TypeInv', CrashRestart
  PROVE  /\ pc'["bg"] = "new" /\ pending' = <<>> /\ statedict' = Replay(file') /\ ~force'
         /\ history' = SubSeq(history, 1, Newest(file')) /\ changes' = 0
         /\ Newest(file') \in Nat /\ UpTo(file', Newest(file'))
         /\ Len(history') = Newest(file') /\ Dequeued' = Newest(file')
<1>1. /\ pc'["bg"] = "new" /\ pending' = <<>> /\ statedict' = Replay(file') /\ ~force'
      /\ history' = SubSeq(history, 1, Newest(file')) /\ changes' = 0
  BY Types DEF CrashRestart, Own
<1>2. /\ file' \in Seq(Entry) /\ file' # <<>> /\ UpTo(file', Len(history'))
      /\ Len(history') \in Nat
  BY DEF TypeInv, TypeOK
<1>3. Newest(file') \in 0 .. Len(history') /\ UpTo(file', Newest(file'))
  BY <1>2, NewestType
<1>4. Len(history') = Newest(file')
  <2> DEFINE m == Newest(file')
  <2>1. m \in 0 .. Len(history') /\ history \in Seq(Change)
    BY <1>3, Types
  <2>2. history' = SubSeq(history, 1, m)
    BY <1>1
  <2> HIDE DEF m
  <2>3. Len(SubSeq(history, 1, m)) = m
    BY <2>1
  <2>4. QED
    BY <2>2, <2>3 DEF m
<1>5. Dequeued' = Newest(file')
  <2>1. Len(pending') = 0
    BY <1>1
  <2>2. QED
    BY <1>3, <1>4, <2>1 DEF Dequeued
<1>6. QED
  BY <1>1, <1>2, <1>3, <1>4, <1>5

-----------------------------------------------------------------------------
(* Offsets *)

(* Records f lie where they were framed for. *)
Placed(f) == \A i \in DOMAIN f : f[i].at = i - 1

(* The offset a batch was framed for is still the end of the file.         *)
PlacedInv == Placed(file) /\ (pc["bg"] = "writing" => base["bg"] = Len(file))

LEMMA PlacedAppend ==
  ASSUME NEW f \in Seq(Entry), NEW g \in Seq(Entry), Placed(f),
         \A i \in DOMAIN g : g[i].at = Len(f) + i - 1
  PROVE  Placed(f \o g)
<1>1. /\ DOMAIN (f \o g) = 1 .. Len(f) + Len(g) /\ Len(f) \in Nat /\ Len(g) \in Nat
      /\ \A i \in 1 .. Len(f) + Len(g) : (f \o g)[i] = IF i <= Len(f) THEN f[i] ELSE g[i - Len(f)]
  OBVIOUS
<1>2. ASSUME NEW i \in 1 .. Len(f) + Len(g) PROVE (f \o g)[i].at = i - 1
  <2>1. CASE i <= Len(f)
    BY <1>1, <2>1 DEF Placed
  <2>2. CASE i > Len(f)
    <3>1. i - Len(f) \in DOMAIN g /\ (f \o g)[i] = g[i - Len(f)]
      BY <1>1, <2>2
    <3>2. (f \o g)[i].at = Len(f) + (i - Len(f)) - 1
      BY <3>1
    <3>3. QED
      BY <1>1, <3>2
  <2>3. QED
    BY <1>1, <2>1, <2>2
<1>3. QED
  BY <1>1, <1>2 DEF Placed

(* A snapshot is framed and written in one stretch. *)
LEMMA SnapshotEntryType ==
  ASSUME TypeInv
  PROVE  /\ SnapshotOf(Len(file)) \in Entry /\ SnapshotOf(Len(file)).kind = "snapshot"
         /\ SnapshotOf(Len(file)).state = statedict /\ statedict \in State
         /\ SnapshotOf(Len(file)).id = Len(history) /\ SnapshotOf(Len(file)).at = Len(file)
  BY Types DEF SnapshotOf, Entry, SnapshotEntry, TypeInv, TypeOK

LEMMA SnapshotPlaced ==
  ASSUME TypeInv, Placed(file), file' = file \/ file' = Append(file, SnapshotOf(Len(file)))
  PROVE  Placed(file')
<1> DEFINE e == SnapshotOf(Len(file))
<1>1. e \in Entry /\ e.at = Len(file) /\ file \in Seq(Entry) /\ Len(file) \in Nat
  BY SnapshotEntryType, Types
<1> HIDE DEF e
<1>2. <<e>> \in Seq(Entry) /\ Append(file, e) = file \o <<e>>
      /\ \A i \in DOMAIN <<e>> : <<e>>[i].at = Len(file) + i - 1
  BY <1>1
<1>3. Placed(Append(file, e))
  BY <1>1, <1>2, PlacedAppend
<1>4. QED
  BY <1>3 DEF e

(* A batch, or what a crash leaves of it, lands where it was framed for.   *)
LEMMA BatchPlaced ==
  ASSUME TypeInv, PlacedInv, pc["bg"] = "writing", NEW n \in 0 .. Len(batch["bg"])
  PROVE  LET g == Framed(batch["bg"], base["bg"])
         IN Placed(file \o g) /\ Placed(file \o SubSeq(g, 1, n))
<1> DEFINE g == Framed(batch["bg"], base["bg"])
<1>1. /\ g \in Seq(ChangeEntry) /\ Len(g) = Len(batch["bg"]) /\ Len(g) \in Nat
      /\ base["bg"] = Len(file) /\ file \in Seq(Entry) /\ n \in 0 .. Len(g)
  BY Types, FramedType DEF Own, PlacedInv
<1>2. \A i \in 1 .. Len(g) : g[i].at = Len(file) + i - 1
  <2>1. batch["bg"] \in Seq(Change) /\ base["bg"] \in Nat
    BY Types DEF Own
  <2>2. \A i \in 1 .. Len(batch["bg"]) : g[i].at = base["bg"] + i - 1
    BY DEF Framed
  <2>3. QED
    BY <1>1, <2>2
<1> HIDE DEF g
<1>3. g \in Seq(Entry)
  BY <1>1, ChangesAreEntries
<1>4. /\ SubSeq(g, 1, n) \in Seq(Entry) /\ Len(SubSeq(g, 1, n)) = n
      /\ \A i \in 1 .. n : SubSeq(g, 1, n)[i] = g[i]
  BY <1>1, <1>3
<1>5. \A i \in DOMAIN SubSeq(g, 1, n) : SubSeq(g, 1, n)[i].at = Len(file) + i - 1
  BY <1>1, <1>2, <1>4
<1>6. Placed(file) /\ file \in Seq(Entry) /\ DOMAIN g = 1 .. Len(g)
  BY <1>1, <1>3 DEF PlacedInv
<1>7. Placed(file \o g)
  BY <1>2, <1>3, <1>6, PlacedAppend
<1>8. Placed(file \o SubSeq(g, 1, n))
  BY <1>4, <1>5, <1>6, PlacedAppend
<1>9. QED
  BY <1>7, <1>8 DEF g

LEMMA InitPlaced == ASSUME Init PROVE PlacedInv
  BY DEF Init, PlacedInv, Placed, Tasks

LEMMA StepPlaced ==
  ASSUME Flushers = {}, AllowClose = FALSE
  PROVE  TypeInv /\ DurableInv /\ AloneInv /\ PlacedInv /\ [Next]_vars => PlacedInv'
<1> SUFFICES ASSUME TypeInv, DurableInv, AloneInv, PlacedInv, [Next]_vars PROVE PlacedInv'
  OBVIOUS
<1>1. CASE \E k \in Keys : Commit(k)
  BY <1>1 DEF Commit, jobs, PlacedInv
<1>2. CASE ReadSize("bg")
  BY <1>2, Sizes DEF PlacedInv
<1>3. CASE Write("bg")
  <2>1. /\ pc["bg"] = "writing" /\ pc'["bg"] = "written"
        /\ file' = file \o Framed(batch["bg"], base["bg"])
    BY <1>3, Appends
  <2>2. 0 \in 0 .. Len(batch["bg"])
    BY Types DEF Own
  <2>3. Placed(file')
    BY <2>1, <2>2, BatchPlaced
  <2>4. QED
    BY <2>1, <2>3 DEF PlacedInv
<1>4. CASE BgFlush
  BY <1>4, Begins DEF PlacedInv
<1>5. CASE BgTick
  <2>1. Placed(file') /\ pc'["bg"] = "idle"
    BY <1>5, Ticks, SnapshotPlaced DEF PlacedInv
  <2>2. QED
    BY <2>1 DEF PlacedInv
<1>6. CASE BgDone
  <2>1. Placed(file') /\ pc'["bg"] = "idle"
    BY <1>6, Dequeues, SnapshotPlaced DEF PlacedInv
  <2>2. QED
    BY <2>1 DEF PlacedInv
<1>7. CASE CrashRestart /\ Landed
  <2>1. pc'["bg"] = "new"
    BY <1>7, StepType, Restarts
  <2>2. Placed(file')
    BY <1>7, BatchPlaced DEF Landed, PlacedInv
  <2>3. QED
    BY <2>1, <2>2 DEF PlacedInv
<1>8. CASE Idles
  BY <1>8 DEF Idles, PlacedInv, InFlush
<1>9. QED
  BY <1>1, <1>2, <1>3, <1>4, <1>5, <1>6, <1>7, <1>8, LoneSteps, Flushers = {}, AllowClose = FALSE

-----------------------------------------------------------------------------
(* Order *)

(* Change records f are in the order of commits, and of changes up to n.   *)
Ordered(f) == \A i, j \in DOMAIN f :
                i < j /\ f[i].kind = "change" /\ f[j].kind = "change" => f[i].id < f[j].id
Within(f, n) == \A i \in DOMAIN f : f[i].kind = "change" => f[i].id <= n

(* How far the change records go: to the last one dequeued, or to the end  *)
(* of the batch that has been written.                                     *)
Reach == IF pc["bg"] = "written" THEN Dequeued + Len(batch["bg"]) ELSE Dequeued
OrderInv == Ordered(file) /\ Within(file, Reach)

LEMMA OrderedAppend ==
  ASSUME NEW f \in Seq(Entry), NEW g \in Seq(ChangeEntry), NEW d \in Nat,
         Ordered(f), Within(f, d), Consecutive(g, d)
  PROVE  Ordered(f \o g) /\ Within(f \o g, d + Len(g))
<1> DEFINE h == f \o g
<1>1. /\ DOMAIN h = 1 .. Len(f) + Len(g) /\ Len(f) \in Nat /\ Len(g) \in Nat
      /\ DOMAIN f = 1 .. Len(f) /\ DOMAIN g = 1 .. Len(g)
      /\ \A i \in 1 .. Len(f) + Len(g) : h[i] = IF i <= Len(f) THEN f[i] ELSE g[i - Len(f)]
  OBVIOUS
<1>2. \A i \in 1 .. Len(f) : f[i].id \in Nat
  <2>1. \A i \in 1 .. Len(f) : f[i] \in Entry
    OBVIOUS
  <2>2. QED
    BY <2>1 DEF Entry, ChangeEntry, SnapshotEntry
<1> HIDE DEF h
<1>3. ASSUME NEW i \in DOMAIN h, i > Len(f) PROVE h[i].id = d + (i - Len(f))
  <2>1. i - Len(f) \in DOMAIN g /\ h[i] = g[i - Len(f)]
    BY <1>1, <1>3
  <2>2. QED
    BY <2>1 DEF Consecutive
<1>4. ASSUME NEW i \in DOMAIN h, i <= Len(f) PROVE i \in DOMAIN f /\ h[i] = f[i]
  BY <1>1, <1>4
<1>5. ASSUME NEW i \in DOMAIN h, NEW j \in DOMAIN h, i < j, h[i].kind = "change", h[j].kind = "change"
      PROVE  h[i].id < h[j].id
  <2>1. CASE j <= Len(f)
    <3>1. i \in DOMAIN f /\ j \in DOMAIN f /\ h[i] = f[i] /\ h[j] = f[j]
      BY <1>1, <1>4, <1>5, <2>1
    <3>2. QED
      BY <1>5, <3>1 DEF Ordered
  <2>2. CASE i <= Len(f) /\ j > Len(f)
    <3>1. h[i].id <= d /\ h[i].id \in Nat
      BY <1>1, <1>2, <1>4, <1>5, <2>2 DEF Within
    <3>2. h[j].id = d + (j - Len(f)) /\ j \in Nat
      BY <1>1, <1>3, <2>2
    <3>3. QED
      BY <1>1, <2>2, <3>1, <3>2
  <2>3. CASE i > Len(f) /\ j > Len(f)
    BY <1>1, <1>3, <1>5, <2>3
  <2>4. QED
    BY <1>1, <1>5, <2>1, <2>2, <2>3
<1>6. ASSUME NEW i \in DOMAIN h, h[i].kind = "change" PROVE h[i].id <= d + Len(g)
  <2>1. CASE i <= Len(f)
    <3>1. h[i].id <= d /\ h[i].id \in Nat
      BY <1>1, <1>2, <1>4, <1>6, <2>1 DEF Within
    <3>2. QED
      BY <1>1, <3>1
  <2>2. CASE i > Len(f)
    BY <1>1, <1>3, <2>2
  <2>3. QED
    BY <1>1, <2>1, <2>2
<1>7. Ordered(h) /\ Within(h, d + Len(g))
  BY <1>5, <1>6 DEF Ordered, Within
<1>8. QED
  BY <1>7 DEF h

(* A snapshot is no change record. *)
LEMMA OrderedSnapshot ==
  ASSUME TypeInv, NEW n, Ordered(file), Within(file, n),
         file' = file \/ file' = Append(file, SnapshotOf(Len(file)))
  PROVE  Ordered(file') /\ Within(file', n)
<1> DEFINE e == SnapshotOf(Len(file))
<1>1. e.kind = "snapshot" /\ file \in Seq(Entry) /\ Len(file) \in Nat
  BY SnapshotEntryType, Types
<1> HIDE DEF e
<1>2. CASE file' = Append(file, e)
  <2>1. /\ DOMAIN file' = 1 .. Len(file) + 1 /\ file'[Len(file) + 1] = e
        /\ DOMAIN file = 1 .. Len(file)
        /\ \A i \in 1 .. Len(file) : file'[i] = file[i]
    BY <1>1, <1>2
  <2>2. \A i \in DOMAIN file' : file'[i].kind = "change" => i \in DOMAIN file /\ file'[i] = file[i]
    <3> SUFFICES ASSUME NEW i \in 1 .. Len(file) + 1, file'[i].kind = "change"
                 PROVE  i \in DOMAIN file /\ file'[i] = file[i]
      BY <2>1
    <3>1. i # Len(file) + 1
      BY <1>1, <2>1
    <3>2. QED
      BY <1>1, <2>1, <3>1
  <2>3. QED
    BY <2>2 DEF Ordered, Within
<1>3. QED
  BY <1>2 DEF e

LEMMA OrderedPrefix ==
  ASSUME NEW f \in Seq(Entry), NEW g \in Seq(ChangeEntry), NEW d \in Nat, NEW n \in 0 .. Len(g),
         Ordered(f), Within(f, d), Consecutive(g, d)
  PROVE  Ordered(f \o SubSeq(g, 1, n))
  BY PrefixConsecutive, OrderedAppend

LEMMA InitOrder == ASSUME Init PROVE OrderInv
  BY DEF Init, OrderInv, Ordered, Within

LEMMA StepOrder ==
  ASSUME Flushers = {}, AllowClose = FALSE
  PROVE  TypeInv /\ DurableInv /\ AloneInv /\ OrderInv /\ [Next]_vars => OrderInv'
<1> SUFFICES ASSUME TypeInv, DurableInv, AloneInv, OrderInv, [Next]_vars PROVE OrderInv'
  OBVIOUS
<1>1. Dequeued \in Nat /\ "bg" \in Own
  BY Types DEF DurableInv, Dequeued, Own
<1>2. ASSUME pc["bg"] = "writing"
      PROVE  LET g == Framed(batch["bg"], base["bg"])
             IN /\ g \in Seq(ChangeEntry) /\ Len(g) = Len(batch["bg"]) /\ Consecutive(g, Dequeued)
                /\ Within(file, Dequeued) /\ Ordered(file)
  <2>1. Consecutive(batch["bg"], Dequeued)
    BY <1>2, TasksType DEF DurableInv, InFlush
  <2>2. QED
    BY <1>1, <1>2, <2>1, Types, FramedType, FramedConsecutive DEF OrderInv, Reach
<1>3. ASSUME UNCHANGED <<history, pending, file>>, pc["bg"] # "written", pc'["bg"] # "written"
      PROVE  OrderInv'
  BY <1>3 DEF OrderInv, Reach, Dequeued
<1>4. CASE \E k \in Keys : Commit(k)
  <2>1. UNCHANGED <<file, pc, batch>> /\ Dequeued' = Dequeued
    BY <1>4, Types DEF Commit, jobs, Dequeued
  <2>2. QED
    BY <2>1 DEF OrderInv, Reach
<1>5. CASE ReadSize("bg")
  BY <1>3, <1>5, Sizes
<1>6. CASE Write("bg")
  <2> DEFINE g == Framed(batch["bg"], base["bg"])
  <2>1. /\ pc["bg"] = "writing" /\ pc'["bg"] = "written" /\ file' = file \o g
        /\ UNCHANGED <<history, pending, batch>>
    BY <1>6, Appends
  <2>2. Ordered(file') /\ Within(file', Dequeued + Len(batch["bg"]))
    BY <1>1, <1>2, <2>1, Types, OrderedAppend
  <2>3. QED
    BY <2>1, <2>2 DEF OrderInv, Reach, Dequeued
<1>7. CASE BgFlush
  <2>1. pc["bg"] = "idle"
    BY <1>7 DEF BgFlush
  <2>2. QED
    BY <1>3, <1>7, <2>1, Begins
<1>8. CASE BgTick
  <2>1. /\ pc["bg"] = "idle" /\ pc' = pc /\ UNCHANGED <<history, pending, batch>>
        /\ file' = file \/ file' = Append(file, SnapshotOf(Len(file)))
    BY <1>8, Ticks
  <2>2. Ordered(file') /\ Within(file', Reach)
    BY <2>1, OrderedSnapshot DEF OrderInv
  <2>3. QED
    BY <2>1, <2>2 DEF OrderInv, Reach, Dequeued
<1>9. CASE BgDone
  <2>1. /\ pc["bg"] = "written" /\ pc'["bg"] = "idle"
        /\ file' = file \/ file' = Append(file, SnapshotOf(Len(file)))
        /\ Dequeued' = Dequeued + Len(batch["bg"])
    BY <1>9, Dequeues
  <2>2. Ordered(file') /\ Within(file', Reach)
    BY <2>1, OrderedSnapshot DEF OrderInv
  <2>3. QED
    BY <2>1, <2>2 DEF OrderInv, Reach
<1>10. CASE CrashRestart /\ Landed
  <2>1. TypeInv' /\ pc'["bg"] = "new" /\ UpTo(file', Newest(file')) /\ Dequeued' = Newest(file')
    BY <1>10, StepType, Restarts
  <2>2. Within(file', Dequeued')
    BY <2>1 DEF Within, UpTo, TypeInv, TypeOK, Dequeued
  <2>3. Ordered(file')
    <3>1. CASE file' = file
      BY <3>1 DEF OrderInv
    <3>2. CASE pc["bg"] = "writing" /\ \E n \in 0 .. Len(batch["bg"]) :
                 file' = file \o SubSeq(Framed(batch["bg"], base["bg"]), 1, n)
      BY <1>1, <1>2, <3>2, Types, OrderedPrefix
    <3>3. QED
      BY <1>10, <3>1, <3>2 DEF Landed
  <2>4. QED
    BY <2>1, <2>2, <2>3 DEF OrderInv, Reach
<1>11. CASE Idles
  BY <1>11 DEF Idles, OrderInv, Reach, Dequeued, InFlush
<1>12. QED
  BY <1>4, <1>5, <1>6, <1>7, <1>8, <1>9, <1>10, <1>11, LoneSteps, Flushers = {}, AllowClose = FALSE

-----------------------------------------------------------------------------
(* A batch is listed before it is framed and framed before it is written,  *)
(* in different steps; still no record is written at another offset than   *)
(* the one its checksum is bound to, nor by what a crash leaves behind.    *)
THEOREM FramesStayInPlace ==
  ASSUME Flushers = {}, AllowClose = FALSE
  PROVE  Spec => []FramesInPlace
<1>1. PlacedInv => FramesInPlace
  BY DEF PlacedInv, Placed, FramesInPlace
<1>2. Init => TypeInv /\ DurableInv /\ AloneInv /\ PlacedInv
  BY InitType, InitDurable, InitAlone, InitPlaced
<1>3. TypeInv /\ DurableInv /\ AloneInv /\ PlacedInv /\ [Next]_vars
        => TypeInv' /\ DurableInv' /\ AloneInv' /\ PlacedInv'
  BY StepType, StepDurable, AloneOneFlush, LoneSteps, StepPlaced, Flushers = {}, AllowClose = FALSE
<1>4. QED
  BY <1>1, <1>2, <1>3, PTL DEF Spec

(* No change is written twice or before an earlier one: not when a refused *)
(* write is repeated, nor when a crash cut one short.                      *)
THEOREM LogStaysOrdered ==
  ASSUME Flushers = {}, AllowClose = FALSE
  PROVE  Spec => []OrderedLog
<1>1. OrderInv => OrderedLog
  BY DEF OrderInv, Ordered, OrderedLog
<1>2. Init => TypeInv /\ DurableInv /\ AloneInv /\ OrderInv
  BY InitType, InitDurable, InitAlone, InitOrder
<1>3. TypeInv /\ DurableInv /\ AloneInv /\ OrderInv /\ [Next]_vars
        => TypeInv' /\ DurableInv' /\ AloneInv' /\ OrderInv'
  BY StepType, StepDurable, AloneOneFlush, LoneSteps, StepOrder, Flushers = {}, AllowClose = FALSE
<1>4. QED
  BY <1>1, <1>2, <1>3, PTL DEF Spec

-----------------------------------------------------------------------------
(* State *)

(* What the queue s and the log f say of key k. *)
Seen(s, f, k) == IF LastIn(s, k) > 0 THEN s[LastIn(s, k)].id ELSE Replay(f)[k]

(* Queue and log rebuild the state; a batch is the head of the queue still *)
(* when it is dequeued; and the log that it was written to knows of it.    *)
RecoverInv ==
  /\ \A k \in Keys : statedict[k] = Seen(pending, file, k)
  /\ pc["bg"] \in InFlush => \A i \in DOMAIN batch["bg"] : batch["bg"][i] = pending[i]
  /\ pc["bg"] = "written" =>
       \A k \in Keys : LastIn(batch["bg"], k) > 0 =>
         Replay(file)[k] = batch["bg"][LastIn(batch["bg"], k)].id

(* A key that a sequence does not write, no head of it writes. *)
LEMMA LastInHead ==
  ASSUME NEW s \in Seq(Change), NEW b \in Seq(Change), NEW k, Len(b) <= Len(s),
         \A i \in DOMAIN b : b[i] = s[i], LastIn(b, k) > 0
  PROVE  LastIn(s, k) > 0
<1>1. LastIn(b, k) \in 1 .. Len(b) /\ b[LastIn(b, k)].key = k
  BY LastInType
<1>2. LastIn(b, k) \in 1 .. Len(s) /\ s[LastIn(b, k)].key = k
  BY <1>1
<1>3. LastIn(s, k) \in 0 .. Len(s) /\ LastIn(b, k) <= LastIn(s, k)
  BY <1>2, LastInType
<1>4. QED
  BY <1>1, <1>3

(* A snapshot, taken from memory, changes nothing of what is seen. *)
LEMMA SnapshotSeen ==
  ASSUME TypeInv, NEW s \in Seq(Change), NEW k \in Keys, statedict[k] = Seen(s, file, k),
         file' = file \/ file' = Append(file, SnapshotOf(Len(file)))
  PROVE  statedict[k] = Seen(s, file', k)
<1>1. CASE file' = file
  BY <1>1
<1>2. CASE file' = Append(file, SnapshotOf(Len(file)))
  <2>1. Replay(file') = statedict
    BY <1>2, SnapshotEntryType, ReplaySnapshot, Types
  <2>2. QED
    BY <2>1 DEF Seen
<1>3. QED
  BY <1>1, <1>2

LEMMA InitRecover == ASSUME Init PROVE RecoverInv
<1>1. pending = <<>> /\ statedict = Empty /\ pc["bg"] = "new"
  BY DEF Init, Tasks
<1>2. Replay(file) = Empty
  <2> DEFINE e == [kind |-> "snapshot", id |-> 0, state |-> Empty, at |-> 0]
  <2>1. e \in Entry /\ e.kind = "snapshot" /\ e.state \in State /\ e.state = Empty
    BY DEF Entry, SnapshotEntry, State, Empty
  <2>2. file = <<e>>
    BY DEF Init
  <2> HIDE DEF e
  <2>3. <<>> \in Seq(Entry) /\ file = Append(<<>>, e)
    BY <2>2
  <2>4. QED
    BY <2>1, <2>3, ReplaySnapshot
<1>3. QED
  BY <1>1, <1>2, LastInEmpty DEF RecoverInv, Seen, InFlush

(* A sequence is its head and its rest. *)
LEMMA HeadAndRest ==
  ASSUME NEW X, NEW s \in Seq(X), NEW b \in Seq(X), NEW r \in Seq(X),
         Len(s) = Len(b) + Len(r), \A i \in 1 .. Len(b) : b[i] = s[i],
         \A i \in 1 .. Len(r) : r[i] = s[Len(b) + i]
  PROVE  s = b \o r
<1>1. /\ b \o r \in Seq(X) /\ Len(b \o r) = Len(b) + Len(r) /\ Len(b) \in Nat /\ Len(r) \in Nat
      /\ \A i \in 1 .. Len(b) + Len(r) : (b \o r)[i] = IF i <= Len(b) THEN b[i] ELSE r[i - Len(b)]
  OBVIOUS
<1>2. ASSUME NEW i \in 1 .. Len(s) PROVE (b \o r)[i] = s[i]
  <2>1. CASE i <= Len(b)
    BY <1>1, <2>1
  <2>2. CASE i > Len(b)
    <3> DEFINE j == i - Len(b)
    <3>1. j \in 1 .. Len(r) /\ Len(b) + j = i
      BY <1>1, <2>2
    <3>2. (b \o r)[i] = r[j]
      BY <1>1, <2>2
    <3> HIDE DEF j
    <3>3. QED
      BY <3>1, <3>2
  <2>3. QED
    BY <1>1, <2>1, <2>2
<1>3. Len(b \o r) = Len(s)
  BY <1>1
<1> DEFINE c == b \o r
<1>4. c \in Seq(X) /\ Len(c) = Len(s) /\ \A i \in 1 .. Len(s) : c[i] = s[i]
  BY <1>1, <1>2, <1>3
<1> HIDE DEF c
<1>5. s = c
  BY <1>4
<1>6. QED
  BY <1>5 DEF c

(* Dequeueing what was written. *)
LEMMA DequeueSeen ==
  ASSUME TypeInv, DurableInv, RecoverInv, pc["bg"] = "written",
         NEW rest \in Seq(Change), Len(rest) = Len(pending) - Len(batch["bg"]),
         \A i \in 1 .. Len(rest) : rest[i] = pending[Len(batch["bg"]) + i],
         NEW k \in Keys
  PROVE  statedict[k] = Seen(rest, file, k)
<1> DEFINE b == batch["bg"]
<1>1. /\ b \in Seq(Change) /\ Len(b) \in Nat /\ pending \in Seq(Change) /\ Len(pending) \in Nat
      /\ Len(b) <= Len(pending) /\ DOMAIN b = 1 .. Len(b)
  BY Types DEF DurableInv, InFlush, Own
<1>2. /\ \A i \in DOMAIN b : b[i] = pending[i]
      /\ LastIn(b, k) > 0 => Replay(file)[k] = b[LastIn(b, k)].id
      /\ statedict[k] = Seen(pending, file, k)
  BY DEF RecoverInv, InFlush
<1>3. \A i \in 1 .. Len(rest) : rest[i] = pending[Len(b) + i]
  OBVIOUS
<1>4. Len(pending) = Len(b) + Len(rest) /\ Len(rest) \in Nat
  BY <1>1
<1> HIDE DEF b
<1>5. pending = b \o rest
  <2>1. \A i \in 1 .. Len(b) : b[i] = pending[i]
    BY <1>1, <1>2, Zenon
  <2>2. QED
    BY <1>1, <1>3, <1>4, <2>1, HeadAndRest
<1>6. LastIn(pending, k) = IF LastIn(rest, k) > 0 THEN Len(b) + LastIn(rest, k) ELSE LastIn(b, k)
  BY <1>1, <1>5, LastInConcat
<1>7. LastIn(rest, k) \in 0 .. Len(rest) /\ LastIn(b, k) \in 0 .. Len(b)
  BY <1>1, LastInType
<1>8. CASE LastIn(rest, k) > 0
  <2>1. LastIn(pending, k) = Len(b) + LastIn(rest, k) /\ LastIn(pending, k) > 0
    BY <1>1, <1>6, <1>7, <1>8
  <2>2. pending[LastIn(pending, k)] = rest[LastIn(rest, k)]
    <3> DEFINE j == LastIn(rest, k)
    <3>1. j \in 1 .. Len(rest) /\ LastIn(pending, k) = Len(b) + j
      BY <1>7, <1>8, <2>1
    <3> HIDE DEF j
    <3>2. rest[j] = pending[Len(b) + j]
      BY <1>3, <3>1
    <3>3. QED
      BY <3>1, <3>2 DEF j
  <2>3. QED
    BY <1>2, <1>8, <2>1, <2>2 DEF Seen
<1>9. CASE ~(LastIn(rest, k) > 0)
  <2>1. LastIn(pending, k) = LastIn(b, k)
    BY <1>6, <1>9
  <2>2. CASE LastIn(b, k) > 0
    <3>1. pending[LastIn(b, k)] = b[LastIn(b, k)]
      BY <1>1, <1>2, <1>7, <2>2
    <3>2. QED
      BY <1>2, <1>9, <2>1, <2>2, <3>1 DEF Seen
  <2>3. CASE ~(LastIn(b, k) > 0)
    BY <1>2, <1>9, <2>1, <2>3 DEF Seen
  <2>4. QED
    BY <2>2, <2>3
<1>10. QED
  BY <1>8, <1>9

LEMMA StepRecover ==
  ASSUME Flushers = {}, AllowClose = FALSE
  PROVE  TypeInv /\ DurableInv /\ AloneInv /\ RecoverInv /\ [Next]_vars => RecoverInv'
<1> SUFFICES ASSUME TypeInv, DurableInv, AloneInv, RecoverInv, [Next]_vars PROVE RecoverInv'
  OBVIOUS
<1> DEFINE b == batch["bg"]
<1>1. /\ b \in Seq(Change) /\ Len(b) \in Nat /\ pending \in Seq(Change) /\ Len(pending) \in Nat
      /\ file \in Seq(Entry) /\ "bg" \in Own /\ "bg" \in DOMAIN pc
      /\ pc["bg"] \in InFlush => Len(b) <= Len(pending) /\ \A i \in 1 .. Len(b) : b[i] = pending[i]
      /\ \A k \in Keys : statedict[k] = Seen(pending, file, k)
  BY Types DEF DurableInv, RecoverInv, Own
<1>2. ASSUME UNCHANGED <<statedict, pending, file, batch>>, pc'["bg"] \in InFlush => pc["bg"] \in InFlush,
             pc'["bg"] # "written" \/ pc["bg"] = "written"
      PROVE  RecoverInv'
  BY <1>2 DEF RecoverInv
<1>3. ASSUME NEW key \in Keys, Commit(key) PROVE RecoverInv'
  <2> DEFINE c == [id |-> Len(history) + 1, key |-> key]
  <2>1. /\ pending' = Append(pending, c) /\ statedict' = [statedict EXCEPT ![key] = c.id]
        /\ UNCHANGED <<file, pc, batch>> /\ c \in Change /\ statedict \in [Keys -> Nat]
    <3>1. /\ pending' = Append(pending, c) /\ statedict' = [statedict EXCEPT ![key] = c.id]
          /\ UNCHANGED <<file, pc, batch>>
      BY <1>3 DEF Commit, jobs
    <3>2. Len(history) \in Nat
      BY Types
    <3>3. c \in Change
      BY <3>2 DEF Change
    <3>4. statedict \in [Keys -> Nat]
      BY DEF TypeInv, TypeOK, State
    <3>5. QED
      BY <3>1, <3>3, <3>4
  <2>2. c.key = key
    OBVIOUS
  <2> HIDE DEF c
  <2>3. /\ pending'[Len(pending) + 1] = c /\ \A i \in 1 .. Len(pending) : pending'[i] = pending[i]
    BY <1>1, <2>1
  <2>4. ASSUME NEW k \in Keys PROVE statedict'[k] = Seen(pending', file', k)
    <3>1. LastIn(pending', k) = IF c.key = k THEN Len(pending) + 1 ELSE LastIn(pending, k)
      BY <1>1, <2>1, LastInAppend
    <3>2. CASE k = key
      BY <1>1, <2>1, <2>2, <2>3, <3>1, <3>2 DEF Seen
    <3>3. CASE k # key
      <4>1. statedict'[k] = statedict[k] /\ LastIn(pending', k) = LastIn(pending, k)
        BY <2>1, <2>2, <3>1, <3>3
      <4>2. LastIn(pending, k) \in 0 .. Len(pending)
        BY <1>1, LastInType
      <4>3. LastIn(pending, k) > 0 => pending'[LastIn(pending, k)] = pending[LastIn(pending, k)]
        BY <1>1, <2>3, <4>2
      <4>4. QED
        BY <1>1, <2>1, <4>1, <4>3 DEF Seen
    <3>4. QED
      BY <3>2, <3>3
  <2>5. pc["bg"] \in InFlush => \A i \in 1 .. Len(b) : b[i] = pending'[i]
    BY <1>1, <2>3
  <2>6. QED
    BY <1>1, <2>1, <2>4, <2>5 DEF RecoverInv
<1>4. CASE ReadSize("bg")
  BY <1>2, <1>4, Sizes DEF InFlush
<1>5. CASE Write("bg")
  <2> DEFINE g == Framed(b, base["bg"])
  <2>1. /\ pc["bg"] = "writing" /\ pc'["bg"] = "written" /\ file' = file \o g
        /\ UNCHANGED <<statedict, pending, batch>> /\ base["bg"] \in Nat
    BY <1>5, Appends, Types DEF Own
  <2>2. /\ g \in Seq(ChangeEntry)
        /\ \A k \in Keys : LastIn(g, k) = LastIn(b, k)
        /\ \A i \in 1 .. Len(b) : g[i].id = b[i].id
    <3>1. b \in Seq(Change) /\ base["bg"] \in Nat
      BY <1>1, <2>1
    <3> HIDE DEF b
    <3>2. QED
      BY <3>1, FramedType, FramedLast
  <2>3. DOMAIN b = 1 .. Len(b) /\ pc["bg"] \in InFlush
    BY <1>1, <2>1 DEF InFlush
  <2>4. /\ b \in Seq(Change) /\ Len(b) <= Len(pending) /\ \A i \in DOMAIN b : b[i] = pending[i]
    BY <1>1, <2>3
  <2> HIDE DEF g, b
  <2>5. ASSUME NEW k \in Keys
        PROVE  Replay(file')[k] = IF LastIn(b, k) > 0 THEN b[LastIn(b, k)].id ELSE Replay(file)[k]
    <3>1. Replay(file')[k] = IF LastIn(g, k) > 0 THEN g[LastIn(g, k)].id ELSE Replay(file)[k]
      BY <1>1, <2>1, <2>2, ReplayChanges
    <3>2. LastIn(b, k) \in 0 .. Len(b)
      BY <1>1, LastInType
    <3>3. QED
      BY <2>2, <3>1, <3>2
  <2>6. ASSUME NEW k \in Keys PROVE statedict[k] = Seen(pending, file', k)
    <3>1. LastIn(b, k) > 0 => LastIn(pending, k) > 0
      BY <1>1, <2>4, LastInHead
    <3>2. QED
      BY <1>1, <2>5, <3>1 DEF Seen
  <2>7. batch'["bg"] = b
    BY <2>1 DEF b
  <2>8. \A i \in DOMAIN b : b[i] = pending[i]
    BY <2>4
  <2>9. QED
    BY <2>1, <2>5, <2>6, <2>7, <2>8 DEF RecoverInv
<1>6. CASE BgFlush
  <2>1. /\ pc'["bg"] = "sizing" /\ batch'["bg"] = pending
        /\ UNCHANGED <<statedict, pending, file>>
    BY <1>6, Begins
  <2>2. QED
    BY <1>1, <2>1 DEF RecoverInv
<1>7. CASE BgTick
  <2>1. /\ pc["bg"] = "idle" /\ pc' = pc /\ UNCHANGED <<statedict, pending>>
        /\ file' = file \/ file' = Append(file, SnapshotOf(Len(file)))
    BY <1>7, Ticks
  <2>2. \A k \in Keys : statedict[k] = Seen(pending, file', k)
    BY <1>1, <2>1, SnapshotSeen
  <2>3. QED
    BY <2>1, <2>2 DEF RecoverInv, InFlush
<1>8. CASE BgDone
  <2>1. /\ pc["bg"] = "written" /\ pc'["bg"] = "idle" /\ UNCHANGED statedict
        /\ file' = file \/ file' = Append(file, SnapshotOf(Len(file)))
        /\ pending' \in Seq(Change) /\ Len(pending') = Len(pending) - Len(b)
        /\ \A i \in 1 .. Len(pending') : pending'[i] = pending[Len(b) + i]
    BY <1>8, Dequeues
  <2>2. \A k \in Keys : statedict[k] = Seen(pending', file, k)
    BY <2>1, DequeueSeen
  <2>3. \A k \in Keys : statedict[k] = Seen(pending', file', k)
    BY <2>1, <2>2, SnapshotSeen
  <2>4. QED
    BY <2>1, <2>3 DEF RecoverInv, InFlush
<1>9. CASE CrashRestart /\ Landed
  <2>1. pc'["bg"] = "new" /\ pending' = <<>> /\ statedict' = Replay(file')
    BY <1>9, StepType, Restarts
  <2>2. QED
    BY <2>1, LastInEmpty DEF RecoverInv, Seen, InFlush
<1>10. CASE Idles
  <2>1. /\ UNCHANGED <<statedict, pending, file, batch>>
        /\ \/ pc'["bg"] = pc["bg"]
           \/ pc["bg"] # "written" /\ pc'["bg"] \notin InFlush
    BY <1>10 DEF Idles
  <2>2. QED
    BY <1>2, <2>1 DEF InFlush
<1>11. QED
  BY <1>3, <1>4, <1>5, <1>6, <1>7, <1>8, <1>9, <1>10, LoneSteps, Flushers = {}, AllowClose = FALSE

(* Flushing the queue and replaying the log gives the state that the       *)
(* application sees, in the middle of every flush, after every refused     *)
(* write, with snapshots taken while changes are queued, after a crash.    *)
THEOREM AlwaysRecoverable ==
  ASSUME Flushers = {}, AllowClose = FALSE
  PROVE  Spec => []Recoverable
<1>1. TypeInv /\ RecoverInv => Recoverable
  <2> SUFFICES ASSUME TypeInv, RecoverInv PROVE Replay(file \o Framed(pending, Len(file))) = statedict
    BY DEF Recoverable
  <2> DEFINE g == Framed(pending, Len(file))
             f == file \o g
  <2>1. file \in Seq(Entry) /\ Len(file) \in Nat /\ pending \in Seq(Change) /\ statedict \in [Keys -> Nat]
    BY Types DEF TypeInv, TypeOK, State
  <2>2. /\ g \in Seq(ChangeEntry)
        /\ \A k \in Keys : LastIn(g, k) = LastIn(pending, k)
        /\ \A i \in 1 .. Len(pending) : g[i].id = pending[i].id
    BY <2>1, FramedType, FramedLast
  <2>3. g \in Seq(Entry)
    BY <2>2, ChangesAreEntries
  <2> HIDE DEF g
  <2>4. ASSUME NEW k \in Keys PROVE Replay(f)[k] = statedict[k]
    <3>1. Replay(f)[k] = IF LastIn(g, k) > 0 THEN g[LastIn(g, k)].id ELSE Replay(file)[k]
      BY <2>1, <2>2, ReplayChanges
    <3>2. LastIn(pending, k) \in 0 .. Len(pending) /\ statedict[k] = Seen(pending, file, k)
      BY <2>1, LastInType DEF RecoverInv
    <3>3. QED
      BY <2>2, <3>1, <3>2 DEF Seen
  <2>5. f \in Seq(Entry)
    BY <2>1, <2>3
  <2> HIDE DEF f
  <2>6. Replay(f) \in [Keys -> Nat]
    BY <2>5, ReplayType DEF State
  <2>7. Replay(f) = statedict
    BY <2>1, <2>4, <2>6
  <2>8. QED
    BY <2>7 DEF f, g
<1>2. Init => TypeInv /\ DurableInv /\ AloneInv /\ RecoverInv
  BY InitType, InitDurable, InitAlone, InitRecover
<1>3. TypeInv /\ DurableInv /\ AloneInv /\ RecoverInv /\ [Next]_vars
        => TypeInv' /\ DurableInv' /\ AloneInv' /\ RecoverInv'
  BY StepType, StepDurable, AloneOneFlush, LoneSteps, StepRecover, Flushers = {}, AllowClose = FALSE
<1>4. QED
  BY <1>1, <1>2, <1>3, PTL DEF Spec

-----------------------------------------------------------------------------
(* The abstract store *)

(* No snapshot was written yet. *)
Unsnapped == \A i \in 2 .. Len(file) : file[i].kind = "change"

(* Log f is the initial snapshot and, one by one, changes of history h.    *)
Plain(f, h) ==
  /\ f # <<>> /\ f[1].kind = "snapshot" /\ f[1].id = 0 /\ f[1].state = Empty
  /\ Len(f) <= Len(h) + 1
  /\ \A i \in 2 .. Len(f) : f[i].kind = "change" /\ f[i].id = i - 1 /\ f[i].key = h[i - 1].key

(* Log and queue hold the history, record by record, and memory its state. *)
PlainInv ==
  /\ Plain(file, history)
  /\ Len(file) = Reach + 1
  /\ \A i \in DOMAIN pending : pending[i] = history[Dequeued + i]
  /\ \A k \in Keys : statedict[k] = LastIn(history, k)

LEMMA PlainNewest ==
  ASSUME NEW f \in Seq(Entry), NEW h \in Seq(Change), Plain(f, h)
  PROVE  Newest(f) = Len(f) - 1
<1> DEFINE n == Len(f) - 1
<1>1. Len(f) \in Nat /\ n \in Nat /\ Len(f) \in DOMAIN f /\ DOMAIN f = 1 .. Len(f)
  BY DEF Plain
<1>2. \A i \in 1 .. Len(f) : f[i].id = i - 1
  BY DEF Plain
<1>3. UpTo(f, n)
  BY <1>1, <1>2 DEF UpTo
<1> HIDE DEF n
<1>4. Newest(f) \in 0 .. n /\ UpTo(f, Newest(f))
  BY <1>1, <1>3, NewestType DEF Plain
<1>5. f[Len(f)].id = Len(f) - 1 /\ f[Len(f)].id \in 0 .. Newest(f)
  BY <1>1, <1>2, <1>4 DEF UpTo
<1>6. QED
  BY <1>1, <1>4, <1>5 DEF n

(* Replay of such a log gives the state after the changes in it. *)
LEMMA PlainReplay ==
  ASSUME NEW f \in Seq(Entry), NEW h \in Seq(Change), Plain(f, h), Len(f) = Len(h) + 1,
         NEW k \in Keys
  PROVE  Replay(f)[k] = LastIn(h, k)
<1> DEFINE m == LastIn(h, k)
           l == IF m > 0 THEN m + 1 ELSE 0
<1>1. /\ Len(f) \in Nat /\ Len(h) \in Nat /\ m \in 0 .. Len(h)
      /\ m > 0 => h[m].key = k
      /\ \A i \in 1 .. Len(h) : h[i].key = k => i <= m
  BY LastInType
<1>2. \A i \in 2 .. Len(f) : f[i].kind = "change" /\ f[i].id = i - 1 /\ f[i].key = h[i - 1].key
  BY DEF Plain
<1>3. f[1].kind = "snapshot" /\ f[1].state = Empty /\ 1 \in 1 .. Len(f)
  BY <1>1 DEF Plain
<1> HIDE DEF m
<1>4. Snap(f) = 1
  <2>1. ASSUME NEW i \in 1 .. Len(f), f[i].kind = "snapshot" PROVE i <= 1
    BY <1>1, <1>2, <2>1
  <2>2. QED
    BY <1>1, <1>3, <2>1, SnapIs
<1>5. LastWrite(f, k) = l
  <2>1. l \in 0 .. Len(f)
    BY <1>1
  <2>2. l > 0 => f[l].kind = "change" /\ f[l].key = k
    <3> SUFFICES ASSUME m > 0 PROVE f[m + 1].kind = "change" /\ f[m + 1].key = k
      BY <1>1
    <3>1. m + 1 \in 2 .. Len(f) /\ (m + 1) - 1 = m
      BY <1>1
    <3>2. QED
      BY <1>1, <1>2, <3>1
  <2>3. ASSUME NEW i \in 1 .. Len(f), f[i].kind = "change", f[i].key = k PROVE i <= l
    <3>1. i # 1
      BY <1>3, <2>3
    <3>2. i - 1 \in 1 .. Len(h) /\ h[i - 1].key = k
      BY <1>1, <1>2, <2>3, <3>1
    <3>3. i - 1 <= m
      BY <1>1, <3>2
    <3>4. QED
      BY <1>1, <3>2, <3>3
  <2> HIDE DEF l
  <2>4. QED
    BY <2>1, <2>2, <2>3, LastWriteIs
<1>6. Replay(f)[k] = IF l > 1 THEN f[l].id ELSE Empty[k]
  <2> HIDE DEF l
  <2>1. QED
    BY <1>3, <1>4, <1>5, ReplayIs
<1>7. CASE m > 0
  <2>1. l = m + 1 /\ l > 1 /\ f[m + 1].id = m
    BY <1>1, <1>2, <1>7
  <2>2. QED
    BY <1>6, <2>1 DEF m
<1>8. CASE m = 0
  <2>1. l = 0
    BY <1>8
  <2>2. QED
    BY <1>6, <1>8, <2>1 DEF Empty, m
<1>9. QED
  BY <1>1, <1>7, <1>8

(* The log grows by the next changes. *)
LEMMA PlainAppend ==
  ASSUME NEW f \in Seq(Entry), NEW h \in Seq(Change), Plain(f, h), NEW g \in Seq(ChangeEntry),
         NEW d \in Nat, Len(f) = d + 1, d + Len(g) <= Len(h),
         \A i \in 1 .. Len(g) : g[i].id = d + i /\ g[i].key = h[d + i].key
  PROVE  Plain(f \o g, h) /\ Len(f \o g) = d + 1 + Len(g)
<1> DEFINE e == f \o g
<1>1. /\ Len(e) = d + 1 + Len(g) /\ Len(f) \in Nat /\ Len(g) \in Nat /\ Len(h) \in Nat
      /\ \A i \in 1 .. Len(e) : e[i] = IF i <= Len(f) THEN f[i] ELSE g[i - Len(f)]
  BY ChangesAreEntries
<1>2. \A i \in 1 .. Len(g) : g[i].kind = "change"
  <2>1. \A i \in 1 .. Len(g) : g[i] \in ChangeEntry
    OBVIOUS
  <2>2. QED
    BY <2>1 DEF ChangeEntry
<1> HIDE DEF e
<1>3. ASSUME NEW i \in 2 .. Len(e)
      PROVE  e[i].kind = "change" /\ e[i].id = i - 1 /\ e[i].key = h[i - 1].key
  <2>1. CASE i <= Len(f)
    <3>1. i \in 2 .. Len(f) /\ e[i] = f[i]
      BY <1>1, <2>1
    <3>2. QED
      BY <3>1 DEF Plain
  <2>2. CASE i > Len(f)
    <3> DEFINE j == i - Len(f)
    <3>1. j \in 1 .. Len(g) /\ e[i] = g[j] /\ d + j = i - 1
      BY <1>1, <2>2
    <3> HIDE DEF j
    <3>2. g[j].id = d + j /\ g[j].key = h[d + j].key /\ g[j].kind = "change"
      BY <1>2, <3>1
    <3>3. QED
      BY <3>1, <3>2
  <2>3. QED
    BY <1>1, <2>1, <2>2
<1>4. e # <<>> /\ e[1] = f[1]
  BY <1>1 DEF Plain
<1>5. Plain(e, h)
  BY <1>1, <1>3, <1>4 DEF Plain
<1>6. QED
  BY <1>1, <1>5 DEF e

(* A change that did not reach the log may be forgotten, or follow. *)
LEMMA PlainCut ==
  ASSUME NEW f \in Seq(Entry), NEW h \in Seq(Change), NEW x \in Seq(Change), Plain(f, h),
         Len(f) <= Len(x) + 1, \A i \in 1 .. Len(f) - 1 : x[i] = h[i]
  PROVE  Plain(f, x)
<1>1. \A i \in 2 .. Len(f) : i - 1 \in 1 .. Len(f) - 1
  BY DEF Plain
<1>2. QED
  BY <1>1 DEF Plain

LEMMA InitPlain == ASSUME Init PROVE PlainInv
<1> DEFINE e == [kind |-> "snapshot", id |-> 0, state |-> Empty, at |-> 0]
<1>1. /\ file = <<e>> /\ history = <<>> /\ pending = <<>> /\ statedict = Empty /\ pc["bg"] = "new"
      /\ e.kind = "snapshot" /\ e.id = 0 /\ e.state = Empty
  BY DEF Init, Tasks
<1> HIDE DEF e
<1>2. Len(file) = 1 /\ file # <<>> /\ file[1] = e /\ Len(history) = 0 /\ Len(pending) = 0
  BY <1>1
<1>3. Reach = 0
  BY <1>1, <1>2 DEF Reach, Dequeued
<1>4. Plain(file, history)
  BY <1>1, <1>2 DEF Plain
<1>5. \A k \in Keys : statedict[k] = LastIn(history, k)
  BY <1>1, LastInEmpty DEF Empty
<1>6. QED
  BY <1>1, <1>2, <1>3, <1>4, <1>5 DEF PlainInv

(* The records of a batch under way are the next changes of the history.   *)
LEMMA NextChanges ==
  ASSUME TypeInv, DurableInv, RecoverInv, PlainInv, pc["bg"] \in {"writing", "written"}
  PROVE  LET g == Framed(batch["bg"], base["bg"])
         IN /\ g \in Seq(ChangeEntry) /\ Len(g) = Len(batch["bg"]) /\ Len(g) \in Nat
            /\ Dequeued \in Nat /\ Dequeued + Len(g) <= Len(history)
            /\ \A i \in 1 .. Len(g) : /\ g[i].id = Dequeued + i
                                      /\ g[i].key = history[Dequeued + i].key
<1> DEFINE b == batch["bg"]
           g == Framed(b, base["bg"])
<1>1. /\ b \in Seq(Change) /\ base["bg"] \in Nat /\ Len(b) \in Nat /\ Dequeued \in Nat
      /\ Len(pending) \in Nat /\ Len(history) \in Nat /\ pc["bg"] \in InFlush /\ "bg" \in Own
  BY Types DEF Own, InFlush, DurableInv, Dequeued
<1>2. Len(b) <= Len(pending) /\ Consecutive(b, Dequeued)
  BY <1>1, TasksType DEF DurableInv
<1>3. \A i \in DOMAIN b : b[i] = pending[i]
  BY <1>1 DEF RecoverInv
<1>4. \A i \in DOMAIN pending : pending[i] = history[Dequeued + i]
  BY DEF PlainInv
<1>5. \A i \in 1 .. Len(b) : g[i].id = b[i].id /\ g[i].key = b[i].key
  BY DEF Framed
<1> HIDE DEF b
<1>6. g \in Seq(ChangeEntry) /\ Len(g) = Len(b)
  BY <1>1, FramedType
<1> HIDE DEF g
<1>7. ASSUME NEW i \in 1 .. Len(b)
      PROVE  g[i].id = Dequeued + i /\ g[i].key = history[Dequeued + i].key
  <2>1. i \in DOMAIN b /\ i \in DOMAIN pending
    BY <1>1, <1>2, Types
  <2>2. b[i].id = Dequeued + i /\ b[i] = history[Dequeued + i]
    BY <1>2, <1>3, <1>4, <2>1 DEF Consecutive
  <2>3. QED
    BY <1>5, <2>2
<1>8. Dequeued + Len(g) <= Len(history)
  BY <1>1, <1>2, <1>6 DEF Dequeued
<1>9. QED
  BY <1>1, <1>6, <1>7, <1>8 DEF b, g

LEMMA StepPlain ==
  ASSUME Flushers = {}, AllowClose = FALSE
  PROVE  TypeInv /\ DurableInv /\ AloneInv /\ RecoverInv /\ PlainInv /\ Unsnapped' /\ [Next]_vars
           => PlainInv'
<1> SUFFICES ASSUME TypeInv, DurableInv, AloneInv, RecoverInv, PlainInv, Unsnapped', [Next]_vars
             PROVE  PlainInv'
  OBVIOUS
<1>1. /\ TypeInv' /\ "bg" \in Own /\ history \in Seq(Change) /\ Len(history) \in Nat
      /\ pending \in Seq(Change) /\ Len(pending) \in Nat /\ file \in Seq(Entry) /\ Len(file) \in Nat
      /\ Len(batch["bg"]) \in Nat /\ Dequeued \in Nat
  BY StepType, Types DEF Own, DurableInv, Dequeued
<1>2. ASSUME file' = file \/ file' = Append(file, SnapshotOf(Len(file))) PROVE file' = file
  <2> SUFFICES ASSUME file' = Append(file, SnapshotOf(Len(file))) PROVE FALSE
    BY <1>2
  <2> DEFINE e == SnapshotOf(Len(file))
             n == Len(file) + 1
  <2>1. e.kind = "snapshot" /\ file # <<>>
    BY SnapshotEntryType DEF PlainInv, Plain
  <2> HIDE DEF e
  <2>2. file' = Append(file, e)
    BY DEF e
  <2>3. n \in 2 .. Len(file') /\ file'[n] = e
    BY <1>1, <2>1, <2>2
  <2>4. file'[n].kind = "change"
    BY <2>3 DEF Unsnapped
  <2>5. QED
    BY <2>1, <2>3, <2>4
<1>3. ASSUME UNCHANGED <<statedict, history, pending, file>>, pc["bg"] # "written", pc'["bg"] # "written"
      PROVE  PlainInv'
  BY <1>3 DEF PlainInv, Reach, Dequeued
<1>4. ASSUME NEW key \in Keys, Commit(key) PROVE PlainInv'
  <2> DEFINE c == [id |-> Len(history) + 1, key |-> key]
  <2>1. /\ pending' = Append(pending, c) /\ history' = Append(history, c)
        /\ statedict' = [statedict EXCEPT ![key] = Len(history) + 1]
        /\ UNCHANGED <<file, pc, batch>> /\ c \in Change /\ statedict \in [Keys -> Nat]
    BY <1>1, <1>4 DEF Commit, jobs, Change, TypeInv, TypeOK, State
  <2>2. c.key = key
    OBVIOUS
  <2> HIDE DEF c
  <2>3. /\ history' \in Seq(Change) /\ Len(history') = Len(history) + 1
        /\ Len(pending') = Len(pending) + 1 /\ DOMAIN pending' = 1 .. Len(pending) + 1
        /\ history'[Len(history) + 1] = c /\ pending'[Len(pending) + 1] = c
        /\ \A i \in 1 .. Len(history) : history'[i] = history[i]
        /\ \A i \in 1 .. Len(pending) : pending'[i] = pending[i]
    BY <1>1, <2>1
  <2>4. Dequeued' = Dequeued /\ Dequeued + Len(pending) = Len(history)
    BY <1>1, <2>3 DEF Dequeued
  <2>5. Plain(file', history')
    <3>1. Plain(file, history)
      BY DEF PlainInv
    <3>2. Len(file) <= Len(history) + 1
      BY <3>1 DEF Plain
    <3>3. Len(file) <= Len(history') + 1 /\ \A i \in 1 .. Len(file) - 1 : history'[i] = history[i]
      BY <1>1, <2>3, <3>2
    <3>4. Plain(file, history')
      BY <1>1, <2>3, <3>1, <3>3, PlainCut
    <3>5. QED
      BY <2>1, <3>4
  <2>6. ASSUME NEW i \in DOMAIN pending' PROVE pending'[i] = history'[Dequeued' + i]
    <3>1. CASE i <= Len(pending)
      <4>1. i \in DOMAIN pending /\ Dequeued + i \in 1 .. Len(history)
        BY <1>1, <2>3, <2>4, <3>1
      <4>2. pending[i] = history[Dequeued + i]
        BY <4>1 DEF PlainInv
      <4>3. QED
        BY <2>3, <2>4, <4>1, <4>2
    <3>2. CASE i = Len(pending) + 1
      BY <1>1, <2>3, <2>4, <3>2
    <3>3. QED
      BY <1>1, <2>3, <3>1, <3>2
  <2>7. ASSUME NEW k \in Keys PROVE statedict'[k] = LastIn(history', k)
    <3>1. LastIn(history', k) = IF c.key = k THEN Len(history) + 1 ELSE LastIn(history, k)
      BY <1>1, <2>1, LastInAppend
    <3>2. statedict[k] = LastIn(history, k)
      BY DEF PlainInv
    <3>3. QED
      BY <2>1, <2>2, <3>1, <3>2
  <2>8. Len(file') = Reach' + 1
    BY <2>1, <2>4 DEF PlainInv, Reach
  <2>9. QED
    BY <2>5, <2>6, <2>7, <2>8 DEF PlainInv
<1>5. CASE ReadSize("bg")
  BY <1>3, <1>5, Sizes
<1>6. CASE Write("bg")
  <2> DEFINE g == Framed(batch["bg"], base["bg"])
  <2>1. /\ pc["bg"] = "writing" /\ pc'["bg"] = "written" /\ file' = file \o g
        /\ UNCHANGED <<statedict, history, pending, batch>>
    BY <1>6, Appends
  <2>2. /\ g \in Seq(ChangeEntry) /\ Len(g) = Len(batch["bg"]) /\ Dequeued + Len(g) <= Len(history)
        /\ \A i \in 1 .. Len(g) : g[i].id = Dequeued + i /\ g[i].key = history[Dequeued + i].key
    BY <2>1, NextChanges
  <2> HIDE DEF g
  <2>3. Plain(file, history) /\ Len(file) = Dequeued + 1
    BY <2>1 DEF PlainInv, Reach
  <2>4. Plain(file', history) /\ Len(file') = Dequeued + 1 + Len(g)
    BY <1>1, <2>1, <2>2, <2>3, PlainAppend
  <2>5. Dequeued' = Dequeued /\ Reach' = Dequeued + Len(g)
    BY <2>1, <2>2 DEF Reach, Dequeued
  <2>6. Len(file') = Reach' + 1
    <3>1. Len(g) \in Nat
      BY <2>2
    <3>2. QED
      BY <1>1, <2>4, <2>5, <3>1
  <2>7. QED
    BY <2>1, <2>4, <2>5, <2>6 DEF PlainInv
<1>7. CASE BgFlush
  <2>1. pc["bg"] = "idle"
    BY <1>7 DEF BgFlush
  <2>2. QED
    BY <1>3, <1>7, <2>1, Begins
<1>8. CASE BgTick
  BY <1>2, <1>3, <1>8, Ticks
<1>9. CASE BgDone
  <2> DEFINE n == Len(batch["bg"])
  <2>1. /\ pc["bg"] = "written" /\ pc'["bg"] = "idle" /\ UNCHANGED <<statedict, history>>
        /\ n \in 0 .. Len(pending) /\ Len(pending') = Len(pending) - n /\ pending' \in Seq(Change)
        /\ \A i \in 1 .. Len(pending') : pending'[i] = pending[n + i]
        /\ Dequeued' = Dequeued + n /\ file' = file
    BY <1>2, <1>9, Dequeues
  <2>2. Reach' = Reach
    BY <2>1 DEF Reach
  <2> HIDE DEF n
  <2>3. ASSUME NEW i \in DOMAIN pending' PROVE pending'[i] = history'[Dequeued' + i]
    <3>1. i \in 1 .. Len(pending') /\ n + i \in DOMAIN pending
      BY <1>1, <2>1
    <3>2. pending[n + i] = history[Dequeued + (n + i)]
      BY <3>1 DEF PlainInv
    <3>3. Dequeued + (n + i) = Dequeued' + i
      BY <1>1, <2>1, <3>1
    <3>4. QED
      BY <2>1, <3>1, <3>2, <3>3
  <2>4. QED
    BY <2>1, <2>2, <2>3 DEF PlainInv
<1>10. CASE CrashRestart /\ Landed
  <2> DEFINE m == Newest(file')
  <2>1. /\ pc'["bg"] = "new" /\ pending' = <<>> /\ statedict' = Replay(file')
        /\ history' = SubSeq(history, 1, m) /\ m \in Nat
        /\ Len(history') = m /\ Dequeued' = m
    BY <1>1, <1>10, Restarts
  <2>2. Plain(file', history) /\ file' \in Seq(Entry)
    <3>1. CASE file' = file
      BY <1>1, <3>1 DEF PlainInv
    <3>2. CASE pc["bg"] = "writing" /\ \E n \in 0 .. Len(batch["bg"]) :
                 file' = file \o SubSeq(Framed(batch["bg"], base["bg"]), 1, n)
      <4> DEFINE g == Framed(batch["bg"], base["bg"])
      <4>1. /\ g \in Seq(ChangeEntry) /\ Len(g) = Len(batch["bg"]) /\ Dequeued + Len(g) <= Len(history)
            /\ Len(g) \in Nat
            /\ \A i \in 1 .. Len(g) : g[i].id = Dequeued + i /\ g[i].key = history[Dequeued + i].key
        BY <3>2, NextChanges
      <4>2. PICK n \in 0 .. Len(g) : file' = file \o SubSeq(g, 1, n)
        BY <3>2, <4>1
      <4> HIDE DEF g
      <4> DEFINE w == SubSeq(g, 1, n)
      <4>3. w \in Seq(ChangeEntry) /\ Len(w) = n /\ \A i \in 1 .. n : w[i] = g[i]
        BY <4>1, <4>2
      <4>4. file' = file \o w
        BY <4>2
      <4> HIDE DEF w
      <4>5. Dequeued + Len(w) <= Len(history)
        BY <1>1, <4>1, <4>2, <4>3
      <4>6. \A i \in 1 .. Len(w) : w[i].id = Dequeued + i /\ w[i].key = history[Dequeued + i].key
        <5>1. \A i \in 1 .. Len(w) : i \in 1 .. Len(g) /\ w[i] = g[i]
          BY <4>1, <4>2, <4>3
        <5>2. QED
          BY <4>1, <5>1
      <4>7. Plain(file, history) /\ Len(file) = Dequeued + 1
        BY <3>2 DEF PlainInv, Reach
      <4>8. Plain(file \o w, history)
        BY <1>1, <4>3, <4>5, <4>6, <4>7, PlainAppend
      <4>9. file' \in Seq(Entry)
        BY <1>1 DEF TypeInv, TypeOK
      <4>10. QED
        BY <4>4, <4>8, <4>9
    <3>3. QED
      BY <1>10, <3>1, <3>2 DEF Landed
  <2>3. m = Len(file') - 1 /\ Len(file') \in Nat
    BY <1>1, <2>2, PlainNewest
  <2> HIDE DEF m
  <2>4. history' \in Seq(Change) /\ m <= Len(history) /\ \A i \in 1 .. m : history'[i] = history[i]
    <3>1. m <= Len(history)
      BY <1>1, <2>2, <2>3 DEF Plain
    <3>2. QED
      BY <1>1, <2>1, <3>1
  <2>5. Len(file') = m + 1 /\ Len(file') <= Len(history') + 1
        /\ \A i \in 1 .. Len(file') - 1 : history'[i] = history[i]
    BY <2>1, <2>3, <2>4
  <2>6. Plain(file', history')
    BY <1>1, <2>2, <2>4, <2>5, PlainCut
  <2>7. \A k \in Keys : statedict'[k] = LastIn(history', k)
    BY <2>1, <2>2, <2>4, <2>5, <2>6, PlainReplay
  <2>8. Reach' = m /\ DOMAIN pending' = {}
    BY <2>1 DEF Reach
  <2>9. QED
    BY <2>5, <2>6, <2>7, <2>8 DEF PlainInv
<1>11. CASE Idles
  <2>1. /\ UNCHANGED <<statedict, history, pending, file, batch>>
        /\ \/ pc'["bg"] = pc["bg"]
           \/ pc["bg"] # "written" /\ pc'["bg"] # "written"
    BY <1>11 DEF Idles, InFlush
  <2>2. QED
    BY <2>1 DEF PlainInv, Reach, Dequeued
<1>12. QED
  BY <1>4, <1>5, <1>6, <1>7, <1>8, <1>9, <1>10, <1>11, LoneSteps, Flushers = {}, AllowClose = FALSE

(* The history of the abstract store: the keys written. *)
KeysOf(h) == [i \in DOMAIN h |-> h[i].key]

LEMMA KeysOfType ==
  ASSUME NEW h \in Seq(Change)
  PROVE  KeysOf(h) \in Seq(Keys) /\ Len(KeysOf(h)) = Len(h)
<1>1. \A i \in 1 .. Len(h) : h[i] \in Change
  OBVIOUS
<1>2. KeysOf(h) \in [1 .. Len(h) -> Keys] /\ Len(h) \in Nat
  BY <1>1 DEF KeysOf, Change
<1>3. QED
  BY <1>2

LEMMA KeysOfAppend ==
  ASSUME NEW h \in Seq(Change), NEW c \in Change
  PROVE  KeysOf(Append(h, c)) = Append(KeysOf(h), c.key)
<1> DEFINE x == KeysOf(Append(h, c))
           y == Append(KeysOf(h), c.key)
<1>1. /\ Append(h, c) \in Seq(Change) /\ Len(Append(h, c)) = Len(h) + 1 /\ Len(h) \in Nat
      /\ Append(h, c)[Len(h) + 1] = c /\ \A i \in 1 .. Len(h) : Append(h, c)[i] = h[i]
  OBVIOUS
<1>2. x \in Seq(Keys) /\ Len(x) = Len(h) + 1
  BY <1>1, KeysOfType
<1>3. c.key \in Keys
  BY DEF Change
<1>4. KeysOf(h) \in Seq(Keys) /\ Len(KeysOf(h)) = Len(h)
  BY KeysOfType
<1>5. /\ y \in Seq(Keys) /\ Len(y) = Len(h) + 1 /\ y[Len(h) + 1] = c.key
      /\ \A i \in 1 .. Len(h) : y[i] = KeysOf(h)[i]
  BY <1>3, <1>4
<1>6. ASSUME NEW i \in 1 .. Len(h) + 1 PROVE x[i] = y[i]
  <2>1. x[i] = Append(h, c)[i].key
    BY <1>1 DEF KeysOf
  <2>2. i <= Len(h) => y[i] = h[i].key
    BY <1>5 DEF KeysOf
  <2>3. QED
    BY <1>1, <1>5, <2>1, <2>2
<1> HIDE DEF x, y
<1>7. x = y
  BY <1>2, <1>5, <1>6
<1>8. QED
  BY <1>7 DEF x, y

LEMMA KeysOfCut ==
  ASSUME NEW h \in Seq(Change), NEW n \in 0 .. Len(h)
  PROVE  KeysOf(SubSeq(h, 1, n)) = SubSeq(KeysOf(h), 1, n)
<1> DEFINE x == KeysOf(SubSeq(h, 1, n))
           y == SubSeq(KeysOf(h), 1, n)
<1>1. /\ SubSeq(h, 1, n) \in Seq(Change) /\ Len(SubSeq(h, 1, n)) = n /\ n \in Nat /\ Len(h) \in Nat
      /\ \A i \in 1 .. n : SubSeq(h, 1, n)[i] = h[i]
  OBVIOUS
<1>2. x \in Seq(Keys) /\ Len(x) = n
  BY <1>1, KeysOfType
<1>3. KeysOf(h) \in Seq(Keys) /\ Len(KeysOf(h)) = Len(h)
  BY KeysOfType
<1>4. y \in Seq(Keys) /\ Len(y) = n /\ \A i \in 1 .. n : y[i] = KeysOf(h)[i]
  BY <1>1, <1>3
<1>5. ASSUME NEW i \in 1 .. n PROVE x[i] = y[i]
  <2>1. x[i] = SubSeq(h, 1, n)[i].key
    BY <1>1 DEF KeysOf
  <2>2. y[i] = h[i].key
    BY <1>1, <1>4 DEF KeysOf
  <2>3. QED
    BY <1>1, <2>1, <2>2
<1> HIDE DEF x, y
<1>6. x = y
  BY <1>2, <1>4, <1>5
<1>7. QED
  BY <1>6 DEF x, y

(* Both modules mean the same by the state after a history. *)
LEMMA ValueIs ==
  ASSUME NEW h \in Seq(Change), NEW s \in State, \A k \in Keys : s[k] = LastIn(h, k)
  PROVE  s = Durable!ValueOf(KeysOf(h))
<1>1. DOMAIN KeysOf(h) = 1 .. Len(h) /\ Len(KeysOf(h)) = Len(h)
  BY KeysOfType DEF KeysOf
<1>2. ASSUME NEW k \in Keys PROVE Durable!ValueOf(KeysOf(h))[k] = LastIn(h, k)
  <2> DEFINE I == {i \in 1 .. Len(h) : h[i].key = k}
             J == {i \in 1 .. Len(KeysOf(h)) : KeysOf(h)[i] = k}
  <2>1. I = J
    BY <1>1 DEF KeysOf
  <2>2. LastIn(h, k) = IF I # {} THEN Max(I) ELSE 0
    BY DEF LastIn, SelectLastInSeq
  <2>3. Durable!ValueOf(KeysOf(h))[k] = IF J # {} THEN Durable!Max(J) ELSE 0
    BY DEF Durable!ValueOf, Durable!SelectLastInSeq
  <2>4. Durable!Max(J) = Max(J)
    BY DEF Durable!Max, Max
  <2> HIDE DEF I, J
  <2>5. QED
    BY <2>1, <2>2, <2>3, <2>4
<1>3. s = [k \in Keys |-> LastIn(h, k)]
  BY DEF State
<1>4. QED
  BY <1>2, <1>3 DEF Durable!ValueOf

(* Every step is one of the abstract store, or does not show there. *)
LEMMA StepRefines ==
  ASSUME Flushers = {}, AllowClose = FALSE, TypeInv, DurableInv, AloneInv, RecoverInv,
         PlainInv, TypeInv', PlainInv', Unsnapped', [Next]_vars
  PROVE  [Durable!DurableNext]_(Durable!dvars)
<1> DEFINE hist == KeysOf(history)
           saved == Newest(file)
           Refines == [Durable!DurableNext]_(Durable!dvars)
<1>1. /\ "bg" \in Own /\ history \in Seq(Change) /\ Len(history) \in Nat /\ Len(file) \in Nat
      /\ hist \in Seq(Keys) /\ Len(hist) = Len(history) /\ Dequeued \in Nat /\ statedict \in State
  BY Types, KeysOfType DEF Own, DurableInv, Dequeued, TypeInv, TypeOK
<1>2. saved = Len(file) - 1 /\ saved' = Len(file') - 1 /\ Len(file') \in Nat
      /\ Len(file) = Reach + 1 /\ Len(file') = Reach' + 1
  <2>1. /\ file \in Seq(Entry) /\ history \in Seq(Change) /\ Plain(file, history)
        /\ file' \in Seq(Entry) /\ history' \in Seq(Change) /\ Plain(file', history')
    BY DEF TypeInv, TypeOK, PlainInv
  <2>2. Newest(file) = Len(file) - 1 /\ Newest(file') = Len(file') - 1
    BY <2>1, PlainNewest
  <2>3. QED
    BY <2>1, <2>2 DEF PlainInv
<1>3. ASSUME UNCHANGED <<statedict, history>>, saved' = saved PROVE Refines
  BY <1>3 DEF Durable!dvars, KeysOf
<1>4. ASSUME UNCHANGED <<statedict, history, file>> PROVE Refines
  BY <1>2, <1>3, <1>4
<1>5. ASSUME NEW key \in Keys, Commit(key) PROVE Refines
  <2> DEFINE c == [id |-> Len(history) + 1, key |-> key]
  <2>1. /\ Len(history) < MaxTx /\ history' = Append(history, c) /\ UNCHANGED file
        /\ statedict' = [statedict EXCEPT ![key] = Len(history) + 1]
        /\ c \in Change /\ c.key = key
    BY <1>1, <1>5 DEF Commit, Change
  <2> HIDE DEF c
  <2>2. hist' = Append(hist, key)
    BY <1>1, <2>1, KeysOfAppend
  <2>3. Durable!CommitChange(key)
    BY <1>1, <1>2, <2>1, <2>2 DEF Durable!CommitChange, KeysOf
  <2>4. QED
    BY <2>3 DEF Durable!DurableNext
<1>6. CASE Write("bg")
  <2>1. /\ pc["bg"] = "writing" /\ pc'["bg"] = "written"
        /\ UNCHANGED <<statedict, history, pending, batch>>
    BY <1>6, Appends
  <2>2. /\ Len(batch["bg"]) \in Nat /\ Dequeued + Len(batch["bg"]) <= Len(history)
        /\ Reach = Dequeued /\ Reach' = Dequeued + Len(batch["bg"])
    <3>1. /\ Len(batch["bg"]) \in Nat /\ Len(batch["bg"]) <= Len(pending) /\ Len(pending) \in Nat
      BY <1>1, <2>1, Types DEF DurableInv, InFlush
    <3>2. Reach = Dequeued /\ Reach' = Dequeued + Len(batch["bg"])
      BY <2>1 DEF Reach, Dequeued
    <3>3. QED
      BY <1>1, <3>1, <3>2 DEF Dequeued
  <2>3. saved \in Nat /\ saved' \in saved .. Len(hist)
    BY <1>1, <1>2, <2>2
  <2>4. CASE saved' = saved
    BY <1>3, <2>1, <2>4
  <2>5. CASE saved' # saved
    <3>1. saved' \in saved + 1 .. Len(hist)
      BY <1>1, <2>3, <2>5
    <3>2. Durable!Save
      BY <2>1, <3>1 DEF Durable!Save, KeysOf
    <3>3. QED
      BY <3>2 DEF Durable!DurableNext
  <2>6. QED
    BY <2>4, <2>5
<1>7. CASE ReadSize("bg")
  BY <1>4, <1>7, Sizes
<1>8. CASE BgFlush
  BY <1>4, <1>8, Begins
<1>9. CASE BgTick
  <2>1. pc["bg"] = "idle" /\ pc' = pc /\ UNCHANGED <<statedict, history, pending>>
    BY <1>9, Ticks
  <2>2. Reach' = Reach
    BY <2>1 DEF Reach, Dequeued
  <2>3. QED
    BY <1>2, <1>3, <2>1, <2>2
<1>10. CASE BgDone
  <2>1. /\ pc["bg"] = "written" /\ pc'["bg"] = "idle" /\ UNCHANGED <<statedict, history>>
        /\ Dequeued' = Dequeued + Len(batch["bg"])
    BY <1>10, Dequeues
  <2>2. Reach' = Reach
    BY <2>1 DEF Reach
  <2>3. QED
    BY <1>2, <1>3, <2>1, <2>2
<1>11. CASE CrashRestart /\ Landed
  <2>1. /\ history' = SubSeq(history, 1, saved') /\ saved' \in Nat /\ Len(history') = saved'
        /\ history' \in Seq(Change) /\ statedict' \in State
    BY <1>11, Restarts DEF TypeInv, TypeOK
  <2>2. saved' \in saved .. Len(hist)
    <3>1. CASE file' = file
      <4>1. Len(file) <= Len(history) + 1
        BY DEF PlainInv, Plain
      <4>2. QED
        BY <1>1, <1>2, <2>1, <3>1, <4>1
    <3>2. CASE pc["bg"] = "writing" /\ \E n \in 0 .. Len(batch["bg"]) :
                 file' = file \o SubSeq(Framed(batch["bg"], base["bg"]), 1, n)
      <4> DEFINE g == Framed(batch["bg"], base["bg"])
      <4>1. /\ g \in Seq(ChangeEntry) /\ Len(g) = Len(batch["bg"]) /\ Len(g) \in Nat
            /\ Dequeued + Len(g) <= Len(history)
        BY <3>2, NextChanges
      <4>2. PICK n \in 0 .. Len(g) : file' = file \o SubSeq(g, 1, n)
        BY <3>2, <4>1
      <4> HIDE DEF g
      <4> DEFINE w == SubSeq(g, 1, n)
      <4>3. w \in Seq(ChangeEntry) /\ Len(w) = n /\ n \in Nat /\ n <= Len(g)
        BY <4>1, <4>2
      <4>4. file' = file \o w
        BY <4>2
      <4> HIDE DEF w
      <4>5. w \in Seq(Entry) /\ file \in Seq(Entry)
        BY <4>3, ChangesAreEntries, Types
      <4>6. Len(file') = Len(file) + n
        <5>1. Len(file \o w) = Len(file) + Len(w)
          BY <4>5
        <5>2. Len(w) = n
          BY <4>3
        <5>3. QED
          BY <4>4, <5>1, <5>2
      <4>7. Len(file) = Dequeued + 1
        BY <1>2, <3>2 DEF Reach
      <4>8. QED
        BY <1>1, <1>2, <4>1, <4>3, <4>6, <4>7
    <3>3. QED
      BY <1>11, <3>1, <3>2 DEF Landed
  <2>3. hist' = SubSeq(hist, 1, saved')
    <3> DEFINE n == saved'
    <3>1. n \in 0 .. Len(history) /\ history' = SubSeq(history, 1, n)
      BY <1>1, <1>2, <2>1, <2>2
    <3> HIDE DEF n
    <3>2. KeysOf(history') = SubSeq(KeysOf(history), 1, n)
      BY <1>1, <3>1, KeysOfCut
    <3>3. QED
      BY <3>2 DEF n
  <2>4. statedict' = Durable!ValueOf(KeysOf(history'))
    BY <2>1, ValueIs DEF PlainInv
  <2>5. Durable!Crash
    BY <2>2, <2>3, <2>4 DEF Durable!Crash, KeysOf
  <2>6. QED
    BY <2>5 DEF Durable!DurableNext
<1>12. CASE Idles
  BY <1>4, <1>12 DEF Idles
<1>13. QED
  BY <1>5, <1>6, <1>7, <1>8, <1>9, <1>10, <1>11, <1>12, LoneSteps, Flushers = {}, AllowClose = FALSE

(* As long as no snapshot is written, the instance is the abstract store:  *)
(* a crash at any point, in the middle of a write too, costs changes at    *)
(* the end of the history only, none that the log held before, and the     *)
(* state afterwards is exactly the one after the changes that are left.    *)
THEOREM Implements ==
  ASSUME Flushers = {}, AllowClose = FALSE
  PROVE  Spec /\ []Unsnapped => ImplementsDurableStore
<1> DEFINE Inv == TypeInv /\ DurableInv /\ AloneInv /\ RecoverInv /\ PlainInv
<1>1. Init => Inv
  BY InitType, InitDurable, InitAlone, InitRecover, InitPlain
<1>2. Inv /\ Unsnapped' /\ [Next]_vars => Inv'
  BY StepType, StepDurable, AloneOneFlush, LoneSteps, StepRecover, StepPlain, Flushers = {}, AllowClose = FALSE
<1>3. Init => Durable!DurableInit
  <2> SUFFICES ASSUME Init PROVE Durable!DurableInit
    OBVIOUS
  <2>1. TypeInv /\ PlainInv
    BY InitType, InitPlain
  <2>2. history \in Seq(Change) /\ file \in Seq(Entry) /\ statedict \in State /\ Plain(file, history)
        /\ history = <<>> /\ Len(file) = 1
    BY <2>1 DEF Init, TypeInv, TypeOK, PlainInv
  <2>3. Newest(file) = 0
    <3>1. Newest(file) = Len(file) - 1
      BY <2>2, PlainNewest
    <3>2. QED
      BY <2>2, <3>1
  <2>4. KeysOf(history) = <<>>
    <3>1. KeysOf(history) \in Seq(Keys) /\ Len(KeysOf(history)) = Len(history) /\ Len(history) = 0
      BY <2>2, KeysOfType
    <3> DEFINE x == KeysOf(history)
    <3> HIDE DEF x
    <3>2. x = <<>>
      BY <3>1 DEF x
    <3>3. QED
      BY <3>2 DEF x
  <2>5. statedict = Durable!ValueOf(KeysOf(history))
    BY <2>1, <2>2, ValueIs DEF PlainInv
  <2>6. QED
    BY <2>3, <2>4, <2>5 DEF Durable!DurableInit, KeysOf
<1>4. Inv /\ Inv' /\ Unsnapped' /\ [Next]_vars => [Durable!DurableNext]_(Durable!dvars)
  BY StepRefines, Flushers = {}, AllowClose = FALSE
<1> HIDE DEF Inv
<1>5. QED
  BY <1>1, <1>2, <1>3, <1>4, PTL DEF Spec, ImplementsDurableStore, Durable!DurableSpec
=============================================================================
