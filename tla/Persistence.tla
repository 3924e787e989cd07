---------------------------- MODULE Persistence -----------------------------
(***************************************************************************)
(* One opened, writable Kanta instance: committed changes are queued in    *)
(* memory, and asyncio tasks append them to the log.  The tasks are the    *)
(* background loop, the application's calls of kanta.flush() and close().  *)
(* A task runs without interruption up to its next await; the two awaited  *)
(* jobs of a flush, file.size and file.write, run in a thread pool.        *)
(*                                                                         *)
(* Abstractions.  A change sets one key, and its value is the change's own *)
(* number.  Offsets count records: every record is one unit long.  Calls   *)
(* that change nothing (an empty diff, a flush with an empty queue) are    *)
(* stutters.  A record is written whole or not at all; torn records and    *)
(* the interleaving of lseek and write calls belong to the framing and to  *)
(* the file below this module.                                             *)
(***************************************************************************)
EXTENDS Naturals, Sequences, FiniteSets, SequencesExt

CONSTANTS Keys,          \* the independent parts of the application's state
          Flushers,      \* application tasks that call kanta.flush()
          AllowClose,    \* TRUE: the application may call kanta.close()
          WriteErrors,   \* TRUE: the operating system may refuse a write
          MinDiffs,      \* changes before a weekly snapshot is considered
          MaxTx,         \* bound: length of the committed history
          MaxSnapshots,  \* bound: snapshots in the log when one is requested
          MaxCrashes     \* bound: crashes of the process

Tasks == Flushers \cup {"bg", "closer"}

ASSUME PersistenceAssumption ==
  /\ "bg" \notin Flushers /\ "closer" \notin Flushers
  /\ AllowClose \in BOOLEAN /\ WriteErrors \in BOOLEAN
  /\ {MinDiffs, MaxTx, MaxSnapshots, MaxCrashes} \subseteq Nat
  /\ MinDiffs > 0

VARIABLES
  statedict,      \* serialized state after the last committed change
  history,        \* ghost: every committed change, oldest first
  pending,        \* pending_changes: committed and not yet dequeued
  file,           \* the log: change and snapshot records
  pc,             \* where each task is
  batch,          \* changes_to_write of each task's flush
  base,           \* base_offset of each task's flush
  orphan,         \* records of a write whose task was cancelled under it
  cancel,         \* cancellation of the background task
  flush_failed,   \* an OSError stopped flushing for good
  opened,         \* the instance is open, and so is its file
  changes,        \* SnapshotState.changes
  force,          \* SnapshotState._force_pending
  refused,        \* ghost: flips with every snapshot write that is refused
  asked,          \* ghost: Len(history) at the last call of close()
  crashes         \* crashes so far

memory == <<statedict, history, pending>>
snap   == <<changes, force, refused>>
jobs   == <<batch, base>>
ghosts == <<asked, crashes>>
vars == <<memory, file, pc, jobs, orphan, cancel, flush_failed, opened, snap, ghosts>>

-----------------------------------------------------------------------------
(* Records *)

Change        == [id : Nat \ {0}, key : Keys]
State         == [Keys -> Nat]
ChangeEntry   == [kind : {"change"}, id : Nat \ {0}, key : Keys, at : Nat]
SnapshotEntry == [kind : {"snapshot"}, id : Nat, state : State, at : Nat]
Entry         == ChangeEntry \cup SnapshotEntry

(* Fault: running_size is forgotten. *)
FramedAtBase(b, offset) ==
  [i \in 1 .. Len(b) |-> [kind |-> "change", id |-> b[i].id, key |-> b[i].key, at |-> offset]]

(* frame_change over a batch: each record is bound to the offset at which  *)
(* it is to land.                                                          *)
Framed(b, offset) ==
  [i \in 1 .. Len(b) |-> [kind |-> "change", id |-> b[i].id, key |-> b[i].key,
                          at |-> offset + i - 1]]

Empty == [k \in Keys |-> 0]

(* Replay of a log: the last snapshot, then the later changes in order.    *)
(* As a change overwrites its key, a key's value is the last one written.  *)
Replay(f) ==
  LET s == SelectLastInSeq(f, LAMBDA e : e.kind = "snapshot")
      LastWrite(k) == SelectLastInSeq(f, LAMBDA e : e.kind = "change" /\ e.key = k)
  IN [k \in Keys |-> IF LastWrite(k) > s THEN f[LastWrite(k)].id
                     ELSE IF s > 0 THEN f[s].state[k] ELSE 0]

(* Fault: the snapshot is taken from the log instead of from memory. *)
SnapshotOfLog(offset) ==
  [kind |-> "snapshot", id |-> Len(history), state |-> Replay(file), at |-> offset]

(* The snapshot of the current state; its id is the newest change in it.   *)
SnapshotOf(offset) ==
  [kind |-> "snapshot", id |-> Len(history), state |-> statedict, at |-> offset]

(* Change n survives in log f, as itself or inside a later snapshot.       *)
CoveredIn(n, f) == \E i \in DOMAIN f : \/ f[i].kind = "change" /\ f[i].id = n
                                       \/ f[i].kind = "snapshot" /\ f[i].id >= n
Covered(n) == CoveredIn(n, file)

(* The newest change that log f knows of. *)
Newest(f) == Max({f[i].id : i \in DOMAIN f})

-----------------------------------------------------------------------------
(* open() has replayed an existing log and has just created the background *)
(* task, which has not run yet.                                            *)
Init ==
  /\ statedict = Empty /\ history = <<>> /\ pending = <<>>
  /\ file = <<[kind |-> "snapshot", id |-> 0, state |-> Empty, at |-> 0]>>
  /\ pc = [t \in Tasks |-> IF t = "bg" THEN "new" ELSE "idle"]
  /\ batch = [t \in Tasks |-> <<>>] /\ base = [t \in Tasks |-> 0]
  /\ orphan = <<>> /\ cancel = "no"
  /\ flush_failed = FALSE /\ opened = TRUE
  /\ changes = 0 /\ force = FALSE /\ refused = FALSE
  /\ asked = 0 /\ crashes = 0

-----------------------------------------------------------------------------
(* The application *)

(* queue_change, at the end of a transaction that changed key k.  Nothing  *)
(* here asks whether the instance is open.                                 *)
Commit(k) ==
  /\ Len(history) < MaxTx
  /\ LET c == [id |-> Len(history) + 1, key |-> k] IN
       /\ history' = Append(history, c)
       /\ pending' = Append(pending, c)
       /\ statedict' = [statedict EXCEPT ![k] = c.id]
  /\ UNCHANGED <<file, pc, jobs, orphan, cancel, flush_failed, opened, snap, ghosts>>

RequestSnapshot ==
  /\ Cardinality({i \in DOMAIN file : file[i].kind = "snapshot"}) <= MaxSnapshots
  /\ ~force
  /\ force' = TRUE
  /\ UNCHANGED <<memory, file, pc, jobs, orphan, cancel, flush_failed, opened, changes, refused, ghosts>>

-----------------------------------------------------------------------------
(* flush(), one action per stretch between awaits *)

(* A cancelled background task resumes with the cancellation, nothing else. *)
Runs(t) == t = "bg" => cancel # "requested"

(* Fault: a queue of one record is taken for an empty one. *)
CanFlushTwo == opened /\ ~flush_failed /\ Len(pending) > 1

CanFlush == opened /\ ~flush_failed /\ pending # <<>>

(* Up to the await of file.size: the queue is listed, not emptied.         *)
BeginFlush(t) ==
  /\ batch' = [batch EXCEPT ![t] = pending]
  /\ pc' = [pc EXCEPT ![t] = "sizing"]
  /\ UNCHANGED base

(* file.size in a thread, then the framing of the batch at that offset.    *)
ReadSize(t) ==
  /\ pc[t] = "sizing" /\ opened /\ Runs(t)
  /\ base' = [base EXCEPT ![t] = Len(file)]
  /\ pc' = [pc EXCEPT ![t] = "writing"]
  /\ UNCHANGED <<memory, file, batch, orphan, cancel, flush_failed, opened, snap, ghosts>>

(* file.write in a thread: it appends, wherever the end of the file is now. *)
Write(t) ==
  /\ pc[t] = "writing" /\ opened
  /\ file' = file \o Framed(batch[t], base[t])
  /\ pc' = [pc EXCEPT ![t] = "written"]
  /\ UNCHANGED <<memory, jobs, orphan, cancel, flush_failed, opened, snap, ghosts>>

(* The thread's call raises OSError. *)
WriteFails(t) ==
  /\ WriteErrors /\ pc[t] \in {"sizing", "writing"} /\ opened
  /\ pc' = [pc EXCEPT ![t] = "failed"]
  /\ UNCHANGED <<memory, file, jobs, orphan, cancel, flush_failed, opened, snap, ghosts>>

(* close() closed the file under a flush: RuntimeError, to the caller.     *)
FileClosed(t) ==
  /\ t \in Flushers /\ pc[t] \in {"sizing", "writing"} /\ ~opened
  /\ pc' = [pc EXCEPT ![t] = "idle"]
  /\ UNCHANGED <<memory, file, jobs, orphan, cancel, flush_failed, opened, snap, ghosts>>

(* Faults: the whole queue is cleared; one record too few is dequeued.     *)
DequeueAll(t) == pending' = IF batch[t] = <<>> THEN pending ELSE <<>>
DequeueLess(t) == pending' = SubSeq(pending, Len(batch[t]), Len(pending))

(* After the write: count the records and dequeue as many as were written, *)
(* whichever they are by now.  popleft raises IndexError on a short queue. *)
Dequeue(t) ==
  pending' = IF Len(batch[t]) <= Len(pending)
             THEN SubSeq(pending, Len(batch[t]) + 1, Len(pending)) ELSE <<>>
Short(t) == Len(batch[t]) > Len(pending)

(* Fault: the counter runs down instead of up. *)
CountedDown(t) == changes - Len(batch[t])
Counted(t) == changes + Len(batch[t])

(* maybe_write, with c changes counted: a requested snapshot is due at     *)
(* once, another one only on a Sunday that has none.  A write that is      *)
(* refused keeps the request and is only logged; it may be refused again   *)
(* on every later turn, so that it must not pass for a stutter.            *)
SnapshotDue(c) == force \/ c >= MinDiffs
MaybeSnapshot(c) ==
  \/ /\ SnapshotDue(c)
     /\ file' = Append(file, SnapshotOf(Len(file)))
     /\ changes' = 0
     /\ force' = FALSE
     /\ UNCHANGED refused
  \/ /\ SnapshotDue(c) /\ WriteErrors
     /\ refused' = ~refused
     /\ changes' = c
     /\ UNCHANGED <<file, force>>
  \/ /\ ~force
     /\ changes' = c
     /\ UNCHANGED <<file, force, refused>>

(* The fatal_error callbacks run; or, in the cancellation handler, nothing *)
(* catches the error and the task ends with it.                            *)
Fail(t) ==
  /\ pc[t] = "failed" /\ Runs(t)
  /\ flush_failed' = TRUE
  /\ pc' = [pc EXCEPT ![t] = CASE t \in Flushers -> "idle"
                               [] t = "closer" -> "raised"
                               [] t = "bg" /\ cancel = "no" -> "done"
                               [] OTHER -> "error"]
  /\ UNCHANGED <<memory, file, jobs, orphan, cancel, opened, snap, ghosts>>

FlushStart(t) ==
  /\ t \in Flushers /\ pc[t] = "idle" /\ CanFlush
  /\ BeginFlush(t)
  /\ UNCHANGED <<memory, file, orphan, cancel, flush_failed, opened, snap, ghosts>>

FlushDone(t) ==
  /\ t \in Flushers /\ pc[t] = "written"
  /\ Dequeue(t)
  /\ changes' = Counted(t)
  /\ pc' = [pc EXCEPT ![t] = "idle"]
  /\ UNCHANGED <<statedict, history, file, jobs, orphan, cancel, flush_failed, opened, force, refused, ghosts>>

-----------------------------------------------------------------------------
(* _background_loop() *)

BgStart ==
  /\ pc["bg"] = "new" /\ Runs("bg")
  /\ pc' = [pc EXCEPT !["bg"] = "idle"]
  /\ UNCHANGED <<memory, file, jobs, orphan, cancel, flush_failed, opened, snap, ghosts>>

(* The sleep ends and there is something to flush. *)
BgFlush ==
  /\ pc["bg"] = "idle" /\ Runs("bg") /\ CanFlush
  /\ BeginFlush("bg")
  /\ UNCHANGED <<memory, file, orphan, cancel, flush_failed, opened, snap, ghosts>>

(* Fault: maybe_snapshot only runs after a flush that wrote something. *)
BgTickNoSnapshot ==
  /\ pc["bg"] = "idle" /\ Runs("bg") /\ ~CanFlush
  /\ UNCHANGED vars

(* The sleep ends and flush() returns at once: only the snapshot is left.  *)
BgTick ==
  /\ pc["bg"] = "idle" /\ Runs("bg") /\ ~CanFlush
  /\ MaybeSnapshot(changes)
  /\ UNCHANGED <<memory, pc, jobs, orphan, cancel, flush_failed, opened, ghosts>>

(* Fault: the cancellation handler does not leave the loop. *)
BgDoneNoBreak ==
  /\ pc["bg"] = "written" /\ Runs("bg") /\ ~Short("bg")
  /\ Dequeue("bg")
  /\ MaybeSnapshot(Counted("bg"))
  /\ pc' = [pc EXCEPT !["bg"] = "idle"]
  /\ UNCHANGED <<statedict, history, jobs, orphan, cancel, flush_failed, opened, ghosts>>

(* A flush of the background task returns; maybe_snapshot follows without  *)
(* an await, and in the cancellation handler the loop ends.                *)
BgDone ==
  /\ pc["bg"] = "written" /\ Runs("bg") /\ ~Short("bg")
  /\ Dequeue("bg")
  /\ MaybeSnapshot(Counted("bg"))
  /\ pc' = [pc EXCEPT !["bg"] = IF cancel = "no" THEN "idle" ELSE "done"]
  /\ UNCHANGED <<statedict, history, jobs, orphan, cancel, flush_failed, opened, ghosts>>

(* Another flush dequeued first: IndexError, which the loop does not catch, *)
(* ends the task.                                                          *)
BgShort ==
  /\ pc["bg"] = "written" /\ Runs("bg") /\ Short("bg")
  /\ Dequeue("bg")
  /\ changes' = Counted("bg")
  /\ pc' = [pc EXCEPT !["bg"] = "error"]
  /\ UNCHANGED <<statedict, history, file, jobs, orphan, cancel, flush_failed, opened, force, refused, ghosts>>

(* CancelledError is raised where the task waits.  Before its first step   *)
(* it simply ends.  Later the handler flushes again; a write that has not  *)
(* returned is dropped if no thread has taken it up, and goes on without   *)
(* its task otherwise.                                                     *)
BgCancelled ==
  /\ cancel = "requested"
  /\ cancel' = "handled"
  /\ IF pc["bg"] = "writing"
     THEN orphan' \in {<<>>, Framed(batch["bg"], base["bg"])}
     ELSE UNCHANGED orphan
  /\ \/ /\ pc["bg"] = "new"
        /\ pc' = [pc EXCEPT !["bg"] = "done"]
        /\ UNCHANGED <<file, jobs, snap>>
     \/ /\ pc["bg"] # "new" /\ CanFlush
        /\ BeginFlush("bg")
        /\ UNCHANGED <<file, snap>>
     \/ /\ pc["bg"] # "new" /\ ~CanFlush
        /\ MaybeSnapshot(changes)
        /\ pc' = [pc EXCEPT !["bg"] = "done"]
        /\ UNCHANGED jobs
  /\ UNCHANGED <<memory, flush_failed, opened, ghosts>>

(* The abandoned thread gets to its write, or finds the file closed.       *)
OrphanWrite ==
  /\ orphan # <<>>
  /\ orphan' = <<>>
  /\ \/ opened /\ file' = file \o orphan
     \/ (WriteErrors \/ ~opened) /\ UNCHANGED file
  /\ UNCHANGED <<memory, pc, jobs, cancel, flush_failed, opened, snap, ghosts>>

-----------------------------------------------------------------------------
(* close() *)

CloseBegin ==
  /\ AllowClose /\ opened /\ pc["closer"] \in {"idle", "raised"}
  /\ pc' = [pc EXCEPT !["closer"] = "awaiting"]
  /\ cancel' = IF pc["bg"] \in {"done", "error"} \/ cancel # "no" THEN cancel ELSE "requested"
  /\ asked' = Len(history)
  /\ UNCHANGED <<memory, file, jobs, orphan, flush_failed, opened, snap, crashes>>

(* The awaited background task ended with an error: close() raises it and  *)
(* leaves everything as it is.                                             *)
CloseRaises ==
  /\ pc["closer"] = "awaiting" /\ pc["bg"] = "error"
  /\ pc' = [pc EXCEPT !["closer"] = "raised"]
  /\ UNCHANGED <<memory, file, jobs, orphan, cancel, flush_failed, opened, snap, ghosts>>

(* It ended normally: the final flush, *)
CloseFlush ==
  /\ pc["closer"] = "awaiting" /\ pc["bg"] = "done" /\ CanFlush
  /\ BeginFlush("closer")
  /\ UNCHANGED <<memory, file, orphan, cancel, flush_failed, opened, snap, ghosts>>

(* Fault: the final flush is left to the cancelled background task. *)
CloseFileAtOnce ==
  /\ pc["closer"] = "awaiting" /\ pc["bg"] = "done"
  /\ opened' = FALSE
  /\ pc' = [pc EXCEPT !["closer"] = "idle"]
  /\ UNCHANGED <<memory, file, jobs, orphan, cancel, flush_failed, snap, ghosts>>

(* or, when that has nothing to do, the release of the file.               *)
CloseFile ==
  /\ pc["closer"] = "awaiting" /\ pc["bg"] = "done" /\ ~CanFlush
  /\ opened' = FALSE
  /\ pc' = [pc EXCEPT !["closer"] = "idle"]
  /\ UNCHANGED <<memory, file, jobs, orphan, cancel, flush_failed, snap, ghosts>>

(* The final flush returns, and the file is closed in the same step; with  *)
(* a short queue IndexError leaves it open.                                *)
CloseDone ==
  /\ pc["closer"] = "written"
  /\ Dequeue("closer")
  /\ changes' = Counted("closer")
  /\ opened' = Short("closer")
  /\ pc' = [pc EXCEPT !["closer"] = IF Short("closer") THEN "raised" ELSE "idle"]
  /\ UNCHANGED <<statedict, history, file, jobs, orphan, cancel, flush_failed, force, refused, ghosts>>

-----------------------------------------------------------------------------
(* The process dies and the file is opened again.  Of the writes under way *)
(* one may have got a leading part of its records into the file.  open()   *)
(* replays that file; what it does not know of never happened.             *)
Landing == {<<>>, orphan} \cup {Framed(batch[t], base[t]) : t \in {u \in Tasks : pc[u] = "writing"}}

CrashRestart ==
  /\ crashes < MaxCrashes /\ opened
  /\ \E w \in Landing : \E n \in 0 .. Len(w) : file' = file \o SubSeq(w, 1, n)
  /\ statedict' = Replay(file')
  /\ history' = SubSeq(history, 1, Newest(file'))
  /\ pending' = <<>>
  /\ pc' = [t \in Tasks |-> IF t = "bg" THEN "new" ELSE "idle"]
  /\ batch' = [t \in Tasks |-> <<>>] /\ base' = [t \in Tasks |-> 0]
  /\ orphan' = <<>> /\ cancel' = "no" /\ flush_failed' = FALSE /\ opened' = TRUE
  /\ changes' = 0 /\ force' = FALSE /\ refused' = FALSE
  /\ asked' = 0 /\ crashes' = crashes + 1

-----------------------------------------------------------------------------
Next ==
  \/ \E k \in Keys : Commit(k)
  \/ RequestSnapshot
  \/ \E t \in Tasks : \/ ReadSize(t) \/ Write(t) \/ WriteFails(t) \/ Fail(t)
                      \/ FlushStart(t) \/ FlushDone(t) \/ FileClosed(t)
  \/ BgStart \/ BgFlush \/ BgTick \/ BgDone \/ BgShort \/ BgCancelled
  \/ OrphanWrite
  \/ CloseBegin \/ CloseRaises \/ CloseFlush \/ CloseFile \/ CloseDone
  \/ CrashRestart

Spec == Init /\ [][Next]_vars

(* The event loop resumes every task that can run, the sleep of the        *)
(* background loop ends, and the thread pool executes every job.  Nothing  *)
(* makes the application commit, flush or close, or a write succeed: what  *)
(* may be refused may be refused every time.                               *)
Step(t) == ReadSize(t) \/ Write(t) \/ Fail(t) \/ FlushDone(t) \/ FileClosed(t)
Background == Step("bg") \/ BgStart \/ BgFlush \/ BgTick \/ BgDone \/ BgShort \/ BgCancelled
Closing == Step("closer") \/ CloseRaises \/ CloseFlush \/ CloseFile \/ CloseDone

Fairness == /\ WF_vars(Background)
            /\ WF_vars(Closing)
            /\ WF_vars(OrphanWrite)
            /\ \A t \in Flushers : WF_vars(Step(t))

FairSpec == Spec /\ Fairness

-----------------------------------------------------------------------------
(* Every variable keeps its type. *)
TypeOK ==
  /\ statedict \in State
  /\ history \in Seq(Change) /\ pending \in Seq(Change)
  /\ file \in Seq(Entry) /\ orphan \in Seq(ChangeEntry)
  /\ pc \in [Tasks -> {"new", "idle", "sizing", "writing", "written", "failed",
                      "awaiting", "raised", "done", "error"}]
  /\ batch \in [Tasks -> Seq(Change)] /\ base \in [Tasks -> Nat]
  /\ cancel \in {"no", "requested", "handled"}
  /\ flush_failed \in BOOLEAN /\ opened \in BOOLEAN
  /\ changes \in Nat /\ force \in BOOLEAN /\ refused \in BOOLEAN
  /\ asked \in Nat /\ crashes \in Nat

(* A committed change is never lost: it stays in the queue until the log   *)
(* holds it, whatever is cancelled, refused or crashed on the way.         *)
NoLostChange ==
  \A n \in DOMAIN history :
    Covered(n) \/ \E i \in DOMAIN pending : pending[i].id = n

(* The log and the queue together rebuild the state the application sees:  *)
(* flushing what is queued and replaying the file gives statedict.         *)
Recoverable == Replay(file \o Framed(pending, Len(file))) = statedict

(* Change records reach the log once each and in the order of commits.     *)
OrderedLog ==
  \A i, j \in DOMAIN file :
    i < j /\ file[i].kind = "change" /\ file[j].kind = "change" => file[i].id < file[j].id

(* Every record lies at the offset it was framed for, which the binary     *)
(* framer's checksum depends on.                                           *)
FramesInPlace == \A i \in DOMAIN file : file[i].at = i - 1

(* A snapshot records a state the application really committed, the one    *)
(* after the change it is numbered with, never a mix of two.               *)
StateAfter(n) ==
  [k \in Keys |-> SelectLastInSeq(SubSeq(history, 1, n), LAMBDA c : c.key = k)]
SnapshotsExact ==
  \A i \in DOMAIN file : file[i].kind = "snapshot" => file[i].state = StateAfter(file[i].id)

(* After a close() that met no write error, every change committed before  *)
(* it was called is in the log.                                            *)
CloseSaves == ~opened /\ ~flush_failed => \A n \in 1 .. asked : Covered(n)

(* Flushes that overlap lose a change only by writing others twice: a log  *)
(* with fewer duplicates than n has lost fewer than n changes.             *)
Lost == {n \in DOMAIN history : ~Covered(n) /\ \A i \in DOMAIN pending : pending[i].id # n}
ChangeRecords == {i \in DOMAIN file : file[i].kind = "change"}
LossMeansDuplicate ==
  Cardinality(Lost) + Cardinality({file[i].id : i \in ChangeRecords}) <= Cardinality(ChangeRecords)

(* The abstract store: a crash costs a suffix of the history at most, and  *)
(* nothing that was ever in the log.                                       *)
Durable == INSTANCE DurableStore WITH
             hist  <- [i \in DOMAIN history |-> history[i].key],
             saved <- Newest(file),
             value <- statedict
ImplementsDurableStore == Durable!DurableSpec

(* A committed change reaches the log, unless a crash takes it back, a     *)
(* write is refused or close() ends the instance.                          *)
EventuallySaved ==
  \A n \in 1 .. MaxTx :
    n \in DOMAIN history ~> (Covered(n) \/ n \notin DOMAIN history \/ ~opened \/ flush_failed)

(* The background loop never forgets a requested snapshot: it comes to     *)
(* write it, or to be refused once more, after which the request stands as *)
(* before; so it is written unless every attempt is refused.  This ends    *)
(* with close(), and with a refused flush, which ends the loop.            *)
SnapshotServed ==
  \A r \in BOOLEAN :
    force /\ refused = r ~> ~force \/ refused # r \/ ~opened \/ flush_failed

(* close() comes to an end, wherever the cancellation finds the background *)
(* task and whatever fails: it releases the file, or raises.               *)
CloseEnds == pc["closer"] = "awaiting" ~> pc["closer"] \in {"idle", "raised"}
=============================================================================
