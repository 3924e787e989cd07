------------------------------ MODULE Opening -------------------------------
(***************************************************************************)
(* The life of Kanta instances that share one path: open(), which locks,   *)
(* reads, rotates and migrates or bootstraps, and close().  Several opens  *)
(* may be under way, of different instances or of the same one; they are   *)
(* cancelled, fail, and die with their process at any await.  One action   *)
(* per stretch between two awaits, one outcome per action.                 *)
(*                                                                         *)
(* Abstractions.  A state is the number of the record that led to it, and  *)
(* 0 is a database without records.  A record leads from the state it was  *)
(* diffed against to another one; a snapshot stays where it is.  A flush   *)
(* is one step that writes all of its records or none, two that overlap    *)
(* are one step too, and so is close() with the flushes that it cancels    *)
(* and awaits: Persistence takes them apart.  A flush that overlaps an     *)
(* open() or a close() from outside is left out, and so are a write that   *)
(* ends after close() and two threads of one instance that open the file   *)
(* at the same time.  Every instance has a retention window and a          *)
(* bootstrap callback, which open() awaits.  The snapshot shown is the one *)
(* that open() forces.                                                     *)
(***************************************************************************)
EXTENDS Integers, Sequences, FiniteSets, SequencesExt

CONSTANTS Instances,
          Openers,       \* tasks that call open()
          Nobody,        \* stands for no instance
          MaxOpens,      \* bound: calls of open()
          MaxRecords,    \* bound: changes queued
          MaxFailures    \* bound: crashes, refused writes, and misuses of the interface

ASSUME OpeningAssumption ==
  /\ Nobody \notin Instances
  /\ {MaxOpens, MaxRecords, MaxFailures} \subseteq Nat

VARIABLES
  path,       \* the file that the path names; 0 when there is none
  files,      \* the content of every file that the path ever named
  kanta,      \* the attributes of each instance
  open,       \* each call of open() under way
  closing,    \* the instances whose close() is under way
  last,       \* changes queued so far
  opens,      \* calls of open() so far
  failures,   \* failures injected so far
  mishaps     \* ghost: what happened that the promises below except

bounds == <<last, opens, failures>>
vars == <<path, files, kanta, open, closing, bounds, mishaps>>

Modes == {"create", "existing", "readonly"}

Fresh == [opened |-> FALSE, readonly |-> FALSE,
          fd |-> 0, writable |-> FALSE,           \* LockedFile
          state |-> 0, pending |-> <<>>, flush_failed |-> FALSE,
          task |-> "none",                        \* background_task
          orphans |-> 0]                          \* loops it no longer names

NoCall == [pc |-> "idle", of |-> Nobody, mode |-> "create", existed |-> FALSE,
           fd |-> 0,                               \* opened, and not locked yet
           content |-> <<>>, alone |-> FALSE]

Init ==
  /\ path = 0 /\ files = <<>>
  /\ kanta = [i \in Instances |-> Fresh]
  /\ open = [o \in Openers |-> NoCall] /\ closing = {}
  /\ last = 0 /\ opens = 0 /\ failures = 0 /\ mishaps = {}

-----------------------------------------------------------------------------
Busy(i) == i \in closing \/ \E o \in Openers : open[o].of = i
At(o, step) == open[o].pc = step
Locked(n) == \E i \in Instances : kanta[i].fd = n /\ kanta[i].writable

(* Instance i is the only one that has the file at the path open. *)
Alone(i) == kanta[i].fd = path /\ \A j \in Instances \ {i} : kanta[j].fd # kanta[i].fd

Notes(what, when) == mishaps' = mishaps \cup IF when THEN {what} ELSE {}
Fails == failures < MaxFailures /\ failures' = failures + 1
Misuse(what, when) == Notes(what, when) /\ IF when THEN Fails ELSE UNCHANGED failures
Step(o, pc) == open' = [open EXCEPT ![o].pc = pc]
Ends(o) == open' = [open EXCEPT ![o] = NoCall]

(* os.open: the file that the path names, which is created where there is  *)
(* none.                                                                   *)
Opened(create) ==
  IF path # 0 THEN UNCHANGED <<path, files>>
  ELSE create /\ path' = Len(files) + 1 /\ files' = Append(files, <<>>)

(* LockedFile.close *)
Released(k) == [k EXCEPT !.fd = 0, !.writable = FALSE]

(* create_task(_background_loop()), unless the instance is read-only by    *)
(* now.  A loop that the attribute names already is forgotten.             *)
WithLoop(k) ==
  IF k.readonly THEN k
  ELSE [k EXCEPT !.task = "live", !.orphans = IF k.task = "live" THEN @ + 1 ELSE @]

(* queue_change: a record from the state known so far to a new one. *)
Queued(k, n) == [k EXCEPT !.state = n, !.pending = Append(@, [from |-> k.state, to |-> n])]

(* flush() has something to write, *)
Flushing(i) ==
  LET k == kanta[i] IN k.opened /\ ~k.readonly /\ ~k.flush_failed /\ k.pending # <<>>

Written(k, records) ==
  IF k.fd # 0 /\ k.writable THEN [files EXCEPT ![k.fd] = @ \o records] ELSE files

(* and is refused: by an OSError, which stops all flushing, or, when the   *)
(* file was closed under the instance, by the lock of another.             *)
Refused(i, broken) ==
  LET k == kanta[i]
  IN \/ k.fd # 0 /\ broken /\ (IF k.writable THEN Fails ELSE UNCHANGED failures)
     \/ k.fd = 0 /\ ~broken /\ path # 0 /\ Locked(path) /\ UNCHANGED failures

-----------------------------------------------------------------------------
(* open(), as far as the await of open_and_read. *)
Call(o, i, mode) ==
  /\ At(o, "idle") /\ opens < MaxOpens /\ ~kanta[i].opened
  /\ kanta' = [kanta EXCEPT ![i].readonly = (mode = "readonly")]
  /\ open' = [open EXCEPT ![o] = [NoCall EXCEPT !.pc = "reading", !.of = i, !.mode = mode,
                                                !.existed = (path # 0)]]
  /\ opens' = opens + 1
  /\ Misuse("overlap", Busy(i))
  /\ UNCHANGED <<path, files, closing, last>>

(* The thread of open_and_read has the path open; the lock comes next.     *)
OpenFile(o) ==
  /\ open[o].pc \in {"reading", "stray"} /\ kanta[open[o].of].fd = 0
  /\ \A p \in Openers : open[p].of = open[o].of => open[p].fd = 0
  /\ Opened(open[o].mode = "create")
  /\ open' = [open EXCEPT ![o].fd = path']
  /\ UNCHANGED <<kanta, closing, bounds, mishaps>>

(* It returns what it read, to whoever still awaits it.  One that is about *)
(* to remove the path is not alone with the file any more.                 *)
Reads(o, n) ==
  LET content == IF n \in DOMAIN files THEN files[n] ELSE <<>>
  IN open' = [p \in Openers |->
                IF p # o THEN [open[p] EXCEPT !.alone = FALSE]
                ELSE IF At(o, "stray") THEN NoCall
                ELSE [open[o] EXCEPT !.pc = "read", !.fd = 0, !.content = content]]

(* A file that this instance has open already is read again; not locked,   *)
(* when a cancelled open() has opened it to read only.                     *)
ReadAgain(o) ==
  /\ open[o].pc \in {"reading", "stray"} /\ kanta[open[o].of].fd # 0
  /\ Reads(o, kanta[open[o].of].fd)
  /\ Notes("unlocked", open[o].mode # "readonly" /\ ~kanta[open[o].of].writable)
  /\ UNCHANGED <<path, files, kanta, closing, bounds>>

TakeFile(o) ==
  /\ kanta' = [kanta EXCEPT ![open[o].of].fd = open[o].fd,
                            ![open[o].of].writable = (open[o].mode # "readonly")]
  /\ Reads(o, open[o].fd)
  /\ UNCHANGED <<path, files, closing, bounds, mishaps>>

(* Fault: the lock is not asked for. *)
ReadUnlocked(o) ==
  /\ open[o].fd # 0
  /\ TakeFile(o)

(* flock, unless it only reads. *)
LockAndRead(o) ==
  /\ open[o].fd # 0
  /\ open[o].mode # "readonly" => ~Locked(open[o].fd)
  /\ TakeFile(o)

(* FileLockError: there is no file, or it is locked. *)
OpenRefused(o) ==
  /\ \/ /\ open[o].pc \in {"reading", "stray"} /\ open[o].fd = 0 /\ kanta[open[o].of].fd = 0
        /\ path = 0 /\ open[o].mode # "create"
     \/ open[o].fd # 0 /\ open[o].mode # "readonly" /\ Locked(open[o].fd)
  /\ Ends(o)
  /\ UNCHANGED <<path, files, kanta, closing, bounds, mishaps>>

-----------------------------------------------------------------------------
(* open_and_read has returned.  Without create, a file must have been there *)
(* and hold something.                                                     *)
Demanded(o) == open[o].mode = "existing" /\ (~open[o].existed \/ open[o].content = <<>>)

RejectEmpty(o) ==
  /\ At(o, "read") /\ Demanded(o)
  /\ kanta' = [kanta EXCEPT ![open[o].of] = Released(@)]
  /\ Ends(o)
  /\ UNCHANGED <<path, files, closing, bounds, mishaps>>

RejectEmptyReadonly(o) ==
  /\ At(o, "read") /\ ~Demanded(o) /\ open[o].content = <<>> /\ kanta[open[o].of].readonly
  /\ kanta' = [kanta EXCEPT ![open[o].of] = [Released(@) EXCEPT !.opened = FALSE]]
  /\ Ends(o)
  /\ UNCHANGED <<path, files, closing, bounds, mishaps>>

(* opened is set; then comes the await of the bootstrap callback, or of    *)
(* the rotation.                                                           *)
Proceed(o) ==
  /\ At(o, "read") /\ ~Demanded(o)
  /\ open[o].content = <<>> => ~kanta[open[o].of].readonly
  /\ kanta' = [kanta EXCEPT ![open[o].of].opened = TRUE]
  /\ Step(o, IF open[o].content = <<>> THEN "bootstrapping" ELSE "loading")
  /\ UNCHANGED <<path, files, closing, bounds, mishaps>>

-----------------------------------------------------------------------------
(* The log is replayed.  What an instance queued in a former life, or that *)
(* a write failed in it, is not forgotten.                                 *)
ReplayedState(o) == Last(open[o].content).to
Leftover(o) == LET k == kanta[open[o].of] IN k.pending # <<>> \/ k.flush_failed

(* Rotation, replay or a migration raises: the instance stays as it is.    *)
LoadRaises(o) ==
  /\ At(o, "loading")
  /\ Ends(o)
  /\ Notes("abandoned", TRUE)
  /\ UNCHANGED <<path, files, kanta, closing, bounds>>

(* Faults: the file is not released; it is removed, as after a failed      *)
(* bootstrap.                                                              *)
LoadInvalidKeepsFile(o) ==
  /\ At(o, "loading")
  /\ kanta' = [kanta EXCEPT ![open[o].of] = [@ EXCEPT !.opened = FALSE, !.state = ReplayedState(o)]]
  /\ Ends(o)
  /\ UNCHANGED <<path, files, closing, bounds, mishaps>>
LoadInvalidUnlinks(o) ==
  /\ At(o, "loading")
  /\ kanta' = [kanta EXCEPT ![open[o].of] = [Released(@) EXCEPT !.opened = FALSE, !.state = ReplayedState(o)]]
  /\ open' = [open EXCEPT ![o].pc = "unlinking", ![o].alone = Alone(open[o].of)]
  /\ UNCHANGED <<path, files, closing, bounds, mishaps>>

(* A validate callback refuses the data. *)
LoadInvalid(o) ==
  /\ At(o, "loading")
  /\ kanta' = [kanta EXCEPT ![open[o].of] = [Released(@) EXCEPT !.opened = FALSE, !.state = ReplayedState(o)]]
  /\ Ends(o)
  /\ UNCHANGED <<path, files, closing, bounds, mishaps>>

(* Faults: the former state is kept; no loop is started. *)
LoadStale(o) ==
  /\ At(o, "loading")
  /\ kanta' = [kanta EXCEPT ![open[o].of] = WithLoop(@)]
  /\ Ends(o)
  /\ Notes("leftover", Leftover(o))
  /\ UNCHANGED <<path, files, closing, bounds>>
LoadWithoutLoop(o) ==
  /\ At(o, "loading")
  /\ kanta' = [kanta EXCEPT ![open[o].of].state = ReplayedState(o)]
  /\ Ends(o)
  /\ Notes("leftover", Leftover(o))
  /\ UNCHANGED <<path, files, closing, bounds>>

(* Nothing to record: the data is what the log says.  A read-only instance *)
(* records nothing in any case.                                            *)
Load(o) ==
  /\ At(o, "loading")
  /\ kanta' = [kanta EXCEPT ![open[o].of] = WithLoop([@ EXCEPT !.state = ReplayedState(o)])]
  /\ Ends(o)
  /\ Notes("leftover", Leftover(o))
  /\ UNCHANGED <<path, files, closing, bounds>>

(* Migrations ran, or the serialization drifted: a record is queued, and   *)
(* the flush is awaited.                                                   *)
LoadMigrated(o) ==
  /\ At(o, "loading") /\ ~kanta[open[o].of].readonly /\ last < MaxRecords
  /\ last' = last + 1
  /\ kanta' = [kanta EXCEPT ![open[o].of] = Queued([@ EXCEPT !.state = ReplayedState(o)], last')]
  /\ Step(o, "recording")
  /\ Notes("leftover", Leftover(o))
  /\ UNCHANGED <<path, files, closing, opens, failures>>

(* After the flush, which after a former failure writes nothing, comes the *)
(* forced snapshot.                                                        *)
RecordMigration(o) ==
  LET i == open[o].of  k == kanta[i]
  IN /\ At(o, "recording") /\ k.opened /\ ~k.readonly /\ k.fd # 0 /\ k.writable
     /\ files' = [files EXCEPT ![k.fd] = @ \o (IF k.flush_failed THEN <<>> ELSE k.pending)
                                           \o <<[from |-> k.state, to |-> k.state]>>]
     /\ kanta' = [kanta EXCEPT ![i] = WithLoop([@ EXCEPT !.pending = IF k.flush_failed THEN k.pending ELSE <<>>])]
     /\ Ends(o)
     /\ Notes("leftover", k.flush_failed)
     /\ UNCHANGED <<path, closing, bounds>>

(* The instance was closed under it, or the write is refused.              *)
RecordingRaises(o) ==
  LET i == open[o].of  k == kanta[i]
  IN /\ At(o, "recording")
     /\ \/ /\ ~k.opened \/ k.readonly
           /\ UNCHANGED <<kanta, failures>>
        \/ \E broken \in BOOLEAN :
             /\ Flushing(i) /\ Refused(i, broken)
             /\ kanta' = [kanta EXCEPT ![i].flush_failed = broken]
     /\ Ends(o)
     /\ Notes("abandoned", TRUE)
     /\ UNCHANGED <<path, files, closing, last, opens>>

-----------------------------------------------------------------------------
(* The bootstrap callback has filled the data. *)
Bootstrap(o) ==
  /\ At(o, "bootstrapping") /\ last < MaxRecords
  /\ last' = last + 1
  /\ kanta' = [kanta EXCEPT ![open[o].of] = WithLoop(Queued([@ EXCEPT !.state = 0], last'))]
  /\ Ends(o)
  /\ Notes("leftover", Leftover(o))
  /\ UNCHANGED <<path, files, closing, opens, failures>>

(* It raises, or validation does; or the formatting of the log message,    *)
(* after the record was queued.  The file is closed, then the path removed. *)
BootstrapFails(o) ==
  /\ At(o, "bootstrapping")
  /\ \/ /\ kanta' = [kanta EXCEPT ![open[o].of] = [Released(@) EXCEPT !.opened = FALSE]]
        /\ UNCHANGED <<last, mishaps>>
     \/ /\ last < MaxRecords /\ last' = last + 1
        /\ kanta' = [kanta EXCEPT ![open[o].of] =
                       Queued([Released(@) EXCEPT !.opened = FALSE, !.state = 0], last')]
        /\ Notes("leftover", TRUE)
  /\ open' = [open EXCEPT ![o].pc = "unlinking", ![o].alone = Alone(open[o].of)]
  /\ UNCHANGED <<path, files, closing, opens, failures>>

Unlink(o) ==
  /\ At(o, "unlinking")
  /\ path' = 0
  /\ Ends(o)
  /\ Notes("unlinked", path # 0 /\ path \in {kanta[i].fd : i \in Instances}
                                          \cup {open[p].fd : p \in Openers})
  /\ UNCHANGED <<files, kanta, closing, bounds>>

-----------------------------------------------------------------------------
(* The opened instance *)

(* A transaction, which asks whether the instance is read-only, and not    *)
(* whether it is open, or whether its open() returned, with a loop.        *)
Commit(i) ==
  /\ ~kanta[i].readonly /\ last < MaxRecords
  /\ last' = last + 1
  /\ kanta' = [kanta EXCEPT ![i] = Queued(@, last')]
  /\ Misuse("early", ~kanta[i].opened \/ Busy(i) \/ kanta[i].task = "none")
  /\ UNCHANGED <<path, files, open, closing, opens>>

(* flush(), by a background loop or by the application. *)
Flush(i) ==
  LET k == kanta[i]
  IN /\ Flushing(i) /\ k.fd # 0 /\ k.writable
     /\ files' = [files EXCEPT ![k.fd] = @ \o k.pending]
     /\ kanta' = [kanta EXCEPT ![i].pending = <<>>]
     /\ UNCHANGED <<path, open, closing, bounds, mishaps>>

(* A loop of the instance ends. *)
OneLoopEnds(k, how) ==
  {[k EXCEPT !.task = how] : t \in {k.task} \cap {"live"}}
    \cup {[k EXCEPT !.orphans = n - 1] : n \in {k.orphans} \ {0}}

(* Two flushes of the loop and the application overlap: each writes what   *)
(* was queued when it began and then dequeues as many.  The second one     *)
(* drops records, or finds the queue empty: it raises, and a loop dies.    *)
FlushesOverlap(i) ==
  LET k == kanta[i]  queued == Len(k.pending)
  IN /\ Flushing(i) /\ k.fd # 0 /\ k.writable /\ ~Busy(i)
     /\ \E m \in 1 .. queued, n \in 1 .. queued :
          /\ files' = Written(k, SubSeq(k.pending, 1, m) \o SubSeq(k.pending, 1, n))
          /\ \E l \in {k} \cup (IF m + n > queued THEN OneLoopEnds(k, "error") ELSE {}) :
               kanta' = [kanta EXCEPT ![i] = [l EXCEPT !.pending = SubSeq(@, m + n + 1, queued)]]
     /\ Misuse("flushes", TRUE)
     /\ UNCHANGED <<path, open, closing, last, opens>>

(* A flush whose file was closed opens it again, and creates it if need be. *)
Reopen(i) ==
  /\ Flushing(i) /\ kanta[i].fd = 0 /\ ~Locked(path)
  /\ \A o \in Openers : open[o].of = i => open[o].fd = 0
  /\ Opened(TRUE)
  /\ kanta' = [kanta EXCEPT ![i].fd = path', ![i].writable = TRUE]
  /\ UNCHANGED <<open, closing, bounds, mishaps>>

(* A loop that is refused a write ends, *)
FlushFails(i) ==
  /\ Flushing(i)
  /\ \E broken \in BOOLEAN, k \in OneLoopEnds(kanta[i], "done") \cup {kanta[i]} :
       /\ Refused(i, broken)
       /\ kanta' = [kanta EXCEPT ![i] = [k EXCEPT !.flush_failed = broken]]
  /\ UNCHANGED <<path, files, open, closing, last, opens, mishaps>>

(* and one that finds its instance closed or read-only, with an error.     *)
LoopDies(i) ==
  /\ ~kanta[i].opened \/ kanta[i].readonly
  /\ \E k \in OneLoopEnds(kanta[i], "error") : kanta' = [kanta EXCEPT ![i] = k]
  /\ UNCHANGED <<path, files, open, closing, bounds, mishaps>>

-----------------------------------------------------------------------------
(* close() *)

CloseBegin(i) ==
  /\ kanta[i].opened /\ i \notin closing
  /\ closing' = closing \cup {i}
  /\ Misuse("overlap", Busy(i))
  /\ UNCHANGED <<path, files, kanta, open, last, opens>>

(* What a flush of the loop had listed when close() cancelled it.          *)
Batches(k) ==
  {SubSeq(k.pending, 1, n) : n \in IF k.task = "live" THEN 0 .. Len(k.pending) ELSE {0}}

(* The cancelled task and the final flush write what is queued; part of it *)
(* twice when they write it beside the thread of a flush under way, which  *)
(* had written already, or does so after them.                             *)
CloseEnd(i) ==
  LET k == kanta[i]
  IN /\ i \in closing /\ k.task # "error" /\ (k.readonly \/ k.opened)
     /\ Flushing(i) => k.fd # 0 /\ k.writable
     /\ IF Flushing(i)
        THEN \E batch \in Batches(k) :
               files' \in {Written(k, batch \o k.pending), Written(k, k.pending \o batch)}
        ELSE UNCHANGED files
     /\ kanta' = [kanta EXCEPT ![i] = [Released(@) EXCEPT !.opened = FALSE, !.task = "none",
                                         !.pending = IF Flushing(i) THEN <<>> ELSE k.pending]]
     /\ closing' = closing \ {i}
     /\ UNCHANGED <<path, open, bounds, mishaps>>

(* The task ended with an error, a write is refused, or the instance was   *)
(* closed meanwhile.                                                       *)
CloseRaises(i) ==
  LET k == kanta[i]
  IN /\ i \in closing
     /\ \/ /\ k.task = "error" \/ ~(k.readonly \/ k.opened)
           /\ kanta' = [kanta EXCEPT ![i].task = IF k.task = "live" THEN "error" ELSE @]
           /\ UNCHANGED <<files, failures>>
        \/ \E broken \in BOOLEAN, batch \in Batches(k) :
             /\ k.task # "error" /\ Flushing(i) /\ Refused(i, broken)
             /\ files' = Written(k, batch)
             /\ kanta' = [kanta EXCEPT ![i].flush_failed = broken,
                                       ![i].task = IF @ = "live" THEN "error" ELSE "none"]
     /\ closing' = closing \ {i}
     /\ UNCHANGED <<path, open, last, opens, mishaps>>

-----------------------------------------------------------------------------
(* The application gives up on an open(): CancelledError is no Exception,  *)
(* so nothing is undone.  A thread that opens and reads, writes or unlinks *)
(* goes on; what it writes stays queued.                                   *)
Cancel(o) ==
  LET k == kanta[open[o].of]
  IN /\ \/ At(o, "reading") /\ Step(o, "stray") /\ UNCHANGED files
        \/ At(o, "unlinking") /\ UNCHANGED <<open, files>>
        \/ open[o].pc \in {"read", "loading", "recording", "bootstrapping"} /\ Ends(o) /\ UNCHANGED files
        \/ At(o, "recording") /\ Flushing(open[o].of) /\ Ends(o) /\ files' = Written(k, k.pending)
     /\ Fails
     /\ Notes("cancelled", TRUE)
     /\ UNCHANGED <<path, kanta, closing, last, opens>>

(* The process of an instance dies, and starts anew.                       *)
Crash(i) ==
  /\ kanta[i] # Fresh /\ Fails
  /\ kanta' = [kanta EXCEPT ![i] = Fresh]
  /\ open' = [o \in Openers |-> IF open[o].of = i THEN NoCall ELSE open[o]]
  /\ closing' = closing \ {i}
  /\ UNCHANGED <<path, files, last, opens, mishaps>>

Next ==
  \/ \E o \in Openers :
       \/ \E i \in Instances, mode \in Modes : Call(o, i, mode)
       \/ OpenFile(o) \/ ReadAgain(o) \/ LockAndRead(o) \/ OpenRefused(o)
       \/ RejectEmpty(o) \/ RejectEmptyReadonly(o) \/ Proceed(o)
       \/ LoadRaises(o) \/ LoadInvalid(o) \/ Load(o) \/ LoadMigrated(o)
       \/ RecordMigration(o) \/ RecordingRaises(o)
       \/ Bootstrap(o) \/ BootstrapFails(o) \/ Unlink(o) \/ Cancel(o)
  \/ \E i \in Instances :
       \/ Commit(i) \/ Flush(i) \/ FlushesOverlap(i) \/ Reopen(i) \/ FlushFails(i) \/ LoopDies(i)
       \/ CloseBegin(i) \/ CloseEnd(i) \/ CloseRaises(i) \/ Crash(i)

Spec == Init /\ [][Next]_vars

-----------------------------------------------------------------------------
(* Whoever has the path open for writing is the only one, in whatever way  *)
(* opens fail, overlap or are cancelled; until a failed bootstrap removes  *)
(* a path that another instance has opened since.                          *)
OneWriter ==
  "unlinked" \notin mishaps =>
    Cardinality({i \in Instances : kanta[i].fd # 0 /\ kanta[i].writable}) <= 1

(* Opens and closes of one instance follow each other, and so do flushes;  *)
(* transactions run after an open() that returned and before close(); no   *)
(* instance brings a record, a failure or an unlocked file of a former     *)
(* life.                                                                   *)
Regular == mishaps \cap {"overlap", "flushes", "early", "leftover", "unlocked"} = {}

(* Each record of a log continues where the one before it ended, whoever   *)
(* wrote them and however often the database was opened, or it repeats one *)
(* that a cancelled flush had written; as long as the instances are used   *)
(* regularly.                                                              *)
Chained(log) ==
  \A n \in DOMAIN log :
    \/ log[n].from = IF n = 1 THEN 0 ELSE log[n - 1].to
    \/ \E m \in 1 .. n - 1 : log[m] = log[n]
ChainedLog == Regular => \A n \in DOMAIN files : Chained(files[n])

(* An instance that is not open holds no file, runs no loop and owes no    *)
(* record, but for those that a refused write stopped, that a transaction  *)
(* outside open() and close() queued, or that a failed bootstrap left.     *)
(* Cancelled opens, and opens and closes of one instance that overlap, are *)
(* excepted.                                                               *)
ClosedIsQuiet ==
  \A i \in Instances : LET k == kanta[i] IN
    ~k.opened /\ ~Busy(i) /\ mishaps \cap {"overlap", "cancelled"} = {} =>
      /\ k.fd = 0 /\ k.task # "live" /\ k.orphans = 0
      /\ k.pending = <<>> \/ k.flush_failed \/ mishaps \cap {"early", "leftover"} # {}

(* An opened writer has its file locked and one loop that writes to it,    *)
(* unless a write was refused or flushes overlapped.  Opens that raised or *)
(* were cancelled, and opens and closes of one instance that overlap, are  *)
(* excepted.                                                               *)
OpenedIsServed ==
  \A i \in Instances : LET k == kanta[i] IN
    k.opened /\ ~k.readonly /\ ~Busy(i) /\ mishaps \cap {"overlap", "cancelled", "abandoned"} = {} =>
      /\ k.fd # 0 /\ k.writable /\ k.orphans = 0
      /\ k.task = "live" \/ k.flush_failed \/ "flushes" \in mishaps

(* A failed open() removes the path only when it leads to no record, as    *)
(* long as the instances are used regularly; unless another instance has   *)
(* opened it since it was closed.                                          *)
DeletesNoRecords ==
  [][\A o \in Openers :
       At(o, "unlinking") /\ open[o].alone /\ path # 0 /\ path' = 0 /\ Regular => files[path] = <<>>]_vars
=============================================================================
