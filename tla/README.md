# Kanta in TLA+

Kanta keeps an application's state object in memory and writes every change of
it to an append-only log file. This directory holds TLA+ modules that model the
code in `src/kanta`, TLC configurations that check them on small instances, and
proofs that TLAPS checks for every instance.

## The system

| part | state | operations | talks to |
|---|---|---|---|
| transactions (`transaction.py`) | `in_transaction`, `transaction_snapshot`, the live `data`, `statedict` | `transaction()` as a context manager | diffs and validates, then `queue_change` |
| change queue, flush, background loop (`persistence.py`) | `pending_changes`, `flush_failed`, `background_task`, `version`, `mtime` | `queue_change`, `flush`, `_background_loop`, `maybe_snapshot` | thread calls into the locked file; the snapshot state |
| snapshots (`snapshot.py`) | `changes`, `_force_pending`, `ts` | `request_force`, `record_changes`, `maybe_write` | writes to the locked file from the event loop |
| lifecycle (`kantaimpl.py`, `kanta.py`) | `opened`, `readonly`, `retention`, `migrations` | `open`, `close`, `_maybe_rotate`, bootstrap | all of the others |
| locked file (`filelock.py`) | descriptor, exclusive lock, file position | `open`, `read`, `write`, `size`, `replace_content`, `close` | other processes, through the lock |
| framing (`serialization/framing.py`) | none | frame and iterate records, line or binary | replay, rotation, flush |
| diff, patch, replay (`diff.py`, `serialization/base.py`) | none | `diff`, `apply_diff`, `replay` | transactions, open |
| rotation (`rotation.py`) | history file beside the log | `plan_rotation`, `execute_rotation` | replay, locked file |
| migrations (`migrations.py`) | the registered functions | `apply` | open |
| ranges and events (`replaylog.py`) | none | `scan_events`, `select` | the command line |
| callbacks, log output (`callbacks.py`, `logging.py`) | registered functions | `register`, `invoke`, `emit_event` | called by transactions and open |
| command line (`__main__.py`, `grep.py`, `tty.py`) | none | read-only listing | ranges and events |

All Kanta code of one process runs in one asyncio event loop, with three
exceptions that make it hard: `flush()` calls `file.size` and `file.write` in a
thread pool, open and rotation do the same with their file work, and a
cancelled task leaves such a call running. Between two awaits a task is not
interrupted. Around every await another transaction may commit, another
`flush()` may begin, the background task may be cancelled, the write may be
refused, or the process may die.

What each part has to guarantee:

* *transactions*: memory equals the recorded state between transactions, one
  transaction at a time, no record of a refused or aborted one, and the records
  in a row rebuild the state;
* *queue and flush*: a committed change stays queued until the log holds it;
  records reach the log once and in order;
* *snapshots*: each equals a committed state, and is reached by replay;
* *lifecycle*: `close()` writes what was committed and releases the file; an
  `open()` that fails leaves nothing locked;
* *locked file*: an append never overwrites a record; one writer at a time;
* *framing*: what was framed is read back; a torn tail costs the tail only;
* *diff, patch*: patching the old state with the diff gives the new one;
* *rotation*: history and new log together hold every record, after a crash too;
* *migrations*: each version is applied once, in order, or the open fails.

`PROJECT.json` lists the hazards of this code at their lines.

## Modules

| module | what it is | extends |
|---|---|---|
| DurableStore | abstract store, refined by Persistence | |
| Persistence | queue, flush, background loop, snapshots, `close()` of one opened instance | |
| Transaction | the context manager and its tasks | |
| Opening | `open()`, `close()` and reopening of several instances on one path | |
| Rotation | the rotation plan, its execution, and the log over several opens | |
| Framing, LogFile | records as bytes; the descriptor that threads share | LogFile extends Framing |
| DiffPatch, Grep, Highlight | diff and patch; list of changes and matching; marking | Grep extends DiffPatch |
| Migrations, LogRange, CommandLine | registry and loop; range resolution; what `python -m kanta` shows, writes and returns | CommandLine extends the other two |
| Callbacks | signatures accepted at registration against the calls made later | |
| Algorithms | what Migrations, LogRange, CommandLine and Callbacks promise of one input | CommandLine, Callbacks |
| Order | Python's `sorted()` of a set of numbers | |

The state machines meet at their abstractions. Persistence takes a file call as
one step and LogFile takes it apart. Opening takes a flush, two that overlap, and
`close()` with the flush that it cancels as one step each, with every outcome that they
may leave in the file, and Persistence takes them apart. Opening lets the
rotation succeed or raise and Rotation says what happens in it; Transaction
ends in `queue_change`, where Persistence's `Commit` begins.

**DurableStore** is the abstract specification: one history of committed
changes, a prefix of which is saved; a crash costs what is behind the prefix.

**Persistence** models one opened writable instance. Its tasks are the
background loop (`bg`), a caller of `close()` (`closer`), and any number of
application tasks that call `flush()` (`Flushers`). `pc[t]` says at which await
task `t` is:

| action | code | stretch |
|---|---|---|
| `Commit` | `queue_change` | the whole call, which does not await |
| `RequestSnapshot` | `request_snapshot` | the whole call |
| `BeginFlush` (in `FlushStart`, `BgFlush`, `BgCancelled`, `CloseFlush`) | `flush`, lines 241-268 | up to the await of `file.size` |
| `ReadSize` | `file.size`, then framing | up to the await of `file.write` |
| `Write`, `WriteFails`, `FileClosed` | `file.write` in its thread | the call: done, refused, or on a closed file |
| `FlushDone`, `BgDone`, `BgShort`, `CloseDone` | `flush`, lines 283-285 and its caller | to the caller's next await; for the loop `maybe_snapshot` included |
| `Fail` | `except OSError` | to the end of the failing task's call |
| `BgStart`, `BgTick` | `_background_loop` | start of the task; a tick with nothing to flush |
| `BgCancelled` | `except CancelledError` | where the task was waiting; a write under way may become the `orphan` |
| `OrphanWrite` | the thread of a cancelled write | the write |
| `CloseBegin` ... `CloseDone` | `close` | between its awaits |
| `CrashRestart` | death of the process, then `open` | replay of what is on disk |

A change sets one key to the change's own number, so that a state says which
change it shows under each key, and a lost, repeated or misplaced record shows
in the state. Offsets count records, each of them one unit long; a
record keeps the offset it was framed for (`at`), since the binary framer's
checksum covers it. The rule that an unrequested snapshot is written on a Sunday
that has none becomes a free choice once `MinDiffs` changes are counted. A snapshot
write may be refused on every turn of the loop: it is only logged (`snapshot.py:68`) and the
request stands. The ghost `refused` flips with it, so that such a turn is a step and
not a stutter, which fairness would rule out for ever. The ghosts
`history` and `asked` serve the properties as well. `flush_sync`, which
nothing calls, is left out, and so is a clock callback that raises during
`maybe_snapshot`. Torn records, short writes, and the interleaving of `lseek`
with writes of another thread are LogFile's.

**Transaction** models the context manager and the tasks that use it: the
checks on entry, mutations of the live object in the body and elsewhere, and
every exit: nothing changed, committed, refused by a validate callback or the
clock, failed after the record was queued, an exception of the body, a
`BaseException` of the body. An exit is one step, as the manager does not await.
The state is a function from a few keys to a few values, and a diff the part of
it that changed; DiffPatch says what a diff of nested data does. The ghost
`disturbed` says that memory holds what no transaction may account for: data changed
outside any transaction, what an interrupted body or an abort whose own event could
not be built had left, or a difference that a bootstrap in an empty database takes over
(`transaction.py:66`). The ghost `late` says that a transaction was rolled back whose
record had been queued. The identity of parts of the object is not modelled. `AttributeError` in `Outcomes` is what the code raises where it
means `DataIntegrityError`: line 78 reads `impl.db_path`, which nothing sets.

**Opening** cuts `open()` at its awaits, one action per outcome of a stretch:

| `open[o].pc` | code | leaves by |
|---|---|---|
| `reading` | `kantaimpl.py:165`, `open_and_read` in its thread | `OpenFile` (the path is open, not locked), then `LockAndRead`; `ReadAgain`, `OpenRefused` |
| `read` | 172-189 | `RejectEmpty`, `RejectEmptyReadonly`, `Proceed` |
| `loading` | 188-307, 318: rotation awaited, then replay, migrations and validation in one stretch | `LoadRaises`, `LoadInvalid`, `Load`, `LoadMigrated` |
| `recording` | 308-317, the flush awaited | `RecordMigration`, `RecordingRaises` |
| `bootstrapping` | 326-391, the callback awaited | `Bootstrap`, `BootstrapFails` |
| `unlinking` | 392-396 | `Unlink` |
| `stray` | the thread of a cancelled `open_and_read` | the actions of `reading` |

`Commit`, `Flush`, `FlushesOverlap`, `FlushFails`, `Reopen` (a flush whose file was closed
under it opens the path again) and `LoopDies` are the opened instance. Of two flushes that
overlap, each writes what was queued when it began and dequeues as many; the
second may find the queue empty, and the loop dies of an `IndexError`
(`persistence.py:285`). `CloseBegin`, `CloseEnd` and `CloseRaises` are `close()`. When it
cancels a flush under way, the batch of that flush is written by its thread, before or after
the handler writes all that is queued (`persistence.py:108`): `CloseEnd` writes both.
`Cancel` may come at any await of `open()`, that of the flush of a migration record
included, whose thread may write the records that stay queued; `Crash` may come
anywhere. An instance stands for an object in its own process or for one of several
in the same. Left out are a flush that overlaps an `open()` or a `close()` from
outside, a write that ends after `close()`, and two threads of one instance that
open its file at the same time. The ghost `mishaps` names what happened that a property
excepts: `overlap` (calls of `open()` and `close()` of one instance at once), `flushes`
(the application's flush and the loop's at once), `early` (a
transaction before `open()` returned, after `close()`, or without a loop),
`leftover` (an instance opened with records or a failure of a former life),
`unlocked` (a descriptor without a lock used for writing), `cancelled`,
`abandoned` (an open that raised and left the instance opened), and `unlinked`
(a path removed that another instance has open).

**Rotation** has a clock, the log, the rotated files by name, and one process.
`Plan` is `plan_rotation`; `Copy`, `Truncate`, `WriteMore` and `Trim` are
`execute_rotation` and `replace_content`, and `Interrupted` may end it before each.
A change sets one key to its own number; a record is one unit long and keeps the
offset it was framed for, its version, time stamp and modification time.
`SnapshotAhead` is the snapshot that `maybe_snapshot` writes behind a flush during which a change
was committed: it holds that change, whose record comes next. `plan_rotation`
then finds that the replayed state and the snapshot differ and raises (`Refused`), as it would of
a corrupt log (`rotation.py:149-154`, `docs/rotation.md:41`). A crash between such a
snapshot and the record, and more than one change in between, are left out.

**Framing** is what both framers write, and how replay reads it, over *cells*: the
smallest units that a torn write can part. A payload is two cells, so that it can
be torn; a checksum is the tuple of what it covers. **LogFile** puts system calls
around it: `SizeCurrent`, `SizeEnd`, `SizeRestore` are the three `lseek`s of
`size()`, `WriteSeek` and `Write` (or `WriteShort`) those of `write()`; `Crash` may
leave a part of a record, and `Open` reads the file again.

Values of **DiffPatch** are nested dicts, lists, strings, integers, null and booleans;
`Equal` is Python's `==`, to which `True` is 1. **Grep** says which places of a change the
log prints (`RenderChange`: path elements, values with their text, deletion markers), which of
them the highlighter marks, and which transactions a pattern finds; wording, truncation
and layout are left out. **Callbacks** has registration, calls, formatter chains, and
`EmitEvent`, whose rendering may fail.

**DiffPatch**, **Grep**, **Highlight**, **Migrations**, **LogRange**, **CommandLine** and
**Callbacks** have no variables: they are the functions of the code as operators,
and beside them reference definitions that say what these should compute
without the way they do it (Python's slices for ranges, the pairs of changed
paths for the list of changes, positions for the spans, a call for a signature).
**Algorithms** says what the last four of them promise of an input, the variable `in`;
**MCAlgorithms** adds the others and enumerates inputs for all, one step each. DiffPatch
and Grep are recursive and no theorem is about them.

**MCPersistence**, **MCTransaction**, **MCOpening**, **MCRotation** and **MCLogFile** give the
constants values for TLC. The theorems are in modules of their own:

| module | proves about | extends |
|---|---|---|
| PersistenceProofs | types; nothing committed is lost; what `close()` leaves; flushes that overlap | Persistence |
| BackgroundProofs | the instance while the loop alone writes: places, order, recovery, refinement | PersistenceProofs |
| TransactionProofs | exclusion, rollback, and what the queue says | Transaction |
| OpeningProofs | locks, the life of an instance, the log over several lives | Opening |
| RotationProofs | history, replay and plan over rotations and interruptions | Rotation |
| LogFileProofs | appends of several threads, and what is read after them | LogFile |
| AlgorithmProofs | releases and migrations, callbacks and chains, ranges of logs and the command line, for any number and length | Algorithms |
| ListLemmas | what `FoldLeft` and `InOrder` compute; instantiated by TransactionProofs, RotationProofs, LogFileProofs and AlgorithmProofs | Order |

Definitions that differ from a neighbour and are marked *Fault* are wrong on
purpose: they are what a plausible mistake would make of the definition, and
each property is shown to fail when the fault takes the definition's place. No
specification uses them.

## Runs

| run | question | properties |
|---|---|---|
| Background | the background loop alone, with snapshots, refused writes and a crash | TypeOK, NoLostChange, Recoverable, OrderedLog, FramesInPlace |
| DurableCrash | does the loop implement the abstract store? two crashes, partial writes | ImplementsDurableStore |
| Closing | `close()` at any moment, with snapshots and refused writes | CloseSaves, SnapshotsExact, EventuallySaved, SnapshotServed, CloseEnds |
| Overlap | an application flush beside the loop and `close()` | LossMeansDuplicate |
| Transactions | two tasks, and everything that may go wrong around them | Settled, OneAtATime, QueueReplays, OnlyValidQueued, OwnWrites, LateRecordIsLast |
| Appends | two threads, both formats, short writes and a crash | ReadsBack, BinaryDetects, PointsAtTear, AppendOnly |
| Opening | two instances, two opening tasks, one path; cancellations, overlaps, cancelled batches | OneWriter, ChainedLog, ClosedIsQuiet, OpenedIsServed, DeletesNoRecords |
| Rotating | rotation at every open, interrupted once, snapshots ahead of the log | HistoryKept, Anchored, RewriteFaithful, RotatesOnce, SplitInTwo |
| Algorithms | every algorithm against its reference | DiffRestores, LogTellsAll, HitsAreSeen, GrepFindsAdditions, MigratesOnceInOrder, RangesSelect, CommandTells, CallbacksServe |
| OverlapLoses | overlapping flushes | NoLostChange fails |
| TxLogfmt | a logfmt class that raises after the record is queued | AbortQueuesNothing fails |
| RotationLoses | a clock set back between two changes | HistoryKept fails |

What the failing runs show:

* *OverlapLoses.* `bg` and an application flush both list change 1 and write it.
  Change 2 is committed; the first flush to return dequeues 1, the second
  dequeues 2, which nobody wrote.
* *TxLogfmt.* The logfmt chain is built after `queue_change`; if a `LogFmt`
  class raises in its constructor, memory is rolled back and the record stays.
  `LateRecordIsLast` says what follows: every later transaction is refused.
* *RotationLoses.* Change 2 has an older time stamp than change 1 before it. The
  cutoff falls between the two: 2 is dropped, 1 is retained, and the rotated file
  is cut where 1 begins (`rotation.py:113`), so that 2 is in neither file.
  `docs/rotation.md:41` describes the cut as just after the last dropped record.

What the passing runs except, and why. Each exception is a case in which the
code does not do what the property says:

* *Closing*: `EventuallySaved` and `SnapshotServed` end with the first refused
  flush, after which the loop stops for good. A refused snapshot write stops nothing and
  may be refused for ever, so `SnapshotServed` says that a request is never forgotten:
  the loop writes it, or comes to be refused once more. `CloseEnds` lets `close()` raise: a
  write refused in the cancellation handler escapes, the file stays locked, and
  every further `close()` raises the same error, although `docs/database.md:107`
  says that it releases the file.
* *Closing*, *Background*: no property says that a snapshot equals the replay of
  the records before it. A change committed during a flush is in the snapshot
  written after that flush (`persistence.py:106`) and its record follows later. Nor does one say that the order of records
  survives `close()`: the thread of a write that was cancelled may append old
  records behind newer ones (`persistence.py:108`).
* *Transactions*: `Settled`, `OwnWrites` and `LateRecordIsLast` stop with `disturbed`: where
  data was changed outside of a transaction, where a `BaseException` left a body without a
  rollback, where the aborted event could not be built, and where a bootstrap took a difference over.
  A transaction that fails behind its record and is rolled back is not excepted: `Settled`
  says that memory is then one record behind.
* *Appends*: `ReadsBack` of a binary log needs appends that take turns, since a
  record that lands elsewhere than it was framed for is unreadable; `AppendOnly`
  needs that no write returns inside another thread's `size()` (the position it
  restores is then in the middle of the file). `BinaryDetects` says that what is
  unreadable is noticed. A short write, a torn line that open() took for whole
  and the empty log with a seed only are the cases that escape.
* *Opening*: `OneWriter` fails after `unlinked`: the file of a failed bootstrap is
  released before its path is removed (`kantaimpl.py:391-393`), and an instance
  that opened it in between goes on with a file no path leads to, while another
  one creates the path anew. `DeletesNoRecords` excepts a path that another
  instance has opened since, and `ChainedLog` a record that repeats an earlier one: a `close()` that
  cancels a flush writes its batch twice, in documented use too. Both speak of regular use:
  no calls of `open()` and `close()` of one instance overlap, no flushes do, no
  transaction runs outside of `open()` and `close()`, and no instance brings records, a
  failure or a descriptor without a lock of a former life. `ClosedIsQuiet` and `OpenedIsServed`
  except cancelled opens and overlaps of `open()` and `close()`; the former lets a closed instance owe what
  a refused write stopped, what was queued outside of `open()` and `close()`, or what a
  bootstrap left that failed behind its record; the latter excepts opens that raised half-way and
  lets the loop be dead after a refused write or overlapping flushes.
* *Rotating*: the clock never steps back. `RotatesOnce` excepts a log in which a snapshot was
  ahead of its record: `plan_rotation` does refuse it, and `open()` with it, until
  that snapshot becomes the base or is dropped. `RewriteFaithful` and `SplitInTwo` leave
  out a snapshot dated exactly at the cutoff behind a change of the same time.
* *Algorithms*: `DiffRestores` states exactly which states a record can carry
  (`Carried`): a key spelled like an escaped command, a value with a leading `$$`,
  an empty dict in place of a scalar, a dict that looks like a list edit in
  place of a list, and a value over one that Python calls equal (`True` over 1: `diff.py:47`
  sees no change and the log keeps 1) are not among them. `HitsAreSeen` excepts what the highlighter
  lights and the log does not print: list items (no index is printed), the values of a
  dict that is `True` throughout, what a formatter replaces as part of a whole, and marks of
  whole containers (`{}` and `[]` are never marked). `GrepFindsAdditions` excepts matches by the text of a
  container, by a glob or as a formatter renders it: the record holds the changed part only. `RangesSelect` says nothing of `va..vb`,
  which adds one line and not the whole version (`replaylog.py:303`), nor of a
  version the log lacks. `CommandTells` leaves out a range together with a type: the
  state written is then that of the whole file (`__main__.py:646`).
  `CallbacksServe` says which callbacks registration accepts that cannot be called: those
  with an injected parameter that is positional-only, a formatter whose value is
  keyword-only, and a class whose `resolve` has a keyword-only value or path or requires
  more than the two. An event is lost when its rendering fails (`logging.py:170`), and a
  handler that raises ends the chain for those behind it.

Other disagreements met on the way: a change committed during the final flush
of `close()` stays in the queue of a closed instance; after a write refused to an
application flush the loop goes on idly and no `fatal_error` callback runs; a
rollback replaces the containers inside the object; a rotation that meets a
mismatch raises `TypeError`, because `DatabaseError` takes no `action`
(`rotation.py:150-154`); `kanta.py:337` promises shell-style wildcards where
`callbacks.py:312` compares paths; `diff.py:9` says that values are stored
verbatim, and on reading a leading `$$` loses a `$`.

### Bounds

Bounds sit in the guards of the actions they name.

* *Persistence*: `MaxTx` committed changes (3 or 4), `MaxSnapshots`, `MaxCrashes`. Two keys are
  enough to tell a record that overwrites another from one that does not. Three
  changes fill a batch of two and leave one committed after the batch was
  listed; four let a second batch begin. `MinDiffs = 2` makes an unrequested
  snapshot due within the bound, `9` never. One application flusher beside the
  loop and `close()` gives three overlapping flushes.
* *Transaction*: two tasks, two queued changes, and two keys with three values let a
  body set both keys, set one back, and pass through a refused state.
* *LogFile*: two threads, three records, one crash; a third record shows what the
  damage done by two does to the next. Threads are symmetric.
* *Opening*: two instances and two tasks, three calls of `open()`, two records, and
  two failures, which crashes, refused writes, cancellations, overlaps and other misuses share.
  Two openers make an overlap, the third call finds what they left; the second record
  continues the first, or repeats it.
* *Rotation*: three changes, time 0 to 3, a window of 1, two ticks to a second: a
  change is retained, a second rotation follows the first, and both fall into one
  second. One interruption, and one snapshot that is appended, ahead of the log or not.
* *MCAlgorithms*: the sets named in it. Logs have up to three events and a
  gap in the line numbers, bounds go from -2 to 4; values nest two deep, with `True`
  beside 1; formatters format strings, numbers and containers; signatures have up to two parameters.

Keys, threads, tasks and instances are symmetric in the runs that check no
liveness; *Closing*, which does, uses no symmetry. Deadlock is not checked: a
model whose application has used up its bounded transactions, or has closed the
instance, really stops.

### Fairness

`FairSpec` of Persistence has weak fairness for the background task, for the
close task, for each application flush and for the abandoned thread. The event
loop resumes a ready task in turn, `asyncio.sleep` ends, and the thread pool runs
each job it has accepted. Nothing is assumed of the application, nor that a write succeeds:
a flush or a snapshot that may be refused may be refused every time. The other specifications state no liveness and no fairness.

## Proofs

A theorem holds for every value of the constants that its module's assumption
allows (bounds are natural numbers, switches Booleans, `Nobody` is no instance or
task), under the hypotheses it names. Each rests on an inductive invariant,
checked with TLC before it was proved.

### Persistence

| theorem | states | hypotheses |
|---|---|---|
| `TypeCorrect` | `[]TypeOK` | |
| `LossNeedsOverlap` | `[]NoLostChange` | `[]OneFlush` |
| `NothingLost` | `[]NoLostChange` | `Flushers = {}` |
| `CloseSavesUnlessOverlap` | `[]CloseSaves` | `[]OneFlush` |
| `CloseSavesAlways` | `[]CloseSaves` | `Flushers = {}` |
| `FramesStayInPlace` | `[]FramesInPlace` | `Flushers = {}`, `AllowClose = FALSE` |
| `LogStaysOrdered` | `[]OrderedLog` | the same |
| `AlwaysRecoverable` | `[]Recoverable` | the same |
| `Implements` | `ImplementsDurableStore` | the same, and `[]Unsnapped` |
| `SnapshotsStayExact` | `[](crashes = 0 => SnapshotsExact)` | |
| `LossNeedsDuplicates` | `[](crashes = 0 => LossMeansDuplicate)` | |

* *Loss.* `NoLostChange` is not inductive: dequeuing goes by count, so one must
  know that the batch being dequeued is still at the front of the queue and is in
  the file. `DurableInv` says so: identities in `history` are positions; `pending`
  is a run of consecutive changes that ends with the newest; a batch under way is a
  leading part of `pending`; once written it is covered by the file; the loop and
  `close()` never flush at once. Commits extend both ends together, a write makes
  the file longer, and only the one flushing task dequeues. The one step that needs
  more is the dequeuing: another task that flushes then would keep a batch which is no
  longer the head of the queue. `OneFlush` says that no two tasks are between
  listing the queue and dequeuing, and *OverlapLoses* shows that it is needed; a
  program that flushes one call at a time satisfies it, and where the application never
  flushes it follows from `DurableInv` (`AloneOneFlush`). `CloseInv` adds what
  `close()` knows at each of its awaits.
* *The loop alone.* `AloneInv` (nothing was cancelled, no thread is abandoned)
  justifies three more. `PlacedInv`: between `ReadSize` and the write, the
  offset that the batch was framed for is the end of the file. `OrderInv`: the file
  is ordered and holds nothing later than what is being written. `RecoverInv`: under each
  key, `statedict` shows the last queued change of it, or else what replaying the
  file gives. All three are false once `close()` cancels a write whose thread goes
  on, so `AllowClose = FALSE` is needed.
* *Refinement.* `PlainInv`: while no snapshot is written, the file is a prefix of
  the history, which makes every step a step of **DurableStore** or a stutter: a
  write a `Save`, a crash in the middle of a write a `Save` of a part and the loss of the rest.
  With snapshots it is no refinement of this store: a snapshot may hold a change
  that was committed during the flush before it and whose record is not yet written.
* *Overlaps.* `SnapshotsStayExact` and `LossNeedsDuplicates` allow any number of
  application flushes, cancellations and calls of `close()`. `ExactInv`:
  `statedict` is the state after the history, and each snapshot in the file the
  state after the change that it is numbered with. `LossInv` counts: for every change
  that left the queue there is a record in the file that no other one claims, so where
  one is missing another is twice. Both end with the first crash, since `open()` may then
  replay records that lie in the wrong order or are missing; *Closing* and *Overlap*,
  which check the two properties, have no crash either.

### Transaction

| theorem | states |
|---|---|
| `Exclusive` | `[]OneAtATime` |
| `AlwaysSettled` | `[]Settled` |
| `NothingAfterALateRecord` | `LateRecordIsLast` |
| `QueueAlwaysReplays` | `[]QueueReplays` |
| `RecordsAreValid` | `[]OnlyValidQueued` |
| `RecordsOwnWrites` | `OwnWrites` |

`OneInv` is exclusion with the type of `pc`: a body is entered with the flag down
only, and each exit passes through the `finally` clause. `SettledInv`: inside a
transaction the snapshot equals `statedict` unless `disturbed`, so that a rollback
restores the right state. A rollback behind a queued record leaves the state that replaying the
queue without its last record gives (`LateRollback`), which differs from `statedict`, so that
no transaction can begin: this is `NothingAfterALateRecord`.
`ReplayInv`: patching the start with the queue gives `statedict`, and each
state on the way is valid; a commit appends the diff against just that state.
`WroteInv`: what differs from the snapshot is what the body set.

Replay is a fold, and the library's induction theorems take an operator as a
parameter, which no prover here can instantiate. **ListLemmas** instead
derives what `FoldLeft` gives for the empty sequence and after one more element from the
least-number principle, once for any operator and base; the proof modules instantiate it.

### Opening

| theorem | states |
|---|---|
| `OneWriterAlways` | `[]OneWriter` |
| `ClosedAlwaysQuiet` | `[]ClosedIsQuiet` |
| `OpenedAlwaysServed` | `[]OpenedIsServed` |
| `AlwaysChained` | `[]ChainedLog` |
| `NeverDeletesRecords` | `DeletesNoRecords` |

They hold for any number of instances, opening tasks, opens, records and failures.
`OpeningInv` is the conjunction of

* `LockHeld`: every writer has the file that the path names, since a lock excludes
  only those who hold the same file. Nearly every step is *quiet*: it
  keeps each descriptor or releases it. What is left are the steps that take
  a file, each of which finds no writer or opens it to read only, and the one that
  removes the path, which is noted when somebody has it open;
* `Pending`: a file that is opened and not locked yet is still the one that the path names,
  or its removal was noted;
* `Life`: as long as no calls overlapped, each instance is at rest or served by
  exactly one call of `open()` or `close()`, and what that call has still
  to undo is given by where it stands; a descriptor without a lock is used only
  after a cancellation;
* `Distinct`: no file has two writers, even if no path leads to it any more;
* `Chain`: the records an instance owes continue its file, or repeat what is in it, and end
  in its state; what an `open()` has read is what the file still holds;
* `Deserted`: the path that a failed bootstrap will remove leads to an empty file
  that nobody else has open.

### Rotation

| theorem | states | hypotheses |
|---|---|---|
| `HistoryIsKept` | `[]HistoryKept` | `StepsBack = FALSE`, `Overtakes = FALSE` |
| `AlwaysAnchored` | `[]Anchored` | the same |
| `RotatesJustOnce` | `[]RotatesOnce` | the same |
| `RewritesFaithfully` | `[]RewriteFaithful` | the same |
| `SplitsInTwo` | `SplitInTwo` | the same |

All five are false when the clock may step back; *RotationLoses* shows the first.
`Overtakes = FALSE` leaves out snapshots that are ahead of the log; with them the five
are model-checked, in *Rotating*.
`RotationInv` says of the log that it is `Sound` (times ascend and none is ahead of the
clock, changes are numbered in their order, a snapshot behind the first record equals
the replay of what is before it), of the log and the rotated files together that they are
`Whole`, of each stage of a rotation which parts of the plan have been carried out (`Stages`), and
of the state last known where it can be replayed from (`Meant`). The crux is that
`plan_rotation` applied to a sound log never meets a mismatch, and that what it
writes is sound again.

### LogFile

| theorem | states |
|---|---|
| `AppendOnlyAlways` | `AppendOnly` |
| `ReadsBackAlways` | `[]ReadsBack` |
| `BinaryAlwaysDetects` | `[]BinaryDetects` |
| `PointsAtTearAlways` | `[]PointsAtTear` |

They hold for any number of threads, records, short writes and crashes, in both
formats. `LogInv` is the conjunction of

* `AtEnd`: a write goes wherever the position is, and this is the end of the file, as
  is every position a `size()` has saved and will restore, until a write returns in
  between;
* `Turns`: while appends take turns, a record that waits to be written was framed for
  the end of the file and will go there;
* `LineLog`: a text log is made of *pieces*, one for each record begun: a line, or the
  beginning of one that a crash or a short write cut off. From the last snapshot on, each
  piece is a line (`Readable`) and the lines are what was acknowledged; after a crash
  the last piece may be torn, and begins at `whole`;
* `BinLog`: a binary log is the frames of what was acknowledged (`Whole`), or those and a
  beginning of the next (`Torn`), or holds at a known place something that is no frame
  (`Broken`), whatever else was written over it or behind it.

What makes the last two inductive are lemmas about reading: that `ReadLine` of
pieces gives their records, and points at the torn one; that `ReadBin` does the same for
frames; that one more append, whole or in part, leaves the pieces and frames before
it alone; and that no frame is intact at an offset it was not framed for, since the
checksum covers the offset.

### Algorithms

| theorem | states | of inputs |
|---|---|---|
| `MigrationsServe` | `MigratesOnceInOrder` | `MigrationsTyped` |
| `RangesAlwaysSelect` | `RangesSelect` | `RangesTyped` |
| `CommandAlwaysTells` | `CommandTells` | `CommandTyped` |
| `CallbacksAlwaysServe` | `CallbacksServe` | `CallbacksTyped` |

These have no behaviour to follow; the hypotheses give the inputs their types and leave their
sizes open.

* *Migrations*: any sequence of releases, each a module with any number of names and any
  set of functions that fail. `WellMigrated` is kept by each release (`ReleaseKeeps`),
  since what runs ascends and is above the version, which is that of the last one that
  ran; it is what `OnceInOrder` asks for. `UpgradePath` is about any two finite
  registries: what the first runs is below what the second runs after it, and
  lists of numbers one below the other join (`InOrderJoins`).
* *Ranges*: any text log (its lines ascend from above 0), any changes, snapshots and
  versions, any bounds. A list of lines, of the changes or of the snapshots, numbers the
  records they stand at: the positions in order split at a record, so that counting those
  before it says where it is listed (`CountIs`, `ChangesNumbered`, `SectionsNumbered`).
  Each bound then cuts the records where the slice does (`ChangeBound`,
  `SnapshotBound`, `VersionBound`), and what is shown lies between two cuts
  (`RangeShows`). Versions are found by the first record that has one. A binary log,
  whose records are all numbered 0, is outside the properties.
* *Command line*: any text log, records that do not decode among them, and any
  invocation. The command replays from the first record and an application from the last
  snapshot; what a log leaves behind is one fold over its records (`Content`), and a fold
  over two parts that share a snapshot comes to the same from there on (`CatchesUp`), so
  both agree on every log (`ReplayIs`) and so do both checks of snapshots
  (`ScansAgree`). A selection ends with a record or with a snapshot that
  is there (`SnapshotThere`), so its state is that of the log up to that record
  (`TargetIs`); migrations look at a state and its version only. The exit code is that
  of the first error (`ErrorAt`, `CodeTells`).
* *Callbacks*: any signature whose annotations are among those that registration tells
  apart; a parameter that is not injected has a default or is what
  the caller passes, so that a call fails exactly on what is positional-only or, by
  position, keyword-only. In a chain the first formatter that has a text is taken, and
  taking away one that raises moves the others up but not past each other.

### Model-checked only

* Liveness (`EventuallySaved`, `SnapshotServed`, `CloseEnds`): TLAPS has no rules for
  `ENABLED`, on which weak fairness depends.
* `DiffRestores`, `LogTellsAll`, `HitsAreSeen` and `GrepFindsAdditions`: DiffPatch and Grep
  recurse over nested data.
* Rotation with snapshots that are ahead of the log.
* Nothing is claimed of Persistence outside of the hypotheses above: after a crash
  that follows overlapping flushes, and of `Recoverable`, `OrderedLog` and
  `FramesInPlace` with application flushes or `close()`.

## Plan

Every part that keeps state is modelled and checked, and every safety property of
the state machines is proved. What would add most:

1. The Windows branches of `filelock.py`, whose append and rewrite are other
   system calls, as a second set of actions of LogFile.
2. A read-only process that opens the log in the middle of a rotation.

## Not modelled

* The layout, wording and colours of log output (`logging.py`, `tty.py`) and of the
  command line's listing, argument parsing and the import of modules named there
  (`__main__.py`): text without state.
* The encoders of msgspec, which are external; a payload decodes whole or fails.
* `flush_sync` (`persistence.py`), which nothing in the program calls.
* The Windows branches of `filelock.py`.
* The exceptions (`exceptions.py`), which are class definitions.
* The case of characters in matching: `grep.py` folds it in one place and
  lowers it in another.
