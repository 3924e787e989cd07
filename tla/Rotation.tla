------------------------------ MODULE Rotation ------------------------------
(***************************************************************************)
(* Rotation of a log at open(): records older than the retention window    *)
(* move to a rotated file beside it, and the log is rewritten in place to  *)
(* a snapshot and the records that stay.  Another process may read the log *)
(* at any time; rotation itself may fail, or the process die, at any step. *)
(*                                                                         *)
(* Abstractions.  A change sets one key to its own number.  A record is    *)
(* one unit long, lies at the offset it was framed for, or is unreadable.  *)
(* Several times fall into one second, the precision of a rotated file's   *)
(* name.  The lock is held throughout.  Appends reach the file at once,    *)
(* but for a change that a snapshot overtakes: the snapshot, taken of the  *)
(* state in memory, holds it already, and its record follows.              *)
(***************************************************************************)
EXTENDS Integers, Sequences, FiniteSets, SequencesExt

CONSTANTS Keys,
          Retention,     \* the window, in clock ticks
          MinDiffs,      \* retained changes that warrant a closing snapshot
          PerSecond,     \* ticks in a second
          StepsBack,     \* TRUE: the clock may be set back
          Overtakes,     \* TRUE: a snapshot may be ahead of the log
          Failures,      \* bound: rotations that are interrupted
          MaxTime,       \* bound: the clock
          MaxChanges,    \* bound: changes
          MaxSnapshots   \* bound: snapshots in the log behind its first record

ASSUME RotationAssumption ==
  /\ {Retention, MinDiffs, Failures, MaxTime, MaxChanges, MaxSnapshots} \subseteq Nat
  /\ MinDiffs > 0 /\ PerSecond \in Nat \ {0}
  /\ StepsBack \in BOOLEAN /\ Overtakes \in BOOLEAN

VARIABLES
  clock,
  main,       \* the log
  copies,     \* rotated files, by name
  pc,         \* where the process is: "running", inside open(), or "closed"
  plan,       \* the RotationPlan of a rotation under way
  target,     \* the name of its rotated file
  version,    \* schema version of the application
  history,    \* ghost: every change ever appended
  known,      \* ghost: what the log meant when the instance last ran
  overtaken,  \* ghost: a snapshot was ahead of the log since it was last rewritten
  failures    \* interruptions so far

vars == <<clock, main, copies, pc, plan, target, version, history, known, overtaken, failures>>

-----------------------------------------------------------------------------
(* Records and replay *)

NoTime == -1
Blank  == [state |-> [k \in Keys |-> 0], v |-> 0, m |-> NoTime]

ChangeRecord(id, k, v, m, at) ==
  [kind |-> "change", id |-> id, key |-> k, state |-> Blank.state, v |-> v, m |-> m, ts |-> clock, at |-> at]
SnapshotRecord(meaning, ts, at) ==
  [kind |-> "snapshot", id |-> 0, key |-> "none", state |-> meaning.state, v |-> meaning.v,
   m |-> meaning.m, ts |-> ts, at |-> at]

Apply(meaning, r) ==
  IF r.kind = "snapshot" THEN [state |-> r.state, v |-> r.v, m |-> IF r.m = NoTime THEN meaning.m ELSE r.m]
  ELSE [state |-> [meaning.state EXCEPT ![r.key] = r.id], v |-> r.v,
        m |-> IF r.m = NoTime THEN meaning.m ELSE r.m]

Meaning(log) == FoldLeft(Apply, Blank, log)

Snapshots(log) == {i \in DOMAIN log : log[i].kind = "snapshot"}
Changes(log)   == {i \in DOMAIN log : log[i].kind = "change"}
Select(log, positions) ==
  LET n     == Cardinality(positions)
      order == CHOOSE o \in [1 .. n -> positions] : \A i, j \in 1 .. n : i < j => o[i] < o[j]
  IN [i \in 1 .. n |-> log[order[i]]]

-----------------------------------------------------------------------------
(* plan_rotation *)

Dropped(log, cutoff) == {i \in Changes(log) : log[i].ts < cutoff}

(* Fault: the rewritten log keeps the records that the copy holds. *)
RetainAll(log, cutoff) == Changes(log)

Retained(log, cutoff) == Changes(log) \ Dropped(log, cutoff)

(* The newest snapshot that is not newer than the cutoff; 0 is the start.  *)
Base(log, cutoff) == Max({0} \cup {i \in Snapshots(log) : log[i].ts <= cutoff})

(* Replay from there; a snapshot on the way must hold the replayed state.  *)
After(log, cutoff, n) == Meaning(SubSeq(log, Max({1, Base(log, cutoff)}), n))
Validates(log, cutoff) ==
  \A i \in Snapshots(log) :
    i > Base(log, cutoff) => log[i].state = After(log, cutoff, i - 1).state

LastDropped(log, cutoff) == Max(Dropped(log, cutoff) \cup {Base(log, cutoff)})

(* Fault: the rotated file ends before the last dropped record. *)
EndBeforeLast(log, cutoff) == Max(Dropped(log, cutoff)) - 1

(* cutoff_end: the rotated file ends where the first retained record begins. *)
CutoffEnd(log, cutoff) ==
  IF Retained(log, cutoff) = {} THEN Len(log) ELSE Min(Retained(log, cutoff)) - 1

(* frame_change and frame_snapshot at the offset reached so far. *)
Framed(records) == [i \in DOMAIN records |-> [records[i] EXCEPT !.at = i - 1]]

(* Fault: the leading snapshot is the base. *)
LeadingBase(log, cutoff) ==
  SnapshotRecord(After(log, cutoff, Base(log, cutoff)), log[Max(Dropped(log, cutoff))].ts, 0)

(* The state at the cutoff, dated like the last record that is dropped.    *)
Leading(log, cutoff) ==
  SnapshotRecord(After(log, cutoff, LastDropped(log, cutoff)), log[Max(Dropped(log, cutoff))].ts, 0)

NewContent(log, cutoff, now) ==
  LET kept    == Retained(log, cutoff)
      last    == After(log, cutoff, Max(Changes(log) \cup {Base(log, cutoff)}))
      closing == [last EXCEPT !.state = After(log, cutoff, Len(log)).state]
  IN Framed(<<Leading(log, cutoff)>> \o Select(log, kept)
              \o IF Cardinality(kept) >= MinDiffs THEN <<SnapshotRecord(closing, now, 0)>> ELSE <<>>)

NoPlan == [kind |-> "none", new |-> <<>>, end |-> 0, ts |-> NoTime]
Refuse == [NoPlan EXCEPT !.kind = "refused"]

(* None when no change is old enough, so for a log of snapshots only.      *)
Plan(log, cutoff, now) ==
  CASE Dropped(log, cutoff) = {} -> NoPlan
    [] Dropped(log, cutoff) # {} /\ ~Validates(log, cutoff) -> Refuse
    [] OTHER -> [kind |-> "plan",
                 new  |-> NewContent(log, cutoff, now),
                 end  |-> CutoffEnd(log, cutoff),
                 ts   |-> log[Max(Dropped(log, cutoff))].ts]

(* rotated_path_for: the first name of that second that is not taken. *)
Name(ts, n) == <<ts \div PerSecond, n>>

(* Fault: an older rotated file is overwritten. *)
FirstName(ts) == Name(ts, 0)

FreeName(ts) == Name(ts, Min({n \in 0 .. Cardinality(DOMAIN copies) : Name(ts, n) \notin DOMAIN copies}))

-----------------------------------------------------------------------------
Init ==
  /\ clock = 0 /\ main = <<>> /\ copies = [n \in {} |-> <<>>]
  /\ pc = "running" /\ plan = NoPlan /\ target = <<>>
  /\ version = 0 /\ history = {} /\ known = Blank
  /\ overtaken = FALSE /\ failures = 0

Tick ==
  /\ pc \in {"running", "closed"}
  /\ clock' \in {clock + 1} \cup IF StepsBack THEN {clock - 1} ELSE {}
  /\ clock' \in 0 .. MaxTime
  /\ UNCHANGED <<main, copies, pc, plan, target, version, history, known, overtaken, failures>>

-----------------------------------------------------------------------------
(* The opened instance appends, as the other modules tell in detail. *)

Appends(k, v, m) ==
  LET r == ChangeRecord(Cardinality(history) + 1, k, v, m, Len(main))
  IN /\ pc = "running" /\ Cardinality(history) < MaxChanges
     /\ main' = Append(main, r)
     /\ history' = history \cup {r.id}
     /\ known' = Meaning(main')
     /\ UNCHANGED <<clock, copies, pc, plan, target, overtaken, failures>>

(* A transaction; with mtime=False the modification time stays.            *)
Commit(k) ==
  /\ \E m \in {clock, NoTime} : Appends(k, version, m)
  /\ UNCHANGED version

(* The record of a migration. *)
Migrate(k) ==
  /\ version = 0
  /\ version' = 1
  /\ Appends(k, 1, NoTime)

Snapshot ==
  /\ pc = "running" /\ main # <<>> /\ Cardinality(Snapshots(main) \ {1}) < MaxSnapshots
  /\ main' = Append(main, SnapshotRecord(Meaning(main), clock, Len(main)))
  /\ UNCHANGED <<clock, copies, pc, plan, target, version, history, known, overtaken, failures>>

(* maybe_snapshot behind a flush during which a change was committed: the   *)
(* record of the change is written by the next flush.                      *)
SnapshotAhead(k) ==
  /\ Overtakes /\ pc = "running" /\ main # <<>>
  /\ Cardinality(Snapshots(main) \ {1}) < MaxSnapshots /\ Cardinality(history) < MaxChanges
  /\ overtaken' = TRUE
  /\ \E m \in {clock, NoTime} :
       LET r == ChangeRecord(Cardinality(history) + 1, k, version, m, Len(main) + 1)
           s == SnapshotRecord(Apply(Meaning(main), r), clock, Len(main))
       IN main' = main \o <<s, r>> /\ history' = history \cup {r.id}
  /\ known' = Meaning(main')
  /\ UNCHANGED <<clock, copies, pc, plan, target, version, failures>>

-----------------------------------------------------------------------------
(* open() *)

Cutoff == clock - Retention

(* The instance is closed, unless an interruption saw to that, and opened:  *)
(* _maybe_rotate, up to the plan; the rest of open() when there is none.   *)
Reopen ==
  /\ pc \in {"running", "closed"}
  /\ LET p == Plan(main, Cutoff, clock)
     IN /\ p.kind # "refused"
        /\ plan' = p
        /\ pc' = IF p.kind = "none" THEN "running" ELSE "planned"
  /\ known' = Meaning(main)
  /\ UNCHANGED <<clock, main, copies, target, version, history, overtaken, failures>>

(* plan_rotation raises, and so does open(). *)
Refused ==
  /\ pc \in {"running", "closed"}
  /\ Plan(main, Cutoff, clock).kind = "refused"
  /\ pc' = "closed"
  /\ known' = Meaning(main)
  /\ UNCHANGED <<clock, main, copies, plan, target, version, history, overtaken, failures>>

(* shutil.copy2 to the rotated file. *)
Copy ==
  /\ pc = "planned"
  /\ target' = FreeName(plan.ts)
  /\ copies' = [n \in DOMAIN copies \cup {target'} |-> IF n = target' THEN main ELSE copies[n]]
  /\ pc' = "copied"
  /\ UNCHANGED <<clock, main, plan, version, history, known, overtaken, failures>>

(* Fault: the rotated file is trimmed before the log is rewritten. *)
TruncateTrimmed ==
  /\ pc = "copied"
  /\ main' = <<>>
  /\ copies' = [copies EXCEPT ![target] = SubSeq(@, 1, plan.end)]
  /\ pc' = "writing" /\ overtaken' = FALSE
  /\ UNCHANGED <<clock, plan, target, version, history, known, failures>>

(* replace_content: the log is emptied, *)
Truncate ==
  /\ pc = "copied"
  /\ main' = <<>>
  /\ pc' = "writing" /\ overtaken' = FALSE
  /\ UNCHANGED <<clock, copies, plan, target, version, history, known, failures>>

(* then written, and synced when all is written. *)
WriteMore ==
  /\ pc = "writing"
  /\ main' = SubSeq(plan.new, 1, Len(main) + 1)
  /\ pc' = IF main' = plan.new THEN "written" ELSE "writing"
  /\ UNCHANGED <<clock, copies, plan, target, version, history, known, overtaken, failures>>

(* The rotated file is cut to what was dropped, and open() goes on. *)
Trim ==
  /\ pc = "written"
  /\ copies' = [copies EXCEPT ![target] = SubSeq(@, 1, plan.end)]
  /\ pc' = "running" /\ plan' = NoPlan /\ target' = <<>>
  /\ UNCHANGED <<clock, main, version, history, known, overtaken, failures>>

(* An OSError ends open(), or the process dies; a copy may be incomplete.  *)
Interrupted ==
  /\ pc \in {"planned", "copied", "writing", "written"} /\ failures < Failures
  /\ pc' = "closed" /\ plan' = NoPlan /\ target' = <<>>
  /\ failures' = failures + 1
  /\ \/ UNCHANGED copies
     \/ /\ pc = "planned"
        /\ \E n \in 0 .. Len(main) - 1 :
             copies' = [c \in DOMAIN copies \cup {FreeName(plan.ts)} |->
                          IF c = FreeName(plan.ts) THEN SubSeq(main, 1, n) ELSE copies[c]]
  /\ UNCHANGED <<clock, main, version, history, known, overtaken>>

Next ==
  \/ Tick
  \/ \E k \in Keys : Commit(k) \/ Migrate(k)
  \/ Snapshot \/ \E k \in Keys : SnapshotAhead(k)
  \/ Reopen \/ Refused \/ Copy \/ Truncate \/ WriteMore \/ Trim \/ Interrupted

Spec == Init /\ [][Next]_vars

-----------------------------------------------------------------------------
(* No change is ever lost for good: it stays in the log, or in a rotated   *)
(* file, whenever rotation is interrupted and whatever is done afterwards. *)
HistoryKept ==
  history = {r.id : r \in {x \in UNION {Range(f) : f \in Range(copies) \cup {main}} : x.kind = "change"}}

(* What the instance knew when it last ran can be replayed from the log,   *)
(* or, as long as a rewrite is not complete, from a rotated file.          *)
Anchored ==
  \/ Meaning(main) = known
  \/ /\ pc \in {"writing", "closed"}
     /\ \E n \in DOMAIN copies : Meaning(copies[n]) = known

(* A change and a later snapshot both fall on the cutoff: the snapshot is  *)
(* old enough to be the base, and the change young enough to be retained.  *)
Tie(log) ==
  \E i \in Changes(log), j \in Snapshots(log) : i < j /\ log[i].ts = Cutoff /\ log[j].ts = Cutoff

(* A rewritten log tells of every change it kept what the old log told:    *)
(* the same state, version and modification time before it and after it;   *)
(* and each of its records is framed for the offset at which it lies.      *)
RewriteFaithful ==
  LET old  == copies[target]
      kept == Changes(plan.new)
      Was(r) == CHOOSE i \in Changes(old) : old[i].id = r.id
  IN pc \in {"copied", "writing", "written"} /\ ~Tie(old) =>
       /\ Meaning(plan.new) = Meaning(old)
       /\ \A i \in DOMAIN plan.new : plan.new[i].at = i - 1
       /\ \A i \in kept : /\ Meaning(SubSeq(plan.new, 1, i)) = Meaning(SubSeq(old, 1, Was(plan.new[i])))
                          /\ Meaning(SubSeq(plan.new, 1, i - 1)) = Meaning(SubSeq(old, 1, Was(plan.new[i]) - 1))

Ids(f) == {f[i].id : i \in Changes(f)}
Splits(old, cut) ==
  /\ Ids(cut) \cap Ids(main) = {} /\ Ids(cut) \cup Ids(main) = Ids(old)
  /\ Meaning(cut) = Meaning(SubSeq(main, 1, 1))
  /\ cut[Max(Changes(cut))].ts = main[1].ts

(* A rotation that is complete splits the history in two: the rotated file *)
(* holds the older changes, ends with the record it is named after and     *)
(* replays to the snapshot that the log begins with.                       *)
SplitInTwo ==
  [][Trim /\ ~Tie(copies[target]) => Splits(copies[target], copies'[target])]_vars

(* The records and snapshots that rotation wrote are accepted by the next  *)
(* rotation, and so are those appended to them, unless a snapshot was      *)
(* ahead of the log: plan_rotation takes that for a corrupt history.  And  *)
(* a log that has been rotated is not rotated again before the clock moves.*)
RotatesOnce ==
  /\ Dropped(main, Cutoff) # {} /\ ~overtaken => Validates(main, Cutoff)
  /\ pc = "written" => Dropped(main, Cutoff) = {}
=============================================================================
