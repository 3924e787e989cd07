---------------------------- MODULE CommandLine -----------------------------
(***************************************************************************)
(* python -m kanta: read a log, select a range of it, apply migrations,    *)
(* check the state against a type and write it out, with an exit code that *)
(* tells which of these went wrong.                                        *)
(*                                                                         *)
(* Abstractions.  A state is a set of items <<class, version>>.  A change  *)
(* adds some and deletes some; migration v turns <<"old", v>> into         *)
(* <<"new", v>>.  A type accepts no old items and drops extra ones.  A     *)
(* record of a log is an event of LogRange with the fields add, del and    *)
(* state; one of kind "garbage" does not decode.  An invocation has        *)
(*   wrong      which argument is of no use ("none" for none),             *)
(*   range      a range specification, or All,                             *)
(*   registry   the versions of the migrations, or NoMigrations,           *)
(*   fails      those of them that raise,                                  *)
(*   typed      a data type is checked,                                    *)
(*   object     both belong to an existing Kanta object (-k).              *)
(* What is printed, and --grep, are left out.                              *)
(***************************************************************************)
EXTENDS LogRange, Migrations

SUCCESS == 0
GENERIC == 1
RANGE == 2
PARSE == 10
MIGRATION == 20
VALIDATION == 21

All == [sep |-> "all", from |-> Unbounded, to |-> Unbounded]
NoMigrations == {0}

MigrateItem(v, state) == {IF item = <<"old", v>> THEN <<"new", v>> ELSE item : item \in state}
Fits(state)      == \A item \in state : item[1] # "old"
Normalize(state) == {item \in state : item[1] # "extra"}

-----------------------------------------------------------------------------
(* Both ways to replay *)

NextState(state, r) == IF IsSnapshot(r) THEN r.state ELSE (state \ r.del) \cup r.add

StateAt(log, n) == FoldLeft(NextState, {}, SubSeq(log, 1, n))

(* scan_events: every record decodes, and every snapshot but one that      *)
(* begins the log holds the state replayed so far.                         *)
Scans(log) ==
  \A i \in DOMAIN log : /\ log[i].kind # "garbage"
                        /\ IsSnapshot(log[i]) /\ i > 1 => log[i].state = StateAt(log, i - 1)

(* replay_events up to the end of a range; the version is the last one.    *)
Held(records) ==
  [state |-> StateAt(records, Len(records)),
   version |-> IF records = <<>> THEN 0 ELSE records[Len(records)].v]
RangeState(log, end) == Held(Replayed(log, end))

(* kanta.serialization.base.replay: nothing before the last snapshot is    *)
(* looked at.                                                              *)
ReplayLog(log) ==
  LET last == SelectLastInSeq(log, IsSnapshot)
      rest == SubSeq(log, Max({1, last}), Len(log))
  IN [ok |-> \A i \in DOMAIN rest : rest[i].kind # "garbage",
      state |-> FoldLeft(NextState, {}, rest),
      version |-> IF log = <<>> THEN 0 ELSE log[Len(log)].v]

-----------------------------------------------------------------------------
MigrateAll(state, applied) == FoldLeft(LAMBDA s, v : MigrateItem(v, s), state, applied)

(* held is a state and its version. *)
Migrated(o, held) ==
  LET report == IF o.registry = NoMigrations THEN [ok |-> TRUE, applied |-> <<>>]
                ELSE ApplyMigrations(o.registry, o.fails, held.version)
  IN [ok |-> report.ok, state |-> MigrateAll(held.state, report.applied)]

(* Selection(0, end_of_file) without -r. *)
Selected(log, o) == IF o.range = All THEN Selection(0, EndOfFile(log)) ELSE Select(o.range, log)

(* Fault: the selection ends with the file. *)
TargetEof(log, selection) == RangeState(log, EndOfFile(log))

(* A snapshot stands for itself. *)
Target(log, selection) ==
  IF selection.outcome # "snapshot" THEN RangeState(log, selection.end)
  ELSE LET r == log[Min(EventsAt(log, selection.start))] IN [state |-> r.state, version |-> r.v]

(* With -d the file is opened once more, read-only and as a whole. *)
Reopens(o) == o.typed /\ ~o.object

(* The errors in the order in which they are met: selection is what is to  *)
(* be written, migrated its state, read what replay makes of the log and   *)
(* reopened the same after its migrations.                                 *)
Errors(log, o, selection, migrated, read, reopened) ==
  << <<o.wrong \in {"file", "data", "kanta"}, GENERIC>>,
     <<o.wrong = "migrations", MIGRATION>>,
     <<~Scans(log), PARSE>>,
     <<selection.outcome = "not found", RANGE>>,
     <<selection.outcome = "invalid", GENERIC>>,
     <<~migrated.ok, MIGRATION>>,
     <<o.typed /\ ~Fits(migrated.state), VALIDATION>>,
     <<Reopens(o) /\ (log = <<>> \/ ~read.ok), PARSE>>,
     <<Reopens(o) /\ ~reopened.ok, MIGRATION>>,
     <<Reopens(o) /\ ~Fits(reopened.state), VALIDATION>>,
     <<o.wrong = "output", GENERIC>> >>

(* The first error ends the run. *)
ExitCode(errors) ==
  LET met == SelectInSeq(errors, LAMBDA e : e[1])
  IN IF met = 0 THEN SUCCESS ELSE errors[met][2]

Output(o, migrated, reopened) ==
  IF Reopens(o) THEN Normalize(reopened.state)
  ELSE IF o.typed THEN Normalize(migrated.state) ELSE migrated.state

Finished(log, o, selection, migrated, read, reopened) ==
  [code |-> ExitCode(Errors(log, o, selection, migrated, read, reopened)),
   output |-> Output(o, migrated, reopened)]

RunOf(log, o, selection, read) ==
  Finished(log, o, selection, Migrated(o, Target(log, selection)), read, Migrated(o, read))

-----------------------------------------------------------------------------
(* open(readonly=True) with the same migrations and the same type. *)
Opens(log, o, read, migrated) ==
  log # <<>> /\ read.ok /\ migrated.ok /\ (o.typed => Fits(migrated.state))

(* Every record decodes, and every snapshot is what an application would   *)
(* have read from the records before it.                                   *)
Consistent(log) ==
  \A i \in DOMAIN log : /\ log[i].kind # "garbage"
                        /\ IsSnapshot(log[i]) /\ i > 1 => log[i].state = ReplayLog(SubSeq(log, 1, i - 1)).state

(* The records of the log up to the last one that is selected. *)
Until(log, selection) ==
  IF selection.outcome = "snapshot" THEN SubSeq(log, 1, Min(EventsAt(log, selection.start)))
  ELSE Replayed(log, selection.end)

(* What a successful run writes is the state an application would find     *)
(* that opened a file which ends with the last selected record.  Runs that *)
(* ask for a range and a type at once write the whole file instead.        *)
OutputIsSelected(o, run, read, migrated) ==
  (o.range = All \/ ~Reopens(o)) /\ run.code = SUCCESS =>
    /\ read.ok /\ migrated.ok
    /\ run.output = IF o.typed THEN Normalize(migrated.state) ELSE migrated.state

(* Asked for all of a log that is not empty, the command succeeds if and   *)
(* only if the log is consistent and an application could open it;         *)
(* otherwise the exit code names the first stage that failed.              *)
ExitTells(o, code, consistent, opens, migrates) ==
  o.range = All /\ o.wrong = "none" =>
    /\ code = SUCCESS <=> consistent /\ opens
    /\ code = PARSE <=> ~consistent
    /\ code = MIGRATION <=> consistent /\ ~migrates

(* Both for one invocation. *)
WritesWhatOpens(log, o) ==
  \A selection \in {Selected(log, o)}, read \in {ReplayLog(log)} :
  \A run \in {RunOf(log, o, selection, read)}, migrated \in {Migrated(o, read)},
     upTo \in {ReplayLog(Until(log, selection))} :
    /\ OutputIsSelected(o, run, upTo, Migrated(o, upTo))
    /\ log # <<>> => ExitTells(o, run.code, Consistent(log), Opens(log, o, read, migrated), migrated.ok)
=============================================================================
