----------------------------- MODULE Migrations -----------------------------
(***************************************************************************)
(* kanta.migrations: a registry of numbered migration functions, found in  *)
(* a module by their names, and their application to a replayed state.     *)
(*                                                                         *)
(* Abstractions.  A module is a sequence of its migrate_v names in the     *)
(* order of dir(); an entry has the suffix that follows the prefix, as     *)
(* <<text, number>> with number 0 unless the text is that of a positive    *)
(* number, and tells whether it can be called.  What a function does to    *)
(* the state is left to whoever opens a file; Fails is the set of versions *)
(* whose function raises.                                                  *)
(***************************************************************************)
EXTENDS Integers, Sequences, FiniteSets, SequencesExt, Order

(* _migration_version: 0 stands for the ValueError. *)
MigrationVersion(entry) == entry.suffix[2]

(* from_module: of two names for one version (migrate_v1, migrate_v01) the *)
(* later one stays.  The value is the ValueError or a function from        *)
(* versions to the entry that was registered for them.                     *)
Scanned(module) == {i \in DOMAIN module : module[i].callable}
InvalidModule(module) == \E i \in Scanned(module) : MigrationVersion(module[i]) = 0
FromModule(module) ==
  [v \in {MigrationVersion(module[i]) : i \in Scanned(module)} |->
     module[Max({i \in Scanned(module) : MigrationVersion(module[i]) = v})]]

(* Of a registry only its versions matter from here on. *)
Dbver(registry)  == Max(registry \cup {0})
Minver(registry) == IF registry = {} THEN 0 ELSE Min(registry) - 1

(* Fault: the current version's migration runs again. *)
PendingAgain(registry, current) == InOrder({v \in registry : v >= current})

(* apply: the migrations above the current version, in ascending order. *)
Pending(registry, current) == InOrder({v \in registry : v > current})

Supported(registry, current) == current <= Dbver(registry) /\ current >= Minver(registry)

(* The migrations in applied ran on the data, one after another. *)
ApplyMigrations(registry, Fails, current) ==
  LET run == Pending(registry, current)
  IN IF ~Supported(registry, current) \/ Fails \cap Range(run) # {}
     THEN [ok |-> FALSE, version |-> current, applied |-> <<>>]
     ELSE [ok |-> TRUE, version |-> IF run = <<>> THEN current ELSE run[Len(run)], applied |-> run]

-----------------------------------------------------------------------------
(* A file is its version and the migrations that ever ran on it. *)
Opened(registry, Fails, file) ==
  LET report == ApplyMigrations(registry, Fails, file.version)
  IN [ok |-> report.ok, state |-> file.state \o report.applied, version |-> report.version]

(* A release of an application, a module of which some migrations fail,    *)
(* opens a file at some version.                                           *)
Release(file, release) ==
  IF InvalidModule(release.module) THEN [ok |-> FALSE, state |-> file.state, version |-> file.version]
  ELSE Opened(DOMAIN FromModule(release.module), release.fails, file)
NewFile == [ok |-> TRUE, state |-> <<>>, version |-> 0]

(* Whatever releases open a new file one after another, older ones and     *)
(* failing ones among them, no migration runs twice, none runs after a     *)
(* higher one, and the version says which was the last.                    *)
OnceInOrder(releases) ==
  LET file == FoldLeft(Release, NewFile, releases)
  IN /\ \A i, j \in DOMAIN file.state : i < j => file.state[i] < file.state[j]
     /\ file.version = IF file.state = <<>> THEN 0 ELSE file.state[Len(file.state)]

(* The second release has the migrations of the first but perhaps for the  *)
(* oldest, and perhaps newer ones.                                         *)
Succeeds(second, first) ==
  second \cap 1 .. Dbver(first) = {v \in first : v > Minver(second)}

(* A release that accepts a file brings it to its own version, and the way *)
(* there does not matter: by another release in between or at once.        *)
UpgradePath(first, second, file) ==
  LET one   == Opened(first, {}, file)
      two   == Opened(second, {}, one)
      whole == Opened(second, {}, file)
  IN /\ one.ok => one.version = Dbver(first)
     /\ Succeeds(second, first) /\ one.ok /\ whole.ok =>
          two.ok /\ two.state = whole.state /\ two.version = whole.version
=============================================================================
