-------------------------- MODULE AlgorithmProofs ---------------------------
(***************************************************************************)
(* Theorems about the algorithms, for inputs of any size: any number of    *)
(* releases with any number of migrations, signatures of any length, any   *)
(* number of callbacks in a chain, and logs of any length, replayed from   *)
(* any snapshot.                                                           *)
(***************************************************************************)
EXTENDS Algorithms, FiniteSetTheorems, SequenceTheorems, TLAPS

Releases == INSTANCE ListLemmas WITH Op <- Release, Origin <- NewFile

(* The modules and releases that there are, and the files they open. *)
Entries  == [suffix : STRING \X Nat, callable : BOOLEAN]
AllReleases == [module : Seq(Entries), fails : SUBSET Nat]
Registry(R) == R \in SUBSET (Nat \ {0}) /\ IsFiniteSet(R)

(* What OnceInOrder says of a file. *)
WellMigrated(file) ==
  /\ file.state \in Seq(Nat) /\ file.version \in Nat
  /\ \A i, j \in DOMAIN file.state : i < j => file.state[i] < file.state[j]
  /\ file.version = IF file.state = <<>> THEN 0 ELSE file.state[Len(file.state)]

-----------------------------------------------------------------------------
(* Migrations *)

(* The lemmas about lists, of the operators of this module. *)
LEMMA SameSets ==
  ASSUME NEW S
  PROVE  /\ Releases!Cardinality(S) = Cardinality(S)
         /\ Releases!IsFiniteSet(S) = IsFiniteSet(S)
         /\ Releases!InOrder(S) = InOrder(S)
         /\ Releases!Max(S) = Max(S) /\ Releases!Min(S) = Min(S)
<1>1. Releases!Cardinality(S) = Cardinality(S)
  BY DEF Releases!Cardinality, Cardinality
<1>2. Releases!IsFiniteSet(S) = IsFiniteSet(S)
  BY DEF Releases!IsFiniteSet, IsFiniteSet
<1>3. Releases!InOrder(S) = InOrder(S)
  BY <1>1 DEF Releases!InOrder, InOrder
<1>4. Releases!Max(S) = Max(S) /\ Releases!Min(S) = Min(S)
  BY DEF Releases!Max, Max, Releases!Min, Min
<1>5. QED
  BY <1>1, <1>2, <1>3, <1>4

LEMMA ListIs ==
  ASSUME NEW S \in SUBSET Nat, IsFiniteSet(S)
  PROVE  /\ InOrder(S) \in Seq(S) /\ InOrder(S) \in Seq(Nat)
         /\ Len(InOrder(S)) = Cardinality(S) /\ Cardinality(S) \in Nat
         /\ InOrder(S) \in [1 .. Cardinality(S) -> S]
         /\ \A i, j \in 1 .. Cardinality(S) : i < j => InOrder(S)[i] < InOrder(S)[j]
         /\ \A x \in S : \E i \in 1 .. Cardinality(S) : InOrder(S)[i] = x
         /\ S = {} <=> InOrder(S) = <<>>
         /\ S # {} => /\ InOrder(S)[Len(InOrder(S))] = Max(S) /\ Max(S) \in S
                      /\ \A x \in S : x <= Max(S)
<1>1. Releases!IsFiniteSet(S)
  BY SameSets
<1>2. /\ Releases!InOrder(S) \in Seq(S) /\ Releases!InOrder(S) \in Seq(Nat)
      /\ Len(Releases!InOrder(S)) = Releases!Cardinality(S) /\ Releases!Cardinality(S) \in Nat
      /\ S = {} <=> Releases!InOrder(S) = <<>>
  BY <1>1, Releases!InOrderList
<1>3. /\ Releases!InOrder(S) \in [1 .. Releases!Cardinality(S) -> S]
      /\ \A i, j \in 1 .. Releases!Cardinality(S) :
           i < j => Releases!InOrder(S)[i] < Releases!InOrder(S)[j]
      /\ \A x \in S : \E i \in 1 .. Releases!Cardinality(S) : Releases!InOrder(S)[i] = x
  BY <1>1, Releases!InOrderFinds
<1>4. S # {} => /\ Releases!InOrder(S)[Len(Releases!InOrder(S))] = Releases!Max(S)
                /\ Releases!Max(S) \in S
                /\ \A x \in S : x <= Releases!Max(S)
  BY <1>1, Releases!InOrderEnds
<1>5. QED
  BY <1>2, <1>3, <1>4, SameSets

LEMMA ListOf ==
  ASSUME NEW N \in Nat, NEW a \in [1 .. N -> Nat],
         \A i, j \in 1 .. N : i < j => a[i] < a[j],
         NEW S, S = {a[i] : i \in 1 .. N}
  PROVE  Cardinality(S) = N /\ InOrder(S) = a
<1>1. Releases!Cardinality(S) = N /\ Releases!InOrder(S) = a
  BY Releases!InOrderIs
<1>2. QED
  BY <1>1, SameSets

LEMMA LeastIs ==
  ASSUME NEW S \in SUBSET Nat, S # {}
  PROVE  Min(S) \in S /\ \A x \in S : Min(S) <= x
<1>1. Releases!Min(S) \in S /\ \A x \in S : Releases!Min(S) <= x
  BY Releases!MinFinds
<1>2. QED
  BY <1>1, SameSets

LEMMA ListJoins ==
  ASSUME NEW S \in SUBSET Nat, NEW T \in SUBSET Nat, IsFiniteSet(S), IsFiniteSet(T),
         \A x \in S, y \in T : x < y
  PROVE  InOrder(S \cup T) = InOrder(S) \o InOrder(T)
<1>1. Releases!IsFiniteSet(S) /\ Releases!IsFiniteSet(T)
  BY SameSets
<1>2. Releases!InOrder(S \cup T) = Releases!InOrder(S) \o Releases!InOrder(T)
  BY <1>1, Releases!InOrderJoins
<1>3. QED
  BY <1>2, SameSets

(* What runs on a file is above its version, in ascending order. *)
Above(R, v) == {w \in R : w > v}

LEMMA PendingIs ==
  ASSUME NEW R, Registry(R), NEW v \in Nat
  PROVE  /\ Above(R, v) \in SUBSET Nat /\ IsFiniteSet(Above(R, v))
         /\ Pending(R, v) = InOrder(Above(R, v))
         /\ Pending(R, v) \in Seq(Nat)
         /\ \A i, j \in DOMAIN Pending(R, v) : i < j => Pending(R, v)[i] < Pending(R, v)[j]
         /\ \A i \in DOMAIN Pending(R, v) : Pending(R, v)[i] \in R /\ v < Pending(R, v)[i]
         /\ Above(R, v) # {} =>
              /\ Pending(R, v) # <<>>
              /\ Pending(R, v)[Len(Pending(R, v))] = Max(Above(R, v))
              /\ Max(Above(R, v)) \in Above(R, v)
              /\ \A w \in Above(R, v) : w <= Max(Above(R, v))
         /\ Above(R, v) = {} => Pending(R, v) = <<>>
<1> DEFINE S   == Above(R, v)
           run == Pending(R, v)
<1>1. S \in SUBSET Nat /\ IsFiniteSet(S)
  <2>1. S \in SUBSET R
    BY DEF Above
  <2>2. QED
    BY <2>1, FS_Subset DEF Registry
<1>2. run = InOrder(S)
  BY DEF Pending, Above
<1>3. \A w \in S : w \in R /\ v < w
  BY DEF Above, Registry
<1> HIDE DEF run, S
<1>4. /\ run \in Seq(Nat) /\ run \in [1 .. Cardinality(S) -> S]
      /\ \A i, j \in 1 .. Cardinality(S) : i < j => run[i] < run[j]
      /\ Cardinality(S) \in Nat
      /\ S = {} <=> run = <<>>
      /\ S # {} => run[Len(run)] = Max(S) /\ Max(S) \in S /\ \A w \in S : w <= Max(S)
  BY <1>1, <1>2, ListIs
<1>5. DOMAIN run = 1 .. Cardinality(S) /\ \A i \in DOMAIN run : run[i] \in S
  BY <1>4
<1>6. QED
  BY <1>1, <1>2, <1>3, <1>4, <1>5 DEF run, S

(* The newest version of a registry is that of its newest migration. *)
LEMMA NewestIs ==
  ASSUME NEW R, Registry(R)
  PROVE  /\ Dbver(R) \in Nat /\ \A w \in R : w <= Dbver(R)
         /\ Dbver(R) = 0 \/ Dbver(R) \in R
         /\ Dbver(R) = 0 <=> R = {}
<1> DEFINE S == R \cup {0}
<1>1. S \in SUBSET Nat /\ IsFiniteSet(S) /\ S # {}
  BY FS_AddElement DEF Registry
<1>2. Max(S) \in S /\ \A x \in S : x <= Max(S)
  <2> HIDE DEF S
  <2>1. QED
    BY <1>1, ListIs
<1>3. \A w \in R : w \in Nat /\ w # 0
  BY DEF Registry
<1>4. QED
  BY <1>2, <1>3 DEF Dbver

(* The version that is reached is that of the last migration. *)
LEMMA LastIsNewest ==
  ASSUME NEW R, Registry(R), NEW v \in Nat, v <= Dbver(R)
  PROVE  /\ Pending(R, v) = <<>> => Dbver(R) = v
         /\ Pending(R, v) # <<>> => Dbver(R) = Pending(R, v)[Len(Pending(R, v))]
<1> DEFINE S   == Above(R, v)
           run == Pending(R, v)
           new == Dbver(R)
<1>1. /\ S # {} => run # <<>> /\ run[Len(run)] = Max(S) /\ Max(S) \in S /\ \A w \in S : w <= Max(S)
      /\ S = {} => run = <<>>
  BY PendingIs
<1>2. new \in Nat /\ (\A w \in R : w <= new /\ w \in Nat) /\ (new = 0 \/ new \in R)
  BY NewestIs DEF Registry
<1>3. \A w : w \in S <=> w \in R /\ w > v
  BY DEF Above
<1>4. v <= new
  OBVIOUS
<1> HIDE DEF S, run, new
<1>5. CASE S = {}
  <2>1. new = v
    BY <1>2, <1>3, <1>4, <1>5
  <2>2. QED
    BY <1>1, <1>5, <2>1 DEF run, new
<1>6. CASE S # {}
  <2>1. Max(S) \in Nat /\ Max(S) \in R /\ Max(S) <= new /\ v < Max(S)
    BY <1>1, <1>2, <1>3, <1>6
  <2>2. new \in S
    BY <1>2, <1>3, <2>1
  <2>3. new = Max(S)
    BY <1>1, <1>2, <1>6, <2>1, <2>2
  <2>4. QED
    BY <1>1, <1>6, <2>3 DEF run, new
<1>7. QED
  BY <1>5, <1>6

(* A release either runs all that is pending on a file or leaves it alone. *)
Accepted(R, F, file) == Supported(R, file.version) /\ F \cap Range(Pending(R, file.version)) = {}

LEMMA OpenedRuns ==
  ASSUME NEW R, Registry(R), NEW F, NEW file, file.version \in Nat, Accepted(R, F, file)
  PROVE  Opened(R, F, file) =
           [ok |-> TRUE, state |-> file.state \o Pending(R, file.version), version |-> Dbver(R)]
<1> DEFINE v      == file.version
           run    == Pending(R, v)
           report == ApplyMigrations(R, F, v)
<1>1. Opened(R, F, file) = [ok |-> report.ok, state |-> file.state \o report.applied, version |-> report.version]
  BY DEF Opened
<1>2. report = [ok |-> TRUE, version |-> IF run = <<>> THEN v ELSE run[Len(run)], applied |-> run]
  BY DEF ApplyMigrations, Accepted
<1>3. v <= Dbver(R)
  BY DEF Accepted, Supported
<1>4. (IF run = <<>> THEN v ELSE run[Len(run)]) = Dbver(R)
  BY <1>3, LastIsNewest
<1> HIDE DEF report, run, v
<1>5. report.ok = TRUE /\ report.applied = run /\ report.version = Dbver(R)
  BY <1>2, <1>4
<1>6. QED
  BY <1>1, <1>5 DEF run, v

LEMMA OpenedRefuses ==
  ASSUME NEW R, NEW F, NEW file, file.state \in Seq(Nat), ~Accepted(R, F, file)
  PROVE  Opened(R, F, file) = [ok |-> FALSE, state |-> file.state, version |-> file.version]
<1> DEFINE report == ApplyMigrations(R, F, file.version)
<1>1. Opened(R, F, file) = [ok |-> report.ok, state |-> file.state \o report.applied, version |-> report.version]
  BY DEF Opened
<1>2. report = [ok |-> FALSE, version |-> file.version, applied |-> <<>>]
  BY DEF ApplyMigrations, Accepted
<1> HIDE DEF report
<1>3. report.ok = FALSE /\ report.applied = <<>> /\ report.version = file.version
  BY <1>2
<1>4. file.state \o <<>> = file.state
  OBVIOUS
<1>5. QED
  BY <1>1, <1>3, <1>4

(* What continues an ascending list with greater numbers ascends. *)
LEMMA Continued ==
  ASSUME NEW s \in Seq(Nat), NEW r \in Seq(Nat), NEW v \in Nat,
         \A i, j \in DOMAIN s : i < j => s[i] < s[j],
         \A i, j \in DOMAIN r : i < j => r[i] < r[j],
         s # <<>> => v = s[Len(s)],
         \A i \in DOMAIN r : v < r[i]
  PROVE  /\ s \o r \in Seq(Nat)
         /\ \A i, j \in DOMAIN (s \o r) : i < j => (s \o r)[i] < (s \o r)[j]
         /\ r = <<>> => s \o r = s
         /\ r # <<>> => s \o r # <<>> /\ (s \o r)[Len(s \o r)] = r[Len(r)]
<1> DEFINE t == s \o r
           m == Len(s)
           n == Len(r)
<1>1. /\ m \in Nat /\ n \in Nat /\ t \in Seq(Nat) /\ Len(t) = m + n
      /\ DOMAIN t = 1 .. m + n /\ DOMAIN s = 1 .. m /\ DOMAIN r = 1 .. n
      /\ \A i \in 1 .. m : s[i] \in Nat
      /\ \A i \in 1 .. n : r[i] \in Nat
  OBVIOUS
<1>2. \A i \in 1 .. m + n : t[i] = IF i <= m THEN s[i] ELSE r[i - m]
  OBVIOUS
<1>3. \A i \in 1 .. m : s[i] <= v
  <2> TAKE i \in 1 .. m
  <2>1. s # <<>> /\ m \in 1 .. m
    BY <1>1
  <2>2. i = m \/ i < m
    <3> HIDE DEF m
    <3>1. QED
      BY <1>1
  <2>3. s[i] = v \/ s[i] < v
    BY <1>1, <2>1, <2>2
  <2>4. QED
    BY <1>1, <2>3
<1>4. r = <<>> => t = s
  OBVIOUS
<1>5. r # <<>> => n \in 1 .. n /\ t # <<>> /\ t[m + n] = r[n]
  <2>1. r # <<>> => n \in 1 .. n /\ m + n \in 1 .. m + n /\ ~ (m + n <= m) /\ (m + n) - m = n
    BY <1>1
  <2> HIDE DEF t, m, n
  <2>2. QED
    BY <1>1, <1>2, <2>1
<1> HIDE DEF t, m, n
<1>6. ASSUME NEW i \in 1 .. m + n, NEW j \in 1 .. m + n, i < j PROVE t[i] < t[j]
  <2>1. CASE j <= m
    <3>1. i \in 1 .. m /\ j \in 1 .. m /\ i <= m
      BY <1>1, <1>6, <2>1
    <3>2. QED
      BY <1>1, <1>2, <1>6, <2>1, <3>1
  <2>2. CASE i <= m /\ ~ (j <= m)
    <3>1. i \in 1 .. m /\ j - m \in 1 .. n
      BY <1>1, <2>2
    <3>2. s[i] \in Nat /\ r[j - m] \in Nat /\ s[i] <= v /\ v < r[j - m]
      BY <1>1, <1>3, <3>1
    <3>3. QED
      BY <1>2, <2>2, <3>2
  <2>3. CASE ~ (i <= m)
    <3>1. ~ (j <= m) /\ i - m \in 1 .. n /\ j - m \in 1 .. n /\ i - m < j - m
      BY <1>1, <1>6, <2>3
    <3>2. r[i - m] < r[j - m]
      BY <1>1, <3>1
    <3>3. QED
      BY <1>2, <2>3, <3>1, <3>2
  <2>4. QED
    BY <2>1, <2>2, <2>3
<1>7. QED
  BY <1>1, <1>4, <1>5, <1>6 DEF t, m, n

(* A file stays well migrated, whoever opens it. *)
LEMMA OpenedKeeps ==
  ASSUME NEW R, Registry(R), NEW F, NEW file, WellMigrated(file)
  PROVE  WellMigrated(Opened(R, F, file))
<1> DEFINE v   == file.version
           s   == file.state
           run == Pending(R, v)
           now == Opened(R, F, file)
<1>1. /\ s \in Seq(Nat) /\ v \in Nat
      /\ \A i, j \in DOMAIN s : i < j => s[i] < s[j]
      /\ v = IF s = <<>> THEN 0 ELSE s[Len(s)]
  BY DEF WellMigrated
<1>2. v \in Nat
  BY <1>1
<1>3. \/ now.state = s /\ now.version = v
      \/ now.state = s \o run /\ now.version = (IF run = <<>> THEN v ELSE run[Len(run)])
  <2>1. CASE Accepted(R, F, file)
    <3>1. now = [ok |-> TRUE, state |-> s \o run, version |-> Dbver(R)]
      BY <1>2, <2>1, OpenedRuns
    <3>2. v <= Dbver(R)
      BY <2>1 DEF Accepted, Supported
    <3>3. (IF run = <<>> THEN v ELSE run[Len(run)]) = Dbver(R)
      BY <1>2, <3>2, LastIsNewest
    <3> HIDE DEF s, run, v, now
    <3>4. QED
      BY <3>1, <3>3
  <2>2. CASE ~Accepted(R, F, file)
    <3>1. now = [ok |-> FALSE, state |-> s, version |-> v]
      BY <1>1, <2>2, OpenedRefuses
    <3> HIDE DEF s, run, v, now
    <3>2. QED
      BY <3>1
  <2>3. QED
    BY <2>1, <2>2
<1>4. /\ run \in Seq(Nat)
      /\ \A i, j \in DOMAIN run : i < j => run[i] < run[j]
      /\ \A i \in DOMAIN run : run[i] \in R /\ v < run[i]
  BY <1>2, PendingIs
<1>5. <<>> \in Seq(Nat) /\ DOMAIN <<>> = {}
  OBVIOUS
<1> HIDE DEF s, run, v, now
<1>6. CASE now.state = s /\ now.version = v
  <2>1. QED
    BY <1>1, <1>6 DEF WellMigrated, now
<1>7. CASE now.state = s \o run /\ now.version = (IF run = <<>> THEN v ELSE run[Len(run)])
  <2>1. /\ s \o run \in Seq(Nat)
        /\ \A i, j \in DOMAIN (s \o run) : i < j => (s \o run)[i] < (s \o run)[j]
        /\ run = <<>> => s \o run = s
        /\ run # <<>> => s \o run # <<>> /\ (s \o run)[Len(s \o run)] = run[Len(run)]
    BY <1>1, <1>4, Continued
  <2>2. now.version \in Nat
    <3>1. run # <<>> => run[Len(run)] \in Nat
      BY <1>4
    <3>2. QED
      BY <1>1, <1>7, <3>1
  <2>3. now.version = IF now.state = <<>> THEN 0 ELSE now.state[Len(now.state)]
    BY <1>1, <1>7, <2>1
  <2>4. QED
    BY <1>7, <2>1, <2>2, <2>3 DEF WellMigrated, now
<1>8. QED
  BY <1>3, <1>6, <1>7 DEF now

(* A module is a finite registry of versions above 0, or refused. *)
LEMMA ModuleIs ==
  ASSUME NEW module \in Seq(Entries), ~InvalidModule(module)
  PROVE  Registry(DOMAIN FromModule(module))
<1> DEFINE I == Scanned(module)
           f == [i \in I |-> MigrationVersion(module[i])]
           V == {MigrationVersion(module[i]) : i \in I}
<1>1. I \in SUBSET (1 .. Len(module)) /\ Len(module) \in Nat
  BY DEF Scanned
<1>2. IsFiniteSet(I)
  <2>1. 1 \in Int /\ Len(module) \in Int
    BY <1>1
  <2>2. IsFiniteSet(1 .. Len(module))
    BY <2>1, FS_Interval
  <2>3. QED
    BY <1>1, <2>2, FS_Subset
<1>3. \A i \in I : MigrationVersion(module[i]) \in Nat \ {0}
  <2>1. \A i \in I : module[i] \in Entries
    BY <1>1
  <2>2. \A e \in Entries : MigrationVersion(e) \in Nat
    BY DEF Entries, MigrationVersion
  <2>3. QED
    BY <2>1, <2>2 DEF InvalidModule
<1>4. f \in Surjection(I, V)
  BY DEF Surjection
<1>5. IsFiniteSet(V)
  <2> HIDE DEF I, f, V
  <2>1. QED
    BY <1>2, <1>4, FS_Surjection
<1>6. DOMAIN FromModule(module) = V
  BY DEF FromModule
<1>7. QED
  BY <1>3, <1>5, <1>6 DEF Registry

LEMMA ReleaseKeeps ==
  ASSUME NEW release \in AllReleases, NEW file, WellMigrated(file)
  PROVE  WellMigrated(Release(file, release))
<1>1. CASE InvalidModule(release.module)
  BY <1>1 DEF Release, WellMigrated
<1>2. CASE ~InvalidModule(release.module)
  <2>1. Registry(DOMAIN FromModule(release.module))
    BY <1>2, ModuleIs DEF AllReleases
  <2>2. Release(file, release) = Opened(DOMAIN FromModule(release.module), release.fails, file)
    BY <1>2 DEF Release
  <2>3. QED
    BY <2>1, <2>2, OpenedKeeps
<1>3. QED
  BY <1>1, <1>2

LEMMA ReleasesKeep ==
  ASSUME NEW releases \in Seq(AllReleases)
  PROVE  WellMigrated(FoldLeft(Release, NewFile, releases))
<1> DEFINE Bad == {n \in Nat : \E s \in Seq(AllReleases) : Len(s) = n /\ ~WellMigrated(Releases!Folded(s))}
<1>1. SUFFICES ASSUME Bad # {} PROVE FALSE
  <2>1. Releases!Folded(releases) = FoldLeft(Release, NewFile, releases)
    BY DEF Releases!Folded, Releases!FoldLeft, FoldLeft, Releases!MapThenFoldSet, MapThenFoldSet, Releases!Max, Max
  <2>2. Len(releases) \in Nat
    OBVIOUS
  <2>3. QED
    BY <2>1, <2>2
<1>2. PICK n \in Bad : \A m \in Bad : n <= m
  <2>1. Bad \in SUBSET Nat
    OBVIOUS
  <2> HIDE DEF Bad
  <2>2. QED
    BY <1>1, <2>1, Releases!LeastNumber
<1>3. PICK s \in Seq(AllReleases) : Len(s) = n /\ ~WellMigrated(Releases!Folded(s))
  OBVIOUS
<1>4. n \in Nat
  OBVIOUS
<1>5. n # 0
  <2>1. n = 0 => Releases!Folded(s) = NewFile
    BY <1>3, Releases!FoldedEmpty
  <2>2. WellMigrated(NewFile)
    BY DEF NewFile, WellMigrated
  <2>3. QED
    BY <1>3, <2>1, <2>2
<1> DEFINE r == SubSeq(s, 1, n - 1)
           k == n - 1
<1>6. k \in Nat /\ k + 1 = n /\ n \in 1 .. n
  BY <1>4, <1>5
<1>7. /\ r \in Seq(AllReleases) /\ Len(r) = k /\ DOMAIN r = 1 .. k
      /\ DOMAIN s = 1 .. n /\ s[n] \in AllReleases
      /\ \A i \in 1 .. k : r[i] = s[i]
  BY <1>3, <1>6
<1>8. k \notin Bad
  BY <1>2, <1>4
<1>9. WellMigrated(Releases!Folded(r))
  <2> HIDE DEF r, k
  <2>1. QED
    BY <1>6, <1>7, <1>8
<1> HIDE DEF r, k, Bad
<1>10. Releases!Folded(s) = Release(Releases!Folded(r), s[k + 1])
  BY <1>3, <1>6, <1>7, Releases!FoldedStep
<1>11. WellMigrated(Releases!Folded(s))
  BY <1>6, <1>7, <1>9, <1>10, ReleaseKeeps
<1>12. QED
  BY <1>3, <1>11

(* A registry reaches from its oldest to its newest migration. *)
LEMMA OldestIs ==
  ASSUME NEW R, Registry(R)
  PROVE  /\ Minver(R) \in Nat /\ \A w \in R : Minver(R) < w
         /\ R # {} => Minver(R) < Dbver(R)
         /\ R = {} => Minver(R) = 0
<1>1. CASE R = {}
  BY <1>1 DEF Minver
<1>2. CASE R # {}
  <2>1. Min(R) \in R /\ \A x \in R : Min(R) <= x
    BY <1>2, LeastIs DEF Registry
  <2>2. \A w \in R : w \in Nat /\ w # 0
    BY DEF Registry
  <2>3. Minver(R) = Min(R) - 1
    BY <1>2 DEF Minver
  <2>4. Dbver(R) \in Nat /\ Min(R) <= Dbver(R)
    BY <2>1, NewestIs
  <2>5. QED
    BY <1>2, <2>1, <2>2, <2>3, <2>4
<1>3. QED
  BY <1>1, <1>2

(* The way from one release to its successor is what is pending in both,   *)
(* one after the other.                                                    *)
LEMMA PathJoins ==
  ASSUME NEW A, Registry(A), NEW B, Registry(B), NEW v \in Nat,
         Succeeds(B, A), Supported(A, v), Supported(B, v)
  PROVE  /\ Supported(B, Dbver(A))
         /\ Pending(B, v) = Pending(A, v) \o Pending(B, Dbver(A))
<1> DEFINE d == Dbver(A)
           m == Minver(B)
           S == Above(A, v)
           T == Above(B, d)
<1>1. /\ d \in Nat /\ \A w \in A : w <= d /\ w \in Nat /\ w # 0
      /\ d = 0 \/ d \in A
  BY NewestIs DEF Registry
<1>2. /\ m \in Nat /\ \A w \in B : m < w /\ w \in Nat /\ w <= Dbver(B)
      /\ Dbver(B) \in Nat
      /\ B # {} => m < Dbver(B)
      /\ B = {} => m = 0
  BY NewestIs, OldestIs DEF Registry
<1>3. v <= d /\ v <= Dbver(B) /\ m <= v
  BY DEF Supported
<1>4. \A w : w \in B /\ w \in 1 .. d <=> w \in A /\ w > m
  BY DEF Succeeds
<1>5. \A w : w \in S <=> w \in A /\ w > v
  BY DEF Above
<1>6. \A w : w \in T <=> w \in B /\ w > d
  BY DEF Above
<1>7. \A w : w \in Above(B, v) <=> w \in B /\ w > v
  BY DEF Above
<1> HIDE DEF d, m, S, T
<1>8. d <= Dbver(B) /\ m <= d
  <2>1. m <= d
    BY <1>1, <1>2, <1>3
  <2>2. CASE d > m
    <3>1. d \in A
      BY <1>1, <1>2, <2>2
    <3>2. d \in B
      BY <1>4, <2>2, <3>1
    <3>3. QED
      BY <1>2, <2>1, <3>2
  <2>3. CASE ~ (d > m)
    <3>1. d = m
      BY <1>1, <1>2, <2>1, <2>3
    <3>2. QED
      BY <1>1, <1>2, <1>3, <3>1
  <2>4. QED
    BY <2>2, <2>3
<1>9. Above(B, v) = S \cup T
  <2>1. ASSUME NEW w \in B, w > v PROVE w \in S \cup T
    <3>1. CASE w > d
      BY <1>6, <3>1
    <3>2. CASE ~ (w > d)
      <4>1. w \in 1 .. d
        BY <1>1, <1>2, <1>3, <2>1, <3>2
      <4>2. QED
        BY <1>4, <1>5, <2>1, <4>1
    <3>3. QED
      BY <3>1, <3>2
  <2>2. ASSUME NEW w \in S PROVE w \in B /\ w > v
    <3>1. w \in A /\ w > v /\ w \in Nat
      BY <1>1, <1>5
    <3>2. w > m
      BY <1>2, <1>3, <3>1
    <3>3. QED
      BY <1>4, <3>1, <3>2
  <2>3. ASSUME NEW w \in T PROVE w \in B /\ w > v
    BY <1>1, <1>2, <1>3, <1>6
  <2>4. QED
    BY <1>7, <2>1, <2>2, <2>3
<1>10. /\ S \in SUBSET Nat /\ IsFiniteSet(S) /\ Pending(A, v) = InOrder(S)
       /\ T \in SUBSET Nat /\ IsFiniteSet(T) /\ Pending(B, d) = InOrder(T)
       /\ Pending(B, v) = InOrder(Above(B, v))
  <2>1. S \in SUBSET Nat /\ IsFiniteSet(S) /\ Pending(A, v) = InOrder(S)
    BY PendingIs DEF S
  <2>2. T \in SUBSET Nat /\ IsFiniteSet(T) /\ Pending(B, d) = InOrder(T)
    BY <1>1, PendingIs DEF T
  <2>3. Pending(B, v) = InOrder(Above(B, v))
    BY PendingIs
  <2>4. QED
    BY <2>1, <2>2, <2>3
<1>11. \A x \in S, y \in T : x < y
  <2> TAKE x \in S, y \in T
  <2>1. x \in Nat /\ x <= d /\ y \in Nat /\ y > d
    BY <1>1, <1>2, <1>5, <1>6
  <2>2. QED
    BY <1>1, <2>1
<1>12. Pending(B, v) = Pending(A, v) \o Pending(B, d)
  BY <1>9, <1>10, <1>11, ListJoins
<1>13. QED
  BY <1>8, <1>12 DEF Supported, d, m

LEMMA UpgradeIs ==
  ASSUME NEW A, Registry(A), NEW B, Registry(B),
         NEW file, file.version \in Nat, file.state \in Seq(Nat)
  PROVE  UpgradePath(A, B, file)
<1> DEFINE v     == file.version
           s     == file.state
           one   == Opened(A, {}, file)
           two   == Opened(B, {}, one)
           whole == Opened(B, {}, file)
<1>1. \A R, f : Accepted(R, {}, f) <=> Supported(R, f.version)
  BY DEF Accepted
<1>2. CASE ~Supported(A, v)
  <2>1. one = [ok |-> FALSE, state |-> s, version |-> v]
    BY <1>1, <1>2, OpenedRefuses
  <2>2. one.ok = FALSE
    BY <2>1
  <2>3. QED
    BY <2>2 DEF UpgradePath
<1>3. CASE Supported(A, v)
  <2>1. one = [ok |-> TRUE, state |-> s \o Pending(A, v), version |-> Dbver(A)]
    BY <1>1, <1>3, OpenedRuns
  <2>2. one.version = Dbver(A) /\ one.state = s \o Pending(A, v) /\ Dbver(A) \in Nat
    <3>1. Dbver(A) \in Nat
      BY NewestIs
    <3> HIDE DEF one
    <3>2. QED
      BY <2>1, <3>1
  <2>3. ASSUME Succeeds(B, A), Supported(B, v)
        PROVE  two.ok /\ two.state = whole.state /\ two.version = whole.version
    <3>1. /\ Supported(B, Dbver(A))
          /\ Pending(B, v) = Pending(A, v) \o Pending(B, Dbver(A))
      BY <1>3, <2>3, PathJoins
    <3>2. whole = [ok |-> TRUE, state |-> s \o Pending(B, v), version |-> Dbver(B)]
      BY <1>1, <2>3, OpenedRuns
    <3>3. Accepted(B, {}, one) /\ one.version \in Nat
      BY <1>1, <2>2, <3>1
    <3>4. two = [ok |-> TRUE, state |-> one.state \o Pending(B, one.version), version |-> Dbver(B)]
      BY <3>3, OpenedRuns
    <3>5. Pending(A, v) \in Seq(Nat) /\ Pending(B, Dbver(A)) \in Seq(Nat) /\ s \in Seq(Nat)
      BY <2>2, PendingIs
    <3>6. (s \o Pending(A, v)) \o Pending(B, Dbver(A)) = s \o Pending(B, v)
      <4>1. \A a, b, c \in Seq(Nat) : (a \o b) \o c = a \o (b \o c)
        OBVIOUS
      <4>2. (s \o Pending(A, v)) \o Pending(B, Dbver(A)) = s \o (Pending(A, v) \o Pending(B, Dbver(A)))
        BY <3>5, <4>1
      <4>3. QED
        BY <3>1, <4>2
    <3> HIDE DEF one, two, whole
    <3>7. QED
      BY <2>2, <3>2, <3>4, <3>6
  <2>4. ~Supported(B, v) => whole.ok = FALSE
    <3>1. ~Supported(B, v) => whole = [ok |-> FALSE, state |-> s, version |-> v]
      BY <1>1, OpenedRefuses
    <3> HIDE DEF whole
    <3>2. QED
      BY <3>1
  <2>5. QED
    BY <2>2, <2>3, <2>4 DEF UpgradePath
<1>4. QED
  BY <1>2, <1>3

(* The inputs that migrations are promised something for. *)
MigrationsTyped ==
  /\ Of("releases") => in[2] \in Seq(AllReleases)
  /\ Of("upgrade")  => /\ Registry(in[2][1]) /\ Registry(in[2][2])
                       /\ in[2][3].version \in Nat /\ in[2][3].state \in Seq(Nat)

(* Any number of releases, with any modules and any failures, opens a new  *)
(* file without a migration ever running twice or after a higher one, and  *)
(* two releases of which one succeeds the other leave what the later one   *)
(* leaves alone (Migrations.apply and from_module).                        *)
THEOREM MigrationsServe ==
  ASSUME MigrationsTyped
  PROVE  MigratesOnceInOrder
<1>1. ASSUME NEW releases \in Seq(AllReleases)
      PROVE  OnceInOrder(releases)
  <2> DEFINE file == FoldLeft(Release, NewFile, releases)
  <2>1. WellMigrated(file)
    BY ReleasesKeep
  <2> HIDE DEF file
  <2>2. /\ \A i, j \in DOMAIN file.state : i < j => file.state[i] < file.state[j]
        /\ file.version = IF file.state = <<>> THEN 0 ELSE file.state[Len(file.state)]
    BY <2>1 DEF WellMigrated
  <2>3. QED
    BY <2>2 DEF OnceInOrder, file
<1>2. Of("releases") => OnceInOrder(in[2])
  BY <1>1 DEF MigrationsTyped
<1>3. Of("upgrade") => UpgradePath(in[2][1], in[2][2], in[2][3])
  BY UpgradeIs DEF MigrationsTyped
<1>4. QED
  BY <1>2, <1>3 DEF MigratesOnceInOrder

-----------------------------------------------------------------------------
(* Callbacks *)

Parameters ==
  [name : {"value", "path", "prev", "state", "other"},
   passing : {"positional", "either", "keyword", "variadic"},
   default : BOOLEAN,
   ann : {"empty", "str", "any", "error", "report", "data", "kanta", "tag prev", "tag state", "unresolved"}]

AllKinds == Kinds \cup {"logfmt"}

(* What is injected is in the context, but for the name of a state dict.   *)
LEMMA InjectedIsThere ==
  ASSUME NEW kind \in AllKinds, NEW p \in Parameters, Injects(kind, p)
  PROVE  /\ \/ Resolved(p) \in Context(kind)
            \/ kind # "logfmt" /\ p.name \in StateNames /\ Resolved(p) # "unresolved"
         /\ kind = "logfmt" => Resolved(p) \in Context("logfmt")
<1>1. CASE StateTag(p.ann) # "none"
  <2>1. Resolved(p) = StateTag(p.ann) /\ StateTag(p.ann) \in {"prev", "state"}
    BY <1>1 DEF Resolved, StateTag
  <2>2. p.name \in StateNames \/ kind = "logfmt"
    <3>1. p.ann \in {"tag prev", "tag state"}
      BY <1>1 DEF StateTag
    <3>2. IsAllowed(kind, p.ann) => kind = "logfmt"
      BY <1>1, <3>1 DEF IsAllowed
    <3>3. QED
      BY <3>2 DEF Injects
  <2>3. kind = "logfmt" => Context(kind) = {"prev", "state", "kanta"}
    BY DEF Context
  <2>4. QED
    BY <2>1, <2>2, <2>3
<1>2. CASE StateTag(p.ann) = "none" /\ p.name \in StateNames
  <2>1. Resolved(p) = p.name /\ p.name \in {"prev", "state"}
    BY <1>2 DEF Resolved, StateNames
  <2>2. kind = "logfmt" => Context(kind) = {"prev", "state", "kanta"}
    BY DEF Context
  <2>3. QED
    BY <1>2, <2>1, <2>2
<1>3. CASE StateTag(p.ann) = "none" /\ p.name \notin StateNames
  <2>1. IsAllowed(kind, p.ann)
    BY <1>3 DEF Injects
  <2>2. p.ann \in {"error", "report", "data", "kanta"}
    BY <1>3, <2>1 DEF IsAllowed
  <2>3. Resolved(p) = p.ann
    BY <1>3, <2>2 DEF Resolved
  <2>4. CASE p.ann = "error"
    <3>1. kind = "fatal_error"
      BY <1>3, <2>1, <2>4 DEF IsAllowed
    <3>2. QED
      BY <2>3, <2>4, <3>1 DEF Context
  <2>5. CASE p.ann = "report"
    <3>1. kind = "logmigr"
      BY <1>3, <2>1, <2>5 DEF IsAllowed
    <3>2. QED
      BY <2>3, <2>5, <3>1 DEF Context
  <2>6. CASE p.ann = "data"
    <3>1. kind \in {"bootstrap", "validate"}
      BY <1>3, <2>1, <2>6 DEF IsAllowed
    <3>2. QED
      BY <2>3, <2>6, <3>1 DEF Context
  <2>7. CASE p.ann = "kanta"
    <3>1. "kanta" \in Context(kind)
      BY DEF Context, AllKinds, Kinds
    <3>2. kind = "logfmt" => "kanta" \in Context("logfmt")
      BY <3>1
    <3>3. QED
      BY <2>3, <2>7, <3>1, <3>2
  <2>8. QED
    BY <2>2, <2>4, <2>5, <2>6, <2>7
<1>4. QED
  BY <1>1, <1>2, <1>3

LEMMA AcceptedCalls ==
  ASSUME NEW kind \in AllKinds, NEW sig \in Seq(Parameters), Accepts(kind, sig)
  PROVE  /\ \A i \in Injected(kind, sig) :
              \/ Resolved(sig[i]) \in Context(kind)
              \/ kind # "logfmt" /\ sig[i].name \in StateNames /\ Resolved(sig[i]) # "unresolved"
         /\ Call(kind, sig) <=> \A i \in Injected(kind, sig) : sig[i].passing # "positional"
<1>1. \A i \in Injected(kind, sig) : i \in DOMAIN sig /\ sig[i] \in Parameters /\ Injects(kind, sig[i])
  BY DEF Injected
<1>2. \A i \in DOMAIN sig : i \in Injected(kind, sig) \/ sig[i].default
  BY DEF Accepts, Refused, Injected
<1>3. \A i \in Injected(kind, sig) :
        \/ Resolved(sig[i]) \in Context(kind)
        \/ kind # "logfmt" /\ sig[i].name \in StateNames /\ Resolved(sig[i]) # "unresolved"
  BY <1>1, InjectedIsThere
<1>4. Call(kind, sig) <=> \A i \in Injected(kind, sig) : sig[i].passing # "positional"
  BY <1>2 DEF Call, Binds, Optional
<1>5. QED
  BY <1>3, <1>4

LEMMA FormatterCalls ==
  ASSUME NEW sig \in Seq(Parameters), NEW returns
  PROVE  FormatterIsCalled(sig, returns)
<1>1. SUFFICES ASSUME AcceptsFormatter(sig, returns)
               PROVE  /\ \A i \in FormatterNames(sig) : IsPath(sig[i]) \/ Resolved(sig[i]) \in Context("logfmt")
                      /\ CallFormatter(sig) <=>
                           sig[1].passing # "keyword"
                             /\ \A i \in FormatterNames(sig) : sig[i].passing # "positional"
  BY DEF FormatterIsCalled
<1>2. /\ sig # <<>> /\ Len(sig) \in Nat /\ DOMAIN sig = 1 .. Len(sig) /\ 1 \in DOMAIN sig
      /\ \A i \in 2 .. Len(sig) : i \in DOMAIN sig /\ sig[i] \in Parameters
  BY <1>1 DEF AcceptsFormatter
<1>3. \A i \in FormatterNames(sig) : i \in 2 .. Len(sig) /\ (IsPath(sig[i]) \/ Injects("logfmt", sig[i]))
  BY DEF FormatterNames
<1>4. \A i \in FormatterNames(sig) : IsPath(sig[i]) \/ Resolved(sig[i]) \in Context("logfmt")
  <2>1. "logfmt" \in AllKinds
    BY DEF AllKinds
  <2>2. QED
    BY <1>2, <1>3, <2>1, InjectedIsThere
<1>5. \A i \in 2 .. Len(sig) : i \in FormatterNames(sig) \/ sig[i].default
  BY <1>1 DEF AcceptsFormatter, Refused, FormatterNames
<1>6. ASSUME sig[1].passing # "keyword", \A i \in FormatterNames(sig) : sig[i].passing # "positional"
      PROVE  CallFormatter(sig)
  <2>1. \A i \in 1 .. 1 : i \in DOMAIN sig /\ sig[i].passing # "keyword"
    BY <1>2, <1>6
  <2>2. \A i \in DOMAIN sig : i <= 1 \/ i \in FormatterNames(sig) \/ sig[i].default
    <3> TAKE i \in DOMAIN sig
    <3>1. i <= 1 \/ i \in 2 .. Len(sig)
      BY <1>2
    <3>2. QED
      BY <1>5, <3>1
  <2>3. QED
    BY <1>6, <2>1, <2>2 DEF CallFormatter, Binds, Optional
<1>7. ASSUME CallFormatter(sig)
      PROVE  sig[1].passing # "keyword" /\ \A i \in FormatterNames(sig) : sig[i].passing # "positional"
  <2>1. /\ \A i \in 1 .. 1 : sig[i].passing # "keyword"
        /\ \A i \in FormatterNames(sig) : sig[i].passing # "positional"
    BY <1>7 DEF CallFormatter, Binds
  <2>2. 1 \in 1 .. 1
    OBVIOUS
  <2>3. QED
    BY <2>1, <2>2
<1>8. QED
  BY <1>4, <1>6, <1>7

(* A resolve that is accepted takes at least a value and a path. *)
LEMMA ResolveTakesBoth ==
  ASSUME NEW resolve \in Seq(Parameters), resolve # <<>>, PathAt(Tail(resolve)) # 0
  PROVE  Len(resolve) \in Nat /\ Len(resolve) >= 2
<1> DEFINE n    == Len(resolve)
           rest == Tail(resolve)
<1>1. n \in Nat /\ n >= 1
  OBVIOUS
<1>2. ASSUME n = 1 PROVE FALSE
  <2>1. Len(rest) = 0
    BY <1>2
  <2>2. rest = <<>> => PathAt(rest) = 0
    <3>1. 1 .. Len(<<>>) = {}
      OBVIOUS
    <3>2. PathAt(<<>>) = 0
      BY <3>1 DEF PathAt, SelectInSeq
    <3>3. QED
      BY <3>2
  <2>3. rest = <<>>
    <3>1. rest \in Seq(Parameters)
      OBVIOUS
    <3> HIDE DEF rest
    <3>2. QED
      BY <2>1, <3>1
  <2>4. QED
    BY <2>2, <2>3
<1> HIDE DEF n
<1>3. n >= 2
  BY <1>1, <1>2
<1>4. QED
  BY <1>1, <1>3 DEF n

LEMMA ClassCalls ==
  ASSUME NEW init \in Seq(Parameters), NEW resolve \in Seq(Parameters), NEW returns
  PROVE  ClassIsCalled(init, resolve, returns)
<1>1. SUFFICES ASSUME AcceptsClass(init, resolve, returns)
               PROVE  /\ Call("logfmt", init) <=>
                           \A i \in Injected("logfmt", init) : init[i].passing # "positional"
                      /\ Len(resolve) >= 2
                      /\ (\A i \in 1 .. 2 : resolve[i].passing # "keyword")
                             /\ (\A i \in 3 .. Len(resolve) : Optional(resolve[i])) =>
                           CallResolve(resolve)
  BY DEF ClassIsCalled
<1>2. Call("logfmt", init) <=> \A i \in Injected("logfmt", init) : init[i].passing # "positional"
  <2>1. "logfmt" \in AllKinds /\ Accepts("logfmt", init)
    BY <1>1 DEF AllKinds, AcceptsClass
  <2>2. QED
    BY <2>1, AcceptedCalls
<1>3. resolve # <<>> /\ PathAt(Tail(resolve)) # 0
  BY <1>1 DEF AcceptsClass
<1>4. Len(resolve) \in Nat /\ Len(resolve) >= 2
  BY <1>3, ResolveTakesBoth
<1>5. ASSUME \A i \in 1 .. 2 : resolve[i].passing # "keyword",
             \A i \in 3 .. Len(resolve) : Optional(resolve[i])
      PROVE  CallResolve(resolve)
  <2> DEFINE n == Len(resolve)
  <2>1. DOMAIN resolve = 1 .. n
    OBVIOUS
  <2>2. n \in Nat /\ n >= 2
    BY <1>4
  <2> HIDE DEF n
  <2>3. \A i \in 1 .. 2 : i \in 1 .. n
    BY <2>2
  <2>4. \A i \in 1 .. n : i <= 2 \/ i \in 3 .. n
    BY <2>2
  <2>5. \A i \in 3 .. n : Optional(resolve[i])
    BY <1>5 DEF n
  <2>6. QED
    BY <1>5, <2>1, <2>3, <2>4, <2>5 DEF CallResolve, Binds
<1>6. QED
  BY <1>2, <1>4, <1>5

-----------------------------------------------------------------------------
(* Chains *)

Formatters == [pattern : STRING, raises : BOOLEAN, text : STRING]
Handlers   == [passes : BOOLEAN, raises : BOOLEAN]

(* The formatters that have a text for a path, the first of which is taken. *)
Serves(f, path) == f.pattern \in {"any", path} /\ ~f.raises /\ f.text # "none"
Hits(s, path) == {i \in 1 .. Len(s) : Serves(s[i], path)}

LEMMA FirstIsTaken ==
  ASSUME NEW s, NEW path
  PROVE  /\ Hits(s, path) = {} => FormatValue(s, path) = "none"
         /\ Hits(s, path) # {} =>
              FormatValue(s, path) = s[Min(Hits(s, path))].text /\ Min(Hits(s, path)) \in Hits(s, path)
                /\ \A x \in Hits(s, path) : Min(Hits(s, path)) <= x
<1> DEFINE I == {i \in 1 .. Len(s) : s[i].pattern \in {"any", path} /\ ~s[i].raises /\ s[i].text # "none"}
           hit == IF I # {} THEN Min(I) ELSE 0
<1>1. Hits(s, path) = I
  BY DEF Hits, Serves
<1>2. FormatValue(s, path) = IF hit = 0 THEN "none" ELSE s[hit].text
  BY DEF FormatValue, SelectInSeq
<1>3. I \in SUBSET Nat /\ 0 \notin I
  OBVIOUS
<1> HIDE DEF I
<1>4. I # {} => Min(I) \in I /\ \A x \in I : Min(I) <= x
  BY <1>3, LeastIs
<1>5. I = {} => FormatValue(s, path) = "none"
  BY <1>2
<1>6. I # {} => FormatValue(s, path) = s[Min(I)].text
  <2>1. I # {} => hit = Min(I) /\ hit # 0
    BY <1>3, <1>4
  <2>2. QED
    BY <1>2, <2>1
<1>7. QED
  BY <1>1, <1>4, <1>5, <1>6

(* Without position i, what follows it moves down. *)
LEMMA RemovedAt ==
  ASSUME NEW T, NEW s \in Seq(T), NEW i \in 1 .. Len(s)
  PROVE  /\ RemoveAt(s, i) \in Seq(T) /\ Len(RemoveAt(s, i)) = Len(s) - 1
         /\ \A j \in 1 .. Len(s) - 1 : RemoveAt(s, i)[j] = IF j < i THEN s[j] ELSE s[j + 1]
<1> DEFINE n == Len(s)
           r == RemoveAt(s, i)
           a == SubSeq(s, 1, i - 1)
           b == SubSeq(s, i + 1, n)
<1>1. n \in Nat /\ i \in Nat /\ 1 <= i /\ i <= n /\ i - 1 \in Nat /\ n - i \in Nat
  OBVIOUS
<1>2. a \in Seq(T) /\ Len(a) = i - 1 /\ \A j \in 1 .. i - 1 : a[j] = s[j]
  BY <1>1
<1>3. b \in Seq(T) /\ Len(b) = n - i /\ \A j \in 1 .. n - i : b[j] = s[i + j]
  BY <1>1
<1>4. r = a \o b
  BY DEF RemoveAt
<1> HIDE DEF a, b, n, r
<1>5. r \in Seq(T) /\ Len(r) = n - 1
  <2>1. r \in Seq(T) /\ Len(r) = Len(a) + Len(b)
    <3>1. \A x, y \in Seq(T) : x \o y \in Seq(T) /\ Len(x \o y) = Len(x) + Len(y)
      OBVIOUS
    <3>2. a \in Seq(T) /\ b \in Seq(T)
      BY <1>2, <1>3
    <3>3. QED
      BY <1>4, <3>1, <3>2
  <2>2. (i - 1) + (n - i) = n - 1
    BY <1>1
  <2>3. QED
    BY <1>2, <1>3, <2>1, <2>2
<1>6. ASSUME NEW j \in 1 .. n - 1 PROVE r[j] = IF j < i THEN s[j] ELSE s[j + 1]
  <2>1. CASE j < i
    <3>1. j \in 1 .. i - 1
      BY <1>1, <2>1
    <3>2. r[j] = a[j]
      BY <1>2, <1>3, <1>4, <3>1
    <3>3. QED
      BY <1>2, <2>1, <3>1, <3>2
  <2>2. CASE ~ (j < i)
    <3>1. j - (i - 1) \in 1 .. n - i /\ i + (j - (i - 1)) = j + 1
      BY <1>1, <2>2
    <3>2. r[j] = b[j - (i - 1)]
      <4>1. j \in 1 .. Len(a) + Len(b) /\ ~ (j <= Len(a))
        BY <1>1, <1>2, <1>3, <2>2
      <4>2. (a \o b)[j] = b[j - Len(a)]
        BY <1>2, <1>3, <4>1
      <4>3. QED
        BY <1>2, <1>4, <4>2
    <3>3. QED
      BY <1>3, <2>2, <3>1, <3>2
  <2>3. QED
    BY <2>1, <2>2
<1>7. QED
  BY <1>5, <1>6 DEF n, r

LEMMA ChainIsolates ==
  ASSUME NEW s \in Seq(Formatters), NEW path
  PROVE  FailureIsIsolated(s, path)
<1>1. SUFFICES ASSUME NEW i \in DOMAIN s, s[i].raises \/ s[i].pattern \notin {"any", path}
               PROVE  FormatValue(s, path) = FormatValue(RemoveAt(s, i), path)
  BY DEF FailureIsIsolated
<1> DEFINE n == Len(s)
           r == RemoveAt(s, i)
           I == Hits(s, path)
           J == Hits(r, path)
<1>2. n \in Nat /\ i \in 1 .. n
  OBVIOUS
<1>3. /\ r \in Seq(Formatters) /\ Len(r) = n - 1
      /\ \A j \in 1 .. n - 1 : r[j] = IF j < i THEN s[j] ELSE s[j + 1]
  <2>1. /\ RemoveAt(s, i) \in Seq(Formatters) /\ Len(RemoveAt(s, i)) = Len(s) - 1
        /\ \A j \in 1 .. Len(s) - 1 : RemoveAt(s, i)[j] = IF j < i THEN s[j] ELSE s[j + 1]
    BY <1>2, RemovedAt
  <2>2. QED
    BY <2>1
<1>4. \A j : j \in I <=> j \in 1 .. n /\ Serves(s[j], path)
  BY DEF Hits
<1>5. \A j : j \in J <=> j \in 1 .. n - 1 /\ Serves(r[j], path)
  BY <1>3 DEF Hits
<1>6. i \notin I
  BY <1>1, <1>4 DEF Serves
<1>7. /\ I = {} => FormatValue(s, path) = "none"
      /\ I # {} => FormatValue(s, path) = s[Min(I)].text /\ Min(I) \in I /\ \A x \in I : Min(I) <= x
  BY FirstIsTaken
<1>8. /\ J = {} => FormatValue(r, path) = "none"
      /\ J # {} => FormatValue(r, path) = r[Min(J)].text /\ Min(J) \in J /\ \A x \in J : Min(J) <= x
  BY FirstIsTaken
<1> HIDE DEF n, r, I, J
<1>9. ASSUME NEW j \in J PROVE (j < i /\ j \in I) \/ (~ (j < i) /\ j + 1 \in I)
  <2>1. j \in 1 .. n - 1 /\ Serves(r[j], path)
    BY <1>5
  <2>2. CASE j < i
    <3>1. r[j] = s[j] /\ j \in 1 .. n
      BY <1>2, <1>3, <2>1, <2>2
    <3>2. QED
      BY <1>4, <2>1, <2>2, <3>1
  <2>3. CASE ~ (j < i)
    <3>1. r[j] = s[j + 1] /\ j + 1 \in 1 .. n
      BY <1>2, <1>3, <2>1, <2>3
    <3>2. QED
      BY <1>4, <2>1, <2>3, <3>1
  <2>4. QED
    BY <2>2, <2>3
<1>10. CASE I = {}
  <2>1. J = {}
    BY <1>9, <1>10
  <2>2. QED
    BY <1>7, <1>8, <1>10, <2>1 DEF r
<1>11. CASE I # {}
  <2> DEFINE m == Min(I)
             k == IF m < i THEN m ELSE m - 1
  <2>1. m \in 1 .. n /\ m # i /\ Serves(s[m], path) /\ \A x \in I : m <= x
    BY <1>4, <1>6, <1>7, <1>11
  <2> HIDE DEF m
  <2>2. k \in 1 .. n - 1 /\ r[k] = s[m]
    <3>1. CASE m < i
      <4>1. m \in 1 .. n - 1
        BY <1>2, <2>1, <3>1
      <4>2. QED
        BY <1>3, <3>1, <4>1
    <3>2. CASE ~ (m < i)
      <4>1. m - 1 \in 1 .. n - 1 /\ ~ (m - 1 < i) /\ (m - 1) + 1 = m
        BY <1>2, <2>1, <3>2
      <4>2. r[m - 1] = s[(m - 1) + 1]
        BY <1>3, <4>1
      <4>3. QED
        BY <3>2, <4>1, <4>2
    <3>3. QED
      BY <3>1, <3>2
  <2>3. k \in J
    BY <1>5, <2>1, <2>2
  <2>4. ASSUME NEW j \in J PROVE k <= j
    <3>1. j \in 1 .. n - 1
      BY <1>5
    <3>2. CASE j < i /\ j \in I
      BY <1>2, <2>1, <3>1, <3>2
    <3>3. CASE ~ (j < i) /\ j + 1 \in I
      BY <1>2, <2>1, <3>1, <3>3
    <3>4. QED
      BY <1>9, <3>2, <3>3
  <2> HIDE DEF k
  <2>5. Min(J) = k
    <3>1. Min(J) \in J /\ Min(J) <= k /\ k <= Min(J)
      BY <1>8, <2>3, <2>4
    <3>2. Min(J) \in Int /\ k \in Int
      BY <1>5, <2>2, <3>1
    <3>3. QED
      BY <3>1, <3>2
  <2>6. QED
    BY <1>7, <1>8, <1>11, <2>2, <2>3, <2>5 DEF r, m
<1>12. QED
  BY <1>10, <1>11

(* The first handler that ends the chain. *)
Stops(h) == h.raises \/ ~h.passes

LEMMA ChainTells ==
  ASSUME NEW s \in Seq(Handlers), NEW fails \in BOOLEAN
  PROVE  EventIsTold(s, fails)
<1> DEFINE n    == Len(s)
           I    == {i \in 1 .. n : Stops(s[i])}
           last == IF I # {} THEN Min(I) ELSE 0
           e    == EmitEvent(s, fails)
           taken == {i \in e.called : ~s[i].raises /\ ~s[i].passes}
<1>1. n \in Nat /\ DOMAIN s = 1 .. n /\ \A i \in 1 .. n : s[i].raises \in BOOLEAN /\ s[i].passes \in BOOLEAN
  <2>1. n \in Nat /\ DOMAIN s = 1 .. n /\ \A i \in 1 .. n : s[i] \in Handlers
    OBVIOUS
  <2>2. \A h \in Handlers : h.raises \in BOOLEAN /\ h.passes \in BOOLEAN
    BY DEF Handlers
  <2>3. QED
    BY <2>1, <2>2
<1>2. e = [called   |-> IF last = 0 THEN DOMAIN s ELSE 1 .. last,
           rendered |-> IF last = 0 THEN TRUE ELSE s[last].raises,
           told     |-> (IF last = 0 THEN TRUE ELSE s[last].raises) /\ ~fails]
  BY DEF EmitEvent, SelectInSeq, Stops
<1>3. I \in SUBSET Nat /\ 0 \notin I /\ \A i : i \in I <=> i \in 1 .. n /\ Stops(s[i])
  OBVIOUS
<1> HIDE DEF n, I, e
<1>4. SUFFICES /\ e.rendered => taken = {} /\ (e.told \/ fails)
               /\ ~e.rendered => ~e.told /\ taken = {Max(e.called)}
               /\ \A i \in DOMAIN s : s[i].raises => e.called \subseteq 1 .. i
  BY DEF EventIsTold, e
<1>5. CASE I = {}
  <2>1. e.called = 1 .. n /\ e.rendered = TRUE /\ e.told = ~fails
    BY <1>1, <1>2, <1>5
  <2>2. \A i \in 1 .. n : ~s[i].raises /\ s[i].passes
    BY <1>3, <1>5 DEF Stops
  <2>3. taken = {}
    BY <2>1, <2>2
  <2>4. \A i \in DOMAIN s : ~s[i].raises
    BY <1>1, <2>2
  <2>5. QED
    BY <2>1, <2>3, <2>4
<1>6. CASE I # {}
  <2>1. last \in I /\ \A x \in I : last <= x
    BY <1>3, <1>6, LeastIs
  <2> HIDE DEF last
  <2>2. last \in 1 .. n /\ last # 0 /\ Stops(s[last])
    BY <1>3, <2>1
  <2>3. e.called = 1 .. last /\ e.rendered = s[last].raises /\ e.told = (s[last].raises /\ ~fails)
    BY <1>2, <2>2
  <2>4. ASSUME NEW i \in 1 .. last, i # last PROVE ~ (~s[i].raises /\ ~s[i].passes)
    <3>1. i \in 1 .. n /\ ~ (last <= i)
      BY <1>1, <2>2, <2>4
    <3>2. i \notin I
      BY <2>1, <3>1
    <3>3. QED
      BY <1>3, <3>1, <3>2 DEF Stops
  <2>5. ASSUME NEW i \in DOMAIN s, s[i].raises PROVE e.called \subseteq 1 .. i
    <3>1. i \in 1 .. n /\ Stops(s[i])
      BY <1>1, <2>5 DEF Stops
    <3>2. last <= i
      BY <1>3, <2>1, <3>1
    <3>3. 1 .. last \subseteq 1 .. i
      BY <1>1, <2>2, <3>1, <3>2
    <3>4. QED
      BY <2>3, <3>3
  <2>6. CASE s[last].raises
    <3>1. taken = {}
      BY <2>3, <2>4, <2>6
    <3>2. e.rendered /\ (e.told \/ fails)
      BY <2>3, <2>6
    <3>3. QED
      BY <2>5, <3>1, <3>2
  <2>7. CASE ~s[last].raises
    <3>1. ~s[last].passes
      BY <2>2, <2>7 DEF Stops
    <3>2. last \in 1 .. last
      BY <1>1, <2>2
    <3>3. taken = {last}
      BY <2>3, <2>4, <2>7, <3>1, <3>2
    <3>4. Max(1 .. last) = last
      <4>1. \A x \in 1 .. last : x \in Int /\ last >= x
        BY <1>1, <2>2
      <4>2. \A x \in 1 .. last : (\A y \in 1 .. last : x >= y) => x = last
        BY <3>2, <4>1
      <4>3. QED
        BY <3>2, <4>1, <4>2 DEF Max
    <3>5. ~e.rendered /\ ~e.told /\ taken = {Max(e.called)}
      BY <2>3, <2>7, <3>3, <3>4
    <3>6. QED
      BY <2>5, <3>5
  <2>8. QED
    BY <2>6, <2>7
<1>7. QED
  BY <1>5, <1>6

(* The inputs that callbacks are promised something for. *)
CallbacksTyped ==
  /\ Of("callback")  => in[2][1] \in Kinds /\ in[2][2] \in Seq(Parameters)
  /\ Of("formatter") => in[2][1] \in Seq(Parameters)
  /\ Of("class")     => in[2][1] \in Seq(Parameters) /\ in[2][2] \in Seq(Parameters)
  /\ Of("chain")     => in[2][1] \in Seq(Formatters)
  /\ Of("emit")      => in[2][1] \in Seq(Handlers) /\ in[2][2] \in BOOLEAN

(* Of functions with any number of parameters, one that registration       *)
(* accepts can be called exactly if no parameter that it injects is        *)
(* positional only (nor a formatter's value keyword only); a class's       *)
(* resolve can be called if its first two parameters are not keyword only  *)
(* and the others are optional.  In chains of any length a formatter that  *)
(* fails changes nothing for the others; an event is told once, unless the *)
(* rendering fails, and a handler that fails ends its chain and leaves the *)
(* event to the rendering (_validate_function, make_formatter,             *)
(* format_value and emit_event).                                           *)
THEOREM CallbacksAlwaysServe ==
  ASSUME CallbacksTyped
  PROVE  CallbacksServe
<1>1. ASSUME NEW kind \in Kinds, NEW sig \in Seq(Parameters)
      PROVE  AcceptedIsCalled(kind, sig)
  <2>1. kind \in AllKinds
    BY DEF AllKinds
  <2>2. QED
    BY <2>1, AcceptedCalls DEF AcceptedIsCalled
<1>2. Of("callback") => AcceptedIsCalled(in[2][1], in[2][2])
  BY <1>1 DEF CallbacksTyped
<1>3. Of("formatter") => FormatterIsCalled(in[2][1], in[2][2])
  BY FormatterCalls DEF CallbacksTyped
<1>4. Of("class") => ClassIsCalled(in[2][1], in[2][2], "empty")
  BY ClassCalls DEF CallbacksTyped
<1>5. Of("chain") => FailureIsIsolated(in[2][1], in[2][2])
  BY ChainIsolates DEF CallbacksTyped
<1>6. Of("emit") => EventIsTold(in[2][1], in[2][2])
  BY ChainTells DEF CallbacksTyped
<1>7. QED
  BY <1>2, <1>3, <1>4, <1>5, <1>6 DEF CallbacksServe

-----------------------------------------------------------------------------
(* Ranges *)

AllBounds == (Units \X Int) \cup {Unbounded}
AllRanges == [sep : {":", "..", "single"}, from : AllBounds, to : AllBounds]

Line(events, i) == events[i].line

(* A log is a sequence; of a text log the lines ascend from 1. *)
IsEvent(e) == e.kind \in {"change", "snapshot"} /\ e.line \in Nat /\ e.v \in Nat
IsLog(log) == \E S : log \in Seq(S)
Ordered(events) == \A i, j \in DOMAIN events : i < j => Line(events, i) < Line(events, j)
TextLog(events) ==
  IsLog(events) /\ (\A i \in DOMAIN events : IsEvent(events[i])) /\ Numbered(events) /\ Ordered(events)

LEMMA TextLogIs ==
  ASSUME NEW events, TextLog(events)
  PROVE  /\ Len(events) \in Nat /\ DOMAIN events = 1 .. Len(events)
         /\ EndOfFile(events) \in Nat
         /\ \A i \in 1 .. Len(events) :
              /\ i \in Nat /\ Line(events, i) \in Nat /\ 0 < Line(events, i)
              /\ Line(events, i) < EndOfFile(events)
              /\ events[i].v \in Nat /\ events[i].kind \in {"change", "snapshot"}
         /\ \A i, j \in 1 .. Len(events) : Line(events, i) <= Line(events, j) <=> i <= j
<1> DEFINE n == Len(events)
<1>1. n \in Nat /\ DOMAIN events = 1 .. n
  BY DEF TextLog, IsLog
<1>2. \A i \in 1 .. n : events[i].line \in Nat /\ events[i].v \in Nat /\ events[i].kind \in {"change", "snapshot"}
  BY <1>1 DEF TextLog, IsEvent
<1>3. \A i \in 1 .. n : i \in Nat /\ Line(events, i) \in Nat /\ 0 < Line(events, i)
  BY <1>1, <1>2 DEF TextLog, Numbered, Line
<1>4. \A i, j \in 1 .. n : i < j => Line(events, i) < Line(events, j)
  BY <1>1 DEF TextLog, Ordered
<1>5. events = <<>> <=> n = 0
  <2>1. PICK S : events \in Seq(S)
    BY DEF TextLog, IsLog
  <2>2. QED
    BY <2>1
<1>6. EndOfFile(events) = IF n = 0 THEN 0 ELSE Line(events, n) + 1
  BY <1>5 DEF EndOfFile, Line
<1> HIDE DEF n
<1>7. EndOfFile(events) \in Nat
  <2>1. n # 0 => n \in 1 .. n
    BY <1>1
  <2>2. QED
    BY <1>3, <1>6, <2>1
<1>8. \A i, j \in 1 .. n : Line(events, i) <= Line(events, j) <=> i <= j
  <2> TAKE i, j \in 1 .. n
  <2>1. i < j \/ i = j \/ j < i
    BY <1>3
  <2>2. /\ i \in Nat /\ j \in Nat /\ Line(events, i) \in Nat /\ Line(events, j) \in Nat
        /\ i < j => Line(events, i) < Line(events, j)
        /\ j < i => Line(events, j) < Line(events, i)
    BY <1>3, <1>4
  <2>3. QED
    BY <2>1, <2>2
<1>9. \A i \in 1 .. n : Line(events, i) < EndOfFile(events)
  <2> TAKE i \in 1 .. n
  <2>1. n # 0 /\ n \in 1 .. n /\ i <= n
    BY <1>1
  <2>2. Line(events, i) <= Line(events, n) /\ Line(events, i) \in Nat /\ Line(events, n) \in Nat
    BY <1>3, <1>8, <2>1
  <2>3. QED
    BY <1>6, <2>1, <2>2
<1>10. \A i \in 1 .. n : events[i].v \in Nat /\ events[i].kind \in {"change", "snapshot"}
  BY <1>2
<1>11. QED
  BY <1>1, <1>3, <1>7, <1>8, <1>9, <1>10 DEF n

(* What is shown is what the selection covers. *)
LEMMA ShownIs ==
  ASSUME NEW events, TextLog(events), NEW s, s.start \in Int, s.end \in Int
  PROVE  Shown(events, s) = {i \in 1 .. Len(events) : s.start <= Line(events, i) /\ Line(events, i) < s.end}
<1> DEFINE n    == Len(events)
           I    == {i \in 1 .. n : events[i].line >= s.end}
           stop == IF I # {} THEN Min(I) ELSE 0
<1>1. /\ n \in Nat /\ DOMAIN events = 1 .. n
      /\ \A i \in 1 .. n : i \in Nat /\ Line(events, i) \in Nat
      /\ \A i, j \in 1 .. n : Line(events, i) <= Line(events, j) <=> i <= j
  BY TextLogIs
<1>2. Replayed(events, s.end) = IF stop = 0 THEN events ELSE SubSeq(events, 1, stop - 1)
  BY DEF Replayed, SelectInSeq
<1>3. I \in SUBSET Nat /\ 0 \notin I /\ \A i : i \in I <=> i \in 1 .. n /\ Line(events, i) >= s.end
  BY DEF Line
<1>4. PICK S : events \in Seq(S)
  BY DEF TextLog, IsLog
<1>5. Shown(events, s) = {i \in DOMAIN Replayed(events, s.end) : Line(events, i) >= s.start}
  BY DEF Shown, Line
<1> HIDE DEF I
<1>6. CASE I = {}
  <2>1. DOMAIN Replayed(events, s.end) = 1 .. n
    BY <1>1, <1>2, <1>6
  <2>2. \A i \in 1 .. n : Line(events, i) < s.end
    BY <1>1, <1>3, <1>6
  <2>3. QED
    BY <1>1, <1>5, <2>1, <2>2
<1>7. CASE I # {}
  <2>1. stop \in I /\ \A x \in I : stop <= x
    BY <1>3, <1>7, LeastIs
  <2> HIDE DEF stop
  <2>2. stop \in 1 .. n /\ stop # 0 /\ Line(events, stop) >= s.end
    BY <1>3, <2>1
  <2>3. DOMAIN Replayed(events, s.end) = 1 .. stop - 1
    <3>1. Replayed(events, s.end) = SubSeq(events, 1, stop - 1)
      BY <1>2, <2>2
    <3>2. stop - 1 \in 0 .. Len(events)
      BY <1>1, <2>2
    <3>3. Len(SubSeq(events, 1, stop - 1)) = stop - 1 /\ SubSeq(events, 1, stop - 1) \in Seq(S)
      BY <1>4, <3>2
    <3>4. QED
      BY <3>1, <3>3
  <2>4. \A i \in 1 .. n : i \in 1 .. stop - 1 <=> Line(events, i) < s.end
    <3> TAKE i \in 1 .. n
    <3>1. i \in 1 .. stop - 1 <=> ~ (stop <= i)
      BY <1>1, <2>2
    <3>2. i \in I => stop <= i
      BY <2>1
    <3>3. stop <= i => Line(events, stop) <= Line(events, i)
      BY <1>1, <2>2
    <3>4. Line(events, i) \in Nat /\ Line(events, stop) \in Nat
      BY <1>1, <2>2
    <3>5. QED
      BY <1>3, <2>2, <3>1, <3>2, <3>3, <3>4
  <2>5. \A i \in 1 .. stop - 1 : i \in 1 .. n
    BY <1>1, <2>2
  <2>6. \A i \in 1 .. n : Line(events, i) >= s.start <=> s.start <= Line(events, i)
    BY <1>1
  <2>7. QED
    BY <1>5, <2>3, <2>4, <2>5, <2>6
<1>8. QED
  BY <1>6, <1>7

(* How many of the positions are at most i says which they are. *)
LEMMA CountIs ==
  ASSUME NEW n \in Nat, NEW P \in SUBSET (1 .. n), NEW i \in 1 .. n
  PROVE  /\ Cardinality({j \in 1 .. i : j \in P}) \in 0 .. Cardinality(P)
         /\ \A k \in 1 .. Cardinality(P) :
              InOrder(P)[k] <= i <=> k <= Cardinality({j \in 1 .. i : j \in P})
<1> DEFINE Q == {j \in 1 .. i : j \in P}
           R == P \ Q
           c == Cardinality(Q)
           m == Cardinality(P)
<1>1. /\ Q \in SUBSET Nat /\ R \in SUBSET Nat /\ P \in SUBSET Nat /\ Q \cup R = P
      /\ \A x \in Q : x <= i
      /\ \A x \in R : x > i
  <2>1. P \in SUBSET Nat /\ i \in Nat /\ i <= n
    OBVIOUS
  <2>2. \A x : x \in Q <=> x \in P /\ x <= i
    <3>1. \A x : x \in Q <=> x \in 1 .. i /\ x \in P
      OBVIOUS
    <3>2. \A x \in P : x \in 1 .. i <=> x <= i
      BY <2>1
    <3>3. QED
      BY <3>1, <3>2
  <2>3. \A x : x \in R <=> x \in P /\ ~ (x <= i)
    <3>1. \A x : x \in R <=> x \in P /\ x \notin Q
      OBVIOUS
    <3>2. QED
      BY <2>2, <3>1
  <2> HIDE DEF Q, R
  <2>4. \A x \in P : ~ (x <= i) => x > i
    BY <2>1
  <2>5. /\ \A x \in Q : x <= i
        /\ \A x \in R : x > i
    BY <2>2, <2>3, <2>4
  <2>6. Q \cup R = P /\ Q \subseteq P /\ R \subseteq P
    BY <2>2, <2>3
  <2>7. QED
    BY <2>1, <2>5, <2>6
<1>2. IsFiniteSet(P) /\ IsFiniteSet(Q) /\ IsFiniteSet(R)
  <2>1. IsFiniteSet(1 .. n)
    <3>1. \A x, y \in Int : IsFiniteSet(x .. y)
      BY FS_Interval
    <3>2. QED
      BY <3>1
  <2>2. P \subseteq 1 .. n /\ Q \subseteq P /\ R \subseteq P
    OBVIOUS
  <2>3. QED
    BY <2>1, <2>2, FS_Subset
<1>3. \A x \in Q, y \in R : x < y
  <2> TAKE x \in Q, y \in R
  <2>1. x \in Nat /\ y \in Nat /\ x <= i /\ y > i /\ i \in Nat
    BY <1>1
  <2>2. QED
    BY <2>1
<1> HIDE DEF Q, R
<1>4. InOrder(P) = InOrder(Q) \o InOrder(R)
  <2>1. InOrder(Q \cup R) = InOrder(Q) \o InOrder(R)
    BY <1>1, <1>2, <1>3, ListJoins
  <2>2. QED
    BY <1>1, <2>1
<1>5. /\ InOrder(Q) \in Seq(Nat) /\ Len(InOrder(Q)) = c /\ c \in Nat
      /\ InOrder(Q) \in [1 .. c -> Q]
  BY <1>1, <1>2, ListIs
<1>6. /\ InOrder(R) \in Seq(Nat) /\ Len(InOrder(R)) = Cardinality(R) /\ Cardinality(R) \in Nat
      /\ InOrder(R) \in [1 .. Cardinality(R) -> R]
  BY <1>1, <1>2, ListIs
<1>7. Len(InOrder(P)) = m /\ m \in Nat
  BY <1>1, <1>2, ListIs
<1> HIDE DEF c, m
<1>8. /\ m = c + Cardinality(R)
      /\ \A k \in 1 .. c : InOrder(P)[k] = InOrder(Q)[k]
      /\ \A k \in 1 .. Cardinality(R) : InOrder(P)[c + k] = InOrder(R)[k]
  <2>1. \A s, t \in Seq(Nat) :
           /\ Len(s \o t) = Len(s) + Len(t)
           /\ \A k \in 1 .. Len(s) : (s \o t)[k] = s[k]
           /\ \A k \in 1 .. Len(t) : (s \o t)[Len(s) + k] = t[k]
    OBVIOUS
  <2> DEFINE q == InOrder(Q)
             r == InOrder(R)
             p == InOrder(P)
  <2>2. /\ q \in Seq(Nat) /\ Len(q) = c /\ r \in Seq(Nat) /\ Len(r) = Cardinality(R)
        /\ p = q \o r /\ Len(p) = m
    BY <1>4, <1>5, <1>6, <1>7
  <2> HIDE DEF p, q, r
  <2>3. /\ Len(p) = Len(q) + Len(r)
        /\ \A k \in 1 .. Len(q) : p[k] = q[k]
        /\ \A k \in 1 .. Len(r) : p[Len(q) + k] = r[k]
    BY <2>1, <2>2
  <2>4. QED
    BY <2>2, <2>3 DEF p, q, r
<1>9. c \in 0 .. m
  BY <1>5, <1>6, <1>7, <1>8
<1>10. \A k \in 1 .. m : InOrder(P)[k] <= i <=> k <= c
  <2> TAKE k \in 1 .. m
  <2>1. CASE k <= c
    <3>1. k \in 1 .. c
      BY <1>5, <1>7, <2>1
    <3>2. InOrder(P)[k] \in Q
      BY <1>5, <1>8, <3>1
    <3>3. QED
      BY <1>1, <2>1, <3>2
  <2>2. CASE ~ (k <= c)
    <3> DEFINE d == k - c
    <3>1. d \in 1 .. Cardinality(R) /\ k = c + d
      BY <1>5, <1>6, <1>7, <1>8, <2>2
    <3> HIDE DEF d
    <3>2. InOrder(P)[k] \in R
      BY <1>6, <1>8, <3>1
    <3>3. InOrder(P)[k] \in Nat /\ InOrder(P)[k] > i
      BY <1>1, <3>2
    <3>4. ~ (InOrder(P)[k] <= i)
      <4>1. i \in Nat
        OBVIOUS
      <4>2. QED
        BY <3>3, <4>1
    <3>5. QED
      BY <2>2, <3>4
  <2>3. QED
    BY <2>1, <2>2
<1>11. QED
  BY <1>9, <1>10 DEF c, m, Q

(* A list of the lines at some positions, and for each record the number   *)
(* that it has or follows in the list, the first one being 0.              *)
Numbering(events, P, list, number) ==
  /\ Len(list) \in Nat /\ \A k \in 0 .. Len(list) - 1 : list[k + 1] \in Nat
  /\ \A i \in 1 .. Len(events) :
       /\ number[i] \in Int /\ number[i] < Len(list)
       /\ i \in P => 0 <= number[i]
       /\ \A k \in 0 .. Len(list) - 1 :
            /\ list[k + 1] <= Line(events, i) <=> k <= number[i]
            /\ Line(events, i) = list[k + 1] <=> i \in P /\ k = number[i]

LEMMA LinesAre ==
  ASSUME NEW events, TextLog(events), NEW P \in SUBSET (1 .. Len(events))
  PROVE  /\ Cardinality(P) \in Nat /\ Len(LinesOf(events, P)) = Cardinality(P)
         /\ LinesOf(events, P) \in Seq(Nat)
         /\ InOrder(P) \in [1 .. Cardinality(P) -> P]
         /\ \A i, j \in 1 .. Cardinality(P) : i < j => InOrder(P)[i] < InOrder(P)[j]
         /\ \A i \in P : \E k \in 1 .. Cardinality(P) : InOrder(P)[k] = i
         /\ \A k \in 1 .. Cardinality(P) :
              /\ LinesOf(events, P)[k] \in Nat
              /\ LinesOf(events, P)[k] = Line(events, InOrder(P)[k])
<1> DEFINE n == Len(events)
           m == Cardinality(P)
           p == InOrder(P)
<1>1. n \in Nat /\ \A i \in 1 .. n : Line(events, i) \in Nat
  BY TextLogIs
<1>2. P \in SUBSET Nat /\ IsFiniteSet(P)
  <2>1. IsFiniteSet(1 .. n)
    <3>1. \A x, y \in Int : IsFiniteSet(x .. y)
      BY FS_Interval
    <3>2. QED
      BY <1>1, <3>1
  <2>2. P \subseteq 1 .. n /\ P \in SUBSET Nat
    OBVIOUS
  <2>3. QED
    BY <2>1, <2>2, FS_Subset
<1>3. /\ m \in Nat /\ p \in [1 .. m -> P]
      /\ \A i, j \in 1 .. m : i < j => p[i] < p[j]
      /\ \A i \in P : \E k \in 1 .. m : p[k] = i
  BY <1>2, ListIs
<1>4. LinesOf(events, P) = [k \in DOMAIN p |-> Line(events, p[k])]
  BY DEF LinesOf, Line
<1> HIDE DEF n, m, p
<1>5. \A k \in 1 .. m : p[k] \in 1 .. n /\ Line(events, p[k]) \in Nat
  BY <1>1, <1>3 DEF n
<1>6. LinesOf(events, P) \in [1 .. m -> Nat] /\ \A k \in 1 .. m : LinesOf(events, P)[k] = Line(events, p[k])
  BY <1>3, <1>4, <1>5
<1>7. LinesOf(events, P) \in Seq(Nat) /\ Len(LinesOf(events, P)) = m
  BY <1>3, <1>6
<1>8. QED
  BY <1>3, <1>5, <1>6, <1>7 DEF m, p

(* The positions up to i, but the first. *)
Following(P, n) == [i \in 1 .. n |-> Cardinality({j \in 1 .. i : j \in P}) - 1]

LEMMA LinesNumber ==
  ASSUME NEW events, TextLog(events), NEW P \in SUBSET (1 .. Len(events))
  PROVE  /\ Numbering(events, P, LinesOf(events, P), Following(P, Len(events)))
         /\ \A i \in 1 .. Len(events) : -1 <= Following(P, Len(events))[i]
         /\ \A k \in 0 .. Cardinality(P) - 1 : \E i \in P : Following(P, Len(events))[i] = k
<1> DEFINE n == Len(events)
           m == Cardinality(P)
           p == InOrder(P)
           f == Following(P, n)
           list == LinesOf(events, P)
<1>1. /\ n \in Nat
      /\ \A i \in 1 .. n : i \in Nat /\ Line(events, i) \in Nat
      /\ \A i, j \in 1 .. n : Line(events, i) <= Line(events, j) <=> i <= j
  BY TextLogIs
<1>2. /\ m \in Nat /\ Len(list) = m
      /\ p \in [1 .. m -> P]
      /\ \A i, j \in 1 .. m : i < j => p[i] < p[j]
      /\ \A i \in P : \E k \in 1 .. m : p[k] = i
      /\ \A k \in 1 .. m : list[k] \in Nat /\ list[k] = Line(events, p[k])
  BY LinesAre
<1>3. \A i \in 1 .. n : f[i] + 1 \in 0 .. m /\ f[i] \in Int /\ \A k \in 1 .. m : p[k] <= i <=> k <= f[i] + 1
  <2> TAKE i \in 1 .. n
  <2> DEFINE c == Cardinality({j \in 1 .. i : j \in P})
  <2>1. c \in 0 .. m /\ \A k \in 1 .. m : p[k] <= i <=> k <= c
    <3>1. Len(events) \in Nat /\ i \in 1 .. Len(events)
      BY <1>1
    <3> HIDE DEF n
    <3>2. QED
      BY <3>1, CountIs
  <2>2. f[i] = c - 1
    BY DEF Following
  <2> HIDE DEF c, f, m, p
  <2>3. c \in Nat /\ f[i] + 1 = c /\ f[i] \in Int
    BY <1>2, <2>1, <2>2
  <2>4. QED
    BY <2>1, <2>3
<1>4. P \subseteq 1 .. n
  OBVIOUS
<1> HIDE DEF n, m, p, f, list
<1>5. \A k \in 1 .. m : p[k] \in P /\ p[k] \in 1 .. n /\ p[k] \in Nat /\ f[p[k]] + 1 = k
  <2> TAKE k \in 1 .. m
  <2>1. p[k] \in P /\ p[k] \in 1 .. n /\ p[k] \in Nat
    BY <1>1, <1>2, <1>4
  <2> DEFINE c == f[p[k]] + 1
  <2>2. c \in 0 .. m /\ \A h \in 1 .. m : p[h] <= p[k] <=> h <= c
    BY <1>3, <2>1
  <2> HIDE DEF c
  <2>3. k <= c /\ k \in Nat /\ c \in Nat
    BY <1>2, <2>1, <2>2
  <2>4. c \in 1 .. m
    BY <1>2, <2>2, <2>3
  <2>5. p[c] <= p[k] /\ p[c] \in Nat
    <3>1. c <= c
      BY <2>3
    <3>2. p[c] \in P
      BY <1>2, <2>4
    <3>3. p[c] \in 1 .. n
      BY <1>4, <3>2
    <3>4. p[c] \in Nat
      BY <1>1, <3>3
    <3>5. QED
      BY <2>2, <2>4, <3>1, <3>4
  <2>6. k < c => p[k] < p[c]
    BY <1>2, <2>4
  <2>7. c = k
    BY <2>1, <2>3, <2>5, <2>6
  <2>8. QED
    BY <2>1, <2>7 DEF c
<1>6. \A i \in P : f[i] + 1 \in 1 .. m /\ p[f[i] + 1] = i
  <2> TAKE i \in P
  <2>1. PICK k \in 1 .. m : p[k] = i
    BY <1>2
  <2>2. f[i] + 1 = k
    BY <1>5, <2>1
  <2>3. QED
    BY <2>1, <2>2
<1>7. \A i \in 1 .. n : f[i] < m /\ -1 <= f[i]
  BY <1>2, <1>3
<1>8. \A i \in P : 0 <= f[i]
  <2> TAKE i \in P
  <2>1. f[i] \in Int /\ f[i] + 1 \in 1 .. m
    BY <1>3, <1>4, <1>6
  <2>2. QED
    BY <1>2, <2>1
<1>9. \A i \in 1 .. n, k \in 0 .. m - 1 :
        /\ list[k + 1] <= Line(events, i) <=> k <= f[i]
        /\ Line(events, i) = list[k + 1] <=> i \in P /\ k = f[i]
  <2> TAKE i \in 1 .. n, k \in 0 .. m - 1
  <2>1. k + 1 \in 1 .. m /\ k \in Nat /\ f[i] \in Int /\ i \in Nat
    BY <1>1, <1>2, <1>3
  <2>2. list[k + 1] = Line(events, p[k + 1]) /\ p[k + 1] \in P /\ p[k + 1] \in 1 .. n /\ p[k + 1] \in Nat
        /\ f[p[k + 1]] + 1 = k + 1
    BY <1>2, <1>5, <2>1
  <2>3. p[k + 1] <= i <=> k + 1 <= f[i] + 1
    BY <1>3, <2>1
  <2>4. list[k + 1] <= Line(events, i) <=> p[k + 1] <= i
    BY <1>1, <2>2
  <2>5. list[k + 1] <= Line(events, i) <=> k <= f[i]
    BY <2>1, <2>3, <2>4
  <2>6. Line(events, i) = list[k + 1] <=> i = p[k + 1]
    <3>1. Line(events, i) <= list[k + 1] <=> i <= p[k + 1]
      BY <1>1, <2>2
    <3>2. Line(events, i) \in Nat /\ list[k + 1] \in Nat
      BY <1>1, <2>2
    <3>3. QED
      BY <2>1, <2>2, <2>4, <3>1, <3>2
  <2>7. i = p[k + 1] => i \in P /\ k = f[i]
    <3>1. f[p[k + 1]] + 1 = k + 1 /\ f[p[k + 1]] \in Int
      BY <1>3, <2>2
    <3>2. f[p[k + 1]] = k
      BY <2>1, <3>1
    <3>3. QED
      BY <2>2, <3>2
  <2>8. i \in P /\ k = f[i] => i = p[k + 1]
    BY <1>6
  <2>9. QED
    BY <2>5, <2>6, <2>7, <2>8
<1>10. \A k \in 0 .. m - 1 : list[k + 1] \in Nat
  <2> TAKE k \in 0 .. m - 1
  <2>1. k + 1 \in 1 .. m
    BY <1>2
  <2>2. QED
    BY <1>2, <2>1
<1>11. Numbering(events, P, list, f)
  BY <1>2, <1>3, <1>7, <1>8, <1>9, <1>10 DEF Numbering, n
<1>12. \A k \in 0 .. m - 1 : \E i \in P : f[i] = k
  <2> TAKE k \in 0 .. m - 1
  <2>1. k + 1 \in 1 .. m /\ k \in Nat
    BY <1>2
  <2>2. p[k + 1] \in P /\ f[p[k + 1]] + 1 = k + 1 /\ f[p[k + 1]] \in Int
    BY <1>3, <1>5, <2>1
  <2>3. f[p[k + 1]] = k
    BY <2>1, <2>2
  <2>4. QED
    BY <2>2, <2>3
<1>13. QED
  BY <1>7, <1>11, <1>12 DEF n, m, f, list

Changes(events)   == {i \in DOMAIN events : IsChange(events[i])}
Snapshots(events) == {i \in DOMAIN events : IsSnapshot(events[i])}
ChangeNumbers(events) == [i \in DOMAIN events |-> ChangeNumber(events, i)]
SectionNumbers(events) == [i \in DOMAIN events |-> Section(events, i)]

LEMMA ChangesNumbered ==
  ASSUME NEW events, TextLog(events)
  PROVE  /\ Numbering(events, Changes(events), ChangeLines(events), ChangeNumbers(events))
         /\ Total(events) = Len(ChangeLines(events))
         /\ \A k \in 0 .. Total(events) - 1 : \E i \in Changes(events) : ChangeNumbers(events)[i] = k
<1> DEFINE n == Len(events)
           P == Changes(events)
<1>1. n \in Nat /\ DOMAIN events = 1 .. n
  BY TextLogIs
<1>2. P \in SUBSET (1 .. n)
  BY <1>1 DEF Changes
<1>3. ChangeLines(events) = LinesOf(events, P)
  BY DEF ChangeLines, Changes
<1>4. ChangeNumbers(events) = Following(P, n)
  <2>1. ASSUME NEW i \in 1 .. n
        PROVE  {j \in 1 .. i : IsChange(events[j])} = {j \in 1 .. i : j \in P}
    <3>1. \A j \in 1 .. i : j \in 1 .. n
      BY <1>1
    <3>2. \A j \in 1 .. n : j \in P <=> IsChange(events[j])
      BY <1>1 DEF Changes
    <3>3. QED
      BY <3>1, <3>2
  <2>2. \A i \in 1 .. n : ChangeNumber(events, i) = Cardinality({j \in 1 .. i : j \in P}) - 1
    BY <2>1 DEF ChangeNumber, ChangesUpTo
  <2>3. QED
    BY <1>1, <2>2 DEF ChangeNumbers, Following
<1> HIDE DEF P
<1>5. /\ Numbering(events, P, LinesOf(events, P), Following(P, n))
      /\ \A k \in 0 .. Cardinality(P) - 1 : \E i \in P : Following(P, n)[i] = k
      /\ Len(LinesOf(events, P)) = Cardinality(P)
  BY <1>2, LinesNumber, LinesAre
<1>6. QED
  BY <1>3, <1>4, <1>5 DEF P, Total

LEMMA SectionsNumbered ==
  ASSUME NEW events, TextLog(events)
  PROVE  /\ Numbering(events, Snapshots(events), SnapshotLines(events), SectionNumbers(events))
         /\ Sections(events) = Len(SnapshotLines(events))
         /\ \A i \in 1 .. Len(events) : 0 <= SectionNumbers(events)[i]
<1> DEFINE n == Len(events)
           P == Snapshots(events)
           f == Following(P, n)
           g == SectionNumbers(events)
           list  == LinesOf(events, P)
           whole == SnapshotLines(events)
<1>1. /\ n \in Nat /\ DOMAIN events = 1 .. n
      /\ \A i \in 1 .. n : Line(events, i) \in Nat /\ 0 < Line(events, i)
  BY TextLogIs
<1>2. P \in SUBSET (1 .. n)
  BY <1>1 DEF Snapshots
<1>3. \A i \in 1 .. n : f[i] = SnapshotsUpTo(events, i) - 1
  <2>1. ASSUME NEW i \in 1 .. n
        PROVE  {j \in 1 .. i : IsSnapshot(events[j])} = {j \in 1 .. i : j \in P}
    <3>1. \A j \in 1 .. i : j \in 1 .. n
      BY <1>1
    <3>2. \A j \in 1 .. n : j \in P <=> IsSnapshot(events[j])
      BY <1>1 DEF Snapshots
    <3>3. QED
      BY <3>1, <3>2
  <2>2. \A i \in 1 .. n : SnapshotsUpTo(events, i) = Cardinality({j \in 1 .. i : j \in P})
    BY <2>1 DEF SnapshotsUpTo
  <2>3. QED
    BY <2>2 DEF Following
<1>4. /\ Numbering(events, P, list, f)
      /\ \A i \in 1 .. n : -1 <= f[i] /\ f[i] \in Int
      /\ Len(list) \in Nat /\ list \in Seq(Nat)
  <2>1. Numbering(events, P, list, f) /\ \A i \in 1 .. n : -1 <= f[i]
    BY <1>2, LinesNumber
  <2>2. Len(list) \in Nat /\ list \in Seq(Nat)
    BY <1>2, LinesAre
  <2>3. QED
    BY <2>1, <2>2 DEF Numbering
<1>5. whole = IF events # <<>> /\ 1 \in P THEN list ELSE <<0>> \o list
  <2>1. PICK S : events \in Seq(S)
    BY DEF TextLog, IsLog
  <2>2. events # <<>> => (1 \in P <=> IsSnapshot(events[1]))
    <3>1. events # <<>> => 1 \in 1 .. n
      BY <2>1
    <3>2. QED
      BY <1>1, <3>1 DEF Snapshots
  <2>3. whole = IF events # <<>> /\ IsSnapshot(events[1]) THEN list ELSE <<0>> \o list
    BY DEF SnapshotLines, Snapshots
  <2>4. QED
    BY <2>2, <2>3
<1>6. \A i \in 1 .. n : g[i] = SnapshotsUpTo(events, i) - (IF 1 \in P THEN 1 ELSE 0)
  <2> TAKE i \in 1 .. n
  <2>1. 1 \in 1 .. n
    BY <1>1
  <2>2. 1 \in P <=> IsSnapshot(events[1])
    BY <1>1, <2>1 DEF Snapshots
  <2>3. g[i] = Section(events, i)
    BY <1>1 DEF SectionNumbers
  <2>4. QED
    BY <2>2, <2>3 DEF Section
<1>7. events = <<>> => n = 0
  OBVIOUS
<1>8. \A i \in 1 .. n : SnapshotsUpTo(events, i) = f[i] + 1
  <2> TAKE i \in 1 .. n
  <2>1. SnapshotsUpTo(events, i) = Cardinality({j \in 1 .. i : IsSnapshot(events[j])})
    BY DEF SnapshotsUpTo
  <2>2. f[i] \in Int /\ f[i] = SnapshotsUpTo(events, i) - 1
    BY <1>3, <1>4
  <2>3. SnapshotsUpTo(events, i) \in Int
    <3>1. \A x, y \in Int : IsFiniteSet(x .. y)
      BY FS_Interval
    <3>2. IsFiniteSet(1 .. i)
      BY <1>1, <3>1
    <3>3. IsFiniteSet({j \in 1 .. i : IsSnapshot(events[j])})
      <4>1. {j \in 1 .. i : IsSnapshot(events[j])} \subseteq 1 .. i
        OBVIOUS
      <4>2. QED
        BY <3>2, <4>1, FS_Subset
    <3>4. QED
      BY <2>1, <3>3, FS_CardinalityType
  <2>4. QED
    BY <2>2, <2>3
<1> HIDE DEF n, P, f, g, list, whole
<1>9. CASE events # <<>> /\ 1 \in P
  <2>1. whole = list
    BY <1>5, <1>9
  <2>2. \A i \in 1 .. n : g[i] = f[i]
    BY <1>4, <1>6, <1>8, <1>9
  <2>3. Numbering(events, P, whole, g)
    BY <1>4, <2>1, <2>2 DEF Numbering, n
  <2>4. \A i \in 1 .. n : 0 <= g[i]
    <3> TAKE i \in 1 .. n
    <3>1. Line(events, 1) <= Line(events, i) /\ 1 \in 1 .. n
      <4>1. 1 \in 1 .. n /\ 1 <= i
        BY <1>1
      <4>2. QED
        BY <4>1, TextLogIs DEF n
    <3>2. 0 <= f[1] /\ f[1] \in Int /\ f[1] < Len(list)
      BY <1>4, <1>9, <3>1 DEF Numbering, n
    <3>3. f[1] \in 0 .. Len(list) - 1
      BY <1>4, <3>2
    <3>4. list[f[1] + 1] <= Line(events, 1) /\ list[f[1] + 1] \in Nat
      BY <1>4, <3>1, <3>2, <3>3 DEF Numbering, n
    <3>5. list[f[1] + 1] <= Line(events, i)
      <4>1. Line(events, 1) \in Nat /\ Line(events, i) \in Nat
        BY <1>1, <3>1
      <4>2. QED
        BY <3>1, <3>4, <4>1
    <3>6. f[1] <= f[i]
      BY <1>4, <3>3, <3>5 DEF Numbering, n
    <3>7. f[i] \in Int
      BY <1>4
    <3>8. QED
      BY <2>2, <3>2, <3>6, <3>7
  <2>5. QED
    BY <2>3, <2>4 DEF P, g, n, whole, Sections
<1>10. CASE ~ (events # <<>> /\ 1 \in P)
  <2>1. whole = <<0>> \o list
    BY <1>5, <1>10
  <2>2. n # 0 => 1 \notin P
    BY <1>7, <1>10
  <2>3. \A i \in 1 .. n : g[i] = f[i] + 1 /\ g[i] \in Int /\ 0 <= g[i]
    <3> TAKE i \in 1 .. n
    <3>1. n # 0
      BY <1>1
    <3>2. g[i] = SnapshotsUpTo(events, i) - 0
      BY <1>6, <2>2, <3>1
    <3>3. SnapshotsUpTo(events, i) = f[i] + 1 /\ f[i] \in Int /\ -1 <= f[i]
      BY <1>4, <1>8
    <3>4. QED
      BY <3>2, <3>3
  <2>4. Len(whole) = Len(list) + 1 /\ whole[1] = 0 /\ \A k \in 1 .. Len(list) : whole[k + 1] = list[k]
    <3>1. \A s \in Seq(Nat) : /\ Len(<<0>> \o s) = Len(s) + 1 /\ (<<0>> \o s)[1] = 0
                              /\ \A k \in 1 .. Len(s) : (<<0>> \o s)[k + 1] = s[k]
      OBVIOUS
    <3>2. QED
      BY <1>4, <2>1, <3>1
  <2>5. \A k \in 0 .. Len(list) : whole[k + 1] \in Nat
    <3> TAKE k \in 0 .. Len(list)
    <3>1. k = 0 \/ k \in 1 .. Len(list)
      BY <1>4
    <3>2. \A h \in 1 .. Len(list) : list[h] \in Nat
      BY <1>4
    <3>3. QED
      BY <2>4, <3>1, <3>2
  <2>6. \A i \in 1 .. n : i \in P => 1 <= g[i]
    <3> TAKE i \in 1 .. n
    <3>1. i \in P => 0 <= f[i]
      BY <1>4 DEF Numbering, n
    <3>2. QED
      BY <1>4, <2>3, <3>1
  <2>7. \A i \in 1 .. n, k \in 0 .. Len(list) :
          /\ whole[k + 1] <= Line(events, i) <=> k <= g[i]
          /\ Line(events, i) = whole[k + 1] <=> i \in P /\ k = g[i]
    <3> TAKE i \in 1 .. n, k \in 0 .. Len(list)
    <3>1. Line(events, i) \in Nat /\ 0 < Line(events, i) /\ g[i] = f[i] + 1 /\ f[i] \in Int /\ 0 <= g[i]
      BY <1>1, <1>4, <2>3
    <3>2. CASE k = 0
      <4>1. whole[k + 1] = 0
        BY <2>4, <3>2
      <4>2. QED
        BY <2>6, <3>1, <3>2, <4>1
    <3>3. CASE k # 0
      <4> DEFINE h == k - 1
      <4>1. h \in 0 .. Len(list) - 1 /\ k \in 1 .. Len(list) /\ k = h + 1 /\ k \in Nat
        BY <1>4, <3>3
      <4> HIDE DEF h
      <4>2. whole[k + 1] = list[h + 1]
        BY <2>4, <4>1
      <4>3. /\ list[h + 1] <= Line(events, i) <=> h <= f[i]
            /\ Line(events, i) = list[h + 1] <=> i \in P /\ h = f[i]
        BY <1>4, <4>1 DEF Numbering, n
      <4>4. (h <= f[i] <=> k <= g[i]) /\ (h = f[i] <=> k = g[i])
        BY <3>1, <4>1
      <4>5. QED
        BY <4>2, <4>3, <4>4
    <3>4. QED
      BY <3>2, <3>3
  <2>8. \A i \in 1 .. n : g[i] < Len(whole)
    <3> TAKE i \in 1 .. n
    <3>1. f[i] < Len(list)
      BY <1>4 DEF Numbering, n
    <3>2. QED
      BY <1>4, <2>3, <2>4, <3>1
  <2>9. Len(whole) - 1 = Len(list) /\ Len(whole) \in Nat
    BY <1>4, <2>4
  <2>10. \A i \in 1 .. n : i \in P => 0 <= g[i]
    BY <2>3
  <2>11. Numbering(events, P, whole, g)
    BY <2>3, <2>5, <2>7, <2>8, <2>9, <2>10 DEF Numbering, n
  <2>12. QED
    BY <2>3, <2>11 DEF P, g, n, whole, Sections
<1>11. QED
  BY <1>9, <1>10

LEMMA Larger ==
  ASSUME NEW x \in Int
  PROVE  Max({0, x}) = IF x < 0 THEN 0 ELSE x
<1> DEFINE big == IF x < 0 THEN 0 ELSE x
<1>1. big \in {0, x} /\ \A y \in {0, x} : big >= y
  OBVIOUS
<1>2. \A z \in {0, x} : (\A y \in {0, x} : z >= y) => z = big
  OBVIOUS
<1> HIDE DEF big
<1>3. Max({0, x}) = big
  BY <1>1, <1>2 DEF Max
<1>4. QED
  BY <1>3 DEF big

LEMMA Smaller ==
  ASSUME NEW x \in Int, NEW y \in Int
  PROVE  Min({x, y}) \in {x, y} /\ Min({x, y}) <= x /\ Min({x, y}) <= y
<1> DEFINE low == IF x <= y THEN x ELSE y
<1>1. low \in {x, y} /\ \A z \in {x, y} : low <= z
  OBVIOUS
<1>2. Min({x, y}) \in {x, y} /\ \A z \in {x, y} : Min({x, y}) <= z
  BY <1>1 DEF Min
<1>3. QED
  BY <1>2

(* Where a number is cut off is where the line is. *)
Cuts(events, i, line, number, bound) ==
  line \in Nat /\ (line <= Line(events, i) <=> bound <= number)

LEMMA ChangeBound ==
  ASSUME NEW events, TextLog(events), NEW value \in Int \cup {None}, NEW isStart \in BOOLEAN,
         NEW i \in 1 .. Len(events), 0 <= ChangeNumbers(events)[i]
  PROVE  Cuts(events, i, BoundToLine(<<"change", value>>, events, isStart), ChangeNumbers(events)[i],
              IF isStart THEN SliceStart(value, Total(events)) ELSE SliceEnd(value, Total(events)))
<1> DEFINE list == ChangeLines(events)
           m    == Len(list)
           x    == ChangeNumbers(events)[i]
           b    == <<"change", value>>
           eof  == EndOfFile(events)
           line == BoundToLine(b, events, isStart)
<1>1. /\ m \in Nat /\ Total(events) = m
      /\ \A k \in 0 .. m - 1 : list[k + 1] \in Nat
      /\ x \in Int /\ x < m
      /\ \A k \in 0 .. m - 1 : list[k + 1] <= Line(events, i) <=> k <= x
  BY ChangesNumbered DEF Numbering
<1>2. eof \in Nat /\ Line(events, i) \in Nat /\ 0 < Line(events, i) /\ Line(events, i) < eof
  BY TextLogIs
<1>3. b[1] = "change" /\ b[2] = value
  OBVIOUS
<1>4. CASE value = None
  <2>1. line = IF isStart THEN 0 ELSE eof
    BY <1>3, <1>4 DEF BoundToLine
  <2>2. SliceStart(value, Total(events)) = 0 /\ SliceEnd(value, Total(events)) = m
    BY <1>1, <1>4 DEF SliceStart, SliceEnd
  <2> HIDE DEF list, m, x, b, eof, line
  <2>3. QED
    BY <1>1, <1>2, <2>1, <2>2 DEF Cuts, x, line, b
<1>5. CASE value # None
  <2> DEFINE c == Max({0, FromEnd(value, m)})
  <2>1. line = IF c < m THEN list[c + 1] ELSE eof
    BY <1>3, <1>5 DEF BoundToLine
  <2>2. value \in Int
    BY <1>5
  <2>3. FromEnd(value, m) = Index(value, m) /\ FromEnd(value, m) \in Int
    BY <1>1, <2>2 DEF FromEnd, Index
  <2>4. SliceStart(value, Total(events)) = c /\ SliceEnd(value, Total(events)) = c
    BY <1>1, <1>5, <2>3 DEF SliceStart, SliceEnd
  <2>5. c \in Nat
    BY <2>3, Larger
  <2> HIDE DEF list, m, x, b, eof, line, c
  <2>6. line \in Nat /\ (line <= Line(events, i) <=> c <= x)
    <3>1. CASE c < m
      <4>1. c \in 0 .. m - 1 /\ line = list[c + 1]
        BY <1>1, <2>1, <2>5, <3>1
      <4>2. QED
        BY <1>1, <4>1
    <3>2. CASE ~ (c < m)
      BY <1>1, <1>2, <2>1, <2>5, <3>2
    <3>3. QED
      BY <3>1, <3>2
  <2>7. QED
    BY <2>4, <2>6 DEF Cuts, x, line, b
<1>6. QED
  BY <1>4, <1>5

LEMMA SnapshotBound ==
  ASSUME NEW events, TextLog(events), NEW value \in Int, NEW isStart \in BOOLEAN,
         NEW i \in 1 .. Len(events)
  PROVE  Cuts(events, i, BoundToLine(<<"snapshot", value>>, events, isStart), SectionNumbers(events)[i],
              IF isStart THEN SliceStart(value, Sections(events)) ELSE SliceEnd(value, Sections(events)))
<1> DEFINE list == SnapshotLines(events)
           m    == Len(list)
           x    == SectionNumbers(events)[i]
           b    == <<"snapshot", value>>
           eof  == EndOfFile(events)
           line == BoundToLine(b, events, isStart)
           s    == FromEnd(value, m)
           c    == Max({0, s})
<1>1. /\ m \in Nat /\ Sections(events) = m
      /\ \A k \in 0 .. m - 1 : list[k + 1] \in Nat
      /\ x \in Int /\ x < m /\ 0 <= x
      /\ \A k \in 0 .. m - 1 : list[k + 1] <= Line(events, i) <=> k <= x
  BY SectionsNumbered DEF Numbering
<1>2. eof \in Nat /\ Line(events, i) \in Nat /\ 0 < Line(events, i) /\ Line(events, i) < eof
  BY TextLogIs
<1>3. b[1] = "snapshot" /\ b[2] = value /\ value # None
  BY NoneAssumption
<1>4. line = IF s < 0 THEN 0 ELSE IF s < m THEN list[s + 1] ELSE eof
  BY <1>3 DEF BoundToLine
<1>5. s = Index(value, m) /\ s \in Int
  BY <1>1 DEF FromEnd, Index
<1>6. SliceStart(value, Sections(events)) = c /\ SliceEnd(value, Sections(events)) = c
  BY <1>1, <1>3, <1>5 DEF SliceStart, SliceEnd
<1>7. c = IF s < 0 THEN 0 ELSE s
  BY <1>5, Larger
<1> HIDE DEF list, m, x, b, eof, line, s, c
<1>8. line \in Nat /\ (line <= Line(events, i) <=> c <= x)
  <2>1. CASE s < 0
    BY <1>1, <1>2, <1>4, <1>7, <2>1
  <2>2. CASE ~ (s < 0) /\ s < m
    <3>1. s \in 0 .. m - 1 /\ line = list[s + 1] /\ c = s
      BY <1>1, <1>4, <1>5, <1>7, <2>2
    <3>2. QED
      BY <1>1, <3>1
  <2>3. CASE ~ (s < 0) /\ ~ (s < m)
    BY <1>1, <1>2, <1>4, <1>5, <1>7, <2>3
  <2>4. QED
    BY <2>1, <2>2, <2>3
<1>9. QED
  BY <1>6, <1>8 DEF Cuts, x, line, b

(* A version is where its first record is. *)
LEMMA VersionsAre ==
  ASSUME NEW events, TextLog(events)
  PROVE  /\ DOMAIN VersionLines(events) = Versions(events)
         /\ Versions(events) \in SUBSET Nat /\ IsFiniteSet(Versions(events)) /\ 0 \in Versions(events)
         /\ \A i \in 1 .. Len(events) : events[i].v \in Versions(events)
         /\ VersionLines(events)[0] = 0
         /\ \A v \in Versions(events) : VersionLines(events)[v] \in Nat
         /\ \A v \in Versions(events) : v # 0 =>
              \E f \in 1 .. Len(events) :
                /\ events[f].v = v /\ VersionLines(events)[v] = Line(events, f)
                /\ \A i \in 1 .. Len(events) : events[i].v = v => f <= i
<1> DEFINE n == Len(events)
           V == Versions(events)
           lines == VersionLines(events)
<1>1. /\ n \in Nat /\ DOMAIN events = 1 .. n
      /\ \A i \in 1 .. n : events[i].v \in Nat /\ Line(events, i) \in Nat
  BY TextLogIs
<1>2. DOMAIN lines = V /\ 0 \in V
  BY DEF VersionLines, Versions
<1>3. V \in SUBSET Nat /\ \A i \in 1 .. n : events[i].v \in V
  BY <1>1 DEF Versions
<1>4. IsFiniteSet(V)
  <2> DEFINE W == {events[i].v : i \in DOMAIN events}
  <2>1. IsFiniteSet(DOMAIN events)
    <3>1. \A x, y \in Int : IsFiniteSet(x .. y)
      BY FS_Interval
    <3>2. QED
      BY <1>1, <3>1
  <2>2. IsFiniteSet(W)
    <3> DEFINE g == [i \in DOMAIN events |-> events[i].v]
    <3>1. g \in Surjection(DOMAIN events, W)
      BY DEF Surjection
    <3>2. QED
      BY <2>1, <3>1, FS_Surjection
  <2> HIDE DEF W
  <2>3. IsFiniteSet(W \cup {0})
    BY <2>2, FS_AddElement
  <2>4. QED
    BY <2>3 DEF Versions, W
<1>5. lines[0] = 0
  BY DEF VersionLines
<1>6. ASSUME NEW v \in V, v # 0
      PROVE  \E f \in 1 .. n : /\ events[f].v = v /\ lines[v] = Line(events, f)
                               /\ \A i \in 1 .. n : events[i].v = v => f <= i
  <2> DEFINE I == {i \in 1 .. n : events[i].v = v}
             f == SelectInSeq(events, LAMBDA e : e.v = v)
  <2>1. f = IF I # {} THEN Min(I) ELSE 0
    BY DEF SelectInSeq
  <2>2. lines[v] = Line(events, f)
    BY <1>6 DEF VersionLines, Versions, Line
  <2>3. I # {} /\ I \in SUBSET Nat
    BY <1>1, <1>6 DEF Versions
  <2> HIDE DEF f
  <2>4. Min(I) \in I /\ \A x \in I : Min(I) <= x
    BY <2>3, LeastIs
  <2>5. f \in I /\ \A x \in I : f <= x
    BY <2>1, <2>3, <2>4
  <2>6. QED
    BY <2>2, <2>5
<1>7. \A v \in V : lines[v] \in Nat
  <2> TAKE v \in V
  <2>1. v # 0 => \E f \in 1 .. n : lines[v] = Line(events, f)
    BY <1>6
  <2>2. QED
    BY <1>1, <1>5, <2>1
<1>8. QED
  BY <1>2, <1>3, <1>4, <1>5, <1>6, <1>7

LEMMA VersionCuts ==
  ASSUME NEW events, TextLog(events), Ascending(events), NEW v \in Versions(events),
         NEW i \in 1 .. Len(events)
  PROVE  VersionLines(events)[v] <= Line(events, i) <=> v <= events[i].v
<1> DEFINE n == Len(events)
           lines == VersionLines(events)
<1>1. /\ n \in Nat /\ DOMAIN events = 1 .. n
      /\ \A j \in 1 .. n : events[j].v \in Nat /\ Line(events, j) \in Nat /\ j \in Nat
      /\ \A j, k \in 1 .. n : Line(events, j) <= Line(events, k) <=> j <= k
  BY TextLogIs
<1>2. v \in Nat
  BY VersionsAre
<1>3. CASE v = 0
  <2>1. lines[v] = 0
    BY <1>3, VersionsAre
  <2>2. QED
    BY <1>1, <1>3, <2>1
<1>4. CASE v # 0
  <2>1. PICK f \in 1 .. n : /\ events[f].v = v /\ lines[v] = Line(events, f)
                            /\ \A j \in 1 .. n : events[j].v = v => f <= j
    BY <1>4, VersionsAre
  <2>2. lines[v] <= Line(events, i) <=> f <= i
    BY <1>1, <2>1
  <2>3. f <= i => v <= events[i].v
    <3>1. f < i => events[f].v <= events[i].v
      BY <1>1 DEF Ascending
    <3>2. f <= i => f < i \/ f = i
      BY <1>1
    <3>3. QED
      BY <1>1, <2>1, <3>1, <3>2
  <2>4. ~ (f <= i) => ~ (v <= events[i].v)
    <3>1. i < f => events[i].v <= events[f].v
      BY <1>1 DEF Ascending
    <3>2. ~ (f <= i) => i < f
      BY <1>1
    <3>3. ~ (f <= i) => events[i].v # v
      BY <2>1
    <3>4. QED
      BY <1>1, <1>2, <2>1, <3>1, <3>2, <3>3
  <2>5. QED
    BY <2>2, <2>3, <2>4
<1>5. QED
  BY <1>3, <1>4

LEMMA VersionBound ==
  ASSUME NEW events, TextLog(events), Ascending(events), NEW value \in Int, Locatable(events, value),
         NEW isStart \in BOOLEAN, NEW i \in 1 .. Len(events)
  PROVE  Cuts(events, i, BoundToLine(<<"version", value>>, events, isStart), events[i].v, value)
<1> DEFINE b     == <<"version", value>>
           V     == Versions(events)
           lines == VersionLines(events)
           eof   == EndOfFile(events)
           line  == BoundToLine(b, events, isStart)
<1>1. eof \in Nat /\ Line(events, i) \in Nat /\ Line(events, i) < eof /\ events[i].v \in Nat
  BY TextLogIs
<1>2. DOMAIN lines = V /\ V \in SUBSET Nat /\ IsFiniteSet(V) /\ V # {} /\ events[i].v \in V
  BY VersionsAre
<1>3. b[1] = "version" /\ b[2] = value /\ value # None /\ ~ (value < 0)
  BY NoneAssumption DEF Locatable
<1>4. line = IF value \in V THEN lines[value] ELSE eof
  BY <1>2, <1>3 DEF BoundToLine
<1>5. CASE value \in V
  <2>1. lines[value] \in Nat
    BY <1>5, VersionsAre
  <2>2. lines[value] <= Line(events, i) <=> value <= events[i].v
    BY <1>5, VersionCuts
  <2>3. line = lines[value]
    BY <1>4, <1>5
  <2> HIDE DEF line, lines
  <2>4. QED
    BY <2>1, <2>2, <2>3 DEF Cuts, line, b
<1>6. CASE value \notin V
  <2>1. value > Max(V)
    BY <1>6 DEF Locatable
  <2>2. events[i].v <= Max(V) /\ Max(V) \in V
    BY <1>2, ListIs
  <2>3. Max(V) \in Nat
    BY <1>2, <2>2
  <2>4. line = eof
    BY <1>4, <1>6
  <2> HIDE DEF line, eof, V
  <2>5. line \in Nat /\ (line <= Line(events, i) <=> value <= events[i].v)
    BY <1>1, <2>1, <2>2, <2>3, <2>4
  <2>6. QED
    BY <2>5 DEF Cuts, line, b
<1>7. QED
  BY <1>5, <1>6

(* A bound is a line, if it is valid. *)
LEMMA BoundTyped ==
  ASSUME NEW events, TextLog(events), NEW b \in AllBounds, NEW isStart \in BOOLEAN
  PROVE  BoundToLine(b, events, isStart) \in Nat \cup {Invalid}
<1> DEFINE value == b[2]
           eof  == EndOfFile(events)
           changes == ChangeLines(events)
           snaps   == SnapshotLines(events)
           c    == Max({0, FromEnd(value, Len(changes))})
           s    == FromEnd(value, Len(snaps))
           lines == VersionLines(events)
           line == BoundToLine(b, events, isStart)
<1>1. eof \in Nat
  BY TextLogIs
<1>2. /\ Len(changes) \in Nat /\ \A k \in 0 .. Len(changes) - 1 : changes[k + 1] \in Nat
      /\ Len(snaps) \in Nat /\ \A k \in 0 .. Len(snaps) - 1 : snaps[k + 1] \in Nat
  BY ChangesNumbered, SectionsNumbered DEF Numbering
<1>3. \A v \in DOMAIN lines : lines[v] \in Nat
  BY VersionsAre
<1>4. value # None => value \in Int /\ b[1] \in Units
  <2>1. CASE b \in Units \X Int
    BY <2>1
  <2>2. CASE b = Unbounded
    BY <2>2 DEF Unbounded
  <2>3. QED
    BY <2>1, <2>2 DEF AllBounds
<1>5. CASE value = None
  <2>1. line = IF isStart THEN 0 ELSE eof
    BY <1>5 DEF BoundToLine
  <2>2. QED
    BY <1>1, <2>1
<1>6. CASE value # None /\ b[1] = "change"
  <2>1. line = IF c < Len(changes) THEN changes[c + 1] ELSE eof
    BY <1>6 DEF BoundToLine
  <2>2. FromEnd(value, Len(changes)) \in Int
    BY <1>2, <1>4, <1>6 DEF FromEnd
  <2>3. c \in Nat
    BY <2>2, Larger
  <2> HIDE DEF line, c, changes
  <2>4. c < Len(changes) => c \in 0 .. Len(changes) - 1
    BY <1>2, <2>3
  <2>5. QED
    BY <1>1, <1>2, <2>1, <2>4 DEF line
<1>7. CASE value # None /\ b[1] = "snapshot"
  <2>1. line = IF s < 0 THEN 0 ELSE IF s < Len(snaps) THEN snaps[s + 1] ELSE eof
    BY <1>7 DEF BoundToLine
  <2>2. s \in Int
    BY <1>2, <1>4, <1>7 DEF FromEnd
  <2> HIDE DEF line, s, snaps
  <2>3. ~ (s < 0) /\ s < Len(snaps) => s \in 0 .. Len(snaps) - 1
    BY <1>2, <2>2
  <2>4. QED
    BY <1>1, <1>2, <2>1, <2>3 DEF line
<1>8. CASE value # None /\ b[1] = "line"
  <2>1. line = IF value < 0 THEN Invalid ELSE value
    BY <1>4, <1>8 DEF BoundToLine
  <2>2. QED
    BY <1>4, <1>8, <2>1
<1>9. CASE value # None /\ b[1] = "version"
  <2>1. line = IF value < 0 THEN Invalid ELSE IF value \in DOMAIN lines THEN lines[value] ELSE eof
    BY <1>4, <1>9 DEF BoundToLine
  <2>2. QED
    BY <1>1, <1>3, <2>1
<1>10. QED
  BY <1>4, <1>5, <1>6, <1>7, <1>8, <1>9 DEF Units

(* A valid range selects the lines from its start up to its end. *)
LEMMA RangeShows ==
  ASSUME NEW events, TextLog(events), NEW spec \in AllRanges, spec.sep # "single",
         Select(spec, events).outcome = "range"
  PROVE  /\ BoundToLine(spec.from, events, TRUE) \in Nat
         /\ BoundToLine(spec.to, events, FALSE) \in Nat
         /\ Shown(events, Select(spec, events)) =
              {i \in 1 .. Len(events) :
                 /\ BoundToLine(spec.from, events, TRUE) <= Line(events, i)
                 /\ Line(events, i) < Inclusive(spec, BoundToLine(spec.to, events, FALSE))}
<1> DEFINE start == BoundToLine(spec.from, events, TRUE)
           line  == BoundToLine(spec.to, events, FALSE)
           end   == Inclusive(spec, line)
           low   == Min({start, end})
<1>1. spec.from \in AllBounds /\ spec.to \in AllBounds
  BY DEF AllRanges
<1>2. start \in Nat \cup {Invalid} /\ line \in Nat \cup {Invalid}
  BY <1>1, BoundTyped
<1>3. Select(spec, events) = IF Invalid \in {start, line} THEN InvalidRange ELSE Selection(low, end)
  <2>1. Select(spec, events) = ResolveRange(spec, events)
    BY DEF Select
  <2>2. QED
    BY <2>1 DEF ResolveRange
<1>4. \A i \in 1 .. Len(events) : Line(events, i) \in Nat
  BY TextLogIs
<1>5. Inclusive(spec, line) = IF spec.sep = ".." /\ spec.to[2] # None THEN line + 1 ELSE line
  BY DEF Inclusive
<1> HIDE DEF start, line
<1>6. Invalid \notin {start, line} /\ Select(spec, events) = Selection(low, end)
  BY <1>3 DEF InvalidRange
<1>7. start \in Nat /\ line \in Nat
  BY <1>2, <1>6
<1>8. end \in Nat
  BY <1>5, <1>7
<1> HIDE DEF end
<1>9. low \in {start, end} /\ low <= start /\ low <= end
  BY <1>7, <1>8, Smaller
<1> HIDE DEF low
<1>10. Select(spec, events).start = low /\ Select(spec, events).end = end
  BY <1>6 DEF Selection
<1>11. Shown(events, Select(spec, events)) = {i \in 1 .. Len(events) : low <= Line(events, i) /\ Line(events, i) < end}
  BY <1>7, <1>8, <1>9, <1>10, ShownIs
<1>12. ASSUME NEW i \in 1 .. Len(events)
       PROVE  low <= Line(events, i) /\ Line(events, i) < end <=> start <= Line(events, i) /\ Line(events, i) < end
  BY <1>4, <1>7, <1>8, <1>9
<1>13. QED
  BY <1>7, <1>11, <1>12 DEF start, line, end

(* ... which for a half-open range are those whose numbers are in the slice. *)
LEMMA HalfOpenCuts ==
  ASSUME NEW events, TextLog(events), NEW spec \in AllRanges, spec.sep = ":",
         Select(spec, events).outcome = "range",
         NEW i \in 1 .. Len(events), NEW x \in Int, NEW first \in Int, NEW last \in Int,
         Cuts(events, i, BoundToLine(spec.from, events, TRUE), x, first),
         Cuts(events, i, BoundToLine(spec.to, events, FALSE), x, last)
  PROVE  i \in Shown(events, Select(spec, events)) <=> first <= x /\ x < last
<1> DEFINE start == BoundToLine(spec.from, events, TRUE)
           line  == BoundToLine(spec.to, events, FALSE)
<1>1. i \in Shown(events, Select(spec, events)) <=>
        start <= Line(events, i) /\ Line(events, i) < Inclusive(spec, line)
  BY RangeShows
<1>2. Inclusive(spec, line) = line
  BY DEF Inclusive
<1>3. Line(events, i) \in Nat
  BY TextLogIs
<1>4. /\ start \in Nat /\ (start <= Line(events, i) <=> first <= x)
      /\ line \in Nat /\ (line <= Line(events, i) <=> last <= x)
  BY DEF Cuts
<1> HIDE DEF start, line
<1>5. QED
  BY <1>1, <1>2, <1>3, <1>4

(* A slice of n items is cut between them. *)
LEMMA SlicesAre ==
  ASSUME NEW n \in Nat, NEW value \in Int \cup {None}
  PROVE  SliceStart(value, n) \in Nat /\ SliceEnd(value, n) \in Nat
<1>1. CASE value = None
  BY <1>1 DEF SliceStart, SliceEnd
<1>2. CASE value # None
  <2>1. Index(value, n) \in Int
    BY <1>2 DEF Index
  <2>2. SliceStart(value, n) = Max({0, Index(value, n)}) /\ SliceEnd(value, n) = Max({0, Index(value, n)})
    BY <1>2 DEF SliceStart, SliceEnd
  <2>3. QED
    BY <2>1, <2>2, Larger
<1>3. QED
  BY <1>1, <1>2

LEMMA BoundsAre ==
  ASSUME NEW b \in AllBounds
  PROVE  /\ b[2] \in Int \cup {None} /\ b = <<b[1], b[2]>>
         /\ b[1] # "change" => b[2] \in Int
<1>1. CASE b \in Units \X Int
  BY <1>1
<1>2. CASE b = Unbounded
  BY <1>2 DEF Unbounded
<1>3. QED
  BY <1>1, <1>2 DEF AllBounds

LEMMA RangesAreSlices ==
  ASSUME NEW events, TextLog(events), NEW spec \in AllRanges
  PROVE  RangeSlices(spec, events)
<1> DEFINE shown == Shown(events, Select(spec, events))
           n == Len(events)
           first == spec.from[2]
           last  == spec.to[2]
<1>1. SUFFICES ASSUME spec.sep = ":", Select(spec, events).outcome = "range"
      PROVE  /\ Both(spec, "change") => ChangesAt(events, shown) = Slice(spec, Total(events))
             /\ Both(spec, "snapshot") =>
                  shown = {i \in DOMAIN events : Section(events, i) \in Slice(spec, Sections(events))}
             /\ Both(spec, "version") /\ Ascending(events)
                  /\ Locatable(events, first) /\ Locatable(events, last) =>
                  shown = {i \in DOMAIN events : first <= events[i].v /\ events[i].v < last}
  BY DEF RangeSlices
<1>2. n \in Nat /\ DOMAIN events = 1 .. n /\ \A i \in 1 .. n : events[i].v \in Nat
  BY TextLogIs
<1>3. /\ spec.from \in AllBounds /\ spec.to \in AllBounds
      /\ first \in Int \cup {None} /\ last \in Int \cup {None}
      /\ spec.from = <<spec.from[1], first>> /\ spec.to = <<spec.to[1], last>>
      /\ spec.from[1] # "change" => first \in Int
      /\ spec.to[1] # "change" => last \in Int
  <2>1. spec.from \in AllBounds /\ spec.to \in AllBounds
    BY DEF AllRanges
  <2>2. QED
    BY <2>1, BoundsAre
<1>4. shown \subseteq 1 .. n
  <2>1. spec.sep # "single"
    BY <1>1
  <2>2. QED
    BY <1>1, <2>1, RangeShows
<1>5. ASSUME Both(spec, "change")
      PROVE  ChangesAt(events, shown) = Slice(spec, Total(events))
  <2> DEFINE m == Total(events)
             f == SliceStart(first, m)
             l == SliceEnd(last, m)
             P == Changes(events)
             number == ChangeNumbers(events)
  <2>1. spec.from = <<"change", first>> /\ spec.to = <<"change", last>>
    BY <1>3, <1>5 DEF Both
  <2>2. /\ m \in Nat
        /\ \A i \in 1 .. n : number[i] \in Int /\ number[i] < m /\ (i \in P => 0 <= number[i])
        /\ \A k \in 0 .. m - 1 : \E i \in P : number[i] = k
    BY ChangesNumbered DEF Numbering
  <2>3. f \in Nat /\ l \in Nat
    BY <1>3, <2>2, SlicesAre
  <2>4. P \subseteq 1 .. n /\ \A i \in 1 .. n : i \in P <=> IsChange(events[i])
    BY <1>2 DEF Changes
  <2>5. \A i \in 1 .. n : number[i] = ChangeNumber(events, i)
    BY <1>2 DEF ChangeNumbers
  <2>6. ASSUME NEW i \in P
        PROVE  i \in shown <=> f <= number[i] /\ number[i] < l
    <3>1. i \in 1 .. n /\ 0 <= number[i] /\ number[i] \in Int
      BY <2>2, <2>4
    <3>2. Cuts(events, i, BoundToLine(spec.from, events, TRUE), number[i], f)
      <4>1. Cuts(events, i, BoundToLine(<<"change", first>>, events, TRUE), number[i],
                 IF TRUE THEN SliceStart(first, m) ELSE SliceEnd(first, m))
        BY <1>3, <3>1, ChangeBound
      <4>2. QED
        BY <2>1, <4>1
    <3>3. Cuts(events, i, BoundToLine(spec.to, events, FALSE), number[i], l)
      <4>1. Cuts(events, i, BoundToLine(<<"change", last>>, events, FALSE), number[i],
                 IF FALSE THEN SliceStart(last, m) ELSE SliceEnd(last, m))
        BY <1>3, <3>1, ChangeBound
      <4>2. QED
        BY <2>1, <4>1
    <3>4. f \in Int /\ l \in Int
      BY <2>3
    <3> HIDE DEF f, l, number, m, P, first, last
    <3>5. QED
      BY <1>1, <3>1, <3>2, <3>3, <3>4, HalfOpenCuts
  <2>7. Slice(spec, m) = {k \in 0 .. m - 1 : f <= k /\ k < l}
    BY DEF Slice
  <2>8. ChangesAt(events, shown) = {number[i] : i \in {j \in shown : j \in P}}
    <3>1. {j \in shown : IsChange(events[j])} = {j \in shown : j \in P}
      BY <1>4, <2>4
    <3>2. \A i \in {j \in shown : j \in P} : ChangeNumber(events, i) = number[i]
      BY <1>4, <2>5
    <3>3. QED
      BY <3>1, <3>2 DEF ChangesAt
  <2> HIDE DEF shown, m, f, l, P, number, n
  <2>9. \A k : k \in ChangesAt(events, shown) => k \in Slice(spec, m)
    <3>1. \A i \in shown : i \in P => number[i] \in 0 .. m - 1 /\ f <= number[i] /\ number[i] < l
      <4> TAKE i \in shown
      <4>1. i \in P => number[i] \in Int /\ number[i] < m /\ 0 <= number[i]
        BY <1>4, <2>2
      <4>2. i \in P => f <= number[i] /\ number[i] < l
        BY <2>6
      <4>3. QED
        BY <2>2, <4>1, <4>2
    <3>2. QED
      BY <2>7, <2>8, <3>1
  <2>10. \A k : k \in Slice(spec, m) => k \in ChangesAt(events, shown)
    <3> TAKE k
    <3>1. HAVE k \in Slice(spec, m)
    <3>2. k \in 0 .. m - 1 /\ f <= k /\ k < l
      BY <2>7, <3>1
    <3>3. PICK i \in P : number[i] = k
      BY <2>2, <3>2
    <3>4. i \in shown
      BY <2>6, <3>2, <3>3
    <3>5. QED
      BY <2>8, <3>3, <3>4
  <2>11. QED
    BY <2>9, <2>10 DEF m
<1>6. ASSUME Both(spec, "snapshot")
      PROVE  shown = {i \in DOMAIN events : Section(events, i) \in Slice(spec, Sections(events))}
  <2> DEFINE m == Sections(events)
             f == SliceStart(first, m)
             l == SliceEnd(last, m)
             number == SectionNumbers(events)
  <2>1. spec.from = <<"snapshot", first>> /\ spec.to = <<"snapshot", last>> /\ first \in Int /\ last \in Int
    BY <1>3, <1>6 DEF Both
  <2>2. m \in Nat /\ \A i \in 1 .. n : number[i] \in Int /\ number[i] < m /\ 0 <= number[i]
    BY SectionsNumbered DEF Numbering
  <2>3. f \in Nat /\ l \in Nat
    BY <1>3, <2>2, SlicesAre
  <2>4. \A i \in 1 .. n : number[i] = Section(events, i)
    BY <1>2 DEF SectionNumbers
  <2>5. ASSUME NEW i \in 1 .. n
        PROVE  i \in shown <=> f <= number[i] /\ number[i] < l
    <3>1. number[i] \in Int
      BY <2>2
    <3>2. Cuts(events, i, BoundToLine(spec.from, events, TRUE), number[i], f)
      <4>1. Cuts(events, i, BoundToLine(<<"snapshot", first>>, events, TRUE), number[i],
                 IF TRUE THEN SliceStart(first, m) ELSE SliceEnd(first, m))
        BY <2>1, SnapshotBound
      <4>2. QED
        BY <2>1, <4>1
    <3>3. Cuts(events, i, BoundToLine(spec.to, events, FALSE), number[i], l)
      <4>1. Cuts(events, i, BoundToLine(<<"snapshot", last>>, events, FALSE), number[i],
                 IF FALSE THEN SliceStart(last, m) ELSE SliceEnd(last, m))
        BY <2>1, SnapshotBound
      <4>2. QED
        BY <2>1, <4>1
    <3>4. f \in Int /\ l \in Int
      BY <2>3
    <3> HIDE DEF f, l, number, m, first, last
    <3>5. QED
      BY <1>1, <3>1, <3>2, <3>3, <3>4, HalfOpenCuts
  <2>6. Slice(spec, m) = {k \in 0 .. m - 1 : f <= k /\ k < l}
    BY DEF Slice
  <2> HIDE DEF shown, m, f, l, number, n
  <2>7. \A i \in 1 .. n : number[i] \in Slice(spec, m) <=> f <= number[i] /\ number[i] < l
    <3> TAKE i \in 1 .. n
    <3>1. number[i] \in 0 .. m - 1
      BY <2>2
    <3>2. QED
      BY <2>6, <3>1
  <2>8. QED
    BY <1>2, <1>4, <2>4, <2>5, <2>7 DEF m
<1>7. ASSUME Both(spec, "version"), Ascending(events), Locatable(events, first), Locatable(events, last)
      PROVE  shown = {i \in DOMAIN events : first <= events[i].v /\ events[i].v < last}
  <2>1. spec.from = <<"version", first>> /\ spec.to = <<"version", last>> /\ first \in Int /\ last \in Int
    BY <1>3, <1>7 DEF Both
  <2>2. ASSUME NEW i \in 1 .. n
        PROVE  i \in shown <=> first <= events[i].v /\ events[i].v < last
    <3>1. events[i].v \in Int
      BY <1>2
    <3>2. /\ Cuts(events, i, BoundToLine(<<"version", first>>, events, TRUE), events[i].v, first)
          /\ Cuts(events, i, BoundToLine(<<"version", last>>, events, FALSE), events[i].v, last)
      BY <1>7, <2>1, VersionBound
    <3>3. /\ Cuts(events, i, BoundToLine(spec.from, events, TRUE), events[i].v, first)
          /\ Cuts(events, i, BoundToLine(spec.to, events, FALSE), events[i].v, last)
      BY <2>1, <3>2
    <3> HIDE DEF first, last
    <3>4. QED
      BY <1>1, <2>1, <3>1, <3>3, HalfOpenCuts
  <2> HIDE DEF shown
  <2>3. QED
    BY <1>2, <1>4, <2>2
<1>8. QED
  BY <1>5, <1>6, <1>7

(* An inclusive end that is the line of some number k takes the records of *)
(* that number, too, if they are listed.                                   *)
LEMMA InclusiveCuts ==
  ASSUME NEW events, TextLog(events), NEW spec \in AllRanges, spec.sep = "..", spec.to[2] # None,
         Select(spec, events).outcome = "range",
         NEW P, NEW list, NEW number, Numbering(events, P, list, number),
         NEW k \in 0 .. Len(list) - 1, BoundToLine(spec.to, events, FALSE) = list[k + 1],
         NEW i \in 1 .. Len(events), i \in P, NEW first \in Int,
         Cuts(events, i, BoundToLine(spec.from, events, TRUE), number[i], first)
  PROVE  i \in Shown(events, Select(spec, events)) <=> first <= number[i] /\ number[i] <= k
<1> DEFINE start == BoundToLine(spec.from, events, TRUE)
           line  == BoundToLine(spec.to, events, FALSE)
           x     == number[i]
<1>1. i \in Shown(events, Select(spec, events)) <=>
        start <= Line(events, i) /\ Line(events, i) < Inclusive(spec, line)
  BY RangeShows
<1>2. Inclusive(spec, line) = line + 1
  BY DEF Inclusive
<1>3. Line(events, i) \in Nat
  BY TextLogIs
<1>4. start \in Nat /\ (start <= Line(events, i) <=> first <= x)
  BY DEF Cuts
<1>5. /\ line \in Nat /\ x \in Int /\ k \in Int
      /\ line <= Line(events, i) <=> k <= x
      /\ Line(events, i) = line <=> k = x
  <2>1. line = list[k + 1] /\ k \in Int
    <3>1. Len(list) \in Nat
      BY DEF Numbering
    <3>2. k \in Int
      BY <3>1
    <3>3. QED
      BY <3>2
  <2>2. list[k + 1] \in Nat /\ x \in Int
    BY DEF Numbering
  <2>3. /\ list[k + 1] <= Line(events, i) <=> k <= x
        /\ Line(events, i) = list[k + 1] <=> k = x
    BY DEF Numbering
  <2> HIDE DEF line, x
  <2>4. QED
    BY <2>1, <2>2, <2>3
<1> HIDE DEF start, line, x
<1>6. Line(events, i) < line + 1 <=> x <= k
  BY <1>3, <1>5
<1>7. QED
  BY <1>1, <1>2, <1>4, <1>6 DEF x

LEMMA EndsAreIncluded ==
  ASSUME NEW events, TextLog(events), NEW spec \in AllRanges
  PROVE  InclusiveEnd(spec, events)
<1> DEFINE shown == Shown(events, Select(spec, events))
           n == Len(events)
           first == spec.from[2]
           last  == spec.to[2]
           k == Index(last, IF spec.to[1] = "change" THEN Total(events) ELSE Sections(events))
<1>1. SUFFICES ASSUME spec.sep = "..", Select(spec, events).outcome = "range", last # None
      PROVE  /\ Both(spec, "change") /\ k \in 0 .. Total(events) - 1 =>
                  ChangesAt(events, shown) = {c \in 0 .. k : SliceStart(first, Total(events)) <= c}
             /\ Both(spec, "line") =>
                  shown = {i \in DOMAIN events : first <= events[i].line /\ events[i].line <= last}
             /\ Both(spec, "snapshot") /\ k \in 0 .. Sections(events) - 1 =>
                  {i \in shown : IsSnapshot(events[i])} =
                    {i \in DOMAIN events : /\ IsSnapshot(events[i])
                                           /\ Section(events, i) <= k
                                           /\ SliceStart(first, Sections(events)) <= Section(events, i)}
  BY DEF InclusiveEnd
<1>2. n \in Nat /\ DOMAIN events = 1 .. n /\ \A i \in 1 .. n : Line(events, i) \in Nat
  BY TextLogIs
<1>3. /\ first \in Int \cup {None} /\ last \in Int
      /\ spec.from = <<spec.from[1], first>> /\ spec.to = <<spec.to[1], last>>
      /\ spec.from[1] # "change" => first \in Int
  <2>1. spec.from \in AllBounds /\ spec.to \in AllBounds
    BY DEF AllRanges
  <2>2. QED
    BY <1>1, <2>1, BoundsAre
<1>4. shown \subseteq 1 .. n
  <2>1. spec.sep # "single"
    BY <1>1
  <2>2. QED
    BY <1>1, <2>1, RangeShows
<1>5. ASSUME Both(spec, "change"), k \in 0 .. Total(events) - 1
      PROVE  ChangesAt(events, shown) = {c \in 0 .. k : SliceStart(first, Total(events)) <= c}
  <2> DEFINE m == Total(events)
             list == ChangeLines(events)
             f == SliceStart(first, m)
             P == Changes(events)
             number == ChangeNumbers(events)
  <2>1. spec.from = <<"change", first>> /\ spec.to = <<"change", last>> /\ k = Index(last, m)
    BY <1>3, <1>5 DEF Both
  <2>2. /\ m \in Nat /\ Numbering(events, P, list, number) /\ m = Len(list)
        /\ \A i \in 1 .. n : number[i] \in Int /\ number[i] < m /\ (i \in P => 0 <= number[i])
        /\ \A h \in 0 .. m - 1 : \E i \in P : number[i] = h
    BY ChangesNumbered DEF Numbering
  <2>3. f \in Nat
    BY <1>3, <2>2, SlicesAre
  <2>4. P \subseteq 1 .. n /\ \A i \in 1 .. n : i \in P <=> IsChange(events[i])
    BY <1>2 DEF Changes
  <2>5. \A i \in 1 .. n : number[i] = ChangeNumber(events, i)
    BY <1>2 DEF ChangeNumbers
  <2>6. BoundToLine(spec.to, events, FALSE) = list[k + 1]
    <3> DEFINE c == Max({0, FromEnd(last, Len(list))})
    <3>1. spec.to[1] = "change" /\ spec.to[2] = last
      BY <2>1
    <3>2. BoundToLine(spec.to, events, FALSE) = IF c < Len(list) THEN list[c + 1] ELSE EndOfFile(events)
      BY <1>1, <3>1 DEF BoundToLine
    <3>3. FromEnd(last, Len(list)) = k /\ k \in Nat /\ k < Len(list)
      <4>1. Len(list) = m /\ k = Index(last, m) /\ last \in Int /\ m \in Nat
        BY <1>3, <2>1, <2>2
      <4>2. k \in Nat /\ k < m
        BY <1>5, <2>2
      <4> HIDE DEF list, m, k, last
      <4>3. FromEnd(last, m) = Index(last, m)
        BY <4>1 DEF FromEnd, Index
      <4>4. QED
        BY <4>1, <4>2, <4>3
    <3>4. Max({0, k}) = k
      BY <3>3, Larger
    <3>5. QED
      BY <3>2, <3>3, <3>4
  <2>7. ASSUME NEW i \in P
        PROVE  i \in shown <=> f <= number[i] /\ number[i] <= k
    <3>1. i \in 1 .. n /\ 0 <= number[i] /\ number[i] \in Int
      BY <2>2, <2>4
    <3>2. Cuts(events, i, BoundToLine(spec.from, events, TRUE), number[i], f)
      <4>1. Cuts(events, i, BoundToLine(<<"change", first>>, events, TRUE), number[i],
                 IF TRUE THEN SliceStart(first, m) ELSE SliceEnd(first, m))
        BY <1>3, <3>1, ChangeBound
      <4>2. QED
        BY <2>1, <4>1
    <3>3. f \in Int /\ k \in 0 .. Len(list) - 1
      BY <1>5, <2>2, <2>3
    <3>4. spec.sep = ".." /\ spec.to[2] # None /\ Select(spec, events).outcome = "range"
      BY <1>1
    <3>5. Numbering(events, P, list, number) /\ i \in 1 .. Len(events)
      BY <2>2, <3>1
    <3> HIDE DEF f, number, m, P, first, last, k, list, n, shown
    <3>6. i \in Shown(events, Select(spec, events)) <=> f <= number[i] /\ number[i] <= k
      BY <2>6, <3>2, <3>3, <3>4, <3>5, InclusiveCuts
    <3>7. QED
      BY <3>6 DEF shown
  <2>8. ChangesAt(events, shown) = {number[i] : i \in {j \in shown : j \in P}}
    <3>1. {j \in shown : IsChange(events[j])} = {j \in shown : j \in P}
      BY <1>4, <2>4
    <3>2. \A i \in {j \in shown : j \in P} : ChangeNumber(events, i) = number[i]
      BY <1>4, <2>5
    <3>3. QED
      BY <3>1, <3>2 DEF ChangesAt
  <2>9. k \in Nat /\ k < m
    BY <1>5, <2>2
  <2> HIDE DEF shown, m, f, P, number, n, k
  <2>10. \A c : c \in ChangesAt(events, shown) => c \in 0 .. k /\ f <= c
    <3>1. \A i \in shown : i \in P => number[i] \in 0 .. k /\ f <= number[i]
      <4> TAKE i \in shown
      <4>1. i \in P => number[i] \in Int /\ 0 <= number[i]
        BY <1>4, <2>2
      <4>2. i \in P => f <= number[i] /\ number[i] <= k
        BY <2>7
      <4>3. QED
        BY <2>9, <4>1, <4>2
    <3>2. QED
      BY <2>8, <3>1
  <2>11. \A c : c \in 0 .. k /\ f <= c => c \in ChangesAt(events, shown)
    <3> TAKE c
    <3>1. HAVE c \in 0 .. k /\ f <= c
    <3>2. c \in 0 .. m - 1 /\ c <= k
      BY <2>2, <2>9, <3>1
    <3>3. PICK i \in P : number[i] = c
      BY <2>2, <3>2
    <3>4. i \in shown
      BY <2>7, <3>1, <3>2, <3>3
    <3>5. QED
      BY <2>8, <3>3, <3>4
  <2>12. QED
    BY <2>10, <2>11 DEF m, f
<1>6. ASSUME Both(spec, "line")
      PROVE  shown = {i \in DOMAIN events : first <= events[i].line /\ events[i].line <= last}
  <2>1. spec.from[1] = "line" /\ spec.to[1] = "line" /\ first \in Int /\ first # None
    BY <1>3, <1>6, NoneAssumption DEF Both
  <2> DEFINE start == BoundToLine(spec.from, events, TRUE)
             line  == BoundToLine(spec.to, events, FALSE)
  <2>2. start = IF first < 0 THEN Invalid ELSE first
    BY <2>1 DEF BoundToLine
  <2>3. line = IF last < 0 THEN Invalid ELSE last
    BY <1>1, <1>3, <2>1 DEF BoundToLine
  <2>4. /\ start \in Nat /\ line \in Nat
        /\ shown = {i \in 1 .. n : start <= Line(events, i) /\ Line(events, i) < Inclusive(spec, line)}
    <3>1. spec.sep # "single"
      BY <1>1
    <3>2. QED
      BY <1>1, <3>1, RangeShows
  <2>5. Inclusive(spec, line) = line + 1
    BY <1>1 DEF Inclusive
  <2> HIDE DEF start, line, shown, first, last
  <2>6. start = first /\ line = last
    BY <2>2, <2>3, <2>4 DEF Invalid
  <2>7. \A i \in 1 .. n : Line(events, i) < line + 1 <=> Line(events, i) <= line
    BY <1>2, <2>4
  <2>8. QED
    BY <1>2, <2>4, <2>5, <2>6, <2>7 DEF Line
<1>7. ASSUME Both(spec, "snapshot"), k \in 0 .. Sections(events) - 1
      PROVE  {i \in shown : IsSnapshot(events[i])} =
               {i \in DOMAIN events : /\ IsSnapshot(events[i])
                                      /\ Section(events, i) <= k
                                      /\ SliceStart(first, Sections(events)) <= Section(events, i)}
  <2> DEFINE m == Sections(events)
             list == SnapshotLines(events)
             f == SliceStart(first, m)
             P == Snapshots(events)
             number == SectionNumbers(events)
  <2>1. /\ spec.from = <<"snapshot", first>> /\ spec.to = <<"snapshot", last>> /\ first \in Int
        /\ k = Index(last, m)
    BY <1>3, <1>7 DEF Both
  <2>2. /\ m \in Nat /\ Numbering(events, P, list, number) /\ m = Len(list)
        /\ \A i \in 1 .. n : number[i] \in Int
    BY SectionsNumbered DEF Numbering
  <2>3. f \in Nat
    BY <1>3, <2>2, SlicesAre
  <2>4. P \subseteq 1 .. n /\ \A i \in 1 .. n : i \in P <=> IsSnapshot(events[i])
    BY <1>2 DEF Snapshots
  <2>5. \A i \in 1 .. n : number[i] = Section(events, i)
    BY <1>2 DEF SectionNumbers
  <2>6. BoundToLine(spec.to, events, FALSE) = list[k + 1]
    <3> DEFINE s == FromEnd(last, Len(list))
    <3>1. spec.to[1] = "snapshot" /\ spec.to[2] = last
      BY <2>1
    <3>2. BoundToLine(spec.to, events, FALSE) =
            IF s < 0 THEN 0 ELSE IF s < Len(list) THEN list[s + 1] ELSE EndOfFile(events)
      BY <1>1, <3>1 DEF BoundToLine
    <3>3. k \in Nat /\ k < Len(list)
      BY <1>7, <2>2
    <3>4. s = k
      <4>1. Len(list) = m /\ k = Index(last, m) /\ last \in Int /\ m \in Nat
        BY <1>3, <2>1, <2>2
      <4>2. s = FromEnd(last, Len(list))
        OBVIOUS
      <4> HIDE DEF list, m, k, last, s
      <4>3. FromEnd(last, m) = Index(last, m)
        BY <4>1 DEF FromEnd, Index
      <4>4. QED
        BY <4>1, <4>2, <4>3
    <3> HIDE DEF s, k, list, last
    <3>5. ~ (s < 0) /\ s < Len(list)
      BY <3>3, <3>4
    <3>6. QED
      BY <3>2, <3>4, <3>5
  <2>7. ASSUME NEW i \in P
        PROVE  i \in shown <=> f <= number[i] /\ number[i] <= k
    <3>1. i \in 1 .. n
      BY <2>4
    <3>2. Cuts(events, i, BoundToLine(spec.from, events, TRUE), number[i], f)
      <4>1. Cuts(events, i, BoundToLine(<<"snapshot", first>>, events, TRUE), number[i],
                 IF TRUE THEN SliceStart(first, m) ELSE SliceEnd(first, m))
        BY <2>1, <3>1, SnapshotBound
      <4>2. QED
        BY <2>1, <4>1
    <3>3. f \in Int /\ k \in 0 .. Len(list) - 1
      BY <1>7, <2>2, <2>3
    <3>4. spec.sep = ".." /\ spec.to[2] # None /\ Select(spec, events).outcome = "range"
      BY <1>1
    <3>5. Numbering(events, P, list, number) /\ i \in 1 .. Len(events)
      BY <2>2, <3>1
    <3> HIDE DEF f, number, m, P, first, last, k, list, n, shown
    <3>6. i \in Shown(events, Select(spec, events)) <=> f <= number[i] /\ number[i] <= k
      BY <2>6, <3>2, <3>3, <3>4, <3>5, InclusiveCuts
    <3>7. QED
      BY <3>6 DEF shown
  <2> HIDE DEF shown, P, k, number, n
  <2>8. QED
    BY <1>2, <1>4, <2>4, <2>5, <2>7
<1>8. QED
  BY <1>5, <1>6, <1>7

(* What one number selects is what has the number, or follows it up to the *)
(* next.                                                                   *)
LEMMA ChangeIsShown ==
  ASSUME NEW events, TextLog(events), NEW value \in Int
  PROVE  IF Index(value, Total(events)) \in 0 .. Total(events) - 1
         THEN ChangesAt(events, Shown(events, SelectChange(value, events))) = {Index(value, Total(events))}
         ELSE SelectChange(value, events) = NotFound
<1> DEFINE n == Len(events)
           m == Total(events)
           list == ChangeLines(events)
           P == Changes(events)
           number == ChangeNumbers(events)
           k == Index(value, m)
           eof == EndOfFile(events)
           start == list[k + 1]
           end == IF k + 1 < m THEN list[k + 2] ELSE eof
           shown == Shown(events, SelectChange(value, events))
<1>1. /\ m \in Nat /\ m = Len(list)
      /\ \A h \in 0 .. m - 1 : list[h + 1] \in Nat
      /\ \A i \in 1 .. n : /\ number[i] \in Int /\ number[i] < m /\ (i \in P => 0 <= number[i])
                           /\ \A h \in 0 .. m - 1 : list[h + 1] <= Line(events, i) <=> h <= number[i]
      /\ \A h \in 0 .. m - 1 : \E i \in P : number[i] = h
  BY ChangesNumbered DEF Numbering
<1>2. /\ n \in Nat /\ DOMAIN events = 1 .. n /\ eof \in Nat
      /\ \A i \in 1 .. n : Line(events, i) \in Nat /\ Line(events, i) < eof
  BY TextLogIs
<1>3. FromEnd(value, m) = k /\ k \in Int
  BY <1>1 DEF FromEnd, Index
<1>4. SelectChange(value, events) = IF k \notin 0 .. m - 1 THEN NotFound ELSE Selection(start, end)
  <2>1. Len(list) = m
    BY <1>1
  <2>2. SelectChange(value, events) =
          IF FromEnd(value, Len(list)) \notin 0 .. Len(list) - 1 THEN NotFound
          ELSE Selection(list[FromEnd(value, Len(list)) + 1],
                         IF FromEnd(value, Len(list)) + 1 < Len(list)
                         THEN list[FromEnd(value, Len(list)) + 2] ELSE eof)
    BY DEF SelectChange
  <2>3. FromEnd(value, Len(list)) = k
    BY <1>3, <2>1
  <2> HIDE DEF list, m, k, eof
  <2>4. QED
    BY <2>1, <2>2, <2>3
<1>5. P \subseteq 1 .. n /\ \A i \in 1 .. n : i \in P <=> IsChange(events[i])
  BY <1>2 DEF Changes
<1>6. \A i \in 1 .. n : number[i] = ChangeNumber(events, i)
  BY <1>2 DEF ChangeNumbers
<1>7. ASSUME k \in 0 .. m - 1
      PROVE  ChangesAt(events, shown) = {k}
  <2>1. k + 1 < m => k + 1 \in 0 .. m - 1 /\ list[k + 1 + 1] = list[k + 2]
    BY <1>1, <1>7
  <2>2. start \in Nat /\ end \in Nat
    <3>1. start \in Nat
      BY <1>1, <1>7
    <3>2. k + 1 < m => list[k + 2] \in Nat
      BY <1>1, <2>1
    <3>3. QED
      BY <1>2, <3>1, <3>2
  <2>3. \A i \in 1 .. n : start <= Line(events, i) <=> k <= number[i]
    BY <1>1, <1>7
  <2>4. \A i \in 1 .. n : Line(events, i) < end <=> number[i] < k + 1
    <3> TAKE i \in 1 .. n
    <3>1. /\ Line(events, i) \in Nat /\ Line(events, i) < eof /\ eof \in Nat
          /\ number[i] \in Int /\ number[i] < m
      BY <1>1, <1>2
    <3>2. CASE k + 1 < m
      <4>1. list[k + 2] \in Nat /\ (list[k + 2] <= Line(events, i) <=> k + 1 <= number[i])
        <5>1. list[k + 1 + 1] \in Nat /\ (list[k + 1 + 1] <= Line(events, i) <=> k + 1 <= number[i])
          BY <1>1, <2>1, <3>2
        <5>2. QED
          BY <2>1, <3>2, <5>1
      <4>2. end = list[k + 2]
        BY <3>2
      <4> HIDE DEF end, list, number, m, k
      <4>3. QED
        BY <1>3, <3>1, <4>1, <4>2
    <3>3. CASE ~ (k + 1 < m)
      <4>1. end = eof
        BY <3>3
      <4> HIDE DEF end, list, number, m, k, eof
      <4>2. QED
        BY <1>1, <1>3, <1>7, <3>1, <3>3, <4>1
    <3>4. QED
      BY <3>2, <3>3
  <2> DEFINE s == Selection(start, end)
  <2>5. SelectChange(value, events) = s
    BY <1>4, <1>7
  <2>6. s.start = start /\ s.end = end
    BY DEF Selection
  <2> HIDE DEF start, end, s
  <2>7. Shown(events, s) = {i \in 1 .. n : start <= Line(events, i) /\ Line(events, i) < end}
    BY <2>2, <2>6, ShownIs
  <2>8. \A i : i \in shown <=> i \in 1 .. n /\ k <= number[i] /\ number[i] < k + 1
    BY <2>3, <2>4, <2>5, <2>7
  <2> HIDE DEF shown, P, number, n, list, m, k
  <2>9. \A i : i \in shown <=> i \in 1 .. n /\ number[i] = k
    <3>1. \A i \in 1 .. n : number[i] = k <=> k <= number[i] /\ number[i] < k + 1
      BY <1>1, <1>3
    <3>2. QED
      BY <2>8, <3>1
  <2>10. ChangesAt(events, shown) = {number[i] : i \in {j \in shown : j \in P}}
    <3>1. {j \in shown : IsChange(events[j])} = {j \in shown : j \in P}
      BY <1>5, <2>9
    <3>2. \A i \in {j \in shown : j \in P} : ChangeNumber(events, i) = number[i]
      BY <1>6, <2>9
    <3>3. QED
      BY <3>1, <3>2 DEF ChangesAt
  <2>11. \A i \in {j \in shown : j \in P} : number[i] = k
    BY <2>9
  <2>12. PICK i \in P : number[i] = k
    BY <1>1, <1>7
  <2>13. i \in {j \in shown : j \in P}
    BY <1>5, <2>9, <2>12
  <2>14. QED
    BY <2>10, <2>11, <2>12, <2>13
<1>8. ASSUME k \notin 0 .. m - 1
      PROVE  SelectChange(value, events) = NotFound
  BY <1>4, <1>8
<1>9. QED
  BY <1>7, <1>8

(* The records of a line, of which there is one at most. *)
LEMMA LineIsShown ==
  ASSUME NEW events, TextLog(events), NEW line \in Int, NEW s, s.start = line, s.end = line + 1
  PROVE  /\ Shown(events, s) = EventsAt(events, line)
         /\ EventsAt(events, line) = {i \in 1 .. Len(events) : Line(events, i) = line}
<1>1. Shown(events, s) = {i \in 1 .. Len(events) : line <= Line(events, i) /\ Line(events, i) < line + 1}
  BY ShownIs
<1>2. EventsAt(events, line) = {i \in 1 .. Len(events) : Line(events, i) = line}
  BY TextLogIs DEF EventsAt, Line
<1>3. \A i \in 1 .. Len(events) : Line(events, i) \in Nat
  BY TextLogIs
<1>4. \A i \in 1 .. Len(events) : line <= Line(events, i) /\ Line(events, i) < line + 1 <=> Line(events, i) = line
  BY <1>3
<1>5. QED
  BY <1>1, <1>2, <1>4

LEMMA SnapshotIsShown ==
  ASSUME NEW events, TextLog(events), NEW value \in Int
  PROVE  IF \E i \in DOMAIN events : IsSnapshot(events[i]) /\ Section(events, i) = Index(value, Sections(events))
         THEN /\ {Section(events, i) : i \in Shown(events, SelectSnapshot(value, events))} =
                   {Index(value, Sections(events))}
              /\ SelectSnapshot(value, events).outcome = "snapshot"
         ELSE SelectSnapshot(value, events) = NotFound
<1> DEFINE n == Len(events)
           m == Sections(events)
           list == SnapshotLines(events)
           P == Snapshots(events)
           number == SectionNumbers(events)
           k == Index(value, m)
           line == list[k + 1]
           at == EventsAt(events, line)
           chosen == SelectSnapshot(value, events)
<1>1. /\ m \in Nat /\ m = Len(list)
      /\ \A h \in 0 .. m - 1 : list[h + 1] \in Nat
      /\ \A i \in 1 .. n : /\ number[i] \in Int /\ number[i] < m /\ 0 <= number[i]
                           /\ \A h \in 0 .. m - 1 : Line(events, i) = list[h + 1] <=> i \in P /\ h = number[i]
  BY SectionsNumbered DEF Numbering
<1>2. n \in Nat /\ DOMAIN events = 1 .. n
  BY TextLogIs
<1>3. FromEnd(value, m) = k /\ k \in Int
  BY <1>1 DEF FromEnd, Index
<1>4. chosen = IF k \notin 0 .. m - 1 \/ at = {} THEN NotFound ELSE Snapshot(line)
  <2>1. Len(list) = m
    BY <1>1
  <2>2. chosen = IF \/ FromEnd(value, Len(list)) \notin 0 .. Len(list) - 1
                    \/ EventsAt(events, list[FromEnd(value, Len(list)) + 1]) = {}
                 THEN NotFound ELSE Snapshot(list[FromEnd(value, Len(list)) + 1])
    BY DEF SelectSnapshot
  <2>3. FromEnd(value, Len(list)) = k
    BY <1>3, <2>1
  <2> HIDE DEF list, m, k, chosen
  <2>4. QED
    BY <2>1, <2>2, <2>3
<1>5. P \subseteq 1 .. n /\ \A i \in 1 .. n : i \in P <=> IsSnapshot(events[i])
  BY <1>2 DEF Snapshots
<1>6. \A i \in 1 .. n : number[i] = Section(events, i)
  BY <1>2 DEF SectionNumbers
<1>7. ASSUME k \in 0 .. m - 1
      PROVE  /\ line \in Nat
             /\ at = {i \in P : number[i] = k}
  <2>1. line \in Nat
    BY <1>1, <1>7
  <2> DEFINE s == Snapshot(line)
  <2>2. s.start = line /\ s.end = line + 1
    BY DEF Snapshot
  <2>3. at = {i \in 1 .. n : Line(events, i) = line}
    <3>1. line \in Int
      BY <2>1
    <3> HIDE DEF line, s
    <3>2. QED
      BY <2>2, <3>1, LineIsShown
  <2>4. \A i \in 1 .. n : Line(events, i) = line <=> i \in P /\ number[i] = k
    BY <1>1, <1>7
  <2> HIDE DEF P, line, at, number, n
  <2>5. QED
    BY <1>5, <2>1, <2>3, <2>4
<1>8. \A i \in P : number[i] = k => k \in 0 .. m - 1
  <2> TAKE i \in P
  <2>1. number[i] \in Int /\ number[i] < m /\ 0 <= number[i]
    BY <1>1, <1>5
  <2> HIDE DEF number, m, k
  <2>2. QED
    BY <1>1, <2>1
<1>9. ASSUME NEW i \in P, number[i] = k
      PROVE  {Section(events, j) : j \in Shown(events, chosen)} = {k} /\ chosen.outcome = "snapshot"
  <2>1. k \in 0 .. m - 1
    BY <1>8, <1>9
  <2>2. line \in Nat /\ at = {j \in P : number[j] = k}
    BY <1>7, <2>1
  <2>3. i \in at
    BY <1>9, <2>2
  <2>4. chosen = Snapshot(line)
    <3> HIDE DEF at, line, k, m, chosen
    <3>1. QED
      BY <1>4, <2>1, <2>3
  <2>5. chosen.start = line /\ chosen.end = line + 1 /\ chosen.outcome = "snapshot"
    BY <2>4 DEF Snapshot
  <2>6. Shown(events, chosen) = at
    <3>1. line \in Int
      BY <2>2
    <3> HIDE DEF line, chosen
    <3>2. QED
      BY <2>5, <3>1, LineIsShown
  <2> HIDE DEF at, line, k, m, chosen, number, P, n
  <2>7. \A j \in at : Section(events, j) = k
    BY <1>5, <1>6, <2>2
  <2>8. QED
    BY <2>3, <2>5, <2>6, <2>7
<1>10. ASSUME \A i \in P : number[i] # k
       PROVE  chosen = NotFound
  <2>1. k \in 0 .. m - 1 => at = {}
    BY <1>7, <1>10
  <2> HIDE DEF at, line, k, m, chosen
  <2>2. QED
    BY <1>4, <2>1
<1>11. (\E i \in DOMAIN events : IsSnapshot(events[i]) /\ Section(events, i) = k) <=> \E i \in P : number[i] = k
  <2> HIDE DEF P, k, number, n
  <2>1. QED
    BY <1>2, <1>5, <1>6
<1> HIDE DEF P, number
<1>12. QED
  BY <1>9, <1>10, <1>11

LEMMA VersionIsShown ==
  ASSUME NEW events, TextLog(events), Ascending(events), NEW value \in Nat
  PROVE  IF value \in Versions(events)
         THEN Shown(events, SelectVersion(value, events)) = {i \in DOMAIN events : events[i].v = value}
         ELSE SelectVersion(value, events) = NotFound
<1> DEFINE n == Len(events)
           V == Versions(events)
           lines == VersionLines(events)
           eof == EndOfFile(events)
           later == {lines[v] : v \in {w \in V : lines[w] > lines[value]}}
           end == IF later = {} THEN eof ELSE Min(later)
           chosen == SelectVersion(value, events)
<1>1. /\ n \in Nat /\ DOMAIN events = 1 .. n /\ eof \in Nat
      /\ \A i \in 1 .. n : /\ events[i].v \in Nat /\ Line(events, i) \in Nat
                           /\ 0 < Line(events, i) /\ Line(events, i) < eof
  BY TextLogIs
<1>2. /\ DOMAIN lines = V /\ V \in SUBSET Nat /\ lines[0] = 0
      /\ \A i \in 1 .. n : events[i].v \in V
      /\ \A v \in V : lines[v] \in Nat
      /\ \A v \in V : v # 0 => \E f \in 1 .. n : events[f].v = v /\ lines[v] = Line(events, f)
  BY VersionsAre
<1>3. \A v \in V, i \in 1 .. n : lines[v] <= Line(events, i) <=> v <= events[i].v
  BY VersionCuts
<1>4. chosen = IF value \notin V THEN NotFound ELSE Selection(lines[value], end)
  <2>1. chosen = IF value < 0 THEN InvalidRange
                 ELSE IF value \notin DOMAIN lines THEN NotFound ELSE Selection(lines[value], end)
    BY <1>2 DEF SelectVersion
  <2>2. ~ (value < 0)
    OBVIOUS
  <2> HIDE DEF chosen, lines, end, V
  <2>3. QED
    BY <1>2, <2>1, <2>2
<1> HIDE DEF lines, V, n, eof
<1>5. \A v, w \in V : lines[v] < lines[w] <=> v < w
  <2>1. ASSUME NEW v \in V, NEW w \in V, v < w
        PROVE  lines[v] < lines[w]
    <3>1. v \in Nat /\ w \in Nat /\ w # 0 /\ lines[v] \in Nat /\ lines[w] \in Nat
      BY <1>2, <2>1
    <3>2. CASE v = 0
      <4>1. PICK f \in 1 .. n : lines[w] = Line(events, f)
        BY <1>2, <3>1
      <4>2. QED
        BY <1>1, <1>2, <3>2, <4>1
    <3>3. CASE v # 0
      <4>1. PICK f \in 1 .. n : events[f].v = v /\ lines[v] = Line(events, f)
        BY <1>2, <3>3
      <4>2. lines[w] <= lines[v] <=> w <= v
        BY <1>3, <4>1
      <4>3. QED
        BY <2>1, <3>1, <4>2
    <3>4. QED
      BY <3>2, <3>3
  <2> TAKE v, w \in V
  <2>3. v \in Nat /\ w \in Nat /\ lines[v] \in Nat /\ lines[w] \in Nat
    BY <1>2
  <2>4. v < w => lines[v] < lines[w]
    BY <2>1
  <2>5. w < v => lines[w] < lines[v]
    BY <2>1
  <2>6. v = w => lines[v] = lines[w]
    OBVIOUS
  <2>7. QED
    BY <2>3, <2>4, <2>5, <2>6
<1>6. ASSUME value \in V
      PROVE  Shown(events, chosen) = {i \in DOMAIN events : events[i].v = value}
  <2>1. later \in SUBSET Nat /\ \A x : x \in later <=> \E w \in V : value < w /\ x = lines[w]
    <3>1. \A w \in V : lines[w] > lines[value] <=> value < w
      <4> TAKE w \in V
      <4>1. lines[value] < lines[w] <=> value < w
        BY <1>5, <1>6
      <4>2. lines[w] \in Nat /\ lines[value] \in Nat
        BY <1>2, <1>6
      <4>3. QED
        BY <4>1, <4>2
    <3>2. QED
      BY <1>2, <3>1
  <2>2. later # {} => Min(later) \in later /\ \A x \in later : Min(later) <= x
    BY <2>1, LeastIs
  <2>3. end \in Nat
    BY <1>1, <2>1, <2>2
  <2> HIDE DEF later
  <2>4. ASSUME NEW i \in 1 .. n
        PROVE  Line(events, i) < end <=> events[i].v <= value
    <3>1. events[i].v \in V /\ events[i].v \in Nat /\ Line(events, i) \in Nat /\ Line(events, i) < eof
      BY <1>1, <1>2
    <3>2. CASE later = {}
      <4>1. ~ (value < events[i].v)
        BY <2>1, <3>1, <3>2
      <4>2. end = eof
        BY <3>2
      <4> HIDE DEF end
      <4>3. QED
        BY <1>1, <3>1, <4>1, <4>2
    <3>3. CASE later # {}
      <4>1. end = Min(later)
        BY <3>3
      <4> HIDE DEF end
      <4>2. PICK w \in V : value < w /\ end = lines[w]
        BY <2>1, <2>2, <3>3, <4>1
      <4>3. lines[w] <= Line(events, i) <=> w <= events[i].v
        BY <1>3
      <4>4. w \in Nat
        BY <1>2
      <4>5. CASE events[i].v <= value
        <5>1. ~ (w <= events[i].v)
          BY <3>1, <4>2, <4>4, <4>5
        <5>2. QED
          BY <2>3, <3>1, <4>2, <4>3, <4>5, <5>1
      <4>6. CASE ~ (events[i].v <= value)
        <5>1. value < events[i].v
          BY <3>1, <4>6
        <5>2. lines[events[i].v] \in later
          BY <2>1, <3>1, <5>1
        <5>3. end <= lines[events[i].v] /\ lines[events[i].v] \in Nat
          BY <1>2, <2>2, <3>1, <3>3, <4>1, <5>2
        <5>4. lines[events[i].v] <= Line(events, i)
          <6>1. events[i].v <= events[i].v
            BY <3>1
          <6>2. QED
            BY <1>3, <3>1, <6>1
        <5>5. QED
          BY <2>3, <3>1, <4>6, <5>3, <5>4
      <4>7. QED
        BY <4>5, <4>6
    <3>4. QED
      BY <3>2, <3>3
  <2> DEFINE s == Selection(lines[value], end)
             start == lines[value]
  <2>5. chosen = s
    BY <1>4, <1>6
  <2>6. s.start = start /\ s.end = end
    BY DEF Selection
  <2>7. start \in Nat /\ \A i \in 1 .. n : start <= Line(events, i) <=> value <= events[i].v
    BY <1>2, <1>3, <1>6
  <2> HIDE DEF s, start, end, chosen
  <2>8. Shown(events, s) = {i \in 1 .. n : start <= Line(events, i) /\ Line(events, i) < end}
    BY <2>3, <2>6, <2>7, ShownIs DEF n
  <2>9. \A i \in 1 .. n : start <= Line(events, i) /\ Line(events, i) < end <=> events[i].v = value
    <3> TAKE i \in 1 .. n
    <3>1. events[i].v \in Nat
      BY <1>1
    <3>2. QED
      BY <2>4, <2>7, <3>1
  <2>10. QED
    BY <1>1, <2>5, <2>8, <2>9
<1>7. ASSUME value \notin V
      PROVE  chosen = NotFound
  BY <1>4, <1>7
<1>8. QED
  BY <1>6, <1>7 DEF V

LEMMA SinglesAreShown ==
  ASSUME NEW events, TextLog(events), NEW spec \in AllRanges
  PROVE  SingleIndex(spec, events)
<1> DEFINE value == spec.from[2]
           unit == spec.from[1]
           s == Select(spec, events)
           shown == Shown(events, s)
<1>1. CASE ~ (spec.sep = "single" /\ value # None)
  BY <1>1 DEF SingleIndex
<1>2. CASE spec.sep = "single" /\ value # None
  <2>1. value \in Int /\ unit \in Units
    <3>1. CASE spec.from \in Units \X Int
      BY <3>1
    <3>2. CASE spec.from = Unbounded
      BY <1>2, <3>2 DEF Unbounded
    <3>3. spec.from \in AllBounds
      BY DEF AllRanges
    <3>4. QED
      BY <3>1, <3>2, <3>3 DEF AllBounds
  <2>2. CASE unit = "change"
    <3>1. s = SelectChange(value, events)
      BY <1>2, <2>2 DEF Select
    <3>2. IF Index(value, Total(events)) \in 0 .. Total(events) - 1
          THEN ChangesAt(events, shown) = {Index(value, Total(events))} ELSE s = NotFound
      BY <2>1, <3>1, ChangeIsShown
    <3>3. QED
      BY <2>2, <3>2 DEF SingleIndex
  <2>3. CASE unit = "snapshot"
    <3>1. s = SelectSnapshot(value, events)
      BY <1>2, <2>3 DEF Select
    <3>2. IF \E i \in DOMAIN events : IsSnapshot(events[i]) /\ Section(events, i) = Index(value, Sections(events))
          THEN {Section(events, i) : i \in shown} = {Index(value, Sections(events))} /\ s.outcome = "snapshot"
          ELSE s = NotFound
      BY <2>1, <3>1, SnapshotIsShown
    <3>3. QED
      BY <2>3, <3>2 DEF SingleIndex
  <2>4. CASE unit = "line"
    <3>1. s = SelectLine(value, events)
      BY <1>2, <2>4 DEF Select
    <3>2. ASSUME value >= 0
          PROVE  IF EventsAt(events, value) # {} THEN shown = EventsAt(events, value) ELSE s = NotFound
      <4>1. ~ (value < 0)
        BY <2>1, <3>2
      <4>2. s = IF EventsAt(events, value) = {} THEN NotFound
                ELSE IF IsSnapshot(events[Min(EventsAt(events, value))])
                     THEN Snapshot(value) ELSE Selection(value, value + 1)
        BY <3>1, <4>1 DEF SelectLine
      <4>3. EventsAt(events, value) # {} => s.start = value /\ s.end = value + 1
        BY <4>2 DEF Snapshot, Selection
      <4>4. EventsAt(events, value) # {} => shown = EventsAt(events, value)
        BY <2>1, <4>3, LineIsShown
      <4>5. QED
        BY <4>2, <4>4
    <3>3. QED
      BY <2>4, <3>2 DEF SingleIndex
  <2>5. CASE unit = "version"
    <3>1. s = SelectVersion(value, events)
      BY <1>2, <2>5 DEF Select
    <3>2. ASSUME value >= 0, Ascending(events)
          PROVE  IF value \in Versions(events) THEN shown = {i \in DOMAIN events : events[i].v = value}
                 ELSE s = NotFound
      <4>1. value \in Nat
        BY <2>1, <3>2
      <4>2. QED
        BY <3>1, <3>2, <4>1, VersionIsShown
    <3>3. QED
      BY <2>5, <3>2 DEF SingleIndex
  <2>6. QED
    BY <2>1, <2>2, <2>3, <2>4, <2>5 DEF Units
<1>3. QED
  BY <1>1, <1>2

(* The inputs that ranges are promised something for. *)
AllEvents == [kind : {"change", "snapshot"}, line : Nat, v : Nat]
RangesTyped ==
  Of("range") => /\ in[2][1] \in AllRanges /\ in[2][2] \in Seq(AllEvents)
                 /\ Numbered(in[2][2]) => Ordered(in[2][2])

(* In a text log of any length, whatever its changes, snapshots and        *)
(* versions, a range with any bounds is a slice, an inclusive end belongs  *)
(* to it, and a single index shows what it names (_bound_to_line,          *)
(* _resolve_range and select).                                             *)
THEOREM RangesAlwaysSelect ==
  ASSUME RangesTyped
  PROVE  RangesSelect
<1> DEFINE spec   == in[2][1]
           events == in[2][2]
<1>1. SUFFICES ASSUME Of("range")
      PROVE  RangeSlices(spec, events) /\ InclusiveEnd(spec, events) /\ SingleIndex(spec, events)
  BY DEF RangesSelect
<1>2. spec \in AllRanges /\ events \in Seq(AllEvents) /\ (Numbered(events) => Ordered(events))
  BY <1>1 DEF RangesTyped
<1> HIDE DEF spec, events
<1>3. CASE Numbered(events)
  <2>1. TextLog(events)
    <3>1. \A i \in DOMAIN events : events[i] \in AllEvents
      BY <1>2
    <3>2. \A e \in AllEvents : IsEvent(e)
      BY DEF AllEvents, IsEvent
    <3>3. QED
      BY <1>2, <1>3, <3>1, <3>2 DEF TextLog, IsLog
  <2>2. QED
    BY <1>2, <2>1, RangesAreSlices, EndsAreIncluded, SinglesAreShown
<1>4. CASE ~ Numbered(events)
  BY <1>4 DEF RangeSlices, InclusiveEnd, SingleIndex
<1>5. QED
  BY <1>3, <1>4

-----------------------------------------------------------------------------
(* The command line *)

Contents == INSTANCE ListLemmas WITH Op <- NextState, Origin <- {}

(* What the records of a log leave behind, from the first to the last. *)
Content(log) == FoldLeft(NextState, {}, log)

LEMMA ContentIs ==
  ASSUME NEW log
  PROVE  Content(log) = Contents!Folded(log)
BY DEF Content, Contents!Folded, Contents!FoldLeft, FoldLeft, Contents!MapThenFoldSet, MapThenFoldSet,
       Contents!Max, Max

(* The k records from position i on. *)
Part(log, i, k) == SubSeq(log, i, i + k - 1)

LEMMA PartIs ==
  ASSUME NEW log, IsLog(log), NEW i \in Nat \ {0}, NEW k \in Nat, i + k <= Len(log) + 1
  PROVE  /\ IsLog(Part(log, i, k)) /\ Len(Part(log, i, k)) = k /\ DOMAIN Part(log, i, k) = 1 .. k
         /\ \A j \in 1 .. k : Part(log, i, k)[j] = log[i + j - 1]
<1>1. PICK S : log \in Seq(S)
  BY DEF IsLog
<1> DEFINE e == i + k - 1
<1>2. /\ Len(log) \in Nat /\ DOMAIN log = 1 .. Len(log) /\ e \in Nat
      /\ i <= e + 1 /\ e <= Len(log) /\ e - i + 1 = k
  BY <1>1
<1>3. \A j \in i .. e : log[j] \in S
  <2>1. \A j \in i .. e : j \in 1 .. Len(log)
    BY <1>2
  <2>2. QED
    BY <1>1, <2>1
<1>4. Part(log, i, k) = SubSeq(log, i, e)
  BY DEF Part
<1> HIDE DEF e
<1>5. /\ SubSeq(log, i, e) \in Seq(S)
      /\ Len(SubSeq(log, i, e)) = IF i <= e THEN e - i + 1 ELSE 0
      /\ \A j \in 1 .. e - i + 1 : SubSeq(log, i, e)[j] = log[i + j - 1]
  BY <1>1, <1>2, <1>3, SubSeqProperties
<1>6. Len(SubSeq(log, i, e)) = k
  BY <1>2, <1>5
<1>7. IsLog(SubSeq(log, i, e)) /\ DOMAIN SubSeq(log, i, e) = 1 .. k
  <2>1. \A t \in Seq(S) : DOMAIN t = 1 .. Len(t)
    OBVIOUS
  <2>2. DOMAIN SubSeq(log, i, e) = 1 .. k
    BY <1>5, <1>6, <2>1
  <2>3. QED
    BY <1>5, <2>2 DEF IsLog
<1>8. \A j \in 1 .. k : SubSeq(log, i, e)[j] = log[i + j - 1]
  BY <1>2, <1>5
<1>9. QED
  BY <1>4, <1>6, <1>7, <1>8

(* Each record takes the content one step on. *)
LEMMA ContentStep ==
  ASSUME NEW log, IsLog(log), NEW i \in Nat \ {0}, NEW k \in Nat, i + k <= Len(log)
  PROVE  Content(Part(log, i, k + 1)) = NextState(Content(Part(log, i, k)), log[i + k])
<1> DEFINE s == Part(log, i, k)
           t == Part(log, i, k + 1)
<1>1. Len(log) \in Nat
  BY DEF IsLog
<1>2. DOMAIN s = 1 .. k /\ Len(s) = k /\ \A j \in 1 .. k : s[j] = log[i + j - 1]
  BY <1>1, PartIs
<1>3. k + 1 \in Nat /\ i + (k + 1) <= Len(log) + 1
  BY <1>1
<1>4. DOMAIN t = 1 .. (k + 1) /\ Len(t) = k + 1 /\ \A j \in 1 .. (k + 1) : t[j] = log[i + j - 1]
  BY <1>3, PartIs
<1> HIDE DEF s, t
<1>5. \A j \in 1 .. k : s[j] = t[j]
  <2>1. \A j \in 1 .. k : j \in 1 .. (k + 1)
    OBVIOUS
  <2>2. QED
    BY <1>2, <1>4, <2>1
<1>6. t[k + 1] = log[i + k]
  <2>1. k + 1 \in 1 .. (k + 1) /\ i + (k + 1) - 1 = i + k
    OBVIOUS
  <2>2. QED
    BY <1>4, <2>1
<1>7. Contents!Folded(t) = NextState(Contents!Folded(s), t[k + 1])
  BY <1>2, <1>4, <1>5, Contents!FoldedStep
<1>8. QED
  BY <1>6, <1>7, ContentIs DEF s, t

LEMMA ContentEmpty ==
  ASSUME NEW log, IsLog(log), NEW i \in Nat \ {0}, i <= Len(log) + 1
  PROVE  Content(Part(log, i, 0)) = {}
<1>1. Len(log) \in Nat
  BY DEF IsLog
<1>2. IsLog(Part(log, i, 0)) /\ Len(Part(log, i, 0)) = 0
  BY <1>1, PartIs
<1>3. Part(log, i, 0) = <<>>
  BY <1>2 DEF IsLog
<1>4. QED
  BY <1>3, Contents!FoldedEmpty, ContentIs

(* A whole log is its first records. *)
LEMMA WholePart ==
  ASSUME NEW log, IsLog(log)
  PROVE  Part(log, 1, Len(log)) = log /\ SubSeq(log, 1, Len(log)) = log
<1>1. PICK S : log \in Seq(S)
  BY DEF IsLog
<1>2. Len(log) \in Nat /\ 1 + Len(log) - 1 = Len(log) /\ SubSeq(log, 1, Len(log)) = log
  BY <1>1
<1>3. QED
  BY <1>2 DEF Part

(* From a snapshot on, it does not matter what was before. *)
LEMMA CatchesUp ==
  ASSUME NEW log, IsLog(log), NEW i \in 1 .. Len(log), IsSnapshot(log[i])
  PROVE  \A k \in Nat : i + k <= Len(log) => Content(Part(log, i, k + 1)) = Content(Part(log, 1, i + k))
<1> DEFINE Bad == {k \in Nat : i + k <= Len(log) /\ Content(Part(log, i, k + 1)) # Content(Part(log, 1, i + k))}
<1>1. SUFFICES ASSUME Bad # {} PROVE FALSE
  OBVIOUS
<1>2. PICK k \in Bad : \A m \in Bad : k <= m
  <2>1. Bad \in SUBSET Nat
    OBVIOUS
  <2> HIDE DEF Bad
  <2>2. QED
    BY <1>1, <2>1, Contents!LeastNumber
<1>3. k \in Nat /\ i + k <= Len(log) /\ Len(log) \in Nat /\ i \in Nat \ {0}
  BY DEF IsLog
<1>4. Content(Part(log, i, k + 1)) # Content(Part(log, 1, i + k))
  OBVIOUS
<1>5. Content(Part(log, i, k + 1)) = NextState(Content(Part(log, i, k)), log[i + k])
  BY <1>3, ContentStep
<1> DEFINE j == i + k - 1
<1>6. j \in Nat /\ 1 + j <= Len(log) /\ j + 1 = i + k /\ 1 + j = i + k
  BY <1>3
<1>7. Content(Part(log, 1, i + k)) = NextState(Content(Part(log, 1, j)), log[i + k])
  <2> HIDE DEF j
  <2>1. Content(Part(log, 1, j + 1)) = NextState(Content(Part(log, 1, j)), log[1 + j])
    BY <1>6, ContentStep
  <2>2. QED
    BY <1>6, <2>1
<1>8. CASE k = 0
  <2>1. log[i + k] = log[i]
    BY <1>3, <1>8
  <2>2. QED
    BY <1>4, <1>5, <1>7, <2>1 DEF NextState
<1>9. CASE k # 0
  <2> DEFINE p == k - 1
  <2>1. p \in Nat /\ p + 1 = k /\ i + p = j /\ i + p <= Len(log) /\ ~ (k <= p)
    BY <1>3, <1>9
  <2> HIDE DEF j, p
  <2>2. p \notin Bad
    BY <1>2, <2>1
  <2>3. Content(Part(log, i, p + 1)) = Content(Part(log, 1, i + p))
    BY <2>1, <2>2
  <2>4. QED
    BY <1>4, <1>5, <1>7, <2>1, <2>3
<1>10. QED
  BY <1>8, <1>9

(* So replaying from the last snapshot on comes to the content of the      *)
(* whole log.                                                              *)
LEMMA ReplayIs ==
  ASSUME NEW log, IsLog(log)
  PROVE  /\ ReplayLog(log).state = Content(log)
         /\ ReplayLog(log).version = IF log = <<>> THEN 0 ELSE log[Len(log)].v
         /\ (\A i \in DOMAIN log : log[i].kind # "garbage") => ReplayLog(log).ok
<1> DEFINE n    == Len(log)
           I    == {i \in 1 .. n : IsSnapshot(log[i])}
           last == IF I # {} THEN Max(I) ELSE 0
           from == Max({1, last})
           rest == SubSeq(log, from, n)
<1>1. n \in Nat /\ DOMAIN log = 1 .. n
  BY DEF IsLog
<1>2. /\ ReplayLog(log).state = Content(rest)
      /\ ReplayLog(log).version = IF log = <<>> THEN 0 ELSE log[n].v
      /\ ReplayLog(log).ok <=> \A i \in DOMAIN rest : rest[i].kind # "garbage"
  BY DEF ReplayLog, SelectLastInSeq, Content
<1>3. last = 0 \/ last \in I
  <2>1. I \in SUBSET (0 .. n)
    BY <1>1
  <2> HIDE DEF I
  <2>2. I # {} => Contents!Max(I) \in I
    BY <1>1, <2>1, Contents!MaxFinds
  <2>3. Contents!Max(I) = Max(I)
    BY DEF Contents!Max, Max
  <2>4. QED
    BY <2>2, <2>3
<1>4. I \subseteq 1 .. n /\ \A i \in I : IsSnapshot(log[i])
  OBVIOUS
<1> HIDE DEF I, last, n
<1>5. last \in Nat /\ last <= n /\ (last # 0 => last \in 1 .. n /\ IsSnapshot(log[last]))
  <2>1. ASSUME last \in I PROVE last \in 1 .. n /\ IsSnapshot(log[last])
    BY <1>4, <2>1
  <2>2. \A x \in 1 .. n : x \in Nat /\ x <= n
    BY <1>1
  <2>3. QED
    BY <1>1, <1>3, <2>1, <2>2
<1>6. from = IF last = 0 THEN 1 ELSE last
  <2> DEFINE big == IF last = 0 THEN 1 ELSE last
  <2>1. big \in {1, last} /\ \A y \in {1, last} : big >= y
    BY <1>5
  <2>2. \A z \in {1, last} : (\A y \in {1, last} : z >= y) => z = big
    BY <1>5
  <2> HIDE DEF big
  <2>3. Max({1, last}) = big
    BY <2>1, <2>2 DEF Max
  <2>4. QED
    BY <2>3 DEF big
<1>7. Content(rest) = Content(log) /\ \A i \in DOMAIN rest : \E j \in DOMAIN log : rest[i] = log[j]
  <2>1. CASE last = 0
    <3>1. rest = log
      BY <1>6, <2>1, WholePart DEF n
    <3>2. QED
      BY <3>1
  <2>2. CASE last # 0
    <3> DEFINE k == n - last
    <3>1. /\ k \in Nat /\ last + k = n /\ last \in Nat \ {0} /\ last + (k + 1) - 1 = n
          /\ last + (k + 1) <= n + 1 /\ k + 1 \in Nat
      BY <1>1, <1>5, <2>2
    <3> HIDE DEF k
    <3>0. \A h \in Nat : last + h <= n => Content(Part(log, last, h + 1)) = Content(Part(log, 1, last + h))
      BY <1>5, <2>2, CatchesUp DEF n
    <3>2. rest = Part(log, last, k + 1)
      BY <1>6, <2>2, <3>1 DEF Part
    <3>3. Content(rest) = Content(Part(log, 1, n))
      <4>1. last + k <= n
        BY <1>1, <3>1
      <4> HIDE DEF rest
      <4>2. Content(Part(log, last, k + 1)) = Content(Part(log, 1, last + k))
        BY <3>0, <3>1, <4>1
      <4>3. QED
        BY <3>1, <3>2, <4>2
    <3>4. Content(rest) = Content(log)
      BY <3>3, WholePart DEF n
    <3> HIDE DEF rest
    <3>5. DOMAIN rest = 1 .. (k + 1) /\ \A i \in 1 .. (k + 1) : rest[i] = log[last + i - 1]
      BY <3>1, <3>2, PartIs DEF n
    <3>6. \A i \in 1 .. (k + 1) : last + i - 1 \in DOMAIN log
      BY <1>1, <3>1
    <3>7. QED
      BY <3>4, <3>5, <3>6
  <2>3. QED
    BY <2>1, <2>2
<1> HIDE DEF rest
<1>8. QED
  BY <1>2, <1>7 DEF n

LEMMA HeldIs ==
  ASSUME NEW log, IsLog(log)
  PROVE  Held(log).state = ReplayLog(log).state /\ Held(log).version = ReplayLog(log).version
<1>1. Held(log).state = Content(SubSeq(log, 1, Len(log)))
  BY DEF Held, StateAt, Content
<1>2. Held(log).version = IF log = <<>> THEN 0 ELSE log[Len(log)].v
  BY DEF Held
<1>3. QED
  BY <1>1, <1>2, WholePart, ReplayIs

(* The two checks of snapshots agree. *)
LEMMA ScansAgree ==
  ASSUME NEW log, IsLog(log)
  PROVE  Scans(log) <=> Consistent(log)
<1>1. Len(log) \in Nat /\ DOMAIN log = 1 .. Len(log)
  BY DEF IsLog
<1>2. ASSUME NEW i \in DOMAIN log
      PROVE  StateAt(log, i - 1) = ReplayLog(SubSeq(log, 1, i - 1)).state
  <2> DEFINE k == i - 1
             p == SubSeq(log, 1, k)
  <2>1. k \in Nat /\ 1 + k <= Len(log) + 1 /\ 1 + k - 1 = k
    BY <1>1, <1>2
  <2> HIDE DEF k
  <2>2. p = Part(log, 1, k)
    BY <2>1 DEF Part
  <2>3. IsLog(p)
    <3> HIDE DEF p
    <3>1. IsLog(Part(log, 1, k))
      BY <2>1, PartIs
    <3>2. QED
      BY <2>2, <3>1
  <2>4. StateAt(log, k) = Content(p)
    BY DEF StateAt, Content
  <2> HIDE DEF p
  <2>5. StateAt(log, k) = ReplayLog(p).state
    BY <2>3, <2>4, ReplayIs
  <2>6. QED
    BY <2>5 DEF k, p
<1>3. QED
  BY <1>2 DEF Scans, Consistent

(* What is replayed for a selection begins the log. *)
LEMMA ReplayedIs ==
  ASSUME NEW log, IsLog(log), NEW end
  PROVE  \E k \in 0 .. Len(log) : Replayed(log, end) = Part(log, 1, k)
<1> DEFINE n    == Len(log)
           I    == {i \in 1 .. n : log[i].line >= end}
           stop == IF I # {} THEN Min(I) ELSE 0
<1>1. n \in Nat
  BY DEF IsLog
<1>2. Replayed(log, end) = IF stop = 0 THEN log ELSE SubSeq(log, 1, stop - 1)
  BY DEF Replayed, SelectInSeq
<1>3. I \in SUBSET Nat /\ I \subseteq 1 .. n
  OBVIOUS
<1> HIDE DEF I
<1>4. stop = 0 \/ stop \in 1 .. n
  BY <1>3, LeastIs
<1> HIDE DEF stop
<1>5. CASE stop = 0
  BY <1>1, <1>2, <1>5, WholePart
<1>6. CASE stop # 0
  <2>1. stop - 1 \in 0 .. n /\ 1 + (stop - 1) - 1 = stop - 1
    BY <1>1, <1>4, <1>6
  <2>2. Replayed(log, end) = Part(log, 1, stop - 1)
    BY <1>2, <1>6, <2>1 DEF Part
  <2>3. QED
    BY <2>1, <2>2
<1>7. QED
  BY <1>5, <1>6

(* The end of the file is behind everything. *)
LEMMA WholeReplayed ==
  ASSUME NEW log, IsLog(log), Ordered(log), \A i \in DOMAIN log : log[i].line \in Nat
  PROVE  Replayed(log, EndOfFile(log)) = log
<1> DEFINE n   == Len(log)
           eof == EndOfFile(log)
           I   == {i \in 1 .. n : log[i].line >= eof}
<1>1. n \in Nat /\ DOMAIN log = 1 .. n /\ (log = <<>> <=> n = 0)
  <2>1. PICK S : log \in Seq(S)
    BY DEF IsLog
  <2>2. QED
    BY <2>1
<1>2. Replayed(log, eof) = IF I # {} THEN (IF Min(I) = 0 THEN log ELSE SubSeq(log, 1, Min(I) - 1)) ELSE log
  BY DEF Replayed, SelectInSeq
<1>3. \A i \in 1 .. n : ~ (log[i].line >= eof)
  <2> TAKE i \in 1 .. n
  <2>1. n \in 1 .. n /\ i <= n /\ n # 0 /\ i \in Nat
    BY <1>1
  <2>2. eof = log[n].line + 1
    BY <1>1, <2>1 DEF EndOfFile
  <2>3. log[i].line \in Nat /\ log[n].line \in Nat
    BY <1>1, <2>1
  <2>4. i < n => log[i].line < log[n].line
    BY <1>1, <2>1 DEF Ordered, Line
  <2>5. i = n \/ i < n
    BY <1>1, <2>1
  <2> HIDE DEF eof
  <2>6. QED
    BY <2>2, <2>3, <2>4, <2>5
<1>4. I = {}
  BY <1>3
<1>5. QED
  BY <1>2, <1>4

LEMMA SameMigrations ==
  ASSUME NEW o, NEW a, NEW b, a.state = b.state, a.version = b.version
  PROVE  Migrated(o, a) = Migrated(o, b)
BY DEF Migrated

(* A selection that is a snapshot names one that is there. *)
LEMMA SnapshotThere ==
  ASSUME NEW log, TextLog(log), NEW spec, Select(spec, log).outcome = "snapshot"
  PROVE  \E i \in 1 .. Len(log) : IsSnapshot(log[i]) /\ EventsAt(log, Select(spec, log).start) = {i}
<1> DEFINE n     == Len(log)
           value == spec.from[2]
           s     == Select(spec, log)
<1>1. /\ n \in Nat /\ DOMAIN log = 1 .. n
      /\ \A i \in 1 .. n : i \in Nat /\ Line(log, i) \in Nat
      /\ \A i, j \in 1 .. n : Line(log, i) <= Line(log, j) <=> i <= j
  BY TextLogIs
<1>2. \A line : EventsAt(log, line) = {i \in 1 .. n : Line(log, i) = line}
  BY <1>1 DEF EventsAt, Line
<1>3. ASSUME NEW line, NEW i \in EventsAt(log, line)
      PROVE  EventsAt(log, line) = {i}
  <2>1. i \in 1 .. n /\ Line(log, i) = line
    BY <1>2, <1>3
  <2>2. ASSUME NEW j \in EventsAt(log, line) PROVE j = i
    <3>1. j \in 1 .. n /\ Line(log, j) = Line(log, i)
      BY <1>2, <2>1
    <3>2. /\ i \in Nat /\ j \in Nat /\ Line(log, i) \in Nat
          /\ Line(log, j) <= Line(log, i) <=> j <= i
          /\ Line(log, i) <= Line(log, j) <=> i <= j
      BY <1>1, <2>1, <3>1
    <3>3. QED
      BY <3>1, <3>2
  <2>3. QED
    BY <1>3, <2>2
<1>4. s \in {SelectSnapshot(value, log), SelectLine(value, log)}
  <2>1. NotFound.outcome = "not found" /\ InvalidRange.outcome = "invalid"
    BY DEF NotFound, InvalidRange
  <2>2. \A a, b : Selection(a, b).outcome = "range"
    BY DEF Selection
  <2>3. ResolveRange(spec, log).outcome # "snapshot"
    BY <2>1, <2>2 DEF ResolveRange
  <2>4. SelectVersion(value, log).outcome # "snapshot"
    BY <2>1, <2>2 DEF SelectVersion
  <2>5. SelectChange(value, log).outcome # "snapshot"
    BY <2>1, <2>2 DEF SelectChange
  <2>6. s \in {ResolveRange(spec, log), InvalidRange, SelectSnapshot(value, log), SelectLine(value, log),
               SelectVersion(value, log), SelectChange(value, log)}
    BY DEF Select
  <2>7. QED
    BY <2>1, <2>3, <2>4, <2>5, <2>6
<1> HIDE DEF s, n
<1>5. CASE s = SelectSnapshot(value, log)
  <2> DEFINE list   == SnapshotLines(log)
             k      == FromEnd(value, Len(list))
             line   == list[k + 1]
             number == SectionNumbers(log)
  <2>1. k \in 0 .. Len(list) - 1 /\ EventsAt(log, line) # {} /\ s = Snapshot(line)
    <3>1. NotFound.outcome # "snapshot"
      BY DEF NotFound
    <3>2. s.outcome = "snapshot"
      BY DEF s
    <3>3. SelectSnapshot(value, log) =
            IF k \notin 0 .. Len(list) - 1 \/ EventsAt(log, line) = {} THEN NotFound ELSE Snapshot(line)
      BY DEF SelectSnapshot
    <3> HIDE DEF k, line, list
    <3>4. QED
      BY <1>5, <3>1, <3>2, <3>3
  <2>2. PICK i : i \in EventsAt(log, line)
    BY <2>1
  <2>3. i \in 1 .. n /\ Line(log, i) = line
    BY <1>2, <2>2
  <2>4. \A j \in 1 .. n : \A h \in 0 .. Len(list) - 1 :
          Line(log, j) = list[h + 1] <=> j \in Snapshots(log) /\ h = number[j]
    BY SectionsNumbered DEF Numbering, n
  <2>5. i \in Snapshots(log)
    <3> HIDE DEF k, list, number
    <3>1. QED
      BY <2>1, <2>3, <2>4
  <2>6. s.start = line
    BY <2>1 DEF Snapshot
  <2> HIDE DEF line
  <2>7. EventsAt(log, s.start) = {i} /\ IsSnapshot(log[i])
    BY <1>3, <2>2, <2>5, <2>6 DEF Snapshots
  <2>8. QED
    BY <2>3, <2>7 DEF s, n
<1>6. CASE s = SelectLine(value, log)
  <2> DEFINE at == EventsAt(log, value)
  <2>1. at # {} /\ IsSnapshot(log[Min(at)]) /\ s = Snapshot(value)
    <3>1. /\ NotFound.outcome # "snapshot" /\ InvalidRange.outcome # "snapshot"
          /\ Selection(value, value + 1).outcome # "snapshot"
      BY DEF NotFound, InvalidRange, Selection
    <3>2. s.outcome = "snapshot"
      BY DEF s
    <3>3. SelectLine(value, log) =
            IF value < 0 THEN InvalidRange
            ELSE IF at = {} THEN NotFound
            ELSE IF IsSnapshot(log[Min(at)]) THEN Snapshot(value) ELSE Selection(value, value + 1)
      BY DEF SelectLine
    <3> HIDE DEF at
    <3>4. QED
      BY <1>6, <3>1, <3>2, <3>3
  <2>2. PICK i : i \in at
    BY <2>1
  <2>3. at = {i} /\ i \in 1 .. n
    BY <1>2, <1>3, <2>2
  <2>4. Min(at) = i
    <3>1. {i} \in SUBSET Nat /\ {i} # {}
      BY <1>1, <2>3
    <3>2. Min({i}) \in {i}
      BY <3>1, LeastIs
    <3>3. QED
      BY <2>3, <3>2
  <2>5. s.start = value
    BY <2>1 DEF Snapshot
  <2>6. EventsAt(log, s.start) = {i} /\ IsSnapshot(log[i])
    BY <2>1, <2>3, <2>4, <2>5
  <2>7. QED
    BY <2>3, <2>6 DEF s, n
<1>7. QED
  BY <1>4, <1>5, <1>6

(* What is selected is what replaying up to its last record comes to. *)
LEMMA TargetIs ==
  ASSUME NEW log, TextLog(log), NEW o
  PROVE  /\ Target(log, Selected(log, o)).state = ReplayLog(Until(log, Selected(log, o))).state
         /\ Target(log, Selected(log, o)).version = ReplayLog(Until(log, Selected(log, o))).version
         /\ ReplayLog(Until(log, Selected(log, o))).ok
<1> DEFINE n == Len(log)
           s == Selected(log, o)
           p == Until(log, s)
<1>1. /\ n \in Nat /\ DOMAIN log = 1 .. n /\ IsLog(log)
      /\ \A i \in 1 .. n : log[i].kind # "garbage"
  BY TextLogIs DEF TextLog
<1>2. ASSUME NEW k \in 0 .. n, p = Part(log, 1, k)
      PROVE  /\ IsLog(p) /\ Len(p) = k /\ \A i \in 1 .. k : p[i] = log[i]
             /\ ReplayLog(p).ok
  <2>1. k \in Nat /\ 1 + k <= n + 1 /\ k <= n
    BY <1>1
  <2> HIDE DEF p
  <2>2. IsLog(p) /\ Len(p) = k /\ DOMAIN p = 1 .. k /\ \A i \in 1 .. k : p[i] = log[1 + i - 1]
    BY <1>1, <1>2, <2>1, PartIs DEF n
  <2>3. \A i \in 1 .. k : 1 + i - 1 = i /\ i \in 1 .. n
    BY <1>1, <2>1
  <2>4. \A i \in 1 .. k : p[i] = log[i]
    BY <2>2, <2>3
  <2>5. \A i \in DOMAIN p : p[i].kind # "garbage"
    BY <1>1, <2>2, <2>3, <2>4
  <2>6. ReplayLog(p).ok
    BY <2>2, <2>5, ReplayIs
  <2>7. QED
    BY <2>2, <2>4, <2>6
<1>3. CASE s.outcome # "snapshot"
  <2>1. Target(log, s) = Held(Replayed(log, s.end)) /\ p = Replayed(log, s.end)
    BY <1>3 DEF Target, Until, RangeState
  <2>2. PICK k \in 0 .. n : p = Part(log, 1, k)
    BY <1>1, <2>1, ReplayedIs
  <2>3. IsLog(p) /\ ReplayLog(p).ok
    BY <1>2, <2>2
  <2>4. Target(log, s) = Held(p)
    BY <2>1
  <2> HIDE DEF p, s
  <2>5. QED
    BY <2>3, <2>4, HeldIs DEF p, s
<1>4. CASE s.outcome = "snapshot"
  <2>1. s = Select(o.range, log)
    BY <1>4 DEF Selected, Selection
  <2>2. PICK i \in 1 .. n : IsSnapshot(log[i]) /\ EventsAt(log, s.start) = {i}
    <3> HIDE DEF s
    <3>1. QED
      BY <1>4, <2>1, SnapshotThere
  <2>3. Min({i}) = i
    <3>1. {i} \in SUBSET Nat /\ {i} # {}
      BY <1>1
    <3>2. QED
      BY <3>1, LeastIs
  <2> HIDE DEF s
  <2>4. /\ Target(log, s).state = log[i].state /\ Target(log, s).version = log[i].v
        /\ p = SubSeq(log, 1, i)
    BY <1>4, <2>2, <2>3 DEF Target, Until
  <2> HIDE DEF p
  <2>5. p = Part(log, 1, i) /\ i \in 0 .. n /\ i \in Nat /\ i # 0
    <3>1. i \in 0 .. n /\ 1 + i - 1 = i /\ i \in Nat /\ i # 0
      BY <1>1
    <3>2. QED
      BY <2>4, <3>1 DEF Part
  <2>6. IsLog(p) /\ Len(p) = i /\ p[i] = log[i] /\ ReplayLog(p).ok
    <3>1. i \in 1 .. i
      BY <2>5
    <3>2. QED
      BY <1>2, <2>5, <3>1
  <2>7. Content(p) = log[i].state
    <3> DEFINE j == i - 1
    <3>1. j \in Nat /\ j + 1 = i /\ 1 + j = i /\ 1 + j <= n
      BY <1>1, <2>5
    <3> HIDE DEF j
    <3>2. Content(Part(log, 1, j + 1)) = NextState(Content(Part(log, 1, j)), log[1 + j])
      BY <1>1, <3>1, ContentStep DEF n
    <3>3. QED
      BY <2>2, <2>5, <3>1, <3>2 DEF NextState
  <2>8. p # <<>>
    BY <2>5, <2>6
  <2>9. ReplayLog(p).state = log[i].state /\ ReplayLog(p).version = log[i].v
    BY <2>6, <2>7, <2>8, ReplayIs
  <2>10. QED
    BY <2>4, <2>6, <2>9 DEF p, s
<1>5. QED
  BY <1>3, <1>4

(* The exit code is that of the first error. *)
LEMMA ErrorAt ==
  ASSUME NEW errors, Len(errors) \in Nat, NEW k \in 1 .. Len(errors), errors[k][1],
         \A j \in 1 .. Len(errors) : errors[j][1] => k <= j
  PROVE  ExitCode(errors) = errors[k][2]
<1> DEFINE I == {i \in 1 .. Len(errors) : errors[i][1]}
<1>1. I \in SUBSET Nat /\ k \in I /\ k \in Nat /\ k # 0 /\ \A j \in I : j \in Nat /\ k <= j
  OBVIOUS
<1>2. ExitCode(errors) = IF I # {} THEN (IF Min(I) = 0 THEN SUCCESS ELSE errors[Min(I)][2]) ELSE SUCCESS
  BY DEF ExitCode, SelectInSeq
<1> HIDE DEF I
<1>3. Min(I) = k
  <2>1. Min(I) \in I /\ \A x \in I : Min(I) <= x
    BY <1>1, LeastIs
  <2>2. Min(I) \in Nat /\ Min(I) <= k /\ k <= Min(I)
    BY <1>1, <2>1
  <2>3. QED
    BY <1>1, <2>2
<1>4. QED
  BY <1>1, <1>2, <1>3

LEMMA NoError ==
  ASSUME NEW errors, \A j \in 1 .. Len(errors) : ~errors[j][1]
  PROVE  ExitCode(errors) = SUCCESS
<1>1. {i \in 1 .. Len(errors) : errors[i][1]} = {}
  OBVIOUS
<1>2. QED
  BY <1>1 DEF ExitCode, SelectInSeq

LEMMA SomeError ==
  ASSUME NEW errors, Len(errors) \in Nat, NEW k \in 1 .. Len(errors), errors[k][1]
  PROVE  \E i \in 1 .. Len(errors) : ExitCode(errors) = errors[i][2]
<1> DEFINE I == {i \in 1 .. Len(errors) : errors[i][1]}
<1>1. I \in SUBSET Nat /\ I # {} /\ \A i \in I : i \in 1 .. Len(errors) /\ errors[i][1]
  OBVIOUS
<1> HIDE DEF I
<1>2. Min(I) \in I /\ \A x \in I : Min(I) <= x
  BY <1>1, LeastIs
<1>3. \A j \in 1 .. Len(errors) : errors[j][1] => Min(I) <= j
  BY <1>2 DEF I
<1>4. QED
  BY <1>1, <1>2, <1>3, ErrorAt

(* What the exit code says of a run of the whole file. *)
CodeNames(log, o, m, read, reopened, code) ==
  /\ ~Scans(log) => code = PARSE
  /\ Scans(log) /\ ~m.ok => code = MIGRATION
  /\ Scans(log) /\ m.ok /\ o.typed /\ ~Fits(m.state) => code = VALIDATION
  /\ Scans(log) /\ m.ok /\ (o.typed => Fits(m.state))
       /\ (Reopens(o) => log # <<>> /\ read.ok /\ reopened.ok /\ Fits(reopened.state)) =>
       code = SUCCESS

LEMMA CodeTells ==
  ASSUME NEW log, NEW o, NEW s, NEW m, NEW read, NEW reopened, NEW code,
         code = ExitCode(Errors(log, o, s, m, read, reopened))
  PROVE  /\ code = SUCCESS =>
              /\ Scans(log) /\ s.outcome \notin {"not found", "invalid"}
              /\ m.ok /\ (Reopens(o) => reopened.ok)
         /\ o.wrong = "none" /\ s.outcome = "range" => CodeNames(log, o, m, read, reopened, code)
<1> DEFINE e == Errors(log, o, s, m, read, reopened)
<1>1. Len(e) = 11
  BY DEF Errors
<1>2. code = ExitCode(e)
  OBVIOUS
<1>3. /\ e[1][1] <=> o.wrong \in {"file", "data", "kanta"}
      /\ e[2][1] <=> o.wrong = "migrations"
      /\ e[3][1] <=> ~Scans(log)
      /\ e[4][1] <=> s.outcome = "not found"
      /\ e[5][1] <=> s.outcome = "invalid"
      /\ e[6][1] <=> ~m.ok
      /\ e[7][1] <=> o.typed /\ ~Fits(m.state)
      /\ e[8][1] <=> Reopens(o) /\ (log = <<>> \/ ~read.ok)
      /\ e[9][1] <=> Reopens(o) /\ ~reopened.ok
      /\ e[10][1] <=> Reopens(o) /\ ~Fits(reopened.state)
      /\ e[11][1] <=> o.wrong = "output"
  <2>1. e[1][1] <=> o.wrong \in {"file", "data", "kanta"}
    BY DEF Errors
  <2>2. e[2][1] <=> o.wrong = "migrations"
    BY DEF Errors
  <2>3. e[3][1] <=> ~Scans(log)
    BY DEF Errors
  <2>4. e[4][1] <=> s.outcome = "not found"
    BY DEF Errors
  <2>5. e[5][1] <=> s.outcome = "invalid"
    BY DEF Errors
  <2>6. e[6][1] <=> ~m.ok
    BY DEF Errors
  <2>7. e[7][1] <=> o.typed /\ ~Fits(m.state)
    BY DEF Errors
  <2>8. e[8][1] <=> Reopens(o) /\ (log = <<>> \/ ~read.ok)
    BY DEF Errors
  <2>9. e[9][1] <=> Reopens(o) /\ ~reopened.ok
    BY DEF Errors
  <2>10. e[10][1] <=> Reopens(o) /\ ~Fits(reopened.state)
    BY DEF Errors
  <2>11. e[11][1] <=> o.wrong = "output"
    BY DEF Errors
  <2>12. QED
    BY <2>1, <2>2, <2>3, <2>4, <2>5, <2>6, <2>7, <2>8, <2>9, <2>10, <2>11
<1>31. /\ e[1][2] = GENERIC
       /\ e[2][2] = MIGRATION
       /\ e[3][2] = PARSE
       /\ e[4][2] = RANGE
       /\ e[5][2] = GENERIC
       /\ e[6][2] = MIGRATION
       /\ e[7][2] = VALIDATION
       /\ e[8][2] = PARSE
       /\ e[9][2] = MIGRATION
       /\ e[10][2] = VALIDATION
       /\ e[11][2] = GENERIC
  BY DEF Errors
<1> HIDE DEF e
<1>4. \A k : k \in 1 .. 11 <=> k \in {1, 2, 3, 4, 5, 6, 7, 8, 9, 10, 11}
  OBVIOUS
<1>5. \A k \in 1 .. 11 : e[k][2] # SUCCESS
  BY <1>31, <1>4 DEF SUCCESS, GENERIC, RANGE, PARSE, MIGRATION, VALIDATION
<1>6. Len(e) \in Nat /\ 1 .. Len(e) = 1 .. 11
  BY <1>1
<1>7. ASSUME code = SUCCESS
      PROVE  /\ Scans(log) /\ s.outcome \notin {"not found", "invalid"}
             /\ m.ok /\ (Reopens(o) => reopened.ok)
  <2>1. \A k \in 1 .. 11 : ~e[k][1]
    BY <1>2, <1>5, <1>6, <1>7, SomeError
  <2>2. ~e[3][1] /\ ~e[4][1] /\ ~e[5][1] /\ ~e[6][1] /\ ~e[9][1]
    BY <1>4, <2>1
  <2>3. QED
    BY <1>3, <2>2
<1>8. ASSUME o.wrong = "none", s.outcome = "range"
      PROVE  CodeNames(log, o, m, read, reopened, code)
  <2>1. ~e[1][1] /\ ~e[2][1] /\ ~e[4][1] /\ ~e[5][1] /\ ~e[11][1]
    BY <1>3, <1>8
  <2>2. ASSUME ~Scans(log) PROVE code = PARSE
    <3>0. 3 \in 1 .. 11
      OBVIOUS
    <3>1. e[3][1] /\ ~e[1][1] /\ ~e[2][1]
      BY <1>3, <2>1, <2>2
    <3>2. ASSUME NEW j \in 1 .. 11, e[j][1] PROVE 3 <= j
      <4>1. j # 1 /\ j # 2
        BY <3>1, <3>2
      <4>2. QED
        BY <4>1
    <3>3. QED
      BY <1>2, <1>6, <1>31, <3>0, <3>1, <3>2, ErrorAt
  <2>3. ASSUME Scans(log), ~m.ok PROVE code = MIGRATION
    <3>0. 6 \in 1 .. 11
      OBVIOUS
    <3>1. e[6][1] /\ ~e[1][1] /\ ~e[2][1] /\ ~e[3][1] /\ ~e[4][1] /\ ~e[5][1]
      BY <1>3, <2>1, <2>3
    <3>2. ASSUME NEW j \in 1 .. 11, e[j][1] PROVE 6 <= j
      <4>1. j # 1 /\ j # 2 /\ j # 3 /\ j # 4 /\ j # 5
        BY <3>1, <3>2
      <4>2. QED
        BY <4>1
    <3>3. QED
      BY <1>2, <1>6, <1>31, <3>0, <3>1, <3>2, ErrorAt
  <2>4. ASSUME Scans(log), m.ok, o.typed, ~Fits(m.state) PROVE code = VALIDATION
    <3>0. 7 \in 1 .. 11
      OBVIOUS
    <3>1. e[7][1] /\ ~e[1][1] /\ ~e[2][1] /\ ~e[3][1] /\ ~e[4][1] /\ ~e[5][1] /\ ~e[6][1]
      BY <1>3, <2>1, <2>4
    <3>2. ASSUME NEW j \in 1 .. 11, e[j][1] PROVE 7 <= j
      <4>1. j # 1 /\ j # 2 /\ j # 3 /\ j # 4 /\ j # 5 /\ j # 6
        BY <3>1, <3>2
      <4>2. QED
        BY <4>1
    <3>3. QED
      BY <1>2, <1>6, <1>31, <3>0, <3>1, <3>2, ErrorAt
  <2>5. ASSUME Scans(log), m.ok, o.typed => Fits(m.state),
               Reopens(o) => log # <<>> /\ read.ok /\ reopened.ok /\ Fits(reopened.state)
        PROVE  code = SUCCESS
    <3>1. \A j \in 1 .. 11 : ~e[j][1]
      BY <1>3, <1>4, <2>1, <2>5
    <3>2. QED
      BY <1>2, <1>6, <3>1, NoError
  <2>6. QED
    BY <2>2, <2>3, <2>4, <2>5 DEF CodeNames
<1>9. QED
  BY <1>7, <1>8

(* A text log as it is on disk: each of its lines is a record or garbage. *)
IsFile(log) ==
  /\ IsLog(log) /\ Numbered(log) /\ Ordered(log)
  /\ \A i \in DOMAIN log : /\ log[i].kind \in {"change", "snapshot", "garbage"}
                           /\ log[i].line \in Nat /\ log[i].v \in Nat

(* A successful run writes what is selected, *)
LEMMA WritesSelected ==
  ASSUME NEW log, IsFile(log), NEW o
  PROVE  OutputIsSelected(o, RunOf(log, o, Selected(log, o), ReplayLog(log)),
                          ReplayLog(Until(log, Selected(log, o))),
                          Migrated(o, ReplayLog(Until(log, Selected(log, o)))))
<1> DEFINE s        == Selected(log, o)
           read     == ReplayLog(log)
           reopened == Migrated(o, read)
           target   == Target(log, s)
           m        == Migrated(o, target)
           run      == RunOf(log, o, s, read)
           upTo     == ReplayLog(Until(log, s))
           code     == ExitCode(Errors(log, o, s, m, read, reopened))
<1>1. run.code = code /\ run.output = Output(o, m, reopened)
  BY DEF RunOf, Finished
<1> SUFFICES ASSUME o.range = All \/ ~Reopens(o), run.code = SUCCESS
    PROVE  /\ upTo.ok /\ Migrated(o, upTo).ok
           /\ run.output = IF o.typed THEN Normalize(Migrated(o, upTo).state) ELSE Migrated(o, upTo).state
  BY DEF OutputIsSelected
<1>2. code = SUCCESS
  BY <1>1
<1>3. o.range = All => s = Selection(0, EndOfFile(log)) /\ s.outcome = "range" /\ s.end = EndOfFile(log)
  BY DEF Selected, Selection
<1> HIDE DEF s, run, code
<1>4. Scans(log) /\ m.ok /\ (Reopens(o) => reopened.ok)
  <2> HIDE DEF m, read, reopened
  <2>1. QED
    BY <1>2, CodeTells DEF code
<1>5. TextLog(log)
  BY <1>4 DEF IsFile, TextLog, IsEvent, Scans
<1>6. target.state = upTo.state /\ target.version = upTo.version /\ upTo.ok
  BY <1>5, TargetIs DEF s
<1> HIDE DEF target, upTo
<1>7. Migrated(o, upTo) = m
  BY <1>6, SameMigrations
<1>8. CASE ~Reopens(o)
  BY <1>1, <1>4, <1>6, <1>7, <1>8 DEF Output
<1>9. CASE Reopens(o)
  <2>1. Replayed(log, s.end) = log
    BY <1>3, <1>9, WholeReplayed DEF IsFile
  <2>2. upTo = read
    BY <1>3, <1>9, <2>1 DEF upTo, Until
  <2>3. reopened = m /\ o.typed
    BY <1>7, <1>9, <2>2 DEF Reopens
  <2> HIDE DEF m, reopened
  <2>4. QED
    BY <1>1, <1>4, <1>6, <1>7, <1>9, <2>3 DEF Output
<1>10. QED
  BY <1>8, <1>9

(* and its exit code tells whether an application could open the file. *)
LEMMA CodeIsRight ==
  ASSUME NEW log, IsFile(log), log # <<>>, NEW o
  PROVE  ExitTells(o, RunOf(log, o, Selected(log, o), ReplayLog(log)).code, Consistent(log),
                   Opens(log, o, ReplayLog(log), Migrated(o, ReplayLog(log))),
                   Migrated(o, ReplayLog(log)).ok)
<1> DEFINE s        == Selected(log, o)
           read     == ReplayLog(log)
           reopened == Migrated(o, read)
           target   == Target(log, s)
           m        == Migrated(o, target)
           code     == RunOf(log, o, s, read).code
<1>1. code = ExitCode(Errors(log, o, s, m, read, reopened))
  BY DEF RunOf, Finished
<1> SUFFICES ASSUME o.range = All, o.wrong = "none"
    PROVE  /\ code = SUCCESS <=> Consistent(log) /\ Opens(log, o, read, reopened)
           /\ code = PARSE <=> ~Consistent(log)
           /\ code = MIGRATION <=> Consistent(log) /\ ~reopened.ok
  BY DEF ExitTells
<1>2. s.outcome = "range" /\ s.end = EndOfFile(log)
  BY DEF Selected, Selection
<1>3. IsLog(log) /\ (Scans(log) <=> Consistent(log))
  BY ScansAgree DEF IsFile
<1>4. m = reopened
  <2>1. target = Held(Replayed(log, s.end))
    BY <1>2 DEF Target, RangeState
  <2>2. Replayed(log, s.end) = log
    BY <1>2, WholeReplayed DEF IsFile
  <2>3. target.state = read.state /\ target.version = read.version
    BY <1>3, <2>1, <2>2, HeldIs
  <2> HIDE DEF target, read
  <2>4. QED
    BY <2>3, SameMigrations
<1>5. Scans(log) => read.ok
  <2>1. Scans(log) => \A i \in DOMAIN log : log[i].kind # "garbage"
    BY DEF Scans
  <2>2. QED
    BY <1>3, <2>1, ReplayIs
<1>6. Opens(log, o, read, reopened) <=> read.ok /\ reopened.ok /\ (o.typed => Fits(reopened.state))
  BY DEF Opens
<1>7. Reopens(o) => o.typed
  BY DEF Reopens
<1> HIDE DEF s, read, reopened, m, target, code
<1>8. CodeNames(log, o, m, read, reopened, code)
  BY <1>1, <1>2, CodeTells
<1>9. SUCCESS # PARSE /\ SUCCESS # MIGRATION /\ PARSE # MIGRATION /\ VALIDATION \notin {SUCCESS, PARSE, MIGRATION}
  BY DEF SUCCESS, PARSE, MIGRATION, VALIDATION
<1>10. CASE ~Scans(log)
  BY <1>3, <1>8, <1>9, <1>10 DEF CodeNames
<1>11. CASE Scans(log) /\ ~m.ok
  BY <1>3, <1>4, <1>6, <1>8, <1>9, <1>11 DEF CodeNames
<1>12. CASE Scans(log) /\ m.ok /\ o.typed /\ ~Fits(m.state)
  BY <1>3, <1>4, <1>6, <1>8, <1>9, <1>12 DEF CodeNames
<1>13. CASE Scans(log) /\ m.ok /\ (o.typed => Fits(m.state))
  <2>1. code = SUCCESS
    BY <1>4, <1>5, <1>7, <1>8, <1>13 DEF CodeNames
  <2>2. QED
    BY <1>3, <1>4, <1>5, <1>6, <1>9, <1>13, <2>1
<1>14. QED
  BY <1>10, <1>11, <1>12, <1>13

(* The inputs that the command is promised something for. *)
CommandTyped == Of("command") => IsFile(in[2][1])

(* Of a text log of any length, with any garbage in it, and for any        *)
(* invocation: what python -m kanta writes is the state that an            *)
(* application would find that opened the log up to the last selected      *)
(* record, and its exit code tells whether an application could open the   *)
(* file and if not at which stage it fails (scan_events, replay_events and *)
(* replay agree).                                                          *)
THEOREM CommandAlwaysTells ==
  ASSUME CommandTyped
  PROVE  CommandTells
<1> DEFINE log == in[2][1]
           o   == in[2][2]
<1>1. SUFFICES ASSUME Of("command") PROVE WritesWhatOpens(log, o)
  BY DEF CommandTells
<1>2. IsFile(log)
  BY <1>1 DEF CommandTyped
<1> HIDE DEF log, o
<1>3. log # <<>> =>
        ExitTells(o, RunOf(log, o, Selected(log, o), ReplayLog(log)).code, Consistent(log),
                  Opens(log, o, ReplayLog(log), Migrated(o, ReplayLog(log))),
                  Migrated(o, ReplayLog(log)).ok)
  BY <1>2, CodeIsRight
<1>4. QED
  BY <1>2, <1>3, WritesSelected DEF WritesWhatOpens
=============================================================================
