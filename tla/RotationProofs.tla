--------------------------- MODULE RotationProofs ---------------------------
(***************************************************************************)
(* Proofs about Rotation, for any keys, windows and bounds, as long as the *)
(* clock is not set back and no snapshot overtakes the log: with StepsBack *)
(* the theorems are false, with Overtakes they are only model-checked.     *)
(***************************************************************************)
EXTENDS Rotation, SequenceTheorems, FiniteSetTheorems, TLAPS

Replays == INSTANCE ListLemmas WITH Op <- Apply, Origin <- Blank

Record == {r \in [kind : {"change", "snapshot"}, id : Nat, key : Keys \cup {"none"},
                  state : [Keys -> Nat], v : Nat, m : Int, ts : Int, at : Int] :
             r.kind = "change" => r.key \in Keys}
Meanings == [state : [Keys -> Nat], v : Nat, m : Int]

(* What the first n records mean. *)
Upto(log, n) == Meaning(SubSeq(log, 1, n))

(* A snapshot behind the first record holds what the records before it     *)
(* mean;                                                                   *)
Exact(log) ==
  \A i \in Snapshots(log) :
    i > 1 => [state |-> log[i].state, v |-> log[i].v, m |-> log[i].m] = Upto(log, i - 1)

-----------------------------------------------------------------------------
(* The greatest and the least number of a set. *)
LEMMA MaxIs ==
  ASSUME NEW N \in Nat, NEW S \in SUBSET (0 .. N), S # {}
  PROVE  Max(S) \in S /\ \A x \in S : x <= Max(S)
<1>1. Replays!Max(S) \in S /\ \A x \in S : Replays!Max(S) >= x
  BY Replays!MaxFinds
<1>2. Max(S) = Replays!Max(S)
  BY DEF Max, Replays!Max
<1>3. \A x \in S : x \in Int
  OBVIOUS
<1>4. QED
  BY <1>1, <1>2, <1>3

LEMMA MinIs ==
  ASSUME NEW S \in SUBSET Nat, S # {}
  PROVE  Min(S) \in S /\ \A x \in S : Min(S) <= x
<1>1. Replays!Min(S) \in S /\ \A x \in S : Replays!Min(S) <= x
  BY Replays!MinFinds
<1>2. Min(S) = Replays!Min(S)
  BY DEF Min, Replays!Min
<1>3. QED
  BY <1>1, <1>2

-----------------------------------------------------------------------------
(* Replay takes one record after the other. *)
LEMMA MeaningFolds ==
  ASSUME NEW log
  PROVE  Meaning(log) = Replays!Folded(log)
BY DEF Meaning, Replays!Folded, FoldLeft, Replays!FoldLeft, MapThenFoldSet, Replays!MapThenFoldSet,
       Max, Replays!Max

LEMMA ApplyType ==
  ASSUME NEW a \in Meanings, NEW r \in Record
  PROVE  Apply(a, r) \in Meanings
BY DEF Apply, Meanings, Record, NoTime

LEMMA BlankType == Blank \in Meanings
BY DEF Blank, Meanings, NoTime

LEMMA MeaningEmpty == Meaning(<<>>) = Blank
BY MeaningFolds, Replays!FoldedEmpty

LEMMA MeaningAppend ==
  ASSUME NEW log \in Seq(Record), NEW r \in Record
  PROVE  Meaning(Append(log, r)) = Apply(Meaning(log), r)
BY MeaningFolds, Replays!FoldedAppend

LEMMA UptoNone ==
  ASSUME NEW log \in Seq(Record)
  PROVE  Upto(log, 0) = Blank
<1>1. SubSeq(log, 1, 0) = <<>>
  OBVIOUS
<1>2. QED
  BY <1>1, MeaningEmpty DEF Upto

LEMMA UptoAll ==
  ASSUME NEW log \in Seq(Record)
  PROVE  Upto(log, Len(log)) = Meaning(log)
<1>1. SubSeq(log, 1, Len(log)) = log
  OBVIOUS
<1>2. QED
  BY <1>1 DEF Upto

LEMMA Prefix ==
  ASSUME NEW log \in Seq(Record), NEW n \in 0 .. Len(log)
  PROVE  /\ SubSeq(log, 1, n) = [i \in 1 .. n |-> log[i]]
         /\ SubSeq(log, 1, n) \in Seq(Record) /\ Len(SubSeq(log, 1, n)) = n
OBVIOUS

LEMMA UptoStep ==
  ASSUME NEW log \in Seq(Record), NEW n \in Nat, n + 1 <= Len(log)
  PROVE  Upto(log, n + 1) = Apply(Upto(log, n), log[n + 1])
<1> DEFINE s == SubSeq(log, 1, n)
           t == SubSeq(log, 1, n + 1)
<1>1. Len(log) \in Nat /\ n \in 0 .. Len(log) /\ n + 1 \in 0 .. Len(log)
  OBVIOUS
<1>2. /\ s = [i \in 1 .. n |-> log[i]] /\ Len(s) = n
      /\ t = [i \in 1 .. (n + 1) |-> log[i]] /\ Len(t) = n + 1
  BY <1>1, Prefix
<1> HIDE DEF s, t
<1>3. \A i \in 1 .. n : s[i] = t[i]
  BY <1>2
<1>4. DOMAIN s = 1 .. n /\ DOMAIN t = 1 .. (n + 1) /\ t[n + 1] = log[n + 1]
  BY <1>2
<1>5. Replays!Folded(t) = Apply(Replays!Folded(s), t[n + 1])
  <2>1. Len(s) = n /\ Len(t) = n + 1 /\ DOMAIN s = 1 .. n /\ DOMAIN t = 1 .. (n + 1)
    BY <1>2, <1>4
  <2>2. QED
    BY <1>3, <2>1, Replays!FoldedStep, Zenon
<1>6. QED
  BY <1>4, <1>5, MeaningFolds DEF Upto, s, t

(* Logs that begin alike mean the same so far. *)
LEMMA UptoSame ==
  ASSUME NEW log \in Seq(Record), NEW new \in Seq(Record),
         NEW n \in 0 .. Len(log), n <= Len(new), \A i \in 1 .. n : log[i] = new[i]
  PROVE  Upto(log, n) = Upto(new, n)
<1>1. n \in 0 .. Len(new)
  OBVIOUS
<1>2. SubSeq(log, 1, n) = SubSeq(new, 1, n)
  BY <1>1, Prefix
<1>3. QED
  BY <1>2 DEF Upto

LEMMA UptoType ==
  ASSUME NEW log \in Seq(Record), NEW n \in 0 .. Len(log)
  PROVE  Upto(log, n) \in Meanings
<1> DEFINE Bad == {i \in 0 .. Len(log) : Upto(log, i) \notin Meanings}
<1>1. SUFFICES ASSUME Bad # {} PROVE FALSE
  OBVIOUS
<1>2. PICK i \in Bad : \A j \in Bad : i <= j
  <2>1. Bad \in SUBSET Nat
    OBVIOUS
  <2> HIDE DEF Bad
  <2>2. QED
    BY <1>1, <2>1, Replays!LeastNumber
<1>3. i \in 0 .. Len(log) /\ Upto(log, i) \notin Meanings /\ i # 0
  BY UptoNone, BlankType
<1>4. i - 1 \in 0 .. Len(log) /\ i - 1 \in Nat /\ (i - 1) + 1 = i /\ ~ (i <= i - 1) /\ log[i] \in Record
  BY <1>3
<1>5. Upto(log, i - 1) \in Meanings
  BY <1>2, <1>4
<1>6. Upto(log, i) = Apply(Upto(log, i - 1), log[i])
  BY <1>3, <1>4, UptoStep
<1>7. QED
  BY <1>3, <1>4, <1>5, <1>6, ApplyType

-----------------------------------------------------------------------------
(* A snapshot leaves what the log means, *)
LEMMA SnapshotStays ==
  ASSUME NEW log \in Seq(Record), Exact(log), NEW i \in Snapshots(log), i > 1
  PROVE  Upto(log, i) = Upto(log, i - 1)
<1> DEFINE a == Upto(log, i - 1)
           r == log[i]
<1>1. i \in 1 .. Len(log) /\ r \in Record /\ r.kind = "snapshot"
  BY DEF Snapshots
<1>2. i - 1 \in Nat /\ (i - 1) + 1 = i /\ i <= Len(log) /\ i - 1 \in 0 .. Len(log)
  BY <1>1
<1>3. Upto(log, i) = Apply(a, r)
  BY <1>2, UptoStep
<1>4. a \in Meanings
  BY <1>2, UptoType
<1>5. r.state = a.state /\ r.v = a.v /\ r.m = a.m
  <2>1. [state |-> r.state, v |-> r.v, m |-> r.m] = a
    BY DEF Exact
  <2> HIDE DEF a, r
  <2>2. QED
    BY <2>1
<1> HIDE DEF a, r
<1>6. Apply(a, r) = [state |-> a.state, v |-> a.v, m |-> a.m]
  BY <1>1, <1>5 DEF Apply
<1>7. QED
  BY <1>3, <1>4, <1>6 DEF Meanings, a

(* and a change what it says nothing of. *)
Stays(log, a, b) ==
  /\ \A k \in Keys : (\A i \in Changes(log) : a < i /\ i <= b => log[i].key # k)
                       => Upto(log, b).state[k] = Upto(log, a).state[k]
  /\ (\A i \in Changes(log) : a < i /\ i <= b => log[i].m = NoTime) => Upto(log, b).m = Upto(log, a).m
  /\ (\A i \in Changes(log) : ~(a < i /\ i <= b)) => Upto(log, b) = Upto(log, a)

LEMMA StaysStep ==
  ASSUME NEW log \in Seq(Record), Exact(log), NEW a \in 1 .. Len(log),
         NEW b \in 1 .. Len(log), a < b, Stays(log, a, b - 1)
  PROVE  Stays(log, a, b)
<1>1. /\ a \in Int /\ b \in Int /\ b - 1 \in Nat /\ (b - 1) + 1 = b /\ b > 1
      /\ b - 1 \in 0 .. Len(log) /\ b <= Len(log) /\ log[b] \in Record
  OBVIOUS
<1>2. \A i \in Changes(log) : (a < i /\ i <= b) <=> (a < i /\ i <= b - 1) \/ i = b
  <2> TAKE i \in Changes(log)
  <2>1. i \in Int
    BY DEF Changes
  <2>2. QED
    BY <1>1, <2>1
<1> DEFINE p == Upto(log, b - 1)
           q == Upto(log, b)
<1>3. q = Apply(p, log[b]) /\ p \in Meanings
  BY <1>1, UptoStep, UptoType
<1>4. CASE log[b].kind = "snapshot"
  <2>1. b \in Snapshots(log)
    BY <1>4 DEF Snapshots
  <2>2. q = p
    BY <1>1, <2>1, SnapshotStays
  <2> HIDE DEF p, q
  <2>3. QED
    BY <1>2, <2>2 DEF Stays, p, q
<1>5. CASE log[b].kind = "change"
  <2>1. b \in Changes(log)
    BY <1>5 DEF Changes
  <2>2. /\ q.state = [p.state EXCEPT ![log[b].key] = log[b].id]
        /\ q.m = IF log[b].m = NoTime THEN p.m ELSE log[b].m
    BY <1>3, <1>5 DEF Apply
  <2>3. \A k \in Keys : log[b].key # k => q.state[k] = p.state[k]
    BY <1>3, <2>2 DEF Meanings
  <2> HIDE DEF p, q
  <2>4. \A k \in Keys : (\A i \in Changes(log) : a < i /\ i <= b => log[i].key # k)
                          => q.state[k] = Upto(log, a).state[k]
    BY <1>1, <1>2, <2>1, <2>3 DEF Stays, p
  <2>5. (\A i \in Changes(log) : a < i /\ i <= b => log[i].m = NoTime) => q.m = Upto(log, a).m
    BY <1>1, <1>2, <2>1, <2>2 DEF Stays, p
  <2>6. ~ \A i \in Changes(log) : ~(a < i /\ i <= b)
    BY <1>1, <2>1
  <2>7. QED
    BY <2>4, <2>5, <2>6 DEF Stays, q
<1>6. QED
  BY <1>1, <1>4, <1>5 DEF Record

LEMMA StaysAll ==
  ASSUME NEW log \in Seq(Record), Exact(log), NEW a \in 1 .. Len(log),
         NEW b \in 1 .. Len(log), a <= b
  PROVE  Stays(log, a, b)
<1> DEFINE Bad == {i \in 1 .. Len(log) : a <= i /\ ~ Stays(log, a, i)}
<1>1. SUFFICES ASSUME Bad # {} PROVE FALSE
  OBVIOUS
<1>2. PICK i \in Bad : \A j \in Bad : i <= j
  <2>1. Bad \in SUBSET Nat
    OBVIOUS
  <2> HIDE DEF Bad
  <2>2. QED
    BY <1>1, <2>1, Replays!LeastNumber
<1>3. i \in 1 .. Len(log) /\ a <= i /\ ~ Stays(log, a, i)
  OBVIOUS
<1>4. i # a
  BY <1>3 DEF Stays
<1>5. a < i /\ i - 1 \in 1 .. Len(log) /\ a <= i - 1 /\ ~(i <= i - 1)
  BY <1>3, <1>4
<1>6. Stays(log, a, i - 1)
  BY <1>2, <1>5
<1>7. QED
  BY <1>3, <1>5, <1>6, StaysStep

-----------------------------------------------------------------------------
(* Replay from the base is replay from the start. *)
LEMMA BaseIs ==
  ASSUME NEW log \in Seq(Record), NEW cutoff \in Int
  PROVE  /\ Base(log, cutoff) \in 0 .. Len(log)
         /\ Base(log, cutoff) # 0 => Base(log, cutoff) \in Snapshots(log)
<1> DEFINE S == {0} \cup {i \in Snapshots(log) : log[i].ts <= cutoff}
<1>1. S \in SUBSET (0 .. Len(log)) /\ S # {} /\ Len(log) \in Nat
  BY DEF Snapshots
<1> HIDE DEF S
<1>2. Max(S) \in S
  BY <1>1, MaxIs
<1>3. QED
  BY <1>1, <1>2 DEF Base, S

LEMMA Ahead ==
  ASSUME NEW log \in Seq(Record), Exact(log), NEW b \in Snapshots(log)
  PROVE  Apply(Blank, log[b]) = Upto(log, b)
<1>1. b \in 1 .. Len(log) /\ log[b] \in Record /\ log[b].kind = "snapshot"
  BY DEF Snapshots
<1>2. Apply(Blank, log[b]) = [state |-> log[b].state, v |-> log[b].v, m |-> log[b].m]
  BY <1>1 DEF Apply, Blank
<1>3. CASE b = 1
  <2>1. Upto(log, 0 + 1) = Apply(Upto(log, 0), log[0 + 1])
    BY <1>1, <1>3, UptoStep
  <2>2. QED
    BY <1>3, <2>1, UptoNone
<1>4. CASE b # 1
  <2>1. b > 1
    BY <1>1, <1>4
  <2>2. QED
    BY <1>2, <2>1, SnapshotStays DEF Exact
<1>5. QED
  BY <1>3, <1>4

LEMMA AfterIs ==
  ASSUME NEW log \in Seq(Record), Exact(log), NEW cutoff \in Int,
         NEW n \in 0 .. Len(log), Base(log, cutoff) <= n
  PROVE  After(log, cutoff, n) = Upto(log, n)
<1> DEFINE b == Base(log, cutoff)
<1>1. b \in 0 .. Len(log) /\ (b # 0 => b \in Snapshots(log)) /\ Len(log) \in Nat
  BY BaseIs
<1> HIDE DEF b
<1>2. Max({1, b}) = IF b = 0 THEN 1 ELSE b
  <2>1. {1, b} \in SUBSET (0 .. (Len(log) + 1)) /\ {1, b} # {} /\ Len(log) + 1 \in Nat
    BY <1>1
  <2>2. Max({1, b}) \in {1, b} /\ \A x \in {1, b} : x <= Max({1, b})
    BY <2>1, MaxIs
  <2>3. 1 <= Max({1, b}) /\ b <= Max({1, b})
    BY <2>2
  <2>4. QED
    BY <1>1, <2>2, <2>3
<1>3. After(log, cutoff, n) = Meaning(SubSeq(log, Max({1, b}), n))
  BY DEF After, b
<1>4. CASE b = 0
  BY <1>2, <1>3, <1>4 DEF Upto
<1>5. CASE b # 0
  <2> DEFINE From(i) == Meaning(SubSeq(log, b, i))
             Bad == {i \in 1 .. Len(log) : b <= i /\ From(i) # Upto(log, i)}
  <2>1. b \in Snapshots(log) /\ b \in 1 .. Len(log) /\ b <= n
    BY <1>1, <1>5 DEF b
  <2>2. SUFFICES Bad = {}
    BY <1>2, <1>3, <1>5, <2>1
  <2>3. SUFFICES ASSUME Bad # {} PROVE FALSE
    OBVIOUS
  <2>4. PICK i \in Bad : \A j \in Bad : i <= j
    <3>1. Bad \in SUBSET Nat
      OBVIOUS
    <3> HIDE DEF Bad
    <3>2. QED
      BY <2>3, <3>1, Replays!LeastNumber
  <2>5. i \in 1 .. Len(log) /\ b <= i /\ From(i) # Upto(log, i)
    OBVIOUS
  <2>6. i # b
    <3>1. SubSeq(log, b, b) = Append(<<>>, log[b]) /\ log[b] \in Record /\ <<>> \in Seq(Record)
      <4>1. log[b] \in Record /\ <<>> \in Seq(Record)
        BY <2>1
      <4>2. SubSeq(log, b, b) \in Seq(Record) /\ Len(SubSeq(log, b, b)) = 1 /\ SubSeq(log, b, b)[1] = log[b]
        BY <2>1
      <4>3. /\ Append(<<>>, log[b]) \in Seq(Record)
            /\ Len(Append(<<>>, log[b])) = 1 /\ Append(<<>>, log[b])[1] = log[b]
        BY <4>1
      <4> DEFINE f == SubSeq(log, b, b)
                 g == Append(<<>>, log[b])
      <4>4. \A j \in 1 .. Len(f) : f[j] = g[j]
        BY <4>2, <4>3
      <4> HIDE DEF f, g
      <4>5. f = g
        BY <4>2, <4>3, <4>4, SeqEqual DEF f, g
      <4>6. QED
        BY <4>1, <4>5 DEF f, g
    <3>2. From(b) = Apply(Blank, log[b])
      BY <3>1, MeaningAppend, MeaningEmpty
    <3>3. QED
      BY <2>1, <2>5, <3>2, Ahead
  <2>7. /\ b <= i - 1 /\ i - 1 \in 1 .. Len(log) /\ ~(i <= i - 1)
        /\ i - 1 \in Nat /\ (i - 1) + 1 = i /\ i <= Len(log) /\ log[i] \in Record
    BY <2>1, <2>5, <2>6
  <2>8. From(i - 1) = Upto(log, i - 1)
    BY <2>4, <2>7
  <2> HIDE DEF Bad
  <2>9. SubSeq(log, b, i - 1) \in Seq(Record) /\ SubSeq(log, b, i) = Append(SubSeq(log, b, i - 1), log[i])
    <3>1. \A j \in b .. i : log[j] \in Record
      BY <2>1, <2>5
    <3>2. QED
      BY <2>1, <2>5, <2>7, <3>1
  <2>10. From(i) = Apply(From(i - 1), log[i])
    BY <2>7, <2>9, MeaningAppend
  <2>11. Upto(log, i) = Apply(Upto(log, i - 1), log[i])
    BY <2>7, UptoStep
  <2>12. QED
    BY <2>5, <2>8, <2>10, <2>11
<1>6. QED
  BY <1>4, <1>5

-----------------------------------------------------------------------------
(* Selecting records from a log *)

(* An enumeration of positions in ascending order, as Select chooses one.  *)
Ascends(o, S) ==
  /\ o \in [1 .. Cardinality(S) -> S]
  /\ \A i, j \in 1 .. Cardinality(S) : i < j => o[i] < o[j]

LEMMA AscendStep ==
  ASSUME NEW n \in Nat, NEW S \in SUBSET (1 .. (n + 1)),
         \A T \in SUBSET (1 .. n) : \E o : Ascends(o, T)
  PROVE  \E o : Ascends(o, S)
<1> DEFINE T == S \ {n + 1}
<1>1. T \in SUBSET (1 .. n)
  OBVIOUS
<1>2. CASE n + 1 \notin S
  <2>1. S = T
    BY <1>2
  <2>2. QED
    BY <1>1, <2>1
<1>3. CASE n + 1 \in S
  <2> HIDE DEF T
  <2>1. PICK o : Ascends(o, T)
    BY <1>1
  <2>2. IsFiniteSet(1 .. (n + 1))
    <3>1. n + 1 \in Int /\ 1 \in Int
      OBVIOUS
    <3>2. QED
      BY <3>1, FS_Interval
  <2>3. IsFiniteSet(S) /\ Cardinality(S) \in Nat
    BY <2>2, FS_Subset, FS_CardinalityType
  <2> DEFINE c == Cardinality(T)
  <2>4. Cardinality(T) = Cardinality(S) - 1
    BY <1>3, <2>3, FS_RemoveElement DEF T
  <2>5. IsFiniteSet(T) /\ Cardinality(T) \in Nat
    BY <2>3, FS_Subset, FS_CardinalityType DEF T
  <2>6. c \in Nat /\ Cardinality(S) = c + 1
    BY <2>3, <2>4, <2>5
  <2> HIDE DEF c
  <2> DEFINE h == [i \in 1 .. (c + 1) |-> IF i = c + 1 THEN n + 1 ELSE o[i]]
  <2>7. \A i \in 1 .. c : o[i] \in T /\ o[i] \in 1 .. n /\ h[i] = o[i]
    <3>1. \A i \in 1 .. c : o[i] \in T /\ o[i] \in 1 .. n
      BY <1>1, <2>1 DEF Ascends, c
    <3>2. \A i \in 1 .. c : i # c + 1 /\ i \in 1 .. (c + 1)
      BY <2>6
    <3>3. QED
      BY <3>1, <3>2
  <2>8. h[c + 1] = n + 1
    BY <2>6
  <2>9. h \in [1 .. (c + 1) -> S]
    <3>1. \A i \in 1 .. (c + 1) : i \in 1 .. c \/ i = c + 1
      BY <2>6
    <3>2. \A i \in 1 .. (c + 1) : h[i] \in S
      BY <1>3, <2>7, <2>8, <3>1 DEF T
    <3>3. QED
      BY <3>2
  <2>10. ASSUME NEW i \in 1 .. (c + 1), NEW j \in 1 .. (c + 1), i < j PROVE h[i] < h[j]
    <3>1. i \in 1 .. c
      BY <2>6, <2>10
    <3>2. CASE j \in 1 .. c
      <4>1. o[i] < o[j]
        BY <2>1, <2>10, <3>1, <3>2 DEF Ascends, c
      <4>2. QED
        BY <2>7, <3>1, <3>2, <4>1
    <3>3. CASE j = c + 1
      <4>1. h[i] \in 1 .. n
        BY <2>7, <3>1
      <4>2. QED
        BY <2>8, <3>3, <4>1
    <3>4. QED
      BY <2>6, <3>2, <3>3
  <2> HIDE DEF h
  <2>11. Ascends(h, S)
    BY <2>6, <2>9, <2>10 DEF Ascends
  <2>12. QED
    BY <2>11
<1>4. QED
  BY <1>2, <1>3

LEMMA AscendExists ==
  ASSUME NEW N \in Nat, NEW S \in SUBSET (1 .. N)
  PROVE  \E o : Ascends(o, S)
<1> DEFINE Good(n) == \A T \in SUBSET (1 .. n) : \E o : Ascends(o, T)
           Bad == {n \in Nat : ~ Good(n)}
<1>1. SUFFICES ASSUME Bad # {} PROVE FALSE
  OBVIOUS
<1>2. PICK n \in Bad : \A m \in Bad : n <= m
  <2>1. Bad \in SUBSET Nat
    OBVIOUS
  <2> HIDE DEF Bad
  <2>2. QED
    BY <1>1, <2>1, Replays!LeastNumber
<1>3. n \in Nat /\ ~ Good(n)
  OBVIOUS
<1>4. n # 0
  <2> SUFFICES Good(0)
    BY <1>3
  <2> SUFFICES ASSUME NEW T \in SUBSET (1 .. 0) PROVE \E o : Ascends(o, T)
    OBVIOUS
  <2>1. T = {} /\ Cardinality(T) = 0
    <3>1. T = {}
      OBVIOUS
    <3>2. QED
      BY <3>1, FS_EmptySet
  <2> DEFINE o == [i \in 1 .. 0 |-> 0]
  <2>2. o \in [1 .. 0 -> T] /\ \A i \in 1 .. 0 : FALSE
    OBVIOUS
  <2>3. Ascends(o, T)
    BY <2>1, <2>2 DEF Ascends
  <2>4. QED
    BY <2>3
<1>5. n - 1 \in Nat /\ (n - 1) + 1 = n /\ ~(n <= n - 1)
  BY <1>3, <1>4
<1>6. Good(n - 1)
  BY <1>2, <1>5
<1> HIDE DEF Bad
<1>7. \A T \in SUBSET (1 .. n) : \E o : Ascends(o, T)
  <2> TAKE T \in SUBSET (1 .. n)
  <2>1. T \in SUBSET (1 .. ((n - 1) + 1))
    BY <1>5
  <2>2. QED
    BY <1>5, <1>6, <2>1, AscendStep
<1>8. QED
  BY <1>3, <1>7

(* It enumerates all of them. *)
LEMMA AscendOnto ==
  ASSUME NEW S \in SUBSET Nat, IsFiniteSet(S), NEW o, Ascends(o, S)
  PROVE  Cardinality(S) \in Nat /\ \A x \in S : \E i \in 1 .. Cardinality(S) : o[i] = x
<1> DEFINE c == Cardinality(S)
           I == 1 .. c
<1>1. IsFiniteSet(S) /\ c \in Nat
  BY FS_CardinalityType
<1>2. o \in [I -> S] /\ \A i, j \in I : i < j => o[i] < o[j]
  BY DEF Ascends
<1> HIDE DEF c
<1>3. IsFiniteSet(I) /\ Cardinality(I) = c
  <2>1. \A a, b \in Int : /\ IsFiniteSet(a .. b)
                          /\ Cardinality(a .. b) = IF a > b THEN 0 ELSE b - a + 1
    BY FS_Interval
  <2>2. 1 \in Int /\ c \in Int
    BY <1>1
  <2>3. IsFiniteSet(1 .. c) /\ Cardinality(1 .. c) = IF 1 > c THEN 0 ELSE c - 1 + 1
    BY <2>1, <2>2
  <2>4. QED
    BY <1>1, <2>3
<1>4. \A i, j \in I : o[i] = o[j] => i = j
  <2> TAKE i, j \in I
  <2>1. i \in Int /\ j \in Int /\ o[i] \in Int /\ o[j] \in Int
    <3>1. o[i] \in S /\ o[j] \in S
      BY <1>2
    <3>2. i \in Int /\ j \in Int
      OBVIOUS
    <3>3. \A x \in S : x \in Int
      OBVIOUS
    <3>4. QED
      BY <3>1, <3>2, <3>3
  <2>2. (i < j => o[i] < o[j]) /\ (j < i => o[j] < o[i])
    BY <1>2
  <2>3. QED
    BY <2>1, <2>2
<1> HIDE DEF I
<1>5. o \in Injection(I, S)
  BY <1>2, <1>4 DEF Injection, IsInjective
<1>6. o \in Surjection(I, S)
  BY <1>1, <1>3, <1>5, FS_Injection DEF c
<1>7. QED
  BY <1>1, <1>6 DEF Surjection, I, c

(* Select takes the records at the positions, in order. *)
Picks(log, S, o) ==
  /\ Ascends(o, S)
  /\ \A x \in S : \E i \in 1 .. Cardinality(S) : o[i] = x
  /\ Select(log, S) = [i \in 1 .. Cardinality(S) |-> log[o[i]]]

LEMMA SelectIs ==
  ASSUME NEW log \in Seq(Record), NEW S \in SUBSET (1 .. Len(log))
  PROVE  /\ \E o : Picks(log, S, o)
         /\ Cardinality(S) \in Nat
<1> DEFINE o == CHOOSE f \in [1 .. Cardinality(S) -> S] :
                  \A i, j \in 1 .. Cardinality(S) : i < j => f[i] < f[j]
<1>1. Len(log) \in Nat
  OBVIOUS
<1>2. \E f : Ascends(f, S)
  BY <1>1, AscendExists
<1>3. Ascends(o, S)
  BY <1>2 DEF Ascends
<1>4. Select(log, S) = [i \in 1 .. Cardinality(S) |-> log[o[i]]]
  BY DEF Select
<1> HIDE DEF o
<1>5. Cardinality(S) \in Nat /\ \A x \in S : \E i \in 1 .. Cardinality(S) : o[i] = x
  <2>1. 1 \in Int /\ Len(log) \in Int
    BY <1>1
  <2>2. IsFiniteSet(1 .. Len(log))
    BY <2>1, FS_Interval
  <2>3. IsFiniteSet(S)
    BY <2>2, FS_Subset
  <2>4. S \in SUBSET Nat
    OBVIOUS
  <2>5. QED
    BY <1>3, <2>3, <2>4, AscendOnto
<1>6. QED
  BY <1>3, <1>4, <1>5 DEF Picks

-----------------------------------------------------------------------------
(* What a rewritten log means *)

(* The log new begins with the state of log at j, goes on with c changes   *)
(* of log, which o names in their order, and may end with a snapshot; the  *)
(* changes of log that it leaves out lie before the others, and up to j.   *)
Rewrites(log, new, j, o, c) ==
  /\ log \in Seq(Record) /\ new \in Seq(Record) /\ Exact(log)
  /\ j \in 1 .. Len(log) /\ c \in Nat /\ c + 1 <= Len(new)
  /\ o \in [1 .. c -> Changes(log)] /\ \A p, q \in 1 .. c : p < q => o[p] < o[q]
  /\ \A i \in Changes(log) : (\E q \in 1 .. c : o[q] = i) \/ (i <= j /\ \A q \in 1 .. c : i < o[q])
  /\ new[1].kind = "snapshot"
  /\ [state |-> new[1].state, v |-> new[1].v, m |-> new[1].m] = Upto(log, j)
  /\ \A q \in 1 .. c : new[q + 1] = [log[o[q]] EXCEPT !.at = q]
  /\ \A i \in 1 .. Len(new) : i > c + 1 =>
       /\ i = c + 2 /\ new[i].kind = "snapshot"
       /\ [state |-> new[i].state, v |-> new[i].v, m |-> new[i].m] = Upto(log, Len(log))

LEMMA Leads ==
  ASSUME NEW log, NEW new, NEW j, NEW o, NEW c, Rewrites(log, new, j, o, c)
  PROVE  Upto(new, 1) = Upto(log, j)
<1>1. new \in Seq(Record) /\ 0 + 1 <= Len(new) /\ new[1].kind = "snapshot" /\ new[1] \in Record
  BY DEF Rewrites
<1>2. Upto(new, 0 + 1) = Apply(Upto(new, 0), new[0 + 1])
  BY <1>1, UptoStep
<1>3. Upto(new, 1) = Apply(Blank, new[1])
  BY <1>1, <1>2, UptoNone
<1>4. Apply(Blank, new[1]) = [state |-> new[1].state, v |-> new[1].v, m |-> new[1].m]
  BY <1>1 DEF Apply, Blank
<1>5. QED
  BY <1>3, <1>4 DEF Rewrites

LEMMA Kept ==
  ASSUME NEW log, NEW new, NEW j, NEW o, NEW c, Rewrites(log, new, j, o, c), NEW q \in 1 .. c
  PROVE  /\ o[q] \in Changes(log) /\ o[q] \in 1 .. Len(log)
         /\ log[o[q]] \in Record /\ log[o[q]].kind = "change"
         /\ Upto(new, q + 1) = Apply(Upto(new, q), log[o[q]])
         /\ Upto(log, o[q]) = Apply(Upto(log, o[q] - 1), log[o[q]])
<1> DEFINE r == log[o[q]]
<1>1. /\ log \in Seq(Record) /\ new \in Seq(Record) /\ c \in Nat /\ c + 1 <= Len(new)
      /\ new[q + 1] = [r EXCEPT !.at = q]
  BY DEF Rewrites
<1>2. o[q] \in Changes(log)
  BY DEF Rewrites
<1>3. o[q] \in 1 .. Len(log) /\ r \in Record /\ r.kind = "change"
  BY <1>1, <1>2 DEF Changes
<1>4. Upto(new, q + 1) = Apply(Upto(new, q), new[q + 1])
  <2>1. q \in Nat /\ q + 1 <= Len(new)
    BY <1>1
  <2>2. QED
    BY <1>1, <2>1, UptoStep
<1>5. Apply(Upto(new, q), [r EXCEPT !.at = q]) = Apply(Upto(new, q), r)
  <2>1. /\ [r EXCEPT !.at = q].kind = r.kind /\ [r EXCEPT !.at = q].state = r.state
        /\ [r EXCEPT !.at = q].v = r.v /\ [r EXCEPT !.at = q].m = r.m
        /\ [r EXCEPT !.at = q].key = r.key /\ [r EXCEPT !.at = q].id = r.id
    BY <1>3 DEF Record
  <2> HIDE DEF r
  <2>2. QED
    BY <2>1 DEF Apply
<1>6. Upto(log, o[q]) = Apply(Upto(log, o[q] - 1), r)
  <2>1. o[q] - 1 \in Nat /\ (o[q] - 1) + 1 = o[q] /\ (o[q] - 1) + 1 <= Len(log)
    BY <1>1, <1>3
  <2>2. QED
    BY <1>1, <2>1, UptoStep
<1>7. QED
  BY <1>1, <1>2, <1>3, <1>4, <1>5, <1>6

(* Between two kept changes log has snapshots only. *)
LEMMA KeptBetween ==
  ASSUME NEW log, NEW new, NEW j, NEW o, NEW c, Rewrites(log, new, j, o, c),
         NEW q \in 1 .. c, q + 1 \in 1 .. c
  PROVE  Upto(log, o[q + 1] - 1) = Upto(log, o[q])
<1>1. log \in Seq(Record) /\ Exact(log) /\ c \in Nat
  BY DEF Rewrites
<1>2. o[q] \in 1 .. Len(log) /\ o[q + 1] \in 1 .. Len(log)
  BY Kept
<1>3. o[q] < o[q + 1]
  BY DEF Rewrites
<1>4. \A i \in Changes(log) : ~(o[q] < i /\ i <= o[q + 1] - 1)
  <2> SUFFICES ASSUME NEW i \in Changes(log), o[q] < i, i <= o[q + 1] - 1
               PROVE  FALSE
    OBVIOUS
  <2>1. i \in Int /\ i < o[q + 1]
    BY <1>2 DEF Changes
  <2>2. PICK p \in 1 .. c : o[p] = i
    <3>1. (\E p \in 1 .. c : o[p] = i) \/ \A p \in 1 .. c : i < o[p]
      BY DEF Rewrites
    <3>2. ~ (i < o[q])
      BY <1>2, <2>1
    <3>3. QED
      BY <3>1, <3>2
  <2>3. p # q /\ p # q + 1
    BY <1>2, <2>1, <2>2
  <2>4. p < q \/ p > q + 1
    BY <1>1, <2>3
  <2>5. o[p] < o[q] \/ o[p] > o[q + 1]
    BY <2>4 DEF Rewrites
  <2>6. QED
    BY <1>2, <2>1, <2>2, <2>5
<1>5. o[q + 1] - 1 \in 1 .. Len(log) /\ o[q] <= o[q + 1] - 1
  BY <1>2, <1>3
<1>6. QED
  BY <1>1, <1>2, <1>4, <1>5, StaysAll DEF Stays

(* After q changes new agrees with log, in what these changed, at the last *)
(* of them, and in what they left with log at j.                           *)
Agrees(log, new, j, o, q) ==
  /\ \A k \in Keys : (\A i \in 1 .. q : log[o[i]].key # k)
                       => Upto(new, q + 1).state[k] = Upto(log, j).state[k]
  /\ \A k \in Keys : (\E i \in 1 .. q : log[o[i]].key = k)
                       => Upto(new, q + 1).state[k] = Upto(log, o[q]).state[k]
  /\ q >= 1 => Upto(new, q + 1).v = Upto(log, o[q]).v
  /\ (\A i \in 1 .. q : log[o[i]].m = NoTime) => Upto(new, q + 1).m = Upto(log, j).m
  /\ (\E i \in 1 .. q : log[o[i]].m # NoTime) => Upto(new, q + 1).m = Upto(log, o[q]).m

LEMMA AgreesStep ==
  ASSUME NEW log, NEW new, NEW j, NEW o, NEW c, Rewrites(log, new, j, o, c),
         NEW q \in 1 .. c, Agrees(log, new, j, o, q - 1)
  PROVE  Agrees(log, new, j, o, q)
<1> DEFINE a == Upto(new, q)
           b == Upto(new, q + 1)
           y == Upto(log, o[q] - 1)
           z == Upto(log, o[q])
           r == log[o[q]]
<1>1. /\ o[q] \in 1 .. Len(log) /\ r \in Record /\ r.kind = "change"
      /\ b = Apply(a, r) /\ z = Apply(y, r)
  BY Kept
<1>2. log \in Seq(Record) /\ new \in Seq(Record) /\ c \in Nat /\ c + 1 <= Len(new) /\ Len(log) \in Nat
  BY DEF Rewrites
<1>3. a \in Meanings /\ y \in Meanings
  <2>1. q \in 0 .. Len(new)
    BY <1>2
  <2>2. o[q] - 1 \in 0 .. Len(log)
    BY <1>1, <1>2
  <2>3. QED
    BY <1>2, <2>1, <2>2, UptoType
<1>4. /\ q \in Int /\ q >= 1 /\ (q - 1) + 1 = q
      /\ \A i \in 1 .. q : i = q \/ i \in 1 .. (q - 1)
      /\ \A i \in 1 .. (q - 1) : i \in 1 .. q
      /\ q \in 1 .. q
  OBVIOUS
<1>5. (\E i \in 1 .. (q - 1) : TRUE) => y = Upto(log, o[q - 1])
  <2> SUFFICES ASSUME q - 1 \in 1 .. c, (q - 1) + 1 \in 1 .. c PROVE y = Upto(log, o[q - 1])
    BY <1>2, <1>4
  <2>1. Upto(log, o[(q - 1) + 1] - 1) = Upto(log, o[q - 1])
    BY KeptBetween
  <2>2. QED
    BY <1>4, <2>1
<1>6. /\ b.state = [a.state EXCEPT ![r.key] = r.id] /\ b.v = r.v
      /\ b.m = IF r.m = NoTime THEN a.m ELSE r.m
      /\ z.state = [y.state EXCEPT ![r.key] = r.id] /\ z.v = r.v
      /\ z.m = IF r.m = NoTime THEN y.m ELSE r.m
  BY <1>1 DEF Apply
<1>7. /\ \A k \in Keys : b.state[k] = IF k = r.key THEN r.id ELSE a.state[k]
      /\ \A k \in Keys : z.state[k] = IF k = r.key THEN r.id ELSE y.state[k]
  BY <1>3, <1>6 DEF Meanings
<1>8. /\ \A k \in Keys : (\A i \in 1 .. (q - 1) : log[o[i]].key # k)
                           => a.state[k] = Upto(log, j).state[k]
      /\ \A k \in Keys : (\E i \in 1 .. (q - 1) : log[o[i]].key = k)
                           => a.state[k] = Upto(log, o[q - 1]).state[k]
      /\ (\A i \in 1 .. (q - 1) : log[o[i]].m = NoTime) => a.m = Upto(log, j).m
      /\ (\E i \in 1 .. (q - 1) : log[o[i]].m # NoTime) => a.m = Upto(log, o[q - 1]).m
  BY <1>4 DEF Agrees
<1> HIDE DEF a, b, y, z
<1>9. ASSUME NEW k \in Keys, \A i \in 1 .. q : log[o[i]].key # k
      PROVE  b.state[k] = Upto(log, j).state[k]
  BY <1>4, <1>7, <1>8, <1>9
<1>10. ASSUME NEW k \in Keys, \E i \in 1 .. q : log[o[i]].key = k
       PROVE  b.state[k] = z.state[k]
  <2>1. CASE k = r.key
    BY <1>7, <2>1
  <2>2. CASE k # r.key
    <3>1. \E i \in 1 .. (q - 1) : log[o[i]].key = k
      BY <1>4, <1>10, <2>2
    <3>2. QED
      BY <1>5, <1>7, <1>8, <2>2, <3>1
  <2>3. QED
    BY <2>1, <2>2
<1>11. (\A i \in 1 .. q : log[o[i]].m = NoTime) => b.m = Upto(log, j).m
  BY <1>4, <1>6, <1>8
<1>12. (\E i \in 1 .. q : log[o[i]].m # NoTime) => b.m = z.m
  <2>1. CASE r.m # NoTime
    BY <1>6, <2>1
  <2>2. CASE r.m = NoTime
    <3> SUFFICES ASSUME \E i \in 1 .. q : log[o[i]].m # NoTime PROVE b.m = z.m
      OBVIOUS
    <3>1. \E i \in 1 .. (q - 1) : log[o[i]].m # NoTime
      BY <1>4, <2>2
    <3>2. QED
      BY <1>5, <1>6, <1>8, <2>2, <3>1
  <2>3. QED
    BY <2>1, <2>2
<1>13. b.v = z.v
  BY <1>6
<1>14. QED
  BY <1>9, <1>10, <1>11, <1>12, <1>13 DEF Agrees, b, z

LEMMA AgreesAll ==
  ASSUME NEW log, NEW new, NEW j, NEW o, NEW c, Rewrites(log, new, j, o, c), NEW q \in 0 .. c
  PROVE  Agrees(log, new, j, o, q)
<1> DEFINE Bad == {i \in 0 .. c : ~ Agrees(log, new, j, o, i)}
<1>1. SUFFICES ASSUME Bad # {} PROVE FALSE
  OBVIOUS
<1>2. PICK i \in Bad : \A p \in Bad : i <= p
  <2>1. Bad \in SUBSET Nat
    OBVIOUS
  <2> HIDE DEF Bad
  <2>2. QED
    BY <1>1, <2>1, Replays!LeastNumber
<1>3. i \in 0 .. c /\ ~ Agrees(log, new, j, o, i)
  OBVIOUS
<1>4. i # 0
  <2>1. Upto(new, 0 + 1) = Upto(log, j)
    BY Leads
  <2>2. Agrees(log, new, j, o, 0)
    BY <2>1 DEF Agrees
  <2>3. QED
    BY <1>3, <2>2
<1>5. i \in 1 .. c /\ i - 1 \in 0 .. c /\ ~(i <= i - 1)
  <2>1. c \in Nat
    BY DEF Rewrites
  <2>2. QED
    BY <1>3, <1>4, <2>1
<1>6. Agrees(log, new, j, o, i - 1)
  BY <1>2, <1>5
<1>7. QED
  BY <1>3, <1>5, <1>6, AgreesStep

(* Where log left off, the rest of the kept changes is in new; so both     *)
(* mean the same at the end,                                               *)
LEMMA SameEnd ==
  ASSUME NEW log, NEW new, NEW j, NEW o, NEW c, Rewrites(log, new, j, o, c)
  PROVE  Upto(new, c + 1) = Upto(log, Len(log))
<1> DEFINE n == Len(log)
           a == Upto(new, c + 1)
           z == Upto(log, n)
<1>1. /\ log \in Seq(Record) /\ new \in Seq(Record) /\ Exact(log) /\ c \in Nat /\ c + 1 <= Len(new)
      /\ n \in Nat /\ j \in 1 .. n /\ n \in 1 .. n /\ c \in 0 .. c
  BY DEF Rewrites
<1>2. a \in Meanings /\ z \in Meanings
  <2>1. c + 1 \in 0 .. Len(new) /\ n \in 0 .. Len(log)
    BY <1>1
  <2>2. QED
    BY <1>1, <2>1, UptoType
<1>3. Agrees(log, new, j, o, c)
  BY <1>1, AgreesAll
<1>4. Stays(log, j, n)
  BY <1>1, StaysAll
<1>5. \A i \in Changes(log) : j < i => \E q \in 1 .. c : o[q] = i
  <2> SUFFICES ASSUME NEW i \in Changes(log), j < i PROVE \E q \in 1 .. c : o[q] = i
    OBVIOUS
  <2>1. i \in Int /\ ~ (i <= j)
    BY <1>1 DEF Changes
  <2>2. QED
    BY <2>1 DEF Rewrites
<1>6. CASE c = 0
  <2>1. \A i \in Changes(log) : ~(j < i /\ i <= n)
    BY <1>5, <1>6
  <2>2. Upto(new, c + 1) = Upto(log, j)
    BY <1>6, Leads
  <2>3. QED
    BY <1>4, <2>1, <2>2 DEF Stays
<1>7. CASE c # 0
  <2> DEFINE l == o[c]
             y == Upto(log, l)
  <2>1. c \in 1 .. c /\ l \in 1 .. n
    BY <1>1, <1>7, Kept
  <2> HIDE DEF l
  <2>2. \A i \in Changes(log) : ~(l < i /\ i <= n)
    <3> SUFFICES ASSUME NEW i \in Changes(log), l < i PROVE FALSE
      OBVIOUS
    <3>1. i \in Int
      BY <1>1 DEF Changes
    <3>2. PICK q \in 1 .. c : o[q] = i
      <4>1. (\E q \in 1 .. c : o[q] = i) \/ \A q \in 1 .. c : i < o[q]
        BY DEF Rewrites
      <4>2. ~ (i < o[c])
        BY <2>1, <3>1 DEF l
      <4>3. QED
        BY <2>1, <4>1, <4>2
    <3>3. q < c
      BY <2>1, <3>1, <3>2 DEF l
    <3>4. o[q] < o[c]
      BY <2>1, <3>3 DEF Rewrites
    <3>5. QED
      BY <2>1, <3>1, <3>2, <3>4 DEF l
  <2>3. y = z
    <3>1. Stays(log, l, n)
      BY <1>1, <2>1, StaysAll
    <3>2. QED
      BY <2>2, <3>1 DEF Stays
  <2>4. \A k \in Keys : a.state[k] = z.state[k]
    <3> TAKE k \in Keys
    <3>1. CASE \E i \in 1 .. c : log[o[i]].key = k
      BY <1>3, <2>3, <3>1 DEF Agrees, l
    <3>2. CASE \A i \in 1 .. c : log[o[i]].key # k
      <4>1. \A i \in Changes(log) : j < i /\ i <= n => log[i].key # k
        BY <1>5, <3>2
      <4>2. Upto(log, n).state[k] = Upto(log, j).state[k]
        BY <1>4, <4>1 DEF Stays
      <4>3. QED
        BY <1>3, <3>2, <4>2 DEF Agrees
    <3>3. QED
      BY <3>1, <3>2
  <2>5. a.m = z.m
    <3>1. CASE \E i \in 1 .. c : log[o[i]].m # NoTime
      BY <1>3, <2>3, <3>1 DEF Agrees, l
    <3>2. CASE \A i \in 1 .. c : log[o[i]].m = NoTime
      <4>1. \A i \in Changes(log) : j < i /\ i <= n => log[i].m = NoTime
        BY <1>5, <3>2
      <4>2. Upto(log, n).m = Upto(log, j).m
        BY <1>4, <4>1 DEF Stays
      <4>3. QED
        BY <1>3, <3>2, <4>2 DEF Agrees
    <3>3. QED
      BY <3>1, <3>2
  <2>6. a.v = z.v
    BY <1>3, <2>1, <2>3 DEF Agrees, l
  <2> HIDE DEF a, z
  <2>7. a = z
    <3>1. a.state = z.state
      BY <1>2, <2>4 DEF Meanings
    <3>2. QED
      BY <1>2, <2>5, <2>6, <3>1 DEF Meanings
  <2>8. QED
    BY <2>7 DEF a, z
<1>8. QED
  BY <1>6, <1>7

(* whether or not a snapshot closes new, and its snapshots are exact.      *)
LEMMA SameMeaning ==
  ASSUME NEW log, NEW new, NEW j, NEW o, NEW c, Rewrites(log, new, j, o, c)
  PROVE  Meaning(new) = Meaning(log) /\ Exact(new)
<1>1. /\ log \in Seq(Record) /\ new \in Seq(Record) /\ c \in Nat
      /\ c + 1 <= Len(new) /\ Len(new) \in Nat
  BY DEF Rewrites
<1>2. Upto(new, c + 1) = Upto(log, Len(log))
  BY SameEnd
<1>3. Exact(new)
  <2> SUFFICES ASSUME NEW i \in Snapshots(new), i > 1
               PROVE  [state |-> new[i].state, v |-> new[i].v, m |-> new[i].m] = Upto(new, i - 1)
    BY DEF Exact
  <2>1. i \in 1 .. Len(new) /\ new[i].kind = "snapshot"
    BY <1>1 DEF Snapshots
  <2>2. i > c + 1
    <3> SUFFICES ASSUME i <= c + 1 PROVE FALSE
      BY <1>1, <2>1
    <3> DEFINE q == i - 1
    <3>1. q \in 1 .. c /\ q + 1 = i
      BY <1>1, <2>1
    <3>2. new[q + 1] = [log[o[q]] EXCEPT !.at = q]
      BY <3>1 DEF Rewrites
    <3>3. log[o[q]] \in Record /\ log[o[q]].kind = "change"
      BY <3>1, Kept
    <3>4. new[i].kind = "change"
      BY <3>1, <3>2, <3>3 DEF Record
    <3>5. QED
      BY <2>1, <3>4
  <2>3. /\ i = c + 2
        /\ [state |-> new[i].state, v |-> new[i].v, m |-> new[i].m] = Upto(log, Len(log))
    BY <2>1, <2>2 DEF Rewrites
  <2>4. i - 1 = c + 1
    BY <1>1, <2>3
  <2>5. QED
    BY <1>2, <2>3, <2>4
<1>4. Upto(new, Len(new)) = Upto(new, c + 1)
  <2>1. CASE Len(new) = c + 1
    BY <2>1
  <2>2. CASE Len(new) # c + 1
    <3>1. Len(new) \in 1 .. Len(new) /\ Len(new) > c + 1
      BY <1>1, <2>2
    <3>2. Len(new) = c + 2 /\ new[Len(new)].kind = "snapshot"
      BY <3>1 DEF Rewrites
    <3>3. Len(new) \in Snapshots(new) /\ Len(new) > 1 /\ Len(new) - 1 = c + 1
      BY <1>1, <3>1, <3>2 DEF Snapshots
    <3>4. QED
      BY <1>1, <1>3, <3>3, SnapshotStays
  <2>3. QED
    BY <2>1, <2>2
<1>5. QED
  BY <1>1, <1>2, <1>3, <1>4, UptoAll

(* If all kept changes lie behind j, new tells of each what log told.      *)
LEMMA SameOnTheWay ==
  ASSUME NEW log, NEW new, NEW j, NEW o, NEW c, Rewrites(log, new, j, o, c),
         \A q \in 1 .. c : j < o[q], NEW q \in 1 .. c
  PROVE  Upto(new, q + 1) = Upto(log, o[q]) /\ Upto(new, q) = Upto(log, o[q] - 1)
<1> DEFINE At(p) == Upto(new, p + 1) = Upto(log, o[p])
<1>1. /\ log \in Seq(Record) /\ new \in Seq(Record) /\ Exact(log) /\ c \in Nat /\ c + 1 <= Len(new)
      /\ j \in 1 .. Len(log) /\ Len(log) \in Nat
  BY DEF Rewrites
<1>2. ASSUME NEW p \in 1 .. c PROVE At(p)
  <2> DEFINE a == Upto(new, p + 1)
             z == Upto(log, o[p])
  <2>1. o[p] \in 1 .. Len(log) /\ j <= o[p] /\ p \in 0 .. c /\ p \in 1 .. p
    BY <1>1, Kept
  <2>2. a \in Meanings /\ z \in Meanings
    <3>1. p + 1 \in 0 .. Len(new) /\ o[p] \in 0 .. Len(log)
      BY <1>1, <2>1
    <3>2. QED
      BY <1>1, <3>1, UptoType
  <2>3. Agrees(log, new, j, o, p)
    BY <2>1, AgreesAll
  <2>4. Stays(log, j, o[p])
    BY <1>1, <2>1, StaysAll
  <2>5. \A i \in Changes(log) : j < i /\ i <= o[p] => \E h \in 1 .. p : o[h] = i
    <3> SUFFICES ASSUME NEW i \in Changes(log), j < i, i <= o[p] PROVE \E h \in 1 .. p : o[h] = i
      OBVIOUS
    <3>1. i \in Int /\ ~ (i <= j)
      BY <1>1 DEF Changes
    <3>2. PICK h \in 1 .. c : o[h] = i
      BY <3>1 DEF Rewrites
    <3>3. ~ (o[p] < o[h])
      BY <2>1, <3>1, <3>2
    <3>4. ~ (p < h)
      BY <3>3 DEF Rewrites
    <3>5. h \in 1 .. p
      BY <1>1, <3>4
    <3>6. QED
      BY <3>2, <3>5
  <2>6. \A k \in Keys : a.state[k] = z.state[k]
    <3> TAKE k \in Keys
    <3>1. CASE \E i \in 1 .. p : log[o[i]].key = k
      BY <2>3, <3>1 DEF Agrees
    <3>2. CASE \A i \in 1 .. p : log[o[i]].key # k
      <4>1. \A i \in Changes(log) : j < i /\ i <= o[p] => log[i].key # k
        BY <2>5, <3>2
      <4>2. Upto(log, o[p]).state[k] = Upto(log, j).state[k]
        BY <2>4, <4>1 DEF Stays
      <4>3. QED
        BY <2>3, <3>2, <4>2 DEF Agrees
    <3>3. QED
      BY <3>1, <3>2
  <2>7. a.m = z.m
    <3>1. CASE \E i \in 1 .. p : log[o[i]].m # NoTime
      BY <2>3, <3>1 DEF Agrees
    <3>2. CASE \A i \in 1 .. p : log[o[i]].m = NoTime
      <4>1. \A i \in Changes(log) : j < i /\ i <= o[p] => log[i].m = NoTime
        BY <2>5, <3>2
      <4>2. Upto(log, o[p]).m = Upto(log, j).m
        BY <2>4, <4>1 DEF Stays
      <4>3. QED
        BY <2>3, <3>2, <4>2 DEF Agrees
    <3>3. QED
      BY <3>1, <3>2
  <2>8. a.v = z.v
    BY <2>3 DEF Agrees
  <2> HIDE DEF a, z
  <2>9. a = z
    <3>1. a.state = z.state
      BY <2>2, <2>6 DEF Meanings
    <3>2. QED
      BY <2>2, <2>7, <2>8, <3>1 DEF Meanings
  <2>10. QED
    BY <2>9 DEF a, z
<1>3. Upto(new, q) = Upto(log, o[q] - 1)
  <2>1. CASE q = 1
    <3>1. Upto(new, 1) = Upto(log, j)
      BY Leads
    <3>2. o[1] \in 1 .. Len(log) /\ j < o[1] /\ 1 \in 1 .. c
      BY <2>1, Kept
    <3>3. o[1] - 1 \in 1 .. Len(log) /\ j <= o[1] - 1
      BY <1>1, <3>2
    <3>4. \A i \in Changes(log) : ~(j < i /\ i <= o[1] - 1)
      <4> SUFFICES ASSUME NEW i \in Changes(log), j < i, i <= o[1] - 1 PROVE FALSE
        OBVIOUS
      <4>1. i \in Int /\ ~ (i <= j)
        BY <1>1 DEF Changes
      <4>2. PICK h \in 1 .. c : o[h] = i
        BY <4>1 DEF Rewrites
      <4>3. h # 1
        BY <3>2, <4>1, <4>2
      <4>4. 1 < h
        BY <1>1, <4>3
      <4>5. o[1] < o[h]
        BY <3>2, <4>4 DEF Rewrites
      <4>6. QED
        BY <3>2, <4>1, <4>2, <4>5
    <3>5. Stays(log, j, o[1] - 1)
      BY <1>1, <3>3, StaysAll
    <3>6. QED
      BY <2>1, <3>1, <3>4, <3>5 DEF Stays
  <2>2. CASE q # 1
    <3> DEFINE p == q - 1
    <3>1. p \in 1 .. c /\ p + 1 \in 1 .. c /\ p + 1 = q
      BY <1>1, <2>2
    <3>2. At(p)
      BY <1>2, <3>1
    <3>3. Upto(log, o[p + 1] - 1) = Upto(log, o[p])
      BY <3>1, KeptBetween
    <3>4. QED
      BY <3>1, <3>2, <3>3
  <2>3. QED
    BY <2>1, <2>2
<1>4. QED
  BY <1>2, <1>3

-----------------------------------------------------------------------------
(* What plan_rotation builds *)

(* The records of a log are in the order of their times, none is of the    *)
(* future;                                                                 *)
InTime(log, now) ==
  /\ \A i, j \in 1 .. Len(log) : i < j => log[i].ts <= log[j].ts
  /\ \A i \in 1 .. Len(log) : log[i].ts <= now

LEMMA DroppedIs ==
  ASSUME NEW log \in Seq(Record), NEW cutoff \in Int, Dropped(log, cutoff) # {}
  PROVE  /\ Max(Dropped(log, cutoff)) \in Dropped(log, cutoff)
         /\ \A i \in Dropped(log, cutoff) : i <= Max(Dropped(log, cutoff)) /\ i <= LastDropped(log, cutoff)
         /\ LastDropped(log, cutoff) \in 1 .. Len(log)
         /\ LastDropped(log, cutoff) \in Dropped(log, cutoff) \cup {Base(log, cutoff)}
         /\ Base(log, cutoff) <= LastDropped(log, cutoff)
<1> DEFINE D == Dropped(log, cutoff)
           b == Base(log, cutoff)
<1>1. D \in SUBSET (1 .. Len(log)) /\ Len(log) \in Nat
  BY DEF Dropped, Changes
<1>2. b \in 0 .. Len(log)
  BY BaseIs
<1> HIDE DEF D, b
<1>3. D \in SUBSET (0 .. Len(log)) /\ D \cup {b} \in SUBSET (0 .. Len(log)) /\ D \cup {b} # {} /\ D # {}
  <2>1. \A i \in D : i \in 0 .. Len(log)
    BY <1>1
  <2>2. QED
    BY <1>2, <2>1 DEF D
<1>4. Max(D) \in D /\ \A i \in D : i <= Max(D)
  BY <1>1, <1>3, MaxIs
<1>5. Max(D \cup {b}) \in D \cup {b} /\ \A i \in D \cup {b} : i <= Max(D \cup {b})
  BY <1>1, <1>3, MaxIs
<1>6. LastDropped(log, cutoff) = Max(D \cup {b})
  BY DEF LastDropped, D, b
<1>7. Max(D \cup {b}) \in 1 .. Len(log)
  <2>1. Max(D \cup {b}) \in 0 .. Len(log) /\ \E i \in D : i \in 1 .. Len(log) /\ i <= Max(D \cup {b})
    BY <1>1, <1>3, <1>5
  <2>2. QED
    BY <1>1, <2>1
<1>8. QED
  BY <1>4, <1>5, <1>6, <1>7 DEF D, b

(* The closing snapshot holds the state at the end. *)
LEMMA ClosingIs ==
  ASSUME NEW log \in Seq(Record), Exact(log), NEW cutoff \in Int, Dropped(log, cutoff) # {}
  PROVE  LET last == After(log, cutoff, Max(Changes(log) \cup {Base(log, cutoff)}))
         IN  [last EXCEPT !.state = After(log, cutoff, Len(log)).state] = Upto(log, Len(log))
<1> DEFINE b == Base(log, cutoff)
           S == Changes(log) \cup {b}
           p == Max(S)
           n == Len(log)
<1>1. n \in Nat /\ b \in 0 .. n /\ Changes(log) \in SUBSET (1 .. n) /\ Dropped(log, cutoff) \in SUBSET Changes(log)
  <2>1. b \in 0 .. n
    BY BaseIs
  <2>2. Changes(log) \in SUBSET (1 .. n) /\ n \in Nat
    BY DEF Changes
  <2>3. Dropped(log, cutoff) \in SUBSET Changes(log)
    BY DEF Dropped
  <2>4. QED
    BY <2>1, <2>2, <2>3
<1>2. S \in SUBSET (0 .. n) /\ S # {} /\ \E i \in S : i >= 1
  <2>1. \A i \in Changes(log) : i \in 0 .. n /\ i >= 1
    BY <1>1
  <2>2. PICK i \in Dropped(log, cutoff) : TRUE
    OBVIOUS
  <2>3. i \in Changes(log)
    BY <1>1, <2>2
  <2> HIDE DEF b
  <2>4. QED
    BY <1>1, <2>1, <2>3
<1> HIDE DEF S
<1>3. p \in S /\ \A i \in S : i <= p
  BY <1>1, <1>2, MaxIs
<1> HIDE DEF p
<1>4. p \in 1 .. n /\ b <= p /\ b <= n /\ n \in 1 .. n
  <2>1. p \in 0 .. n /\ p >= 1
    BY <1>1, <1>2, <1>3
  <2>2. b <= p
    BY <1>3 DEF S
  <2>3. QED
    BY <1>1, <2>1, <2>2
<1>5. p \in 0 .. n /\ n \in 0 .. n /\ p <= n
  BY <1>1, <1>4
<1>6. After(log, cutoff, p) = Upto(log, p) /\ After(log, cutoff, n) = Upto(log, n)
  BY <1>4, <1>5, AfterIs
<1>7. Upto(log, n) = Upto(log, p)
  <2>1. \A i \in Changes(log) : ~(p < i /\ i <= n)
    <3>1. \A i \in Changes(log) : i \in Int /\ i <= p
      BY <1>1, <1>3 DEF S
    <3>2. QED
      BY <1>4, <3>1
  <2>2. Stays(log, p, n)
    BY <1>4, <1>5, StaysAll
  <2>3. QED
    BY <2>1, <2>2 DEF Stays
<1>8. Upto(log, n) \in Meanings
  BY <1>5, UptoType
<1>9. [Upto(log, n) EXCEPT !.state = Upto(log, n).state] = Upto(log, n)
  BY <1>8 DEF Meanings
<1>10. QED
  BY <1>6, <1>7, <1>9 DEF p, S

(* The content in parts: the leading snapshot, the retained changes, and,  *)
(* if these are many, the closing snapshot; each framed for its offset.    *)
Parts(log, new, cutoff, now, o, c) ==
  LET lead == SnapshotRecord(Upto(log, LastDropped(log, cutoff)), log[Max(Dropped(log, cutoff))].ts, 0)
  IN /\ new \in Seq(Record) /\ c + 1 <= Len(new) /\ Len(new) <= c + 2
     /\ new[1] = lead
     /\ \A q \in 1 .. c : new[q + 1] = [log[o[q]] EXCEPT !.at = q]
     /\ Len(new) = c + 2 => new[c + 2] = SnapshotRecord(Upto(log, Len(log)), now, c + 1)

LEMMA SnapshotType ==
  ASSUME NEW a \in Meanings, NEW ts \in Int, NEW at \in Int
  PROVE  /\ SnapshotRecord(a, ts, at) \in Record
         /\ \A x \in Int : [SnapshotRecord(a, ts, at) EXCEPT !.at = x] = SnapshotRecord(a, ts, x)
BY DEF SnapshotRecord, Record, Meanings

LEMMA OffsetType ==
  ASSUME NEW r \in Record, NEW x \in Int
  PROVE  [r EXCEPT !.at = x] \in Record
BY DEF Record

LEMMA LastOfConcat ==
  ASSUME NEW f \in Seq(Record), NEW t \in Seq(Record), Len(t) = 1
  PROVE  (f \o t)[Len(f) + 1] = t[1]
<1>1. Len(f) \in Nat
  OBVIOUS
<1>2. \A i \in 1 .. (Len(f) + Len(t)) : (f \o t)[i] = IF i <= Len(f) THEN f[i] ELSE t[i - Len(f)]
  BY ConcatProperties
<1>3. Len(f) + 1 \in 1 .. (Len(f) + Len(t)) /\ ~(Len(f) + 1 <= Len(f)) /\ (Len(f) + 1) - Len(f) = 1
  BY <1>1
<1>4. QED
  BY <1>2, <1>3

LEMMA PartsAre ==
  ASSUME NEW log \in Seq(Record), Exact(log), NEW cutoff \in Int, NEW now \in Int, Dropped(log, cutoff) # {}
  PROVE  \E o : /\ Picks(log, Retained(log, cutoff), o)
                /\ Cardinality(Retained(log, cutoff)) \in Nat
                /\ Parts(log, NewContent(log, cutoff, now), cutoff, now, o, Cardinality(Retained(log, cutoff)))
<1> DEFINE kept == Retained(log, cutoff)
           c == Cardinality(kept)
           j == LastDropped(log, cutoff)
           n == Len(log)
           lead == SnapshotRecord(Upto(log, j), log[Max(Dropped(log, cutoff))].ts, 0)
           last == SnapshotRecord(Upto(log, n), now, 0)
           sel == Select(log, kept)
           tail == IF c >= MinDiffs THEN <<last>> ELSE <<>>
           recs == <<lead>> \o sel \o tail
           new == NewContent(log, cutoff, now)
<1>1. kept \in SUBSET (1 .. n) /\ n \in Nat /\ \A i \in 1 .. n : log[i] \in Record
  BY DEF Retained, Changes
<1>2. c \in Nat /\ \E o : Picks(log, kept, o)
  <2> HIDE DEF kept
  <2>1. QED
    BY <1>1, SelectIs
<1>3. PICK o : Picks(log, kept, o)
  BY <1>2
<1>4. j \in 0 .. n /\ Base(log, cutoff) <= j /\ Max(Dropped(log, cutoff)) \in 1 .. n
  <2>1. j \in 1 .. n /\ Base(log, cutoff) <= j
    BY DroppedIs
  <2>2. Max(Dropped(log, cutoff)) \in Dropped(log, cutoff)
    BY DroppedIs
  <2>3. Dropped(log, cutoff) \subseteq 1 .. n
    BY DEF Dropped, Changes
  <2>4. QED
    BY <1>1, <2>1, <2>2, <2>3
<1>5. lead \in Record /\ last \in Record
  <2>1. Upto(log, j) \in Meanings /\ Upto(log, n) \in Meanings
    BY <1>1, <1>4, UptoType
  <2>2. log[Max(Dropped(log, cutoff))].ts \in Int
    BY <1>1, <1>4 DEF Record
  <2>3. QED
    BY <2>1, <2>2, SnapshotType
<1>6. sel = [i \in 1 .. c |-> log[o[i]]] /\ \A i \in 1 .. c : o[i] \in 1 .. n
  BY <1>1, <1>3 DEF Picks, Ascends
<1>7. new = Framed(recs)
  <2>1. Leading(log, cutoff) = lead
    BY <1>4, AfterIs DEF Leading
  <2>2. NewContent(log, cutoff, now) = Framed(<<Leading(log, cutoff)>> \o sel \o tail)
    BY ClosingIs DEF NewContent
  <2>3. QED
    BY <2>1, <2>2
<1> HIDE DEF kept, c, lead, last, sel, new, j
<1>8. sel \in Seq(Record) /\ Len(sel) = c /\ \A i \in 1 .. c : sel[i] = log[o[i]]
  BY <1>1, <1>2, <1>6
<1>9. tail \in Seq(Record) /\ Len(tail) \in {0, 1} /\ (Len(tail) = 1 => tail[1] = last)
  BY <1>5
<1> HIDE DEF tail
<1> DEFINE front == <<lead>> \o sel
<1>10. front \in Seq(Record) /\ Len(front) = c + 1 /\ front[1] = lead /\ \A q \in 1 .. c : front[q + 1] = log[o[q]]
  <2>1. <<lead>> \in Seq(Record) /\ Len(<<lead>>) = 1 /\ <<lead>>[1] = lead
    BY <1>5
  <2>2. front \in Seq(Record) /\ Len(front) = c + 1
    BY <1>2, <1>8, <2>1
  <2>3. front[1] = lead
    BY <1>8, <2>1
  <2>4. \A q \in 1 .. c : front[q + 1] = sel[q]
    BY <1>2, <1>8, <2>1
  <2>5. QED
    BY <1>8, <2>2, <2>3, <2>4
<1> HIDE DEF front
<1>11. /\ recs \in Seq(Record) /\ Len(recs) = c + 1 + Len(tail)
       /\ \A i \in 1 .. (c + 1) : recs[i] = front[i]
       /\ Len(tail) = 1 => recs[c + 2] = last
  <2>1. recs = front \o tail
    BY DEF front
  <2> HIDE DEF recs
  <2>2. recs \in Seq(Record) /\ Len(recs) = c + 1 + Len(tail)
    <3>1. front \o tail \in Seq(Record)
      BY <1>9, <1>10
    <3>2. Len(front \o tail) = Len(front) + Len(tail)
      BY <1>9, <1>10
    <3>3. QED
      BY <1>10, <2>1, <3>1, <3>2
  <2>3. \A i \in 1 .. (c + 1) : recs[i] = front[i]
    BY <1>2, <1>9, <1>10, <2>1
  <2>4. Len(tail) = 1 => recs[c + 2] = tail[1]
    <3> SUFFICES ASSUME Len(tail) = 1 PROVE recs[c + 2] = tail[1]
      OBVIOUS
    <3>1. front \in Seq(Record) /\ Len(front) = c + 1
      BY <1>10
    <3>2. tail \in Seq(Record)
      BY <1>9
    <3>3. (front \o tail)[Len(front) + 1] = tail[1]
      BY <3>1, <3>2, LastOfConcat
    <3>4. c \in Nat
      BY <1>2
    <3>5. Len(front) + 1 = c + 2
      BY <3>1, <3>4
    <3>6. QED
      BY <2>1, <3>3, <3>5
  <2>5. QED
    BY <1>9, <2>2, <2>3, <2>4
<1> HIDE DEF recs
<1>12. /\ new \in Seq(Record) /\ Len(new) = Len(recs)
       /\ \A i \in 1 .. Len(recs) : new[i] = [recs[i] EXCEPT !.at = i - 1]
  <2>1. DOMAIN recs = 1 .. Len(recs) /\ \A i \in 1 .. Len(recs) : recs[i] \in Record
    BY <1>11
  <2>2. new = [i \in 1 .. Len(recs) |-> [recs[i] EXCEPT !.at = i - 1]]
    BY <1>7, <2>1 DEF Framed
  <2>3. \A i \in 1 .. Len(recs) : [recs[i] EXCEPT !.at = i - 1] \in Record
    BY <2>1, OffsetType
  <2>4. Len(recs) \in Nat
    BY <1>11
  <2>5. QED
    BY <2>2, <2>3, <2>4
<1>13. new[1] = lead
  <2>1. 1 \in 1 .. Len(recs) /\ recs[1] = lead
    BY <1>2, <1>9, <1>10, <1>11
  <2>2. new[1] = [lead EXCEPT !.at = 0]
    BY <1>12, <2>1
  <2>3. [lead EXCEPT !.at = 0] = lead
    BY DEF lead, SnapshotRecord
  <2>4. QED
    BY <2>2, <2>3
<1>14. \A q \in 1 .. c : new[q + 1] = [log[o[q]] EXCEPT !.at = q]
  <2> TAKE q \in 1 .. c
  <2>1. q + 1 \in 1 .. Len(recs) /\ (q + 1) - 1 = q /\ recs[q + 1] = log[o[q]]
    BY <1>2, <1>9, <1>10, <1>11
  <2>2. QED
    BY <1>12, <2>1
<1>15. Len(new) = c + 2 => new[c + 2] = SnapshotRecord(Upto(log, n), now, c + 1)
  <2> SUFFICES ASSUME Len(new) = c + 2 PROVE new[c + 2] = SnapshotRecord(Upto(log, n), now, c + 1)
    OBVIOUS
  <2>1. Len(tail) = 1
    BY <1>2, <1>9, <1>11, <1>12
  <2>2. c + 2 \in 1 .. Len(recs) /\ (c + 2) - 1 = c + 1 /\ recs[c + 2] = last
    BY <1>2, <1>11, <1>12, <2>1
  <2>3. new[c + 2] = [last EXCEPT !.at = c + 1]
    BY <1>12, <2>2
  <2>4. [last EXCEPT !.at = c + 1] = SnapshotRecord(Upto(log, n), now, c + 1)
    BY DEF last, SnapshotRecord
  <2>5. QED
    BY <2>3, <2>4
<1>16. Parts(log, new, cutoff, now, o, c)
  <2>1. c + 1 <= Len(new) /\ Len(new) <= c + 2
    <3>1. Len(new) = c + 1 + Len(tail)
      BY <1>11, <1>12
    <3>2. Len(tail) = 0 \/ Len(tail) = 1
      BY <1>9
    <3>3. c \in Nat
      BY <1>2
    <3>4. CASE Len(tail) = 0
      <4>1. Len(new) = c + 1
        BY <3>1, <3>3, <3>4
      <4>2. QED
        BY <3>3, <4>1
    <3>5. CASE Len(tail) = 1
      <4>1. Len(new) = c + 2
        BY <3>1, <3>3, <3>5
      <4>2. QED
        BY <3>3, <4>1
    <3>6. QED
      BY <3>2, <3>4, <3>5
  <2>2. QED
    BY <1>12, <1>13, <1>14, <1>15, <2>1 DEF Parts, lead, j
<1>17. QED
  BY <1>2, <1>3, <1>16 DEF kept, c, new

LEMMA FieldTypes ==
  ASSUME NEW log \in Seq(Record)
  PROVE  \A i \in 1 .. Len(log) :
           i \in Int /\ log[i] \in Record /\ log[i].ts \in Int /\ log[i].id \in Nat
<1> TAKE i \in 1 .. Len(log)
<1>1. i \in Int /\ log[i] \in Record
  OBVIOUS
<1>2. QED
  BY <1>1 DEF Record

(* A dropped change lies before every retained one. *)
LEMMA DroppedBefore ==
  ASSUME NEW log \in Seq(Record), NEW cutoff \in Int, NEW now, InTime(log, now),
         NEW i \in Dropped(log, cutoff), NEW k \in Retained(log, cutoff)
  PROVE  i < k /\ i \in 1 .. Len(log) /\ k \in 1 .. Len(log) /\ log[i].ts <= log[k].ts
<1>1. /\ i \in 1 .. Len(log) /\ k \in 1 .. Len(log) /\ i # k
      /\ log[i].ts < cutoff /\ ~(log[k].ts < cutoff)
  BY DEF Dropped, Retained, Changes
<1>2. log[i].ts \in Int /\ log[k].ts \in Int /\ i \in Int /\ k \in Int
  BY <1>1, FieldTypes
<1>3. ~(k < i)
  <2>1. k < i => log[k].ts <= log[i].ts
    BY <1>1 DEF InTime
  <2>2. QED
    BY <1>1, <1>2, <2>1
<1>4. i < k
  BY <1>1, <1>2, <1>3
<1>5. log[i].ts <= log[k].ts
  BY <1>1, <1>4 DEF InTime
<1>6. QED
  BY <1>1, <1>4, <1>5

(* Where the picked records come from: they are the retained changes. *)
LEMMA PickedAre ==
  ASSUME NEW log \in Seq(Record), NEW cutoff \in Int, NEW o,
         Picks(log, Retained(log, cutoff), o)
  PROVE  LET c == Cardinality(Retained(log, cutoff))
         IN  /\ o \in [1 .. c -> Changes(log)]
             /\ \A p, q \in 1 .. c : p < q => o[p] < o[q]
             /\ \A q \in 1 .. c : o[q] \in Retained(log, cutoff)
             /\ \A i \in Retained(log, cutoff) : \E q \in 1 .. c : o[q] = i
<1>1. Retained(log, cutoff) \subseteq Changes(log)
  BY DEF Retained
<1>2. QED
  BY <1>1 DEF Picks, Ascends

LEMMA PlanRewrites ==
  ASSUME NEW log \in Seq(Record), Exact(log), NEW cutoff \in Int, NEW now \in Int,
         InTime(log, now), Dropped(log, cutoff) # {},
         NEW new, NEW o, Picks(log, Retained(log, cutoff), o),
         NEW c, c = Cardinality(Retained(log, cutoff)), c \in Nat,
         Parts(log, new, cutoff, now, o, c)
  PROVE  Rewrites(log, new, LastDropped(log, cutoff), o, c)
<1> DEFINE j == LastDropped(log, cutoff)
<1>1. /\ o \in [1 .. c -> Changes(log)]
      /\ \A p, q \in 1 .. c : p < q => o[p] < o[q]
      /\ \A q \in 1 .. c : o[q] \in Retained(log, cutoff)
      /\ \A i \in Retained(log, cutoff) : \E q \in 1 .. c : o[q] = i
  BY PickedAre
<1>2. j \in 1 .. Len(log) /\ \A i \in Dropped(log, cutoff) : i <= j
  BY DroppedIs
<1>3. \A i \in Changes(log) : (\E q \in 1 .. c : o[q] = i) \/ (i <= j /\ \A q \in 1 .. c : i < o[q])
  <2> TAKE i \in Changes(log)
  <2>1. i \in Dropped(log, cutoff) \/ i \in Retained(log, cutoff)
    BY DEF Retained
  <2>2. CASE i \in Dropped(log, cutoff)
    <3>1. \A q \in 1 .. c : i < o[q]
      BY <1>1, <2>2, DroppedBefore
    <3>2. QED
      BY <1>2, <2>2, <3>1
  <2>3. QED
    BY <1>1, <2>1, <2>2
<1>4. Upto(log, j) \in Meanings /\ Upto(log, Len(log)) \in Meanings
  <2>1. j \in 0 .. Len(log) /\ Len(log) \in 0 .. Len(log)
    BY <1>2
  <2>2. QED
    BY <2>1, UptoType
<1>5. /\ new \in Seq(Record) /\ c + 1 <= Len(new) /\ Len(new) <= c + 2
      /\ \A q \in 1 .. c : new[q + 1] = [log[o[q]] EXCEPT !.at = q]
  BY DEF Parts
<1>6. new[1].kind = "snapshot" /\ [state |-> new[1].state, v |-> new[1].v, m |-> new[1].m] = Upto(log, j)
  <2>1. new[1] = SnapshotRecord(Upto(log, j), log[Max(Dropped(log, cutoff))].ts, 0)
    BY DEF Parts
  <2>2. QED
    BY <1>4, <2>1 DEF SnapshotRecord, Meanings
<1>7. ASSUME NEW i \in 1 .. Len(new), i > c + 1
      PROVE  /\ i = c + 2 /\ new[i].kind = "snapshot"
             /\ [state |-> new[i].state, v |-> new[i].v, m |-> new[i].m] = Upto(log, Len(log))
  <2>1. Len(new) \in Nat /\ i <= Len(new)
    BY <1>5
  <2>2. Len(new) = c + 2 /\ i = c + 2
    BY <1>5, <1>7, <2>1
  <2>3. new[c + 2] = SnapshotRecord(Upto(log, Len(log)), now, c + 1)
    BY <2>2 DEF Parts
  <2>4. QED
    BY <1>4, <2>2, <2>3 DEF SnapshotRecord, Meanings
<1>8. QED
  BY <1>1, <1>2, <1>3, <1>5, <1>6, <1>7 DEF Rewrites

(* the changes of a log are numbered in their order, up to n.              *)
Numbered(log, n) ==
  /\ \A i, j \in Changes(log) : i < j => log[i].id < log[j].id
  /\ \A i \in Changes(log) : log[i].id \in 1 .. n

(* What the program keeps true of the log. *)
Sound(log, now, n) == log \in Seq(Record) /\ Exact(log) /\ InTime(log, now) /\ Numbered(log, n)

(* What there is to know of the record at i of the new content. *)
Shaped(log, new, cutoff, now, o, c, i) ==
  \/ /\ i = 1 /\ new[i].kind = "snapshot" /\ new[i].at = i - 1
     /\ new[i].ts = log[Max(Dropped(log, cutoff))].ts
  \/ /\ i - 1 \in 1 .. c /\ new[i].kind = "change" /\ new[i].at = i - 1
     /\ new[i].ts = log[o[i - 1]].ts /\ new[i].id = log[o[i - 1]].id
  \/ /\ i = c + 2 /\ new[i].kind = "snapshot" /\ new[i].at = i - 1
     /\ new[i].ts = now

LEMMA ShapeIs ==
  ASSUME NEW log \in Seq(Record), NEW cutoff \in Int, NEW now \in Int,
         NEW new, NEW o, Picks(log, Retained(log, cutoff), o),
         NEW c, c = Cardinality(Retained(log, cutoff)), c \in Nat,
         Parts(log, new, cutoff, now, o, c)
  PROVE  \A i \in 1 .. Len(new) : Shaped(log, new, cutoff, now, o, c, i)
<1> TAKE i \in 1 .. Len(new)
<1>1. /\ new \in Seq(Record) /\ c + 1 <= Len(new) /\ Len(new) <= c + 2
      /\ \A q \in 1 .. c : new[q + 1] = [log[o[q]] EXCEPT !.at = q]
  BY DEF Parts
<1>2. Len(new) \in Nat /\ i \in Int /\ 1 <= i /\ i <= Len(new)
  BY <1>1
<1>3. CASE i = 1
  <2>1. new[1] = SnapshotRecord(Upto(log, LastDropped(log, cutoff)), log[Max(Dropped(log, cutoff))].ts, 0)
    BY DEF Parts
  <2>2. QED
    BY <1>3, <2>1 DEF Shaped, SnapshotRecord
<1>4. CASE i # 1 /\ i <= c + 1
  <2>1. i - 1 \in 1 .. c /\ (i - 1) + 1 = i
    BY <1>2, <1>4
  <2>2. new[i] = [log[o[i - 1]] EXCEPT !.at = i - 1]
    <3> DEFINE q == i - 1
    <3>1. q \in 1 .. c /\ q + 1 = i
      BY <2>1
    <3> HIDE DEF q
    <3>2. new[q + 1] = [log[o[q]] EXCEPT !.at = q]
      BY <1>1, <3>1
    <3>3. QED
      BY <3>1, <3>2 DEF q
  <2>3. o[i - 1] \in Changes(log)
    BY <2>1, PickedAre
  <2>4. log[o[i - 1]] \in Record /\ log[o[i - 1]].kind = "change"
    BY <2>3 DEF Changes
  <2>5. QED
    BY <2>1, <2>2, <2>4 DEF Shaped, Record
<1>5. CASE i > c + 1
  <2>1. Len(new) = c + 2 /\ i = c + 2
    BY <1>1, <1>2, <1>5
  <2>2. new[c + 2] = SnapshotRecord(Upto(log, Len(log)), now, c + 1)
    BY <2>1 DEF Parts
  <2>3. new[i] = SnapshotRecord(Upto(log, Len(log)), now, i - 1)
    <3>1. i - 1 = c + 1
      BY <2>1
    <3>2. QED
      BY <2>1, <2>2, <3>1
  <2>4. QED
    BY <2>1, <2>3 DEF Shaped, SnapshotRecord
<1>6. QED
  BY <1>2, <1>3, <1>4, <1>5

(* The new content is in the order of time, and no change in it is old.    *)
LEMMA NewInTime ==
  ASSUME NEW log \in Seq(Record), NEW cutoff \in Int, NEW now \in Int,
         InTime(log, now), Dropped(log, cutoff) # {},
         NEW new \in Seq(Record), NEW o, Picks(log, Retained(log, cutoff), o),
         NEW c, c = Cardinality(Retained(log, cutoff)), c \in Nat,
         \A i \in 1 .. Len(new) : Shaped(log, new, cutoff, now, o, c, i), Len(new) <= c + 2
  PROVE  InTime(new, now)
<1> DEFINE d == Max(Dropped(log, cutoff))
<1>1. d \in Dropped(log, cutoff) /\ d \in 1 .. Len(log)
  <2>1. d \in Dropped(log, cutoff)
    BY DroppedIs
  <2>2. QED
    BY <2>1 DEF Dropped, Changes
<1>2. \A q \in 1 .. c : /\ o[q] \in 1 .. Len(log) /\ log[d].ts <= log[o[q]].ts
  <2> TAKE q \in 1 .. c
  <2>1. o[q] \in Retained(log, cutoff)
    BY PickedAre
  <2>2. QED
    BY <1>1, <2>1, DroppedBefore
<1>3. \A p, q \in 1 .. c : p < q => log[o[p]].ts <= log[o[q]].ts
  <2>1. \A p, q \in 1 .. c : p < q => o[p] < o[q]
    BY PickedAre
  <2>2. QED
    BY <1>2, <2>1 DEF InTime
<1>4. log[d].ts <= now /\ \A q \in 1 .. c : log[o[q]].ts <= now
  BY <1>1, <1>2 DEF InTime
<1>5. \A i \in 1 .. Len(new) : new[i].ts <= now
  <2> TAKE i \in 1 .. Len(new)
  <2>1. Shaped(log, new, cutoff, now, o, c, i)
    OBVIOUS
  <2>2. QED
    BY <1>4, <2>1 DEF Shaped
<1> HIDE DEF d
<1>6. ASSUME NEW i \in 1 .. Len(new), NEW k \in 1 .. Len(new), i < k
      PROVE  new[i].ts <= new[k].ts
  <2>1. Shaped(log, new, cutoff, now, o, c, i) /\ Shaped(log, new, cutoff, now, o, c, k)
    OBVIOUS
  <2>2. i \in Int /\ k \in Int /\ 1 <= i /\ k <= c + 2
    <3>1. Len(new) \in Nat
      OBVIOUS
    <3>2. QED
      BY <3>1
  <2>3. k # 1 /\ i # c + 2
    BY <1>6, <2>2
  <2>4. CASE k = c + 2 /\ new[k].ts = now
    BY <1>5, <2>4
  <2>5. CASE k - 1 \in 1 .. c /\ new[k].ts = log[o[k - 1]].ts
    <3>1. CASE i = 1 /\ new[i].ts = log[d].ts
      BY <1>2, <2>5, <3>1
    <3>2. CASE i - 1 \in 1 .. c /\ new[i].ts = log[o[i - 1]].ts
      <4>1. i - 1 < k - 1
        BY <1>6, <2>2
      <4>2. QED
        BY <1>3, <2>5, <3>2, <4>1
    <3>3. QED
      BY <2>1, <2>3, <3>1, <3>2 DEF Shaped, d
  <2>6. QED
    BY <2>1, <2>3, <2>4, <2>5 DEF Shaped
<1>7. QED
  BY <1>5, <1>6 DEF InTime

(* Its changes are those that were retained, in their order. *)
LEMMA NewNumbered ==
  ASSUME NEW log \in Seq(Record), NEW n, Numbered(log, n), NEW cutoff \in Int, NEW now \in Int,
         NEW new \in Seq(Record), NEW o, Picks(log, Retained(log, cutoff), o),
         NEW c, c = Cardinality(Retained(log, cutoff)), c \in Nat, c + 1 <= Len(new),
         \A i \in 1 .. Len(new) : Shaped(log, new, cutoff, now, o, c, i)
  PROVE  /\ Numbered(new, n)
         /\ Ids(new) = {log[i].id : i \in Retained(log, cutoff)}
         /\ Dropped(new, cutoff) = {}
         /\ \A i \in Changes(new) : i - 1 \in 1 .. c /\ new[i].id = log[o[i - 1]].id
<1>1. \A i \in Changes(new) :
        /\ i \in 1 .. Len(new) /\ i - 1 \in 1 .. c
        /\ new[i].ts = log[o[i - 1]].ts /\ new[i].id = log[o[i - 1]].id
  <2> TAKE i \in Changes(new)
  <2>1. i \in 1 .. Len(new) /\ new[i].kind = "change"
    BY DEF Changes
  <2>2. Shaped(log, new, cutoff, now, o, c, i)
    BY <2>1
  <2>3. QED
    BY <2>1, <2>2 DEF Shaped
<1>2. \A q \in 1 .. c : q + 1 \in Changes(new) /\ new[q + 1].id = log[o[q]].id
  <2> TAKE q \in 1 .. c
  <2>1. q + 1 \in 1 .. Len(new) /\ (q + 1) - 1 = q /\ q + 1 # 1 /\ q + 1 # c + 2
    <3>1. Len(new) \in Nat
      OBVIOUS
    <3>2. QED
      BY <3>1
  <2>2. Shaped(log, new, cutoff, now, o, c, q + 1)
    BY <2>1
  <2>3. DOMAIN new = 1 .. Len(new)
    OBVIOUS
  <2>4. QED
    BY <2>1, <2>2, <2>3 DEF Shaped, Changes
<1>3. /\ \A p, q \in 1 .. c : p < q => o[p] < o[q]
      /\ \A q \in 1 .. c : o[q] \in Retained(log, cutoff) /\ o[q] \in Changes(log)
      /\ \A i \in Retained(log, cutoff) : \E q \in 1 .. c : o[q] = i
  BY PickedAre
<1>4. Numbered(new, n)
  <2>1. ASSUME NEW i \in Changes(new), NEW k \in Changes(new), i < k PROVE new[i].id < new[k].id
    <3>1. i - 1 < k - 1 /\ i - 1 \in 1 .. c /\ k - 1 \in 1 .. c
      <4>1. i \in Int /\ k \in Int
        BY <1>1
      <4>2. QED
        BY <1>1, <2>1, <4>1
    <3>2. o[i - 1] < o[k - 1] /\ o[i - 1] \in Changes(log) /\ o[k - 1] \in Changes(log)
      BY <1>3, <3>1
    <3>3. log[o[i - 1]].id < log[o[k - 1]].id
      BY <3>2 DEF Numbered
    <3>4. QED
      BY <1>1, <3>3
  <2>2. \A i \in Changes(new) : new[i].id \in 1 .. n
    BY <1>1, <1>3 DEF Numbered
  <2>3. QED
    BY <2>1, <2>2 DEF Numbered
<1>5. Ids(new) = {log[i].id : i \in Retained(log, cutoff)}
  <2>1. \A i \in Changes(new) : \E k \in Retained(log, cutoff) : new[i].id = log[k].id
    BY <1>1, <1>3
  <2>2. \A k \in Retained(log, cutoff) : \E i \in Changes(new) : new[i].id = log[k].id
    <3> TAKE k \in Retained(log, cutoff)
    <3>1. PICK q \in 1 .. c : o[q] = k
      BY <1>3
    <3>2. QED
      BY <1>2, <3>1
  <2>3. QED
    BY <2>1, <2>2 DEF Ids
<1>6. Dropped(new, cutoff) = {}
  <2>1. \A k \in Retained(log, cutoff) : ~(log[k].ts < cutoff)
    BY DEF Retained, Dropped
  <2>2. \A i \in Changes(new) : ~(new[i].ts < cutoff)
    BY <1>1, <1>3, <2>1
  <2>3. QED
    BY <2>2 DEF Dropped
<1>7. QED
  BY <1>1, <1>4, <1>5, <1>6

LEMMA NewIs ==
  ASSUME NEW log, NEW now \in Int, NEW n, Sound(log, now, n), NEW cutoff \in Int,
         Dropped(log, cutoff) # {}
  PROVE  /\ Sound(NewContent(log, cutoff, now), now, n)
         /\ Meaning(NewContent(log, cutoff, now)) = Meaning(log)
         /\ Len(NewContent(log, cutoff, now)) >= 1
         /\ Ids(NewContent(log, cutoff, now)) = {log[i].id : i \in Retained(log, cutoff)}
         /\ Dropped(NewContent(log, cutoff, now), cutoff) = {}
         /\ \A i \in 1 .. Len(NewContent(log, cutoff, now)) : NewContent(log, cutoff, now)[i].at = i - 1
         /\ NewContent(log, cutoff, now)[1].ts = log[Max(Dropped(log, cutoff))].ts
         /\ Upto(NewContent(log, cutoff, now), 1) = Upto(log, LastDropped(log, cutoff))
<1> DEFINE new == NewContent(log, cutoff, now)
           c == Cardinality(Retained(log, cutoff))
<1>1. log \in Seq(Record) /\ Exact(log) /\ InTime(log, now) /\ Numbered(log, n)
  BY DEF Sound
<1>2. PICK o : Picks(log, Retained(log, cutoff), o) /\ c \in Nat /\ Parts(log, new, cutoff, now, o, c)
  BY <1>1, PartsAre
<1> HIDE DEF new, c
<1>3. c = Cardinality(Retained(log, cutoff)) /\ c \in Nat /\ Picks(log, Retained(log, cutoff), o)
  BY <1>2 DEF c
<1>4. Rewrites(log, new, LastDropped(log, cutoff), o, c)
  BY <1>1, <1>2, <1>3, PlanRewrites
<1>5. \A i \in 1 .. Len(new) : Shaped(log, new, cutoff, now, o, c, i)
  BY <1>1, <1>2, <1>3, ShapeIs
<1>6. new \in Seq(Record) /\ c + 1 <= Len(new) /\ Len(new) <= c + 2
  BY <1>2 DEF Parts
<1>7. InTime(new, now)
  BY <1>1, <1>3, <1>5, <1>6, NewInTime
<1>8. /\ Numbered(new, n)
      /\ Ids(new) = {log[i].id : i \in Retained(log, cutoff)}
      /\ Dropped(new, cutoff) = {}
  BY <1>1, <1>3, <1>5, <1>6, NewNumbered
<1>9. Meaning(new) = Meaning(log) /\ Exact(new)
  BY <1>4, SameMeaning
<1>10. Len(new) >= 1
  BY <1>3, <1>6
<1>11. \A i \in 1 .. Len(new) : new[i].at = i - 1
  BY <1>5 DEF Shaped
<1>12. new[1].ts = log[Max(Dropped(log, cutoff))].ts
  BY <1>2 DEF Parts, SnapshotRecord
<1>13. Upto(new, 1) = Upto(log, LastDropped(log, cutoff))
  BY <1>4, Leads
<1>14. QED
  BY <1>6, <1>7, <1>8, <1>9, <1>10, <1>11, <1>12, <1>13 DEF Sound, new

(* A change and a later snapshot on the cutoff. *)
TieAt(log, cutoff) ==
  \E i \in Changes(log), j \in Snapshots(log) : i < j /\ log[i].ts = cutoff /\ log[j].ts = cutoff

(* Without a tie the state of the leading snapshot is one that lies before *)
(* every retained change.                                                  *)
LEMMA LastBefore ==
  ASSUME NEW log \in Seq(Record), NEW cutoff \in Int, NEW now \in Int, InTime(log, now),
         Dropped(log, cutoff) # {}, ~TieAt(log, cutoff), NEW k \in Retained(log, cutoff)
  PROVE  LastDropped(log, cutoff) < k
<1> DEFINE j == LastDropped(log, cutoff)
           b == Base(log, cutoff)
<1>1. j \in Dropped(log, cutoff) \cup {b} /\ j \in 1 .. Len(log)
  BY DroppedIs
<1>2. CASE j \in Dropped(log, cutoff)
  BY <1>2, DroppedBefore
<1>3. CASE j = b
  <2>1. b # 0
    BY <1>1, <1>3
  <2>2. b \in Snapshots(log) /\ log[b].ts <= cutoff
    <3> DEFINE S == {0} \cup {i \in Snapshots(log) : log[i].ts <= cutoff}
    <3>1. S \in SUBSET (0 .. Len(log)) /\ S # {} /\ Len(log) \in Nat
      BY DEF Snapshots
    <3> HIDE DEF S
    <3>2. Max(S) \in S
      BY <3>1, MaxIs
    <3>3. b = Max(S)
      BY DEF Base, S
    <3>4. QED
      BY <2>1, <3>2, <3>3 DEF S
  <2>3. /\ k \in Changes(log) /\ k \in 1 .. Len(log) /\ ~(log[k].ts < cutoff)
        /\ b \in 1 .. Len(log) /\ k # b
    BY <2>2 DEF Retained, Dropped, Changes, Snapshots
  <2>4. k \in Int /\ b \in Int /\ log[k].ts \in Int /\ log[b].ts \in Int
    BY <2>3, FieldTypes
  <2>5. ~(k < b)
    <3>1. SUFFICES ASSUME k < b PROVE FALSE
      OBVIOUS
    <3>2. log[k].ts <= log[b].ts
      BY <2>3, <3>1 DEF InTime
    <3>3. log[k].ts = cutoff /\ log[b].ts = cutoff
      BY <2>2, <2>3, <2>4, <3>2
    <3>4. QED
      BY <2>2, <2>3, <3>1, <3>3 DEF TieAt
  <2>6. b < k
    BY <2>3, <2>4, <2>5
  <2>7. QED
    BY <1>3, <2>6
<1>4. QED
  BY <1>1, <1>2, <1>3

(* Around every change that stays the rewritten log means what the old one *)
(* meant.                                                                  *)
LEMMA NewOnTheWay ==
  ASSUME NEW log, NEW now \in Int, NEW n, Sound(log, now, n), NEW cutoff \in Int,
         Dropped(log, cutoff) # {}, ~TieAt(log, cutoff),
         NEW i \in Changes(NewContent(log, cutoff, now))
  PROVE  \E k \in Changes(log) :
           /\ NewContent(log, cutoff, now)[i].id = log[k].id
           /\ Upto(NewContent(log, cutoff, now), i) = Upto(log, k)
           /\ Upto(NewContent(log, cutoff, now), i - 1) = Upto(log, k - 1)
<1> DEFINE new == NewContent(log, cutoff, now)
           c == Cardinality(Retained(log, cutoff))
<1>1. log \in Seq(Record) /\ Exact(log) /\ InTime(log, now) /\ Numbered(log, n)
  BY DEF Sound
<1>2. PICK o : Picks(log, Retained(log, cutoff), o) /\ c \in Nat /\ Parts(log, new, cutoff, now, o, c)
  BY <1>1, PartsAre
<1>3. i \in Changes(new)
  OBVIOUS
<1> HIDE DEF new, c
<1>4. c = Cardinality(Retained(log, cutoff)) /\ c \in Nat /\ Picks(log, Retained(log, cutoff), o)
  BY <1>2 DEF c
<1>5. Rewrites(log, new, LastDropped(log, cutoff), o, c)
  BY <1>1, <1>2, <1>4, PlanRewrites
<1>6. \A h \in 1 .. Len(new) : Shaped(log, new, cutoff, now, o, c, h)
  BY <1>1, <1>2, <1>4, ShapeIs
<1>7. new \in Seq(Record) /\ c + 1 <= Len(new) /\ Len(new) <= c + 2
  BY <1>2 DEF Parts
<1>8. i - 1 \in 1 .. c /\ new[i].id = log[o[i - 1]].id
  <2>1. i \in 1 .. Len(new) /\ new[i].kind = "change"
    BY <1>3, <1>7 DEF Changes
  <2>2. Shaped(log, new, cutoff, now, o, c, i)
    BY <1>6, <2>1
  <2>3. QED
    BY <2>1, <2>2 DEF Shaped
<1>9. \A q \in 1 .. c : LastDropped(log, cutoff) < o[q]
  <2> TAKE q \in 1 .. c
  <2>1. o[q] \in Retained(log, cutoff)
    BY <1>1, <1>4, PickedAre
  <2>2. QED
    BY <1>1, <2>1, LastBefore
<1>10. o[i - 1] \in Changes(log)
  BY <1>1, <1>4, <1>8, PickedAre
<1> DEFINE q == i - 1
<1>11. q \in 1 .. c /\ q + 1 = i
  <2>1. i \in Int
    BY <1>3, <1>7 DEF Changes
  <2>2. QED
    BY <1>8, <2>1
<1> HIDE DEF q
<1>12. Upto(new, q + 1) = Upto(log, o[q]) /\ Upto(new, q) = Upto(log, o[q] - 1)
  BY <1>5, <1>9, <1>11, SameOnTheWay
<1>13. QED
  BY <1>8, <1>10, <1>11, <1>12 DEF q, new

(* The rotated file ends before the first retained change. *)
LEMMA EndIs ==
  ASSUME NEW log \in Seq(Record), NEW cutoff \in Int, NEW now, InTime(log, now)
  PROVE  /\ CutoffEnd(log, cutoff) \in 0 .. Len(log)
         /\ \A i \in Changes(log) : i <= CutoffEnd(log, cutoff) <=> i \in Dropped(log, cutoff)
         /\ \A k \in Retained(log, cutoff) : CutoffEnd(log, cutoff) < k
         /\ \A j \in 0 .. Len(log) :
              (\A k \in Retained(log, cutoff) : j < k) => j <= CutoffEnd(log, cutoff)
<1> DEFINE R == Retained(log, cutoff)
           e == CutoffEnd(log, cutoff)
<1>1. /\ Changes(log) \in SUBSET (1 .. Len(log)) /\ Len(log) \in Nat
      /\ R \in SUBSET (1 .. Len(log)) /\ R \in SUBSET Changes(log)
      /\ \A i \in Changes(log) : i \in R <=> i \notin Dropped(log, cutoff)
  BY DEF Changes, Retained
<1>2. \A i \in Dropped(log, cutoff), k \in R : i < k
  BY DroppedBefore
<1>3. CASE R = {}
  <2>1. e = Len(log)
    BY <1>3 DEF CutoffEnd
  <2> HIDE DEF R, e
  <2>2. \A i \in Changes(log) : i <= e /\ i \in Dropped(log, cutoff)
    BY <1>1, <1>3, <2>1
  <2>3. QED
    BY <1>1, <1>3, <2>1, <2>2 DEF R, e
<1>4. CASE R # {}
  <2>1. R \in SUBSET Nat
    <3>1. \A k \in R : k \in Nat
      BY <1>1
    <3>2. QED
      BY <3>1
  <2> DEFINE low == Min(R)
  <2>2. e = low - 1
    BY <1>4 DEF CutoffEnd
  <2> HIDE DEF R, e
  <2>3. low \in R /\ \A k \in R : low <= k
    BY <1>4, <2>1, MinIs
  <2> HIDE DEF low
  <2>9. \A k \in R : k \in 1 .. Len(log) /\ k \in Int
    BY <1>1
  <2>10. low \in 1 .. Len(log) /\ low \in Int /\ e \in Int
    BY <2>2, <2>3, <2>9
  <2>4. e \in 0 .. Len(log)
    BY <1>1, <2>2, <2>10
  <2>5. \A k \in R : e < k
    BY <2>2, <2>3, <2>9, <2>10
  <2>6. \A i \in Changes(log) : i <= e <=> i \in Dropped(log, cutoff)
    <3> TAKE i \in Changes(log)
    <3>1. i \in Int
      BY <1>1
    <3>2. CASE i \in R
      BY <1>1, <2>5, <2>10, <3>1, <3>2
    <3>3. CASE i \notin R
      <4>1. i < low
        BY <1>1, <1>2, <2>3, <3>3
      <4>2. QED
        BY <1>1, <2>2, <2>10, <3>1, <3>3, <4>1
    <3>4. QED
      BY <3>2, <3>3
  <2>7. \A j \in 0 .. Len(log) : (\A k \in R : j < k) => j <= e
    <3> TAKE j \in 0 .. Len(log)
    <3>1. (\A k \in R : j < k) => j < low
      BY <2>3
    <3>2. QED
      BY <2>2, <2>10, <3>1
  <2>8. QED
    BY <2>4, <2>5, <2>6, <2>7 DEF R, e
<1>5. QED
  BY <1>3, <1>4

-----------------------------------------------------------------------------
(* Logs that grow, and parts of logs *)

(* Time and further changes do not hurt a log. *)
LEMMA SoundLater ==
  ASSUME NEW log, NEW now \in Int, NEW n \in Nat, Sound(log, now, n),
         NEW later \in Int, now <= later, NEW more \in Nat, n <= more
  PROVE  Sound(log, later, more)
<1>1. log \in Seq(Record) /\ Exact(log) /\ InTime(log, now) /\ Numbered(log, n)
  BY DEF Sound
<1>2. \A i \in 1 .. Len(log) : log[i].ts \in Int
  BY <1>1, FieldTypes
<1>3. InTime(log, later)
  BY <1>1, <1>2 DEF InTime
<1>4. 1 .. n \subseteq 1 .. more
  OBVIOUS
<1>5. Numbered(log, more)
  BY <1>1, <1>4 DEF Numbered
<1>6. QED
  BY <1>1, <1>3, <1>5 DEF Sound

LEMMA AppendIs ==
  ASSUME NEW log \in Seq(Record), NEW r \in Record
  PROVE  /\ Append(log, r) \in Seq(Record) /\ Len(Append(log, r)) = Len(log) + 1 /\ Len(log) \in Nat
         /\ \A i \in 1 .. Len(log) : Append(log, r)[i] = log[i] /\ i # Len(log) + 1
         /\ Append(log, r)[Len(log) + 1] = r
         /\ \A i \in 1 .. (Len(log) + 1) : i \in 1 .. Len(log) \/ i = Len(log) + 1
         /\ \A i \in 0 .. Len(log) : Upto(Append(log, r), i) = Upto(log, i)
<1>1. /\ Append(log, r) \in Seq(Record) /\ Len(Append(log, r)) = Len(log) + 1 /\ Len(log) \in Nat
      /\ \A i \in 1 .. Len(log) : Append(log, r)[i] = log[i] /\ i # Len(log) + 1
      /\ Append(log, r)[Len(log) + 1] = r
      /\ \A i \in 1 .. (Len(log) + 1) : i \in 1 .. Len(log) \/ i = Len(log) + 1
  OBVIOUS
<1> DEFINE f == Append(log, r)
<1> HIDE DEF f
<1>2. \A i \in 0 .. Len(log) : Upto(f, i) = Upto(log, i)
  <2> TAKE i \in 0 .. Len(log)
  <2>1. f \in Seq(Record) /\ i <= Len(f) /\ \A h \in 1 .. i : log[h] = f[h]
    BY <1>1 DEF f
  <2>2. Upto(log, i) = Upto(f, i)
    BY <2>1, UptoSame
  <2>3. QED
    BY <2>2
<1>3. QED
  BY <1>1, <1>2 DEF f

LEMMA AppendsInTime ==
  ASSUME NEW log \in Seq(Record), NEW now \in Int, InTime(log, now), NEW r \in Record, r.ts = now
  PROVE  InTime(Append(log, r), now)
<1> DEFINE f == Append(log, r)
           n == Len(log)
<1>1. /\ Len(f) = n + 1 /\ n \in Nat
      /\ \A i \in 1 .. n : f[i] = log[i]
      /\ f[n + 1] = r
      /\ \A i \in 1 .. (n + 1) : i \in 1 .. n \/ i = n + 1
  BY AppendIs
<1> HIDE DEF f, n
<1>2. /\ \A i, j \in 1 .. n : i < j => log[i].ts <= log[j].ts
      /\ \A i \in 1 .. n : log[i].ts <= now
  BY DEF InTime, n
<1>3. \A i \in 1 .. (n + 1) : f[i].ts <= now
  BY <1>1, <1>2
<1>4. ASSUME NEW i \in 1 .. (n + 1), NEW j \in 1 .. (n + 1), i < j
      PROVE  f[i].ts <= f[j].ts
  <2>1. i \in 1 .. n
    BY <1>1, <1>4
  <2>2. CASE j = n + 1
    BY <1>1, <1>2, <2>1, <2>2
  <2>3. CASE j \in 1 .. n
    BY <1>1, <1>2, <1>4, <2>1, <2>3
  <2>4. QED
    BY <1>1, <2>2, <2>3
<1>5. QED
  BY <1>1, <1>3, <1>4 DEF InTime, f

LEMMA AppendsExactly ==
  ASSUME NEW log \in Seq(Record), Exact(log), NEW r \in Record,
         (r.kind = "snapshot" /\ log # <<>>) => [state |-> r.state, v |-> r.v, m |-> r.m] = Meaning(log)
  PROVE  Exact(Append(log, r))
<1> DEFINE f == Append(log, r)
           n == Len(log)
<1>1. /\ f \in Seq(Record) /\ Len(f) = n + 1 /\ n \in Nat
      /\ \A i \in 1 .. n : f[i] = log[i]
      /\ f[n + 1] = r
      /\ \A i \in 1 .. (n + 1) : i \in 1 .. n \/ i = n + 1
      /\ \A i \in 0 .. n : Upto(f, i) = Upto(log, i)
  BY AppendIs
<1> HIDE DEF f
<1>2. ASSUME NEW i \in Snapshots(f), i > 1
      PROVE  [state |-> f[i].state, v |-> f[i].v, m |-> f[i].m] = Upto(f, i - 1)
  <2>1. i \in 1 .. (n + 1) /\ f[i].kind = "snapshot" /\ i \in Int
    BY <1>1 DEF Snapshots
  <2>2. CASE i \in 1 .. n
    <3>1. i \in Snapshots(log) /\ i - 1 \in 0 .. n
      BY <1>1, <2>1, <2>2 DEF Snapshots
    <3>2. [state |-> log[i].state, v |-> log[i].v, m |-> log[i].m] = Upto(log, i - 1)
      BY <1>2, <3>1 DEF Exact
    <3>3. f[i] = log[i] /\ Upto(f, i - 1) = Upto(log, i - 1)
      BY <1>1, <2>2, <3>1
    <3>4. QED
      BY <3>2, <3>3
  <2>3. CASE i = n + 1
    <3>1. i - 1 = n /\ n \in 0 .. n /\ n > 0
      BY <1>1, <1>2, <2>3
    <3>2. log # <<>> /\ Upto(f, n) = Meaning(log)
      BY <1>1, <3>1, UptoAll
    <3>3. f[i] = r /\ r.kind = "snapshot"
      BY <1>1, <2>1, <2>3
    <3>4. QED
      BY <3>1, <3>2, <3>3
  <2>4. QED
    BY <1>1, <2>1, <2>2, <2>3
<1>3. QED
  BY <1>2 DEF Exact, f

LEMMA AppendSnapshot ==
  ASSUME NEW log, NEW now \in Int, NEW n \in Nat, Sound(log, now, n), log # <<>>,
         NEW r \in Record, r.kind = "snapshot", r.ts = now,
         [state |-> r.state, v |-> r.v, m |-> r.m] = Meaning(log)
  PROVE  /\ Sound(Append(log, r), now, n) /\ Ids(Append(log, r)) = Ids(log)
         /\ Meaning(Append(log, r)) = Meaning(log)
<1> DEFINE f == Append(log, r)
<1>1. log \in Seq(Record) /\ Exact(log) /\ InTime(log, now) /\ Numbered(log, n)
  BY DEF Sound
<1>2. Exact(f) /\ InTime(f, now)
  BY <1>1, AppendsExactly, AppendsInTime
<1>3. /\ f \in Seq(Record) /\ Len(f) = Len(log) + 1 /\ Len(log) \in Nat
      /\ \A i \in 1 .. Len(log) : f[i] = log[i]
      /\ f[Len(log) + 1] = r
      /\ \A i \in 1 .. (Len(log) + 1) : i \in 1 .. Len(log) \/ i = Len(log) + 1
  BY <1>1, AppendIs
<1>7. Meaning(f) = Meaning(log)
  <2>1. Meaning(f) = Apply(Meaning(log), r)
    BY <1>1, MeaningAppend
  <2>2. Apply(Meaning(log), r) = [state |-> r.state, v |-> r.v, m |-> IF r.m = NoTime THEN Meaning(log).m ELSE r.m]
    BY DEF Apply
  <2>3. Meaning(log).m = r.m
    <3>1. [state |-> r.state, v |-> r.v, m |-> r.m].m = r.m
      OBVIOUS
    <3>2. QED
      BY <3>1
  <2>4. QED
    BY <2>1, <2>2, <2>3
<1> HIDE DEF f
<1>4. Changes(f) = Changes(log) /\ \A i \in Changes(log) : f[i] = log[i]
  <2>1. \A i \in Changes(f) : i \in Changes(log)
    BY <1>1, <1>3 DEF Changes
  <2>2. \A i \in Changes(log) : i \in Changes(f) /\ f[i] = log[i]
    BY <1>1, <1>3 DEF Changes
  <2>3. QED
    BY <2>1, <2>2
<1>5. Numbered(f, n) /\ Ids(f) = Ids(log)
  BY <1>1, <1>4 DEF Numbered, Ids
<1>6. QED
  BY <1>2, <1>3, <1>5, <1>7 DEF Sound, f

LEMMA AppendChange ==
  ASSUME NEW log, NEW now \in Int, NEW n \in Nat, Sound(log, now, n),
         NEW r \in Record, r.kind = "change", r.ts = now, r.id = n + 1
  PROVE  Sound(Append(log, r), now, n + 1) /\ Ids(Append(log, r)) = Ids(log) \cup {n + 1}
<1> DEFINE f == Append(log, r)
           l == Len(log) + 1
<1>1. log \in Seq(Record) /\ Exact(log) /\ InTime(log, now) /\ Numbered(log, n)
  BY DEF Sound
<1>2. Exact(f) /\ InTime(f, now)
  BY <1>1, AppendsExactly, AppendsInTime
<1>3. /\ f \in Seq(Record) /\ Len(f) = l /\ Len(log) \in Nat
      /\ \A i \in 1 .. Len(log) : f[i] = log[i] /\ i # l /\ i < l
      /\ f[l] = r
      /\ \A i \in 1 .. l : i \in 1 .. Len(log) \/ i = l
  BY <1>1, AppendIs
<1>4. l \in Nat /\ l \in 1 .. l
  BY <1>3
<1> HIDE DEF f, l
<1>5. Changes(f) = Changes(log) \cup {l} /\ \A i \in Changes(log) : f[i] = log[i] /\ i < l
  <2>1. \A i \in Changes(f) : i \in Changes(log) \cup {l}
    BY <1>1, <1>3 DEF Changes
  <2>2. \A i \in Changes(log) : i \in Changes(f) /\ f[i] = log[i] /\ i < l
    <3> TAKE i \in Changes(log)
    <3>1. i \in 1 .. Len(log) /\ log[i].kind = "change"
      BY <1>1 DEF Changes
    <3>2. f[i] = log[i] /\ i < l /\ i \in Int /\ 1 <= i
      BY <1>3, <3>1
    <3>3. i \in 1 .. l
      BY <1>4, <3>2
    <3>4. QED
      BY <1>3, <3>1, <3>2, <3>3 DEF Changes
  <2>3. l \in Changes(f)
    BY <1>3, <1>4 DEF Changes
  <2>4. QED
    BY <2>1, <2>2, <2>3
<1>6. /\ \A i, j \in Changes(log) : i < j => log[i].id < log[j].id
      /\ \A i \in Changes(log) : log[i].id \in 1 .. n /\ log[i].id < n + 1 /\ log[i].id \in 1 .. (n + 1)
  BY <1>1 DEF Numbered
<1>7. Numbered(f, n + 1)
  <2>1. \A i \in Changes(f) : f[i].id \in 1 .. (n + 1)
    BY <1>3, <1>5, <1>6
  <2>2. ASSUME NEW i \in Changes(f), NEW j \in Changes(f), i < j PROVE f[i].id < f[j].id
    <3>1. i \in 1 .. l /\ j \in 1 .. l
      BY <1>3 DEF Changes
    <3>2. i \in Changes(log)
      BY <1>4, <1>5, <2>2, <3>1
    <3>3. CASE j = l
      BY <1>3, <1>5, <1>6, <3>2, <3>3
    <3>4. CASE j \in Changes(log)
      BY <1>5, <1>6, <2>2, <3>2, <3>4
    <3>5. QED
      BY <1>5, <3>3, <3>4
  <2>3. QED
    BY <2>1, <2>2 DEF Numbered
<1>8. Ids(f) = Ids(log) \cup {n + 1}
  BY <1>3, <1>5 DEF Ids
<1>9. QED
  BY <1>2, <1>3, <1>7, <1>8 DEF Sound, f

(* The records so far of a log that is being written. *)
LEMMA SoundPrefix ==
  ASSUME NEW log, NEW now \in Int, NEW n \in Nat, Sound(log, now, n), NEW k \in 0 .. Len(log)
  PROVE  /\ Sound(SubSeq(log, 1, k), now, n) /\ Ids(SubSeq(log, 1, k)) \subseteq Ids(log)
         /\ Changes(SubSeq(log, 1, k)) = {i \in Changes(log) : i <= k}
         /\ Ids(SubSeq(log, 1, k)) = {log[i].id : i \in {h \in Changes(log) : h <= k}}
<1> DEFINE f == SubSeq(log, 1, k)
<1>1. log \in Seq(Record) /\ Exact(log) /\ InTime(log, now) /\ Numbered(log, n) /\ Len(log) \in Nat
  BY DEF Sound
<1>2. f \in Seq(Record) /\ Len(f) = k /\ f = [i \in 1 .. k |-> log[i]]
  BY <1>1, Prefix
<1> HIDE DEF f
<1>3. k \in Nat /\ \A i \in 1 .. k : i \in 1 .. Len(log) /\ f[i] = log[i]
  BY <1>1, <1>2
<1>4. Changes(f) = {i \in Changes(log) : i <= k} /\ \A i \in Changes(f) : f[i] = log[i]
  <2>1. DOMAIN f = 1 .. k /\ DOMAIN log = 1 .. Len(log)
    BY <1>1, <1>2
  <2>2. \A i \in Changes(f) : i \in Changes(log) /\ i <= k /\ f[i] = log[i]
    BY <1>3, <2>1 DEF Changes
  <2>3. \A i \in Changes(log) : i <= k => i \in Changes(f)
    <3> TAKE i \in Changes(log)
    <3>1. i \in 1 .. Len(log) /\ log[i].kind = "change"
      BY <2>1 DEF Changes
    <3>2. i <= k => i \in 1 .. k
      BY <1>1, <1>3, <3>1
    <3>3. QED
      BY <1>3, <2>1, <3>1, <3>2 DEF Changes
  <2>4. QED
    BY <2>2, <2>3
<1>5. Numbered(f, n)
  <2>1. Changes(f) \subseteq Changes(log)
    BY <1>4
  <2>2. QED
    BY <1>1, <1>4, <2>1 DEF Numbered
<1>6. InTime(f, now)
  BY <1>1, <1>2, <1>3 DEF InTime
<1>7. Exact(f)
  <2>1. ASSUME NEW i \in Snapshots(f), i > 1
        PROVE  [state |-> f[i].state, v |-> f[i].v, m |-> f[i].m] = Upto(f, i - 1)
    <3>1. i \in 1 .. k /\ f[i].kind = "snapshot"
      BY <1>2 DEF Snapshots
    <3>2. i \in Snapshots(log)
      BY <1>1, <1>3, <3>1 DEF Snapshots
    <3>3. i - 1 \in 0 .. Len(log) /\ i - 1 <= k /\ i - 1 \in Nat
      BY <1>1, <1>3, <2>1, <3>1
    <3>4. \A h \in 1 .. (i - 1) : log[h] = f[h]
      <4> TAKE h \in 1 .. (i - 1)
      <4>1. h \in 1 .. k
        BY <1>3, <3>3
      <4>2. QED
        BY <1>3, <4>1
    <3>5. Upto(log, i - 1) = Upto(f, i - 1)
      BY <1>1, <1>2, <3>3, <3>4, UptoSame
    <3>6. [state |-> log[i].state, v |-> log[i].v, m |-> log[i].m] = Upto(log, i - 1)
      BY <1>1, <2>1, <3>2 DEF Exact
    <3>7. QED
      BY <1>3, <3>1, <3>5, <3>6
  <2>2. QED
    BY <2>1 DEF Exact
<1>8. Ids(f) = {log[i].id : i \in {h \in Changes(log) : h <= k}}
  <2>1. \A i \in Changes(f) : f[i].id = log[i].id
    BY <1>4
  <2>2. QED
    BY <1>4, <2>1 DEF Ids
<1>9. Ids(f) \subseteq Ids(log)
  BY <1>8 DEF Ids
<1>10. QED
  BY <1>2, <1>4, <1>5, <1>6, <1>7, <1>8, <1>9 DEF Sound, f

-----------------------------------------------------------------------------
(* Rotated files *)

(* There is always a free name. *)
LEMMA FreeNameIs ==
  ASSUME IsFiniteSet(DOMAIN copies), NEW ts
  PROVE  FreeName(ts) \notin DOMAIN copies
<1> DEFINE D == DOMAIN copies
           c == Cardinality(D)
           S == {n \in 0 .. c : Name(ts, n) \notin D}
<1>1. c \in Nat
  BY FS_CardinalityType
<1>2. S # {}
  <2>1. SUFFICES ASSUME \A n \in 0 .. c : Name(ts, n) \in D PROVE FALSE
    OBVIOUS
  <2> DEFINE f == [n \in 0 .. c |-> Name(ts, n)]
  <2>2. f \in [0 .. c -> D]
    BY <2>1
  <2>3. IsFiniteSet(0 .. c) /\ Cardinality(0 .. c) = c + 1
    <3>1. 0 \in Int /\ c \in Int /\ ~(0 > c) /\ c - 0 + 1 = c + 1
      BY <1>1
    <3>2. IsFiniteSet(0 .. c) /\ Cardinality(0 .. c) = IF 0 > c THEN 0 ELSE c - 0 + 1
      BY <3>1, FS_Interval
    <3>3. QED
      BY <3>1, <3>2
  <2>4. \A x, y \in 0 .. c : f[x] = f[y] => x = y
    BY DEF Name
  <2> HIDE DEF f
  <2>5. Cardinality(D) < Cardinality(0 .. c)
    BY <1>1, <2>3
  <2> HIDE DEF c
  <2>6. \E x, y \in 0 .. c : x # y /\ f[x] = f[y]
    BY <2>2, <2>3, <2>5, FS_PigeonHole
  <2>7. QED
    BY <2>4, <2>6
<1>3. S \in SUBSET Nat
  BY <1>1
<1>4. FreeName(ts) = Name(ts, Min(S))
  BY DEF FreeName
<1> HIDE DEF S
<1>5. Min(S) \in S
  BY <1>2, <1>3, MinIs
<1>6. QED
  BY <1>4, <1>5 DEF S

(* The changes that rotated files hold. *)
HeldIn(files) == UNION {Ids(files[n]) : n \in DOMAIN files}

LEMMA HeldMore ==
  ASSUME NEW files, NEW name, name \notin DOMAIN files, NEW log, NEW more,
         more = [n \in DOMAIN files \cup {name} |-> IF n = name THEN log ELSE files[n]]
  PROVE  HeldIn(more) = HeldIn(files) \cup Ids(log)
<1>1. DOMAIN more = DOMAIN files \cup {name} /\ more[name] = log /\ \A n \in DOMAIN files : more[n] = files[n]
  OBVIOUS
<1>2. QED
  BY <1>1 DEF HeldIn

-----------------------------------------------------------------------------
(* The inductive invariant *)

Counted == Cardinality(history)

RotationType ==
  /\ clock \in Nat /\ version \in Nat
  /\ history = 1 .. Counted /\ Counted \in Nat
  /\ copies = [n \in DOMAIN copies |-> copies[n]] /\ IsFiniteSet(DOMAIN copies)
  /\ \A n \in DOMAIN copies : copies[n] \in Seq(Record)
  /\ pc \in {"running", "closed", "planned", "copied", "writing", "written"}

(* Every change is in the log or in a rotated file. *)
Whole == history = Ids(main) \cup HeldIn(copies)

(* The plan under way is the plan for the log old, which holds all that    *)
(* was known.                                                              *)
PlanFor(old) ==
  /\ Sound(old, clock, Counted) /\ Dropped(old, Cutoff) # {}
  /\ Meaning(old) = known
  /\ plan = Plan(old, Cutoff, clock)

(* Until the log is emptied it is the log that was planned for; from the   *)
(* copy on that log is also the rotated file; then the log is the          *)
(* beginning of the new content, and at last all of it.                    *)
Stages ==
  /\ pc = "planned" => PlanFor(main)
  /\ pc \in {"copied", "writing", "written"} => target \in DOMAIN copies /\ PlanFor(copies[target])
  /\ pc = "copied" => main = copies[target]
  /\ pc = "writing" => Len(main) < Len(plan.new) /\ main = SubSeq(plan.new, 1, Len(main))
  /\ pc = "written" => main = plan.new

(* In between the log means what was known, or a rotated file does. *)
Meant ==
  /\ pc \in {"running", "planned", "copied", "written"} => Meaning(main) = known
  /\ pc = "closed" => Meaning(main) = known \/ \E n \in DOMAIN copies : Meaning(copies[n]) = known

RotationInv == RotationType /\ Sound(main, clock, Counted) /\ Whole /\ Stages /\ Meant

-----------------------------------------------------------------------------
(* What the invariant says of a plan *)

LEMMA CutoffType == RotationType => clock \in Int /\ clock \in Nat /\ Cutoff \in Int /\ Counted \in Nat
<1>1. Retention \in Nat
  BY RotationAssumption
<1>2. QED
  BY <1>1 DEF RotationType, Cutoff

(* A log that is sound is not refused.  A leading snapshot that is newer   *)
(* than the cutoff would be, but then no change is dropped.                *)
LEMMA SoundValidates ==
  ASSUME NEW log, NEW now, NEW n, Sound(log, now, n), NEW cutoff \in Int, Dropped(log, cutoff) # {}
  PROVE  Validates(log, cutoff)
<1>1. log \in Seq(Record) /\ Exact(log)
  BY DEF Sound
<1>2. ASSUME NEW i \in Snapshots(log), i > Base(log, cutoff)
      PROVE  log[i].state = After(log, cutoff, i - 1).state
  <2>1. i \in 1 .. Len(log) /\ Base(log, cutoff) \in 0 .. Len(log)
    <3>1. i \in 1 .. Len(log)
      BY <1>1 DEF Snapshots
    <3>2. Base(log, cutoff) \in 0 .. Len(log)
      BY <1>1, BaseIs
    <3>3. QED
      BY <3>1, <3>2
  <2>2. i - 1 \in 0 .. Len(log) /\ Base(log, cutoff) <= i - 1
    BY <1>2, <2>1
  <2>3. After(log, cutoff, i - 1) = Upto(log, i - 1)
    BY <1>1, <2>2, AfterIs
  <2>4. CASE i > 1
    <3>1. [state |-> log[i].state, v |-> log[i].v, m |-> log[i].m] = Upto(log, i - 1)
      BY <1>1, <2>4 DEF Exact
    <3>2. [state |-> log[i].state, v |-> log[i].v, m |-> log[i].m].state = log[i].state
      OBVIOUS
    <3>3. QED
      BY <2>3, <3>1, <3>2
  <2>5. CASE i = 1
    <3>1. PICK d \in Dropped(log, cutoff) : TRUE
      OBVIOUS
    <3>2. d \in 1 .. Len(log) /\ log[d].ts < cutoff /\ log[d].kind = "change"
      BY <1>1, <3>1 DEF Dropped, Changes
    <3>3. log[1].kind = "snapshot"
      BY <2>5 DEF Snapshots
    <3>4. 1 < d
      BY <3>2, <3>3
    <3>5. log[1].ts <= log[d].ts
      BY <2>1, <2>5, <3>2, <3>4 DEF Sound, InTime
    <3>6. log[1].ts \in Int /\ log[d].ts \in Int
      BY <1>1, <2>1, <2>5, <3>2, FieldTypes
    <3>7. log[1].ts <= cutoff
      BY <3>2, <3>5, <3>6
    <3> DEFINE S == {0} \cup {h \in Snapshots(log) : log[h].ts <= cutoff}
    <3>8. S \in SUBSET (0 .. Len(log)) /\ 1 \in S /\ Len(log) \in Nat
      BY <1>1, <2>5, <3>7 DEF Snapshots
    <3>9. Base(log, cutoff) = Max(S)
      BY DEF Base
    <3> HIDE DEF S
    <3>10. 1 <= Max(S)
      BY <3>8, MaxIs
    <3>11. QED
      BY <1>2, <2>1, <2>5, <3>9, <3>10
  <2>6. QED
    BY <2>1, <2>4, <2>5
<1>3. QED
  BY <1>2 DEF Validates

LEMMA PlanIs ==
  ASSUME RotationType, NEW old, PlanFor(old)
  PROVE  plan = [kind |-> "plan", new |-> NewContent(old, Cutoff, clock), end |-> CutoffEnd(old, Cutoff),
                 ts |-> old[Max(Dropped(old, Cutoff))].ts]
<1>1. Cutoff \in Int
  BY CutoffType
<1>2. Sound(old, clock, Counted) /\ Dropped(old, Cutoff) # {} /\ plan = Plan(old, Cutoff, clock)
  BY DEF PlanFor
<1>3. Validates(old, Cutoff)
  BY <1>1, <1>2, SoundValidates
<1>4. QED
  BY <1>2, <1>3 DEF Plan

LEMMA PlanKeeps ==
  ASSUME RotationType, NEW old, PlanFor(old)
  PROVE  /\ Sound(plan.new, clock, Counted) /\ Meaning(plan.new) = known
         /\ Len(plan.new) >= 1 /\ Dropped(plan.new, Cutoff) = {}
         /\ Ids(plan.new) \subseteq Ids(old)
         /\ plan.end \in 0 .. Len(old)
         /\ Sound(SubSeq(old, 1, plan.end), clock, Counted)
         /\ Ids(SubSeq(old, 1, plan.end)) = {old[i].id : i \in Dropped(old, Cutoff)}
         /\ Ids(plan.new) = {old[i].id : i \in Retained(old, Cutoff)}
         /\ Ids(old) = Ids(SubSeq(old, 1, plan.end)) \cup Ids(plan.new)
         /\ Changes(SubSeq(old, 1, plan.end)) = Dropped(old, Cutoff)
<1> DEFINE new == NewContent(old, Cutoff, clock)
           e == CutoffEnd(old, Cutoff)
<1>1. clock \in Int /\ Cutoff \in Int /\ Counted \in Nat
  BY CutoffType
<1>2. /\ Sound(old, clock, Counted) /\ Dropped(old, Cutoff) # {} /\ Meaning(old) = known
      /\ old \in Seq(Record) /\ InTime(old, clock)
  BY DEF PlanFor, Sound
<1>3. plan.new = new /\ plan.end = e
  BY PlanIs
<1>4. /\ Sound(new, clock, Counted) /\ Meaning(new) = Meaning(old) /\ Len(new) >= 1
      /\ Ids(new) = {old[i].id : i \in Retained(old, Cutoff)}
      /\ Dropped(new, Cutoff) = {}
  BY <1>1, <1>2, NewIs
<1>5. e \in 0 .. Len(old) /\ \A i \in Changes(old) : i <= e <=> i \in Dropped(old, Cutoff)
  BY <1>1, <1>2, EndIs
<1> HIDE DEF new, e
<1>6. {i \in Changes(old) : i <= e} = Dropped(old, Cutoff)
  <2>1. Dropped(old, Cutoff) \subseteq Changes(old)
    BY DEF Dropped
  <2>2. QED
    BY <1>5, <2>1
<1>7. /\ Sound(SubSeq(old, 1, e), clock, Counted)
      /\ Changes(SubSeq(old, 1, e)) = Dropped(old, Cutoff)
      /\ Ids(SubSeq(old, 1, e)) = {old[i].id : i \in Dropped(old, Cutoff)}
  <2>1. /\ Sound(SubSeq(old, 1, e), clock, Counted)
        /\ Changes(SubSeq(old, 1, e)) = {i \in Changes(old) : i <= e}
        /\ Ids(SubSeq(old, 1, e)) = {old[i].id : i \in {h \in Changes(old) : h <= e}}
    BY <1>1, <1>2, <1>5, SoundPrefix
  <2>2. QED
    BY <1>6, <2>1
<1>8. Changes(old) = Dropped(old, Cutoff) \cup Retained(old, Cutoff)
  BY DEF Retained, Dropped
<1>9. Ids(old) = Ids(SubSeq(old, 1, e)) \cup Ids(new) /\ Ids(new) \subseteq Ids(old)
  BY <1>4, <1>7, <1>8 DEF Ids
<1>10. QED
  BY <1>2, <1>3, <1>4, <1>5, <1>7, <1>9

-----------------------------------------------------------------------------
(* The invariant, action by action *)

LEMMA InitInv == Init => RotationInv
<1> SUFFICES ASSUME Init PROVE RotationInv
  OBVIOUS
<1>1. /\ clock = 0 /\ main = <<>> /\ copies = [n \in {} |-> <<>>]
      /\ pc = "running" /\ version = 0 /\ history = {} /\ known = Blank
  BY DEF Init
<1>2. Counted = 0
  BY <1>1, FS_EmptySet DEF Counted
<1>3. RotationType
  <2>1. DOMAIN copies = {} /\ IsFiniteSet({})
    BY <1>1, FS_EmptySet
  <2>2. QED
    BY <1>1, <1>2, <2>1 DEF RotationType
<1>4. Len(main) = 0 /\ main \in Seq(Record) /\ Changes(main) = {} /\ Snapshots(main) = {}
  BY <1>1 DEF Changes, Snapshots
<1>5. Sound(main, clock, Counted)
  BY <1>4 DEF Sound, Exact, InTime, Numbered
<1>6. Ids(main) = {} /\ HeldIn(copies) = {}
  BY <1>1, <1>4 DEF Ids, HeldIn
<1>7. Meaning(main) = known
  BY <1>1, MeaningEmpty
<1>8. QED
  BY <1>1, <1>3, <1>5, <1>6, <1>7 DEF RotationInv, Whole, Stages, Meant

LEMMA TickInv ==
  ASSUME StepsBack = FALSE, RotationInv, Tick
  PROVE  RotationInv'
<1>1. RotationType /\ Sound(main, clock, Counted) /\ Whole /\ Meant
  BY DEF RotationInv
<1>2. /\ clock' = clock + 1 /\ pc \in {"running", "closed"}
      /\ UNCHANGED <<main, copies, pc, plan, target, version, history, known, failures>>
  BY DEF Tick
<1>3. clock \in Nat /\ clock' \in Nat /\ clock <= clock' /\ Counted \in Nat /\ Counted' = Counted
  BY <1>1, <1>2 DEF RotationType, Counted
<1>4. RotationType'
  BY <1>1, <1>2, <1>3 DEF RotationType
<1>5. Sound(main, clock', Counted)
  <2> DEFINE later == clock'
  <2>1. later \in Int /\ clock <= later /\ clock \in Int
    BY <1>3
  <2> HIDE DEF later
  <2>2. Sound(main, later, Counted)
    BY <1>1, <1>3, <2>1, SoundLater
  <2>3. QED
    BY <2>2 DEF later
<1>6. Sound(main, clock, Counted)'
  BY <1>2, <1>3, <1>5
<1>7. Whole' /\ Meant'
  BY <1>1, <1>2 DEF Whole, Meant
<1>8. Stages'
  BY <1>2 DEF Stages
<1>9. QED
  BY <1>4, <1>6, <1>7, <1>8 DEF RotationInv

LEMMA ChangeType ==
  ASSUME RotationType, NEW k \in Keys, NEW v \in Nat, NEW m \in {clock, NoTime}, NEW id \in Nat, NEW at \in Int
  PROVE  /\ ChangeRecord(id, k, v, m, at) \in Record
         /\ ChangeRecord(id, k, v, m, at).kind = "change" /\ ChangeRecord(id, k, v, m, at).ts = clock
         /\ ChangeRecord(id, k, v, m, at).id = id
BY DEF RotationType, ChangeRecord, Record, Blank, NoTime

LEMMA AppendsInv ==
  ASSUME RotationInv, NEW k \in Keys, NEW v \in Nat, NEW m \in {clock, NoTime}, version' \in Nat,
         Appends(k, v, m)
  PROVE  RotationInv'
<1> DEFINE r == ChangeRecord(Counted + 1, k, v, m, Len(main))
<1>1. RotationType /\ Sound(main, clock, Counted) /\ Whole
  BY DEF RotationInv
<1>2. Counted \in Nat /\ Counted + 1 \in Nat /\ clock \in Int /\ history = 1 .. Counted
  BY <1>1 DEF RotationType
<1>3. main \in Seq(Record) /\ Len(main) \in Int
  BY <1>1 DEF Sound
<1>4. r \in Record /\ r.kind = "change" /\ r.ts = clock /\ r.id = Counted + 1
  <2> DEFINE id == Counted + 1
             at == Len(main)
  <2>1. id \in Nat /\ at \in Int
    BY <1>2, <1>3
  <2> HIDE DEF id, at
  <2>2. /\ ChangeRecord(id, k, v, m, at) \in Record
        /\ ChangeRecord(id, k, v, m, at).kind = "change" /\ ChangeRecord(id, k, v, m, at).ts = clock
        /\ ChangeRecord(id, k, v, m, at).id = id
    BY <1>1, <2>1, ChangeType
  <2>3. QED
    BY <2>2 DEF id, at
<1>5. /\ pc = "running" /\ main' = Append(main, r) /\ history' = history \cup {r.id}
      /\ known' = Meaning(main')
      /\ UNCHANGED <<clock, copies, pc, plan, target, failures>>
  BY DEF Appends, Counted
<1> HIDE DEF r
<1>6. history' = 1 .. (Counted + 1) /\ Counted' = Counted + 1
  <2>1. history' = 1 .. (Counted + 1)
    BY <1>2, <1>4, <1>5
  <2>2. 1 \in Int /\ Counted + 1 \in Int /\ ~(1 > Counted + 1) /\ (Counted + 1) - 1 + 1 = Counted + 1
    BY <1>2
  <2>3. Cardinality(1 .. (Counted + 1)) = IF 1 > Counted + 1 THEN 0 ELSE (Counted + 1) - 1 + 1
    BY <2>2, FS_Interval
  <2>4. Cardinality(1 .. (Counted + 1)) = Counted + 1
    BY <2>2, <2>3
  <2>5. Counted' = Cardinality(history')
    BY DEF Counted
  <2>6. QED
    BY <2>1, <2>4, <2>5
<1>7. Sound(Append(main, r), clock, Counted + 1) /\ Ids(Append(main, r)) = Ids(main) \cup {Counted + 1}
  BY <1>1, <1>2, <1>4, AppendChange
<1>8. RotationType'
  BY <1>1, <1>2, <1>5, <1>6 DEF RotationType
<1>9. Sound(main, clock, Counted)'
  BY <1>5, <1>6, <1>7
<1>10. Whole'
  BY <1>1, <1>4, <1>5, <1>7 DEF Whole
<1>11. Stages' /\ Meant'
  BY <1>5 DEF Stages, Meant
<1>12. QED
  BY <1>8, <1>9, <1>10, <1>11 DEF RotationInv

LEMMA CommitInv ==
  ASSUME RotationInv, NEW k \in Keys, Commit(k)
  PROVE  RotationInv'
<1>1. PICK m \in {clock, NoTime} : Appends(k, version, m)
  BY DEF Commit
<1>2. version \in Nat /\ version' \in Nat
  BY DEF Commit, RotationInv, RotationType
<1>3. QED
  BY <1>1, <1>2, AppendsInv

LEMMA MigrateInv ==
  ASSUME RotationInv, NEW k \in Keys, Migrate(k)
  PROVE  RotationInv'
<1>1. Appends(k, 1, NoTime) /\ version' \in Nat /\ NoTime \in {clock, NoTime}
  BY DEF Migrate
<1>2. QED
  BY <1>1, AppendsInv

LEMMA SnapshotInv ==
  ASSUME RotationInv, Snapshot
  PROVE  RotationInv'
<1> DEFINE r == SnapshotRecord(Meaning(main), clock, Len(main))
<1>1. RotationType /\ Sound(main, clock, Counted) /\ Whole /\ Meant
  BY DEF RotationInv
<1>2. Counted \in Nat /\ clock \in Int
  BY <1>1 DEF RotationType
<1>3. main \in Seq(Record) /\ Len(main) \in Int /\ Len(main) \in 0 .. Len(main)
  BY <1>1 DEF Sound
<1>4. Meaning(main) \in Meanings
  <2>1. Upto(main, Len(main)) \in Meanings
    BY <1>3, UptoType
  <2>2. QED
    BY <1>3, <2>1, UptoAll
<1>5. r \in Record
  BY <1>2, <1>3, <1>4, SnapshotType
<1>6. /\ r.kind = "snapshot" /\ r.ts = clock
      /\ [state |-> r.state, v |-> r.v, m |-> r.m] = Meaning(main)
  BY <1>4 DEF SnapshotRecord, Meanings
<1>7. /\ pc = "running" /\ main # <<>> /\ main' = Append(main, r)
      /\ UNCHANGED <<clock, copies, pc, plan, target, version, history, known, failures>>
  BY DEF Snapshot
<1> HIDE DEF r
<1>8. /\ Sound(Append(main, r), clock, Counted) /\ Ids(Append(main, r)) = Ids(main)
      /\ Meaning(Append(main, r)) = Meaning(main)
  BY <1>1, <1>2, <1>5, <1>6, <1>7, AppendSnapshot
<1>9. Counted' = Counted
  BY <1>7 DEF Counted
<1>10. RotationType'
  BY <1>1, <1>7, <1>9 DEF RotationType
<1>11. Sound(main, clock, Counted)'
  BY <1>7, <1>8, <1>9
<1>12. Whole' /\ Meant'
  BY <1>1, <1>7, <1>8 DEF Whole, Meant
<1>13. Stages'
  BY <1>7 DEF Stages
<1>14. QED
  BY <1>10, <1>11, <1>12, <1>13 DEF RotationInv

LEMMA ReopenInv ==
  ASSUME RotationInv, Reopen
  PROVE  RotationInv'
<1>1. RotationType /\ Sound(main, clock, Counted) /\ Whole
  BY DEF RotationInv
<1>2. Cutoff \in Int
  BY <1>1, CutoffType
<1>3. /\ plan' = Plan(main, Cutoff, clock) /\ plan'.kind # "refused"
      /\ pc' = IF plan'.kind = "none" THEN "running" ELSE "planned"
      /\ known' = Meaning(main)
      /\ UNCHANGED <<clock, main, copies, target, version, history, failures>>
  BY DEF Reopen
<1>4. Counted' = Counted /\ Cutoff' = Cutoff
  BY <1>3 DEF Counted, Cutoff
<1>5. pc' \in {"running", "planned"}
  BY <1>3
<1>6. RotationType'
  BY <1>1, <1>3, <1>4, <1>5 DEF RotationType
<1>7. Sound(main, clock, Counted)' /\ Whole' /\ Meant'
  BY <1>1, <1>3, <1>4, <1>5 DEF Whole, Meant
<1>8. ASSUME pc' = "planned" PROVE PlanFor(main)'
  <2>1. plan'.kind # "none"
    BY <1>3, <1>8
  <2>2. Dropped(main, Cutoff) # {}
    BY <1>3, <2>1 DEF Plan, NoPlan
  <2>3. (Dropped(main, Cutoff) # {})' /\ (plan = Plan(main, Cutoff, clock))'
    BY <1>3, <1>4, <2>2
  <2>4. QED
    BY <1>3, <1>7, <2>3 DEF PlanFor
<1>9. Stages'
  BY <1>5, <1>8 DEF Stages
<1>10. QED
  BY <1>6, <1>7, <1>9 DEF RotationInv

(* Nothing is refused as long as no snapshot is ahead of the log.          *)
LEMMA RefusedNever ==
  ASSUME RotationInv, Refused
  PROVE  FALSE
<1>1. RotationType /\ Sound(main, clock, Counted)
  BY DEF RotationInv
<1>2. Cutoff \in Int
  BY <1>1, CutoffType
<1>3. Plan(main, Cutoff, clock).kind = "refused"
  BY DEF Refused
<1>4. Dropped(main, Cutoff) # {} /\ ~Validates(main, Cutoff)
  BY <1>3 DEF Plan, NoPlan
<1>5. QED
  BY <1>1, <1>2, <1>4, SoundValidates

(* What a plan is for does not depend on the variables that later steps    *)
(* change.                                                                 *)
LEMMA PlanStays ==
  ASSUME NEW old, PlanFor(old), NEW same, same = old, UNCHANGED <<clock, known, plan, history>>
  PROVE  /\ Sound(same, clock', Counted') /\ Dropped(same, Cutoff') # {}
         /\ Meaning(same) = known' /\ plan' = Plan(same, Cutoff', clock')
<1>1. clock' = clock /\ Counted' = Counted /\ Cutoff' = Cutoff /\ known' = known /\ plan' = plan
  BY DEF Counted, Cutoff
<1>2. QED
  BY <1>1 DEF PlanFor

LEMMA CopyInv ==
  ASSUME RotationInv, Copy
  PROVE  RotationInv'
<1>1. RotationType /\ Sound(main, clock, Counted) /\ Whole /\ Stages /\ Meant
  BY DEF RotationInv
<1>2. /\ pc = "planned" /\ pc' = "copied"
      /\ target' = FreeName(plan.ts)
      /\ copies' = [n \in DOMAIN copies \cup {target'} |-> IF n = target' THEN main ELSE copies[n]]
      /\ UNCHANGED <<clock, main, plan, version, history, known, failures>>
  BY DEF Copy
<1>3. Counted' = Counted
  BY <1>2 DEF Counted
<1>4. target' \notin DOMAIN copies /\ IsFiniteSet(DOMAIN copies)
  BY <1>1, <1>2, FreeNameIs DEF RotationType
<1>5. /\ DOMAIN copies' = DOMAIN copies \cup {target'} /\ copies'[target'] = main
      /\ \A n \in DOMAIN copies : copies'[n] = copies[n]
  BY <1>2, <1>4
<1>6. main \in Seq(Record)
  BY <1>1 DEF Sound
<1>7. RotationType'
  <2>1. IsFiniteSet(DOMAIN copies')
    BY <1>4, <1>5, FS_AddElement
  <2>2. \A n \in DOMAIN copies' : copies'[n] \in Seq(Record)
    BY <1>1, <1>5, <1>6 DEF RotationType
  <2>3. copies' = [n \in DOMAIN copies' |-> copies'[n]]
    BY <1>2
  <2>4. QED
    BY <1>1, <1>2, <1>3, <2>1, <2>2, <2>3 DEF RotationType
<1>8. Sound(main, clock, Counted)'
  BY <1>1, <1>2, <1>3
<1>9. HeldIn(copies') = HeldIn(copies) \cup Ids(main)
  BY <1>2, <1>4, HeldMore
<1>10. Whole'
  BY <1>1, <1>2, <1>9 DEF Whole
<1>11. PlanFor(main)
  BY <1>1, <1>2 DEF Stages
<1>12. PlanFor(copies[target])'
  BY <1>2, <1>5, <1>11, PlanStays DEF PlanFor
<1>13. Stages' /\ Meant'
  BY <1>1, <1>2, <1>5, <1>12 DEF Stages, Meant
<1>14. QED
  BY <1>7, <1>8, <1>10, <1>13 DEF RotationInv

LEMMA TruncateInv ==
  ASSUME RotationInv, Truncate
  PROVE  RotationInv'
<1>1. RotationType /\ Whole /\ Stages
  BY DEF RotationInv
<1>2. /\ pc = "copied" /\ pc' = "writing" /\ main' = <<>>
      /\ UNCHANGED <<clock, copies, plan, target, version, history, known, failures>>
  BY DEF Truncate
<1>3. Counted' = Counted
  BY <1>2 DEF Counted
<1>4. RotationType'
  BY <1>1, <1>2, <1>3 DEF RotationType
<1>5. Len(main') = 0 /\ main' \in Seq(Record) /\ Changes(main') = {} /\ Snapshots(main') = {} /\ Ids(main') = {}
  BY <1>2 DEF Changes, Snapshots, Ids
<1>6. Sound(main, clock, Counted)'
  BY <1>5 DEF Sound, Exact, InTime, Numbered
<1>7. target \in DOMAIN copies /\ PlanFor(copies[target]) /\ main = copies[target]
  BY <1>1, <1>2 DEF Stages
<1>8. Ids(main) \subseteq HeldIn(copies)
  BY <1>7 DEF HeldIn
<1>9. Whole'
  BY <1>1, <1>2, <1>5, <1>8 DEF Whole
<1>10. PlanFor(copies[target])'
  BY <1>2, <1>7, PlanStays DEF PlanFor
<1>11. main' = SubSeq(plan.new, 1, 0) /\ 0 < Len(plan.new)
  <2>1. Len(plan.new) >= 1 /\ plan.new \in Seq(Record)
    BY <1>1, <1>7, PlanKeeps DEF Sound
  <2>2. QED
    BY <1>2, <2>1
<1>12. Stages' /\ Meant'
  BY <1>2, <1>5, <1>7, <1>10, <1>11 DEF Stages, Meant
<1>13. QED
  BY <1>4, <1>6, <1>9, <1>12 DEF RotationInv

LEMMA WriteMoreInv ==
  ASSUME RotationInv, WriteMore
  PROVE  RotationInv'
<1> DEFINE k == Len(main) + 1
<1>1. RotationType /\ Sound(main, clock, Counted) /\ Whole /\ Stages
  BY DEF RotationInv
<1>2. /\ pc = "writing" /\ main' = SubSeq(plan.new, 1, k)
      /\ pc' = IF main' = plan.new THEN "written" ELSE "writing"
      /\ UNCHANGED <<clock, copies, plan, target, version, history, known, failures>>
  BY DEF WriteMore
<1>3. Counted' = Counted /\ pc' \in {"written", "writing"}
  BY <1>2 DEF Counted
<1>4. RotationType'
  BY <1>1, <1>2, <1>3 DEF RotationType
<1>5. /\ target \in DOMAIN copies /\ PlanFor(copies[target])
      /\ Len(main) < Len(plan.new) /\ main = SubSeq(plan.new, 1, Len(main))
  BY <1>1, <1>2 DEF Stages
<1>6. /\ Sound(plan.new, clock, Counted) /\ Meaning(plan.new) = known
      /\ Ids(plan.new) \subseteq Ids(copies[target])
  BY <1>1, <1>5, PlanKeeps
<1>7. Len(main) \in Nat /\ Len(plan.new) \in Nat
  BY <1>1, <1>6 DEF Sound
<1>8. k \in 0 .. Len(plan.new) /\ Len(main) \in 0 .. Len(plan.new)
  BY <1>5, <1>7
<1> HIDE DEF k
<1>9. Sound(SubSeq(plan.new, 1, k), clock, Counted) /\ Ids(SubSeq(plan.new, 1, k)) \subseteq Ids(plan.new)
  <2>1. clock \in Int /\ Counted \in Nat
    BY <1>1, CutoffType
  <2>2. QED
    BY <1>6, <1>8, <2>1, SoundPrefix
<1>10. Ids(main) \subseteq Ids(plan.new)
  <2>1. clock \in Int /\ Counted \in Nat
    BY <1>1, CutoffType
  <2> DEFINE h == Len(main)
  <2>2. h \in 0 .. Len(plan.new)
    BY <1>8
  <2> HIDE DEF h
  <2>3. Ids(SubSeq(plan.new, 1, h)) \subseteq Ids(plan.new)
    BY <1>6, <2>1, <2>2, SoundPrefix
  <2>4. QED
    BY <1>5, <2>3 DEF h
<1>11. Sound(main, clock, Counted)'
  BY <1>2, <1>3, <1>9
<1>12. Ids(copies[target]) \subseteq HeldIn(copies)
  BY <1>5 DEF HeldIn
<1>13. Whole'
  BY <1>1, <1>2, <1>6, <1>9, <1>10, <1>12 DEF Whole
<1>14. PlanFor(copies[target])'
  BY <1>2, <1>5, PlanStays DEF PlanFor
<1>15. main' # plan.new => Len(main') < Len(plan.new) /\ main' = SubSeq(plan.new, 1, Len(main'))
  <2>1. plan.new \in Seq(Record)
    BY <1>6 DEF Sound
  <2>2. Len(SubSeq(plan.new, 1, k)) = k
    BY <1>8, <2>1, Prefix
  <2>3. SubSeq(plan.new, 1, Len(plan.new)) = plan.new
    BY <2>1
  <2>4. SubSeq(plan.new, 1, k) # plan.new => k # Len(plan.new)
    BY <2>3
  <2>5. SubSeq(plan.new, 1, k) # plan.new => k < Len(plan.new)
    BY <1>7, <1>8, <2>4
  <2>6. QED
    BY <1>2, <2>2, <2>5
<1>16. Stages'
  BY <1>2, <1>5, <1>14, <1>15 DEF Stages
<1>17. Meant'
  BY <1>2, <1>6 DEF Meant
<1>18. QED
  BY <1>4, <1>11, <1>13, <1>16, <1>17 DEF RotationInv

LEMMA TrimInv ==
  ASSUME RotationInv, Trim
  PROVE  RotationInv'
<1> DEFINE cut == SubSeq(copies[target], 1, plan.end)
<1>1. RotationType /\ Sound(main, clock, Counted) /\ Whole /\ Stages /\ Meant
  BY DEF RotationInv
<1>2. /\ pc = "written" /\ pc' = "running"
      /\ copies' = [copies EXCEPT ![target] = cut]
      /\ UNCHANGED <<clock, main, version, history, known, failures>>
  BY DEF Trim
<1>3. Counted' = Counted
  BY <1>2 DEF Counted
<1>4. target \in DOMAIN copies /\ PlanFor(copies[target]) /\ main = plan.new
  BY <1>1, <1>2 DEF Stages
<1>5. Sound(cut, clock, Counted) /\ Ids(copies[target]) = Ids(cut) \cup Ids(main)
  BY <1>1, <1>4, PlanKeeps
<1> HIDE DEF cut
<1>6. copies = [n \in DOMAIN copies |-> copies[n]]
  BY <1>1 DEF RotationType
<1>7. /\ DOMAIN copies' = DOMAIN copies /\ copies'[target] = cut
      /\ \A n \in DOMAIN copies : n # target => copies'[n] = copies[n]
      /\ copies' = [n \in DOMAIN copies' |-> copies'[n]]
  BY <1>2, <1>4, <1>6
<1>8. RotationType'
  <2>1. cut \in Seq(Record)
    BY <1>5 DEF Sound
  <2>2. \A n \in DOMAIN copies' : copies'[n] \in Seq(Record)
    BY <1>1, <1>7, <2>1 DEF RotationType
  <2>3. QED
    BY <1>1, <1>2, <1>3, <1>7, <2>2 DEF RotationType
<1>9. Sound(main, clock, Counted)' /\ Meant'
  BY <1>1, <1>2, <1>3 DEF Meant
<1>10. /\ HeldIn(copies') \subseteq HeldIn(copies)
       /\ HeldIn(copies) \subseteq HeldIn(copies') \cup Ids(copies[target])
       /\ Ids(cut) \subseteq HeldIn(copies')
  <2>1. Ids(cut) \subseteq Ids(copies[target])
    BY <1>5
  <2> DEFINE files == copies
             after == copies'
             old == copies[target]
  <2>2. /\ DOMAIN after = DOMAIN files /\ after[target] = cut /\ target \in DOMAIN files /\ old = files[target]
        /\ \A n \in DOMAIN files : n # target => after[n] = files[n]
    BY <1>4, <1>7
  <2> HIDE DEF files, after, old
  <2>3. HeldIn(after) \subseteq HeldIn(files) /\ HeldIn(files) \subseteq HeldIn(after) \cup Ids(old)
        /\ Ids(cut) \subseteq HeldIn(after)
    <3>1. Ids(cut) \subseteq Ids(old)
      BY <2>1 DEF old
    <3>2. \A n \in DOMAIN files : Ids(after[n]) \subseteq Ids(files[n])
      BY <2>2, <3>1
    <3>3. QED
      BY <2>2, <3>2 DEF HeldIn
  <2>4. QED
    BY <2>3 DEF files, after, old
<1>11. Whole'
  BY <1>1, <1>2, <1>5, <1>10 DEF Whole
<1>12. Stages'
  BY <1>2 DEF Stages
<1>13. QED
  BY <1>8, <1>9, <1>11, <1>12 DEF RotationInv

LEMMA InterruptedInv ==
  ASSUME RotationInv, Interrupted
  PROVE  RotationInv'
<1>1. RotationType /\ Sound(main, clock, Counted) /\ Whole /\ Stages /\ Meant
  BY DEF RotationInv
<1>2. /\ pc \in {"planned", "copied", "writing", "written"} /\ pc' = "closed"
      /\ UNCHANGED <<clock, main, version, history, known>>
  BY DEF Interrupted
<1>3. Counted' = Counted
  BY <1>2 DEF Counted
<1>4. Sound(main, clock, Counted)' /\ Stages'
  BY <1>1, <1>2, <1>3 DEF Stages
<1>5. CASE UNCHANGED copies
  <2>1. RotationType' /\ Whole'
    BY <1>1, <1>2, <1>3, <1>5 DEF RotationType, Whole
  <2>2. Meaning(main) = known \/ \E n \in DOMAIN copies : Meaning(copies[n]) = known
    BY <1>1, <1>2 DEF Meant, Stages, PlanFor
  <2>3. Meant'
    BY <1>2, <1>5, <2>2 DEF Meant
  <2>4. QED
    BY <1>4, <2>1, <2>3 DEF RotationInv
<1>6. ASSUME pc = "planned", NEW n \in 0 .. Len(main) - 1,
             copies' = [c \in DOMAIN copies \cup {FreeName(plan.ts)} |->
                          IF c = FreeName(plan.ts) THEN SubSeq(main, 1, n) ELSE copies[c]]
      PROVE  RotationInv'
  <2> DEFINE name == FreeName(plan.ts)
             part == SubSeq(main, 1, n)
  <2>1. name \notin DOMAIN copies /\ IsFiniteSet(DOMAIN copies)
    BY <1>1, FreeNameIs DEF RotationType
  <2>2. Sound(part, clock, Counted) /\ Ids(part) \subseteq Ids(main)
    <3>1. clock \in Int /\ Counted \in Nat
      BY <1>1, CutoffType
    <3>2. Len(main) \in Nat
      BY <1>1 DEF Sound
    <3>3. n \in 0 .. Len(main)
      BY <3>2
    <3>4. QED
      BY <1>1, <3>1, <3>3, SoundPrefix
  <2>3. copies' = [c \in DOMAIN copies \cup {name} |-> IF c = name THEN part ELSE copies[c]]
    BY <1>6
  <2> HIDE DEF name, part
  <2>4. /\ DOMAIN copies' = DOMAIN copies \cup {name} /\ copies'[name] = part
        /\ \A c \in DOMAIN copies : copies'[c] = copies[c]
        /\ copies' = [c \in DOMAIN copies' |-> copies'[c]]
    BY <2>1, <2>3
  <2>5. RotationType'
    <3>1. IsFiniteSet(DOMAIN copies')
      BY <2>1, <2>4, FS_AddElement
    <3>2. part \in Seq(Record)
      BY <2>2 DEF Sound
    <3>3. \A c \in DOMAIN copies' : copies'[c] \in Seq(Record)
      BY <1>1, <2>4, <3>2 DEF RotationType
    <3>4. QED
      BY <1>1, <1>2, <1>3, <2>4, <3>1, <3>3 DEF RotationType
  <2>6. HeldIn(copies') = HeldIn(copies) \cup Ids(part)
    BY <2>4 DEF HeldIn
  <2>7. Whole'
    BY <1>1, <1>2, <2>2, <2>6 DEF Whole
  <2>8. Meaning(main) = known
    BY <1>1, <1>6 DEF Meant
  <2>9. Meant'
    BY <1>2, <2>8 DEF Meant
  <2>10. QED
    BY <1>4, <2>5, <2>7, <2>9 DEF RotationInv
<1>7. QED
  BY <1>5, <1>6 DEF Interrupted

LEMMA StutterInv ==
  ASSUME RotationInv, UNCHANGED vars
  PROVE  RotationInv'
<1>1. UNCHANGED <<clock, main, copies, pc, plan, target, version, history, known>>
  BY DEF vars
<1>2. Counted' = Counted /\ Cutoff' = Cutoff
  BY <1>1 DEF Counted, Cutoff
<1>3. RotationType' /\ Sound(main, clock, Counted)' /\ Whole' /\ Meant'
  BY <1>1, <1>2 DEF RotationInv, RotationType, Whole, Meant
<1>4. Stages'
  BY <1>1, <1>2 DEF RotationInv, Stages, PlanFor
<1>5. QED
  BY <1>3, <1>4 DEF RotationInv

LEMMA StepInv ==
  ASSUME StepsBack = FALSE, Overtakes = FALSE, RotationInv, [Next]_vars
  PROVE  RotationInv'
<1>1. CASE Tick
  BY <1>1, TickInv
<1>2. ASSUME NEW k \in Keys, Commit(k) \/ Migrate(k) PROVE RotationInv'
  BY <1>2, CommitInv, MigrateInv
<1>3. CASE Snapshot
  BY <1>3, SnapshotInv
<1>4. CASE Reopen
  BY <1>4, ReopenInv
<1>5. CASE Copy
  BY <1>5, CopyInv
<1>6. CASE Truncate
  BY <1>6, TruncateInv
<1>7. CASE WriteMore
  BY <1>7, WriteMoreInv
<1>8. CASE Trim
  BY <1>8, TrimInv
<1>9. CASE Interrupted
  BY <1>9, InterruptedInv
<1>10. CASE UNCHANGED vars
  BY <1>10, StutterInv
<1>11. CASE Refused
  BY <1>11, RefusedNever
<1>12. CASE \E k \in Keys : SnapshotAhead(k)
  BY <1>12 DEF SnapshotAhead
<1>13. QED
  BY <1>1, <1>2, <1>3, <1>4, <1>5, <1>6, <1>7, <1>8, <1>9, <1>10, <1>11, <1>12 DEF Next

LEMMA InvHolds ==
  ASSUME StepsBack = FALSE, Overtakes = FALSE
  PROVE  Spec => []RotationInv
<1>1. Init => RotationInv
  BY InitInv
<1>2. RotationInv /\ [Next]_vars => RotationInv'
  BY StepInv
<1>3. QED
  BY <1>1, <1>2, PTL DEF Spec

-----------------------------------------------------------------------------
(* What follows *)

(* However rotation is interrupted and whatever follows, every change that *)
(* was ever appended is in the log or in a rotated file.                   *)
THEOREM HistoryIsKept ==
  ASSUME StepsBack = FALSE, Overtakes = FALSE
  PROVE  Spec => []HistoryKept
<1>1. RotationInv => HistoryKept
  <2> SUFFICES ASSUME RotationInv PROVE HistoryKept
    OBVIOUS
  <2> DEFINE files == Range(copies) \cup {main}
             records == {x \in UNION {Range(f) : f \in files} : x.kind = "change"}
  <2>1. history = Ids(main) \cup HeldIn(copies)
    BY DEF RotationInv, Whole
  <2>2. Range(copies) = {copies[n] : n \in DOMAIN copies}
    BY DEF Range
  <2>3. \A f : Ids(f) = {x.id : x \in {y \in Range(f) : y.kind = "change"}}
    BY DEF Ids, Changes, Range
  <2>4. {r.id : r \in records} = UNION {Ids(f) : f \in files}
    BY <2>3
  <2>5. UNION {Ids(f) : f \in files} = Ids(main) \cup HeldIn(copies)
    BY <2>2 DEF HeldIn
  <2>6. QED
    BY <2>1, <2>4, <2>5 DEF HistoryKept
<1>2. QED
  BY <1>1, InvHolds, PTL

(* What the instance knew when it last ran can be replayed from the log,   *)
(* or, while a rewrite is not complete, from a rotated file.               *)
THEOREM AlwaysAnchored ==
  ASSUME StepsBack = FALSE, Overtakes = FALSE
  PROVE  Spec => []Anchored
<1>1. RotationInv => Anchored
  <2> SUFFICES ASSUME RotationInv PROVE Anchored
    OBVIOUS
  <2>1. Stages /\ Meant /\ pc \in {"running", "closed", "planned", "copied", "writing", "written"}
    BY DEF RotationInv, RotationType
  <2>2. CASE pc = "writing"
    <3>1. target \in DOMAIN copies /\ Meaning(copies[target]) = known
      BY <2>1, <2>2 DEF Stages, PlanFor
    <3>2. QED
      BY <2>2, <3>1 DEF Anchored
  <2>3. CASE pc = "closed"
    BY <2>1, <2>3 DEF Meant, Anchored
  <2>4. QED
    BY <2>1, <2>2, <2>3 DEF Meant, Anchored
<1>2. QED
  BY <1>1, InvHolds, PTL

(* open() does not refuse to rotate what rotation and appends wrote, as    *)
(* long as no snapshot is ahead of the log; and a log that was just        *)
(* rewritten has nothing left to rotate.                                   *)
THEOREM RotatesJustOnce ==
  ASSUME StepsBack = FALSE, Overtakes = FALSE
  PROVE  Spec => []RotatesOnce
<1>1. RotationInv => RotatesOnce
  <2> SUFFICES ASSUME RotationInv PROVE RotatesOnce
    OBVIOUS
  <2>1. RotationType /\ Sound(main, clock, Counted) /\ Stages
    BY DEF RotationInv
  <2>2. Cutoff \in Int
    BY <2>1, CutoffType
  <2>3. Dropped(main, Cutoff) # {} => Validates(main, Cutoff)
    BY <2>1, <2>2, SoundValidates
  <2>4. ASSUME pc = "written" PROVE Dropped(main, Cutoff) = {}
    <3>1. PlanFor(copies[target]) /\ main = plan.new
      BY <2>1, <2>4 DEF Stages
    <3>2. Dropped(plan.new, Cutoff) = {}
      BY <2>1, <3>1, PlanKeeps
    <3>3. QED
      BY <3>1, <3>2
  <2>5. QED
    BY <2>3, <2>4 DEF RotatesOnce
<1>2. QED
  BY <1>1, InvHolds, PTL

(* A change is known by its number. *)
LEMMA OneNumber ==
  ASSUME NEW log \in Seq(Record), NEW n, Numbered(log, n), NEW k \in Changes(log)
  PROVE  (CHOOSE i \in Changes(log) : log[i].id = log[k].id) = k
<1> DEFINE h == CHOOSE i \in Changes(log) : log[i].id = log[k].id
<1>1. h \in Changes(log) /\ log[h].id = log[k].id
  OBVIOUS
<1> HIDE DEF h
<1>2. /\ h < k => log[h].id < log[k].id
      /\ k < h => log[k].id < log[h].id
  BY <1>1 DEF Numbered
<1>3. h \in 1 .. Len(log) /\ k \in 1 .. Len(log)
  BY <1>1 DEF Changes
<1>4. h \in Int /\ k \in Int /\ log[h].id \in Int /\ log[k].id \in Int
  BY <1>3, FieldTypes
<1>5. h = k
  BY <1>1, <1>2, <1>4
<1>6. QED
  BY <1>5 DEF h

(* A rewritten log means what the old one meant, at its end and around     *)
(* every change that it keeps, and its records know their offsets.         *)
THEOREM RewritesFaithfully ==
  ASSUME StepsBack = FALSE, Overtakes = FALSE
  PROVE  Spec => []RewriteFaithful
<1>1. RotationInv => RewriteFaithful
  <2> DEFINE old == copies[target]
             Was(r) == CHOOSE i \in Changes(old) : old[i].id = r.id
  <2>1. SUFFICES ASSUME RotationInv, pc \in {"copied", "writing", "written"}, ~Tie(old)
        PROVE  /\ Meaning(plan.new) = Meaning(old)
               /\ \A i \in DOMAIN plan.new : plan.new[i].at = i - 1
               /\ \A i \in Changes(plan.new) :
                    /\ Meaning(SubSeq(plan.new, 1, i)) = Meaning(SubSeq(old, 1, Was(plan.new[i])))
                    /\ Meaning(SubSeq(plan.new, 1, i - 1)) = Meaning(SubSeq(old, 1, Was(plan.new[i]) - 1))
    BY DEF RewriteFaithful
  <2>2. RotationType /\ PlanFor(old)
    BY <2>1 DEF RotationInv, Stages
  <2> HIDE DEF old
  <2>3. clock \in Int /\ Cutoff \in Int /\ Counted \in Nat
    BY <2>2, CutoffType
  <2>4. /\ Sound(old, clock, Counted) /\ Dropped(old, Cutoff) # {} /\ Meaning(old) = known
        /\ old \in Seq(Record) /\ Numbered(old, Counted)
    BY <2>2 DEF PlanFor, Sound
  <2>5. Sound(plan.new, clock, Counted) /\ Meaning(plan.new) = Meaning(old)
    BY <2>2, <2>4, PlanKeeps
  <2>6. plan.new = NewContent(old, Cutoff, clock)
    BY <2>2, PlanIs
  <2>7. ~TieAt(old, Cutoff)
    BY <2>1 DEF Tie, TieAt
  <2>8. \A i \in DOMAIN plan.new : plan.new[i].at = i - 1
    <3>1. \A i \in 1 .. Len(NewContent(old, Cutoff, clock)) : NewContent(old, Cutoff, clock)[i].at = i - 1
      BY <2>3, <2>4, NewIs
    <3>2. DOMAIN plan.new = 1 .. Len(plan.new)
      BY <2>5 DEF Sound
    <3>3. QED
      BY <2>6, <3>1, <3>2
  <2>9. ASSUME NEW i \in Changes(plan.new)
        PROVE  /\ Meaning(SubSeq(plan.new, 1, i)) = Meaning(SubSeq(old, 1, Was(plan.new[i])))
               /\ Meaning(SubSeq(plan.new, 1, i - 1)) = Meaning(SubSeq(old, 1, Was(plan.new[i]) - 1))
    <3> DEFINE new == NewContent(old, Cutoff, clock)
    <3>1. i \in Changes(new)
      BY <2>6
    <3>2. PICK k \in Changes(old) :
            /\ new[i].id = old[k].id
            /\ Upto(new, i) = Upto(old, k)
            /\ Upto(new, i - 1) = Upto(old, k - 1)
      BY <2>3, <2>4, <2>7, <3>1, NewOnTheWay
    <3>3. Was(plan.new[i]) = k
      <4>1. Was(plan.new[i]) = CHOOSE h \in Changes(old) : old[h].id = old[k].id
        BY <2>6, <3>2
      <4>2. QED
        BY <2>4, <4>1, OneNumber
    <3> HIDE DEF new, Was
    <3>4. plan.new = new
      BY <2>6 DEF new
    <3>5. QED
      BY <3>2, <3>3, <3>4 DEF Upto
  <2>10. QED
    BY <2>5, <2>8, <2>9
<1>2. QED
  BY <1>1, InvHolds, PTL

(* A rotation that is complete splits the history in two: the rotated file *)
(* holds exactly the changes that left the log, ends with the record it is *)
(* named after, and means what the log now begins with.                    *)
THEOREM SplitsInTwo ==
  ASSUME StepsBack = FALSE, Overtakes = FALSE
  PROVE  Spec => SplitInTwo
<1>1. ASSUME RotationInv, Trim, ~Tie(copies[target])
      PROVE  Splits(copies[target], copies'[target])
  <2> DEFINE old == copies[target]
             cut == SubSeq(old, 1, plan.end)
             e   == plan.end
             j   == LastDropped(old, Cutoff)
             d   == Max(Dropped(old, Cutoff))
  <2>1. pc = "written" /\ copies' = [copies EXCEPT ![target] = cut]
    BY <1>1 DEF Trim
  <2>2. RotationType /\ target \in DOMAIN copies /\ PlanFor(old) /\ main = plan.new
    BY <1>1, <2>1 DEF RotationInv, Stages
  <2>3. copies'[target] = cut
    BY <2>1, <2>2
  <2>4. ~TieAt(old, Cutoff)
    BY <1>1 DEF Tie, TieAt
  <2> HIDE DEF old
  <2>5. clock \in Int /\ Cutoff \in Int /\ Counted \in Nat
    BY <2>2, CutoffType
  <2>6. /\ Sound(old, clock, Counted) /\ Dropped(old, Cutoff) # {}
        /\ old \in Seq(Record) /\ Exact(old) /\ InTime(old, clock) /\ Numbered(old, Counted)
    BY <2>2 DEF PlanFor, Sound
  <2>7. /\ Ids(cut) = {old[i].id : i \in Dropped(old, Cutoff)}
        /\ Ids(main) = {old[i].id : i \in Retained(old, Cutoff)}
        /\ Ids(old) = Ids(cut) \cup Ids(main)
        /\ Changes(cut) = Dropped(old, Cutoff)
        /\ e \in 0 .. Len(old)
    BY <2>2, PlanKeeps
  <2>8. main = NewContent(old, Cutoff, clock) /\ e = CutoffEnd(old, Cutoff)
    BY <2>2, PlanIs
  <2>9. main[1].ts = old[d].ts /\ Upto(main, 1) = Upto(old, j)
    BY <2>5, <2>6, <2>8, NewIs
  <2>10. /\ \A i \in Changes(old) : i <= e <=> i \in Dropped(old, Cutoff)
         /\ \A h \in 0 .. Len(old) : (\A k \in Retained(old, Cutoff) : h < k) => h <= e
    BY <2>5, <2>6, <2>8, EndIs
  <2>11. /\ d \in Dropped(old, Cutoff) /\ j \in 1 .. Len(old)
         /\ \A i \in Dropped(old, Cutoff) : i <= j
    BY <2>5, <2>6, DroppedIs
  <2>12. \A k \in Retained(old, Cutoff) : j < k
    BY <2>4, <2>5, <2>6, LastBefore
  <2> HIDE DEF cut, e, j, d
  <2>13. Len(old) \in Nat /\ j \in 0 .. Len(old) /\ j <= e /\ e \in 1 .. Len(old)
    <3>1. Len(old) \in Nat
      BY <2>6
    <3>2. j \in 0 .. Len(old)
      BY <2>11, <3>1
    <3>3. j <= e
      BY <2>10, <2>12, <3>2
    <3>4. QED
      BY <2>7, <2>11, <3>1, <3>2, <3>3
  <2>14. Upto(old, e) = Upto(old, j)
    <3>1. Stays(old, j, e)
      BY <2>6, <2>11, <2>13, StaysAll
    <3>2. \A i \in Changes(old) : ~(j < i /\ i <= e)
      <4>1. \A i \in Changes(old) : i \in Int
        BY <2>6 DEF Changes
      <4>2. \A i \in Changes(old) : i <= e => i <= j
        BY <2>10, <2>11
      <4>3. QED
        BY <2>11, <4>1, <4>2
    <3>3. QED
      BY <3>1, <3>2 DEF Stays
  <2>15. Meaning(cut) = Meaning(SubSeq(main, 1, 1))
    BY <2>9, <2>14 DEF Upto, cut, e
  <2>16. Ids(cut) \cap Ids(main) = {}
    <3>1. SUFFICES ASSUME NEW i \in Dropped(old, Cutoff), NEW k \in Retained(old, Cutoff), old[i].id = old[k].id
          PROVE  FALSE
      BY <2>7
    <3>2. i \in Changes(old) /\ k \in Changes(old) /\ i # k
      BY DEF Dropped, Retained
    <3>3. (CHOOSE h \in Changes(old) : old[h].id = old[i].id) = i
      BY <2>6, <3>2, OneNumber
    <3>4. (CHOOSE h \in Changes(old) : old[h].id = old[k].id) = k
      BY <2>6, <3>2, OneNumber
    <3>5. QED
      BY <3>1, <3>2, <3>3, <3>4
  <2>17. cut[Max(Changes(cut))].ts = main[1].ts
    <3>1. Max(Changes(cut)) = d
      BY <2>7 DEF d
    <3>2. d \in Changes(old) /\ d \in 1 .. Len(old)
      BY <2>11 DEF Dropped, Changes
    <3>3. d <= e
      BY <2>10, <2>11, <3>2
    <3>4. d \in 1 .. e
      BY <2>7, <2>13, <3>2, <3>3
    <3>5. cut = [i \in 1 .. e |-> old[i]]
      BY <2>6, <2>7, Prefix DEF cut, e
    <3>6. cut[d] = old[d]
      BY <3>4, <3>5
    <3>7. QED
      BY <2>9, <3>1, <3>6
  <2>18. Splits(old, cut)
    BY <2>7, <2>15, <2>16, <2>17 DEF Splits
  <2>19. QED
    BY <2>3, <2>18 DEF old
<1>2. RotationInv /\ [Next]_vars =>
        [Trim /\ ~Tie(copies[target]) => Splits(copies[target], copies'[target])]_vars
  BY <1>1
<1>3. QED
  BY <1>2, InvHolds, PTL DEF Spec, SplitInTwo
=============================================================================
