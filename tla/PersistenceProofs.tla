------------------------- MODULE PersistenceProofs --------------------------
(***************************************************************************)
(* Theorems about Persistence, for all values of its constants.            *)
(***************************************************************************)
EXTENDS Persistence, WellFoundedInduction, SequenceTheorems, FiniteSetTheorems, TLAPS

-----------------------------------------------------------------------------
(* Lemmas about the operators of the model *)

(* A nonempty set of numbers with an upper bound has a greatest element,   *)
(* and Max finds it.                                                       *)
LEMMA MaxOfBounded ==
  ASSUME NEW N \in Nat, NEW S \in SUBSET (0 .. N), S # {}
  PROVE  Max(S) \in S /\ \A x \in S : x <= Max(S)
<1> DEFINE T == {N - x : x \in S}
<1>1. T \in SUBSET Nat /\ T # {}
  <2>1. \A x \in S : x \in 0 .. N /\ N - x \in Nat
    OBVIOUS
  <2>2. QED
    BY <2>1
<1>2. PICK d \in T : \A e \in T : <<e, d>> \notin OpToRel(<, Nat)
  <2>1. IsWellFoundedOn(OpToRel(<, Nat), Nat)
    BY NatLessThanWellFounded
  <2> HIDE DEF T
  <2>2. QED
    BY <1>1, <2>1, WFMin
<1>3. \A e \in T : d <= e
  <2> SUFFICES ASSUME NEW e \in T PROVE d <= e
    OBVIOUS
  <2>1. d \in Nat /\ e \in Nat
    BY <1>1
  <2>2. ~ (e < d)
    BY <1>2, <2>1 DEF OpToRel
  <2>3. QED
    BY <2>1, <2>2
<1>4. PICK m \in S : d = N - m
  BY <1>2
<1>5. \A x \in S : m >= x
  <2> TAKE x \in S
  <2>1. d <= N - x
    BY <1>3
  <2>2. QED
    BY <2>1, <1>4
<1>6. QED
  BY <1>5 DEF Max

(* The last position of a sequence that satisfies a test, when the test    *)
(* selects the positions I.                                                *)
LEMMA LastWithin ==
  ASSUME NEW n \in Nat, NEW I \in SUBSET (1 .. n), NEW m,
         m = IF I # {} THEN Max(I) ELSE 0
  PROVE  m \in Nat /\ (m > 0 => m \in I) /\ \A i \in I : i <= m
<1>1. CASE I = {}
  BY <1>1
<1>2. CASE I # {}
  <2>1. I \in SUBSET (0 .. n)
    OBVIOUS
  <2>2. Max(I) \in I /\ \A x \in I : x <= Max(I)
    BY <1>2, <2>1, MaxOfBounded
  <2>3. m = Max(I)
    BY <1>2
  <2>4. m \in I /\ \A i \in I : i <= m
    BY <2>2, <2>3
  <2>5. m \in Nat
    BY <2>4
  <2>6. QED
    BY <2>4, <2>5
<1>3. QED
  BY <1>1, <1>2

LEMMA ReplayType ==
  ASSUME NEW f \in Seq(Entry)
  PROVE  Replay(f) \in State
<1> DEFINE IsSnap(e) == e.kind = "snapshot"
           IsSet(e, k) == e.kind = "change" /\ e.key = k
           s == SelectLastInSeq(f, LAMBDA e : e.kind = "snapshot")
           l(k) == SelectLastInSeq(f, LAMBDA e : e.kind = "change" /\ e.key = k)
<1>1. Len(f) \in Nat /\ \A i \in 1 .. Len(f) : f[i] \in Entry
  OBVIOUS
<1>2. s \in Nat /\ (s > 0 => s \in 1 .. Len(f) /\ f[s].kind = "snapshot")
  <2> DEFINE I == {i \in 1 .. Len(f) : f[i].kind = "snapshot"}
  <2>1. s = IF I # {} THEN Max(I) ELSE 0
    BY DEF SelectLastInSeq
  <2>2. I \in SUBSET (1 .. Len(f))
    OBVIOUS
  <2>3. QED
    BY <1>1, <2>1, <2>2, LastWithin
<1>3. ASSUME NEW k \in Keys
      PROVE  l(k) \in Nat /\ (l(k) > 0 => l(k) \in 1 .. Len(f) /\ f[l(k)].kind = "change")
  <2> DEFINE I == {i \in 1 .. Len(f) : f[i].kind = "change" /\ f[i].key = k}
  <2>1. l(k) = IF I # {} THEN Max(I) ELSE 0
    BY DEF SelectLastInSeq
  <2>2. I \in SUBSET (1 .. Len(f))
    OBVIOUS
  <2>3. QED
    BY <1>1, <2>1, <2>2, LastWithin
<1>4. s > 0 => f[s].state \in State
  BY <1>1, <1>2 DEF Entry, ChangeEntry, SnapshotEntry
<1>5. ASSUME NEW k \in Keys, l(k) > s
      PROVE  f[l(k)].id \in Nat
  <2> HIDE DEF s, l
  <2>1. l(k) \in 1 .. Len(f)
    BY <1>2, <1>3, <1>5
  <2>2. QED
    BY <1>1, <2>1 DEF Entry, ChangeEntry, SnapshotEntry
<1>6. Replay(f) = [k \in Keys |-> IF l(k) > s THEN f[l(k)].id
                                  ELSE IF s > 0 THEN f[s].state[k] ELSE 0]
  BY DEF Replay
<1> HIDE DEF s, l
<1>7. QED
  BY <1>4, <1>5, <1>6 DEF State

LEMMA FramedType ==
  ASSUME NEW b \in Seq(Change), NEW offset \in Nat
  PROVE  /\ Framed(b, offset) \in Seq(ChangeEntry)
         /\ Len(Framed(b, offset)) = Len(b)
         /\ \A i \in 1 .. Len(b) : /\ Framed(b, offset)[i].kind = "change"
                                  /\ Framed(b, offset)[i].id = b[i].id
<1>1. Len(b) \in Nat /\ \A i \in 1 .. Len(b) : b[i] \in Change
  OBVIOUS
<1>2. \A i \in 1 .. Len(b) : Framed(b, offset)[i] \in ChangeEntry
  BY <1>1 DEF Framed, Change, ChangeEntry
<1>3. Framed(b, offset) \in [1 .. Len(b) -> ChangeEntry]
  BY <1>2 DEF Framed
<1>4. Framed(b, offset) \in Seq(ChangeEntry) /\ Len(Framed(b, offset)) = Len(b)
  BY <1>1, <1>3
<1>5. QED
  BY <1>4 DEF Framed

(* What SelectLastInSeq finds is the position that bounds all others. *)
LEMMA LastIs ==
  ASSUME NEW n \in Nat, NEW I \in SUBSET (1 .. n), NEW m \in Nat,
         m > 0 => m \in I, \A i \in I : i <= m
  PROVE  m = IF I # {} THEN Max(I) ELSE 0
<1>1. CASE I = {}
  BY <1>1
<1>2. CASE I # {}
  <2> DEFINE x == IF I # {} THEN Max(I) ELSE 0
  <2>1. x \in Nat /\ (x > 0 => x \in I) /\ \A i \in I : i <= x
    <3> HIDE DEF x
    <3>1. x = IF I # {} THEN Max(I) ELSE 0
      BY DEF x
    <3>2. QED
      BY <3>1, LastWithin
  <2>2. PICK i \in I : TRUE
    BY <1>2
  <2> HIDE DEF x
  <2>3. m > 0 /\ x > 0
    BY <2>1, <2>2
  <2>4. m = x
    BY <2>1, <2>3
  <2>5. QED
    BY <2>4 DEF x
<1>3. QED
  BY <1>1, <1>2

(* The last write of key k in a sequence of changes, and in a log; and the *)
(* last snapshot of a log.                                                 *)
LastIn(s, k)    == SelectLastInSeq(s, LAMBDA c : c.key = k)
LastWrite(f, k) == SelectLastInSeq(f, LAMBDA e : e.kind = "change" /\ e.key = k)
Snap(f)         == SelectLastInSeq(f, LAMBDA e : e.kind = "snapshot")

LEMMA LastInType ==
  ASSUME NEW X, NEW s \in Seq(X), NEW k
  PROVE  /\ LastIn(s, k) \in 0 .. Len(s)
         /\ LastIn(s, k) > 0 => s[LastIn(s, k)].key = k
         /\ \A i \in 1 .. Len(s) : s[i].key = k => i <= LastIn(s, k)
<1> DEFINE I == {i \in 1 .. Len(s) : s[i].key = k}
<1>1. LastIn(s, k) = IF I # {} THEN Max(I) ELSE 0
  BY DEF LastIn, SelectLastInSeq
<1>2. I \in SUBSET (1 .. Len(s)) /\ Len(s) \in Nat
  OBVIOUS
<1>3. /\ LastIn(s, k) \in Nat /\ (LastIn(s, k) > 0 => LastIn(s, k) \in I)
      /\ \A i \in I : i <= LastIn(s, k)
  BY <1>1, <1>2, LastWithin
<1>4. QED
  BY <1>2, <1>3

LEMMA LastInEmpty == ASSUME NEW k PROVE LastIn(<<>>, k) = 0
<1> DEFINE s == <<>>
<1>1. s \in Seq(Change) /\ Len(s) = 0
  OBVIOUS
<1> HIDE DEF s
<1>2. LastIn(s, k) \in 0 .. Len(s)
  BY <1>1, LastInType
<1>3. LastIn(s, k) = 0
  BY <1>1, <1>2
<1>4. QED
  BY <1>3 DEF s

LEMMA LastInIs ==
  ASSUME NEW X, NEW s \in Seq(X), NEW k, NEW m \in 0 .. Len(s),
         m > 0 => s[m].key = k, \A i \in 1 .. Len(s) : s[i].key = k => i <= m
  PROVE  LastIn(s, k) = m
<1> DEFINE I == {i \in 1 .. Len(s) : s[i].key = k}
<1>1. LastIn(s, k) = IF I # {} THEN Max(I) ELSE 0
  BY DEF LastIn, SelectLastInSeq
<1>2. /\ I \in SUBSET (1 .. Len(s)) /\ Len(s) \in Nat /\ m \in Nat
      /\ m > 0 => m \in I
      /\ \A i \in I : i <= m
  OBVIOUS
<1> HIDE DEF I
<1>3. m = IF I # {} THEN Max(I) ELSE 0
  BY <1>2, LastIs
<1>4. QED
  BY <1>1, <1>3

(* A later part decides, where it writes the key at all. *)
LEMMA LastInConcat ==
  ASSUME NEW X, NEW s \in Seq(X), NEW t \in Seq(X), NEW k
  PROVE  LastIn(s \o t, k) = IF LastIn(t, k) > 0 THEN Len(s) + LastIn(t, k) ELSE LastIn(s, k)
<1> DEFINE m == IF LastIn(t, k) > 0 THEN Len(s) + LastIn(t, k) ELSE LastIn(s, k)
<1>1. /\ s \o t \in Seq(X) /\ Len(s \o t) = Len(s) + Len(t)
      /\ Len(s) \in Nat /\ Len(t) \in Nat
      /\ \A i \in 1 .. Len(s) + Len(t) : (s \o t)[i] = IF i <= Len(s) THEN s[i] ELSE t[i - Len(s)]
  OBVIOUS
<1>2. /\ LastIn(s, k) \in 0 .. Len(s) /\ (LastIn(s, k) > 0 => s[LastIn(s, k)].key = k)
      /\ \A i \in 1 .. Len(s) : s[i].key = k => i <= LastIn(s, k)
  BY LastInType
<1>3. /\ LastIn(t, k) \in 0 .. Len(t) /\ (LastIn(t, k) > 0 => t[LastIn(t, k)].key = k)
      /\ \A i \in 1 .. Len(t) : t[i].key = k => i <= LastIn(t, k)
  BY LastInType
<1>4. m \in 0 .. Len(s \o t) /\ (m > 0 => (s \o t)[m].key = k)
  BY <1>1, <1>2, <1>3
<1>5. ASSUME NEW i \in 1 .. Len(s \o t), (s \o t)[i].key = k PROVE i <= m
  <2>1. CASE i <= Len(s)
    BY <1>1, <1>2, <1>3, <1>5, <2>1
  <2>2. CASE i > Len(s)
    <3>1. i - Len(s) \in 1 .. Len(t) /\ t[i - Len(s)].key = k
      BY <1>1, <1>5, <2>2
    <3>2. i - Len(s) <= LastIn(t, k)
      BY <1>3, <3>1
    <3>3. QED
      BY <1>1, <1>3, <3>1, <3>2
  <2>3. QED
    BY <1>1, <2>1, <2>2
<1> HIDE DEF m
<1>6. LastIn(s \o t, k) = m
  BY <1>1, <1>4, <1>5, LastInIs
<1>7. QED
  BY <1>6 DEF m

(* What one more change does. *)
LEMMA LastInAppend ==
  ASSUME NEW X, NEW s \in Seq(X), NEW c \in X, NEW k
  PROVE  LastIn(Append(s, c), k) = IF c.key = k THEN Len(s) + 1 ELSE LastIn(s, k)
<1>1. <<c>> \in Seq(X) /\ Len(<<c>>) = 1 /\ <<c>>[1] = c /\ Append(s, c) = s \o <<c>>
  OBVIOUS
<1>2. LastIn(<<c>>, k) = IF c.key = k THEN 1 ELSE 0
  <2> DEFINE m == IF c.key = k THEN 1 ELSE 0
  <2>1. /\ m \in 0 .. Len(<<c>>) /\ (m > 0 => <<c>>[m].key = k)
        /\ \A i \in 1 .. Len(<<c>>) : <<c>>[i].key = k => i <= m
    BY <1>1
  <2> HIDE DEF m
  <2>2. LastIn(<<c>>, k) = m
    BY <1>1, <2>1, LastInIs
  <2>3. QED
    BY <2>2 DEF m
<1>3. LastIn(s \o <<c>>, k) = IF LastIn(<<c>>, k) > 0 THEN Len(s) + LastIn(<<c>>, k)
                            ELSE LastIn(s, k)
  BY <1>1, LastInConcat
<1>4. Append(s, c) = s \o <<c>>
  BY <1>1
<1>5. QED
  BY <1>2, <1>3, <1>4

(* Framing keeps ids and keys. *)
LEMMA FramedLast ==
  ASSUME NEW b \in Seq(Change), NEW offset \in Nat, NEW k
  PROVE  /\ LastIn(Framed(b, offset), k) = LastIn(b, k)
         /\ \A i \in 1 .. Len(b) : /\ Framed(b, offset)[i].id = b[i].id
                                  /\ Framed(b, offset)[i].key = b[i].key
                                  /\ Framed(b, offset)[i].at = offset + i - 1
<1> DEFINE g == Framed(b, offset)
           m == LastIn(b, k)
<1>1. \A i \in 1 .. Len(b) : g[i].id = b[i].id /\ g[i].key = b[i].key /\ g[i].at = offset + i - 1
  BY DEF Framed
<1>2. g \in Seq(ChangeEntry) /\ Len(g) = Len(b)
  BY FramedType
<1>3. /\ m \in 0 .. Len(b) /\ (m > 0 => b[m].key = k)
      /\ \A i \in 1 .. Len(b) : b[i].key = k => i <= m
  BY LastInType
<1> HIDE DEF g, m
<1>4. /\ m \in 0 .. Len(g) /\ (m > 0 => g[m].key = k)
      /\ \A i \in 1 .. Len(g) : g[i].key = k => i <= m
  BY <1>1, <1>2, <1>3
<1>5. LastIn(g, k) = m
  BY <1>2, <1>4, LastInIs
<1>6. QED
  BY <1>1, <1>5 DEF g, m

(* The last snapshot and the last write of a log, found by what they are.  *)
LEMMA SnapIs ==
  ASSUME NEW f \in Seq(Entry), NEW m \in 0 .. Len(f),
         m > 0 => f[m].kind = "snapshot",
         \A i \in 1 .. Len(f) : f[i].kind = "snapshot" => i <= m
  PROVE  Snap(f) = m
<1> DEFINE I == {i \in 1 .. Len(f) : f[i].kind = "snapshot"}
<1>1. Snap(f) = IF I # {} THEN Max(I) ELSE 0
  BY DEF Snap, SelectLastInSeq
<1>2. /\ I \in SUBSET (1 .. Len(f)) /\ Len(f) \in Nat /\ m \in Nat
      /\ m > 0 => m \in I
      /\ \A i \in I : i <= m
  OBVIOUS
<1> HIDE DEF I
<1>3. m = IF I # {} THEN Max(I) ELSE 0
  BY <1>2, LastIs
<1>4. QED
  BY <1>1, <1>3

LEMMA SnapType ==
  ASSUME NEW f \in Seq(Entry)
  PROVE  /\ Snap(f) \in 0 .. Len(f)
         /\ Snap(f) > 0 => f[Snap(f)].kind = "snapshot"
         /\ \A i \in 1 .. Len(f) : f[i].kind = "snapshot" => i <= Snap(f)
<1> DEFINE I == {i \in 1 .. Len(f) : f[i].kind = "snapshot"}
<1>1. Snap(f) = IF I # {} THEN Max(I) ELSE 0
  BY DEF Snap, SelectLastInSeq
<1>2. I \in SUBSET (1 .. Len(f)) /\ Len(f) \in Nat
  OBVIOUS
<1>3. Snap(f) \in Nat /\ (Snap(f) > 0 => Snap(f) \in I) /\ \A i \in I : i <= Snap(f)
  BY <1>1, <1>2, LastWithin
<1>4. QED
  BY <1>2, <1>3

LEMMA LastWriteIs ==
  ASSUME NEW f \in Seq(Entry), NEW k, NEW m \in 0 .. Len(f),
         m > 0 => f[m].kind = "change" /\ f[m].key = k,
         \A i \in 1 .. Len(f) : f[i].kind = "change" /\ f[i].key = k => i <= m
  PROVE  LastWrite(f, k) = m
<1> DEFINE I == {i \in 1 .. Len(f) : f[i].kind = "change" /\ f[i].key = k}
<1>1. LastWrite(f, k) = IF I # {} THEN Max(I) ELSE 0
  BY DEF LastWrite, SelectLastInSeq
<1>2. /\ I \in SUBSET (1 .. Len(f)) /\ Len(f) \in Nat /\ m \in Nat
      /\ m > 0 => m \in I
      /\ \A i \in I : i <= m
  OBVIOUS
<1> HIDE DEF I
<1>3. m = IF I # {} THEN Max(I) ELSE 0
  BY <1>2, LastIs
<1>4. QED
  BY <1>1, <1>3

LEMMA LastWriteType ==
  ASSUME NEW f \in Seq(Entry), NEW k
  PROVE  /\ LastWrite(f, k) \in 0 .. Len(f)
         /\ LastWrite(f, k) > 0 => f[LastWrite(f, k)].kind = "change" /\ f[LastWrite(f, k)].key = k
         /\ \A i \in 1 .. Len(f) : f[i].kind = "change" /\ f[i].key = k => i <= LastWrite(f, k)
<1> DEFINE I == {i \in 1 .. Len(f) : f[i].kind = "change" /\ f[i].key = k}
<1>1. LastWrite(f, k) = IF I # {} THEN Max(I) ELSE 0
  BY DEF LastWrite, SelectLastInSeq
<1>2. I \in SUBSET (1 .. Len(f)) /\ Len(f) \in Nat
  OBVIOUS
<1>3. /\ LastWrite(f, k) \in Nat /\ (LastWrite(f, k) > 0 => LastWrite(f, k) \in I)
      /\ \A i \in I : i <= LastWrite(f, k)
  BY <1>1, <1>2, LastWithin
<1>4. QED
  BY <1>2, <1>3

LEMMA ReplayIs ==
  ASSUME NEW f
  PROVE  Replay(f) = [k \in Keys |-> IF LastWrite(f, k) > Snap(f) THEN f[LastWrite(f, k)].id
                                     ELSE IF Snap(f) > 0 THEN f[Snap(f)].state[k] ELSE 0]
  BY DEF Replay, LastWrite, Snap

(* Replay of a log to which changes were appended: the last of them that   *)
(* writes a key decides, or the log before.                                *)
LEMMA ReplayChanges ==
  ASSUME NEW f \in Seq(Entry), NEW g \in Seq(ChangeEntry), NEW k \in Keys
  PROVE  Replay(f \o g)[k] = IF LastIn(g, k) > 0 THEN g[LastIn(g, k)].id ELSE Replay(f)[k]
<1> DEFINE h == f \o g
           m == IF LastIn(g, k) > 0 THEN Len(f) + LastIn(g, k) ELSE LastWrite(f, k)
<1>1. /\ h \in Seq(Entry) /\ Len(h) = Len(f) + Len(g) /\ Len(f) \in Nat /\ Len(g) \in Nat
      /\ \A i \in 1 .. Len(f) + Len(g) : h[i] = IF i <= Len(f) THEN f[i] ELSE g[i - Len(f)]
  <2>1. g \in Seq(Entry)
    BY DEF Entry
  <2>2. QED
    BY <2>1
<1>2. \A i \in 1 .. Len(g) : g[i].kind = "change"
  <2>1. \A i \in 1 .. Len(g) : g[i] \in ChangeEntry
    OBVIOUS
  <2>2. QED
    BY <2>1 DEF ChangeEntry
<1>3. /\ LastIn(g, k) \in 0 .. Len(g) /\ (LastIn(g, k) > 0 => g[LastIn(g, k)].key = k)
      /\ \A i \in 1 .. Len(g) : g[i].key = k => i <= LastIn(g, k)
  BY LastInType
<1>4. /\ Snap(f) \in 0 .. Len(f)
      /\ Snap(f) > 0 => f[Snap(f)].kind = "snapshot"
      /\ \A i \in 1 .. Len(f) : f[i].kind = "snapshot" => i <= Snap(f)
  BY SnapType
<1>5. /\ LastWrite(f, k) \in 0 .. Len(f)
      /\ LastWrite(f, k) > 0 => f[LastWrite(f, k)].kind = "change" /\ f[LastWrite(f, k)].key = k
      /\ \A i \in 1 .. Len(f) : f[i].kind = "change" /\ f[i].key = k => i <= LastWrite(f, k)
  BY LastWriteType
<1> HIDE DEF h
<1>6. Snap(h) = Snap(f)
  <2>1. /\ Snap(f) \in 0 .. Len(h)
        /\ Snap(f) > 0 => h[Snap(f)].kind = "snapshot"
    BY <1>1, <1>4
  <2>2. ASSUME NEW i \in 1 .. Len(h), h[i].kind = "snapshot" PROVE i <= Snap(f)
    <3>1. CASE i <= Len(f)
      BY <1>1, <1>4, <2>2, <3>1
    <3>2. CASE i > Len(f)
      <4>1. i - Len(f) \in 1 .. Len(g) /\ h[i] = g[i - Len(f)]
        BY <1>1, <3>2
      <4>2. h[i].kind = "change"
        BY <1>2, <4>1
      <4>3. QED
        BY <2>2, <4>2
    <3>3. QED
      BY <1>1, <3>1, <3>2
  <2>3. QED
    BY <1>1, <2>1, <2>2, SnapIs
<1>7. LastWrite(h, k) = m
  <2>1. m \in 0 .. Len(h) /\ (m > 0 => h[m].kind = "change" /\ h[m].key = k)
    <3>1. CASE LastIn(g, k) > 0
      <4>1. m = Len(f) + LastIn(g, k) /\ h[m] = g[LastIn(g, k)] /\ LastIn(g, k) \in 1 .. Len(g)
        BY <1>1, <1>3, <3>1
      <4>2. QED
        BY <1>1, <1>2, <1>3, <4>1
    <3>2. CASE ~(LastIn(g, k) > 0)
      BY <1>1, <1>5, <3>2
    <3>3. QED
      BY <3>1, <3>2
  <2>2. ASSUME NEW i \in 1 .. Len(h), h[i].kind = "change", h[i].key = k PROVE i <= m
    <3>1. CASE i <= Len(f)
      BY <1>1, <1>3, <1>5, <2>2, <3>1
    <3>2. CASE i > Len(f)
      <4>1. i - Len(f) \in 1 .. Len(g) /\ h[i] = g[i - Len(f)]
        BY <1>1, <3>2
      <4>2. i - Len(f) <= LastIn(g, k)
        BY <1>3, <2>2, <4>1
      <4>3. QED
        BY <1>1, <1>3, <4>1, <4>2
    <3>3. QED
      BY <1>1, <3>1, <3>2
  <2> HIDE DEF m
  <2>3. QED
    BY <1>1, <2>1, <2>2, LastWriteIs
<1>8. /\ Replay(h)[k] = IF m > Snap(f) THEN h[m].id
                       ELSE IF Snap(f) > 0 THEN h[Snap(f)].state[k] ELSE 0
      /\ Replay(f)[k] = IF LastWrite(f, k) > Snap(f) THEN f[LastWrite(f, k)].id
                       ELSE IF Snap(f) > 0 THEN f[Snap(f)].state[k] ELSE 0
  <2> HIDE DEF m
  <2>1. QED
    BY <1>6, <1>7, ReplayIs
<1>9. CASE LastIn(g, k) > 0
  <2>1. m = Len(f) + LastIn(g, k) /\ m > Snap(f) /\ h[m] = g[LastIn(g, k)]
    BY <1>1, <1>3, <1>4, <1>9
  <2>2. QED
    BY <1>8, <1>9, <2>1 DEF h
<1>10. CASE ~(LastIn(g, k) > 0)
  <2>1. m = LastWrite(f, k)
    BY <1>10
  <2>2. /\ m > Snap(f) => h[m] = f[m]
        /\ Snap(f) > 0 => h[Snap(f)] = f[Snap(f)]
    BY <1>1, <1>4, <1>5, <2>1
  <2> HIDE DEF m
  <2>3. Replay(h)[k] = Replay(f)[k]
    BY <1>8, <2>1, <2>2
  <2>4. QED
    BY <1>10, <2>3 DEF h
<1>11. QED
  BY <1>9, <1>10

(* Replay of a log that ends with a snapshot. *)
LEMMA ReplaySnapshot ==
  ASSUME NEW f \in Seq(Entry), NEW e \in Entry, e.kind = "snapshot", e.state \in State
  PROVE  Replay(Append(f, e)) = e.state
<1> DEFINE h == Append(f, e)
           n == Len(f) + 1
<1>1. h \in Seq(Entry) /\ Len(h) = n /\ h[n] = e /\ n \in Nat /\ n > 0
  OBVIOUS
<1> HIDE DEF h, n
<1>2. Snap(h) = n
  BY <1>1, SnapIs
<1>3. \A k \in Keys : LastWrite(h, k) \in 0 .. n
  BY <1>1, LastWriteType
<1>4. Replay(h) = [k \in Keys |-> e.state[k]]
  BY <1>1, <1>2, <1>3, ReplayIs
<1>5. QED
  BY <1>4 DEF State, h

(* All records of s are of changes up to n. *)
UpTo(s, n) == \A i \in DOMAIN s : s[i].id \in 0 .. n

(* Appending records to a log. *)
LEMMA Appended ==
  ASSUME NEW f \in Seq(Entry), NEW g \in Seq(Entry), NEW n \in Nat,
         f # <<>>, UpTo(f, n), UpTo(g, n)
  PROVE  f \o g \in Seq(Entry) /\ f \o g # <<>> /\ UpTo(f \o g, n)
<1>1. f \o g \in Seq(Entry) /\ Len(f \o g) = Len(f) + Len(g)
  OBVIOUS
<1>2. \A i \in 1 .. Len(f \o g) :
        (f \o g)[i] = IF i <= Len(f) THEN f[i] ELSE g[i - Len(f)]
  OBVIOUS
<1>3. UpTo(f \o g, n)
  BY <1>1, <1>2 DEF UpTo
<1>4. QED
  BY <1>1, <1>3

(* The newest record of a log. *)
LEMMA NewestType ==
  ASSUME NEW f \in Seq(Entry), f # <<>>, NEW n \in Nat, UpTo(f, n)
  PROVE  /\ Newest(f) \in 0 .. n
         /\ UpTo(f, Newest(f))
         /\ \E i \in DOMAIN f : f[i].id = Newest(f)
<1> DEFINE S == {f[i].id : i \in DOMAIN f}
<1>1. DOMAIN f = 1 .. Len(f) /\ Len(f) \in Nat \ {0}
  OBVIOUS
<1>2. \A i \in DOMAIN f : f[i].id \in 0 .. n
  <2>1. \A i \in DOMAIN f : f[i].id \in Nat
    BY <1>1 DEF Entry, ChangeEntry, SnapshotEntry
  <2>2. QED
    BY <2>1 DEF UpTo
<1>3. S \in SUBSET (0 .. n) /\ S # {}
  BY <1>1, <1>2
<1>4. Max(S) \in S /\ \A x \in S : x <= Max(S)
  BY <1>3, MaxOfBounded
<1>5. /\ Newest(f) \in S /\ Newest(f) \in 0 .. n
      /\ \A i \in DOMAIN f : f[i].id <= Newest(f)
  BY <1>3, <1>4 DEF Newest
<1>6. QED
  BY <1>2, <1>5 DEF UpTo

-----------------------------------------------------------------------------
(* Type correctness.  CrashRestart cuts the history at the newest record   *)
(* of the log, so the proof also needs that no record is ahead of it.      *)
TypeInv ==
  /\ TypeOK
  /\ file # <<>>
  /\ UpTo(file, Len(history))
  /\ UpTo(pending, Len(history))
  /\ UpTo(orphan, Len(history))
  /\ \A t \in Tasks : UpTo(batch[t], Len(history))

LEMMA InitType == Init => TypeInv
<1> SUFFICES ASSUME Init PROVE TypeInv
  OBVIOUS
<1> USE PersistenceAssumption DEF Init
<1>1. Empty \in State
  BY DEF Empty, State
<1>2. file \in Seq(Entry) /\ Len(file) = 1 /\ file[1].id = 0
  BY <1>1 DEF Entry, SnapshotEntry
<1>3. /\ <<>> \in Seq(Change) /\ <<>> \in Seq(ChangeEntry)
      /\ Len(history) = 0 /\ UpTo(<<>>, 0)
  BY DEF UpTo
<1>4. TypeOK
  BY <1>1, <1>2, <1>3 DEF TypeOK, Tasks
<1>5. UpTo(file, 0)
  BY <1>2 DEF UpTo
<1>6. QED
  BY <1>2, <1>3, <1>4, <1>5 DEF TypeInv

LEMMA CommitType == ASSUME TypeInv, NEW k \in Keys, Commit(k) PROVE TypeInv'
<1> DEFINE n == Len(history)
           c == [id |-> n + 1, key |-> k]
<1>1. TypeOK'
  BY DEF TypeInv, TypeOK, Commit, State, Change, jobs, snap, ghosts
<1>2. Len(history') = n + 1 /\ n \in Nat
  BY DEF TypeInv, TypeOK, Commit
<1>3. ASSUME NEW s, UpTo(s, n) PROVE UpTo(s, n + 1)
  BY <1>2, <1>3 DEF UpTo
<1>4. UpTo(pending', n + 1)
  <2>1. pending' = Append(pending, c) /\ pending \in Seq(Change) /\ UpTo(pending, n + 1)
    BY <1>3 DEF TypeInv, TypeOK, Commit
  <2>2. /\ DOMAIN pending' = 1 .. Len(pending) + 1 /\ DOMAIN pending = 1 .. Len(pending)
        /\ Len(pending) \in Nat /\ pending'[Len(pending) + 1] = c
        /\ \A i \in 1 .. Len(pending) : pending'[i] = pending[i]
    BY <2>1
  <2>3. QED
    BY <1>2, <2>1, <2>2 DEF UpTo
<1>5. UNCHANGED <<file, orphan, batch>>
  BY DEF Commit, jobs
<1>6. QED
  BY <1>1, <1>2, <1>3, <1>4, <1>5 DEF TypeInv

(* Dequeueing leaves a tail of the queue. *)
LEMMA DequeueType ==
  ASSUME TypeInv, NEW t \in Tasks, Dequeue(t)
  PROVE  pending' \in Seq(Change) /\ UpTo(pending', Len(history))
<1> DEFINE n == Len(batch[t])
           m == Len(pending)
<1>1. pending \in Seq(Change) /\ UpTo(pending, Len(history)) /\ n \in Nat /\ m \in Nat
  BY DEF TypeInv, TypeOK
<1>2. CASE ~ (n <= m)
  <2>1. pending' = <<>>
    BY <1>2 DEF Dequeue
  <2>2. QED
    BY <2>1 DEF UpTo
<1>3. CASE n <= m
  <2>1. pending' = SubSeq(pending, n + 1, m)
    BY <1>3 DEF Dequeue
  <2> HIDE DEF n
  <2>2. /\ pending' \in Seq(Change) /\ Len(pending') = m - n
        /\ \A i \in 1 .. m - n : pending'[i] = pending[n + i]
    BY <1>1, <1>3, <2>1
  <2>3. ASSUME NEW i \in DOMAIN pending' PROVE pending'[i].id \in 0 .. Len(history)
    <3>1. n + i \in DOMAIN pending /\ pending'[i] = pending[n + i]
      BY <1>1, <1>3, <2>2
    <3>2. QED
      BY <1>1, <3>1 DEF UpTo
  <2>4. QED
    BY <2>2, <2>3 DEF UpTo
<1>4. QED
  BY <1>2, <1>3

(* A snapshot or none: the log stays a log of committed changes. *)
LEMMA SnapshotType ==
  ASSUME TypeInv, NEW c \in Int, MaybeSnapshot(c)
  PROVE  /\ file' \in Seq(Entry) /\ file' # <<>> /\ UpTo(file', Len(history))
         /\ changes' \in {0, c} /\ force' \in BOOLEAN /\ refused' \in BOOLEAN
<1>1. /\ file \in Seq(Entry) /\ file # <<>> /\ UpTo(file, Len(history))
      /\ Len(history) \in Nat /\ force \in BOOLEAN /\ refused \in BOOLEAN /\ statedict \in State
  BY DEF TypeInv, TypeOK
<1>2. CASE UNCHANGED file
  BY <1>1, <1>2 DEF MaybeSnapshot
<1>3. CASE file' = Append(file, SnapshotOf(Len(file)))
  <2> DEFINE e == SnapshotOf(Len(file))
  <2>1. e \in Entry /\ e.id = Len(history)
    BY <1>1 DEF SnapshotOf, Entry, SnapshotEntry
  <2>2. <<e>> \in Seq(Entry) /\ UpTo(<<e>>, Len(history)) /\ file' = file \o <<e>>
    BY <1>1, <1>3, <2>1 DEF UpTo
  <2>3. QED
    BY <1>1, <2>2, Appended DEF MaybeSnapshot
<1>4. QED
  BY <1>2, <1>3 DEF MaybeSnapshot

(* Framed records written to the log, all or a leading part of them. *)
LEMMA WriteType ==
  ASSUME TypeInv, NEW g \in Seq(ChangeEntry), UpTo(g, Len(history))
  PROVE  /\ file \o g \in Seq(Entry) /\ file \o g # <<>>
         /\ UpTo(file \o g, Len(history))
<1>1. g \in Seq(Entry)
  BY DEF Entry
<1>2. QED
  BY <1>1, Appended DEF TypeInv, TypeOK

LEMMA FramedUpTo ==
  ASSUME TypeInv, NEW t \in Tasks
  PROVE  /\ Framed(batch[t], base[t]) \in Seq(ChangeEntry)
         /\ UpTo(Framed(batch[t], base[t]), Len(history))
<1>1. batch[t] \in Seq(Change) /\ base[t] \in Nat /\ UpTo(batch[t], Len(history))
  BY DEF TypeInv, TypeOK
<1>2. QED
  BY <1>1, FramedType DEF UpTo

(* Listing the queue. *)
LEMMA BeginType ==
  ASSUME TypeInv, NEW t \in Tasks, BeginFlush(t)
  PROVE  /\ batch' \in [Tasks -> Seq(Change)] /\ base' \in [Tasks -> Nat]
         /\ \A u \in Tasks : UpTo(batch'[u], Len(history))
  BY DEF TypeInv, TypeOK, BeginFlush

LEMMA TasksType == "bg" \in Tasks /\ "closer" \in Tasks
  BY DEF Tasks

LEMMA StepType == TypeInv /\ [Next]_vars => TypeInv'
<1> SUFFICES ASSUME TypeInv, [Next]_vars PROVE TypeInv'
  OBVIOUS
<1> USE PersistenceAssumption, TasksType
<1>1. CASE UNCHANGED vars
  BY <1>1 DEF TypeInv, TypeOK, UpTo, vars, memory, jobs, snap, ghosts
<1>2. CASE \E k \in Keys : Commit(k)
  BY <1>2, CommitType
<1>3. CASE RequestSnapshot
  BY <1>3 DEF RequestSnapshot, TypeInv, TypeOK, memory, jobs, ghosts
<1>4. ASSUME NEW t \in Tasks, ReadSize(t) PROVE TypeInv'
  BY <1>4 DEF ReadSize, TypeInv, TypeOK, memory, jobs, snap, ghosts
<1>5. ASSUME NEW t \in Tasks, Write(t) PROVE TypeInv'
  <2> DEFINE g == Framed(batch[t], base[t])
  <2>1. g \in Seq(ChangeEntry) /\ UpTo(g, Len(history))
    BY FramedUpTo
  <2> HIDE DEF g
  <2>2. file \o g \in Seq(Entry) /\ file \o g # <<>> /\ UpTo(file \o g, Len(history))
    BY <2>1, WriteType
  <2>3. file' = file \o g
    BY <1>5 DEF Write, g
  <2>4. QED
    BY <1>5, <2>2, <2>3 DEF Write, TypeInv, TypeOK, memory, jobs, snap, ghosts
<1>6. ASSUME NEW t \in Tasks, WriteFails(t) PROVE TypeInv'
  BY <1>6 DEF WriteFails, TypeInv, TypeOK, memory, jobs, snap, ghosts
<1>7. ASSUME NEW t \in Tasks, Fail(t) PROVE TypeInv'
  BY <1>7 DEF Fail, TypeInv, TypeOK, memory, jobs, snap, ghosts
<1>8. ASSUME NEW t \in Tasks, FlushStart(t) PROVE TypeInv'
  BY <1>8, BeginType DEF FlushStart, BeginFlush, TypeInv, TypeOK, memory, snap, ghosts
<1>9. ASSUME NEW t \in Tasks, FlushDone(t) PROVE TypeInv'
  <2>1. pending' \in Seq(Change) /\ UpTo(pending', Len(history))
    BY <1>9, DequeueType DEF FlushDone
  <2>2. changes' \in Nat
    BY <1>9 DEF FlushDone, Counted, TypeInv, TypeOK
  <2>3. QED
    BY <1>9, <2>1, <2>2 DEF FlushDone, TypeInv, TypeOK, jobs, ghosts
<1>10. ASSUME NEW t \in Tasks, FileClosed(t) PROVE TypeInv'
  BY <1>10 DEF FileClosed, TypeInv, TypeOK, memory, jobs, snap, ghosts
<1>11. CASE BgStart
  BY <1>11 DEF BgStart, TypeInv, TypeOK, memory, jobs, snap, ghosts
<1>12. CASE BgFlush
  BY <1>12, BeginType DEF BgFlush, BeginFlush, TypeInv, TypeOK, memory, snap, ghosts
<1>13. CASE BgTick
  <2>1. MaybeSnapshot(changes) /\ changes \in Nat
    BY <1>13 DEF BgTick, TypeInv, TypeOK
  <2>2. /\ file' \in Seq(Entry) /\ file' # <<>> /\ UpTo(file', Len(history))
        /\ changes' \in Nat /\ force' \in BOOLEAN /\ refused' \in BOOLEAN
    BY <2>1, SnapshotType
  <2>3. UNCHANGED <<memory, pc, jobs, orphan, cancel, flush_failed, opened, ghosts>>
    BY <1>13 DEF BgTick
  <2>4. QED
    BY <2>2, <2>3 DEF TypeInv, TypeOK, memory, jobs, ghosts
<1>14. CASE BgDone
  <2>1. MaybeSnapshot(Counted("bg")) /\ Counted("bg") \in Nat
    BY <1>14 DEF BgDone, Counted, TypeInv, TypeOK
  <2>2. Dequeue("bg")
    BY <1>14 DEF BgDone
  <2>3. /\ file' \in Seq(Entry) /\ file' # <<>> /\ UpTo(file', Len(history))
        /\ changes' \in Nat /\ force' \in BOOLEAN /\ refused' \in BOOLEAN
    BY <2>1, SnapshotType
  <2>4. pending' \in Seq(Change) /\ UpTo(pending', Len(history))
    BY <2>2, DequeueType
  <2>5. QED
    BY <1>14, <2>3, <2>4 DEF BgDone, TypeInv, TypeOK, jobs, ghosts
<1>15. CASE BgShort
  <2>1. Dequeue("bg")
    BY <1>15 DEF BgShort
  <2>2. pending' \in Seq(Change) /\ UpTo(pending', Len(history))
    BY <2>1, DequeueType
  <2>3. changes' \in Nat
    BY <1>15 DEF BgShort, Counted, TypeInv, TypeOK
  <2>4. QED
    BY <1>15, <2>2, <2>3 DEF BgShort, TypeInv, TypeOK, jobs, ghosts
<1>16. CASE BgCancelled
  <2>1. orphan' \in Seq(ChangeEntry) /\ UpTo(orphan', Len(history))
    <3>1. <<>> \in Seq(ChangeEntry) /\ UpTo(<<>>, Len(history))
      BY DEF UpTo
    <3>2. orphan' \in {<<>>, Framed(batch["bg"], base["bg"]), orphan}
      BY <1>16 DEF BgCancelled
    <3>3. QED
      BY <3>1, <3>2, FramedUpTo DEF TypeInv, TypeOK
  <2>2. /\ file' \in Seq(Entry) /\ file' # <<>> /\ UpTo(file', Len(history))
        /\ changes' \in Nat /\ force' \in BOOLEAN /\ refused' \in BOOLEAN
    <3>1. changes \in Nat /\ (MaybeSnapshot(changes) \/ UNCHANGED <<file, changes, force, refused>>)
      BY <1>16 DEF BgCancelled, TypeInv, TypeOK, snap
    <3>2. CASE MaybeSnapshot(changes)
      BY <3>1, <3>2, SnapshotType
    <3>3. CASE UNCHANGED <<file, changes, force, refused>>
      BY <3>1, <3>3 DEF TypeInv, TypeOK
    <3>4. QED
      BY <3>1, <3>2, <3>3
  <2>3. /\ batch' \in [Tasks -> Seq(Change)] /\ base' \in [Tasks -> Nat]
        /\ \A u \in Tasks : UpTo(batch'[u], Len(history))
    BY <1>16, BeginType DEF BgCancelled, TypeInv, TypeOK, jobs
  <2>4. /\ pc' \in [Tasks -> {"new", "idle", "sizing", "writing", "written", "failed",
                             "awaiting", "raised", "done", "error"}]
        /\ cancel' = "handled"
    BY <1>16 DEF BgCancelled, BeginFlush, TypeInv, TypeOK
  <2>5. UNCHANGED <<memory, flush_failed, opened, ghosts>>
    BY <1>16 DEF BgCancelled
  <2>6. QED
    BY <2>1, <2>2, <2>3, <2>4, <2>5 DEF TypeInv, TypeOK, memory, ghosts
<1>17. CASE OrphanWrite
  <2>1. orphan \in Seq(ChangeEntry) /\ UpTo(orphan, Len(history))
    BY DEF TypeInv, TypeOK
  <2>2. file \o orphan \in Seq(Entry) /\ file \o orphan # <<>> /\ UpTo(file \o orphan, Len(history))
    BY <2>1, WriteType
  <2>3. file' = file \o orphan \/ file' = file
    BY <1>17 DEF OrphanWrite
  <2>4. orphan' = <<>> /\ <<>> \in Seq(ChangeEntry) /\ UpTo(<<>>, Len(history))
    BY <1>17 DEF OrphanWrite, UpTo
  <2>5. QED
    BY <1>17, <2>2, <2>3, <2>4 DEF OrphanWrite, TypeInv, TypeOK, memory, jobs, snap, ghosts
<1>18. CASE CloseBegin
  BY <1>18 DEF CloseBegin, TypeInv, TypeOK, memory, jobs, snap
<1>19. CASE CloseRaises
  BY <1>19 DEF CloseRaises, TypeInv, TypeOK, memory, jobs, snap, ghosts
<1>20. CASE CloseFlush
  BY <1>20, BeginType DEF CloseFlush, BeginFlush, TypeInv, TypeOK, memory, snap, ghosts
<1>21. CASE CloseFile
  BY <1>21 DEF CloseFile, TypeInv, TypeOK, memory, jobs, snap, ghosts
<1>22. CASE CloseDone
  <2>1. pending' \in Seq(Change) /\ UpTo(pending', Len(history))
    BY <1>22, DequeueType DEF CloseDone
  <2>2. changes' \in Nat /\ opened' \in BOOLEAN
    BY <1>22 DEF CloseDone, Counted, Short, TypeInv, TypeOK
  <2>3. QED
    BY <1>22, <2>1, <2>2 DEF CloseDone, TypeInv, TypeOK, jobs, ghosts
<1>23. CASE CrashRestart
  <2>0. PICK w \in Landing : \E n \in 0 .. Len(w) : file' = file \o SubSeq(w, 1, n)
    BY <1>23 DEF CrashRestart
  <2>1. PICK n \in 0 .. Len(w) : file' = file \o SubSeq(w, 1, n)
    BY <2>0
  <2>2. w \in Seq(ChangeEntry) /\ UpTo(w, Len(history))
    <3>1. <<>> \in Seq(ChangeEntry) /\ UpTo(<<>>, Len(history))
      BY DEF UpTo
    <3>2. QED
      BY <3>1, FramedUpTo DEF Landing, TypeInv, TypeOK
  <2>3. SubSeq(w, 1, n) \in Seq(ChangeEntry) /\ UpTo(SubSeq(w, 1, n), Len(history))
    BY <2>2 DEF UpTo
  <2>4. file' \in Seq(Entry) /\ file' # <<>> /\ UpTo(file', Len(history))
    BY <2>1, <2>3, WriteType
  <2>5. Newest(file') \in 0 .. Len(history) /\ UpTo(file', Newest(file'))
    BY <2>4, NewestType DEF TypeInv, TypeOK
  <2>6. history' \in Seq(Change) /\ Len(history') = Newest(file')
    <3>1. history' = SubSeq(history, 1, Newest(file')) /\ history \in Seq(Change)
      BY <1>23 DEF CrashRestart, TypeInv, TypeOK
    <3> DEFINE m == Newest(file')
    <3>2. m \in 0 .. Len(history)
      BY <2>5
    <3> HIDE DEF m
    <3>3. SubSeq(history, 1, m) \in Seq(Change) /\ Len(SubSeq(history, 1, m)) = m
      BY <3>1, <3>2
    <3>4. QED
      BY <3>1, <3>3 DEF m
  <2>7. statedict' \in State
    BY <1>23, <2>4, ReplayType DEF CrashRestart
  <2>8. <<>> \in Seq(Change) /\ <<>> \in Seq(ChangeEntry) /\ \A m : UpTo(<<>>, m)
    BY DEF UpTo
  <2>9. TypeOK'
    <3>1. crashes' \in Nat
      BY <1>23 DEF CrashRestart, TypeInv, TypeOK
    <3>2. /\ pending' = <<>> /\ orphan' = <<>> /\ asked' = 0 /\ changes' = 0 /\ cancel' = "no"
          /\ pc' = [t \in Tasks |-> IF t = "bg" THEN "new" ELSE "idle"]
          /\ batch' = [t \in Tasks |-> <<>>] /\ base' = [t \in Tasks |-> 0]
          /\ flush_failed' = FALSE /\ opened' = TRUE /\ force' = FALSE /\ refused' = FALSE
      BY <1>23 DEF CrashRestart
    <3>3. QED
      BY <2>4, <2>6, <2>7, <2>8, <3>1, <3>2 DEF TypeOK
  <2>10. QED
    BY <1>23, <2>4, <2>5, <2>6, <2>8, <2>9 DEF CrashRestart, TypeInv
<1>24. QED
  BY <1>1, <1>2, <1>3, <1>4, <1>5, <1>6, <1>7, <1>8, <1>9, <1>10, <1>11, <1>12, <1>13, <1>14, <1>15,
     <1>16, <1>17, <1>18, <1>19, <1>20, <1>21, <1>22, <1>23 DEF Next

(* Every reachable state is well typed, for any number of flushing tasks,  *)
(* with closes, refused writes and crashes: in particular a restart always *)
(* finds a log it can replay.                                              *)
THEOREM TypeCorrect == Spec => []TypeOK
<1>1. TypeInv => TypeOK
  BY DEF TypeInv
<1>2. QED
  BY <1>1, InitType, StepType, PTL DEF Spec

-----------------------------------------------------------------------------
(* Without overlapping calls of kanta.flush(), no committed change is ever *)
(* lost: not by the cancellation of the background task in the middle of a *)
(* write, not by an abandoned write landing late, not by a refused write,  *)
(* and not by a crash, except that a crash ends the history at the newest  *)
(* change of the log.                                                      *)


(* Record i of s is change d + i. *)
Consecutive(s, d) == \A i \in DOMAIN s : s[i].id = d + i

(* Log f holds the changes up to d. *)
Holds(f, d) == \A n \in 1 .. d : CoveredIn(n, f)

(* With a change, of those up to n, log f holds all earlier ones. *)
NoGap(f, n) == \A m \in 1 .. n : CoveredIn(m, f) => Holds(f, m)

(* How many changes have left the queue. *)
Dequeued == Len(history) - Len(pending)

InFlush == {"sizing", "writing", "written"}
Own == {"bg", "closer"}

(* No two flushes at once.  flush() takes no lock that would see to it.     *)
OneFlush == \A t, u \in Tasks : pc[t] \in InFlush /\ pc[u] \in InFlush => t = u

(* The invariant, inductive as long as no two flushes overlap.  The queue  *)
(* is the end of the history, and what has left it is in the log; a flush  *)
(* under way has listed the head of the queue; the closer flushes only     *)
(* after the background task ended; an abandoned write leaves no gap       *)
(* behind what is in the log already.                                      *)
DurableInv ==
  /\ Len(pending) <= Len(history)
  /\ Consecutive(pending, Dequeued)
  /\ Holds(file, Dequeued)
  /\ NoGap(file, Len(history))
  /\ \A t \in Tasks : pc[t] \in InFlush => /\ Len(batch[t]) <= Len(pending)
                                     /\ Consecutive(batch[t], Dequeued)
  /\ \A t \in Tasks : pc[t] = "written" => Holds(file, Dequeued + Len(batch[t]))
  /\ pc["closer"] \in InFlush \/ pc["closer"] = "failed" => pc["bg"] = "done"
  /\ cancel = "requested" => pc["bg"] \notin {"done", "error"}
  /\ \E d \in 0 .. Dequeued : Consecutive(orphan, d)

-----------------------------------------------------------------------------
(* Lemmas about logs *)

(* What a log covers, it covers after an append. *)
LEMMA CoveredGrows ==
  ASSUME NEW f \in Seq(Entry), NEW g \in Seq(Entry), NEW n \in Nat, CoveredIn(n, f)
  PROVE  CoveredIn(n, f \o g)
<1>1. PICK i \in DOMAIN f : \/ f[i].kind = "change" /\ f[i].id = n
                            \/ f[i].kind = "snapshot" /\ f[i].id >= n
  BY DEF CoveredIn
<1>2. i \in DOMAIN (f \o g) /\ (f \o g)[i] = f[i]
  OBVIOUS
<1>3. QED
  BY <1>1, <1>2 DEF CoveredIn

LEMMA HoldsGrows ==
  ASSUME NEW f \in Seq(Entry), NEW g \in Seq(Entry), NEW d \in Nat, Holds(f, d)
  PROVE  Holds(f \o g, d)
  BY CoveredGrows DEF Holds

(* Appending the changes d+1, d+2, ... to a log that holds all up to d.    *)
LEMMA AppendHolds ==
  ASSUME NEW f \in Seq(Entry), NEW g \in Seq(ChangeEntry), NEW d \in Nat,
         Holds(f, d), Consecutive(g, d)
  PROVE  Holds(f \o g, d + Len(g))
<1>1. g \in Seq(Entry) /\ Len(g) \in Nat
  BY DEF Entry
<1>2. SUFFICES ASSUME NEW n \in 1 .. d + Len(g) PROVE CoveredIn(n, f \o g)
  BY DEF Holds
<1>3. CASE n <= d
  BY <1>1, <1>3, CoveredGrows DEF Holds
<1>4. CASE n > d
  <2> DEFINE i == n - d
             j == Len(f) + i
  <2>1. i \in 1 .. Len(g) /\ i \in DOMAIN g
    BY <1>1, <1>4
  <2>2. j \in DOMAIN (f \o g) /\ (f \o g)[j] = g[i]
    BY <1>1, <2>1
  <2>3. g[i] \in ChangeEntry /\ g[i].id = d + i
    BY <2>1 DEF Consecutive
  <2>4. g[i].kind = "change" /\ g[i].id = n
    BY <2>3 DEF ChangeEntry
  <2>5. QED
    BY <2>2, <2>4 DEF CoveredIn
<1>5. QED
  BY <1>1, <1>3, <1>4

(* and leaving no gap, when n bounds the changes of the log. *)
LEMMA AppendNoGap ==
  ASSUME NEW f \in Seq(Entry), NEW g \in Seq(ChangeEntry), NEW d \in Nat, NEW n \in Nat,
         Holds(f, d), Consecutive(g, d), NoGap(f, n)
  PROVE  NoGap(f \o g, n)
<1>1. g \in Seq(Entry) /\ Len(g) \in Nat /\ Len(f) \in Nat
  BY DEF Entry
<1>2. SUFFICES ASSUME NEW m \in 1 .. n, CoveredIn(m, f \o g) PROVE Holds(f \o g, m)
  BY DEF NoGap
<1>3. PICK i \in DOMAIN (f \o g) :
        \/ (f \o g)[i].kind = "change" /\ (f \o g)[i].id = m
        \/ (f \o g)[i].kind = "snapshot" /\ (f \o g)[i].id >= m
  BY <1>2 DEF CoveredIn
<1>4. CASE i <= Len(f)
  <2>1. i \in DOMAIN f /\ (f \o g)[i] = f[i]
    BY <1>1, <1>3, <1>4
  <2>2. CoveredIn(m, f)
    BY <1>3, <2>1 DEF CoveredIn
  <2>3. QED
    BY <1>1, <2>2, HoldsGrows DEF NoGap
<1>5. CASE i > Len(f)
  <2> DEFINE j == i - Len(f)
  <2>1. j \in 1 .. Len(g) /\ j \in DOMAIN g /\ (f \o g)[i] = g[j]
    BY <1>1, <1>3, <1>5
  <2>2. g[j].kind = "change" /\ g[j].id = d + j
    <3>1. g[j] \in ChangeEntry /\ g[j].id = d + j
      BY <2>1 DEF Consecutive
    <3>2. QED
      BY <3>1 DEF ChangeEntry
  <2>3. m = d + j
    BY <1>3, <2>1, <2>2
  <2>4. Holds(f \o g, d + Len(g))
    BY AppendHolds
  <2>5. QED
    BY <1>1, <2>1, <2>3, <2>4 DEF Holds
<1>6. QED
  BY <1>1, <1>3, <1>4, <1>5

(* A snapshot of the state after change n holds all changes up to n. *)
LEMMA SnapshotHolds ==
  ASSUME NEW f \in Seq(Entry), NEW e \in Entry, NEW n \in Nat,
         e.kind = "snapshot", e.id = n
  PROVE  Holds(Append(f, e), n) /\ NoGap(Append(f, e), n)
<1>1. /\ Len(f) + 1 \in DOMAIN Append(f, e)
      /\ Append(f, e)[Len(f) + 1] = e
  OBVIOUS
<1>2. Holds(Append(f, e), n)
  BY <1>1 DEF Holds, CoveredIn
<1>3. QED
  BY <1>2 DEF NoGap, Holds

LEMMA FramedConsecutive ==
  ASSUME NEW b \in Seq(Change), NEW offset \in Nat, NEW d, Consecutive(b, d)
  PROVE  Consecutive(Framed(b, offset), d)
  BY FramedType DEF Consecutive

LEMMA PrefixConsecutive ==
  ASSUME NEW w \in Seq(ChangeEntry), NEW n \in 0 .. Len(w), NEW d, Consecutive(w, d)
  PROVE  SubSeq(w, 1, n) \in Seq(ChangeEntry) /\ Consecutive(SubSeq(w, 1, n), d)
  BY DEF Consecutive

-----------------------------------------------------------------------------
(* The steps *)

(* The types the steps need, gathered once. *)
LEMMA Types ==
  ASSUME TypeInv
  PROVE  /\ history \in Seq(Change) /\ pending \in Seq(Change) /\ file \in Seq(Entry)
         /\ orphan \in Seq(ChangeEntry)
         /\ Len(history) \in Nat /\ Len(pending) \in Nat /\ Dequeued \in Int
         /\ \A t \in Tasks : /\ batch[t] \in Seq(Change) /\ Len(batch[t]) \in Nat
                             /\ base[t] \in Nat
         /\ DOMAIN pc = Tasks /\ DOMAIN batch = Tasks /\ Own \subseteq Tasks
         /\ "bg" \in Tasks /\ "closer" \in Tasks
  BY DEF TypeInv, TypeOK, Dequeued, Tasks, Own

(* A step that leaves the queue alone, and loses nothing from the log,     *)
(* keeps the invariant if it lists nothing but the queue, calls only       *)
(* records of the log written, and lets the closer in only last.           *)
LEMMA QueueKept ==
  ASSUME TypeInv, DurableInv, UNCHANGED <<history, pending>>,
         \A d \in Nat : Holds(file, d) => Holds(file', d),
         NoGap(file', Len(history)),
         \E d \in 0 .. Dequeued : Consecutive(orphan', d),
         \A t \in Tasks : pc'[t] \in InFlush => \/ pc[t] \in InFlush /\ batch'[t] = batch[t]
                                       \/ batch'[t] = pending,
         \A t \in Tasks : pc'[t] = "written" => \/ pc[t] = "written" /\ batch'[t] = batch[t]
                                             \/ Holds(file', Dequeued + Len(batch'[t])),
         pc'["closer"] \in InFlush \/ pc'["closer"] = "failed" => pc'["bg"] = "done",
         cancel' = "requested" => pc'["bg"] \notin {"done", "error"}
  PROVE  DurableInv'
<1>1. Dequeued' = Dequeued /\ Dequeued \in Nat
  BY Types DEF Dequeued, DurableInv
<1>2. ASSUME NEW t \in Tasks, pc'[t] \in InFlush
      PROVE  Len(batch'[t]) <= Len(pending) /\ Consecutive(batch'[t], Dequeued)
  BY <1>2, Types DEF DurableInv
<1>3. ASSUME NEW t \in Tasks, pc'[t] = "written"
      PROVE  Holds(file', Dequeued + Len(batch'[t]))
  <2>1. CASE pc[t] = "written" /\ batch'[t] = batch[t]
    <3>1. Dequeued + Len(batch[t]) \in Nat /\ Holds(file, Dequeued + Len(batch[t]))
      BY <1>1, <2>1, Types DEF DurableInv
    <3>2. QED
      BY <2>1, <3>1
  <2>2. QED
    BY <1>3, <2>1
<1>4. Holds(file', Dequeued)
  BY <1>1 DEF DurableInv
<1>5. QED
  BY <1>1, <1>2, <1>3, <1>4 DEF DurableInv

(* Most steps do not touch the log either. *)
LEMMA LogKept ==
  ASSUME TypeInv, DurableInv, UNCHANGED <<history, pending, file, orphan>>,
         \A t \in Tasks : pc'[t] \in InFlush => \/ pc[t] \in InFlush /\ batch'[t] = batch[t]
                                       \/ batch'[t] = pending,
         \A t \in Tasks : pc'[t] = "written" => pc[t] = "written" /\ batch'[t] = batch[t],
         pc'["closer"] \in InFlush \/ pc'["closer"] = "failed" => pc'["bg"] = "done",
         cancel' = "requested" => pc'["bg"] \notin {"done", "error"}
  PROVE  DurableInv'
<1>1. NoGap(file', Len(history)) /\ \E d \in 0 .. Dequeued : Consecutive(orphan', d)
  BY DEF DurableInv
<1>2. QED
  BY <1>1, QueueKept

(* maybe_write adds a record that leaves no gap, or none. *)
LEMMA SnapshotKeeps ==
  ASSUME TypeInv, DurableInv, NEW c, MaybeSnapshot(c)
  PROVE  NoGap(file', Len(history)) /\ \A d \in Nat : Holds(file, d) => Holds(file', d)
<1>1. CASE UNCHANGED file
  BY <1>1 DEF DurableInv
<1>2. CASE file' = Append(file, SnapshotOf(Len(file)))
  <2> DEFINE e == SnapshotOf(Len(file))
  <2>1. e \in Entry /\ e.kind = "snapshot" /\ e.id = Len(history)
    BY Types DEF SnapshotOf, Entry, SnapshotEntry, TypeInv, TypeOK
  <2>2. NoGap(file', Len(history))
    BY <1>2, <2>1, Types, SnapshotHolds
  <2>3. <<e>> \in Seq(Entry) /\ file' = file \o <<e>>
    BY <1>2, <2>1, Types
  <2>4. QED
    BY <2>2, <2>3, Types, HoldsGrows
<1>3. QED
  BY <1>1, <1>2 DEF MaybeSnapshot

(* A flush that has written its batch dequeues exactly that batch. *)
LEMMA DequeueStep ==
  ASSUME TypeInv, DurableInv, OneFlush, NEW t \in Tasks, pc[t] = "written", Dequeue(t),
         UNCHANGED <<history, orphan>>,
         \A d \in Nat : Holds(file, d) => Holds(file', d),
         NoGap(file', Len(history)),
         pc'[t] \notin InFlush, \A u \in Tasks \ {t} : pc'[u] = pc[u],
         pc'["closer"] = "failed" => pc'["bg"] = "done",
         cancel' = "requested" => pc'["bg"] \notin {"done", "error"}
  PROVE  DurableInv'
<1> DEFINE n == Len(batch[t])
           m == Len(pending)
<1>1. n \in Nat /\ m \in Nat /\ n <= m /\ pending \in Seq(Change)
  BY Types DEF DurableInv, InFlush
<1>2. pending' = SubSeq(pending, n + 1, m)
  BY <1>1 DEF Dequeue
<1>3. Holds(file, Dequeued + n) /\ Consecutive(pending, Dequeued)
  BY DEF DurableInv
<1> HIDE DEF n
<1>4. Len(pending') = m - n /\ \A i \in 1 .. m - n : pending'[i] = pending[n + i]
  BY <1>1, <1>2
<1>5. Dequeued' = Dequeued + n /\ Dequeued \in Nat /\ m <= Len(history)
  BY <1>1, <1>4, Types DEF Dequeued, DurableInv
<1>6. Consecutive(pending', Dequeued')
  <2> SUFFICES ASSUME NEW i \in DOMAIN pending' PROVE pending'[i].id = Dequeued' + i
    BY DEF Consecutive
  <2>1. i \in 1 .. m - n /\ n + i \in DOMAIN pending
    BY <1>1, <1>2, <1>4
  <2>2. pending'[i] = pending[n + i] /\ pending[n + i].id = Dequeued + (n + i)
    BY <1>3, <1>4, <2>1 DEF Consecutive
  <2>3. QED
    BY <1>1, <1>5, <2>1, <2>2
<1>7. Holds(file', Dequeued')
  BY <1>1, <1>3, <1>5
<1>8. \E d \in 0 .. Dequeued' : Consecutive(orphan', d)
  BY <1>1, <1>5 DEF DurableInv
<1>9. Len(pending') <= Len(history')
  BY <1>1, <1>4, <1>5, Types
<1>10. \A u \in Tasks : pc'[u] # "written" /\ pc'[u] \notin InFlush
  <2>1. \A u \in Tasks : pc[u] \in InFlush => u = t
    BY DEF OneFlush, InFlush
  <2>2. \A u \in Tasks : pc'[u] \notin InFlush
    BY <2>1
  <2>3. QED
    BY <2>2 DEF InFlush
<1>11. pc'["closer"] \in InFlush \/ pc'["closer"] = "failed" => pc'["bg"] = "done"
  BY <1>10, TasksType
<1>12. NoGap(file', Len(history'))
  OBVIOUS
<1>13. QED
  BY <1>6, <1>7, <1>8, <1>9, <1>10, <1>11, <1>12 DEF DurableInv

LEMMA ChangesAreEntries == ASSUME NEW g \in Seq(ChangeEntry) PROVE g \in Seq(Entry)
  BY DEF Entry

LEMMA InitDurable == ASSUME Init PROVE DurableInv
<1>1. /\ Len(history) = 0 /\ Len(pending) = 0 /\ history = <<>> /\ pending = <<>> /\ orphan = <<>>
      /\ Dequeued = 0
  BY DEF Init, Dequeued
<1>2. Consecutive(<<>>, 0) /\ Holds(file, 0) /\ NoGap(file, 0)
  BY DEF Consecutive, Holds, NoGap
<1>3. \A t \in Tasks : pc[t] \in {"new", "idle"}
  BY DEF Init, Tasks
<1>4. \A t \in Tasks : pc[t] # "written" /\ pc[t] # "failed" /\ pc[t] \notin InFlush
  BY <1>3 DEF InFlush
<1>5. cancel # "requested"
  BY DEF Init
<1>6. QED
  BY <1>1, <1>2, <1>4, <1>5, TasksType DEF DurableInv

LEMMA CommitKeeps ==
  ASSUME TypeInv, DurableInv, NEW k \in Keys, Commit(k)
  PROVE  DurableInv'
<1> DEFINE c == [id |-> Len(history) + 1, key |-> k]
<1>1. /\ history' = Append(history, c) /\ pending' = Append(pending, c)
      /\ UNCHANGED <<file, pc, batch, orphan, cancel>>
  BY DEF Commit, jobs
<1>2. /\ Len(history') = Len(history) + 1 /\ Len(pending') = Len(pending) + 1
      /\ Dequeued' = Dequeued /\ Dequeued \in Nat
  BY <1>1, Types DEF Dequeued, DurableInv
<1>3. Consecutive(pending', Dequeued)
  <2> SUFFICES ASSUME NEW i \in DOMAIN pending' PROVE pending'[i].id = Dequeued + i
    BY DEF Consecutive
  <2>1. CASE i \in DOMAIN pending
    BY <1>1, <2>1, Types DEF DurableInv, Consecutive
  <2>2. CASE i = Len(pending) + 1
    BY <1>1, <2>2, Types DEF Dequeued
  <2>3. QED
    BY <1>1, <2>1, <2>2, Types
<1>4. NoGap(file, Len(history'))
  <2> SUFFICES ASSUME NEW m \in 1 .. Len(history) + 1, CoveredIn(m, file)
               PROVE  Holds(file, m)
    BY <1>2 DEF NoGap
  <2>1. m <= Len(history)
    <3>1. PICK i \in DOMAIN file : file[i].id >= m
      BY DEF CoveredIn
    <3>2. file[i].id \in 0 .. Len(history)
      BY <3>1 DEF TypeInv, UpTo
    <3>3. QED
      BY <3>1, <3>2, Types
  <2>2. QED
    BY <2>1, Types DEF DurableInv, NoGap
<1>5. \A t \in Tasks : pc'[t] \in InFlush => Len(batch[t]) <= Len(pending')
  BY <1>1, <1>2, Types DEF DurableInv, InFlush
<1>6. QED
  BY <1>1, <1>2, <1>3, <1>4, <1>5, Types DEF DurableInv, InFlush

LEMMA WriteKeeps ==
  ASSUME TypeInv, DurableInv, NEW t \in Tasks, Write(t)
  PROVE  DurableInv'
<1> DEFINE g == Framed(batch[t], base[t])
<1>1. /\ file' = file \o g /\ pc[t] = "writing" /\ pc' = [pc EXCEPT ![t] = "written"]
      /\ UNCHANGED <<history, pending, batch, orphan, cancel>>
  BY DEF Write, memory, jobs
<1>2. /\ g \in Seq(ChangeEntry) /\ Len(g) = Len(batch[t])
      /\ Consecutive(g, Dequeued) /\ Dequeued \in Nat
  <2>1. batch[t] \in Seq(Change) /\ base[t] \in Nat /\ Dequeued \in Nat
    BY Types DEF DurableInv, Dequeued
  <2>2. Consecutive(batch[t], Dequeued)
    BY <1>1 DEF DurableInv, InFlush
  <2>3. QED
    BY <2>1, <2>2, FramedType, FramedConsecutive
<1> HIDE DEF g
<1>3. Holds(file', Dequeued + Len(batch[t]))
  BY <1>1, <1>2, Types, AppendHolds DEF DurableInv
<1>4. NoGap(file', Len(history))
  BY <1>1, <1>2, Types, AppendNoGap DEF DurableInv
<1>5. \A d \in Nat : Holds(file, d) => Holds(file', d)
  BY <1>1, <1>2, Types, HoldsGrows, ChangesAreEntries
<1>6. \E d \in 0 .. Dequeued : Consecutive(orphan', d)
  BY <1>1 DEF DurableInv
<1>7. \A u \in Tasks : /\ pc'[u] \in InFlush => pc[u] \in InFlush
                       /\ pc'[u] = "written" => pc[u] = "written" \/ u = t
                       /\ pc'[u] \in {"failed", "done", "error"} => pc[u] = pc'[u]
  BY <1>1, Types DEF InFlush
<1>8. pc'["closer"] \in InFlush \/ pc'["closer"] = "failed" => pc'["bg"] = "done"
  <2>1. pc["bg"] = "done" => pc'["bg"] = "done"
    BY <1>1, Types
  <2>2. /\ pc'["closer"] \in InFlush => pc["closer"] \in InFlush
        /\ pc'["closer"] = "failed" => pc["closer"] = "failed"
    BY <1>1, Types DEF InFlush
  <2>3. pc["closer"] \in InFlush \/ pc["closer"] = "failed" => pc["bg"] = "done"
    BY DEF DurableInv
  <2>4. QED
    BY <2>1, <2>2, <2>3
<1>9. cancel' = "requested" => pc'["bg"] \notin {"done", "error"}
  BY <1>1, <1>7, TasksType DEF DurableInv
<1>10. \A u \in Tasks : pc'[u] = "written" => \/ pc[u] = "written" /\ batch'[u] = batch[u]
                                            \/ Holds(file', Dequeued + Len(batch'[u]))
  BY <1>1, <1>3, <1>7
<1>11. \A u \in Tasks : pc'[u] \in InFlush => pc[u] \in InFlush /\ batch'[u] = batch[u]
  BY <1>1, Types DEF InFlush
<1>12. UNCHANGED <<history, pending>>
  BY <1>1
<1>13. QED
  BY <1>4, <1>5, <1>6, <1>8, <1>9, <1>10, <1>11, <1>12, QueueKept

LEMMA OrphanKeeps == ASSUME TypeInv, DurableInv, OrphanWrite PROVE DurableInv'
<1>1. /\ orphan' = <<>> /\ (file' = file \o orphan \/ file' = file)
      /\ UNCHANGED <<history, pending, pc, batch, cancel>>
  BY DEF OrphanWrite, memory, jobs
<1>2. PICK d \in 0 .. Dequeued : Consecutive(orphan, d)
  BY DEF DurableInv
<1>3. Dequeued \in Nat /\ d \in Nat
  BY <1>2, Types DEF DurableInv, Dequeued
<1>4. Holds(file, d)
  BY <1>2, <1>3 DEF DurableInv, Holds
<1>5. NoGap(file', Len(history))
  BY <1>1, <1>2, <1>3, <1>4, Types, AppendNoGap DEF DurableInv
<1>6. \A n \in Nat : Holds(file, n) => Holds(file', n)
  BY <1>1, Types, HoldsGrows, ChangesAreEntries
<1>7. \E n \in 0 .. Dequeued : Consecutive(orphan', n)
  BY <1>1, <1>3 DEF Consecutive
<1>8. QED
  BY <1>1, <1>5, <1>6, <1>7, QueueKept DEF DurableInv, InFlush

LEMMA BgDoneKeeps == ASSUME TypeInv, DurableInv, OneFlush, BgDone PROVE DurableInv'
<1>1. /\ pc["bg"] = "written" /\ Dequeue("bg") /\ MaybeSnapshot(Counted("bg"))
      /\ pc' = [pc EXCEPT !["bg"] = IF cancel = "no" THEN "idle" ELSE "done"]
      /\ cancel # "requested" /\ UNCHANGED <<history, orphan, cancel>>
  BY DEF BgDone, Runs
<1>2. /\ NoGap(file', Len(history))
      /\ \A d \in Nat : Holds(file, d) => Holds(file', d)
  BY <1>1, SnapshotKeeps
<1>3. pc["closer"] # "failed"
  BY <1>1 DEF DurableInv
<1>4. pc'["bg"] \notin InFlush /\ \A u \in Tasks \ {"bg"} : pc'[u] = pc[u]
  BY <1>1, Types DEF InFlush
<1>5. pc'["closer"] # "failed" /\ "bg" \in Tasks
  BY <1>3, <1>4, TasksType
<1>6. QED
  BY <1>1, <1>2, <1>4, <1>5, DequeueStep

(* Nobody else dequeues, so that the queue is never short. *)
LEMMA NeverShort ==
  ASSUME TypeInv, DurableInv, NEW t \in Tasks, pc[t] = "written"
  PROVE  ~ Short(t)
  BY Types DEF DurableInv, InFlush, Short

LEMMA CloseDoneKeeps == ASSUME TypeInv, DurableInv, OneFlush, CloseDone PROVE DurableInv'
<1>1. "closer" \in Tasks /\ pc["closer"] = "written"
  BY TasksType DEF CloseDone
<1>2. ~ Short("closer")
  BY <1>1, NeverShort
<1>3. /\ Dequeue("closer") /\ pc' = [pc EXCEPT !["closer"] = "idle"]
      /\ UNCHANGED <<history, file, orphan, cancel>>
  BY <1>2 DEF CloseDone
<1>4. pc["bg"] = "done" /\ cancel # "requested"
  BY <1>1 DEF DurableInv, InFlush
<1>5. pc'["closer"] = "idle" /\ \A u \in Tasks \ {"closer"} : pc'[u] = pc[u]
  BY <1>3, Types
<1>6. pc'["closer"] \notin InFlush /\ pc'["closer"] # "failed"
  BY <1>5 DEF InFlush
<1>7. NoGap(file', Len(history)) /\ \A d \in Nat : Holds(file, d) => Holds(file', d)
  BY <1>3 DEF DurableInv
<1>8. QED
  BY <1>1, <1>3, <1>4, <1>5, <1>6, <1>7, DequeueStep

(* So does a call of flush() by the application. *)
LEMMA FlushDoneKeeps ==
  ASSUME TypeInv, DurableInv, OneFlush, NEW t \in Tasks, FlushDone(t)
  PROVE  DurableInv'
<1>1. /\ t \in Flushers /\ pc[t] = "written" /\ Dequeue(t)
      /\ pc' = [pc EXCEPT ![t] = "idle"] /\ UNCHANGED <<history, file, orphan, cancel>>
  BY DEF FlushDone
<1>2. t # "bg" /\ t # "closer"
  BY <1>1, PersistenceAssumption
<1>3. pc'[t] = "idle" /\ \A u \in Tasks \ {t} : pc'[u] = pc[u]
  BY <1>1, Types
<1>4. pc'["closer"] = pc["closer"] /\ pc'["bg"] = pc["bg"]
  BY <1>2, <1>3, TasksType
<1>5. /\ pc'[t] \notin InFlush
      /\ pc'["closer"] = "failed" => pc'["bg"] = "done"
      /\ cancel' = "requested" => pc'["bg"] \notin {"done", "error"}
  BY <1>1, <1>3, <1>4 DEF InFlush, DurableInv
<1>6. NoGap(file', Len(history)) /\ \A d \in Nat : Holds(file, d) => Holds(file', d)
  BY <1>1 DEF DurableInv
<1>7. QED
  BY <1>1, <1>3, <1>5, <1>6, DequeueStep

LEMMA BgCancelledKeeps == ASSUME TypeInv, DurableInv, BgCancelled PROVE DurableInv'
<1>1. /\ cancel = "requested" /\ cancel' = "handled" /\ UNCHANGED <<history, pending>>
      /\ pc["bg"] \notin {"done", "error"} /\ pc["closer"] \notin InFlush
      /\ pc["closer"] # "failed" /\ "bg" \in Tasks
  BY TasksType DEF BgCancelled, memory, DurableInv
<1>2. Dequeued \in Nat
  BY Types DEF DurableInv, Dequeued
<1>3. \E d \in 0 .. Dequeued : Consecutive(orphan', d)
  <2>1. CASE pc["bg"] = "writing" /\ orphan' = Framed(batch["bg"], base["bg"])
    <3>1. Consecutive(batch["bg"], Dequeued)
      BY <1>1, <2>1 DEF DurableInv, InFlush
    <3>2. Consecutive(orphan', Dequeued)
      BY <1>1, <2>1, <3>1, Types, FramedConsecutive
    <3>3. QED
      BY <1>2, <3>2
  <2>2. CASE orphan' = <<>>
    BY <1>2, <2>2 DEF Consecutive
  <2>3. CASE orphan' = orphan
    BY <2>3 DEF DurableInv
  <2>4. QED
    BY <2>1, <2>2, <2>3 DEF BgCancelled
<1>4. /\ pc'["closer"] = pc["closer"]
      /\ \A t \in Tasks \ {"bg"} : pc'[t] = pc[t] /\ batch'[t] = batch[t]
  BY Types DEF BgCancelled, BeginFlush, jobs
<1>5. CASE BeginFlush("bg") /\ UNCHANGED file
  <2>1. /\ batch' = [batch EXCEPT !["bg"] = pending] /\ pc' = [pc EXCEPT !["bg"] = "sizing"]
    BY <1>5 DEF BeginFlush
  <2>2. batch'["bg"] = pending /\ pc'["bg"] = "sizing"
    BY <2>1, Types
  <2>3. /\ \A t \in Tasks : pc'[t] \in InFlush => \/ pc[t] \in InFlush /\ batch'[t] = batch[t]
                                                  \/ batch'[t] = pending
        /\ \A t \in Tasks : pc'[t] = "written" => pc[t] = "written" /\ batch'[t] = batch[t]
    BY <1>4, <2>2
  <2>4. NoGap(file', Len(history)) /\ \A d \in Nat : Holds(file, d) => Holds(file', d)
    BY <1>5 DEF DurableInv
  <2>5. QED
    BY <1>1, <1>3, <1>4, <2>3, <2>4, QueueKept
<1>6. CASE /\ pc' = [pc EXCEPT !["bg"] = "done"] /\ UNCHANGED jobs
           /\ UNCHANGED file \/ MaybeSnapshot(changes)
  <2>1. NoGap(file', Len(history)) /\ \A d \in Nat : Holds(file, d) => Holds(file', d)
    BY <1>6, SnapshotKeeps DEF DurableInv
  <2>2. pc'["bg"] = "done"
    BY <1>6, Types
  <2>3. \A t \in Tasks : /\ pc'[t] \in InFlush => pc[t] \in InFlush /\ batch'[t] = batch[t]
                         /\ pc'[t] = "written" => pc[t] = "written" /\ batch'[t] = batch[t]
    BY <1>4, <2>2 DEF InFlush
  <2>4. QED
    BY <1>1, <1>3, <2>1, <2>2, <2>3, QueueKept
<1>7. QED
  BY <1>5, <1>6 DEF BgCancelled, snap

LEMMA CrashKeeps ==
  ASSUME TypeInv, DurableInv, CrashRestart, TypeInv'
  PROVE  DurableInv'
<1>1. PICK w \in Landing : \E n \in 0 .. Len(w) : file' = file \o SubSeq(w, 1, n)
  BY DEF CrashRestart
<1>2. PICK n \in 0 .. Len(w) : file' = file \o SubSeq(w, 1, n)
  BY <1>1
<1>3. Dequeued \in Nat
  BY Types DEF DurableInv, Dequeued
<1>4. \E d \in 0 .. Dequeued : w \in Seq(ChangeEntry) /\ Consecutive(w, d)
  <2>1. CASE w = <<>>
    <3>1. <<>> \in Seq(ChangeEntry) /\ Consecutive(<<>>, 0) /\ 0 \in 0 .. Dequeued
      BY <1>3 DEF Consecutive
    <3>2. QED
      BY <2>1, <3>1
  <2>2. CASE w = orphan
    BY <2>2, Types DEF DurableInv
  <2>3. ASSUME NEW t \in Tasks, pc[t] = "writing", w = Framed(batch[t], base[t])
        PROVE  w \in Seq(ChangeEntry) /\ Consecutive(w, Dequeued)
    <3>1. Consecutive(batch[t], Dequeued)
      BY <2>3 DEF DurableInv, InFlush
    <3>2. QED
      BY <2>3, <3>1, Types, FramedType, FramedConsecutive
  <2>4. Dequeued \in 0 .. Dequeued
    BY <1>3
  <2>5. QED
    BY <2>1, <2>2, <2>3, <2>4 DEF Landing
<1>5. PICK d \in 0 .. Dequeued : w \in Seq(ChangeEntry) /\ Consecutive(w, d)
  BY <1>4
<1>6. d \in Nat /\ Holds(file, d)
  BY <1>3, <1>5 DEF DurableInv, Holds
<1>7. NoGap(file', Len(history))
  BY <1>2, <1>5, <1>6, Types, PrefixConsecutive, AppendNoGap DEF DurableInv
<1> DEFINE N == Newest(file')
<1>8. /\ N \in 0 .. Len(history) /\ N \in Nat
      /\ \E i \in DOMAIN file' : file'[i].id = N
  <2>1. file' \in Seq(Entry) /\ file' # <<>>
    BY DEF TypeInv, TypeOK
  <2>2. UpTo(file', Len(history))
    <3>1. w \in Seq(ChangeEntry) /\ UpTo(w, Len(history))
      <4>1. <<>> \in Seq(ChangeEntry) /\ UpTo(<<>>, Len(history))
        BY DEF UpTo
      <4>2. QED
        BY <4>1, FramedUpTo DEF Landing, TypeInv, TypeOK
    <3>2. SubSeq(w, 1, n) \in Seq(ChangeEntry) /\ UpTo(SubSeq(w, 1, n), Len(history))
      BY <3>1 DEF UpTo
    <3>3. QED
      BY <1>2, <3>2, WriteType
  <2>3. QED
    BY <2>1, <2>2, Types, NewestType
<1>9. /\ history' = SubSeq(history, 1, N) /\ pending' = <<>> /\ orphan' = <<>>
      /\ cancel' = "no" /\ pc' = [t \in Tasks |-> IF t = "bg" THEN "new" ELSE "idle"]
  BY DEF CrashRestart
<1> HIDE DEF N
<1>10. Len(history') = N /\ Len(pending') = 0 /\ Dequeued' = N
  BY <1>8, <1>9, Types DEF Dequeued
<1>11. Holds(file', N) /\ NoGap(file', N)
  <2>1. N > 0 => CoveredIn(N, file')
    <3>1. PICK i \in DOMAIN file' : file'[i].id = N
      BY <1>8
    <3>2. file'[i] \in Entry
      BY <3>1 DEF TypeInv, TypeOK
    <3>3. QED
      BY <1>8, <3>1, <3>2 DEF CoveredIn, Entry, ChangeEntry, SnapshotEntry
  <2>2. QED
    BY <1>7, <1>8, <2>1, Types DEF NoGap, Holds
<1>12. Consecutive(<<>>, 0) /\ Consecutive(<<>>, N) /\ 0 \in 0 .. N
  BY <1>8 DEF Consecutive
<1>13. \A t \in Tasks : pc'[t] \in {"new", "idle"}
  BY <1>9, Types
<1>14. \A t \in Tasks : pc'[t] \notin InFlush /\ pc'[t] # "written" /\ pc'[t] # "failed"
  BY <1>13 DEF InFlush
<1>15. QED
  BY <1>8, <1>9, <1>10, <1>11, <1>12, <1>14, TasksType DEF DurableInv

LEMMA StepDurable == TypeInv /\ DurableInv /\ OneFlush /\ [Next]_vars => DurableInv'
<1> SUFFICES ASSUME TypeInv, DurableInv, OneFlush, [Next]_vars PROVE DurableInv'
  OBVIOUS
<1>1. "bg" \in Tasks /\ "closer" \in Tasks /\ "bg" \notin Flushers /\ "closer" \notin Flushers
  BY TasksType, PersistenceAssumption
<1>2. CASE UNCHANGED vars
  BY <1>2, LogKept DEF vars, memory, jobs, DurableInv
<1>3. CASE \E k \in Keys : Commit(k)
  BY <1>3, CommitKeeps
<1>4. CASE RequestSnapshot
  BY <1>4, LogKept DEF RequestSnapshot, memory, jobs, DurableInv
<1>5. ASSUME NEW t \in Tasks, ReadSize(t) \/ WriteFails(t) \/ Fail(t) \/ FileClosed(t)
      PROVE  DurableInv'
  <2>1. /\ UNCHANGED <<history, pending, file, orphan, batch, cancel>>
        /\ pc[t] \in {"sizing", "writing", "failed"}
        /\ \/ pc' = [pc EXCEPT ![t] = "writing"] /\ pc[t] = "sizing"
           \/ pc' = [pc EXCEPT ![t] = "failed"] /\ pc[t] # "failed"
           \/ pc' = [pc EXCEPT ![t] = "idle"] /\ t \in Flushers
           \/ pc' = [pc EXCEPT ![t] = "raised"] /\ t = "closer"
           \/ pc' = [pc EXCEPT ![t] = "done"] /\ t = "bg" /\ cancel # "requested"
           \/ pc' = [pc EXCEPT ![t] = "error"] /\ t = "bg" /\ cancel # "requested"
    BY <1>1, <1>5 DEF ReadSize, WriteFails, Fail, FileClosed, Runs, Tasks, memory, jobs
  <2>2. /\ \A u \in Tasks : pc'[u] \in InFlush => pc[u] \in InFlush
        /\ \A u \in Tasks : pc'[u] # "written" \/ pc[u] = "written"
    BY <2>1, Types DEF InFlush
  <2>3. pc'["closer"] \in InFlush \/ pc'["closer"] = "failed" =>
          pc["closer"] \in InFlush \/ pc["closer"] = "failed"
    BY <1>1, <2>1, Types DEF InFlush
  <2>4. pc["bg"] = "done" => pc'["bg"] = "done"
    BY <1>1, <2>1, Types
  <2>5. cancel = "requested" => pc'["bg"] \notin {"done", "error"}
    BY <1>1, <2>1, Types DEF DurableInv
  <2>6. pc'["closer"] \in InFlush \/ pc'["closer"] = "failed" => pc'["bg"] = "done"
    BY <2>3, <2>4 DEF DurableInv
  <2>7. UNCHANGED <<history, pending, file, orphan, batch, cancel>>
    BY <2>1
  <2>8. QED
    BY <2>2, <2>5, <2>6, <2>7, LogKept
<1>6. ASSUME NEW t \in Tasks, Write(t) PROVE DurableInv'
  BY <1>6, WriteKeeps
<1>7. ASSUME NEW t \in Tasks, FlushStart(t) \/ FlushDone(t) PROVE DurableInv'
  <2>1. CASE FlushStart(t)
    <3>1. /\ UNCHANGED <<history, pending, file, orphan, cancel>> /\ t \in Flushers
          /\ pc' = [pc EXCEPT ![t] = "sizing"] /\ batch' = [batch EXCEPT ![t] = pending]
      BY <2>1 DEF FlushStart, BeginFlush, memory
    <3>2. /\ pc'[t] = "sizing" /\ batch'[t] = pending
          /\ \A u \in Tasks \ {t} : pc'[u] = pc[u] /\ batch'[u] = batch[u]
      BY <3>1, Types
    <3>3. pc'["bg"] = pc["bg"] /\ pc'["closer"] = pc["closer"]
      BY <1>1, <3>1, <3>2
    <3>4. \A u \in Tasks : /\ pc'[u] \in InFlush => \/ pc[u] \in InFlush /\ batch'[u] = batch[u]
                                                   \/ batch'[u] = pending
                           /\ pc'[u] = "written" => pc[u] = "written" /\ batch'[u] = batch[u]
      BY <3>2
    <3>5. QED
      BY <3>1, <3>3, <3>4, LogKept DEF DurableInv
  <2>2. QED
    BY <1>7, <2>1, FlushDoneKeeps
<1>8. CASE BgStart
  <2>1. /\ UNCHANGED <<history, pending, file, orphan, batch, cancel>>
        /\ pc["bg"] = "new" /\ pc' = [pc EXCEPT !["bg"] = "idle"]
    BY <1>8 DEF BgStart, memory, jobs
  <2>2. pc'["bg"] = "idle" /\ \A u \in Tasks \ {"bg"} : pc'[u] = pc[u]
    BY <1>1, <2>1, Types
  <2>3. pc["closer"] \notin InFlush /\ pc["closer"] # "failed"
    BY <2>1 DEF DurableInv
  <2>4. QED
    BY <1>1, <2>1, <2>2, <2>3, LogKept DEF InFlush
<1>9. CASE BgFlush
  <2>1. /\ UNCHANGED <<history, pending, file, orphan, cancel>> /\ cancel # "requested"
        /\ pc["bg"] = "idle" /\ pc' = [pc EXCEPT !["bg"] = "sizing"]
        /\ batch' = [batch EXCEPT !["bg"] = pending]
    BY <1>9 DEF BgFlush, BeginFlush, Runs, memory
  <2>2. /\ pc'["bg"] = "sizing" /\ batch'["bg"] = pending
        /\ \A u \in Tasks \ {"bg"} : pc'[u] = pc[u] /\ batch'[u] = batch[u]
    BY <1>1, <2>1, Types
  <2>3. pc["closer"] \notin InFlush /\ pc["closer"] # "failed"
    BY <2>1 DEF DurableInv
  <2>4. QED
    BY <1>1, <2>1, <2>2, <2>3, LogKept
<1>10. CASE BgTick
  <2>1. MaybeSnapshot(changes) /\ UNCHANGED <<history, pending, pc, batch, orphan, cancel>>
    BY <1>10 DEF BgTick, memory, jobs
  <2>2. QED
    BY <2>1, SnapshotKeeps, QueueKept DEF DurableInv
<1>11. CASE BgDone
  BY <1>11, BgDoneKeeps
<1>12. CASE BgShort
  BY <1>1, <1>12, NeverShort DEF BgShort
<1>13. CASE BgCancelled
  BY <1>13, BgCancelledKeeps
<1>14. CASE OrphanWrite
  BY <1>14, OrphanKeeps
<1>15. CASE CloseBegin
  <2>1. /\ UNCHANGED <<history, pending, file, orphan, batch>>
        /\ pc' = [pc EXCEPT !["closer"] = "awaiting"]
        /\ cancel' = "requested" => pc["bg"] \notin {"done", "error"}
    BY <1>15 DEF CloseBegin, memory, jobs, DurableInv
  <2>2. pc'["closer"] = "awaiting" /\ \A u \in Tasks \ {"closer"} : pc'[u] = pc[u]
    BY <1>1, <2>1, Types
  <2>3. QED
    BY <1>1, <2>1, <2>2, LogKept DEF InFlush
<1>16. CASE CloseRaises \/ CloseFile
  <2>1. /\ UNCHANGED <<history, pending, file, orphan, batch, cancel>>
        /\ \/ pc' = [pc EXCEPT !["closer"] = "raised"]
           \/ pc' = [pc EXCEPT !["closer"] = "idle"]
    BY <1>16 DEF CloseRaises, CloseFile, memory, jobs
  <2>2. pc'["closer"] \in {"raised", "idle"} /\ \A u \in Tasks \ {"closer"} : pc'[u] = pc[u]
    BY <1>1, <2>1, Types
  <2>3. cancel' = "requested" => pc'["bg"] \notin {"done", "error"}
    BY <1>1, <2>1, <2>2 DEF DurableInv
  <2>4. QED
    BY <1>1, <2>1, <2>2, <2>3, LogKept DEF InFlush
<1>17. CASE CloseFlush
  <2>1. /\ UNCHANGED <<history, pending, file, orphan, cancel>> /\ pc["bg"] = "done"
        /\ pc' = [pc EXCEPT !["closer"] = "sizing"]
        /\ batch' = [batch EXCEPT !["closer"] = pending]
    BY <1>17 DEF CloseFlush, BeginFlush, memory
  <2>2. /\ pc'["closer"] = "sizing" /\ pc'["bg"] = "done" /\ batch'["closer"] = pending
        /\ \A u \in Tasks \ {"closer"} : pc'[u] = pc[u] /\ batch'[u] = batch[u]
    BY <1>1, <2>1, Types
  <2>3. cancel # "requested"
    BY <2>1 DEF DurableInv
  <2>4. QED
    BY <2>1, <2>2, <2>3, LogKept
<1>18. CASE CloseDone
  BY <1>18, CloseDoneKeeps
<1>19. CASE CrashRestart
  BY <1>19, CrashKeeps, StepType
<1>20. QED
  BY <1>1, <1>2, <1>3, <1>4, <1>5, <1>6, <1>7, <1>8, <1>9, <1>10, <1>11, <1>12, <1>13, <1>14,
     <1>15, <1>16, <1>17, <1>18, <1>19 DEF Next

(* The queue and the log have all changes between them. *)
LEMMA DurableKeeps == TypeInv /\ DurableInv => NoLostChange
<1> SUFFICES ASSUME TypeInv, DurableInv, NEW n \in DOMAIN history
             PROVE  Covered(n) \/ \E i \in DOMAIN pending : pending[i].id = n
  BY DEF NoLostChange
<1>1. n \in 1 .. Len(history) /\ Len(pending) \in Nat /\ Len(history) \in Nat
  BY Types
<1>2. CASE n <= Dequeued
  BY <1>1, <1>2 DEF DurableInv, Holds, Covered, Dequeued
<1>3. CASE n > Dequeued
  <2> DEFINE i == n - Dequeued
  <2>1. i \in DOMAIN pending /\ Dequeued + i = n
    BY <1>1, <1>3, Types DEF Dequeued
  <2>2. QED
    BY <2>1 DEF DurableInv, Consecutive
<1>4. QED
  BY <1>1, <1>2, <1>3, Types

(* The loop and close() alone never flush at once. *)
LEMMA AloneOneFlush == ASSUME Flushers = {} PROVE TypeInv /\ DurableInv => OneFlush
<1>1. Tasks = Own
  BY Flushers = {} DEF Tasks, Own
<1>2. QED
  BY <1>1 DEF OneFlush, Own, InFlush, DurableInv

(* A committed change is lost only if two flushes overlap at some time:    *)
(* with as many calls of flush() as the application likes, one at a time,  *)
(* beside the loop, cancellations, failing writes, crashes and close(),    *)
(* every change is in the log, in a snapshot, or still in the queue.       *)
THEOREM LossNeedsOverlap == Spec /\ []OneFlush => []NoLostChange
<1>1. Init => TypeInv /\ DurableInv
  BY InitType, InitDurable
<1>2. TypeInv /\ DurableInv /\ OneFlush /\ [Next]_vars => TypeInv' /\ DurableInv'
  BY StepType, StepDurable
<1>3. QED
  BY <1>1, <1>2, DurableKeeps, PTL DEF Spec

(* No committed change is lost when the application leaves flushing to the *)
(* background task and to close().                                         *)
THEOREM NothingLost == ASSUME Flushers = {} PROVE Spec => []NoLostChange
<1>1. Init => TypeInv /\ DurableInv
  BY InitType, InitDurable
<1>2. TypeInv /\ DurableInv /\ [Next]_vars => TypeInv' /\ DurableInv'
  BY StepType, StepDurable, AloneOneFlush, Flushers = {}
<1>3. QED
  BY <1>1, <1>2, DurableKeeps, PTL DEF Spec

-----------------------------------------------------------------------------
(* What close() saves.  The final flush lists the whole queue, and so all  *)
(* that was committed before the call; once the file is closed, nothing    *)
(* more leaves the queue.                                                  *)
CloseInv ==
  /\ asked <= Len(history)
  /\ pc["closer"] \in InFlush => asked <= Dequeued + Len(batch["closer"])
  /\ ~opened /\ ~flush_failed => asked <= Dequeued

(* The history and the part of it that has left the queue only grow, until *)
(* a crash.                                                                *)
LEMMA Advances ==
  ASSUME TypeInv, DurableInv, [Next]_vars, ~CrashRestart
  PROVE  Len(history') >= Len(history) /\ Dequeued' >= Dequeued
<1> DEFINE Grows == Len(history') >= Len(history) /\ Dequeued' >= Dequeued
<1>1. ASSUME UNCHANGED <<history, pending>> PROVE Grows
  BY <1>1, Types DEF Dequeued
<1>2. ASSUME NEW t \in Tasks, Dequeue(t), UNCHANGED history PROVE Grows
  <2> DEFINE n == Len(batch[t])
  <2>1. n \in Nat /\ Len(pending) \in Nat /\ pending \in Seq(Change)
    BY Types DEF TypeInv, TypeOK
  <2>2. pending' = IF n <= Len(pending) THEN SubSeq(pending, n + 1, Len(pending)) ELSE <<>>
    BY <1>2 DEF Dequeue
  <2> HIDE DEF n
  <2>3. Len(pending') \in Nat /\ Len(pending') <= Len(pending)
    BY <2>1, <2>2
  <2>4. QED
    BY <1>2, <2>1, <2>3, Types DEF Dequeued
<1>3. ASSUME NEW k \in Keys, Commit(k) PROVE Grows
  BY <1>3, Types DEF Commit, Dequeued
<1>4. ASSUME NEW t \in Tasks, Write(t) \/ WriteFails(t) \/ ReadSize(t) \/ Fail(t) \/ FileClosed(t)
      PROVE  Grows
  BY <1>1, <1>4 DEF Write, WriteFails, ReadSize, Fail, FileClosed, memory
<1>5. ASSUME NEW t \in Tasks, FlushStart(t) \/ FlushDone(t) PROVE Grows
  BY <1>1, <1>2, <1>5 DEF FlushStart, FlushDone, memory
<1>6. CASE RequestSnapshot \/ BgStart \/ BgFlush \/ BgTick \/ BgCancelled \/ OrphanWrite
           \/ CloseBegin \/ CloseRaises \/ CloseFlush \/ CloseFile
  BY <1>1, <1>6 DEF RequestSnapshot, BgStart, BgFlush, BgTick, BgCancelled, OrphanWrite,
                    CloseBegin, CloseRaises, CloseFlush, CloseFile, memory
<1>7. CASE BgDone \/ BgShort
  BY <1>2, <1>7, TasksType DEF BgDone, BgShort
<1>8. CASE CloseDone
  BY <1>2, <1>8, TasksType DEF CloseDone
<1>9. CASE UNCHANGED vars
  BY <1>1, <1>9 DEF vars, memory
<1>10. QED
  BY <1>3, <1>4, <1>5, <1>6, <1>7, <1>8, <1>9 DEF Next

(* A step that leaves the closer alone. *)
LEMMA CloserKept ==
  ASSUME TypeInv, CloseInv, Len(history') >= Len(history), Dequeued' >= Dequeued,
         Dequeued' \in Int, Len(history') \in Nat,
         asked' = asked, ~opened' => ~opened, ~flush_failed' => ~flush_failed,
         pc'["closer"] \in InFlush => pc["closer"] \in InFlush /\ batch'["closer"] = batch["closer"]
  PROVE  CloseInv'
<1>1. /\ asked \in Nat /\ Len(history) \in Nat /\ Dequeued \in Int
      /\ Len(batch["closer"]) \in Nat
  BY Types DEF TypeInv, TypeOK
<1>2. QED
  BY <1>1 DEF CloseInv

LEMMA InitClose == ASSUME Init PROVE CloseInv
<1>1. /\ asked = 0 /\ Len(history) = 0 /\ Len(pending) = 0 /\ opened = TRUE
      /\ pc["closer"] = "idle"
  BY DEF Init, Tasks
<1>2. QED
  BY <1>1 DEF CloseInv, InFlush

LEMMA StepClose ==
  TypeInv /\ DurableInv /\ OneFlush /\ CloseInv /\ [Next]_vars => CloseInv'
<1> SUFFICES ASSUME TypeInv, DurableInv, OneFlush, CloseInv, [Next]_vars PROVE CloseInv'
  OBVIOUS
<1>1. /\ "bg" \in Tasks /\ "closer" \in Tasks /\ "closer" \notin Flushers
      /\ DOMAIN pc = Tasks /\ DOMAIN batch = Tasks /\ asked \in Nat
  BY Types, PersistenceAssumption DEF TypeInv, TypeOK
<1>2. TypeInv' /\ DurableInv'
  BY StepType, StepDurable
<1>3. Len(history') \in Nat /\ Dequeued' \in Nat
  BY <1>2, Types DEF TypeInv, TypeOK, DurableInv, Dequeued
<1>4. CASE CrashRestart
  <2>1. asked' = 0 /\ opened' = TRUE /\ pc'["closer"] = "idle"
    BY <1>1, <1>4 DEF CrashRestart
  <2>2. QED
    BY <1>3, <2>1 DEF CloseInv, InFlush
<1>5. CASE CloseBegin
  <2>1. /\ asked' = Len(history) /\ opened /\ UNCHANGED <<history, opened>>
        /\ pc' = [pc EXCEPT !["closer"] = "awaiting"]
    BY <1>5 DEF CloseBegin, memory
  <2>2. QED
    BY <1>1, <1>3, <2>1 DEF CloseInv, InFlush
<1>6. CASE CloseFlush
  <2>1. /\ UNCHANGED <<history, pending, asked, opened, flush_failed>> /\ opened
        /\ batch' = [batch EXCEPT !["closer"] = pending]
    BY <1>6 DEF CloseFlush, BeginFlush, CanFlush, memory, ghosts
  <2>2. asked' <= Dequeued' + Len(batch'["closer"])
    BY <1>1, <2>1, Types DEF CloseInv, Dequeued
  <2>3. QED
    BY <2>1, <2>2 DEF CloseInv
<1>7. CASE CloseFile
  <2>1. /\ UNCHANGED <<history, pending, asked, flush_failed>>
        /\ pc' = [pc EXCEPT !["closer"] = "idle"] /\ ~CanFlush
    BY <1>7 DEF CloseFile, memory, ghosts
  <2>2. ~opened \/ flush_failed \/ Len(pending) = 0
    BY <2>1 DEF CanFlush
  <2>3. ~flush_failed => asked <= Dequeued
    BY <1>1, <2>2, Types DEF CloseInv, Dequeued
  <2>4. pc'["closer"] \notin InFlush
    BY <1>1, <2>1 DEF InFlush
  <2>5. QED
    BY <2>1, <2>3, <2>4 DEF CloseInv, Dequeued
<1>8. CASE CloseDone
  <2>1. /\ UNCHANGED <<history, asked>> /\ pc["closer"] = "written" /\ Dequeue("closer")
        /\ pc' = [pc EXCEPT !["closer"] = IF Short("closer") THEN "raised" ELSE "idle"]
    BY <1>8 DEF CloseDone, ghosts
  <2>2. asked <= Dequeued + Len(batch["closer"])
    BY <2>1 DEF CloseInv, InFlush
  <2>3. Dequeued' = Dequeued + Len(batch["closer"])
    <3> DEFINE n == Len(batch["closer"])
    <3>1. ~Short("closer")
      BY <1>1, <2>1, NeverShort
    <3>2. n \in Nat /\ n <= Len(pending) /\ pending \in Seq(Change) /\ Len(pending) \in Nat
      BY <3>1, Types DEF Short
    <3>3. pending' = SubSeq(pending, n + 1, Len(pending))
      BY <2>1, <3>2 DEF Dequeue
    <3> HIDE DEF n
    <3>4. Len(pending') = Len(pending) - n
      BY <3>2, <3>3
    <3>5. Dequeued' = Dequeued + n
      BY <2>1, <3>2, <3>4, Types DEF Dequeued
    <3>6. QED
      BY <3>5 DEF n
  <2>4. pc'["closer"] \notin InFlush
    BY <1>1, <2>1 DEF InFlush
  <2>5. QED
    BY <2>1, <2>2, <2>3, <2>4 DEF CloseInv
<1>9. ASSUME ~CrashRestart, asked' = asked, ~opened' => ~opened, ~flush_failed' => ~flush_failed,
             pc'["closer"] \in InFlush =>
               pc["closer"] \in InFlush /\ batch'["closer"] = batch["closer"]
      PROVE  CloseInv'
  BY <1>3, <1>9, Advances, CloserKept
<1>10. ASSUME NEW t \in Tasks, ReadSize(t) \/ Write(t) \/ WriteFails(t) \/ Fail(t), ~CrashRestart
       PROVE  CloseInv'
  <2>1. /\ pc[t] \in {"sizing", "writing", "failed"}
        /\ \/ pc' = [pc EXCEPT ![t] = "writing"] /\ pc[t] # "failed"
           \/ pc' = [pc EXCEPT ![t] = "written"] /\ pc[t] # "failed"
           \/ \E s \in {"failed", "idle", "raised", "done", "error"} : pc' = [pc EXCEPT ![t] = s]
    BY <1>10 DEF ReadSize, Write, WriteFails, Fail, ghosts, jobs
  <2>2. pc'["closer"] \in InFlush => pc["closer"] \in InFlush
    BY <1>1, <2>1 DEF InFlush
  <2>3. UNCHANGED <<asked, opened, batch>> /\ (~flush_failed' => ~flush_failed)
    BY <1>10 DEF ReadSize, Write, WriteFails, Fail, ghosts, jobs
  <2>4. QED
    BY <1>9, <1>10, <2>2, <2>3
<1>11. ASSUME NEW t \in Tasks, FlushStart(t) \/ FlushDone(t) \/ FileClosed(t), ~CrashRestart
       PROVE  CloseInv'
  <2>1. /\ UNCHANGED <<asked, opened, flush_failed>> /\ t # "closer"
        /\ \E s \in {"sizing", "idle"} : pc' = [pc EXCEPT ![t] = s]
        /\ batch' = batch \/ batch' = [batch EXCEPT ![t] = pending]
    BY <1>1, <1>11 DEF FlushStart, BeginFlush, FlushDone, FileClosed, ghosts, jobs
  <2>2. pc'["closer"] = pc["closer"] /\ batch'["closer"] = batch["closer"]
    BY <1>1, <2>1
  <2>3. QED
    BY <1>9, <1>11, <2>1, <2>2
<1>12. CASE ~CrashRestart /\ (BgStart \/ BgFlush \/ BgTick \/ BgDone \/ BgShort \/ BgCancelled)
  <2>1. UNCHANGED <<asked, opened, flush_failed>>
    BY <1>12 DEF BgStart, BgFlush, BgTick, BgDone, BgShort, BgCancelled, ghosts
  <2>2. /\ pc' = pc \/ \E s \in {"idle", "sizing", "done", "error"} : pc' = [pc EXCEPT !["bg"] = s]
        /\ batch' = batch \/ batch' = [batch EXCEPT !["bg"] = pending]
    BY <1>12 DEF BgStart, BgFlush, BgTick, BgDone, BgShort, BgCancelled, BeginFlush, jobs
  <2>3. pc'["closer"] = pc["closer"] /\ batch'["closer"] = batch["closer"]
    BY <1>1, <2>2
  <2>4. QED
    BY <1>9, <1>12, <2>1, <2>3
<1>13. CASE ~CrashRestart /\ (RequestSnapshot \/ OrphanWrite \/ \E k \in Keys : Commit(k))
  <2>1. UNCHANGED <<asked, opened, flush_failed, pc, batch>>
    BY <1>13 DEF RequestSnapshot, OrphanWrite, Commit, ghosts, jobs
  <2>2. QED
    BY <1>9, <1>13, <2>1
<1>14. CASE ~CrashRestart /\ CloseRaises
  <2>1. UNCHANGED <<asked, opened, flush_failed>> /\ pc' = [pc EXCEPT !["closer"] = "raised"]
    BY <1>14 DEF CloseRaises, ghosts
  <2>2. pc'["closer"] \notin InFlush
    BY <1>1, <2>1 DEF InFlush
  <2>3. QED
    BY <1>9, <1>14, <2>1, <2>2
<1>15. CASE ~CrashRestart /\ UNCHANGED vars
  BY <1>9, <1>15 DEF vars, ghosts, jobs
<1>16. QED
  BY <1>4, <1>5, <1>6, <1>7, <1>8, <1>10, <1>11, <1>12, <1>13, <1>14, <1>15 DEF Next

(* What close() knows at the end of its flush. *)
LEMMA CloseKeeps == TypeInv /\ DurableInv /\ CloseInv => CloseSaves
<1> SUFFICES ASSUME TypeInv, DurableInv, CloseInv, ~opened, ~flush_failed, NEW n \in 1 .. asked
             PROVE  Covered(n)
  BY DEF CloseSaves
<1>1. n \in 1 .. Dequeued
  BY Types DEF CloseInv, TypeInv, TypeOK
<1>2. QED
  BY <1>1 DEF DurableInv, Holds, Covered

(* A close() that met no write error leaves every change committed before  *)
(* it in the log unless two flushes overlapped, wherever the cancellation  *)
(* finds the background task, with calls of flush() before it and under    *)
(* it, and however often close() is called.                                *)
THEOREM CloseSavesUnlessOverlap == Spec /\ []OneFlush => []CloseSaves
<1>1. Init => TypeInv /\ DurableInv /\ CloseInv
  BY InitType, InitDurable, InitClose
<1>2. TypeInv /\ DurableInv /\ CloseInv /\ OneFlush /\ [Next]_vars
        => TypeInv' /\ DurableInv' /\ CloseInv'
  BY StepType, StepDurable, StepClose
<1>3. QED
  BY <1>1, <1>2, CloseKeeps, PTL DEF Spec

(* Where only the loop and close() flush, it always does. *)
THEOREM CloseSavesAlways == ASSUME Flushers = {} PROVE Spec => []CloseSaves
<1>1. Init => TypeInv /\ DurableInv /\ CloseInv
  BY InitType, InitDurable, InitClose
<1>2. TypeInv /\ DurableInv /\ CloseInv /\ [Next]_vars => TypeInv' /\ DurableInv' /\ CloseInv'
  BY StepType, StepDurable, StepClose, AloneOneFlush, Flushers = {}
<1>3. QED
  BY <1>1, <1>2, CloseKeeps, PTL DEF Spec

-----------------------------------------------------------------------------
(* What holds however many flushes overlap, and however close() and its    *)
(* cancellation fall between them, as long as the process has not crashed: *)
(* snapshots record states the application was in, and a change is lost    *)
(* only where others are written twice.                                    *)

(* What a step adds to the log: changes, a snapshot of memory, or nothing. *)
Grown ==
  \/ file' = file
  \/ \E g \in Seq(ChangeEntry) : file' = file \o g
  \/ file' = Append(file, SnapshotOf(Len(file)))

(* A flush that has written its batch takes it off the queue. *)
Taken(t) ==
  /\ pc[t] = "written" /\ Dequeue(t)
  /\ \E s \in {"idle", "done", "error", "raised"} : pc' = [pc EXCEPT ![t] = s]
  /\ UNCHANGED <<statedict, history, batch>> /\ Grown

(* A step that only lists the queue, moves a task on or adds to the log.   *)
Moved ==
  /\ UNCHANGED <<statedict, history, pending>> /\ Grown
  /\ \A t \in Tasks : pc'[t] \in InFlush =>
       \/ pc[t] \in InFlush /\ batch'[t] = batch[t] /\ (pc'[t] = "written" => pc[t] = "written")
       \/ pc'[t] = "sizing" /\ batch'[t] = pending

LEMMA MovedOne ==
  ASSUME TypeInv, UNCHANGED <<statedict, history, pending>>, Grown, NEW t \in Tasks,
         NEW s, pc' = [pc EXCEPT ![t] = s],
         \/ s \notin InFlush /\ batch' = batch
         \/ s = "sizing" /\ batch' = [batch EXCEPT ![t] = pending]
         \/ s = "writing" /\ pc[t] = "sizing" /\ batch' = batch
  PROVE  Moved
<1>1. t \in DOMAIN pc /\ t \in DOMAIN batch
  BY Types
<1>2. ASSUME NEW u \in Tasks, pc'[u] \in InFlush
      PROVE  \/ pc[u] \in InFlush /\ batch'[u] = batch[u] /\ (pc'[u] = "written" => pc[u] = "written")
             \/ pc'[u] = "sizing" /\ batch'[u] = pending
  <2>1. CASE u = t
    <3>1. pc'[u] = s
      BY <1>1, <2>1
    <3>2. CASE s = "writing" /\ pc[t] = "sizing" /\ batch' = batch
      BY <2>1, <3>1, <3>2 DEF InFlush
    <3>3. CASE s = "sizing" /\ batch' = [batch EXCEPT ![t] = pending]
      BY <1>1, <2>1, <3>1, <3>3
    <3>4. QED
      BY <1>2, <3>1, <3>2, <3>3
  <2>2. CASE u # t
    <3>1. pc'[u] = pc[u] /\ batch'[u] = batch[u]
      BY <2>2, Types
    <3>2. QED
      BY <1>2, <3>1
  <2>3. QED
    BY <2>1, <2>2
<1>3. QED
  BY <1>2 DEF Moved

LEMMA MovedNone ==
  ASSUME UNCHANGED <<statedict, history, pending, pc, batch>>, Grown
  PROVE  Moved
  BY DEF Moved

LEMMA SnapshotGrown == ASSUME NEW c, MaybeSnapshot(c) PROVE Grown
  BY DEF MaybeSnapshot, Grown

(* The steps there are. *)
LEMMA Steps ==
  ASSUME TypeInv, [Next]_vars, crashes' = crashes
  PROVE  \/ \E k \in Keys : Commit(k)
         \/ \E t \in Tasks : Write(t) \/ Taken(t)
         \/ Moved
<1> DEFINE Goal == \/ \E k \in Keys : Commit(k)
                   \/ \E t \in Tasks : Write(t) \/ Taken(t)
                   \/ Moved
<1>1. "bg" \in Tasks /\ "closer" \in Tasks /\ crashes \in Nat
  BY TasksType DEF TypeInv, TypeOK
<1>2. ASSUME UNCHANGED <<memory, file, jobs>>, NEW t \in Tasks,
             \/ pc' = [pc EXCEPT ![t] = "writing"] /\ pc[t] = "sizing"
             \/ \E s \in {"idle", "failed", "raised", "done", "error", "awaiting"} :
                  pc' = [pc EXCEPT ![t] = s]
      PROVE  Moved
  BY <1>2, MovedOne DEF memory, jobs, Grown, InFlush
<1>3. ASSUME UNCHANGED <<memory, file>>, NEW t \in Tasks, BeginFlush(t) PROVE Moved
  BY <1>3, MovedOne DEF memory, Grown, BeginFlush
<1>4. CASE UNCHANGED vars \/ RequestSnapshot
  BY <1>4, MovedNone DEF vars, memory, jobs, RequestSnapshot, Grown
<1>5. ASSUME NEW t \in Tasks, ReadSize(t) PROVE Moved
  <2>1. /\ pc[t] = "sizing" /\ pc' = [pc EXCEPT ![t] = "writing"] /\ batch' = batch
        /\ UNCHANGED <<statedict, history, pending, file>>
    BY <1>5 DEF ReadSize, memory
  <2>2. QED
    BY <2>1, MovedOne DEF Grown
<1>6. ASSUME NEW t \in Tasks, WriteFails(t) \/ Fail(t) \/ FileClosed(t) PROVE Moved
  BY <1>2, <1>6 DEF WriteFails, Fail, FileClosed
<1>7. ASSUME NEW t \in Tasks, FlushStart(t) PROVE Moved
  BY <1>3, <1>7 DEF FlushStart
<1>8. ASSUME NEW t \in Tasks, FlushDone(t) PROVE Taken(t)
  BY <1>8 DEF FlushDone, Taken, Grown, jobs
<1>9. CASE BgStart
  BY <1>1, <1>2, <1>9 DEF BgStart
<1>10. CASE BgFlush
  BY <1>1, <1>3, <1>10 DEF BgFlush
<1>11. CASE BgTick
  <2>1. Grown /\ UNCHANGED <<statedict, history, pending, pc, batch>>
    BY <1>11, SnapshotGrown DEF BgTick, memory, jobs
  <2>2. QED
    BY <2>1, MovedNone
<1>12. CASE BgDone
  <2>1. Grown
    BY <1>12, SnapshotGrown DEF BgDone
  <2>2. Taken("bg")
    BY <1>12, <2>1 DEF BgDone, Taken, jobs
  <2>3. QED
    BY <1>1, <2>2
<1>13. CASE BgShort
  <2>1. Taken("bg")
    BY <1>13 DEF BgShort, Taken, Grown, jobs
  <2>2. QED
    BY <1>1, <2>1
<1>14. CASE BgCancelled
  <2>1. UNCHANGED memory
    BY <1>14 DEF BgCancelled
  <2>2. \/ pc' = [pc EXCEPT !["bg"] = "done"] /\ UNCHANGED <<file, jobs>>
        \/ BeginFlush("bg") /\ UNCHANGED file
        \/ MaybeSnapshot(changes) /\ pc' = [pc EXCEPT !["bg"] = "done"] /\ UNCHANGED jobs
    BY <1>14 DEF BgCancelled
  <2>3. CASE pc' = [pc EXCEPT !["bg"] = "done"] /\ UNCHANGED <<file, jobs>>
    BY <1>1, <1>2, <2>1, <2>3
  <2>4. CASE BeginFlush("bg") /\ UNCHANGED file
    BY <1>1, <1>3, <2>1, <2>4
  <2>5. CASE MaybeSnapshot(changes) /\ pc' = [pc EXCEPT !["bg"] = "done"] /\ UNCHANGED jobs
    <3>1. Grown /\ "done" \notin InFlush
      BY <2>5, SnapshotGrown DEF InFlush
    <3>2. QED
      BY <1>1, <2>1, <2>5, <3>1, MovedOne DEF memory, jobs
  <2>6. QED
    BY <2>2, <2>3, <2>4, <2>5
<1>15. CASE OrphanWrite
  <2>1. UNCHANGED <<statedict, history, pending, pc, batch>> /\ (file' = file \/ file' = file \o orphan)
    BY <1>15 DEF OrphanWrite, memory, jobs
  <2>2. Grown
    BY <2>1, Types DEF Grown
  <2>3. QED
    BY <2>1, <2>2, MovedNone
<1>16. CASE CloseBegin \/ CloseRaises \/ CloseFile
  BY <1>1, <1>2, <1>16 DEF CloseBegin, CloseRaises, CloseFile
<1>17. CASE CloseFlush
  BY <1>1, <1>3, <1>17 DEF CloseFlush
<1>18. CASE CloseDone
  <2>1. Taken("closer")
    BY <1>18 DEF CloseDone, Taken, Grown, jobs
  <2>2. QED
    BY <1>1, <2>1
<1>19. ~CrashRestart
  BY <1>1 DEF CrashRestart
<1>20. ASSUME NEW t \in Tasks, \/ ReadSize(t) \/ Write(t) \/ WriteFails(t) \/ Fail(t)
                               \/ FlushStart(t) \/ FlushDone(t) \/ FileClosed(t)
       PROVE  Goal
  BY <1>5, <1>6, <1>7, <1>8, <1>20
<1>21. QED
  BY <1>4, <1>9, <1>10, <1>11, <1>12, <1>13, <1>14, <1>15, <1>16, <1>17, <1>18, <1>19, <1>20 DEF Next

LEMMA CrashesCounted ==
  ASSUME TypeInv, [Next]_vars
  PROVE  crashes' = crashes \/ crashes' = crashes + 1
  BY DEF Next, vars, ghosts, Commit, RequestSnapshot, ReadSize, Write, WriteFails, Fail, FlushStart,
         FlushDone, FileClosed, BgStart, BgFlush, BgTick, BgDone, BgShort, BgCancelled, OrphanWrite,
         CloseBegin, CloseRaises, CloseFlush, CloseFile, CloseDone, CrashRestart

-----------------------------------------------------------------------------
(* Snapshots *)

(* The state after the first n changes of history h. *)
After(h, n) == [k \in Keys |-> LastIn(SubSeq(h, 1, n), k)]

LEMMA AfterIs == ASSUME NEW n PROVE StateAfter(n) = After(history, n)
  BY DEF StateAfter, After, LastIn

(* Memory holds the state after the last commit, and every snapshot one    *)
(* the application was in.                                                 *)
ExactInv ==
  /\ statedict = After(history, Len(history))
  /\ \A i \in DOMAIN file : file[i].kind = "snapshot" => file[i].state = After(history, file[i].id)

LEMMA InitExact == ASSUME Init PROVE ExactInv
<1> DEFINE e == [kind |-> "snapshot", id |-> 0, state |-> Empty, at |-> 0]
<1>1. /\ file = <<e>> /\ history = <<>> /\ statedict = Empty
      /\ e.id = 0 /\ e.state = Empty
  BY DEF Init
<1> HIDE DEF e
<1>2. Len(file) = 1 /\ file[1] = e /\ Len(history) = 0 /\ DOMAIN file = 1 .. 1
  BY <1>1
<1>3. After(history, 0) = Empty
  <2>1. history \in Seq(Change)
    BY <1>1
  <2>2. SubSeq(history, 1, 0) = <<>>
    BY <2>1
  <2>3. ASSUME NEW k \in Keys PROVE LastIn(SubSeq(history, 1, 0), k) = 0
    BY <2>2, LastInEmpty
  <2>4. QED
    BY <2>3 DEF After, Empty
<1>4. QED
  BY <1>1, <1>2, <1>3 DEF ExactInv

(* More commits do not change the state after an earlier one. *)
LEMMA EarlierState ==
  ASSUME NEW h \in Seq(Change), NEW c \in Change, NEW n \in 0 .. Len(h)
  PROVE  After(Append(h, c), n) = After(h, n)
<1> DEFINE x == SubSeq(h, 1, n)
           y == SubSeq(Append(h, c), 1, n)
<1>1. /\ Append(h, c) \in Seq(Change) /\ Len(Append(h, c)) = Len(h) + 1 /\ Len(h) \in Nat
      /\ \A i \in 1 .. Len(h) : Append(h, c)[i] = h[i]
  OBVIOUS
<1>2. x \in Seq(Change) /\ Len(x) = n /\ \A i \in 1 .. n : x[i] = h[i]
  OBVIOUS
<1>3. y \in Seq(Change) /\ Len(y) = n /\ \A i \in 1 .. n : y[i] = h[i]
  BY <1>1
<1> HIDE DEF x, y
<1>4. x = y
  BY <1>2, <1>3
<1>5. QED
  BY <1>4 DEF After, x, y

LEMMA StepExact ==
  ASSUME TypeInv, ExactInv, [Next]_vars, crashes' = crashes
  PROVE  ExactInv'
<1>1. /\ history \in Seq(Change) /\ Len(history) \in Nat /\ file \in Seq(Entry) /\ Len(file) \in Nat
      /\ statedict \in State /\ DOMAIN file = 1 .. Len(file)
      /\ \A i \in DOMAIN file : file[i].id \in 0 .. Len(history)
  BY Types DEF TypeInv, TypeOK, UpTo
<1>2. ASSUME NEW key \in Keys, Commit(key) PROVE ExactInv'
  <2> DEFINE c == [id |-> Len(history) + 1, key |-> key]
             n == Len(history) + 1
  <2>1. /\ history' = Append(history, c) /\ UNCHANGED file /\ c \in Change /\ c.key = key
        /\ statedict' = [statedict EXCEPT ![key] = n]
    BY <1>1, <1>2 DEF Commit, Change
  <2> HIDE DEF c
  <2>2. ASSUME NEW i \in DOMAIN file, file[i].kind = "snapshot"
        PROVE  file[i].state = After(history', file[i].id)
    <3>1. file[i].state = After(history, file[i].id)
      BY <2>2 DEF ExactInv
    <3>2. QED
      BY <1>1, <2>1, <3>1, EarlierState
  <2>3. Len(history') = n /\ history' \in Seq(Change)
    BY <1>1, <2>1
  <2>4. SubSeq(history', 1, n) = history'
    BY <2>3
  <2>5. SubSeq(history, 1, Len(history)) = history
    BY <1>1
  <2>6. statedict = [k \in Keys |-> LastIn(history, k)]
    BY <2>5 DEF ExactInv, After
  <2>7. ASSUME NEW k \in Keys PROVE LastIn(history', k) = statedict'[k]
    <3>1. LastIn(history', k) = IF c.key = k THEN n ELSE LastIn(history, k)
      BY <1>1, <2>1, LastInAppend
    <3>2. statedict[k] = LastIn(history, k) /\ statedict' = [statedict EXCEPT ![key] = n]
          /\ DOMAIN statedict = Keys
      BY <2>1, <2>6
    <3>3. QED
      BY <2>1, <3>1, <3>2
  <2>8. statedict' = [k \in Keys |-> LastIn(history', k)]
    <3>1. DOMAIN statedict' = Keys /\ statedict' = [k \in Keys |-> statedict'[k]]
      BY <1>1, <2>1 DEF State
    <3>2. QED
      BY <2>7, <3>1
  <2>9. statedict' = After(history', n)
    BY <2>4, <2>8 DEF After
  <2>10. QED
    BY <2>1, <2>2, <2>3, <2>9 DEF ExactInv
<1>3. ASSUME UNCHANGED <<statedict, history>>, Grown PROVE ExactInv'
  <2>1. statedict = After(history, Len(history))
    BY DEF ExactInv
  <2>2. ASSUME NEW i \in DOMAIN file', file'[i].kind = "snapshot"
        PROVE  file'[i].state = After(history, file'[i].id)
    <3>1. CASE i \in DOMAIN file /\ file'[i] = file[i]
      BY <2>2, <3>1 DEF ExactInv
    <3>2. CASE file' = file
      BY <2>2, <3>1, <3>2
    <3>3. ASSUME NEW g \in Seq(ChangeEntry), file' = file \o g
          PROVE  i \in DOMAIN file /\ file'[i] = file[i]
      <4>1. g \in Seq(Entry) /\ Len(g) \in Nat
        BY ChangesAreEntries
      <4>2. /\ DOMAIN file' = 1 .. Len(file) + Len(g)
            /\ file'[i] = IF i <= Len(file) THEN file[i] ELSE g[i - Len(file)]
        BY <1>1, <2>2, <3>3, <4>1
      <4>3. i <= Len(file)
        <5> SUFFICES ASSUME i > Len(file) PROVE FALSE
          BY <1>1, <2>2, <4>2
        <5> DEFINE j == i - Len(file)
        <5>1. j \in 1 .. Len(g) /\ file'[i] = g[j]
          BY <1>1, <2>2, <4>1, <4>2
        <5>2. g[j] \in ChangeEntry
          BY <5>1
        <5>3. QED
          BY <2>2, <5>1, <5>2 DEF ChangeEntry
      <4>4. QED
        BY <1>1, <2>2, <4>2, <4>3
    <3>4. CASE file' = Append(file, SnapshotOf(Len(file)))
      <4> DEFINE e == SnapshotOf(Len(file))
      <4>1. e.state = statedict /\ e.id = Len(history)
        BY DEF SnapshotOf
      <4> HIDE DEF e
      <4>2. file' = Append(file, e)
        BY <3>4 DEF e
      <4>3. /\ DOMAIN file' = 1 .. Len(file) + 1 /\ file'[Len(file) + 1] = e
            /\ \A j \in 1 .. Len(file) : file'[j] = file[j]
        BY <1>1, <4>2
      <4>4. CASE i = Len(file) + 1
        BY <2>1, <4>1, <4>3, <4>4
      <4>5. CASE i # Len(file) + 1
        BY <1>1, <2>2, <3>1, <4>3, <4>5
      <4>6. QED
        BY <4>4, <4>5
    <3>5. QED
      BY <1>3, <3>1, <3>2, <3>3, <3>4 DEF Grown
  <2>3. QED
    BY <1>3, <2>1, <2>2 DEF ExactInv
<1>4. ASSUME NEW t \in Tasks, Write(t) PROVE ExactInv'
  <2>1. /\ UNCHANGED <<statedict, history>> /\ file' = file \o Framed(batch[t], base[t])
    BY <1>4 DEF Write, memory
  <2>2. Grown
    BY <2>1, FramedUpTo DEF Grown
  <2>3. QED
    BY <1>3, <2>1, <2>2
<1>5. QED
  BY <1>2, <1>3, <1>4, Steps DEF Taken, Moved

(* Whatever flushes overlap, whenever snapshots are asked for or close()   *)
(* cancels the loop, a snapshot records the state after the change it is   *)
(* numbered with; only a restart may replay a state that never was.        *)
THEOREM SnapshotsStayExact == Spec => [](crashes = 0 => SnapshotsExact)
<1> DEFINE Inv == TypeInv /\ (crashes = 0 => ExactInv)
<1>1. Init => Inv
  BY InitType, InitExact
<1>2. Inv /\ [Next]_vars => Inv'
  <2> SUFFICES ASSUME Inv, [Next]_vars PROVE Inv'
    OBVIOUS
  <2>1. TypeInv' /\ crashes \in Nat
    BY StepType DEF TypeInv, TypeOK
  <2>2. ASSUME crashes' = 0 PROVE ExactInv'
    <3>1. crashes' = crashes
      BY <2>1, <2>2, CrashesCounted
    <3>2. QED
      BY <2>2, <3>1, StepExact
  <2>3. QED
    BY <2>1, <2>2
<1>3. Inv => (crashes = 0 => SnapshotsExact)
  BY AfterIs DEF ExactInv, SnapshotsExact
<1> HIDE DEF Inv
<1>4. QED
  BY <1>1, <1>2, <1>3, PTL DEF Spec

-----------------------------------------------------------------------------
(* Losses *)

(* Of the change records, those of S pay for what has left the queue, one  *)
(* for each change or more, and those of W[t] for the batch that task t    *)
(* has written and has yet to take off the queue.                          *)
Claims(S, W) ==
  /\ Cardinality(S) >= Dequeued
  /\ \A i \in S : file[i].id <= Dequeued
  /\ \A t \in Tasks : W[t] \cap S = {}
  /\ \A t, u \in Tasks : t # u => W[t] \cap W[u] = {}
  /\ \A t \in Tasks : pc[t] = "written" =>
       /\ Cardinality(W[t]) >= Len(batch[t])
       /\ \A i \in W[t] : file[i].id <= Dequeued + Len(batch[t])

Claimed == \E S \in SUBSET ChangeRecords : \E W \in [Tasks -> SUBSET ChangeRecords] : Claims(S, W)

(* The queue is the end of the history; a flush under way listed a queue   *)
(* of which nothing else has been dequeued beyond its batch.               *)
LossInv ==
  /\ Len(pending) <= Len(history)
  /\ Consecutive(pending, Dequeued)
  /\ \A t \in Tasks : pc[t] \in InFlush => UpTo(batch[t], Dequeued + Len(batch[t]))
  /\ Claimed

LEMMA RecordsFinite ==
  ASSUME TypeInv
  PROVE  ChangeRecords \subseteq 1 .. Len(file) /\ IsFiniteSet(ChangeRecords)
         /\ \A S \in SUBSET ChangeRecords : IsFiniteSet(S) /\ Cardinality(S) \in Nat
<1>1. ChangeRecords \subseteq 1 .. Len(file) /\ Len(file) \in Nat
  BY Types DEF ChangeRecords
<1>2. IsFiniteSet(1 .. Len(file))
  BY <1>1, FS_Interval
<1>3. \A S \in SUBSET (1 .. Len(file)) : IsFiniteSet(S) /\ Cardinality(S) \in Nat
  BY <1>2, FS_Subset, FS_CardinalityType
<1>4. QED
  BY <1>1, <1>3

LEMMA InitLoss == ASSUME Init PROVE LossInv
<1>1. /\ history = <<>> /\ pending = <<>> /\ Len(history) = 0 /\ Len(pending) = 0
      /\ \A t \in Tasks : pc[t] \in {"new", "idle"}
  BY DEF Init
<1>2. Dequeued = 0
  BY <1>1 DEF Dequeued
<1>3. Claims({}, [t \in Tasks |-> {}])
  BY <1>1, <1>2, FS_EmptySet DEF Claims
<1>4. Claimed
  <2> DEFINE W == [t \in Tasks |-> {}]
  <2>1. {} \in SUBSET ChangeRecords /\ W \in [Tasks -> SUBSET ChangeRecords]
    OBVIOUS
  <2> HIDE DEF W
  <2>2. QED
    BY <1>3, <2>1 DEF Claimed, W
<1>5. QED
  BY <1>1, <1>2, <1>4 DEF LossInv, Consecutive, InFlush

(* What grows keeps its records. *)
LEMMA GrownKeeps ==
  ASSUME TypeInv, Grown
  PROVE  /\ \A i \in DOMAIN file : i \in DOMAIN file' /\ file'[i] = file[i]
         /\ ChangeRecords \subseteq ChangeRecords'
<1>1. file \in Seq(Entry)
  BY Types
<1>2. \A i \in DOMAIN file : i \in DOMAIN file' /\ file'[i] = file[i]
  <2>1. CASE file' = file
    BY <2>1
  <2>2. ASSUME NEW g \in Seq(ChangeEntry), file' = file \o g
        PROVE  \A i \in DOMAIN file : i \in DOMAIN file' /\ file'[i] = file[i]
    BY <1>1, <2>2, ChangesAreEntries
  <2>3. CASE file' = Append(file, SnapshotOf(Len(file)))
    <3> DEFINE e == SnapshotOf(Len(file))
    <3> HIDE DEF e
    <3>1. file' = Append(file, e)
      BY <2>3 DEF e
    <3>2. QED
      BY <1>1, <3>1
  <2>4. QED
    BY <2>1, <2>2, <2>3 DEF Grown
<1>3. QED
  BY <1>2 DEF ChangeRecords

(* A step that dequeues nothing and writes no batch leaves the claims.     *)
LEMMA ClaimsKept ==
  ASSUME TypeInv, Claimed, Grown, Dequeued' = Dequeued, Dequeued \in Nat,
         \A t \in Tasks : pc'[t] = "written" => pc[t] = "written" /\ batch'[t] = batch[t]
  PROVE  Claimed'
<1>1. PICK S \in SUBSET ChangeRecords, W \in [Tasks -> SUBSET ChangeRecords] : Claims(S, W)
  BY DEF Claimed
<1>2. /\ ChangeRecords \subseteq ChangeRecords' /\ ChangeRecords \subseteq DOMAIN file
      /\ \A i \in DOMAIN file : file'[i] = file[i]
  BY GrownKeeps DEF ChangeRecords
<1>3. S \in SUBSET ChangeRecords' /\ W \in [Tasks -> SUBSET ChangeRecords']
  BY <1>2
<1>4. /\ \A i \in S : file'[i] = file[i]
      /\ \A t \in Tasks : \A i \in W[t] : file'[i] = file[i]
  BY <1>1, <1>2
<1>5. Claims(S, W)'
  BY <1>1, <1>4 DEF Claims
<1>6. QED
  BY <1>3, <1>5 DEF Claimed

(* The records of a batch are new ones, claimed by the task that wrote it. *)
LEMMA WriteClaims ==
  ASSUME TypeInv, LossInv, NEW t \in Tasks, Write(t), Dequeued \in Nat
  PROVE  Claimed'
<1> DEFINE g == Framed(batch[t], base[t])
           N == Len(file) + 1 .. Len(file) + Len(g)
<1>1. /\ pc[t] = "writing" /\ pc' = [pc EXCEPT ![t] = "written"] /\ file' = file \o g
      /\ UNCHANGED <<history, pending, batch>>
  BY DEF Write, memory, jobs
<1>2. /\ g \in Seq(ChangeEntry) /\ Len(g) = Len(batch[t]) /\ Len(g) \in Nat
      /\ \A i \in 1 .. Len(g) : g[i].kind = "change" /\ g[i].id = batch[t][i].id
  BY FramedType DEF TypeInv, TypeOK
<1>3. \A i \in 1 .. Len(g) : g[i].id <= Dequeued + Len(g)
  <2>1. UpTo(batch[t], Dequeued + Len(batch[t]))
    BY <1>1 DEF LossInv, InFlush
  <2>2. batch[t] \in Seq(Change)
    BY DEF TypeInv, TypeOK
  <2>3. ASSUME NEW i \in 1 .. Len(g) PROVE batch[t][i].id <= Dequeued + Len(g)
    BY <1>2, <2>1, <2>2 DEF UpTo
  <2>4. QED
    BY <1>2, <2>3
<1>4. /\ file \in Seq(Entry) /\ Len(file) \in Nat /\ g \in Seq(Entry) /\ DOMAIN file = 1 .. Len(file)
  BY <1>2, Types, ChangesAreEntries
<1> HIDE DEF g
<1>5. DOMAIN file' = 1 .. Len(file) + Len(g)
      /\ \A i \in 1 .. Len(file) + Len(g) : file'[i] = IF i <= Len(file) THEN file[i] ELSE g[i - Len(file)]
  <2>1. /\ DOMAIN (file \o g) = 1 .. Len(file) + Len(g)
        /\ \A i \in 1 .. Len(file) + Len(g) :
             (file \o g)[i] = IF i <= Len(file) THEN file[i] ELSE g[i - Len(file)]
    BY <1>4
  <2>2. QED
    BY <1>1, <2>1
<1>6. ASSUME NEW i \in N
      PROVE  i \in ChangeRecords' /\ file'[i].id <= Dequeued + Len(g) /\ i \notin ChangeRecords
  <2> DEFINE j == i - Len(file)
  <2>1. j \in 1 .. Len(g) /\ i \in DOMAIN file' /\ file'[i] = g[j] /\ i \notin DOMAIN file
    BY <1>2, <1>4, <1>5
  <2> HIDE DEF j
  <2>2. file'[i].kind = "change" /\ file'[i].id <= Dequeued + Len(g)
    BY <1>2, <1>3, <2>1
  <2>3. QED
    BY <2>1, <2>2 DEF ChangeRecords
<1>7. Cardinality(N) = Len(g)
  <2> DEFINE a == Len(file) + 1
             b == Len(file) + Len(g)
  <2>1. a \in Int /\ b \in Int /\ (a > b <=> Len(g) = 0) /\ b - a + 1 = Len(g)
    BY <1>2, <1>4
  <2> HIDE DEF a, b
  <2>2. Cardinality(a .. b) = IF a > b THEN 0 ELSE b - a + 1
    BY <2>1, FS_Interval
  <2>3. Cardinality(a .. b) = Len(g)
    BY <1>2, <2>1, <2>2
  <2>4. QED
    BY <2>3 DEF a, b
<1> HIDE DEF N
<1>8. PICK S \in SUBSET ChangeRecords, W \in [Tasks -> SUBSET ChangeRecords] : Claims(S, W)
  BY DEF LossInv, Claimed
<1>9. ChangeRecords \subseteq ChangeRecords' /\ \A i \in ChangeRecords : file'[i] = file[i]
  <2>1. Grown
    BY <1>1, <1>2 DEF Grown
  <2>2. QED
    BY <2>1, GrownKeeps DEF ChangeRecords
<1>10. PICK V \in [Tasks -> SUBSET ChangeRecords'] : V = [W EXCEPT ![t] = N]
  BY <1>6, <1>8, <1>9
<1>11. V[t] = N /\ \A u \in Tasks \ {t} : V[u] = W[u]
  BY <1>8, <1>10
<1>12. Dequeued' = Dequeued /\ S \in SUBSET ChangeRecords'
  BY <1>1, <1>8, <1>9 DEF Dequeued
<1>13. Cardinality(S) >= Dequeued' /\ \A i \in S : file'[i].id <= Dequeued'
  BY <1>8, <1>9, <1>12 DEF Claims
<1>14. ASSUME NEW u \in Tasks PROVE V[u] \cap S = {} /\ \A v \in Tasks : u # v => V[u] \cap V[v] = {}
  <2>1. /\ W[u] \cap S = {} /\ N \cap S = {} /\ \A v \in Tasks : W[v] \cap N = {}
        /\ \A v \in Tasks : u # v => W[u] \cap W[v] = {}
    BY <1>6, <1>8 DEF Claims
  <2>2. QED
    BY <1>11, <2>1
<1>15. ASSUME NEW u \in Tasks, pc'[u] = "written"
       PROVE  /\ Cardinality(V[u]) >= Len(batch'[u])
              /\ \A i \in V[u] : file'[i].id <= Dequeued' + Len(batch'[u])
  <2>1. CASE u = t
    <3>1. V[u] = N /\ batch'[u] = batch[t] /\ Len(batch[t]) = Len(g)
      BY <1>1, <1>2, <1>11, <2>1
    <3>2. Cardinality(N) >= Len(g)
      BY <1>2, <1>7
    <3>3. QED
      BY <1>6, <1>12, <3>1, <3>2
  <2>2. CASE u # t
    <3>1. pc[u] = "written" /\ V[u] = W[u] /\ batch'[u] = batch[u]
      BY <1>1, <1>11, <1>15, <2>2, Types
    <3>2. /\ Cardinality(W[u]) >= Len(batch[u])
          /\ \A i \in W[u] : file[i].id <= Dequeued + Len(batch[u])
      BY <1>8, <3>1 DEF Claims
    <3>3. \A i \in W[u] : file'[i] = file[i]
      BY <1>8, <1>9
    <3>4. QED
      BY <1>12, <3>1, <3>2, <3>3
  <2>3. QED
    BY <2>1, <2>2
<1>16. Claims(S, V)'
  BY <1>13, <1>14, <1>15 DEF Claims
<1>17. QED
  BY <1>12, <1>16 DEF Claimed

(* A flush takes off the queue at most as many as it wrote, and leaves its *)
(* records to pay for them.                                                *)
LEMMA TakenBound ==
  ASSUME TypeInv, LossInv, NEW t \in Tasks, Taken(t)
  PROVE  /\ Len(pending') \in Nat /\ Len(pending') <= Len(history') /\ Dequeued \in Nat
         /\ Dequeued' \in Nat /\ Dequeued <= Dequeued' /\ Dequeued' <= Dequeued + Len(batch[t])
         /\ Dequeued' = Dequeued + Len(batch[t]) \/ Dequeued' = Len(history)
         /\ Consecutive(pending', Dequeued')
<1> DEFINE n == Len(batch[t])
           m == Len(pending)
<1>1. /\ pending \in Seq(Change) /\ n \in Nat /\ m \in Nat /\ Len(history) \in Nat /\ m <= Len(history)
      /\ history' = history /\ Dequeued = Len(history) - m
      /\ Dequeued' = Len(history) - Len(pending')
  BY Types DEF TypeInv, TypeOK, LossInv, Taken, Dequeued
<1>2. pending' = IF n <= m THEN SubSeq(pending, n + 1, m) ELSE <<>>
  BY DEF Taken, Dequeue
<1>3. Consecutive(pending, Dequeued)
  BY DEF LossInv
<1> HIDE DEF n
<1>4. CASE n <= m
  <2>1. /\ Len(pending') = m - n /\ DOMAIN pending' = 1 .. m - n
        /\ \A i \in 1 .. m - n : pending'[i] = pending[n + i]
    BY <1>1, <1>2, <1>4
  <2>2. Dequeued' = Dequeued + n
    BY <1>1, <2>1
  <2>3. ASSUME NEW i \in DOMAIN pending' PROVE pending'[i].id = Dequeued' + i
    <3>1. i \in 1 .. m - n /\ n + i \in DOMAIN pending /\ pending'[i] = pending[n + i]
      BY <1>1, <1>4, <2>1, <2>3
    <3>2. pending[n + i].id = Dequeued + (n + i)
      BY <1>3, <3>1 DEF Consecutive
    <3>3. QED
      BY <1>1, <2>2, <3>1, <3>2
  <2>4. Consecutive(pending', Dequeued')
    BY <2>3 DEF Consecutive
  <2>5. QED
    BY <1>1, <1>4, <2>1, <2>2, <2>4 DEF n
<1>5. CASE ~(n <= m)
  <2>1. pending' = <<>> /\ Len(pending') = 0
    BY <1>2, <1>5
  <2>2. Consecutive(pending', Dequeued')
    BY <2>1 DEF Consecutive
  <2>3. QED
    BY <1>1, <1>5, <2>1, <2>2 DEF n
<1>6. QED
  BY <1>4, <1>5

LEMMA TakenClaims ==
  ASSUME TypeInv, LossInv, NEW t \in Tasks, Taken(t)
  PROVE  Claimed'
<1>1. /\ Dequeued \in Nat /\ Dequeued' \in Nat /\ Dequeued <= Dequeued'
      /\ Dequeued' <= Dequeued + Len(batch[t])
      /\ Dequeued' = Dequeued + Len(batch[t]) \/ Dequeued' = Len(history)
  BY TakenBound
<1>2. /\ pc[t] = "written" /\ batch' = batch /\ Grown
      /\ \A u \in Tasks : pc'[u] = "written" => u # t /\ pc[u] = "written"
  BY Types DEF Taken
<1>3. PICK S \in SUBSET ChangeRecords, W \in [Tasks -> SUBSET ChangeRecords] : Claims(S, W)
  BY DEF LossInv, Claimed
<1>4. /\ ChangeRecords \subseteq ChangeRecords' /\ ChangeRecords \subseteq DOMAIN file
      /\ \A i \in ChangeRecords : file'[i] = file[i] /\ file[i].id \in 0 .. Len(history)
  BY <1>2, GrownKeeps DEF ChangeRecords, TypeInv, UpTo
<1>5. PICK R \in SUBSET ChangeRecords : R = S \cup W[t]
  BY <1>3
<1>6. PICK V \in [Tasks -> SUBSET ChangeRecords] : V = [W EXCEPT ![t] = {}]
  BY <1>3
<1>7. V[t] = {} /\ \A u \in Tasks \ {t} : V[u] = W[u]
  BY <1>3, <1>6
<1>8. Cardinality(R) >= Dequeued'
  <2>1. /\ IsFiniteSet(S) /\ IsFiniteSet(W[t]) /\ W[t] \cap S = {}
        /\ Cardinality(S) \in Nat /\ Cardinality(W[t]) \in Nat
    BY <1>3, RecordsFinite DEF Claims
  <2>2. Cardinality(R) = Cardinality(S) + Cardinality(W[t])
    <3>1. Cardinality(R) = Cardinality(S) + Cardinality(W[t]) - Cardinality(S \cap W[t])
      BY <1>5, <2>1, FS_Union
    <3>2. Cardinality(S \cap W[t]) = 0
      BY <2>1, FS_EmptySet
    <3>3. QED
      BY <2>1, <3>1, <3>2
  <2>3. Cardinality(S) >= Dequeued /\ Cardinality(W[t]) >= Len(batch[t])
    BY <1>2, <1>3 DEF Claims
  <2>4. Len(batch[t]) \in Nat
    BY DEF TypeInv, TypeOK
  <2>5. QED
    BY <1>1, <2>1, <2>2, <2>3, <2>4
<1>9. ASSUME NEW i \in R PROVE file'[i].id <= Dequeued'
  <2>1. file'[i] = file[i] /\ file[i].id \in 0 .. Len(history) /\ Len(history) \in Nat
    BY <1>4, Types
  <2>2. Len(batch[t]) \in Nat
    BY DEF TypeInv, TypeOK
  <2>3. CASE i \in S
    <3>1. file[i].id <= Dequeued
      BY <1>3, <2>3 DEF Claims
    <3>2. QED
      BY <1>1, <2>1, <3>1
  <2>4. CASE i \in W[t]
    <3>1. file[i].id <= Dequeued + Len(batch[t])
      BY <1>2, <1>3, <2>4 DEF Claims
    <3>2. QED
      BY <1>1, <2>1, <2>2, <3>1
  <2>5. QED
    BY <1>5, <2>3, <2>4
<1>10. ASSUME NEW u \in Tasks
       PROVE  V[u] \cap R = {} /\ \A v \in Tasks : u # v => V[u] \cap V[v] = {}
  <2>1. CASE u = t
    BY <1>7, <2>1
  <2>2. CASE u # t
    <3>1. V[u] = W[u] /\ W[u] \cap S = {} /\ \A v \in Tasks : u # v => W[u] \cap W[v] = {}
      BY <1>3, <1>7, <2>2 DEF Claims
    <3>2. \A v \in Tasks : V[v] = W[v] \/ V[v] = {}
      BY <1>7
    <3>3. QED
      BY <1>5, <2>2, <3>1, <3>2
  <2>3. QED
    BY <2>1, <2>2
<1>11. ASSUME NEW u \in Tasks, pc'[u] = "written"
       PROVE  /\ Cardinality(V[u]) >= Len(batch'[u])
              /\ \A i \in V[u] : file'[i].id <= Dequeued' + Len(batch'[u])
  <2>1. u # t /\ pc[u] = "written" /\ V[u] = W[u] /\ batch' = batch
    BY <1>2, <1>7, <1>11
  <2>2. /\ Cardinality(W[u]) >= Len(batch[u])
        /\ \A i \in W[u] : file[i].id <= Dequeued + Len(batch[u])
    BY <1>3, <2>1 DEF Claims
  <2>3. \A i \in W[u] : file'[i] = file[i] /\ file[i].id \in Nat
    BY <1>3, <1>4, Types
  <2>4. Len(batch[u]) \in Nat
    BY DEF TypeInv, TypeOK
  <2>5. \A i \in W[u] : file[i].id <= Dequeued' + Len(batch[u])
    BY <1>1, <2>2, <2>3, <2>4
  <2>6. QED
    BY <2>1, <2>2, <2>3, <2>5
<1>12. Claims(R, V)'
  BY <1>8, <1>9, <1>10, <1>11 DEF Claims
<1>13. R \in SUBSET ChangeRecords' /\ V \in [Tasks -> SUBSET ChangeRecords']
  BY <1>4
<1>14. QED
  BY <1>12, <1>13 DEF Claimed

LEMMA StepLoss ==
  ASSUME TypeInv, LossInv, [Next]_vars, crashes' = crashes
  PROVE  LossInv'
<1>1. /\ pending \in Seq(Change) /\ Len(pending) \in Nat /\ Len(history) \in Nat
      /\ history \in Seq(Change) /\ Dequeued \in Nat /\ DOMAIN pc = Tasks
      /\ \A t \in Tasks : batch[t] \in Seq(Change) /\ Len(batch[t]) \in Nat
  BY Types DEF TypeInv, TypeOK, LossInv, Dequeued
<1>2. ASSUME NEW s \in Seq(Change), NEW d \in Nat, NEW e \in Nat, d <= e, UpTo(s, d)
      PROVE  UpTo(s, e)
  BY <1>2 DEF UpTo
<1>3. ASSUME NEW k \in Keys, Commit(k) PROVE LossInv'
  <2> DEFINE c == [id |-> Len(history) + 1, key |-> k]
  <2>1. /\ history' = Append(history, c) /\ pending' = Append(pending, c)
        /\ UNCHANGED <<file, pc, batch>> /\ c.id = Len(history) + 1
    BY <1>3 DEF Commit, jobs
  <2> HIDE DEF c
  <2>2. /\ Len(history') = Len(history) + 1 /\ Len(pending') = Len(pending) + 1
        /\ DOMAIN pending' = 1 .. Len(pending) + 1 /\ pending'[Len(pending) + 1] = c
        /\ \A i \in 1 .. Len(pending) : pending'[i] = pending[i]
    BY <1>1, <2>1
  <2>3. Dequeued' = Dequeued
    BY <1>1, <2>2 DEF Dequeued
  <2>4. Consecutive(pending', Dequeued)
    <3> SUFFICES ASSUME NEW i \in 1 .. Len(pending) + 1 PROVE pending'[i].id = Dequeued + i
      BY <2>2 DEF Consecutive
    <3>1. CASE i <= Len(pending)
      <4>1. i \in DOMAIN pending /\ pending'[i] = pending[i]
        BY <1>1, <2>2, <3>1
      <4>2. QED
        BY <4>1 DEF LossInv, Consecutive
    <3>2. CASE i = Len(pending) + 1
      BY <1>1, <2>1, <2>2, <3>2 DEF Dequeued
    <3>3. QED
      BY <1>1, <3>1, <3>2
  <2>5. Claimed'
    BY <1>1, <2>1, <2>3, ClaimsKept DEF Grown, LossInv
  <2>6. Len(pending') <= Len(history')
    BY <1>1, <2>2 DEF LossInv
  <2>7. QED
    BY <2>1, <2>3, <2>4, <2>5, <2>6 DEF LossInv
<1>4. ASSUME NEW t \in Tasks, Write(t) PROVE LossInv'
  <2>1. Claimed'
    BY <1>1, <1>4, WriteClaims
  <2>2. /\ UNCHANGED <<history, pending, batch>> /\ pc[t] = "writing"
        /\ pc' = [pc EXCEPT ![t] = "written"]
    BY <1>4 DEF Write, memory, jobs
  <2>3. Dequeued' = Dequeued /\ \A u \in Tasks : pc'[u] \in InFlush => pc[u] \in InFlush
    BY <1>1, <2>2 DEF Dequeued, InFlush
  <2>4. QED
    BY <2>1, <2>2, <2>3 DEF LossInv
<1>5. ASSUME NEW t \in Tasks, Taken(t) PROVE LossInv'
  <2>1. Claimed'
    BY <1>5, TakenClaims
  <2>2. /\ Len(pending') <= Len(history') /\ Consecutive(pending', Dequeued')
        /\ Dequeued' \in Nat /\ Dequeued <= Dequeued'
    BY <1>5, TakenBound
  <2>3. batch' = batch /\ \A u \in Tasks : pc'[u] \in InFlush => pc[u] \in InFlush
    <3>1. batch' = batch /\ \E s \in {"idle", "done", "error", "raised"} : pc' = [pc EXCEPT ![t] = s]
      BY <1>5 DEF Taken
    <3>2. QED
      BY <1>1, <3>1 DEF InFlush
  <2>4. ASSUME NEW u \in Tasks, pc'[u] \in InFlush PROVE UpTo(batch'[u], Dequeued' + Len(batch'[u]))
    <3>1. UpTo(batch[u], Dequeued + Len(batch[u]))
      BY <2>3, <2>4 DEF LossInv
    <3>2. /\ Dequeued + Len(batch[u]) \in Nat /\ Dequeued' + Len(batch[u]) \in Nat
          /\ Dequeued + Len(batch[u]) <= Dequeued' + Len(batch[u]) /\ batch[u] \in Seq(Change)
      BY <1>1, <2>2
    <3>3. QED
      BY <1>2, <2>3, <3>1, <3>2
  <2>5. QED
    BY <2>1, <2>2, <2>4 DEF LossInv
<1>6. CASE Moved
  <2>1. /\ UNCHANGED <<history, pending>> /\ Grown
        /\ \A t \in Tasks : pc'[t] \in InFlush =>
             \/ pc[t] \in InFlush /\ batch'[t] = batch[t] /\ (pc'[t] = "written" => pc[t] = "written")
             \/ pc'[t] = "sizing" /\ batch'[t] = pending
    BY <1>6 DEF Moved
  <2>2. Dequeued' = Dequeued
    BY <2>1 DEF Dequeued
  <2>3. \A t \in Tasks : pc'[t] = "written" => pc[t] = "written" /\ batch'[t] = batch[t]
    BY <2>1 DEF InFlush
  <2>4. Claimed'
    BY <1>1, <2>1, <2>2, <2>3, ClaimsKept DEF LossInv
  <2>5. ASSUME NEW t \in Tasks, pc'[t] \in InFlush PROVE UpTo(batch'[t], Dequeued' + Len(batch'[t]))
    <3>1. CASE pc[t] \in InFlush /\ batch'[t] = batch[t]
      BY <2>2, <3>1 DEF LossInv
    <3>2. CASE batch'[t] = pending
      <4>1. UpTo(pending, Len(history)) /\ Dequeued + Len(pending) = Len(history)
        BY <1>1 DEF TypeInv, Dequeued
      <4>2. QED
        BY <2>2, <3>2, <4>1
    <3>3. QED
      BY <2>1, <2>5, <3>1, <3>2
  <2>6. QED
    BY <2>1, <2>2, <2>4, <2>5 DEF LossInv
<1>7. QED
  BY <1>3, <1>4, <1>5, <1>6, Steps

(* A log that has lost changes has written others more than once, as often *)
(* at least.                                                               *)
LEMMA LossIsPaid == ASSUME TypeInv, LossInv PROVE LossMeansDuplicate
<1> DEFINE R == ChangeRecords
           ids == {file[i].id : i \in R}
           D == Dequeued
           low == {n \in ids : n <= D}
           high == ids \ low
<1>1. PICK S \in SUBSET R, W \in [Tasks -> SUBSET R] : Claims(S, W)
  BY DEF LossInv, Claimed
<1>2. /\ IsFiniteSet(R) /\ IsFiniteSet(S) /\ Cardinality(R) \in Nat /\ Cardinality(S) \in Nat
  BY <1>1, RecordsFinite
<1>3. /\ D \in Nat /\ Len(pending) \in Nat /\ Len(history) \in Nat /\ D + Len(pending) = Len(history)
      /\ DOMAIN history = 1 .. Len(history) /\ DOMAIN pending = 1 .. Len(pending)
  BY Types DEF LossInv, Dequeued
<1>4. ids \subseteq Nat \ {0} /\ \A i \in R : file[i].kind = "change" /\ i \in DOMAIN file
  <2>1. \A i \in R : file[i] \in Entry /\ file[i].kind = "change" /\ i \in DOMAIN file
    BY Types DEF ChangeRecords
  <2>2. QED
    BY <2>1 DEF Entry, ChangeEntry, SnapshotEntry
<1>5. Lost \subseteq 1 .. D
  <2> SUFFICES ASSUME NEW n \in Lost, n > D PROVE FALSE
    BY <1>3 DEF Lost
  <2> DEFINE j == n - D
  <2>1. j \in DOMAIN pending /\ D + j = n
    BY <1>3 DEF Lost
  <2> HIDE DEF j, D
  <2>2. pending[j].id = n
    BY <2>1 DEF LossInv, Consecutive, D
  <2>3. QED
    BY <2>1, <2>2 DEF Lost
<1>6. Lost \cap low = {}
  <2> SUFFICES ASSUME NEW i \in R, file[i].id \in Lost PROVE FALSE
    OBVIOUS
  <2>1. Covered(file[i].id)
    BY <1>4 DEF Covered, CoveredIn
  <2>2. QED
    BY <2>1 DEF Lost
<1>7. low \subseteq 1 .. D
  BY <1>3, <1>4
<1> HIDE DEF D
<1>8. /\ IsFiniteSet(Lost) /\ IsFiniteSet(low) /\ Cardinality(Lost) \in Nat /\ Cardinality(low) \in Nat
      /\ Cardinality(Lost) + Cardinality(low) <= D
  <2> HIDE DEF low
  <2>1. IsFiniteSet(1 .. D) /\ Cardinality(1 .. D) = D
    <3>1. \A a, b \in Int : /\ IsFiniteSet(a .. b)
                            /\ Cardinality(a .. b) = IF a > b THEN 0 ELSE b - a + 1
      BY FS_Interval
    <3>2. 1 \in Int /\ D \in Int
      BY <1>3
    <3>3. IsFiniteSet(1 .. D) /\ Cardinality(1 .. D) = IF 1 > D THEN 0 ELSE D - 1 + 1
      BY <3>1, <3>2
    <3>4. QED
      BY <1>3, <3>3
  <2>2. /\ IsFiniteSet(Lost) /\ IsFiniteSet(low)
        /\ Cardinality(Lost) \in Nat /\ Cardinality(low) \in Nat
    BY <1>5, <1>7, <2>1, FS_Subset, FS_CardinalityType
  <2>3. Cardinality(Lost \cup low) = Cardinality(Lost) + Cardinality(low)
    <3>1. Cardinality(Lost \cap low) = 0
      BY <1>6, FS_EmptySet
    <3>2. Cardinality(Lost \cup low) = Cardinality(Lost) + Cardinality(low) - Cardinality(Lost \cap low)
      BY <2>2, FS_Union
    <3>3. QED
      BY <2>2, <3>1, <3>2
  <2>4. Cardinality(Lost \cup low) <= D
    <3> DEFINE both == Lost \cup low
               all  == 1 .. D
    <3>1. both \in SUBSET all
      BY <1>5, <1>7
    <3>2. IsFiniteSet(all) /\ Cardinality(all) = D
      BY <2>1
    <3> HIDE DEF both, all
    <3>3. Cardinality(both) <= Cardinality(all)
      BY <3>1, <3>2, FS_Subset
    <3>4. QED
      BY <3>2, <3>3 DEF both
  <2>5. QED
    BY <2>2, <2>3, <2>4
<1>9. /\ IsFiniteSet(high) /\ Cardinality(high) \in Nat
      /\ Cardinality(high) <= Cardinality(R) - Cardinality(S)
  <2> DEFINE Q == {i \in R : file[i].id > D}
             f == [i \in Q |-> file[i].id]
  <2>1. high = {file[i].id : i \in Q}
    <3>1. \A n \in Nat : ~(n <= D) <=> n > D
      BY <1>3
    <3>2. \A i \in R : file[i].id \in Nat
      BY <1>4
    <3> HIDE DEF R
    <3>3. QED
      BY <3>1, <3>2
  <2>2. f \in Surjection(Q, high)
    BY <2>1 DEF Surjection
  <2>3. Q \subseteq R \ S
    <3>1. \A i \in S : file[i].id <= D /\ file[i].id \in Nat
      BY <1>1, <1>4 DEF Claims, D
    <3>2. QED
      BY <1>3, <3>1
  <2> HIDE DEF Q, f, high
  <2>4. IsFiniteSet(R \ S) /\ Cardinality(R \ S) = Cardinality(R) - Cardinality(S)
    <3>1. S \subseteq R /\ R \cap S = S
      BY <1>1
    <3>2. QED
      BY <1>2, <3>1, FS_Difference
  <2>5. IsFiniteSet(Q) /\ Cardinality(Q) <= Cardinality(R \ S)
    BY <2>3, <2>4, FS_Subset
  <2>6. IsFiniteSet(high) /\ Cardinality(high) <= Cardinality(Q)
    BY <2>2, <2>5, FS_Surjection
  <2>7. Cardinality(high) \in Nat /\ Cardinality(Q) \in Nat
    BY <2>5, <2>6, FS_CardinalityType
  <2>8. QED
    BY <1>2, <2>4, <2>5, <2>6, <2>7
<1>10. IsFiniteSet(ids) /\ Cardinality(ids) \in Nat /\ Cardinality(ids) = Cardinality(low) + Cardinality(high)
  <2>1. ids = low \cup high /\ low \cap high = {}
    OBVIOUS
  <2> HIDE DEF ids, low, high
  <2>2. Cardinality(low \cap high) = 0
    BY <2>1, FS_EmptySet
  <2>3. /\ IsFiniteSet(low \cup high)
        /\ Cardinality(low \cup high) = Cardinality(low) + Cardinality(high) - Cardinality(low \cap high)
    BY <1>8, <1>9, FS_Union
  <2>4. QED
    BY <1>8, <1>9, <2>1, <2>2, <2>3
<1>11. Cardinality(S) >= D
  BY <1>1 DEF Claims, D
<1> HIDE DEF R, ids, low, high
<1>12. Cardinality(Lost) + Cardinality(ids) <= Cardinality(R)
  BY <1>2, <1>3, <1>8, <1>9, <1>10, <1>11
<1>13. QED
  BY <1>12 DEF LossMeansDuplicate, R, ids

(* Flushes that overlap may drop a change from the queue that none of them *)
(* wrote; but then they wrote as many others twice, so that the log shows  *)
(* it: a log without duplicates is complete.                               *)
THEOREM LossNeedsDuplicates == Spec => [](crashes = 0 => LossMeansDuplicate)
<1> DEFINE Inv == TypeInv /\ (crashes = 0 => LossInv)
<1>1. Init => Inv
  BY InitType, InitLoss
<1>2. Inv /\ [Next]_vars => Inv'
  <2> SUFFICES ASSUME Inv, [Next]_vars PROVE Inv'
    OBVIOUS
  <2>1. TypeInv' /\ crashes \in Nat
    BY StepType DEF TypeInv, TypeOK
  <2>2. ASSUME crashes' = 0 PROVE LossInv'
    <3>1. crashes' = crashes
      BY <2>1, <2>2, CrashesCounted
    <3>2. QED
      BY <2>2, <3>1, StepLoss
  <2>3. QED
    BY <2>1, <2>2
<1>3. Inv => (crashes = 0 => LossMeansDuplicate)
  BY LossIsPaid
<1> HIDE DEF Inv
<1>4. QED
  BY <1>1, <1>2, <1>3, PTL DEF Spec
=============================================================================
