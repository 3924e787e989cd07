----------------------------- MODULE DiffPatch ------------------------------
(***************************************************************************)
(* kanta.diff and the patching half of kanta.serialization.base: the diff  *)
(* of two nested values, the escaping of keys that look like commands, and *)
(* the application of a diff, jsondiff's list edits included.              *)
(*                                                                         *)
(* Abstractions.  A string is a pair: how many "$" it begins with, and the *)
(* rest.  A value is tagged: <<"dict", f>> with f a function from strings, *)
(* <<"list", s>>, <<"str", s>>, <<"atom", x>> for null and the integers,   *)
(* or <<"bool", n>>, which Python calls equal to the integer n, as it does *)
(* a float.  Dicts are unordered: no two keys of a diff act on the same    *)
(* entry.                                                                  *)
(***************************************************************************)
EXTENDS Integers, Sequences, SequencesExt

Plain(s)  == <<0, s>>
Delete    == <<1, "delete">>
Insert    == <<1, "insert">>
Replace   == <<1, "replace">>

Dict(f) == <<"dict", f>>
List(s) == <<"list", s>>
Str(s)  == <<"str", s>>
Atom(x) == <<"atom", x>>
Bool(n) == <<"bool", n>>
IsDict(v) == v[1] = "dict"
IsList(v) == v[1] = "list"
IsNumber(v) == v[1] \in {"atom", "bool"}

Empty == Dict([k \in {} |-> 0])

(* An exception of the patching code: replay fails. *)
Failure == <<"failure", 0>>

(* The strings int() accepts, as far as the instances need them. *)
Digits == <<"0", "1", "2">>
IsInt(k) == k[1] = 0 /\ k[2] \in Range(Digits)
IntOf(k) == CHOOSE n \in 0 .. Len(Digits) - 1 : Digits[n + 1] = k[2]

-----------------------------------------------------------------------------
(* Fault: keys are not escaped. *)
EscapeNothing(k) == k

EscapeKey(k) == IF k[1] > 0 THEN <<k[1] + 1, k[2]>> ELSE k

(* Only a "$$" prefix is stripped. *)
Unescape(k) == IF k[1] > 1 THEN <<k[1] - 1, k[2]>> ELSE k

(* Python's ==: True is 1, and False is 0. *)
RECURSIVE Equal(_, _)
Equal(v, w) ==
  \/ v = w
  \/ IsNumber(v) /\ IsNumber(w) /\ v[2] = w[2]
  \/ /\ v[1] = w[1] /\ (IsDict(v) \/ IsList(v))
     /\ DOMAIN v[2] = DOMAIN w[2] /\ \A k \in DOMAIN v[2] : Equal(v[2][k], w[2][k])

(* What two values that are not both dicts differ by. *)
Unchanged == <<"unchanged", 0>>
Assign(old, new) == IF Equal(old, new) THEN Unchanged ELSE new

(* The dict of the changed entries, with "$delete" for the missing ones. *)
Changes(gone, kept, sub) ==
  LET entry(k) == IF k = Delete THEN List(SetToSeq({Str(EscapeKey(g)) : g \in gone}))
                  ELSE sub[CHOOSE j \in kept : EscapeKey(j) = k]
  IN Dict([k \in {EscapeKey(j) : j \in kept} \cup (IF gone = {} THEN {} ELSE {Delete}) |-> entry(k)])

RECURSIVE Diff(_, _)
Diff(old, new) ==
  IF ~(IsDict(old) /\ IsDict(new)) THEN Assign(old, new)
  ELSE LET p    == old[2]
           c    == new[2]
           sub  == [k \in DOMAIN c |-> IF k \in DOMAIN p THEN Diff(p[k], c[k]) ELSE c[k]]
           gone == DOMAIN p \ DOMAIN c
           kept == {k \in DOMAIN c : sub[k] # Unchanged}
       IN IF gone = {} /\ kept = {} THEN Unchanged ELSE Changes(gone, kept, sub)

RECURSIVE Unmarshal(_)
Unmarshal(v) ==
  CASE IsDict(v) -> Dict([k \in {Unescape(j) : j \in DOMAIN v[2]} |->
                            Unmarshal(v[2][CHOOSE j \in DOMAIN v[2] : Unescape(j) = k])])
    [] IsList(v) -> List([i \in DOMAIN v[2] |-> Unmarshal(v[2][i])])
    [] v[1] = "str" -> Str(Unescape(v[2]))
    [] OTHER -> v

-----------------------------------------------------------------------------
IsListPatch(d) == \A k \in DOMAIN d \ {Delete, Insert} : IsInt(k)

Falsy(v) == v \in {Atom(0), Bool(0), Str(Plain("")), List(<<>>), Empty}

(* What a "$delete" command lists: a list, or a single entry. *)
Named(v) == IF IsList(v) THEN Range(v[2]) ELSE {v}

RECURSIVE Apply(_, _)

(* jsondiff's edits of a list: positions to remove, then values to insert, *)
(* then diffs of the elements that stay.  A position may count from the    *)
(* end; one that is not in the list raises IndexError, one that is no      *)
(* number TypeError.                                                       *)
Positions(l, ps) == \A i \in DOMAIN ps : IsNumber(ps[i]) /\ ps[i][2] \in -(Len(l) - i) - 1 .. Len(l) - i
FromStart(l, n) == IF n < 0 THEN Len(l) + n + 1 ELSE n + 1
RemoveAll(l, ps) == FoldLeft(LAMBDA r, p : RemoveAt(r, FromStart(r, p[2])), l, ps)
InsertAll(l, es) == FoldLeft(LAMBDA r, e : InsertAt(r, e[2][1][2] + 1, e[2][2]), l, es)

Rearrange(l, ps, es) == InsertAll(RemoveAll(l, ps), es)

PatchList(l, d) ==
  LET pops  == IF Delete \in DOMAIN d /\ ~Falsy(d[Delete]) THEN d[Delete] ELSE List(<<>>)
      rest  == Rearrange(l, pops[2], IF Insert \in DOMAIN d THEN d[Insert][2] ELSE <<>>)
      edits == {k \in DOMAIN d : IsInt(k)}
      at(i) == {k \in edits : IntOf(k) = i - 1}
  IN IF \/ ~IsList(pops)
        \/ ~Positions(l, pops[2])
        \/ \E k \in edits : IntOf(k) >= Len(rest)
     THEN Failure
     ELSE List([i \in DOMAIN rest |->
                  IF at(i) = {} THEN rest[i] ELSE Apply(rest[i], d[CHOOSE k \in at(i) : TRUE])])

(* Removals and assignments; whatever is not a dict counts as an empty     *)
(* one.  A list or a dict cannot be looked up as a key.                    *)
PatchDict(state, d) ==
  LET old   == IF IsDict(state) THEN state[2] ELSE Empty[2]
      named == IF Delete \in DOMAIN d THEN Named(d[Delete]) ELSE {}
      left  == {k \in DOMAIN old : Str(k) \notin named}
      set   == DOMAIN d \ {Delete, Insert}
  IN IF \E n \in named : IsDict(n) \/ IsList(n) THEN Failure
     ELSE Dict([k \in set \cup left |->
                  IF k \notin set THEN old[k] ELSE IF k \in left THEN Apply(old[k], d[k]) ELSE d[k]])

Apply(state, v) ==
  IF ~IsDict(v) THEN v
  ELSE LET d == v[2]
       IN CASE d = Empty[2] -> state
            [] Replace \in DOMAIN d -> d[Replace]
            [] Replace \notin DOMAIN d /\ IsList(state) ->
                 IF IsListPatch(d) THEN PatchList(state[2], d) ELSE v
            [] OTHER -> PatchDict(state, d)

(* apply_diff; diff() returns None, and no record, for equal states. *)
Patch(state, d) == IF d = Unchanged THEN state ELSE Apply(state, Unmarshal(d))

-----------------------------------------------------------------------------
(* What a record can carry.  Unescaping comes before the commands are      *)
(* looked for, so no changed key may be spelled like one, escaped or not.  *)
(* A value is stored as it is and unescaped when it is read, so it must    *)
(* hold no "$$"; a dict over a value that was not a dict must not be empty *)
(* nor look like a command or a list edit; and a value over one that       *)
(* Python calls equal, such as True over 1, is not stored at all.          *)
Commands == {Delete, Insert, Replace}
Verbatim(v) == Unmarshal(v) = v
Legible(old, d) ==
  /\ d # Empty[2]
  /\ Replace \notin DOMAIN d
  /\ IF IsList(old) THEN ~\A k \in DOMAIN d : k \in {Delete, Insert} \/ IsInt(k)
                    ELSE DOMAIN d \cap Commands = {}

RECURSIVE Carried(_, _)
Carried(old, new) ==
  \/ old = new
  \/ /\ IsDict(old) /\ IsDict(new)
     /\ \A k \in DOMAIN new[2] :
          IF k \in DOMAIN old[2]
          THEN old[2][k] = new[2][k] \/ (k \notin Commands /\ Carried(old[2][k], new[2][k]))
          ELSE k \notin Commands /\ Verbatim(new[2][k])
  \/ /\ ~(IsDict(old) /\ IsDict(new))
     /\ ~Equal(old, new) /\ Verbatim(new)
     /\ IsDict(new) => Legible(old, new[2])

(* Patching the old state with the diff gives the new state. *)
Restores(old, new) == Patch(old, Diff(old, new)) = new

(* jsondiff's edits from one list to another: the positions of the old one *)
(* that go, the last first, and the positions of the new one that come,    *)
(* the first first.  What stays keeps its order.                           *)
Staying(l, positions) == [i \in 1 .. Len(l) - Cardinality(positions) |->
  l[CHOOSE p \in DOMAIN l \ positions : Cardinality((1 .. p) \ positions) = i]]
Edits(gone, new, come) ==
  LET dels == SetToSortSeq(gone, >)
      inss == SetToSortSeq(come, <)
  IN Dict([k \in (IF gone = {} THEN {} ELSE {Delete}) \cup (IF come = {} THEN {} ELSE {Insert}) |->
             IF k = Delete THEN List([i \in DOMAIN dels |-> Atom(dels[i] - 1)])
             ELSE List([i \in DOMAIN inss |-> List(<<Atom(inss[i] - 1), new[inss[i]]>>)])])

(* Applying such edits to the old list gives the new one.                  *)
EditsRestore(old, gone, new, come) ==
  Staying(old, gone) = Staying(new, come) =>
    Apply(List(old), Edits(gone, new, come)) = List(new)
=============================================================================
