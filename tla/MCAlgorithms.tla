---------------------------- MODULE MCAlgorithms ----------------------------
(***************************************************************************)
(* The parts of Kanta that compute without state, each applied once to     *)
(* every member of a bounded set of inputs.                                *)
(***************************************************************************)
EXTENDS Grep, Algorithms, TLC

H == INSTANCE Highlight

UpTo(S, n) == UNION {[1 .. k -> S] : k \in 0 .. n}
Start(name, input) == in' = <<name, input>>
a == Plain("a")
b == Plain("b")
ab == Str(Plain("ab"))

-----------------------------------------------------------------------------
(* Two states with a key "a", a key "$a" or both. *)
Leaves ==
  {Atom(0), Atom(1), Bool(1), Str(a), Str(<<2, "a">>), List(<<>>), List(<<Atom(1)>>), List(<<Bool(1)>>), Empty}
DiffKeys == {a, Plain("0"), <<1, "a">>, <<2, "a">>, Delete, Replace}
DiffValues ==
  Leaves \cup {Dict([k \in {j} |-> v]) : j \in DiffKeys, v \in {Atom(0), Atom(1), List(<<Str(a)>>)}}
         \cup {List(<<Dict([k \in {a} |-> v])>>) : v \in {Atom(0), Str(<<2, "a">>)}}
DiffStates ==
  {Empty} \cup {Dict([k \in {a} |-> v]) : v \in DiffValues}
          \cup {Dict([k \in {a, <<1, "a">>} |-> v]) : v \in DiffValues}
TryDiff == \E old, new \in DiffStates : Start("diff", <<old, new>>)

Lists == UpTo({Atom(0), Atom(1)}, 3)
TryEdits ==
  \E old, new \in Lists : \E gone \in SUBSET DOMAIN old, come \in SUBSET DOMAIN new :
    Start("edits", <<old, gone, new, come>>)

(* Patching with the diff restores the new state for what a record can     *)
(* carry, and for nothing else: keys that look like commands, strings with *)
(* "$$" and True where 1 was are lost.  List edits of older logs replay.   *)
DiffRestores ==
  /\ Of("diff")  => (Restores(in[2][1], in[2][2]) <=> Carried(in[2][1], in[2][2]))
  /\ Of("edits") => EditsRestore(in[2][1], in[2][2], in[2][3], in[2][4])

-----------------------------------------------------------------------------
(* Two states with a value at "a", and perhaps one at "b". *)
MCWithin == {<<a, Plain("ab")>>}
GrepValues ==
  {Str(a), ab, Atom("1"), True, Atom("null"), Empty, List(<<>>), List(<<ab>>), Dict([k \in {a} |-> ab]),
   Dict([k \in {a} |-> True]), Dict([k \in {a, b} |-> Atom("1")])}
GrepStates == {Dict(f) : f \in UNION {[{a} -> GrepValues], [{b} -> {ab}], [{a, b} -> {ab, Empty}], {Empty[2]}}}
Terms == {<<>>, <<a>>, <<Wildcard>>, <<a, a>>, <<Plain("1")>>}
Patterns == {Bare(t) : t \in Terms} \cup {Pair(s, t) : s, t \in Terms}
Formatters == {[v \in S |-> Str(Plain("1"))] : S \in {{}, {ab}, {Dict([k \in {a} |-> ab])}}}
TryGrep ==
  \E old, new \in GrepStates, p \in Patterns, fmt \in Formatters :
    /\ Diff(old, new) # Unchanged
    /\ Start("grep", [old |-> old, new |-> new, p |-> p, fmt |-> fmt,
                      r |-> [a |-> ab, u |-> NoUser, diff |-> Diff(old, new)]])

(* The listed changes of a transaction lead from the old state to the new. *)
LogTellsAll == Of("grep") => ChangesTell(in[2].old, in[2].new)

(* --grep finds a transaction by what it adds, containers as wholes aside. *)
GrepFindsAdditions ==
  Of("grep") => AdditionsFound(in[2].r, in[2].old, in[2].new, in[2].p, in[2].fmt)

Spans == (0 .. 4) \X (0 .. 4)
TryHighlight ==
  \E styled \in UpTo({H!CHAR, H!ESC}, 5), p, q \in Spans : Start("highlight", <<styled, {p, q}>>)

(* What --grep matches is marked where it is printed, of what is printed   *)
(* item by item (the exceptions are told with MatchIsSeen); and mark_spans *)
(* covers exactly the spans that were found, outside of escape codes.      *)
HitsAreSeen ==
  /\ Of("grep") => MatchIsSeen(in[2].r, in[2].old, in[2].p, in[2].fmt)
  /\ Of("highlight") => H!MarksTheSpans(in[2][1], in[2][2])

-----------------------------------------------------------------------------
(* Names in a module: two for version 1, one that is no function. *)
Names ==
  {[suffix |-> s, callable |-> TRUE] : s \in {<<"1", 1>>, <<"01", 1>>, <<"2", 2>>, <<"x", 0>>}}
    \cup {[suffix |-> <<"3", 3>>, callable |-> c] : c \in BOOLEAN}
MigrationModules == UpTo(Names, 2)
TryReleases ==
  \E m \in [1 .. 3 -> MigrationModules], fixed \in {1, 3, 4} :
    Start("releases", [i \in 1 .. 3 |-> [module |-> m[i], fails |-> IF i < fixed THEN {2} ELSE {}]])
TryUpgrade ==
  \E first, second \in SUBSET (1 .. 4), v \in 0 .. 4 :
    Start("upgrade", <<first, second, [state |-> <<>>, version |-> v]>>)

-----------------------------------------------------------------------------
(* Logs of up to three records with a blank line, and all ranges. *)
Events(kinds) ==
  {[i \in DOMAIN l |-> [kind |-> l[i][1], v |-> l[i][2], line |-> IF i = 3 THEN 4 ELSE i]] :
     l \in UpTo(kinds, 3)}
Bounds == {<<unit, n>> : unit \in Units, n \in -2 .. 4} \cup {Unbounded}
Ranges == {[sep |-> s, from |-> f, to |-> t] : s \in {":", ".."}, f, t \in Bounds}
Singles == {[sep |-> "single", from |-> f, to |-> Unbounded] : f \in Bounds}
TryRange ==
  \E events \in Events({"change", "snapshot"} \X (0 .. 2)),
     spec \in Singles \cup {r \in Ranges : r.from[1] = r.to[1]} :
    Start("range", <<spec, events>>)

-----------------------------------------------------------------------------
Items == {<<"old", 1>>, <<"extra", 0>>}
NoRecord == [kind |-> "garbage", v |-> 0, add |-> {}, del |-> {}, state |-> {}]
Records ==
  {[NoRecord EXCEPT !.kind = "change", !.v = v, !.add = add, !.del = del] :
     v \in 0 .. 1, add \in SUBSET Items, del \in {{}, {<<"old", 1>>}}}
    \cup {[NoRecord EXCEPT !.kind = "snapshot", !.v = v, !.state = s] : v \in 0 .. 1, s \in SUBSET Items}
    \cup {NoRecord}
RecordLogs == {[i \in DOMAIN l |-> l[i] @@ [line |-> i]] : l \in UpTo(Records, 2)}
Single(unit, n) == [sep |-> "single", from |-> <<unit, n>>, to |-> Unbounded]
Wanted ==
  {All, [sep |-> ":", from |-> Unbounded, to |-> <<"line", 2>>],
   Single("line", 1), Single("line", -1), Single("snapshot", -1)}
Invocations ==
  [wrong : {"none"}, range : Wanted, registry : {NoMigrations, {1}, {1, 2}, {2}},
   fails : {{}, {1}}, typed : BOOLEAN, object : BOOLEAN]
    \cup [wrong : {"file", "migrations", "output"}, range : {All}, registry : {{1}},
          fails : {{}}, typed : BOOLEAN, object : {FALSE}]
TryCommand == \E log \in RecordLogs, o \in Invocations : Start("command", <<log, o>>)

-----------------------------------------------------------------------------
(* Signatures of one or two parameters. *)
Params ==
  [name : {"value", "path", "prev", "other"}, passing : {"positional", "either", "keyword"},
   default : BOOLEAN, ann : {"empty", "str", "any", "error", "data", "kanta", "tag prev"}]
Odd == {[name |-> "other", passing |-> "variadic", default |-> FALSE, ann |-> "empty"],
        [name |-> "state", passing |-> "either", default |-> FALSE, ann |-> "unresolved"]}
Signatures ==
  {<<p>> : p \in Params \cup Odd}
    \cup {<<p, q>> : p \in {x \in Params : x.ann \in {"any", "data", "str"} /\ ~x.default /\ x.name # "path"},
                     q \in Params}
TryCallback == \E kind \in Kinds, sig \in Signatures : Start("callback", <<kind, sig>>)
TryFormatter ==
  \E sig \in Signatures, returns \in {"empty", "int"} : Start("formatter", <<sig, returns>>)
TryClass ==
  \E p \in Params, resolve \in {s \in Signatures : s[1].ann = "any"}, more \in UpTo(Odd, 1) :
    Start("class", <<<<p>>, resolve \o more>>)
TryChain ==
  \E chain \in UpTo([pattern : {"any", "p", "q"}, raises : BOOLEAN, text : {"none", "one", "two"}], 3) :
    Start("chain", <<chain, "p">>)
TryEmit ==
  \E handlers \in UpTo([passes : BOOLEAN, raises : BOOLEAN], 4), fails \in BOOLEAN :
    Start("emit", <<handlers, fails>>)

-----------------------------------------------------------------------------
Init == in = <<>>
Next ==
  /\ in = <<>>
  /\ \/ TryDiff \/ TryEdits \/ TryGrep \/ TryHighlight
     \/ TryReleases \/ TryUpgrade \/ TryRange \/ TryCommand
     \/ TryCallback \/ TryFormatter \/ TryClass \/ TryChain \/ TryEmit
Spec == Init /\ [][Next]_in
=============================================================================
