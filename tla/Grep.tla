-------------------------------- MODULE Grep --------------------------------
(***************************************************************************)
(* kanta.grep, and the change log of kanta.logging: the changes of a       *)
(* record, how they are rendered, whether patterns match them, and what of *)
(* the rendering is highlighted.                                           *)
(*                                                                         *)
(* Abstractions.  Values, diffs and strings are those of DiffPatch; dicts  *)
(* are unordered, so the flattened changes form a set.  A term is the      *)
(* sequence of its dotted elements, an element being a string or the       *)
(* wildcard.  The text of a value is a sequence of strings; one string may *)
(* be part of another, and the JSON text of a container is of its own.  A  *)
(* boolean bears the number that it equals.  A formatter is a function     *)
(* from the values it formats to their displayed strings, whatever their   *)
(* path.  Of the rendering the places are kept that the highlighter is     *)
(* asked about; case, layout and the truncation of long values are not.    *)
(***************************************************************************)
EXTENDS DiffPatch

CONSTANT Within  \* pairs of strings, the first a proper part of the second

Wildcard == Plain("*")
NoValue == Atom("none")
RealValue(v) == v \notin {NoValue, Atom("null")}

-----------------------------------------------------------------------------
(* The change log *)

(* _get_nested: None if there is nothing at the path. *)
RECURSIVE GetNested(_, _)
GetNested(v, path) ==
  IF path = <<>> THEN v
  ELSE IF IsDict(v) /\ Head(path) \in DOMAIN v[2] THEN GetNested(v[2][Head(path)], Tail(path))
  ELSE NoValue

Change(type, path, value) == [type |-> type, path |-> path, value |-> value]

(* Fault: a diff is shown as it is stored. *)
NeverDescends(d, path, previous) == {Change("update", path, d)}

(* _collect_changes: one entry per changed path, a list as a whole.        *)
RECURSIVE CollectChanges(_, _, _)
CollectReplace(value, path, previous) ==
  LET old  == GetNested(previous, path)
      olds == IF IsDict(old) THEN DOMAIN old[2] ELSE {}
      news == IF IsDict(value) THEN DOMAIN value[2] ELSE {}
  IN {Change("delete", Append(path, k), NoValue) : k \in olds \ news}
       \cup {Change(IF k \in olds THEN "update" ELSE "add", Append(path, k), value[2][k]) : k \in news}
       \cup IF IsDict(value) \/ (Falsy(value) /\ olds # {}) THEN {}
            ELSE {Change(IF RealValue(old) THEN "update" ELSE "add", path, value)}

CollectKey(k, value, path, previous) ==
  CASE k = Delete  -> {Change("delete", Append(path, n[2]), NoValue) : n \in Named(value)}
    [] k = Replace -> CollectReplace(value, path, previous)
    [] OTHER -> IF RealValue(GetNested(previous, Append(path, k)))
                THEN CollectChanges(value, Append(path, k), previous)
                ELSE {Change("add", Append(path, k), value)}

CollectChanges(d, path, previous) ==
  LET old == GetNested(previous, path)
  IN CASE ~IsDict(d) -> {Change(IF RealValue(old) THEN "update" ELSE "add", path, d)}
       [] IsDict(d) /\ IsList(old) -> {Change("update", path, Apply(old, d))}
       [] OTHER -> UNION {CollectKey(k, d[2][k], path, previous) : k \in DOMAIN d[2]}

-----------------------------------------------------------------------------
(* Entries that a pattern can match.  An anchor is the deleted path under  *)
(* which a deleted value is shown, NoAnchor elsewhere.                     *)
NoAnchor == <<Wildcard>>
Entry(path, raw, anchor) == [path |-> path, raw |-> raw, anchor |-> anchor]

RECURSIVE LeafEntries(_, _, _)
LeafEntries(path, v, anchor) ==
  LET Below(k, item) == {Entry(Append(path, k), item, anchor)} \cup LeafEntries(Append(path, k), item, anchor)
  IN CASE IsDict(v) -> UNION {Below(k, v[2][k]) : k \in DOMAIN v[2]}
       [] IsList(v) -> UNION {Below(Plain(Digits[i]), v[2][i]) : i \in DOMAIN v[2]}
       [] OTHER -> {}

(* Fault: containers are matched as wholes. *)
TopEntries(d, previous) ==
  {Entry(c.path, c.value, NoAnchor) : c \in CollectChanges(Unmarshal(d), <<>>, previous)}

ChangeEntries(c, previous) ==
  LET held   == IF c.type = "delete" THEN GetNested(previous, c.path) ELSE c.value
      anchor == IF c.type = "delete" THEN c.path ELSE NoAnchor
  IN {Entry(c.path, held, anchor)} \cup LeafEntries(c.path, held, anchor)

RecordEntries(d, previous) ==
  UNION {ChangeEntries(c, previous) : c \in CollectChanges(Unmarshal(d), <<>>, previous)}

-----------------------------------------------------------------------------
(* Patterns: a bare term, or a path term and a value term. *)
Bare(term) == [bare |-> TRUE, path |-> term, value |-> term]
Pair(path, value) == [bare |-> FALSE, path |-> path, value |-> value]

NoMatch == <<"no match">>

ElementMatches(p, element) == p \in {Wildcard, element}

(* _match_path: the elements of the first place where the term fits. *)
MatchPath(term, path) ==
  LET starts == {s \in 0 .. Len(path) - Len(term) :
                   \A i \in DOMAIN term : ElementMatches(term[i], path[s + i])}
  IN CASE term = <<>> -> <<"elements", {}>>
       [] term # <<>> /\ starts = {} -> NoMatch
       [] OTHER -> <<"elements", Min(starts) + 1 .. Min(starts) + Len(term)>>

(* A value mark: the text to find in the displayed value, or all of it. *)
Mark(text) == <<"mark", text>>
NoMark     == Mark(<<>>)
WholeMark  == <<"whole">>
Marks(m)   == m \notin {NoMatch, NoMark}

True == Bool("1")

(* _value_text; the text of a container is JSON. *)
Text(v) ==
  CASE v[1] = "str"  -> <<v[2]>>
    [] v[1] = "atom" -> <<Plain(v[2])>>
    [] v[1] = "bool" -> <<Plain(IF v = True THEN "true" ELSE "false")>>
    [] OTHER -> << <<-1, v>> >>

Globbed(term) == Wildcard \in Range(term)
GlobMatches(term, text) == Len(term) = Len(text) /\ \A i \in DOMAIN term : ElementMatches(term[i], text[i])
HasPart(text, term) == text = term \/ <<term, text>> \in {<< <<w[1]>>, <<w[2]>> >> : w \in Within}

(* _match_value: strings by substring, other leaves in full. *)
MatchValue(term, raw) ==
  CASE term = <<>> -> NoMark
    [] Globbed(term) -> IF GlobMatches(term, Text(raw)) THEN Mark(Text(raw)) ELSE NoMatch
    [] term # <<>> /\ ~Globbed(term) /\ raw[1] = "str" ->
         IF HasPart(Text(raw), term) THEN Mark(term) ELSE NoMatch
    [] OTHER -> IF IsNumber(raw) /\ Text(raw) = term THEN Mark(Text(raw)) ELSE NoMatch

(* _dual_mark: raw and displayed value. *)
DualMark(term, raw, fmt) ==
  LET plain  == MatchValue(term, raw)
      pretty == MatchValue(term, fmt[raw])
  IN IF raw \notin DOMAIN fmt THEN plain
     ELSE IF pretty # NoMatch THEN pretty
     ELSE IF Marks(plain) THEN WholeMark ELSE plain

(* _match_entry: the set of the one match there is, or none. *)
MatchEntry(p, entry, fmt) ==
  LET elements == MatchPath(p.path, entry.path)
      mark     == DualMark(p.value, entry.raw, fmt)
      match    == [elements |-> IF elements = NoMatch THEN {} ELSE elements[2], mark |-> mark]
  IN IF IF p.bare THEN elements = NoMatch /\ mark = NoMatch ELSE elements = NoMatch \/ mark = NoMatch
     THEN {} ELSE {match}

-----------------------------------------------------------------------------
(* GrepHighlighter: the lit path prefixes and deletions, and the marks. *)
Nothing == [paths |-> {}, deletes |-> {}, values |-> {}, meta |-> {}]
Initial(path, elements) == {SubSeq(path, 1, i) : i \in elements}
Lit(hl) == \E f \in DOMAIN hl : hl[f] # {}

(* Fault: deleted content is lit like any other. *)
AddAsShown(entry, match) ==
  [Nothing EXCEPT !.paths = Initial(entry.path, match.elements),
                  !.values = IF Marks(match.mark) THEN {<<entry.path, match.mark>>} ELSE {}]

(* add: of deleted content only the deleted path itself is displayed. *)
Add(entry, match) ==
  LET shown == {i \in match.elements : i <= Len(entry.anchor)}
      below == shown # match.elements \/ Marks(match.mark)
  IN IF entry.anchor = NoAnchor
     THEN [Nothing EXCEPT !.paths = Initial(entry.path, match.elements),
                          !.values = IF Marks(match.mark) THEN {<<entry.path, match.mark>>} ELSE {}]
     ELSE [Nothing EXCEPT !.paths = Initial(entry.path, shown),
                          !.deletes = IF below THEN {entry.anchor} ELSE {}]

(* A record has an action a, a user u or NoUser, and a diff. *)
NoUser == Str(Plain(""))
MetaMarks(p, r, fmt) ==
  IF ~p.bare THEN {}
  ELSE {<<"action", m>> : m \in {MatchValue(p.value, r.a)} \ {NoMatch}}
         \cup (IF r.u = NoUser THEN {} ELSE {<<"user", m>> : m \in {DualMark(p.value, r.u, fmt)} \ {NoMatch}})

EntryMatches(p, entries, fmt) ==
  UNION {{<<e, m>> : m \in MatchEntry(p, e, fmt)} : e \in entries}

Union(hls) == [f \in DOMAIN Nothing |-> UNION {hl[f] : hl \in hls}]

(* evaluate: a highlighter if every pattern matches, else none. *)
Evaluate(r, previous, patterns, fmt) ==
  LET entries == RecordEntries(r.diff, previous)
      meta(p) == MetaMarks(p, r, fmt)
      hits(p) == EntryMatches(p, entries, fmt)
  IN IF \E p \in patterns : meta(p) = {} /\ hits(p) = {} THEN {}
     ELSE {Union(UNION {{Add(h[1], h[2]) : h \in hits(p)} : p \in patterns}
                  \cup {[Nothing EXCEPT !.meta = {m \in UNION {meta(p) : p \in patterns} : Marks(m[2])}]})}

(* matches_snapshot *)
MatchesSnapshot(state, patterns, fmt) ==
  \A p \in patterns : EntryMatches(p, LeafEntries(<<>>, Unmarshal(state), NoAnchor), fmt) # {}

-----------------------------------------------------------------------------
(* Rendering: the elements of paths, the values with the text that stands  *)
(* for them, and the deletion markers that the highlighter may mark.       *)
Place(kind, path, text) == <<kind, path, text>>
PathPlaces(path) == {Place("path", prefix, <<>>) : prefix \in Initial(path, DOMAIN path)}

AllTrue(v) == IsDict(v) /\ v # Empty /\ \A k \in DOMAIN v[2] : v[2][k] = True

(* _format_value: of a dict with nothing but True only the keys are shown, *)
(* and of a list the items; neither "{}" nor "[]" is ever marked.          *)
RECURSIVE RenderValue(_, _, _)
RenderItems(path, v, fmt) ==
  UNION {{Place("path", Append(path, k), <<>>)} \cup RenderValue(Append(path, k), v[2][k], fmt) :
           k \in DOMAIN v[2]}
RenderValue(path, v, fmt) ==
  CASE v \in DOMAIN fmt -> {Place("value", path, Text(fmt[v]))}
    [] v \notin DOMAIN fmt /\ AllTrue(v) -> {Place("path", Append(path, k), <<>>) : k \in DOMAIN v[2]}
    [] v \notin DOMAIN fmt /\ IsDict(v) /\ ~AllTrue(v) -> RenderItems(path, v, fmt)
    [] v \notin DOMAIN fmt /\ IsList(v) ->
         UNION {RenderValue(Append(path, Plain(Digits[i])), v[2][i], fmt) : i \in DOMAIN v[2]}
    [] OTHER -> {Place("value", path, Text(v))}

(* _format_change_lines: an added dict has a line for each of its items.   *)
RenderChange(c, fmt) ==
  PathPlaces(c.path) \cup
    CASE c.type = "delete" -> {Place("delete", c.path, <<>>)}
      [] c.type = "add" /\ IsDict(c.value) /\ c.value # Empty -> RenderItems(c.path, c.value, fmt)
      [] OTHER -> RenderValue(c.path, c.value, fmt)

-----------------------------------------------------------------------------
(* A change of the log, carried out by hand. *)
RECURSIVE SetNested(_, _, _)
SetNested(v, path, new) ==
  IF path = <<>> THEN new
  ELSE LET old == IF IsDict(v) THEN v[2] ELSE Empty[2]
           sub == IF Head(path) \in DOMAIN old THEN old[Head(path)] ELSE NoValue
       IN Dict([k \in DOMAIN old \cup {Head(path)} |->
                  IF k = Head(path) THEN SetNested(sub, Tail(path), new) ELSE old[k]])

RECURSIVE DeleteNested(_, _)
DeleteNested(v, path) ==
  IF ~IsDict(v) \/ Head(path) \notin DOMAIN v[2] THEN v
  ELSE IF Len(path) = 1 THEN Dict([k \in DOMAIN v[2] \ {Head(path)} |-> v[2][k]])
  ELSE Dict([v[2] EXCEPT ![Head(path)] = DeleteNested(@, Tail(path))])

CarryOut(v, c) == IF c.type = "delete" THEN DeleteNested(v, c.path) ELSE SetNested(v, c.path, c.value)

(* The change log of a transaction accounts for all of it: whoever carries *)
(* out the listed changes on the old state gets the new one, if the record *)
(* carries the change at all.                                              *)
ChangesTell(old, new) ==
  Carried(old, new) /\ old # new =>
    FoldSet(LAMBDA c, v : CarryOut(v, c), old,
            CollectChanges(Unmarshal(Diff(old, new)), <<>>, old)) = new

(* What the rendering of a change leads to item by item: through dicts     *)
(* that are neither formatted as a whole nor True throughout, and no list. *)
Itemised(c, path, fmt) ==
  \A n \in Len(c.path) .. Len(path) - 1 :
    LET v == GetNested(c.value, SubSeq(path, Len(c.path) + 1, n))
    IN IsDict(v) /\ ~AllTrue(v) /\ v \notin DOMAIN fmt

IsContainer(v) == IsDict(v) \/ IsList(v)
Located(mark, text) == mark = WholeMark \/ HasPart(text, mark[2])

(* A match is seen in what is rendered: path elements that are printed,    *)
(* for a deletion no more than its own path and its marker, and a value    *)
(* whose printed text, formatted or not, holds what is to be marked.  The  *)
(* exceptions: list items, the values of a dict that is True throughout,   *)
(* what a formatter replaces as a part of a whole, and marks of a whole    *)
(* container.  A match by a term that is not empty lights something.       *)
MatchIsSeen(r, previous, p, fmt) ==
  LET changes == CollectChanges(Unmarshal(r.diff), <<>>, previous)
      shown   == UNION {RenderChange(c, fmt) : c \in changes}
  IN \A c \in changes : \A e \in ChangeEntries(c, previous) : \A m \in MatchEntry(p, e, fmt) :
       LET lit == Add(e, m)
       IN /\ \A hl \in Evaluate(r, previous, {p}, fmt) : \A f \in DOMAIN lit : lit[f] \subseteq hl[f]
          /\ p.path # <<>> /\ p.value # <<>> => Lit(lit)
          /\ c.type = "delete" \/ Itemised(c, e.path, fmt) =>
               /\ {Place("path", path, <<>>) : path \in lit.paths} \subseteq shown
               /\ {Place("delete", path, <<>>) : path \in lit.deletes} \subseteq shown
               /\ c.type = "delete" \/ ~IsContainer(e.raw) =>
                    \A v \in lit.values :
                      \E place \in shown : place[1] = "value" /\ place[2] = v[1] /\ Located(v[2], place[3])

(* A transaction is found by what it adds: a term that a snapshot of the   *)
(* new state matches, and one of the old state does not, matches the       *)
(* record; unless all that matches is the text of a whole container, by a  *)
(* glob or as a formatter renders it, for a record holds the changed part  *)
(* only.  (A record is matched by deleted content as well, so the converse *)
(* does not hold.)                                                         *)
AdditionsFound(r, old, new, p, fmt) ==
  LET hits == {h \in EntryMatches(p, LeafEntries(<<>>, Unmarshal(new), NoAnchor), fmt) :
                 ~(IsContainer(h[1].raw) /\ Marks(h[2].mark))}
  IN Carried(old, new) /\ r.diff = Diff(old, new) /\ old # new
       /\ hits # {} /\ ~MatchesSnapshot(old, {p}, fmt) =>
       Evaluate(r, old, {p}, fmt) # {}
=============================================================================
