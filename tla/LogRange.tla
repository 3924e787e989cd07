------------------------------ MODULE LogRange ------------------------------
(***************************************************************************)
(* kanta.replaylog: which records of a log a range specification selects.  *)
(*                                                                         *)
(* Abstractions.  An event is a record with fields kind ("change" or       *)
(* "snapshot"), line and v (its version); lines ascend from 1, except that *)
(* the binary framer numbers every record 0.  A bound is a pair <<unit,    *)
(* value>>; a specification has a separator (":" half-open, ".." inclusive *)
(* or "single") and two bounds, of which a single index uses the first.    *)
(***************************************************************************)
EXTENDS Integers, Sequences, FiniteSets, SequencesExt, Order

CONSTANT None   \* the value of a bound that is left out

ASSUME NoneAssumption == None \notin Int

Units == {"change", "line", "snapshot", "version"}
Unbounded == <<"change", None>>

IsChange(e)   == e.kind = "change"
IsSnapshot(e) == e.kind = "snapshot"

LinesOf(events, positions) ==
  LET at == InOrder(positions) IN [n \in DOMAIN at |-> events[at[n]].line]

EndOfFile(events) == IF events = <<>> THEN 0 ELSE events[Len(events)].line + 1
ChangeLines(events) == LinesOf(events, {i \in DOMAIN events : IsChange(events[i])})
Total(events) == Len(ChangeLines(events))

(* s0 is the position before the first line unless a snapshot stands there. *)
SnapshotLines(events) ==
  LET lines == LinesOf(events, {i \in DOMAIN events : IsSnapshot(events[i])})
  IN IF events # <<>> /\ IsSnapshot(events[1]) THEN lines ELSE <<0>> \o lines

(* Where each version appears first; version 0 is there from the start. *)
VersionLines(events) ==
  [v \in {0} \cup {events[i].v : i \in DOMAIN events} |->
     IF v = 0 THEN 0 ELSE events[SelectInSeq(events, LAMBDA e : e.v = v)].line]

(* Negative values count from the end. *)
FromEnd(value, n) == IF value < 0 THEN n + value ELSE value

Invalid == -1  \* a ValueError

(* Lists are numbered from 0 in specifications.                            *)
BoundToLine(bound, events, isStart) ==
  LET value   == bound[2]
      eof     == EndOfFile(events)
      changes == ChangeLines(events)
      snaps   == SnapshotLines(events)
      c       == Max({0, FromEnd(value, Len(changes))})
      s       == FromEnd(value, Len(snaps))
  IN CASE value = None -> IF isStart THEN 0 ELSE eof
       [] value # None /\ bound[1] = "change" -> IF c < Len(changes) THEN changes[c + 1] ELSE eof
       [] value # None /\ bound[1] = "snapshot" ->
            IF s < 0 THEN 0 ELSE IF s < Len(snaps) THEN snaps[s + 1] ELSE eof
       [] value # None /\ bound[1] \in {"line", "version"} /\ value < 0 -> Invalid
       [] bound[1] = "line" /\ value >= 0 /\ value # None -> value
       [] OTHER -> IF value \in DOMAIN VersionLines(events) THEN VersionLines(events)[value] ELSE eof

Selection(start, end) == [outcome |-> "range", start |-> start, end |-> end]
Snapshot(line)        == [outcome |-> "snapshot", start |-> line, end |-> line + 1]
NotFound              == [outcome |-> "not found", start |-> 0, end |-> 0]
InvalidRange          == [outcome |-> "invalid", start |-> 0, end |-> 0]

(* Fault: ".." is taken for ":". *)
HalfOpen(spec, end) == end

(* ".." includes the line its end bound stands for. *)
Inclusive(spec, end) == IF spec.sep = ".." /\ spec.to[2] # None THEN end + 1 ELSE end

ResolveRange(spec, events) ==
  LET start == BoundToLine(spec.from, events, TRUE)
      line  == BoundToLine(spec.to, events, FALSE)
      end   == Inclusive(spec, line)
  IN IF Invalid \in {start, line} THEN InvalidRange ELSE Selection(Min({start, end}), end)

EventsAt(events, line) == {i \in DOMAIN events : events[i].line = line}

(* A single index must exist. *)
SelectSnapshot(value, events) ==
  LET lines == SnapshotLines(events)
      n     == FromEnd(value, Len(lines))
  IN IF n \notin 0 .. Len(lines) - 1 \/ EventsAt(events, lines[n + 1]) = {}
     THEN NotFound ELSE Snapshot(lines[n + 1])

SelectLine(value, events) ==
  LET at == EventsAt(events, value)
  IN IF value < 0 THEN InvalidRange
     ELSE IF at = {} THEN NotFound
     ELSE IF IsSnapshot(events[Min(at)]) THEN Snapshot(value) ELSE Selection(value, value + 1)

SelectVersion(value, events) ==
  LET lines == VersionLines(events)
      later == {lines[v] : v \in {w \in DOMAIN lines : lines[w] > lines[value]}}
  IN IF value < 0 THEN InvalidRange
     ELSE IF value \notin DOMAIN lines THEN NotFound
     ELSE Selection(lines[value], IF later = {} THEN EndOfFile(events) ELSE Min(later))

(* A change is selected together with the snapshots that follow it. *)
SelectChange(value, events) ==
  LET lines == ChangeLines(events)
      n     == FromEnd(value, Len(lines))
  IN IF n \notin 0 .. Len(lines) - 1 THEN NotFound
     ELSE Selection(lines[n + 1], IF n + 1 < Len(lines) THEN lines[n + 2] ELSE EndOfFile(events))

Select(spec, events) ==
  LET value == spec.from[2]
      unit  == spec.from[1]
  IN CASE spec.sep # "single" -> ResolveRange(spec, events)
       [] spec.sep = "single" /\ value = None -> InvalidRange
       [] spec.sep = "single" /\ value # None /\ unit = "snapshot" -> SelectSnapshot(value, events)
       [] spec.sep = "single" /\ value # None /\ unit = "line" -> SelectLine(value, events)
       [] spec.sep = "single" /\ value # None /\ unit = "version" -> SelectVersion(value, events)
       [] OTHER -> SelectChange(value, events)

(* The records that are replayed end before the first line not below the   *)
(* end of the selection; those that are shown begin at its start.          *)
Replayed(events, end) ==
  LET stop == SelectInSeq(events, LAMBDA e : e.line >= end)
  IN IF stop = 0 THEN events ELSE SubSeq(events, 1, stop - 1)
Shown(events, selection) ==
  {i \in DOMAIN Replayed(events, selection.end) : events[i].line >= selection.start}

-----------------------------------------------------------------------------
(* What the selections should be, said without line numbers. *)

(* Python's index into n items, and its slice of them. *)
Index(value, n) == (IF value < 0 THEN n ELSE 0) + value
SliceStart(value, n) == IF value = None THEN 0 ELSE Max({0, Index(value, n)})
SliceEnd(value, n)   == IF value = None THEN n ELSE Max({0, Index(value, n)})
Slice(spec, n) == {i \in 0 .. n - 1 : SliceStart(spec.from[2], n) <= i /\ i < SliceEnd(spec.to[2], n)}

(* The number of a change, and of the snapshot that a record follows. *)
ChangesUpTo(events, i)   == Cardinality({j \in 1 .. i : IsChange(events[j])})
SnapshotsUpTo(events, i) == Cardinality({j \in 1 .. i : IsSnapshot(events[j])})
ChangeNumber(events, i)  == ChangesUpTo(events, i) - 1
Section(events, i) == SnapshotsUpTo(events, i) - (IF IsSnapshot(events[1]) THEN 1 ELSE 0)
Sections(events)   == Len(SnapshotLines(events))

ChangesAt(events, positions) == {ChangeNumber(events, i) : i \in {j \in positions : IsChange(events[j])}}

Numbered(events)  == \A i \in DOMAIN events : events[i].line > 0
Ascending(events) == \A i, j \in DOMAIN events : i < j => events[i].v <= events[j].v
Versions(events)  == {events[i].v : i \in DOMAIN events} \cup {0}
(* A version that a bound can be translated for: one the log has, or a newer one. *)
Locatable(events, v) == v >= 0 /\ (v \in Versions(events) \/ v > Max(Versions(events)))

Both(spec, unit) == spec.from[1] = unit /\ spec.to[1] = unit

(* Of a text log, a:b shows the changes of Python's slice [a:b], sa:sb the *)
(* records from snapshot a up to snapshot b, and va:vb those of the        *)
(* versions from a up to b, if versions ascend and the log has them.       *)
RangeSlices(spec, events) ==
  LET shown == Shown(events, Select(spec, events))
  IN Numbered(events) /\ spec.sep = ":" /\ Select(spec, events).outcome = "range" =>
       /\ Both(spec, "change") => ChangesAt(events, shown) = Slice(spec, Total(events))
       /\ Both(spec, "snapshot") =>
            shown = {i \in DOMAIN events : Section(events, i) \in Slice(spec, Sections(events))}
       /\ Both(spec, "version") /\ Ascending(events)
            /\ Locatable(events, spec.from[2]) /\ Locatable(events, spec.to[2]) =>
            shown = {i \in DOMAIN events : spec.from[2] <= events[i].v /\ events[i].v < spec.to[2]}

(* An inclusive end that exists belongs to the selection: a..b shows the   *)
(* changes from a to b, b included, la..lb the lines, sa..sb also the      *)
(* snapshot b.                                                             *)
InclusiveEnd(spec, events) ==
  LET shown == Shown(events, Select(spec, events))
      k == Index(spec.to[2], IF spec.to[1] = "change" THEN Total(events) ELSE Sections(events))
  IN Numbered(events) /\ spec.sep = ".." /\ Select(spec, events).outcome = "range" =>
       /\ Both(spec, "change") /\ spec.to[2] # None /\ k \in 0 .. Total(events) - 1 =>
            ChangesAt(events, shown) = {c \in 0 .. k : SliceStart(spec.from[2], Total(events)) <= c}
       /\ Both(spec, "line") /\ spec.to[2] # None =>
            shown = {i \in DOMAIN events : spec.from[2] <= events[i].line /\ events[i].line <= spec.to[2]}
       /\ Both(spec, "snapshot") /\ spec.to[2] # None /\ k \in 0 .. Sections(events) - 1 =>
            {i \in shown : IsSnapshot(events[i])} =
              {i \in DOMAIN events : /\ IsSnapshot(events[i])
                                     /\ Section(events, i) <= k
                                     /\ SliceStart(spec.from[2], Sections(events)) <= Section(events, i)}

(* A single index shows the change, line, snapshot or version it names and *)
(* nothing else but snapshots; it is refused if and only if there is none. *)
SingleIndex(spec, events) ==
  LET value == spec.from[2]
      s     == Select(spec, events)
      shown == Shown(events, s)
      n     == Index(value, IF spec.from[1] = "change" THEN Total(events) ELSE Sections(events))
  IN Numbered(events) /\ spec.sep = "single" /\ value # None =>
       CASE spec.from[1] = "change" ->
              IF n \in 0 .. Total(events) - 1 THEN ChangesAt(events, shown) = {n} ELSE s = NotFound
         [] spec.from[1] = "snapshot" ->
              IF \E i \in DOMAIN events : IsSnapshot(events[i]) /\ Section(events, i) = n
              THEN {Section(events, i) : i \in shown} = {n} /\ s.outcome = "snapshot"
              ELSE s = NotFound
         [] spec.from[1] = "line" -> value >= 0 =>
              IF EventsAt(events, value) # {} THEN shown = EventsAt(events, value) ELSE s = NotFound
         [] OTHER -> value >= 0 /\ Ascending(events) =>
              IF value \in Versions(events) THEN shown = {i \in DOMAIN events : events[i].v = value}
              ELSE s = NotFound
=============================================================================
