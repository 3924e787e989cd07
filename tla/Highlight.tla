----------------------------- MODULE Highlight ------------------------------
(***************************************************************************)
(* kanta.grep's mark_spans: spans of visible text are wrapped with mark    *)
(* and unmark codes in a string that holds escape codes of its own.        *)
(*                                                                         *)
(* Abstractions.  A styled string is a sequence of the cells CHAR and ESC; *)
(* spans are pairs of offsets into its visible text, counted from 0.       *)
(***************************************************************************)
EXTENDS Integers, Sequences, SequencesExt

CHAR == "char"
ESC  == "esc"
ON   == "on"
OFF  == "off"

Visible(cells) == Len(SelectSeq(cells, LAMBDA c : c = CHAR))

Sorted(spans) ==
  SetToSortSeq(spans, LAMBDA p, q : p[1] < q[1] \/ (p[1] = q[1] /\ p[2] < q[2]))

MergeSpan(spans, span) ==
  LET n == Len(spans)
  IN IF span[1] >= span[2] THEN spans
     ELSE IF n > 0 /\ span[1] <= spans[n][2] THEN [spans EXCEPT ![n] = <<@[1], Max({@[2], span[2]})>>]
     ELSE Append(spans, span)

MergeSpans(spans) == FoldLeft(MergeSpan, <<>>, Sorted(spans))

(* One run without escape codes, whose first character has the offset      *)
(* start.  The accumulator is what was put out, and the end of that.       *)
WrapRun(run, start, spans) ==
  LET Part(i, j) == SubSeq(run, i + 1, j)
      Wrap(acc, span) ==
        LET s == Max({span[1] - start, 0})
            e == Min({span[2] - start, Len(run)})
        IN IF s >= e \/ e <= acc[2] THEN acc
           ELSE <<acc[1] \o Part(acc[2], s) \o <<ON>> \o Part(s, e) \o <<OFF>>, e>>
      done == FoldLeft(Wrap, << <<>>, 0>>, spans)
  IN done[1] \o Part(done[2], Len(run))

(* mark_spans: the runs between the escape codes, with the codes between. *)
MarkSpans(styled, spans) ==
  LET merged == MergeSpans(spans)
      escs   == {i \in DOMAIN styled : styled[i] = ESC}
      ends   == SetToSortSeq(escs \cup {Len(styled) + 1}, <)
      Run(k) == LET first == IF k = 1 THEN 1 ELSE ends[k - 1] + 1
                IN WrapRun(SubSeq(styled, first, ends[k] - 1), Visible(SubSeq(styled, 1, first - 1)), merged)
                     \o (IF k < Len(ends) THEN <<ESC>> ELSE <<>>)
  IN IF merged = <<>> THEN styled ELSE FlattenSeq([k \in DOMAIN ends |-> Run(k)])

-----------------------------------------------------------------------------
(* Marking changes no text and no style; a character is marked if and only *)
(* if a span covers it; and marks are closed before every escape code and  *)
(* never touch, so that matches which overlap or adjoin light up as one.   *)
MarksTheSpans(styled, spans) ==
  LET out == MarkSpans(styled, spans)
      Code(i) == out[i] \in {ON, OFF}
      Open(i) == LET last == SelectLastInSeq(SubSeq(out, 1, i), LAMBDA c : c \in {ON, OFF})
                 IN last # 0 /\ out[last] = ON
  IN /\ SelectSeq(out, LAMBDA c : c \notin {ON, OFF}) = styled
     /\ \A i \in DOMAIN out :
          /\ out[i] = CHAR =>
               LET offset == Visible(SubSeq(out, 1, i - 1))
               IN Open(i) <=> \E s \in spans : s[1] <= offset /\ offset < s[2]
          /\ out[i] = ESC => ~Open(i)
          /\ i > 1 => ~(Code(i - 1) /\ Code(i))
=============================================================================
