------------------------------ MODULE Callbacks -----------------------------
(***************************************************************************)
(* kanta.callbacks: which callbacks may be registered, what their          *)
(* parameters are given, and how chains of callbacks go on when one of     *)
(* them fails; and emit_event of kanta.logging.                            *)
(*                                                                         *)
(* Abstractions.  A parameter is a record with fields name ("value",       *)
(* "path", "prev", "state" or "other"), passing ("positional", "either",   *)
(* "keyword" or "variadic"), default (it has one) and ann, its annotation: *)
(* an annotation and its optional form are one.  "empty" stands for none,  *)
(* "error", "report", "data" and "kanta" for the types that are injected,  *)
(* "tag prev" and "tag state" for Annotated[dict, ...], "unresolved" for a *)
(* string that does not evaluate.  A ** parameter of a resolve, whose kind *)
(* is not looked at, is "keyword" with a default.  A signature is a        *)
(* sequence of parameters without self; what a function returns is         *)
(* "empty", "optional str", "str" or "int".                                *)
(***************************************************************************)
EXTENDS Integers, Sequences, SequencesExt

Kinds == {"bootstrap", "fatal_error", "logmigr", "validate"}

(* What the places that invoke callbacks of a kind put into the context.   *)
Context(kind) ==
  CASE kind \in {"bootstrap", "validate"} -> {"data", "kanta"}
    [] kind = "fatal_error" -> {"error", "kanta"}
    [] kind = "logmigr" -> {"report", "kanta"}
    [] kind = "logfmt" -> {"prev", "state", "kanta"}

(* _state_key and _state_tag: the state dict a name or a tag asks for. *)
StateNames == {"prev", "state"}
StateTag(ann) == CASE ann = "tag prev" -> "prev" [] ann = "tag state" -> "state" [] OTHER -> "none"

(* Fault: an injectable type is allowed everywhere. *)
AllowedAnywhere(kind, ann) ==
  IF StateTag(ann) # "none" THEN kind = "logfmt" ELSE ann \in {"error", "report", "data", "kanta"}

IsAllowed(kind, ann) ==
  CASE StateTag(ann) # "none" -> kind = "logfmt"
    [] ann = "error"  -> kind = "fatal_error"
    [] ann = "report" -> kind = "logmigr"
    [] ann = "data"   -> kind \in {"bootstrap", "validate"}
    [] ann = "kanta"  -> kind \in Kinds \cup {"logfmt"}
    [] OTHER -> FALSE

(* _resolve_annotation: the field of the context that a parameter gets. *)
Resolved(p) ==
  CASE StateTag(p.ann) # "none" -> StateTag(p.ann)
    [] StateTag(p.ann) = "none" /\ p.name \in StateNames -> p.name
    [] StateTag(p.ann) = "none" /\ p.name \notin StateNames /\ p.ann \in {"error", "report", "data", "kanta"} -> p.ann
    [] OTHER -> "unresolved"

-----------------------------------------------------------------------------
(* Registration *)

Injects(kind, p) == p.name \in StateNames \/ IsAllowed(kind, p.ann)

(* A parameter that is neither injected nor has a default is refused. *)
Refused(kind, p) ==
  \/ p.passing = "variadic"
  \/ p.ann = "unresolved"
  \/ ~Injects(kind, p) /\ ~p.default

(* _validate_function, and the __init__ of a logfmt class. *)
Accepts(kind, sig) == ~\E i \in DOMAIN sig : Refused(kind, sig[i])
Injected(kind, sig) == {i \in DOMAIN sig : Injects(kind, sig[i])}

ReturnsText(returns) == returns \in {"empty", "optional str", "str"}

IsPath(p) == p.name = "path" /\ p.ann = "str"

(* _validate_logfmt_function: a value, then perhaps a path. *)
AcceptsFormatter(sig, returns) ==
  /\ sig # <<>> /\ sig[1].passing # "variadic" /\ sig[1].ann \in {"str", "any"}
  /\ \A i \in 2 .. Len(sig) : ~Refused("logfmt", sig[i]) \/ (IsPath(sig[i]) /\ sig[i].passing # "variadic")
  /\ ReturnsText(returns)

(* _validate_logfmt_class: resolve must take a value and, somewhere after  *)
(* it, a path; what stands behind that path is not looked at.              *)
PathAt(resolve) ==
  SelectInSeq(resolve, LAMBDA p : p.name = "path" /\ p.ann \in {"empty", "str"})
AcceptsClass(init, resolve, returns) ==
  /\ Accepts("logfmt", init)
  /\ resolve # <<>> /\ resolve[1].ann \in {"empty", "str", "any"}
  /\ LET rest == Tail(resolve)
     IN PathAt(rest) # 0 /\ \A i \in 1 .. PathAt(rest) : rest[i].ann # "unresolved"
  /\ ReturnsText(returns)

-----------------------------------------------------------------------------
(* Calls *)

Optional(p) == p.default \/ p.passing = "variadic"

(* Whether Python can call a function with the first n parameters by       *)
(* position and those at named by keyword.                                 *)
Binds(sig, n, named) ==
  /\ \A i \in 1 .. n : i \in DOMAIN sig /\ sig[i].passing # "keyword"
  /\ \A i \in named : sig[i].passing # "positional"
  /\ \A i \in DOMAIN sig : i <= n \/ i \in named \/ Optional(sig[i])

Call(kind, sig) == Binds(sig, 0, Injected(kind, sig))

(* make_formatter: the value by position, everything else by keyword. *)
FormatterNames(sig) ==
  {i \in 2 .. Len(sig) : IsPath(sig[i]) \/ Injects("logfmt", sig[i])}
CallFormatter(sig) == Binds(sig, 1, FormatterNames(sig))

(* LogFmt.__call__: self.resolve(value, path). *)
CallResolve(resolve) == Binds(resolve, 2, {})

-----------------------------------------------------------------------------
(* Chains.  What a callback does is part of its record.                    *)

(* format_value: the first text of a formatter whose path is this one.     *)
FormatValue(formatters, path) ==
  LET hit == SelectInSeq(formatters, LAMBDA f : f.pattern \in {"any", path} /\ ~f.raises /\ f.text # "none")
  IN IF hit = 0 THEN "none" ELSE formatters[hit].text

(* emit_event: the handlers that are called, whether the rendering is, and *)
(* whether it tells the event; a rendering that fails is reported only.    *)
EmitEvent(handlers, fails) ==
  LET last     == SelectInSeq(handlers, LAMBDA h : h.raises \/ ~h.passes)
      rendered == IF last = 0 THEN TRUE ELSE handlers[last].raises
  IN [called   |-> IF last = 0 THEN DOMAIN handlers ELSE 1 .. last,
      rendered |-> rendered,
      told     |-> rendered /\ ~fails]

-----------------------------------------------------------------------------
(* What a callback that is accepted asks for is there, whoever invokes it; *)
(* only the name of a state dict is taken without regard to the kind, and  *)
(* outside logfmt it gets None.  And the callback can be called, exactly   *)
(* if nothing that it is given is positional only: registration lets such  *)
(* parameters pass, the call by keywords fails.                            *)
AcceptedIsCalled(kind, sig) ==
  Accepts(kind, sig) =>
    /\ \A i \in Injected(kind, sig) :
         \/ Resolved(sig[i]) \in Context(kind)
         \/ kind # "logfmt" /\ sig[i].name \in StateNames /\ Resolved(sig[i]) # "unresolved"
    /\ Call(kind, sig) <=> \A i \in Injected(kind, sig) : sig[i].passing # "positional"

(* The same of a formatter: one that is accepted can be called, exactly if *)
(* its value is not keyword only, nor anything else positional only.       *)
FormatterIsCalled(sig, returns) ==
  AcceptsFormatter(sig, returns) =>
    /\ \A i \in FormatterNames(sig) : IsPath(sig[i]) \/ Resolved(sig[i]) \in Context("logfmt")
    /\ CallFormatter(sig) <=>
         sig[1].passing # "keyword" /\ \A i \in FormatterNames(sig) : sig[i].passing # "positional"

(* A formatter class that is accepted can be made, exactly if nothing that *)
(* it injects is positional only.  Its resolve has the two parameters that *)
(* it is called with; the call binds if neither of them is keyword only    *)
(* and no further one is required, none of which registration looks at.    *)
ClassIsCalled(init, resolve, returns) ==
  AcceptsClass(init, resolve, returns) =>
    /\ Call("logfmt", init) <=> \A i \in Injected("logfmt", init) : init[i].passing # "positional"
    /\ Len(resolve) >= 2
    /\ (\A i \in 1 .. 2 : resolve[i].passing # "keyword") /\ (\A i \in 3 .. Len(resolve) : Optional(resolve[i])) =>
         CallResolve(resolve)

(* A formatter that raises changes nothing for the others, and one that    *)
(* is restricted to another path is as good as absent.                     *)
FailureIsIsolated(formatters, path) ==
  \A i \in DOMAIN formatters :
    formatters[i].raises \/ formatters[i].pattern \notin {"any", path} =>
      FormatValue(formatters, path) = FormatValue(RemoveAt(formatters, i), path)

(* An event that the rendering does not fail on is told once: rendered, or *)
(* else taken over by the last handler called, and not both.  A handler    *)
(* that raises ends the chain, and the rendering follows; a rendering that *)
(* fails loses the event.                                                  *)
EventIsTold(handlers, fails) ==
  LET e == EmitEvent(handlers, fails)
      taken == {i \in e.called : ~handlers[i].raises /\ ~handlers[i].passes}
  IN /\ e.rendered => taken = {} /\ (e.told \/ fails)
     /\ ~e.rendered => ~e.told /\ taken = {Max(e.called)}
     /\ \A i \in DOMAIN handlers : handlers[i].raises => e.called \subseteq 1 .. i
=============================================================================
