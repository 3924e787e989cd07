----------------------------- MODULE Algorithms -----------------------------
(***************************************************************************)
(* What migrations, range resolution, the command line and callbacks       *)
(* promise, each of one input.                                             *)
(***************************************************************************)
EXTENDS CommandLine, Callbacks

VARIABLE in   \* the name of an algorithm and its input, or << >>

Of(name) == in # <<>> /\ in[1] = name

(* Migrations run once, in order, whichever releases open the file, and    *)
(* what is left out on the way makes no difference.                        *)
MigratesOnceInOrder ==
  /\ Of("releases") => OnceInOrder(in[2])
  /\ Of("upgrade")  => UpgradePath(in[2][1], in[2][2], in[2][3])

(* a:b is a slice of changes, snapshots or versions, a..b includes what b  *)
(* stands for, and a single index shows what it names.                     *)
RangesSelect ==
  Of("range") => /\ RangeSlices(in[2][1], in[2][2])
                 /\ InclusiveEnd(in[2][1], in[2][2])
                 /\ SingleIndex(in[2][1], in[2][2])

(* The state that is written is the one the selection ends with, and the   *)
(* exit code tells whether an application could open the file.             *)
CommandTells ==
  Of("command") => WritesWhatOpens(in[2][1], in[2][2])

(* Accepted callbacks, formatters and formatter classes are given what     *)
(* they ask for and can be called, but for parameters that are positional  *)
(* only, a value that is keyword only, and a resolve that requires more    *)
(* than a value and a path; a formatter that raises is as good as absent;  *)
(* and an event is told once unless its rendering fails, a handler that    *)
(* raises being the last to be called.                                     *)
CallbacksServe ==
  /\ Of("callback")  => AcceptedIsCalled(in[2][1], in[2][2])
  /\ Of("formatter") => FormatterIsCalled(in[2][1], in[2][2])
  /\ Of("class")     => ClassIsCalled(in[2][1], in[2][2], "empty")
  /\ Of("chain")     => FailureIsIsolated(in[2][1], in[2][2])
  /\ Of("emit")      => EventIsTold(in[2][1], in[2][2])
=============================================================================
