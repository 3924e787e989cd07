---------------------------- MODULE Transaction -----------------------------
(***************************************************************************)
(* kanta.transaction(): application tasks change the live state object     *)
(* inside a context manager that diffs it, validates it and queues the     *)
(* change, or rolls it back.  The manager itself never awaits, but its     *)
(* body may, and then other tasks run in the middle of the transaction.    *)
(*                                                                         *)
(* Abstractions.  The state is a function from keys to values; a diff is   *)
(* the part of it that changed.  Callbacks are reduced to how they end:    *)
(* validate callbacks accept exactly the states in Valid, a clock or a     *)
(* logfmt callback may raise.  The read-only check and the log output are  *)
(* left out; building the logfmt chain is not, since it may raise.         *)
(***************************************************************************)
EXTENDS Naturals, Sequences, FiniteSets, SequencesExt

CONSTANTS Tasks,       \* application tasks
          Keys, Vals,  \* the state maps keys to values
          Start,       \* the state open() left in memory
          Blank,       \* the state that is an empty dict
          Valid,       \* the states the validate callbacks accept
          MaxTx        \* bound: transactions that queue a change

State == [Keys -> Vals]

ASSUME TransactionAssumption ==
  /\ Start \in State /\ Start \in Valid /\ Blank \in State
  /\ MaxTx \in Nat

VARIABLES data,                 \* the live object
          statedict,            \* serialized state after the last queued change
          queue,                \* every change queued so far, oldest first
          in_transaction,
          transaction_snapshot, \* state to roll back to; Start when there is none
          pc,                   \* "idle", or "body" inside a transaction
          outcome,              \* how the task's last transaction ended
          wrote,                \* ghost: keys the task set in its transaction
          disturbed,            \* ghost: data was changed outside transactions, or kept
                                \* what an interrupted or aborted one had changed, or a
                                \* bootstrap took a difference over
          late                  \* ghost: a transaction was rolled back whose record
                                \* had been queued

ghosts == <<disturbed, late>>
vars == <<data, statedict, queue, in_transaction, transaction_snapshot, pc, outcome, wrote, ghosts>>

Outcomes == {"none", "committed", "unchanged", "aborted", "interrupted",
             "RuntimeError", "AttributeError"}

-----------------------------------------------------------------------------
(* diff(old, new), and its application. *)
Diff(old, new) == [k \in {j \in Keys : old[j] # new[j]} |-> new[k]]
Patch(s, d) == [k \in Keys |-> IF k \in DOMAIN d THEN d[k] ELSE s[k]]

(* What a replay of the queued changes makes of the state at open(). *)
Replay(q) == FoldLeft(Patch, Start, q)

-----------------------------------------------------------------------------
Init ==
  /\ data = Start /\ statedict = Start /\ queue = <<>>
  /\ in_transaction = FALSE /\ transaction_snapshot = Start
  /\ pc = [t \in Tasks |-> "idle"] /\ outcome = [t \in Tasks |-> "none"]
  /\ wrote = [t \in Tasks |-> {}] /\ disturbed = FALSE /\ late = FALSE

(* The with statement.  A difference between the object and the last known *)
(* state is fatal; that branch builds its error from impl.db_path, which   *)
(* does not exist.                                                         *)
Rejected(t, error) ==
  /\ outcome' = [outcome EXCEPT ![t] = error]
  /\ UNCHANGED <<data, statedict, queue, in_transaction, transaction_snapshot, pc, wrote, ghosts>>

BeginNested(t) ==
  /\ pc[t] = "idle" /\ in_transaction
  /\ Rejected(t, "RuntimeError")

BeginModified(t) ==
  /\ pc[t] = "idle" /\ ~in_transaction /\ data # statedict
  /\ Rejected(t, "AttributeError")

Enter(t) ==
  /\ Len(queue) < MaxTx
  /\ in_transaction' = TRUE
  /\ transaction_snapshot' = data
  /\ pc' = [pc EXCEPT ![t] = "body"]
  /\ wrote' = [wrote EXCEPT ![t] = {}]
  /\ UNCHANGED <<data, statedict, queue, outcome, late>>

(* Faults: nesting is not rejected; a difference is not. *)
BeginAnyway(t) ==
  /\ pc[t] = "idle" /\ data = statedict
  /\ Enter(t)
  /\ UNCHANGED disturbed
BeginUnchecked(t) ==
  /\ pc[t] = "idle" /\ ~in_transaction
  /\ Enter(t)
  /\ UNCHANGED disturbed

Begin(t) ==
  /\ pc[t] = "idle" /\ ~in_transaction /\ data = statedict
  /\ Enter(t)
  /\ UNCHANGED disturbed

(* Only an action named bootstrap may find a difference, in a database     *)
(* that is empty so far.                                                   *)
BeginBootstrap(t) ==
  /\ pc[t] = "idle" /\ ~in_transaction /\ data # statedict /\ statedict = Blank
  /\ Enter(t)
  /\ disturbed' = TRUE

(* The body sets a key of the live object. *)
Mutate(t, k, v) ==
  /\ pc[t] = "body"
  /\ data' = [data EXCEPT ![k] = v]
  /\ wrote' = [wrote EXCEPT ![t] = @ \cup {k}]
  /\ UNCHANGED <<statedict, queue, in_transaction, transaction_snapshot, pc, outcome, ghosts>>

(* So does code that holds a reference to it outside any transaction. *)
MutateOutside(t, k, v) ==
  /\ pc[t] = "idle"
  /\ data' = [data EXCEPT ![k] = v]
  /\ disturbed' = TRUE
  /\ UNCHANGED <<statedict, queue, in_transaction, transaction_snapshot, pc, outcome, wrote, late>>

-----------------------------------------------------------------------------
(* The end of a transaction: what the body or the manager's own calls lead *)
(* to, then the finally clause, all in one step.                           *)
Finally(t, result) ==
  /\ in_transaction' = FALSE
  /\ transaction_snapshot' = Start
  /\ pc' = [pc EXCEPT ![t] = "idle"]
  /\ outcome' = [outcome EXCEPT ![t] = result]
  /\ UNCHANGED wrote

(* Fault: the rollback is forgotten. *)
NoRollback == UNCHANGED data

(* restore_data_in_place: the fields of the object get back their values.  *)
Rollback == data' = transaction_snapshot

(* except Exception: the aborted event is built first, and a logfmt chain  *)
(* that cannot be built (only a transaction with a user needs one) ends    *)
(* the handler before the rollback.                                        *)
Abort(t) ==
  /\ \/ Rollback /\ UNCHANGED disturbed
     \/ UNCHANGED data /\ disturbed' = TRUE
  /\ UNCHANGED late
  /\ Finally(t, "aborted")

(* Fault: the record is built against the snapshot of the transaction, and *)
(* statedict is left behind.                                               *)
QueueStale == /\ queue' = Append(queue, Diff(transaction_snapshot, data))
              /\ UNCHANGED statedict

(* queue_change *)
Queue == /\ queue' = Append(queue, Diff(statedict, data))
         /\ statedict' = data

Changed(t) == pc[t] = "body" /\ data # statedict

(* The body returns, having changed nothing: no validation and no record.  *)
EndUnchanged(t) ==
  /\ pc[t] = "body" /\ data = statedict
  /\ Finally(t, "unchanged")
  /\ UNCHANGED <<data, statedict, queue, ghosts>>

(* Fault: validation is skipped. *)
CommitUnchecked(t) ==
  /\ Changed(t)
  /\ Queue
  /\ Finally(t, "committed")
  /\ UNCHANGED <<data, ghosts>>

EndCommit(t) ==
  /\ Changed(t) /\ data \in Valid
  /\ Queue
  /\ Finally(t, "committed")
  /\ UNCHANGED <<data, ghosts>>

(* A validate callback rejects the new state, or the clock raises in       *)
(* queue_change before the record exists.                                  *)
EndRefused(t) ==
  /\ Changed(t)
  /\ Abort(t)
  /\ UNCHANGED <<statedict, queue>>

(* The record is queued, and then its log event cannot be built.  Memory   *)
(* is rolled back behind the record, or, when the aborted event cannot be  *)
(* built either, stays where the record is.                                *)
EndLogfmtFails(t) ==
  /\ Changed(t) /\ data \in Valid
  /\ Queue
  /\ \/ Rollback /\ late' = TRUE
     \/ UNCHANGED <<data, late>>
  /\ UNCHANGED disturbed
  /\ Finally(t, "aborted")

(* The body raises: an Exception, *)
Raise(t) ==
  /\ pc[t] = "body"
  /\ Abort(t)
  /\ UNCHANGED <<statedict, queue>>

(* or another BaseException, which only the finally clause sees. *)
Interrupt(t) ==
  /\ pc[t] = "body"
  /\ disturbed' = TRUE
  /\ Finally(t, "interrupted")
  /\ UNCHANGED <<data, statedict, queue, late>>

-----------------------------------------------------------------------------
Next ==
  \E t \in Tasks :
    \/ BeginNested(t) \/ BeginModified(t) \/ Begin(t) \/ BeginBootstrap(t)
    \/ \E k \in Keys, v \in Vals : Mutate(t, k, v) \/ MutateOutside(t, k, v)
    \/ EndUnchanged(t) \/ EndCommit(t) \/ EndRefused(t) \/ EndLogfmtFails(t)
    \/ Raise(t) \/ Interrupt(t)

Spec == Init /\ [][Next]_vars

-----------------------------------------------------------------------------
(* Every variable keeps its type. *)
TypeOK ==
  /\ data \in State /\ statedict \in State /\ transaction_snapshot \in State
  /\ \A i \in DOMAIN queue : \A k \in DOMAIN queue[i] : k \in Keys /\ queue[i][k] \in Vals
  /\ in_transaction \in BOOLEAN
  /\ pc \in [Tasks -> {"idle", "body"}] /\ outcome \in [Tasks -> Outcomes]
  /\ wrote \in [Tasks -> SUBSET Keys] /\ disturbed \in BOOLEAN /\ late \in BOOLEAN

(* Between transactions memory is the recorded state, or every later one   *)
(* would be refused.  After a transaction that failed behind its record it *)
(* is the state before that record.  This ends where data is changed       *)
(* outside transactions, and where an interrupted body, or an abort whose  *)
(* own event cannot be built, leaves its changes in memory.                *)
Settled ==
  ~in_transaction /\ ~disturbed =>
    data = IF late THEN Replay(Front(queue)) ELSE statedict

(* One transaction at a time, though its body may await: the flag is up    *)
(* exactly while one task is in its body.                                  *)
OneAtATime ==
  /\ in_transaction <=> \E t \in Tasks : pc[t] = "body"
  /\ \A t, u \in Tasks : pc[t] = "body" /\ pc[u] = "body" => t = u

(* The queued changes rebuild the state the next diff is taken against,    *)
(* whatever went wrong before.                                             *)
QueueReplays == Replay(queue) = statedict

(* No state on the way, from the first change to the last, is one that the *)
(* validate callbacks refuse.                                              *)
OnlyValidQueued == \A n \in 0 .. Len(queue) : Replay(SubSeq(queue, 1, n)) \in Valid

(* A record holds what its transaction set and nothing that another task   *)
(* did meanwhile; until data is changed outside transactions, or keeps     *)
(* what an interrupted or aborted one had changed.                         *)
OwnWrites ==
  [][\A t \in Tasks :
       pc[t] = "body" /\ queue' # queue /\ ~disturbed => DOMAIN Last(queue') \subseteq wrote[t]]_vars

(* A transaction that ends with an exception queues nothing. *)
AbortQueuesNothing ==
  [][\A t \in Tasks : pc[t] = "body" /\ pc'[t] = "idle" /\ outcome'[t] = "aborted" =>
       UNCHANGED <<queue, statedict>>]_vars

(* Where one did queue its record, that is the last one: later ones are    *)
(* refused, instead of recording the way back that memory has gone; until  *)
(* memory is changed outside transactions, or a bootstrap takes it over.   *)
LateRecordIsLast == [][late /\ ~disturbed => UNCHANGED <<queue, statedict>>]_vars
=============================================================================
