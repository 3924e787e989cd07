------------------------- MODULE TransactionProofs -------------------------
(***************************************************************************)
(* Proofs about Transaction, for any number of tasks, keys and values and  *)
(* any validator.                                                          *)
(***************************************************************************)
EXTENDS Transaction, SequenceTheorems, TLAPS

(* The flag and the bodies, typed. *)
OneInv == /\ pc \in [Tasks -> {"idle", "body"}]
          /\ in_transaction \in BOOLEAN
          /\ OneAtATime

LEMMA OneInit == Init => OneInv
  BY DEF Init, OneInv, OneAtATime

(* A task enters its body only while the flag is down. *)
Begins(t) == Begin(t) \/ BeginBootstrap(t)

LEMMA OneBegin ==
  ASSUME OneInv, NEW t \in Tasks, Begins(t)
  PROVE  OneInv'
<1>1. /\ pc' = [pc EXCEPT ![t] = "body"]
      /\ in_transaction' = TRUE
      /\ ~in_transaction
  BY DEF Begins, Begin, BeginBootstrap, Enter
<1>2. \A u \in Tasks : pc'[u] = "body" <=> u = t
  BY <1>1 DEF OneInv, OneAtATime
<1>3. pc' \in [Tasks -> {"idle", "body"}]
  BY <1>1 DEF OneInv
<1>4. QED
  BY <1>1, <1>2, <1>3 DEF OneInv, OneAtATime

(* The finally clause of the one body lowers it. *)
LEMMA OneFinally ==
  ASSUME OneInv, NEW t \in Tasks, NEW r, pc[t] = "body", Finally(t, r)
  PROVE  OneInv'
<1>1. pc' = [pc EXCEPT ![t] = "idle"] /\ in_transaction' = FALSE
  BY DEF Finally
<1>2. \A u \in Tasks : pc'[u] = "idle"
  BY <1>1 DEF OneInv, OneAtATime
<1>3. pc' \in [Tasks -> {"idle", "body"}]
  BY <1>1 DEF OneInv
<1>4. QED
  BY <1>1, <1>2, <1>3 DEF OneInv, OneAtATime

(* The actions that end a transaction. *)
Ends(t) == \/ EndUnchanged(t) \/ EndCommit(t) \/ EndRefused(t)
           \/ EndLogfmtFails(t) \/ Raise(t) \/ Interrupt(t)

LEMMA EndsFinally ==
  ASSUME NEW t \in Tasks, Ends(t)
  PROVE  pc[t] = "body" /\ \E r \in Outcomes : Finally(t, r)
  BY DEF Ends, EndUnchanged, EndCommit, EndRefused, EndLogfmtFails, Raise, Interrupt,
         Changed, Abort, Outcomes

(* Every other action leaves both alone. *)
Enters(t) == BeginNested(t) \/ BeginModified(t)
Sets(t, k, v) == Mutate(t, k, v) \/ MutateOutside(t, k, v)

LEMMA NextCases ==
  ASSUME [Next]_vars
  PROVE  \/ UNCHANGED vars
         \/ \E t \in Tasks : Enters(t)
         \/ \E t \in Tasks : Begins(t)
         \/ \E t \in Tasks, k \in Keys, v \in Vals : Sets(t, k, v)
         \/ \E t \in Tasks : Ends(t)
  BY DEF Next, Enters, Begins, Sets, Ends

LEMMA OneStep == OneInv /\ [Next]_vars => OneInv'
<1> SUFFICES ASSUME OneInv, [Next]_vars PROVE OneInv'
  OBVIOUS
<1>1. CASE UNCHANGED <<in_transaction, pc>>
  BY <1>1 DEF OneInv, OneAtATime
<1>2. ASSUME NEW t \in Tasks, Enters(t) PROVE OneInv'
  BY <1>1, <1>2 DEF Enters, BeginNested, BeginModified, Rejected
<1>3. ASSUME NEW t \in Tasks, Begins(t) PROVE OneInv'
  BY <1>3, OneBegin
<1>4. ASSUME NEW t \in Tasks, NEW k \in Keys, NEW v \in Vals, Sets(t, k, v) PROVE OneInv'
  BY <1>1, <1>4 DEF Sets, Mutate, MutateOutside
<1>5. ASSUME NEW t \in Tasks, Ends(t) PROVE OneInv'
  BY <1>5, EndsFinally, OneFinally
<1>6. CASE UNCHANGED vars
  BY <1>1, <1>6 DEF vars
<1>7. QED
  BY <1>2, <1>3, <1>4, <1>5, <1>6, NextCases

(* However many tasks begin transactions, and whatever their bodies await, *)
(* at most one is in its body, and the flag says so.                       *)
THEOREM Exclusive == Spec => []OneAtATime
<1>1. OneInv => OneAtATime
  BY DEF OneInv
<1>2. QED
  BY <1>1, OneInit, OneStep, PTL DEF Spec

-----------------------------------------------------------------------------
(* Replay takes one diff after the other. *)
Log == INSTANCE ListLemmas WITH Op <- Patch, Origin <- Start

Diffs == UNION {[ks -> Vals] : ks \in SUBSET Keys}

LEMMA ReplayFolds ==
  ASSUME NEW q
  PROVE  Replay(q) = Log!Folded(q)
BY DEF Replay, Log!Folded, FoldLeft, Log!FoldLeft, MapThenFoldSet, Log!MapThenFoldSet, Max, Log!Max

LEMMA ReplayEmpty == Replay(<<>>) = Start
BY ReplayFolds, Log!FoldedEmpty

LEMMA ReplayAppend ==
  ASSUME NEW q \in Seq(Diffs), NEW d \in Diffs
  PROVE  Replay(Append(q, d)) = Patch(Replay(q), d)
BY ReplayFolds, Log!FoldedAppend

(* A diff is of its type, and patching with it undoes it. *)
LEMMA DiffRestores ==
  ASSUME NEW old \in State, NEW new \in State
  PROVE  Diff(old, new) \in Diffs /\ Patch(old, Diff(old, new)) = new
<1>1. Diff(old, new) \in [{j \in Keys : old[j] # new[j]} -> Vals]
  BY DEF Diff, State
<1>2. Diff(old, new) \in Diffs
  BY <1>1 DEF Diffs
<1>3. \A k \in Keys : Patch(old, Diff(old, new))[k] = new[k]
  BY DEF Patch, Diff
<1>4. Patch(old, Diff(old, new)) = [k \in Keys |-> new[k]]
  BY <1>3 DEF Patch
<1>5. QED
  BY <1>2, <1>4 DEF State

(* The states are states; a queue is one of diffs, and replays to the      *)
(* recorded state over states that the validators accept.                  *)
ReplayInv ==
  /\ data \in State /\ statedict \in State /\ transaction_snapshot \in State
  /\ queue \in Seq(Diffs) /\ statedict \in Valid
  /\ QueueReplays /\ OnlyValidQueued

(* queue_change keeps this, after validation. *)
LEMMA QueueKeeps ==
  ASSUME ReplayInv, Queue, data \in Valid
  PROVE  /\ statedict' \in State /\ queue' \in Seq(Diffs) /\ statedict' \in Valid
         /\ QueueReplays' /\ OnlyValidQueued'
<1> DEFINE d == Diff(statedict, data)
           n == Len(queue)
<1>1. queue' = Append(queue, d) /\ statedict' = data
  BY DEF Queue
<1>2. d \in Diffs /\ Patch(statedict, d) = data
  BY DiffRestores DEF ReplayInv
<1> HIDE DEF d
<1>3. queue \in Seq(Diffs) /\ queue' \in Seq(Diffs) /\ n \in Nat /\ Len(queue') = n + 1
  BY <1>1, <1>2 DEF ReplayInv
<1>4. Replay(queue') = statedict'
  BY <1>1, <1>2, ReplayAppend DEF ReplayInv, QueueReplays
<1>5. OnlyValidQueued'
  <2> SUFFICES ASSUME NEW m \in 0 .. Len(queue') PROVE Replay(SubSeq(queue', 1, m)) \in Valid
    BY DEF OnlyValidQueued
  <2>1. CASE m = n + 1
    <3>1. SubSeq(queue', 1, n + 1) = queue'
      BY <1>3
    <3>2. QED
      BY <1>1, <1>4, <2>1, <3>1
  <2>2. CASE m # n + 1
    <3>1. m \in 0 .. n
      BY <1>3, <2>2
    <3>2. SubSeq(queue', 1, m) = SubSeq(queue, 1, m)
      <4>1. \A i \in 1 .. m : queue'[i] = queue[i]
        BY <1>1, <1>3, <3>1
      <4>2. /\ SubSeq(queue', 1, m) = [i \in 1 .. m |-> queue'[i]]
            /\ SubSeq(queue, 1, m) = [i \in 1 .. m |-> queue[i]]
        BY <1>3, <3>1
      <4>3. QED
        BY <4>1, <4>2
    <3>3. QED
      BY <3>1, <3>2 DEF ReplayInv, OnlyValidQueued
  <2>3. QED
    BY <2>1, <2>2
<1>6. QED
  BY <1>1, <1>3, <1>4, <1>5 DEF ReplayInv, QueueReplays

LEMMA ReplayInit == Init => ReplayInv
<1> SUFFICES ASSUME Init PROVE ReplayInv
  OBVIOUS
<1>1. Start \in State /\ Start \in Valid
  BY TransactionAssumption
<1>2. queue = <<>> /\ queue \in Seq(Diffs) /\ Len(queue) = 0
  BY DEF Init
<1>3. Replay(queue) = Start
  BY <1>2, ReplayEmpty
<1>4. \A n \in 0 .. Len(queue) : SubSeq(queue, 1, n) = <<>>
  BY <1>2
<1>5. OnlyValidQueued
  BY <1>1, <1>2, <1>3, <1>4 DEF OnlyValidQueued
<1>6. QED
  BY <1>1, <1>2, <1>3, <1>5 DEF Init, ReplayInv, QueueReplays

LEMMA ReplayStep == ReplayInv /\ [Next]_vars => ReplayInv'
<1> SUFFICES ASSUME ReplayInv, [Next]_vars PROVE ReplayInv'
  OBVIOUS
<1>1. ASSUME data' \in State, transaction_snapshot' \in State, UNCHANGED <<statedict, queue>>
      PROVE  ReplayInv'
  BY <1>1 DEF ReplayInv, QueueReplays, OnlyValidQueued
<1>2. ASSUME NEW t \in Tasks, Enters(t) \/ Begins(t) PROVE ReplayInv'
  BY <1>1, <1>2 DEF Enters, BeginNested, BeginModified, Rejected, Begins, Begin, BeginBootstrap,
                    Enter, ReplayInv
<1>3. ASSUME NEW t \in Tasks, NEW k \in Keys, NEW v \in Vals, Sets(t, k, v) PROVE ReplayInv'
  <2>1. data' = [data EXCEPT ![k] = v] /\ UNCHANGED <<statedict, queue, transaction_snapshot>>
    BY <1>3 DEF Sets, Mutate, MutateOutside
  <2>2. data' \in State
    BY <2>1 DEF ReplayInv, State
  <2>3. QED
    BY <1>1, <2>1, <2>2 DEF ReplayInv
<1>4. ASSUME NEW t \in Tasks, Ends(t) PROVE ReplayInv'
  <2>1. transaction_snapshot' \in State
    BY <1>4, EndsFinally, TransactionAssumption DEF Finally
  <2>2. data' \in State
    BY <1>4 DEF Ends, EndUnchanged, EndCommit, EndRefused, EndLogfmtFails, Raise, Interrupt,
                Abort, Rollback, ReplayInv
  <2>3. CASE EndCommit(t) \/ EndLogfmtFails(t)
    <3>1. Queue /\ data \in Valid
      BY <2>3 DEF EndCommit, EndLogfmtFails
    <3>2. QED
      BY <2>1, <2>2, <3>1, QueueKeeps DEF ReplayInv
  <2>4. CASE EndUnchanged(t) \/ EndRefused(t) \/ Raise(t) \/ Interrupt(t)
    <3>1. UNCHANGED <<statedict, queue>>
      BY <2>4 DEF EndUnchanged, EndRefused, Raise, Interrupt
    <3>2. QED
      BY <1>1, <2>1, <2>2, <3>1
  <2>5. QED
    BY <1>4, <2>3, <2>4 DEF Ends
<1>5. CASE UNCHANGED vars
  BY <1>1, <1>5 DEF vars, ReplayInv
<1>6. QED
  BY <1>2, <1>3, <1>4, <1>5, NextCases

(* The queued changes rebuild the recorded state, against which the next   *)
(* change is diffed: whatever was rolled back, refused or interrupted, and *)
(* whatever was changed outside transactions.                              *)
THEOREM QueueAlwaysReplays == Spec => []QueueReplays
<1>1. ReplayInv => QueueReplays
  BY DEF ReplayInv
<1>2. QED
  BY <1>1, ReplayInit, ReplayStep, PTL DEF Spec

(* And they pass through no state that a validate callback refuses, though *)
(* refused states were in memory.                                          *)
THEOREM RecordsAreValid == Spec => []OnlyValidQueued
<1>1. ReplayInv => OnlyValidQueued
  BY DEF ReplayInv
<1>2. QED
  BY <1>1, ReplayInit, ReplayStep, PTL DEF Spec

-----------------------------------------------------------------------------
(* Inside a transaction the snapshot is the recorded state, outside the    *)
(* live object is, or the state before the last record: then the two       *)
(* differ, and no transaction begins.                                      *)
SettledInv ==
  /\ OneInv /\ ReplayInv
  /\ disturbed \in BOOLEAN /\ late \in BOOLEAN
  /\ ~disturbed /\ in_transaction => transaction_snapshot = statedict /\ ~late
  /\ ~disturbed /\ late => data # statedict
  /\ Settled

LEMMA FrontAppend ==
  ASSUME NEW q \in Seq(Diffs), NEW d \in Diffs
  PROVE  Front(Append(q, d)) = q
<1>1. Append(q, d) \in Seq(Diffs) /\ Len(Append(q, d)) = Len(q) + 1 /\ Len(q) \in Nat
  OBVIOUS
<1>2. Front(Append(q, d)) = SubSeq(Append(q, d), 1, Len(q))
  BY <1>1 DEF Front
<1>3. SubSeq(Append(q, d), 1, Len(q)) = q
  BY <1>1
<1>4. QED
  BY <1>2, <1>3

(* A rollback behind the record leaves memory where the queue was before. *)
LEMMA LateRollback ==
  ASSUME ReplayInv, Queue, data # statedict, transaction_snapshot = statedict, Rollback
  PROVE  data' = Replay(Front(queue')) /\ data' # statedict'
<1>1. queue' = Append(queue, Diff(statedict, data)) /\ statedict' = data
  BY DEF Queue
<1>2. Diff(statedict, data) \in Diffs /\ queue \in Seq(Diffs)
  BY DiffRestores DEF ReplayInv
<1>3. Front(queue') = queue
  BY <1>1, <1>2, FrontAppend
<1>4. data' = statedict
  BY DEF Rollback
<1>5. QED
  BY <1>1, <1>3, <1>4 DEF ReplayInv, QueueReplays

LEMMA SettledEnds ==
  ASSUME SettledInv, NEW t \in Tasks, Ends(t)
  PROVE  /\ in_transaction' = FALSE /\ disturbed' \in BOOLEAN /\ late' \in BOOLEAN
         /\ ~disturbed' => IF late' THEN data' = Replay(Front(queue')) /\ data' # statedict'
                                    ELSE data' = statedict'
<1>1. pc[t] = "body" /\ in_transaction' = FALSE
  BY EndsFinally DEF Finally
<1>2. in_transaction /\ (~disturbed => transaction_snapshot = statedict /\ ~late)
  BY <1>1 DEF SettledInv, OneInv, OneAtATime
<1>3. CASE EndUnchanged(t)
  BY <1>1, <1>2, <1>3 DEF EndUnchanged, SettledInv, ghosts
<1>4. CASE EndCommit(t)
  BY <1>1, <1>2, <1>4 DEF EndCommit, Queue, SettledInv, ghosts
<1>5. CASE EndRefused(t) \/ Raise(t)
  <2>1. late' = late /\ statedict' = statedict
    BY <1>5 DEF EndRefused, Raise, Abort
  <2>2. CASE Rollback /\ UNCHANGED disturbed
    BY <1>1, <1>2, <2>1, <2>2 DEF Rollback, SettledInv
  <2>3. CASE disturbed' = TRUE
    BY <1>1, <2>1, <2>3 DEF SettledInv
  <2>4. QED
    BY <1>5, <2>2, <2>3 DEF EndRefused, Raise, Abort
<1>6. CASE Interrupt(t)
  BY <1>1, <1>6 DEF Interrupt, SettledInv
<1>7. CASE EndLogfmtFails(t)
  <2>1. data # statedict /\ Queue /\ disturbed' = disturbed
    BY <1>7 DEF EndLogfmtFails, Changed
  <2>2. CASE Rollback /\ late' = TRUE
    BY <1>1, <1>2, <2>1, <2>2, LateRollback DEF SettledInv
  <2>3. CASE UNCHANGED <<data, late>>
    BY <1>1, <1>2, <2>1, <2>3 DEF Queue, SettledInv
  <2>4. QED
    BY <1>7, <2>2, <2>3 DEF EndLogfmtFails
<1>8. \/ EndUnchanged(t) \/ EndCommit(t) \/ EndRefused(t) \/ Raise(t)
      \/ Interrupt(t) \/ EndLogfmtFails(t)
  BY DEF Ends
<1>9. QED
  BY <1>1, <1>3, <1>4, <1>5, <1>6, <1>7, <1>8

LEMMA SettledStep == SettledInv /\ [Next]_vars => SettledInv'
<1> SUFFICES ASSUME SettledInv, [Next]_vars PROVE SettledInv'
  OBVIOUS
<1>1. OneInv' /\ ReplayInv'
  BY OneStep, ReplayStep DEF SettledInv
<1>2. CASE UNCHANGED <<data, statedict, queue, in_transaction, transaction_snapshot, disturbed, late>>
  BY <1>1, <1>2 DEF SettledInv, Settled
<1>3. ASSUME NEW t \in Tasks, Enters(t) PROVE SettledInv'
  BY <1>2, <1>3 DEF Enters, BeginNested, BeginModified, Rejected, ghosts
<1>4. ASSUME NEW t \in Tasks, Begins(t) PROVE SettledInv'
  <2>1. CASE Begin(t)
    BY <1>1, <2>1 DEF Begin, Enter, SettledInv, Settled
  <2>2. CASE BeginBootstrap(t)
    BY <1>1, <2>2 DEF BeginBootstrap, Enter, SettledInv, Settled
  <2>3. QED
    BY <1>4, <2>1, <2>2 DEF Begins
<1>5. ASSUME NEW t \in Tasks, NEW k \in Keys, NEW v \in Vals, Sets(t, k, v) PROVE SettledInv'
  <2>1. CASE Mutate(t, k, v)
    <3>1. pc[t] = "body" /\ UNCHANGED <<statedict, in_transaction, transaction_snapshot, disturbed, late>>
      BY <2>1 DEF Mutate, ghosts
    <3>2. in_transaction /\ (~disturbed => ~late)
      BY <3>1 DEF SettledInv, OneInv, OneAtATime
    <3>3. QED
      BY <1>1, <3>1, <3>2 DEF SettledInv, Settled
  <2>2. CASE MutateOutside(t, k, v)
    BY <1>1, <2>2 DEF MutateOutside, SettledInv, Settled
  <2>3. QED
    BY <1>5, <2>1, <2>2 DEF Sets
<1>6. ASSUME NEW t \in Tasks, Ends(t) PROVE SettledInv'
  BY <1>1, <1>6, SettledEnds DEF SettledInv, Settled
<1>7. CASE UNCHANGED vars
  BY <1>2, <1>7 DEF vars, ghosts
<1>8. QED
  BY <1>3, <1>4, <1>5, <1>6, <1>7, NextCases

LEMMA SettledInit == Init => SettledInv
  BY OneInit, ReplayInit DEF Init, SettledInv, Settled

(* Between transactions memory is the recorded state, or the state before  *)
(* the last record where that transaction was rolled back behind it; until *)
(* memory is changed outside transactions, or keeps what an interrupted or *)
(* an aborted one had changed.  No refused state, failing clock or raising *)
(* body that was rolled back makes later transactions impossible.          *)
THEOREM AlwaysSettled == Spec => []Settled
<1>1. SettledInv => Settled
  BY DEF SettledInv
<1>2. QED
  BY <1>1, SettledInit, SettledStep, PTL DEF Spec

(* After such a rollback nothing is recorded. *)
LEMMA LateStep ==
  ASSUME SettledInv, [Next]_vars, late, ~disturbed
  PROVE  UNCHANGED <<queue, statedict>>
<1>1. CASE UNCHANGED vars
  BY <1>1 DEF vars
<1>2. ASSUME NEW u \in Tasks, Enters(u) \/ Begins(u) PROVE UNCHANGED <<queue, statedict>>
  BY <1>2 DEF Enters, BeginNested, BeginModified, Rejected, Begins, Begin, BeginBootstrap, Enter
<1>3. ASSUME NEW u \in Tasks, NEW k \in Keys, NEW v \in Vals, Sets(u, k, v)
      PROVE  UNCHANGED <<queue, statedict>>
  BY <1>3 DEF Sets, Mutate, MutateOutside
<1>4. ASSUME NEW u \in Tasks, Ends(u) PROVE FALSE
  BY <1>4, EndsFinally DEF SettledInv, OneInv, OneAtATime
<1>5. QED
  BY <1>1, <1>2, <1>3, <1>4, NextCases

(* A record that was queued before its transaction was rolled back is the  *)
(* last one: whatever other tasks try, nothing is recorded against a       *)
(* memory that is behind it, until memory is changed outside transactions  *)
(* or a bootstrap takes the difference over.                               *)
THEOREM NothingAfterALateRecord == Spec => LateRecordIsLast
<1>1. SettledInv /\ [Next]_vars =>
        [late /\ ~disturbed => UNCHANGED <<queue, statedict>>]_vars
  BY LateStep
<1>2. QED
  BY <1>1, SettledInit, SettledStep, PTL DEF Spec, LateRecordIsLast

-----------------------------------------------------------------------------
(* Inside a transaction, memory differs from the recorded state only where *)
(* the transaction wrote; until something disturbs that.                   *)
WroteInv ==
  /\ SettledInv /\ wrote \in [Tasks -> SUBSET Keys]
  /\ ~disturbed => \A t \in Tasks : pc[t] = "body" =>
       \A k \in Keys : data[k] # statedict[k] => k \in wrote[t]

LEMMA WroteStep == WroteInv /\ [Next]_vars => WroteInv'
<1> SUFFICES ASSUME WroteInv, [Next]_vars PROVE WroteInv'
  OBVIOUS
<1> DEFINE Others == ~disturbed' => \A t \in Tasks : pc'[t] = "body" =>
                       \A k \in Keys : data'[k] # statedict'[k] => k \in wrote'[t]
<1>1. SettledInv'
  BY SettledStep DEF WroteInv
<1>2. SUFFICES Others /\ wrote' \in [Tasks -> SUBSET Keys]
  BY <1>1 DEF WroteInv
<1>3. OneInv /\ OneInv' /\ wrote \in [Tasks -> SUBSET Keys] /\ data \in State
  BY <1>1 DEF WroteInv, SettledInv, ReplayInv
<1>4. CASE UNCHANGED <<data, statedict, pc, wrote, disturbed>>
  BY <1>3, <1>4 DEF WroteInv
<1>5. ASSUME NEW t \in Tasks, Enters(t) PROVE Others /\ wrote' \in [Tasks -> SUBSET Keys]
  BY <1>4, <1>5 DEF Enters, BeginNested, BeginModified, Rejected, ghosts
<1>6. ASSUME NEW t \in Tasks, Begins(t) PROVE Others /\ wrote' \in [Tasks -> SUBSET Keys]
  <2>1. CASE Begin(t)
    <3>1. data' = statedict' /\ wrote' = [wrote EXCEPT ![t] = {}]
      BY <2>1 DEF Begin, Enter
    <3>2. QED
      BY <1>3, <3>1
  <2>2. CASE BeginBootstrap(t)
    BY <1>3, <2>2 DEF BeginBootstrap, Enter
  <2>3. QED
    BY <1>6, <2>1, <2>2 DEF Begins
<1>7. ASSUME NEW t \in Tasks, NEW k \in Keys, NEW v \in Vals, Sets(t, k, v)
      PROVE  Others /\ wrote' \in [Tasks -> SUBSET Keys]
  <2>1. CASE MutateOutside(t, k, v)
    BY <1>3, <2>1 DEF MutateOutside
  <2>2. CASE Mutate(t, k, v)
    <3>1. /\ pc[t] = "body" /\ UNCHANGED <<statedict, pc, disturbed>>
          /\ data' = [data EXCEPT ![k] = v] /\ wrote' = [wrote EXCEPT ![t] = wrote[t] \cup {k}]
      BY <2>2 DEF Mutate, ghosts
    <3>2. wrote' \in [Tasks -> SUBSET Keys]
      BY <1>3, <3>1
    <3>3. \A u \in Tasks : pc[u] = "body" => u = t
      BY <1>3, <3>1 DEF OneInv, OneAtATime
    <3>4. wrote'[t] = wrote[t] \cup {k} /\ \A j \in Keys \ {k} : data'[j] = data[j]
      BY <1>3, <3>1 DEF State
    <3>5. QED
      BY <3>1, <3>2, <3>3, <3>4 DEF WroteInv
  <2>3. QED
    BY <1>7, <2>1, <2>2 DEF Sets
<1>8. ASSUME NEW t \in Tasks, Ends(t) PROVE Others /\ wrote' \in [Tasks -> SUBSET Keys]
  <2>1. wrote' = wrote /\ in_transaction' = FALSE
    BY <1>8, EndsFinally DEF Finally
  <2>2. \A u \in Tasks : pc'[u] # "body"
    BY <1>3, <2>1 DEF OneInv, OneAtATime
  <2>3. QED
    BY <1>3, <2>1, <2>2
<1>9. CASE UNCHANGED vars
  BY <1>4, <1>9 DEF vars, ghosts
<1>10. QED
  BY <1>5, <1>6, <1>7, <1>8, <1>9, NextCases

(* The record that a step queues holds what its transaction set. *)
LEMMA RecordsOwn ==
  ASSUME WroteInv, [Next]_vars, NEW t \in Tasks, pc[t] = "body", queue' # queue, ~disturbed
  PROVE  DOMAIN Last(queue') \subseteq wrote[t]
<1>1. PICK u \in Tasks : Ends(u) /\ Queue
  <2>1. CASE UNCHANGED vars
    BY <2>1 DEF vars
  <2>2. ASSUME NEW u \in Tasks, Enters(u) \/ Begins(u) PROVE FALSE
    BY <2>2 DEF Enters, BeginNested, BeginModified, Rejected, Begins, Begin, BeginBootstrap, Enter
  <2>3. ASSUME NEW u \in Tasks, NEW k \in Keys, NEW v \in Vals, Sets(u, k, v) PROVE FALSE
    BY <2>3 DEF Sets, Mutate, MutateOutside
  <2>4. ASSUME NEW u \in Tasks, Ends(u) PROVE Queue
    BY <2>4 DEF Ends, EndUnchanged, EndCommit, EndRefused, EndLogfmtFails, Raise, Interrupt
  <2>5. QED
    BY <2>1, <2>2, <2>3, <2>4, NextCases
<1>2. Last(queue') = Diff(statedict, data)
  <2>1. queue' = Append(queue, Diff(statedict, data)) /\ queue \in Seq(Diffs)
    BY <1>1 DEF Queue, WroteInv, SettledInv, ReplayInv
  <2>2. Diff(statedict, data) \in Diffs
    BY DiffRestores DEF WroteInv, SettledInv, ReplayInv
  <2>3. QED
    BY <2>1, <2>2 DEF Last
<1>3. DOMAIN Diff(statedict, data) = {k \in Keys : statedict[k] # data[k]}
  BY DEF Diff
<1>4. QED
  BY <1>2, <1>3 DEF WroteInv

(* A record holds what its own transaction set and nothing that another    *)
(* task did while the body awaited, until data is changed outside any      *)
(* transaction, or kept by an interrupted or aborted one.                   *)
THEOREM RecordsOwnWrites == Spec => OwnWrites
<1>1. Init => WroteInv
  BY SettledInit DEF Init, WroteInv
<1>2. WroteInv /\ [Next]_vars =>
        [\A t \in Tasks : pc[t] = "body" /\ queue' # queue /\ ~disturbed =>
           DOMAIN Last(queue') \subseteq wrote[t]]_vars
  BY RecordsOwn
<1>3. QED
  BY <1>1, <1>2, WroteStep, PTL DEF Spec, OwnWrites
=============================================================================
