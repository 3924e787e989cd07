---------------------------- MODULE DurableStore ----------------------------
(***************************************************************************)
(* What Kanta promises about durability, without files, tasks or queues:   *)
(* the committed changes form one history, a prefix of it is on disk, and  *)
(* a crash costs exactly the changes behind that prefix.  Persistence      *)
(* implements this module with a queue, an append-only log and a           *)
(* background flush.                                                       *)
(***************************************************************************)
EXTENDS Naturals, Sequences, SequencesExt

CONSTANTS Keys,   \* the independent parts of the application's state
          MaxTx   \* bound: how many changes are committed

VARIABLES hist,   \* keys written by the committed changes, oldest first
          saved,  \* how many of them, from the oldest, survive a crash
          value   \* the state the application sees, per key the number of
                  \* the change that wrote it last (0: none)

dvars == <<hist, saved, value>>

(* Per key, the last change in h that writes it. *)
ValueOf(h) == [k \in Keys |-> SelectLastInSeq(h, LAMBDA c : c = k)]

DurableInit == /\ hist = <<>>
               /\ saved = 0
               /\ value = ValueOf(<<>>)

CommitChange(k) == /\ Len(hist) < MaxTx
                   /\ hist' = Append(hist, k)
                   /\ value' = [value EXCEPT ![k] = Len(hist) + 1]
                   /\ UNCHANGED saved

Save == /\ \E n \in saved + 1 .. Len(hist) : saved' = n
        /\ UNCHANGED <<hist, value>>

(* A crash may come while a write is under way: the surviving prefix holds *)
(* at least everything saved before.                                       *)
Crash == \E n \in saved .. Len(hist) : /\ hist' = SubSeq(hist, 1, n)
                                       /\ saved' = n
                                       /\ value' = ValueOf(hist')

DurableNext == \/ \E k \in Keys : CommitChange(k)
               \/ Save
               \/ Crash

DurableSpec == DurableInit /\ [][DurableNext]_dvars
=============================================================================
