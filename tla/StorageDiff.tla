---------------------------- MODULE StorageDiff ----------------------------
(***************************************************************************)
(* DiffHandler on a contract whose transactions are executed one by one.   *)
(* A difference between any two of its states may be asked for at any      *)
(* time, in any of the three modes; a replay the node answers with an      *)
(* error leaves its transaction out.                                       *)
(***************************************************************************)
EXTENDS Diffs

CONSTANTS
  Values,   \* the words a slot can hold
  MaxTxs    \* bound: transactions after the first state

Storage == [Keys -> Values]

ASSUME DiffAssumption == Empty \in Values /\ MaxTxs \in Nat

VARIABLES
  history,  \* history[n]: the contract's storage after n - 1 transactions
  lost      \* the transactions that cannot be replayed

diffVars == <<history, lost>>

DiffInit ==
  /\ \E s \in Storage : history = <<s>>
  /\ lost = {}

\* A transaction of the contract, which the node can replay or not.
Transaction ==
  /\ Len(history) <= MaxTxs
  /\ \E s \in Storage : history' = Append(history, s)
  /\ lost' \in {lost, lost \cup {Len(history')}}

DiffNext == Transaction

DiffSpec == DiffInit /\ [][DiffNext]_diffVars

-----------------------------------------------------------------------------
(***************************************************************************)
(* Properties.                                                             *)
(***************************************************************************)
States == DOMAIN history
Replayable == States \ lost

\* The type invariant.
DiffTypeOK ==
  /\ history \in Seq(Storage)
  /\ Len(history) \in 1..(MaxTxs + 1)
  /\ lost \subseteq States

\* What a diff says of two states is enough to get from one to the other: its
\* keys are the slots that differ, and its kinds say which key is on which side.
StorageDiffIsExact ==
  \A b, t \in States :
    LET diffs == DiffFromStorage(history[b], history[t])
    IN  /\ GetKeys(diffs) = {k \in Keys : history[b][k] # history[t][k]}
        /\ \A d \in diffs :
             /\ d.kind = "Add" <=> history[b][d.key] = Empty
             /\ d.kind = "Remove" <=> history[t][d.key] = Empty

\* Comparing the proofs of two states gives the diff comparing their storage
\* gives, kinds included.
ProofDiffIsStorageDiff ==
  \A b, t \in States :
    DiffFromProof(history[b], history[t]) = DiffFromStorage(history[b], history[t])

\* Replaying the transactions in between finds every slot that differs, and says
\* no more of a slot that held a value before than comparing does.  A transaction
\* that cannot be replayed spoils the slots it changed and no others.
TxsDiffCoversStorageDiff ==
  \A b, t \in States : b <= t =>
    LET byTxs == DiffFromTxs(history, b, t, Replayable)
        byStorage == DiffFromStorage(history[b], history[t])
        spoilt == UNION {Replayed(history[n - 1], history[n]) : n \in lost \cap (b + 1)..t}
    IN  /\ \A d \in byStorage : d.key \notin spoilt => d \in byTxs
        /\ \A d \in byTxs \ byStorage : d.key \notin spoilt =>
             d.kind = "Add" /\ history[b][d.key] = Empty /\ history[t][d.key] = Empty

=============================================================================
