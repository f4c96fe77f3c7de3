-------------------------------- MODULE Mirror --------------------------------
(***************************************************************************)
(* What smart-sync promises of a proxy, without relay, proofs or batches:  *)
(* a proxy shows nothing at first, and from then on the source contract's  *)
(* complete storage in one block of the source chain, which only moves     *)
(* forward.                                                                *)
(***************************************************************************)
EXTENDS Integers, Sequences

CONSTANTS
  Proxies,
  Storage,  \* the storages of the source contract
  Hidden    \* what a proxy shows before its migration is complete

VARIABLES
  history,  \* history[n]: the source contract's storage in source block n
  block,    \* the source block a proxy shows, 0 for none
  view      \* the storage a proxy shows

mirrorVars == <<history, block, view>>

MirrorInit ==
  /\ \E s \in Storage : history = <<s>>
  /\ block = [p \in Proxies |-> 0]
  /\ view = [p \in Proxies |-> Hidden]

\* The source chain grows.
Extend ==
  /\ \E s \in Storage : history' = Append(history, s)
  /\ UNCHANGED <<block, view>>

\* Proxy p comes to show source block n, later than what it showed before.
Show(p, n) ==
  /\ n \in 1..Len(history)
  /\ n > block[p]
  /\ block' = [block EXCEPT ![p] = n]
  /\ view' = [view EXCEPT ![p] = history[n]]
  /\ UNCHANGED history

MirrorNext == Extend \/ \E p \in Proxies : \E n \in 1..Len(history) : Show(p, n)

MirrorSpec == MirrorInit /\ [][MirrorNext]_mirrorVars

=============================================================================
