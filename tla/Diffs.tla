------------------------------- MODULE Diffs -------------------------------
(***************************************************************************)
(* The three ways DiffHandler compares two states of a contract, as        *)
(* operators on storages.  A storage is a function from slots to words,    *)
(* its keys, what getAllKeys lists, are the slots that are not Empty.  A   *)
(* difference is a slot and its kind.                                      *)
(***************************************************************************)
EXTENDS Integers, Sequences

CONSTANTS Keys, Empty

KeysOf(storage) == {k \in Keys : storage[k] # Empty}

DiffKind == {"Add", "Remove", "Change"}
OfKind(kind, ks) == {[kind |-> kind, key |-> k] : k \in ks}

\* StorageDiff.getKeys
GetKeys(diffs) == {d.key : d \in diffs}

\* Mutant: common keys stay in toKeys.
DiffWithoutSplice(from, to) ==
  LET fromKeys == KeysOf(from)
      toKeys == KeysOf(to)
  IN  OfKind("Change", {k \in fromKeys \cap toKeys : from[k] # to[k]})
        \cup OfKind("Remove", fromKeys \ toKeys)
        \cup OfKind("Add", toKeys)

\* getDiffFromStorage and getDiffFromStorageModified: the loop over the keys of
\* from takes the keys found out of toKeys, what is left of toKeys was added.
DiffFromStorage(from, to) ==
  LET fromKeys == KeysOf(from)
      toKeys == KeysOf(to)
  IN  OfKind("Change", {k \in fromKeys \cap toKeys : from[k] # to[k]})
        \cup OfKind("Remove", fromKeys \ toKeys)
        \cup OfKind("Add", toKeys \ fromKeys)

\* getDiffFromProof: the loop goes over the new keys, what is left of the old
\* proof was removed.
DiffFromProof(old, new) ==
  LET oldKeys == KeysOf(old)
      newKeys == KeysOf(new)
  IN  OfKind("Change", {k \in newKeys : k \in oldKeys /\ old[k] # new[k]})
        \cup OfKind("Add", newKeys \ oldKeys)
        \cup OfKind("Remove", oldKeys \ newKeys)

\* replayTransaction: the slots the transaction that led from before to after
\* changed, those it set for the first time included.
Replayed(before, after) == {k \in Keys : before[k] # after[k]}

\* changedStorage: the last value each slot was given after base, up to last, by
\* the transactions in done, those that could be replayed.
ChangedStorage(history, base, last, done) ==
  LET writes(k) == {n \in done : base < n /\ n <= last
                                   /\ k \in Replayed(history[n - 1], history[n])}
      changed == {k \in Keys : writes(k) # {}}
  IN  [k \in changed |-> history[CHOOSE n \in writes(k) : \A i \in writes(k) : i <= n][k]]

\* Mutant: a replay starts with the second block after the base.
DiffFromLaterTxs(history, base, last, done) ==
  LET changed == ChangedStorage(history, base + 1, last, done)
      newKeys == DOMAIN changed
      oldKeys == KeysOf(history[base])
  IN  OfKind("Add", newKeys \ oldKeys)
        \cup OfKind("Change", {k \in newKeys \cap oldKeys :
                               changed[k] # Empty /\ changed[k] # history[base][k]})
        \cup OfKind("Remove", {k \in newKeys \cap oldKeys : changed[k] = Empty})

\* getDiffFromSrcContractTxs.  A slot that is not a key of the base counts as
\* added whatever its value; another one counts unless it has its old value.
DiffFromTxs(history, base, last, done) ==
  LET changed == ChangedStorage(history, base, last, done)
      newKeys == DOMAIN changed
      oldKeys == KeysOf(history[base])
  IN  OfKind("Add", newKeys \ oldKeys)
        \cup OfKind("Change", {k \in newKeys \cap oldKeys :
                               changed[k] # Empty /\ changed[k] # history[base][k]})
        \cup OfKind("Remove", {k \in newKeys \cap oldKeys : changed[k] = Empty})

=============================================================================
