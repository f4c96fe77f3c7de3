-------------------------- MODULE Synchronization --------------------------
(***************************************************************************)
(* The continuous-synch command on top of RelayProxy: cron starts a run    *)
(* whenever the period is over, whether or not the runs before it have     *)
(* ended, and all runs share the command's options and one account.  The   *)
(* synchronize command is a single run.                                    *)
(*                                                                         *)
(* Abstractions.  The transactions of a source block are replayed as one.  *)
(* Of the target chain only the storage at the start of the command and    *)
(* the current one are ever read; its blocks in between are left out.  The *)
(* account's transactions are executed in the order of their nonces.       *)
(***************************************************************************)
EXTENDS RelayProxy

INSTANCE Diffs  \* over the Keys and Empty of RelayProxy

CONSTANTS
  Proxy,            \* the proxy that is synchronised
  Runs,             \* the cron callbacks that may overlap
  InterfaceMatches, \* whether the client's call reaches updateStorage
  MaxFaults,        \* bound: failures of RPC calls, those of one diff counted as one
  MaxPending        \* bound: transactions of the account that are not executed yet

\* Who waits for a transaction that nobody waits for.
Nobody == "nobody"

ASSUME SynchAssumption ==
  /\ Proxy \in Wired
  /\ Nobody \notin Runs
  /\ InterfaceMatches \in BOOLEAN
  /\ MaxFaults \in Nat
  /\ MaxPending \in Nat \ {0}
  /\ MaxTgtBlock >= 2

VARIABLES
  options,     \* adjustedOptions: diffMode, and srcBlocknr and targetBlocknr, 0 for 'latest'
  run,         \* the local state of every run
  mempool,     \* the account's submitted, not yet executed transactions
  faults       \* failures of RPC calls so far

synchVars == <<srcChain, tgtChain, srcContractStateRoots, latestBlockNr,
               proxyStorageInfos, proxyStorage, options, run, mempool, faults>>

Idle == [pc |-> "idle", srcArg |-> 0, targetArg |-> 0, base |-> 0, changed |-> {},
         syncTo |-> 0, header |-> 0, proof |-> 0, synchronized |-> FALSE]

Fault == faults < MaxFaults /\ faults' = faults + 1
Submit(tx) == Len(mempool) < MaxPending /\ mempool' = Append(mempool, tx)

\* Where run r is, and its locals after a step of it.
At(r, place) == run[r].pc = place
Becomes(r, locals) == run' = [run EXCEPT ![r] = locals]

\* toBlockNumber against the source chain
SrcNumber(n) == IF n = 0 THEN Len(srcChain) ELSE n

-----------------------------------------------------------------------------
(***************************************************************************)
(* The command starts on a proxy forked at source block 1.                 *)
(***************************************************************************)
SynchInit ==
  /\ \E s \in Storage :
       /\ srcChain = <<s>>
       /\ tgtChain = <<[p \in Proxies |-> EmptyStorage], [p \in Proxies |-> s]>>
       /\ srcContractStateRoots = [n \in Numbers |-> IF n = 1 THEN 1 ELSE NoBlock]
       /\ latestBlockNr = 1
       /\ proxyStorageInfos = [p \in Proxies |->
            [storageRoot |-> s, migrationState |-> TRUE, blockNumber |-> 1]]
       /\ proxyStorage = [p \in Proxies |-> s]
  /\ options \in {[diffMode |-> "srcTx", srcBlocknr |-> 2, targetBlocknr |-> 1],
                  [diffMode |-> "storage", srcBlocknr |-> 2, targetBlocknr |-> 2],
                  [diffMode |-> "getProof", srcBlocknr |-> 2, targetBlocknr |-> 2]}
  /\ run = [r \in Runs |-> Idle]
  /\ mempool = <<>>
  /\ faults = 0

\* The call of getDiff reads the options.
Fire(r) ==
  /\ At(r, "idle")
  /\ Becomes(r, [run[r] EXCEPT !.pc = "base", !.srcArg = options.srcBlocknr,
                               !.targetArg = options.targetBlocknr])
  /\ UNCHANGED <<vars, options, mempool, faults>>

\* getDiff: the base is the first block after the one the relay has on record, in
\* mode storage it is the source block of the option.
ReadBase(r) ==
  /\ At(r, "base")
  /\ LET base == IF options.diffMode = "storage" THEN SrcNumber(run[r].srcArg)
                 ELSE proxyStorageInfos[Proxy].blockNumber + 1
     IN  Becomes(r, [run[r] EXCEPT !.pc = "diff", !.base = base])
  /\ UNCHANGED <<vars, options, mempool, faults>>

\* The proxy's storage in target block t, 0 being 'latest'.
ProxyAt(t) == (IF t = 0 THEN proxyStorage ELSE tgtChain[t])[Proxy]

\* What the diff finds that starts at block b of the source and goes to block t of
\* the source in mode srcTx, of the target in the others.
Changes(b, t, lost) ==
  CASE options.diffMode = "srcTx" ->
         GetKeys(DiffFromTxs(srcChain, b - 1, t, DOMAIN srcChain \ lost))
    [] options.diffMode = "storage" -> GetKeys(DiffFromStorage(srcChain[b], ProxyAt(t)))
    [] options.diffMode = "getProof" -> GetKeys(DiffFromProof(srcChain[b], ProxyAt(t)))

\* The diff, and as soon as it is there migrateChangesToProxy is called with the
\* option as it is now.  replayTransaction swallows a failing RPC call, and
\* processParameters one for the number of a block: there is no difference then.
Diff(r) ==
  /\ At(r, "diff")
  /\ options.diffMode # "srcTx" => run[r].base <= Len(srcChain)
  /\ \E changed \in SUBSET Keys :
       /\ \/ /\ changed = Changes(run[r].base, run[r].targetArg, {})
             /\ UNCHANGED faults
          \/ /\ \/ /\ options.diffMode = "srcTx"
                   /\ \E lost \in SUBSET DOMAIN srcChain :
                        changed = Changes(run[r].base, run[r].targetArg, lost)
                \/ /\ options.diffMode # "srcTx" /\ 0 \in {run[r].srcArg, run[r].targetArg}
                   /\ changed = {}
             /\ Fault
       /\ Becomes(r, [run[r] EXCEPT !.pc = "header", !.changed = changed,
                                    !.syncTo = IF options.diffMode = "srcTx"
                                               THEN options.targetBlocknr ELSE options.srcBlocknr])
  /\ UNCHANGED <<vars, options, mempool>>

-----------------------------------------------------------------------------
(***************************************************************************)
(* migrateChangesToProxy.                                                  *)
(***************************************************************************)
NothingToDo(r) ==
  /\ At(r, "header") /\ run[r].changed = {}
  /\ Becomes(r, [run[r] EXCEPT !.pc = "options", !.synchronized = TRUE])
  /\ UNCHANGED <<vars, options, mempool, faults>>

\* Mutant: the header of the block after.
ReadNextHeader(r) ==
  /\ At(r, "header") /\ run[r].changed # {}
  /\ Becomes(r, [run[r] EXCEPT !.pc = "proof", !.header = SrcNumber(run[r].syncTo) + 1])
  /\ UNCHANGED <<vars, options, mempool, faults>>

ReadHeader(r) ==
  /\ At(r, "header") /\ run[r].changed # {}
  /\ SrcNumber(run[r].syncTo) <= Len(srcChain)
  /\ Becomes(r, [run[r] EXCEPT !.pc = "proof", !.header = SrcNumber(run[r].syncTo)])
  /\ UNCHANGED <<vars, options, mempool, faults>>

ReadProof(r) ==
  /\ At(r, "proof")
  /\ Becomes(r, [run[r] EXCEPT !.pc = "addBlock", !.proof = SrcNumber(run[r].syncTo)])
  /\ UNCHANGED <<vars, options, mempool, faults>>

\* The submission of addBlock is awaited, its receipt is not.
SubmitAddBlock(r) ==
  /\ At(r, "addBlock") /\ Becomes(r, [run[r] EXCEPT !.pc = "update"])
  /\ Submit([kind |-> "addBlock", by |-> Nobody, number |-> run[r].header])
  /\ UNCHANGED <<vars, options, faults>>

SubmitUpdate(r) ==
  /\ At(r, "update") /\ Becomes(r, [run[r] EXCEPT !.pc = "wait"])
  /\ Submit([kind |-> "updateStorage", by |-> r, proof |-> run[r].proof, slots |-> run[r].changed])
  /\ UNCHANGED <<vars, options, faults>>

\* Mutant: the target block stays the one the command started with.
TargetStays(r) ==
  /\ At(r, "options")
  /\ Becomes(r, Idle)
  /\ options' = [options EXCEPT !.srcBlocknr =
       IF options.diffMode = "srcTx" THEN proxyStorageInfos[Proxy].blockNumber + 1 ELSE @]
  /\ UNCHANGED <<vars, mempool, faults>>

\* The end of the callback, which a failed update reaches as well.
UpdateOptions(r) ==
  /\ At(r, "options")
  /\ Becomes(r, Idle)
  /\ options' =
       IF options.diffMode = "srcTx"
       THEN [options EXCEPT !.srcBlocknr = proxyStorageInfos[Proxy].blockNumber + 1,
                            !.targetBlocknr = Len(srcChain)]
       ELSE [options EXCEPT !.srcBlocknr = 0, !.targetBlocknr = 0]
  /\ UNCHANGED <<vars, mempool, faults>>

\* A block that is not there yet, or an RPC call that fails, ends the callback
\* before the options are updated; node-cron reports it and goes on.  A failing
\* updateStorage is caught; the transaction nobody waits for any more stays.
RpcFails(r) ==
  \/ /\ \/ /\ run[r].pc = "diff" /\ options.diffMode # "srcTx" /\ run[r].base > Len(srcChain)
           /\ UNCHANGED faults
        \/ Fault /\ run[r].pc \in {"base", "diff", "header", "proof", "addBlock", "options"}
     /\ Becomes(r, Idle)
     /\ UNCHANGED <<vars, options, mempool>>
  \/ /\ Fault
     /\ At(r, "update") /\ Becomes(r, [run[r] EXCEPT !.pc = "options"])
     /\ UNCHANGED <<vars, options, mempool>>
  \/ /\ Fault
     /\ At(r, "wait") /\ Becomes(r, [run[r] EXCEPT !.pc = "options"])
     /\ mempool' = [i \in DOMAIN mempool |->
          IF mempool[i].by = r THEN [mempool[i] EXCEPT !.by = Nobody] ELSE mempool[i]]
     /\ UNCHANGED <<vars, options>>

Step(r) ==
  \/ Fire(r) \/ ReadBase(r) \/ Diff(r)
  \/ NothingToDo(r) \/ ReadHeader(r) \/ ReadProof(r) \/ SubmitAddBlock(r) \/ SubmitUpdate(r)
  \/ UpdateOptions(r)

-----------------------------------------------------------------------------
(***************************************************************************)
(* The target chain.                                                       *)
(***************************************************************************)
\* The run that waits for it, if any, gets the receipt of an update.
Receipt(tx, ok) ==
  run' = IF tx.by = Nobody THEN run
         ELSE [run EXCEPT ![tx.by].pc = "options", ![tx.by].synchronized = ok]

\* A call of a function ProxyContract does not have runs into its fallback,
\* which refuses anything but static calls.
UpdateSucceeds(tx) == InterfaceMatches /\ VerifyProof(tx.proof, LatestStateRoot)

Execute ==
  /\ mempool # <<>>
  /\ mempool' = Tail(mempool)
  /\ LET tx == Head(mempool)
     IN  \/ /\ tx.kind = "addBlock"
            /\ tx.number \in 1..Len(srcChain) /\ AddBlock(tx.number, tx.number)
            /\ UNCHANGED run
         \/ /\ tx.kind = "updateStorage" /\ InterfaceMatches
            /\ tx.proof \in 1..Len(srcChain)
            /\ UpdateStorage(Proxy, tx.proof, srcChain[tx.proof], tx.slots)
            /\ Receipt(tx, TRUE)
         \/ /\ tx.kind = "updateStorage" /\ ~UpdateSucceeds(tx)
            /\ Receipt(tx, FALSE)
            /\ UNCHANGED vars
  /\ UNCHANGED <<options, faults>>

SynchNext ==
  \/ \E r \in Runs : Step(r) \/ RpcFails(r)
  \/ Execute
  \/ SourceBlock /\ UNCHANGED <<options, run, mempool, faults>>

\* Cron fires every run again and again, a run goes on, and the target chain
\* executes what it is sent.
SynchFairness ==
  /\ \A r \in Runs : WF_synchVars(Step(r) \/ RpcFails(r))
  /\ WF_synchVars(Execute)

SynchSpec == SynchInit /\ [][SynchNext]_synchVars /\ SynchFairness

-----------------------------------------------------------------------------
(***************************************************************************)
(* Properties.                                                             *)
(***************************************************************************)
\* The type invariant: a run submits only proofs of blocks the source has.
SynchTypeOK ==
  /\ TypeOK
  /\ \A r \in Runs :
       /\ run[r].changed \subseteq Keys
       /\ {run[r].header, run[r].proof} \subseteq 0..Len(srcChain)
       /\ run[r].pc \in {"idle", "base", "diff", "header", "proof", "addBlock",
                         "update", "wait", "options"}

\* However runs overlap, the keys a run reports as synchronised are not taken
\* back to an older block by another run: updateStorage accepts a proof against
\* the newest root only.
SuccessIsNotUndone ==
  \A r \in Runs : run[r].pc = "options" /\ run[r].synchronized =>
    \A k \in run[r].changed : \E n \in run[r].proof..Len(srcChain) :
      proxyStorage[Proxy][k] = srcChain[n][k]

\* updateStorage checks none of the words it writes (the run unchecked_words).  What
\* the runs have it write are all the same the source's words in the newest block the
\* relay knows, although other runs add blocks between the reading of a proof and its
\* transaction: words and account proof are one answer of the node, and the account
\* proof of an older block is refused.
WritesAreOfNewestBlock ==
  [][\A k \in Keys : proxyStorage'[Proxy][k] # proxyStorage[Proxy][k] =>
       /\ latestBlockNr \in 1..Len(srcChain)
       /\ proxyStorage'[Proxy][k] = srcChain[latestBlockNr][k]]_synchVars

LatestStorage == srcChain[Len(srcChain)]

\* A slot that had a value in the forked block, lost it and got it back.
CameBack(k) ==
  /\ srcChain[1][k] # Empty /\ LatestStorage[k] = srcChain[1][k]
  /\ \E n \in 1..Len(srcChain) : srcChain[n][k] # srcChain[1][k]

\* In mode srcTx, when the source contract comes to rest the runs bring every slot of the
\* proxy to its value, except one that came back to its value in the forked
\* block: the relay's record stays at that block, and the diff against it no
\* longer shows the slot.
ChangesReachProxy ==
  options.diffMode = "srcTx" => <>[](\A k \in Keys : proxyStorage[Proxy][k] = LatestStorage[k] \/ CameBack(k))

\* In mode storage, which compares with the proxy itself, there is no exception.  In
\* mode getProof the changes up to the block after the recorded one arrive, and of
\* a slot that differs from there the latest value.
ProxyFollowsSource ==
  /\ options.diffMode = "storage" => <>[](proxyStorage[Proxy] = LatestStorage)
  /\ options.diffMode = "getProof" =>
       <>[](\A k \in Keys : proxyStorage[Proxy][k] \in {srcChain[n][k] : n \in DOMAIN srcChain \cap {2}}
                                                     \cup {LatestStorage[k]})

=============================================================================
