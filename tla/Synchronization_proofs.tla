----------------------- MODULE Synchronization_proofs -----------------------
(***************************************************************************)
(* What overlapping runs of continuous-synch guarantee for every number of *)
(* runs, blocks and slots, and every RPC call that may fail.               *)
(***************************************************************************)
EXTENDS Synchronization, RelayProxy_proofs, SequenceTheorems

Places == {"idle", "base", "diff", "header", "proof", "addBlock", "update", "wait", "options"}

\* The locals of a run.
Locals ==
  [pc : Places, srcArg : Nat, targetArg : Nat, base : Nat, changed : SUBSET Keys, syncTo : Nat,
   header : Roots, proof : Roots, synchronized : BOOLEAN]

Options == [diffMode : {"srcTx", "storage", "getProof"}, srcBlocknr : Nat, targetBlocknr : Nat]

\* What the runs submit.
Txs ==
  [kind : {"addBlock"}, by : {Nobody}, number : SrcBlocks]
  \cup [kind : {"updateStorage"}, by : Runs \cup {Nobody}, proof : SrcBlocks, slots : SlotSets]

\* A run reads blocks that exist, and updates only when there is something to update.
ReadsBlocks(l) ==
  /\ {l.header, l.proof} \subseteq 0..Len(srcChain)
  /\ l.pc = "proof" => {l.header, SrcNumber(l.syncTo)} \subseteq 1..Len(srcChain)
  /\ l.pc \in {"addBlock", "update", "wait"} => {l.header, l.proof} \subseteq 1..Len(srcChain)
  /\ l.pc \in {"proof", "addBlock", "update", "wait"} => l.changed # {}

\* What a run reports as synchronised was so at a root the relay knows.
Arrived(r) ==
  run[r].synchronized =>
    /\ At(r, "options")
    /\ \A k \in run[r].changed :
         /\ run[r].proof \in 1..latestBlockNr
         /\ \E n \in run[r].proof..Len(srcChain) : proxyStorage[Proxy][k] = srcChain[n][k]

\* A run waits for at most one transaction, the one with what it has read.
WaitsForItsOwn ==
  /\ \A i \in DOMAIN mempool : mempool[i].by # Nobody =>
       /\ mempool[i].kind = "updateStorage"
       /\ At(mempool[i].by, "wait")
       /\ mempool[i].proof = run[mempool[i].by].proof
       /\ mempool[i].slots = run[mempool[i].by].changed
  /\ \A i, j \in DOMAIN mempool : mempool[i].by # Nobody /\ mempool[i].by = mempool[j].by => i = j

\* The inductive invariant.
SynchInv ==
  /\ IInv
  /\ options \in Options
  /\ run \in [Runs -> Locals]
  /\ mempool \in Seq(Txs)
  /\ \A r \in Runs : ReadsBlocks(run[r]) /\ Arrived(r)
  /\ WaitsForItsOwn

-----------------------------------------------------------------------------
(***************************************************************************)
(* The steps of a run.                                                     *)
(***************************************************************************)
\* The numbers a run works with are those of blocks, or one more.
LEMMA BlocksExist ==
  ASSUME SynchInv
  PROVE  /\ Len(srcChain) \in SrcBlocks /\ Len(srcChain) \in Nat \ {0}
         /\ 1..Len(srcChain) \subseteq SrcBlocks /\ 0..Len(srcChain) \subseteq Roots
         /\ proxyStorageInfos[Proxy].blockNumber \in Nat
         /\ \A n \in Nat : SrcNumber(n) \in Nat
<1>1. TypeOK
  BY DEF SynchInv, IInv
<1>2. Len(srcChain) \in SrcBlocks /\ Len(srcChain) \in Nat \ {0} /\ Len(srcChain) <= MaxSrcBlock
  BY <1>1, ConstantsAssumption DEF ConstantsAssumption, TypeOK, SrcBlocks
<1>3. 1..Len(srcChain) \subseteq SrcBlocks /\ 0..Len(srcChain) \subseteq Roots
  BY <1>2, ConstantsAssumption DEF ConstantsAssumption, SrcBlocks, Roots
<1>4. proxyStorageInfos[Proxy].blockNumber \in Nat
  <2>1. Proxy \in Proxies
    BY ConstantsAssumption, SynchAssumption DEF ConstantsAssumption, SynchAssumption
  <2>2. proxyStorageInfos[Proxy] \in ProxyContractInfo
    BY <1>1, <2>1 DEF TypeOK
  <2>. QED
    BY <2>2 DEF ProxyContractInfo, Numbers
<1>. QED
  BY <1>2, <1>3, <1>4 DEF SrcNumber

\* The locals a run starts with.
LEMMA IdleLocals == Idle \in Locals
BY ConstantsAssumption DEF Idle, Locals, Places, Roots, ConstantsAssumption

\* After a step of it a run has read blocks that exist, and reports only an empty diff
\* as synchronised.
LEMMA StepLocals ==
  ASSUME SynchInv, NEW r \in Runs, Step(r) \/ RpcFails(r)
  PROVE  \E l \in Locals :
           /\ Becomes(r, l) /\ ReadsBlocks(l)
           /\ l.synchronized => l.pc = "options" /\ l.changed = {}
<1> DEFINE good(l) == /\ l \in Locals /\ ReadsBlocks(l)
                      /\ l.synchronized => l.pc = "options" /\ l.changed = {}
<1>l. run[r] \in Locals /\ ReadsBlocks(run[r]) /\ (run[r].synchronized => run[r].pc = "options")
  BY DEF SynchInv, Arrived, At
<1>i. good(Idle)
  BY IdleLocals, BlocksExist DEF Idle, ReadsBlocks
<1>1. CASE Fire(r)
  <2>1. options.srcBlocknr \in Nat /\ options.targetBlocknr \in Nat
    BY DEF SynchInv, Options
  <2>2. run[r].pc = "idle"
    BY <1>1 DEF Fire, At
  <2>3. good([run[r] EXCEPT !.pc = "base", !.srcArg = options.srcBlocknr,
                            !.targetArg = options.targetBlocknr])
    BY <1>l, <2>1, <2>2 DEF Locals, Places, ReadsBlocks
  <2>. QED
    BY <1>1, <2>3 DEF Fire
<1>2. CASE ReadBase(r)
  <2>1. PICK base : Becomes(r, [run[r] EXCEPT !.pc = "diff", !.base = base])
                    /\ (base = SrcNumber(run[r].srcArg) \/ base = proxyStorageInfos[Proxy].blockNumber + 1)
    BY <1>2 DEF ReadBase
  <2>2. run[r].pc = "base"
    BY <1>2 DEF ReadBase, At
  <2>3. run[r].srcArg \in Nat
    BY <1>l DEF Locals
  <2>4. base \in Nat
    BY <2>1, <2>3, BlocksExist
  <2>5. good([run[r] EXCEPT !.pc = "diff", !.base = base])
    BY <1>l, <2>2, <2>4 DEF Locals, Places, ReadsBlocks
  <2>. QED
    BY <2>1, <2>5
<1>3. CASE Diff(r)
  <2>1. options.srcBlocknr \in Nat /\ options.targetBlocknr \in Nat
    BY DEF SynchInv, Options
  <2>2. PICK changed \in SUBSET Keys :
          Becomes(r, [run[r] EXCEPT !.pc = "header", !.changed = changed,
                                    !.syncTo = IF options.diffMode = "srcTx"
                                               THEN options.targetBlocknr ELSE options.srcBlocknr])
    BY <1>3 DEF Diff
  <2>3. run[r].pc = "diff"
    BY <1>3 DEF Diff, At
  <2>4. ASSUME NEW n \in Nat
        PROVE  good([run[r] EXCEPT !.pc = "header", !.changed = changed, !.syncTo = n])
    BY <1>l, <2>3 DEF Locals, Places, ReadsBlocks
  <2>5. good([run[r] EXCEPT !.pc = "header", !.changed = changed,
                            !.syncTo = IF options.diffMode = "srcTx"
                                       THEN options.targetBlocknr ELSE options.srcBlocknr])
    BY <2>1, <2>4
  <2>. QED
    BY <2>2, <2>5
<1>4. CASE NothingToDo(r)
  <2>1. run[r].changed = {} /\ run[r].pc = "header"
    BY <1>4 DEF NothingToDo, At
  <2>2. good([run[r] EXCEPT !.pc = "options", !.synchronized = TRUE])
    BY <1>l, <2>1 DEF Locals, Places, ReadsBlocks
  <2>. QED
    BY <1>4, <2>2 DEF NothingToDo
<1>5. CASE ReadHeader(r)
  <2>1. run[r].changed # {} /\ run[r].pc = "header" /\ SrcNumber(run[r].syncTo) <= Len(srcChain)
    BY <1>5 DEF ReadHeader, At
  <2>2. run[r].syncTo \in Nat
    BY <1>l DEF Locals
  <2>3. SrcNumber(run[r].syncTo) \in 1..Len(srcChain)
    BY <2>1, <2>2, BlocksExist DEF SrcNumber
  <2>4. ASSUME NEW n \in Roots PROVE [run[r] EXCEPT !.pc = "proof", !.header = n] \in Locals
    BY <1>l DEF Locals, Places
  <2>5. ASSUME NEW n \in 1..Len(srcChain), SrcNumber(run[r].syncTo) \in 1..Len(srcChain)
        PROVE  ReadsBlocks([run[r] EXCEPT !.pc = "proof", !.header = n])
    BY <1>l, <2>1, <2>5, BlocksExist DEF ReadsBlocks, Locals
  <2>6. ASSUME NEW n PROVE ~[run[r] EXCEPT !.pc = "proof", !.header = n].synchronized
    BY <1>l, <2>1 DEF Locals
  <2>7. SrcNumber(run[r].syncTo) \in Roots
    BY <2>3, BlocksExist
  <2>8. good([run[r] EXCEPT !.pc = "proof", !.header = SrcNumber(run[r].syncTo)])
    BY <2>3, <2>4, <2>5, <2>6, <2>7, Zenon
  <2>. QED
    BY <1>5, <2>8 DEF ReadHeader
<1>6. CASE ReadProof(r)
  <2>1. run[r].pc = "proof"
    BY <1>6 DEF ReadProof, At
  <2>2. {run[r].header, SrcNumber(run[r].syncTo)} \subseteq 1..Len(srcChain)
    BY <1>l, <2>1 DEF ReadsBlocks
  <2>3. ASSUME NEW n \in Roots PROVE [run[r] EXCEPT !.pc = "addBlock", !.proof = n] \in Locals
    BY <1>l DEF Locals, Places
  <2>4. ASSUME NEW n \in 1..Len(srcChain), run[r].header \in 1..Len(srcChain)
        PROVE  ReadsBlocks([run[r] EXCEPT !.pc = "addBlock", !.proof = n])
    BY <1>l, <2>1, <2>4, BlocksExist DEF ReadsBlocks, Locals
  <2>5. ASSUME NEW n PROVE ~[run[r] EXCEPT !.pc = "addBlock", !.proof = n].synchronized
    BY <1>l, <2>1 DEF Locals
  <2>6. SrcNumber(run[r].syncTo) \in Roots /\ SrcNumber(run[r].syncTo) \in 1..Len(srcChain)
    BY <2>2, BlocksExist
  <2>7. good([run[r] EXCEPT !.pc = "addBlock", !.proof = SrcNumber(run[r].syncTo)])
    BY <2>2, <2>3, <2>4, <2>5, <2>6, Zenon
  <2>. QED
    BY <1>6, <2>7 DEF ReadProof
<1>7. CASE SubmitAddBlock(r)
  <2>1. run[r].pc = "addBlock"
    BY <1>7 DEF SubmitAddBlock, At
  <2>2. good([run[r] EXCEPT !.pc = "update"])
    BY <1>l, <2>1 DEF Locals, Places, ReadsBlocks
  <2>. QED
    BY <1>7, <2>2 DEF SubmitAddBlock
<1>8. CASE SubmitUpdate(r)
  <2>1. run[r].pc = "update"
    BY <1>8 DEF SubmitUpdate, At
  <2>2. good([run[r] EXCEPT !.pc = "wait"])
    BY <1>l, <2>1 DEF Locals, Places, ReadsBlocks
  <2>. QED
    BY <1>8, <2>2 DEF SubmitUpdate
<1>9. CASE Becomes(r, Idle)
  BY <1>9, <1>i
<1>10. CASE run[r].pc \in {"update", "wait"} /\ Becomes(r, [run[r] EXCEPT !.pc = "options"])
  <2>1. good([run[r] EXCEPT !.pc = "options"])
    BY <1>l, <1>10 DEF Locals, Places, ReadsBlocks
  <2>. QED
    BY <1>10, <2>1
<1>. QED
  BY <1>1, <1>2, <1>3, <1>4, <1>5, <1>6, <1>7, <1>8, <1>9, <1>10
     DEF Step, UpdateOptions, RpcFails, At

\* Only the locals of the run that makes the step change.
LEMMA BecomesLocals ==
  ASSUME run \in [Runs -> Locals], NEW r \in Runs, NEW l \in Locals, Becomes(r, l)
  PROVE  /\ run' \in [Runs -> Locals]
         /\ run'[r] = l
         /\ \A q \in Runs : q # r => run'[q] = run[q]
BY DEF Becomes

\* A step of a run changes nothing of the contracts.
LEMMA StepLeaves ==
  ASSUME SynchInv, NEW r \in Runs, Step(r) \/ RpcFails(r)
  PROVE  UNCHANGED vars /\ options' \in Options
<1>1. CASE UpdateOptions(r)
  <2>1. UNCHANGED vars
    BY <1>1 DEF UpdateOptions
  <2>2. proxyStorageInfos[Proxy].blockNumber + 1 \in Nat /\ Len(srcChain) \in Nat
    <3>1. proxyStorageInfos[Proxy].blockNumber \in Nat /\ Len(srcChain) \in Nat \ {0}
      BY BlocksExist, Zenon
    <3>. QED
      BY <3>1
  <2>3. ASSUME NEW m \in Nat, NEW n \in Nat
        PROVE  [options EXCEPT !.srcBlocknr = m, !.targetBlocknr = n] \in Options
    BY DEF SynchInv, Options
  <2>4. \E m, n \in Nat : options' = [options EXCEPT !.srcBlocknr = m, !.targetBlocknr = n]
    BY <1>1, <2>2 DEF UpdateOptions
  <2>. QED
    BY <2>1, <2>3, <2>4
<1>2. CASE UNCHANGED <<vars, options>>
  BY <1>2 DEF SynchInv
<1>. QED
  BY <1>1, <1>2 DEF Step, RpcFails, Fire, ReadBase, Diff, NothingToDo, ReadHeader, ReadProof,
     SubmitAddBlock, SubmitUpdate

\* A step of a run submits what it has read, or gives up waiting.
LEMMA StepMempool ==
  ASSUME SynchInv, NEW r \in Runs, Step(r) \/ RpcFails(r)
  PROVE  mempool' \in Seq(Txs) /\ WaitsForItsOwn'
<1>1. PICK l \in Locals : Becomes(r, l)
  BY StepLocals
<1>2. /\ run \in [Runs -> Locals] /\ run' \in [Runs -> Locals] /\ run'[r] = l
      /\ \A q \in Runs : q # r => run'[q] = run[q]
  BY <1>1, BecomesLocals DEF SynchInv
<1>3. \A i \in DOMAIN mempool : mempool[i] \in Txs /\ mempool[i].by \in Runs \cup {Nobody}
  BY DEF SynchInv, Txs
<1>n. Nobody \notin Runs
  BY SynchAssumption DEF SynchAssumption
<1>4. CASE mempool' = mempool /\ ~At(r, "wait")
  <2>1. \A i \in DOMAIN mempool : mempool[i].by # r
    BY <1>4, <1>n DEF SynchInv, WaitsForItsOwn
  <2>. QED
    BY <1>2, <1>3, <1>4, <2>1 DEF SynchInv, WaitsForItsOwn, At
<1>5. CASE SubmitAddBlock(r)
  <2> DEFINE tx == [kind |-> "addBlock", by |-> Nobody, number |-> run[r].header]
  <2>1. run[r].pc = "addBlock" /\ mempool' = Append(mempool, tx)
    BY <1>5 DEF SubmitAddBlock, At, Submit
  <2>2. tx \in Txs
    <3>1. run[r].header \in SrcBlocks
      BY <2>1, BlocksExist DEF SynchInv, ReadsBlocks
    <3>. QED
      BY <3>1 DEF Txs
  <2>3. /\ mempool \in Seq(Txs) /\ mempool' \in Seq(Txs)
        /\ DOMAIN mempool' = DOMAIN mempool \cup {Len(mempool) + 1}
        /\ mempool'[Len(mempool) + 1].by = Nobody
        /\ \A i \in DOMAIN mempool : mempool'[i] = mempool[i]
    BY <2>1, <2>2 DEF SynchInv
  <2>4. \A i \in DOMAIN mempool : mempool[i].by # r
    BY <1>n, <2>1 DEF SynchInv, WaitsForItsOwn, At
  <2>. QED
    BY <1>2, <1>3, <2>3, <2>4 DEF SynchInv, WaitsForItsOwn, At
<1>6. CASE SubmitUpdate(r)
  <2> DEFINE tx == [kind |-> "updateStorage", by |-> r, proof |-> run[r].proof,
                    slots |-> run[r].changed]
  <2>1. /\ run[r].pc = "update" /\ mempool' = Append(mempool, tx)
        /\ Becomes(r, [run[r] EXCEPT !.pc = "wait"])
    BY <1>6 DEF SubmitUpdate, At, Submit
  <2>2. tx \in Txs
    <3>1. run[r].proof \in SrcBlocks
      BY <2>1, BlocksExist DEF SynchInv, ReadsBlocks
    <3>2. run[r].changed \in SlotSets
      BY <2>1 DEF SynchInv, ReadsBlocks, SlotSets, Locals
    <3>. QED
      BY <3>1, <3>2 DEF Txs
  <2>3. /\ mempool \in Seq(Txs) /\ mempool' \in Seq(Txs)
        /\ DOMAIN mempool' = DOMAIN mempool \cup {Len(mempool) + 1}
        /\ mempool'[Len(mempool) + 1] = tx
        /\ \A i \in DOMAIN mempool : mempool'[i] = mempool[i]
    BY <2>1, <2>2 DEF SynchInv
  <2>4. \A i \in DOMAIN mempool : mempool[i].by # r
    BY <1>n, <2>1 DEF SynchInv, WaitsForItsOwn, At
  <2>5. run'[r].pc = "wait" /\ run'[r].proof = run[r].proof /\ run'[r].changed = run[r].changed
    BY <1>2, <2>1 DEF Becomes, Locals
  <2>6. /\ tx.kind = "updateStorage" /\ tx.by = r
        /\ tx.proof = run'[r].proof /\ tx.slots = run'[r].changed
    BY <2>5
  <2>7. ASSUME NEW i \in DOMAIN mempool', mempool'[i].by # Nobody
        PROVE  /\ mempool'[i].kind = "updateStorage"
               /\ run'[mempool'[i].by].pc = "wait"
               /\ mempool'[i].proof = run'[mempool'[i].by].proof
               /\ mempool'[i].slots = run'[mempool'[i].by].changed
    <3>1. CASE i = Len(mempool) + 1
      BY <2>3, <2>5, <2>6, <3>1
    <3>2. CASE i \in DOMAIN mempool
      BY <1>2, <1>3, <2>3, <2>4, <2>7, <3>2 DEF SynchInv, WaitsForItsOwn, At
    <3>. QED
      BY <2>3, <3>1, <3>2
  <2>8. \A i, j \in DOMAIN mempool' :
          mempool'[i].by # Nobody /\ mempool'[i].by = mempool'[j].by => i = j
    BY <2>3, <2>4, <2>6 DEF SynchInv, WaitsForItsOwn
  <2>. QED
    BY <2>3, <2>7, <2>8 DEF WaitsForItsOwn, At
<1>7. CASE mempool' = [i \in DOMAIN mempool |->
             IF mempool[i].by = r THEN [mempool[i] EXCEPT !.by = Nobody] ELSE mempool[i]]
  <2>1. \A i \in DOMAIN mempool : mempool'[i] \in Txs
    <3>1. ASSUME NEW tx \in Txs PROVE [tx EXCEPT !.by = Nobody] \in Txs
      BY DEF Txs
    <3>. QED
      BY <1>3, <1>7, <3>1
  <2>2. DOMAIN mempool' = DOMAIN mempool /\ DOMAIN mempool = 1..Len(mempool) /\ Len(mempool) \in Nat
    BY <1>7 DEF SynchInv
  <2>3. mempool' \in [1..Len(mempool) -> Txs]
    BY <1>7, <2>1, <2>2
  <2>4. mempool' \in Seq(Txs)
    BY <2>2, <2>3, SeqDef
  <2>5. ASSUME NEW i \in DOMAIN mempool
        PROVE  \/ mempool'[i].by = Nobody
               \/ mempool'[i] = mempool[i] /\ mempool[i].by # r
    <3>1. ASSUME NEW tx \in Txs PROVE [tx EXCEPT !.by = Nobody].by = Nobody
      BY DEF Txs
    <3>. QED
      BY <1>3, <1>7, <3>1
  <2>. QED
    BY <1>2, <1>3, <2>2, <2>4, <2>5 DEF SynchInv, WaitsForItsOwn, At
<1>. QED
  BY <1>4, <1>5, <1>6, <1>7 DEF Step, RpcFails, Fire, ReadBase, Diff, NothingToDo, ReadHeader,
     ReadProof, UpdateOptions, At

\* A run's own step makes nothing synchronised but an empty diff.
LEMMA StepInv ==
  ASSUME SynchInv, NEW r \in Runs, Step(r) \/ RpcFails(r)
  PROVE  SynchInv'
<1>1. PICK l \in Locals : /\ Becomes(r, l) /\ ReadsBlocks(l)
                          /\ l.synchronized => l.pc = "options" /\ l.changed = {}
  BY StepLocals
<1>2. /\ run' \in [Runs -> Locals] /\ run'[r] = l
      /\ \A q \in Runs : q # r => run'[q] = run[q]
  <2>1. run \in [Runs -> Locals] /\ Becomes(r, l)
    BY <1>1 DEF SynchInv
  <2>. QED
    BY <2>1, BecomesLocals, Zenon
<1>3. UNCHANGED vars /\ options' \in Options
  BY StepLeaves
<1>4. IInv'
  BY <1>3, InvStep DEF SynchInv
<1>5. ASSUME NEW q \in Runs PROVE ReadsBlocks(run[q])' /\ Arrived(q)'
  <2>v. srcChain' = srcChain /\ latestBlockNr' = latestBlockNr /\ proxyStorage' = proxyStorage
    BY <1>3 DEF vars
  <2>1. CASE q = r
    <3>1. run'[q] = l
      BY <1>2, <2>1
    <3>2. ReadsBlocks(run[q])'
      BY <1>1, <2>v, <3>1 DEF ReadsBlocks, SrcNumber
    <3>3. Arrived(q)'
      BY <1>1, <3>1 DEF Arrived, At
    <3>. QED
      BY <3>2, <3>3
  <2>2. CASE q # r
    <3>1. run'[q] = run[q] /\ ReadsBlocks(run[q]) /\ Arrived(q)
      BY <1>2, <2>2 DEF SynchInv
    <3>. QED
      BY <2>v, <3>1 DEF ReadsBlocks, SrcNumber, Arrived, At
  <2>. QED
    BY <2>1, <2>2
<1>. QED
  BY <1>2, <1>3, <1>4, <1>5, StepMempool DEF SynchInv

-----------------------------------------------------------------------------
(***************************************************************************)
(* The steps of the two chains.                                            *)
(***************************************************************************)
\* They are steps of the contracts; a proxy is written by an update against the newest
\* root only, and the newest block never becomes an older one.
LEMMA ContractsStep ==
  ASSUME SynchInv, SynchNext
  PROVE  /\ [FedNext]_vars
         /\ latestBlockNr <= latestBlockNr'
         /\ \A n \in 1..Len(srcChain) : n \in 1..Len(srcChain') /\ srcChain'[n] = srcChain[n]
         /\ \/ UNCHANGED proxyStorage
            \/ /\ latestBlockNr' = latestBlockNr /\ srcChain' = srcChain
               /\ latestBlockNr \in 1..Len(srcChain)
               /\ \E ks \in SlotSets : proxyStorage' =
                    [proxyStorage EXCEPT ![Proxy] = Overlay(@, srcChain[latestBlockNr], ks)]
<1>t. TypeOK
  BY DEF SynchInv, IInv
<1>n. latestBlockNr \in Int
  BY <1>t DEF TypeOK, Numbers
<1>m. \A i \in DOMAIN mempool : mempool[i] \in Txs
  BY DEF SynchInv
<1>1. CASE UNCHANGED vars
  BY <1>1, <1>n DEF vars
<1>2. CASE SourceBlock
  BY <1>2, <1>n, <1>t DEF SourceBlock, rootVars, FedNext, OtherSteps, TypeOK
<1>3. CASE Execute
  <2> DEFINE tx == Head(mempool)
  <2>1. tx \in Txs
    BY <1>3, <1>m DEF Execute, SynchInv
  <2>2. CASE tx.kind = "addBlock" /\ AddBlock(tx.number, tx.number)
    <3>1. tx.number \in SrcBlocks
      BY <2>1, <2>2 DEF Txs
    <3>2. FedNext
      BY <2>2, <3>1 DEF FedNext
    <3>3. tx.number \in Int
      BY <3>1 DEF SrcBlocks
    <3>. QED
      BY <1>n, <2>2, <3>2, <3>3 DEF AddBlock, chainVars
  <2>3. CASE /\ tx.kind = "updateStorage" /\ tx.proof \in 1..Len(srcChain)
             /\ UpdateStorage(Proxy, tx.proof, srcChain[tx.proof], tx.slots)
    <3>1. tx.proof \in SrcBlocks /\ tx.slots \in SlotSets
      BY <2>1, <2>3 DEF Txs
    <3>2. Proxy \in Proxies
      BY ConstantsAssumption, SynchAssumption DEF ConstantsAssumption, SynchAssumption
    <3>3. FedNext
      <4>1. tx.proof \in Roots /\ srcChain[tx.proof] \in Storage
        BY <1>t, <2>3, <3>1, RootsAndNumbers DEF TypeOK
      <4>. QED
        BY <2>3, <3>1, <3>2, <4>1 DEF FedNext, OtherSteps
    <3>4. latestBlockNr = tx.proof
      \* the newest root is the proof's, and a root is of the block it is stored under
      <4>1. latestBlockNr \in Numbers /\ LatestStateRoot = tx.proof
        BY <1>t, <2>3 DEF TypeOK, UpdateStorage, VerifyProof
      <4>2. tx.proof # NoBlock
        BY <3>1 DEF SrcBlocks, NoBlock
      <4>. QED
        BY <4>1, <4>2 DEF SynchInv, IInv, StateRootIsOfItsBlock, LatestStateRoot
    <3>5. /\ latestBlockNr' = latestBlockNr /\ srcChain' = srcChain
          /\ latestBlockNr \in 1..Len(srcChain)
          /\ proxyStorage' =
               [proxyStorage EXCEPT ![Proxy] = Overlay(@, srcChain[latestBlockNr], tx.slots)]
      BY <2>3, <3>4 DEF UpdateStorage, chainVars, rootVars
    <3>6. \E ks \in SlotSets : proxyStorage' =
            [proxyStorage EXCEPT ![Proxy] = Overlay(@, srcChain[latestBlockNr], ks)]
      BY <3>1, <3>5, Zenon
    <3>7. latestBlockNr <= latestBlockNr'
      BY <1>n, <3>5
    <3>. QED
      BY <3>3, <3>5, <3>6, <3>7, Zenon
  <2>4. CASE UNCHANGED vars
    BY <1>1, <2>4
  <2>. QED
    BY <1>3, <2>2, <2>3, <2>4 DEF Execute
<1>. QED
  BY <1>1, <1>2, <1>3, StepLeaves DEF SynchNext

\* What has arrived stays: an update that is accepted carries the newest root, which is
\* no older than the root of any run that has succeeded.
LEMMA ArrivedStays ==
  ASSUME SynchInv, SynchNext, NEW r \in Runs, run'[r] = run[r]
  PROVE  Arrived(r)'
<1>a. CASE ~run[r].synchronized
  BY <1>a DEF Arrived
<1>b. CASE run[r].synchronized /\ run[r].changed = {}
  BY <1>b DEF SynchInv, Arrived, At
<1> SUFFICES ASSUME run[r].synchronized, NEW k \in run[r].changed
             PROVE  /\ At(r, "options")'
                    /\ run[r].proof \in 1..latestBlockNr'
                    /\ \E n \in run[r].proof..Len(srcChain') : proxyStorage'[Proxy][k] = srcChain'[n][k]
  BY <1>a, <1>b DEF Arrived, At
<1>t. TypeOK /\ TypeOK'
  BY ContractsStep, InvStep DEF SynchInv, IInv
<1>l. run[r].proof \in Nat /\ run[r].changed \subseteq Keys
  BY ConstantsAssumption DEF ConstantsAssumption, SynchInv, Locals, Roots
<1>i. latestBlockNr \in Int /\ latestBlockNr' \in Int /\ Len(srcChain) \in Nat /\ Len(srcChain') \in Nat
  BY <1>t DEF TypeOK, Numbers
<1>1. /\ At(r, "options") /\ run[r].proof \in 1..latestBlockNr
      /\ \E n \in run[r].proof..Len(srcChain) : proxyStorage[Proxy][k] = srcChain[n][k]
  BY DEF SynchInv, Arrived
<1>2. At(r, "options")' /\ run[r].proof \in 1..latestBlockNr'
  BY <1>1, <1>l, <1>i, ContractsStep DEF At
<1>3. CASE UNCHANGED proxyStorage
  <2>1. PICK n \in run[r].proof..Len(srcChain) : proxyStorage[Proxy][k] = srcChain[n][k]
    BY <1>1
  <2>2. n \in 1..Len(srcChain)
    BY <1>1, <1>i, <1>l, <2>1
  <2>3. n \in 1..Len(srcChain') /\ srcChain'[n] = srcChain[n]
    BY <2>2, ContractsStep
  <2>4. n \in run[r].proof..Len(srcChain')
    BY <1>i, <1>l, <2>1, <2>3
  <2>. QED
    BY <1>2, <1>3, <2>1, <2>3, <2>4
<1>4. CASE /\ latestBlockNr \in 1..Len(srcChain) /\ srcChain' = srcChain
           /\ \E ks \in SlotSets : proxyStorage' =
                [proxyStorage EXCEPT ![Proxy] = Overlay(@, srcChain[latestBlockNr], ks)]
  <2>1. PICK ks \in SlotSets : proxyStorage' =
             [proxyStorage EXCEPT ![Proxy] = Overlay(@, srcChain[latestBlockNr], ks)]
    BY <1>4
  <2>2. Proxy \in Proxies
    BY ConstantsAssumption, SynchAssumption DEF ConstantsAssumption, SynchAssumption
  <2>3. proxyStorage'[Proxy] = Overlay(proxyStorage[Proxy], srcChain[latestBlockNr], ks)
    BY <1>t, <2>1, <2>2 DEF TypeOK
  <2>4. proxyStorage'[Proxy][k] = IF k \in ks THEN srcChain[latestBlockNr][k] ELSE proxyStorage[Proxy][k]
    BY <1>l, <2>3 DEF Overlay
  <2>5. latestBlockNr \in run[r].proof..Len(srcChain')
    BY <1>1, <1>4, <1>i, <1>l
  <2>. QED
    BY <1>1, <1>2, <1>4, <2>4, <2>5
<1>. QED
  BY <1>3, <1>4, ContractsStep

\* The head of the queue takes effect: an accepted update has brought the slots it
\* names to the newest block the relay knows.
LEMMA ExecuteStep ==
  ASSUME SynchInv, Execute
  PROVE  /\ run' \in [Runs -> Locals]
         /\ mempool' \in Seq(Txs)
         /\ \A r \in Runs : ReadsBlocks(run[r])' /\ Arrived(r)'
         /\ WaitsForItsOwn'
<1> DEFINE tx == Head(mempool)
<1>m. /\ mempool \in Seq(Txs) /\ mempool # <<>> /\ mempool' = Tail(mempool)
      /\ run \in [Runs -> Locals] /\ tx \in Txs
  BY DEF Execute, SynchInv
<1>s. /\ 1 \in DOMAIN mempool /\ mempool[1] = tx /\ mempool' \in Seq(Txs)
      /\ \A i \in DOMAIN mempool' : i \in Nat /\ i + 1 \in DOMAIN mempool /\ i + 1 # 1
                                   /\ mempool'[i] = mempool[i + 1]
  BY <1>m
<1>c. UNCHANGED srcChain
  BY DEF Execute, AddBlock, UpdateStorage, chainVars, vars
<1>next. SynchNext
  BY DEF SynchNext
<1>n. Nobody \notin Runs
  BY SynchAssumption DEF SynchAssumption
<1>w. /\ \A i \in DOMAIN mempool' : mempool'[i].by # Nobody =>
           /\ mempool'[i].by # tx.by
           /\ mempool'[i].by \in Runs
           /\ mempool'[i].kind = "updateStorage"
           /\ run[mempool'[i].by].pc = "wait"
           /\ mempool'[i].proof = run[mempool'[i].by].proof
           /\ mempool'[i].slots = run[mempool'[i].by].changed
      /\ \A i, j \in DOMAIN mempool' :
           mempool'[i].by # Nobody /\ mempool'[i].by = mempool'[j].by => i = j
  <2>1. \A i \in DOMAIN mempool : mempool[i].by \in Runs \cup {Nobody}
    BY <1>m DEF Txs
  <2>2. \A i, j \in DOMAIN mempool : mempool[i].by # Nobody /\ mempool[i].by = mempool[j].by => i = j
    BY DEF SynchInv, WaitsForItsOwn
  <2>3. ASSUME NEW i \in DOMAIN mempool', mempool'[i].by # Nobody
        PROVE  mempool'[i].by # tx.by
    BY <1>s, <2>2, <2>3
  <2>4. ASSUME NEW i \in DOMAIN mempool', NEW j \in DOMAIN mempool',
               mempool'[i].by # Nobody, mempool'[i].by = mempool'[j].by
        PROVE  i = j
    <3>1. i + 1 = j + 1
      BY <1>s, <2>2, <2>4
    <3>. QED
      BY <1>s, <3>1
  <2>. QED
    BY <1>s, <2>1, <2>3, <2>4 DEF SynchInv, WaitsForItsOwn, At
<1>1. CASE tx.by = Nobody
  <2>1. run' = run
    BY <1>1 DEF Execute, Receipt
  <2>2. \A r \in Runs : ReadsBlocks(run[r])' /\ Arrived(r)'
    BY <1>c, <1>next, <2>1, ArrivedStays DEF SynchInv, ReadsBlocks, SrcNumber
  <2>. QED
    BY <1>m, <1>s, <1>w, <2>1, <2>2 DEF WaitsForItsOwn, At
<1>2. CASE tx.by # Nobody
  <2>1. PICK w \in Runs : /\ tx.by = w /\ tx.kind = "updateStorage" /\ run[w].pc = "wait"
                         /\ tx.proof = run[w].proof /\ tx.slots = run[w].changed
    BY <1>2, <1>m, <1>s DEF Txs, SynchInv, WaitsForItsOwn, At
  <2>2. PICK ok \in BOOLEAN :
          /\ run' = [run EXCEPT ![w].pc = "options", ![w].synchronized = ok]
          /\ ok => /\ tx.proof \in 1..Len(srcChain)
                   /\ UpdateStorage(Proxy, tx.proof, srcChain[tx.proof], tx.slots)
    BY <1>2, <2>1 DEF Execute, Receipt
  <2>l. run[w] \in Locals /\ ReadsBlocks(run[w])
    BY <1>m, <2>1 DEF SynchInv
  <2>3. /\ run' \in [Runs -> Locals]
        /\ \A r \in Runs : r # w => run'[r] = run[r]
        /\ run'[w] = [run[w] EXCEPT !.pc = "options", !.synchronized = ok]
    <3>1. run'[w] = [run[w] EXCEPT !.pc = "options", !.synchronized = ok]
      BY <1>m, <2>1, <2>2
    <3>2. \A r \in Runs : r # w => run'[r] = run[r]
      BY <1>m, <2>1, <2>2
    <3>3. [run[w] EXCEPT !.pc = "options", !.synchronized = ok] \in Locals
      BY <2>l DEF Locals, Places
    <3>4. run' \in [Runs -> Locals]
      BY <1>m, <2>1, <2>2, <3>1, <3>2, <3>3
    <3>. QED
      BY <3>1, <3>2, <3>4
  <2>4. /\ run'[w].pc = "options" /\ run'[w].proof = run[w].proof
        /\ run'[w].changed = run[w].changed /\ run'[w].header = run[w].header
        /\ run'[w].synchronized = ok
    BY <2>3, <2>l DEF Locals
  <2>5. ReadsBlocks(run[w])'
    BY <1>c, <2>4, <2>l DEF ReadsBlocks, SrcNumber
  <2>6. Arrived(w)'
    <3>1. CASE ~ok
      BY <2>4, <3>1 DEF Arrived
    <3>2. CASE ok
      <4>1. /\ run[w].proof \in 1..Len(srcChain)
            /\ UpdateStorage(Proxy, run[w].proof, srcChain[run[w].proof], run[w].changed)
        BY <2>1, <2>2, <3>2
      <4>t. TypeOK /\ Proxy \in Proxies
        BY ConstantsAssumption, SynchAssumption DEF ConstantsAssumption, SynchAssumption, SynchInv, IInv
      <4>2. latestBlockNr = run[w].proof
        <5>1. latestBlockNr \in Numbers /\ LatestStateRoot = run[w].proof
          BY <4>1, <4>t DEF TypeOK, UpdateStorage, VerifyProof
        <5>2. run[w].proof # NoBlock
          BY <4>1 DEF UpdateStorage, NoBlock
        <5>. QED
          BY <5>1, <5>2 DEF SynchInv, IInv, StateRootIsOfItsBlock, LatestStateRoot
      <4>3. /\ latestBlockNr' = latestBlockNr /\ srcChain' = srcChain
            /\ run[w].proof \in 1..Len(srcChain) /\ Len(srcChain) \in Int
        BY <4>1, <4>t DEF UpdateStorage, chainVars, rootVars, TypeOK
      <4>4. proxyStorage'[Proxy] = Overlay(proxyStorage[Proxy], srcChain[run[w].proof], run[w].changed)
        BY <4>1, <4>t DEF UpdateStorage, TypeOK
      <4>5. \A k \in run[w].changed : proxyStorage'[Proxy][k] = srcChain'[run[w].proof][k]
        <5>1. run[w].changed \subseteq Keys
          BY <2>l DEF Locals
        <5>. QED
          BY <4>3, <4>4, <5>1 DEF Overlay
      <4>6. run[w].proof \in 1..latestBlockNr' /\ run[w].proof \in run[w].proof..Len(srcChain')
        BY <4>2, <4>3
      <4>. QED
        BY <2>4, <4>5, <4>6 DEF Arrived, At
    <3>. QED
      BY <3>1, <3>2
  <2>7. ASSUME NEW r \in Runs, r # w PROVE ReadsBlocks(run[r])' /\ Arrived(r)'
    <3>1. run'[r] = run[r] /\ ReadsBlocks(run[r])
      BY <2>3, <2>7 DEF SynchInv
    <3>. QED
      BY <1>c, <1>next, <3>1, ArrivedStays DEF ReadsBlocks, SrcNumber
  <2>8. WaitsForItsOwn'
    <3>1. \A i \in DOMAIN mempool' : mempool'[i].by # Nobody => run'[mempool'[i].by] = run[mempool'[i].by]
      BY <1>w, <2>1, <2>3
    <3>. QED
      BY <1>w, <3>1 DEF WaitsForItsOwn, At
  <2>. QED
    BY <1>s, <2>3, <2>5, <2>6, <2>7, <2>8
<1>. QED
  BY <1>1, <1>2

-----------------------------------------------------------------------------
(***************************************************************************)
(* The invariant, and what follows from it.                                *)
(***************************************************************************)
\* It holds when the command starts.
LEMMA SynchInvInit == SynchInit => SynchInv
<1> SUFFICES ASSUME SynchInit PROVE SynchInv
  OBVIOUS
<1>1. IInv
  <2>1. PICK s \in Storage :
          /\ srcChain = <<s>>
          /\ tgtChain = <<[p \in Proxies |-> EmptyStorage], [p \in Proxies |-> s]>>
          /\ srcContractStateRoots = [n \in Numbers |-> IF n = 1 THEN 1 ELSE NoBlock]
          /\ latestBlockNr = 1
          /\ proxyStorageInfos = [p \in Proxies |->
               [storageRoot |-> s, migrationState |-> TRUE, blockNumber |-> 1]]
          /\ proxyStorage = [p \in Proxies |-> s]
    BY DEF SynchInit
  <2>2. /\ 1 \in SrcBlocks /\ 1 \in Roots /\ 1 \in Numbers /\ 2 \in 1..MaxTgtBlock
        /\ NoBlock \in Roots /\ EmptyStorage \in Storage
    BY ConstantsAssumption, SynchAssumption
       DEF ConstantsAssumption, SynchAssumption, SrcBlocks, Roots, Numbers, NoBlock, EmptyStorage, Storage
  <2>3. TypeOK
    <3>1. srcChain \in Seq(Storage) /\ Len(srcChain) = 1
      BY <2>1
    <3>2. tgtChain \in Seq([Proxies -> Storage]) /\ Len(tgtChain) = 2
      <4>1. /\ [p \in Proxies |-> EmptyStorage] \in [Proxies -> Storage]
            /\ [p \in Proxies |-> s] \in [Proxies -> Storage]
        BY <2>2
      <4>. QED
        BY <2>1, <4>1
    <3>3. srcContractStateRoots \in [Numbers -> Roots]
      BY <2>1, <2>2
    <3>4. proxyStorageInfos \in [Proxies -> ProxyContractInfo]
      BY <2>1, <2>2 DEF ProxyContractInfo
    <3>. QED
      BY <2>1, <2>2, <3>1, <3>2, <3>3, <3>4 DEF TypeOK
  <2>4. StateRootIsOfItsBlock
    BY <2>1 DEF StateRootIsOfItsBlock
  <2>5. LatestRootIsNewest
    BY <2>1, <2>2 DEF LatestRootIsNewest, LatestStateRoot
  <2>6. RecordedRootIsSourceRoot
    BY <2>1 DEF RecordedRootIsSourceRoot, Migrated
  <2>7. RecordedRootWasShown
    <3>1. Len(tgtChain) = 2 /\ \A p \in Proxies : tgtChain[2][p] = proxyStorageInfos[p].storageRoot
      BY <2>1
    <3>. QED
      BY <3>1 DEF RecordedRootWasShown
  <2>. QED
    BY <2>3, <2>4, <2>5, <2>6, <2>7 DEF IInv
<1>2. options \in Options
  BY DEF SynchInit, Options
<1>3. run \in [Runs -> Locals] /\ \A r \in Runs : run[r] = Idle
  BY IdleLocals DEF SynchInit
<1>4. mempool = <<>> /\ mempool \in Seq(Txs)
  BY DEF SynchInit
<1>5. \A r \in Runs : ReadsBlocks(run[r]) /\ Arrived(r)
  <2>1. ReadsBlocks(Idle)
    BY DEF SynchInit, ReadsBlocks, Idle
  <2>2. ~Idle.synchronized
    BY DEF Idle
  <2>. QED
    BY <1>3, <2>1, <2>2 DEF Arrived
<1>6. WaitsForItsOwn
  BY <1>4 DEF WaitsForItsOwn
<1>. QED
  BY <1>1, <1>2, <1>3, <1>4, <1>5, <1>6 DEF SynchInv

\* Every step preserves it.
LEMMA SynchInvStep == SynchInv /\ [SynchNext]_synchVars => SynchInv'
<1> SUFFICES ASSUME SynchInv, [SynchNext]_synchVars PROVE SynchInv'
  OBVIOUS
<1>1. ASSUME NEW r \in Runs, Step(r) \/ RpcFails(r) PROVE SynchInv'
  BY <1>1, StepInv
<1>2. CASE Execute
  <2>1. IInv' /\ options' \in Options
    BY <1>2, ContractsStep, InvStep DEF SynchInv, SynchNext, Execute
  <2>. QED
    BY <1>2, <2>1, ExecuteStep DEF SynchInv
<1>3. CASE SourceBlock /\ UNCHANGED <<options, run, mempool, faults>>
  <2>1. SynchNext
    BY <1>3 DEF SynchNext
  <2>2. IInv' /\ TypeOK /\ TypeOK'
    BY <2>1, ContractsStep, InvStep DEF SynchInv, IInv
  <2>3. /\ Len(srcChain) \in Nat /\ Len(srcChain') = Len(srcChain) + 1
    BY <1>3, <2>2 DEF SourceBlock, TypeOK
  <2>4. ASSUME NEW r \in Runs PROVE ReadsBlocks(run[r])' /\ Arrived(r)'
    <3>1. run'[r] = run[r] /\ ReadsBlocks(run[r])
      BY <1>3 DEF SynchInv
    <3>2. Arrived(r)'
      BY <2>1, <3>1, ArrivedStays
    <3>. QED
      BY <2>3, <3>1, <3>2 DEF ReadsBlocks, SrcNumber
  <2>. QED
    BY <1>3, <2>2, <2>4 DEF SynchInv, WaitsForItsOwn, At
<1>4. CASE UNCHANGED synchVars
  <2>1. UNCHANGED <<vars, options, run, mempool>>
    BY <1>4 DEF synchVars, vars
  <2>2. IInv'
    BY <2>1, InvStep DEF SynchInv
  <2>. QED
    BY <2>1, <2>2 DEF SynchInv, ReadsBlocks, SrcNumber, Arrived, WaitsForItsOwn, At, vars
<1>. QED
  BY <1>1, <1>2, <1>3, <1>4 DEF SynchNext

\* The invariant holds of every behaviour.
LEMMA SynchInvAlways == SynchSpec => []SynchInv
BY SynchInvInit, SynchInvStep, PTL DEF SynchSpec

\* A run submits only headers and proofs of blocks the source has.
THEOREM SynchTypeCorrect == SynchSpec => []SynchTypeOK
<1>1. SynchInv => SynchTypeOK
  <2> SUFFICES ASSUME SynchInv PROVE SynchTypeOK
    OBVIOUS
  <2>1. ASSUME NEW r \in Runs
        PROVE  /\ run[r].changed \subseteq Keys /\ run[r].pc \in Places
               /\ {run[r].header, run[r].proof} \subseteq 0..Len(srcChain)
    BY DEF SynchInv, Locals, ReadsBlocks
  <2>. QED
    BY <2>1 DEF SynchInv, IInv, SynchTypeOK, Places
<1>. QED
  BY <1>1, SynchInvAlways, PTL

\* What a run reports as synchronised is not taken back to an older block, however many
\* runs overlap, whatever blocks they read and whichever of their calls fail.
THEOREM SuccessCorrect == SynchSpec => []SuccessIsNotUndone
<1>1. SynchInv => SuccessIsNotUndone
  BY DEF SynchInv, Arrived, SuccessIsNotUndone
<1>. QED
  BY <1>1, SynchInvAlways, PTL

\* A word an update of a run writes is the source contract's in the newest block the
\* relay knows, although updateStorage itself does not check it and other runs add
\* blocks in between.
THEOREM WritesOfNewestBlock == SynchSpec => WritesAreOfNewestBlock
<1> DEFINE Proven ==
      \A k \in Keys : proxyStorage'[Proxy][k] # proxyStorage[Proxy][k] =>
        /\ latestBlockNr \in 1..Len(srcChain)
        /\ proxyStorage'[Proxy][k] = srcChain[latestBlockNr][k]
<1>1. SynchInv /\ [SynchNext]_synchVars => [Proven]_synchVars
  <2> SUFFICES ASSUME SynchInv, [SynchNext]_synchVars PROVE Proven \/ UNCHANGED synchVars
    OBVIOUS
  <2>1. CASE UNCHANGED proxyStorage
    BY <2>1
  <2>2. CASE /\ SynchNext
             /\ latestBlockNr \in 1..Len(srcChain)
             /\ \E ks \in SlotSets : proxyStorage' =
                  [proxyStorage EXCEPT ![Proxy] = Overlay(@, srcChain[latestBlockNr], ks)]
    <3>1. PICK ks \in SlotSets : proxyStorage' =
               [proxyStorage EXCEPT ![Proxy] = Overlay(@, srcChain[latestBlockNr], ks)]
      BY <2>2
    <3>2. Proxy \in Proxies /\ proxyStorage \in [Proxies -> Storage]
      BY ConstantsAssumption, SynchAssumption
         DEF ConstantsAssumption, SynchAssumption, SynchInv, IInv, TypeOK
    <3>3. /\ proxyStorage'[Proxy] = Overlay(proxyStorage[Proxy], srcChain[latestBlockNr], ks)
          /\ \A p \in Proxies : p # Proxy => proxyStorage'[p] = proxyStorage[p]
      BY <3>1, <3>2
    <3>4. \A k \in Keys : \/ proxyStorage'[Proxy][k] = proxyStorage[Proxy][k]
                         \/ proxyStorage'[Proxy][k] = srcChain[latestBlockNr][k]
      BY <3>3 DEF Overlay
    <3>. QED
      BY <2>2, <3>3, <3>4
  <2>3. CASE UNCHANGED synchVars
    BY <2>3 DEF synchVars
  <2>. QED
    BY <2>1, <2>2, <2>3, ContractsStep
<1>. QED
  BY <1>1, SynchInvAlways, PTL DEF SynchSpec, WritesAreOfNewestBlock

\* Overlapping runs, which start with a migrated proxy, are steps of the contracts too,
\* add right roots, and take none of what the contracts then promise of the newest root
\* and of the record.
THEOREM SynchKeepsContracts ==
  SynchSpec => /\ [][FedNext]_vars
               /\ []LatestRootIsNewest /\ []RecordedRootIsSourceRoot /\ []RecordedRootWasShown
<1>1. SynchInv => LatestRootIsNewest /\ RecordedRootIsSourceRoot /\ RecordedRootWasShown
  BY DEF SynchInv, IInv
<1>2. SynchInv /\ [SynchNext]_synchVars => [FedNext]_vars
  <2>. SUFFICES ASSUME SynchInv, [SynchNext]_synchVars PROVE [FedNext]_vars
    OBVIOUS
  <2>1. CASE SynchNext
    BY <2>1, ContractsStep
  <2>2. ASSUME UNCHANGED synchVars PROVE UNCHANGED vars
    BY <2>2 DEF synchVars, vars
  <2>. QED BY <2>1, <2>2
<1>. QED
  BY <1>1, <1>2, SynchInvAlways, PTL DEF SynchSpec

=============================================================================
