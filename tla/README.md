# Smart-sync in TLA+

A model of smart-sync: the contracts that keep a copy of a *source contract* on another
chain (the *proxy contract*), the client that fills and refreshes the copy, and the
libraries both rest on. Modules are checked with TLC on small instances; the modules of
the contracts, of the clients (fork, synchronisation, demo) and of the pure algorithms are
also proved about with TLAPS, for every value of their constants. `PROJECT.json` lists components, runs, mutants, the source
lines of every definition, findings, hazards and theorems.

## 1. The system

| component | state | operations | interacts with |
|---|---|---|---|
| RelayContract (target chain) | state roots per source block number, the largest number added, a record per proxy (storage root, migration flag, block number) | `addBlock`, `addBlockDendreth`, `verifyMigrateContract` and its `Original` copy, `updateProxyInfo`, getters | called by clients and by the proxies |
| ProxyContract (target chain) | the copied storage slots | `addStorage`, `updateStorage`, `updateStorageModified`, the fallback that delegates static calls to the logic contract | asks the relay for roots and its own record |
| GetProofLib, MerklePatriciaProof, RLPReader, RLPWriter | none | verification of account and storage proofs, encoding and decoding | called by the two contracts |
| DendrETH light client | optimistic header, finalized header, finalized execution state root | `light_client_update` | read by the relay |
| ChainProxy: fork | the position in `migrateSrcContract`, keys, header, proof read so far | read, submit `addBlock`, deploy, submit batches, verify, check | RPC of both chains, the two contracts |
| ChainProxy: synchronisation | `adjustedOptions`, shared by all cron callbacks; the locals of each callback | `getDiff`, `migrateChangesToProxy`, the callback of `continuousSynch` | same |
| Command line | the options, and the fields of the `ChainProxy` object that `init` fills in as far as it gets | `fork`, `migration-status`, `get-curr-blocknr`, `synchronize`, `continuous-synch`, `state-diff` | calls `ChainProxy`, whose methods decide by those fields what they may do |
| Demo client (`TestChainProxySimpleStorage` and its scripts) | the attached proxy, the believed migration state, batches it does not wait for | `initializeProxyContract`, `initiateMigrationWithDeployedProxy`, `dendrethSetAAndMigrateRaw`, `dendrethVerifyMigration`, `migrateChangesToProxy` | same chains and contracts, its own protocol |
| DiffHandler, StorageDiff, replayTransaction | none | three ways to compare two states of a contract | RPC |
| getAllKeys, findDeploymentBlock, createDeployingByteCode | none | paging, binary search, assembling EVM code | RPC; the code runs on the target chain |
| Proof handler (`proofHandler/*`) | the tree of the optimised storage proof | merge the proof of a key, look for additional keys, encode | takes proofs from the source's RPC; the contract's `computeRoots` and `setStorageValues` walk the tree |

**What is hard.** Three parties act without coordination: two chains that grow, and
clients that read each of them in several calls and submit transactions that wait in a
mempool. "Latest" is another block at every read. The contracts are open to everybody, so
batches, blocks and verifications arrive in any order and late. The client may lose an
answer after its transaction was executed, and may die with transactions under way that
the next process's transactions queue up behind; the demo's client does not wait for its
receipts at all, it sleeps. `init` may fail half way and its answer is ignored, several
cron callbacks overlap on shared options, and a failed replay leaves a diff silently
incomplete. The libraries have the usual boundaries of an encoding and of a loop over
untrusted input.

**What makes it correct.** Whatever anybody calls, the storage the relay records was the
proxy's own; where whoever calls `addBlock` gives it right roots, the latest root is that of
the newest block and a record is true of the source as well; under an operator that follows
the protocol a migrated proxy holds the complete storage of exactly the recorded block. The
contracts check neither the roots nor the words they are given, so nothing is said of a
proxy's words under arbitrary calls. A fork ends,
and neither it nor one run after a failed one ever has a partial copy recorded. Whatever
`init` left undone, no update is sent to a proxy that is not migrated. Overlapping synchronisations do not undo
each other and every change arrives in the end. Diffs, paging, the search and the proof
libraries compute what they are named for.

## 2. The modules

| module | models | variables and actions |
|---|---|---|
| `RelayProxy` | RelayContract + ProxyContract between the two chains | the two chains, the relay's table and records, the proxies' storage; one action per transaction or block. `Spec`: anybody calls everything, with any root, number and word; `FedSpec`: the same, but `addBlock` gets a source block's root under its number |
| `DendrethRelay` | extends it by the light client, `addBlockDendreth` and `updateStorageModified` with `updateProxyInfo` | `DendrethSpec`: everybody calls everything, any storage proof may pass; `BuiltSpec`: the same, but where the proxy holds what is recorded the storage proofs are the client's; `SerialSpec`: one operator that follows the protocol |
| `Mirror` | the abstract specification: a proxy shows nothing, and then complete source storages, ever later ones | `Extend`, `Show` |
| `TargetAccount` | extends `RelayProxy` by the account whose transactions drive the contracts: submission, execution in the order of the nonces, sealing, processes that follow one another | the mempool, what is unsealed, the deployments, the reverts and the disturbances of the process; used by the two modules below |
| `ForkMigration` | the `fork` command on that account, run again after it failed | the program counter of `migrateSrcContract` and what it has read; one action per RPC call or submission |
| `DemoClient` | the demo's client on that account: five methods, each a list of its awaited calls | what the method still has to do, the client's fields, and the batch nobody waits for, whose transaction is sent by an action of its own |
| `Synchronization` | extends `RelayProxy` by overlapping cron callbacks | the shared options, a record of locals per callback, the account's mempool |
| `CommandLine` | one command from its options to its end, and the object it works with: `init` may stop after any of its calls | the fields of `ChainProxy`, the adjusted options, the counter of the loop over batches of blocks, what was sent |
| `Diffs` | the three diffs as operators; used by `Synchronization` and `StorageDiff` | none |
| `StorageDiff` | the diffs over the history of a contract | the history and the transactions that cannot be replayed |
| `KeyPaging`, `FindDeploymentBlock` | `getAllKeys`, `findDeploymentBlock` over a chain that grows | the loops' locals |
| `DeployingCode` | `createDeployingByteCode`, and the EVM as far as that code needs it | program counter, stack, memory; one action per instruction |
| `Trie` | the nodes of a trie for given entries, whatever stands for the hash of a node; for `TrieProof` and `OptimizedProof` | none |
| `TrieProof` | the loop of `MerklePatriciaProof.verify` over a real trie of nodes | the loop's locals; a step is a turn, with any node handed in |
| `RLPCodec` | RLPWriter, RLPReader, and the two places of ProxyContract that encode and decode a leaf's value | the items, the encoded bytes, the iterator |
| `OptimizedProof` | `optimizedStorageProof`, `ProofPathBuilder`, `getRequiredKeys`; `computeRoots` with all it calls, `setStorageValues` | the two storages and the source's trie, the tree so far; one action per proof merged, one for `getRequiredKeys`, one per outcome of an update |
| `MC*` | instances for TLC | `MCClientLibrary` and `MCProofLibraries` put independent algorithms into one run: a behaviour is a use of one of them. `MCRelayProxy` has the contracts either under the transactions of anybody or under those of the demo's client. `MCForkMigration` has one operator alone, either with the fork command or with the protocol of `SerialSpec` |
| `*_proofs` | the theorems | |

**Abstractions.** A storage is a function from slots to words, a storage hash is that
storage, a state root is the number of its block, an account proof is named by the root it
leads to: the loop that justifies this is checked in `TrieProof`, where the hash of a
node is the entries it stands for. `OtherRoot` is a root of no source block: who makes it up
can show any account of the source under it. A transaction that
reverts is no step of the contracts (the client's models say what it does to the client).
The contracts' actions take any root, number and word, as the code does; what a property
needs of the callers is a hypothesis of its specification (`FedNext`, `BuiltNext`,
`SerialNext`), never a guard of the action.

Which storage proofs get through `updateStorageModified` is left open in
`DendrethRelay`: `computeRoots` can put a wrong old trie together that has the recorded root.
Only where `Rebuilt` holds (the proxy has the storage that is recorded, and no word moved
from a slot that was emptied to one that was filled, `NoWordMoved`) does a proof the client
built (`BuiltUpdate`) need the right slots. That this is so is not assumed but shown one
level down: `OptimizedProof` has the recursion over real tries, and its
`CheckedUpdateIsComplete`, proved in `Tries_proofs` under the same hypothesis, says that a
checked update leaves the source's words; the run `moved_word` shows that the hypothesis is
needed, `ValueUpdatesAreAccepted` where `computeRoots` does succeed. In `OptimizedProof`
the hash of a node is the node, so that
comparing hashes is comparing nodes and a node is found where its position says; paths
differ before their last item, which stands for the nibbles that are left; a word
made of a piece of a hash is `Garbage`; `toUint` of a raw hash, which reads the right number
for some first bytes only, is either. The proof of an additional key is asked of the latest
block (`GetProof.ts:246`): it fits into the tree or is left out (`MergeAdditional`). Constants that bound a model are named `Max...`, and
`BlockHashWindow` is the 256 of `blockhash`.

## 3. The runs

Passing runs:

| run | shows | bounds, and why they are enough |
|---|---|---|
| `relay_proxy` | any order of transactions with any words on two growing chains, fed with right roots (`FedNext`), keeps the latest root and the records true, and what is recorded of a proxy was the proxy's in a sealed block; a patient client of the demo has only complete copies recorded, whatever its last process left behind, and does migrate | without the client: 3 source and 3 target blocks (`RelayTgtBlocks`), 1 proxy, 2 slots of 1 bit, window 2: an older block after a newer one, a header outside the window, a batch after its header was sealed, a second verification, all occur. With it: 2 source blocks (`ClientSrcBlocks`), two processes of together 2 methods (one method if the client sleeps too short), each with one failing call or foreign block, and 12 target blocks, more than a behaviour uses; the key list has one of the two slots, so that it may be too short |
| `dendreth_relay` | `BuiltSpec`: recorded roots are genuine, whatever is written and under whatever number a root of the light client or the source lies; a checked update with the client's storage proof leaves out no slot that changed, whatever anybody did before | 2 slots, so that one can be left out; 2 source and 2 target blocks and numbers up to 3, so that a root lies under the number of an earlier, a later and no block. 202,332 states |
| `fork` | a fork always ends; what is recorded as migrated is a complete copy of the recorded block, also when an earlier process died and left a half filled proxy and transactions behind; with a fixed source block, no failing call and no foreign target blocks it succeeds, also at the second attempt. The operator of `SerialSpec`, who updates a proxy too, has a migrated proxy hold the recorded block's storage, as long as no update carries a moved word; both implement `Mirror` | the fork: two attempts, each with one failing call or foreign target block at any place, 2 source blocks at any place, so that each pair of reads can be torn; 2 slots in batches of 1 or 2 (one batch, two, none); `latest` or block 1; window 1; 15 target blocks are more than two attempts use. The serial operator: 1 proxy, 3 source blocks, so that an update follows an update, 2 target blocks, finality one block behind. 1.30 million states |
| `synchronization` | two overlapping callbacks in each of the three diff modes with a failing call: reported updates are not undone, what the client writes is of the newest block the relay knows although the contract checks no word, and all changes arrive | 1 slot, 3 source blocks (a value lost and regained), one failure, 4 pending transactions |
| `client_library` | paging, search, diffs, the commands and the deploying code | 7 keys in batches of 2 (pages of 2 and 4, the last page empty, short, or longer than a batch but shorter than what was asked for), one block mined meanwhile; chains of up to 10 blocks; 2 slots of 3 words over 2 transactions; all commands with block numbers up to 3, so that a block number is unknown, before, at and behind the record, and batches of 1 to 3 blocks or unlimited; code lengths around 1, 16, 256, 65536 and at the limit of 24576 bytes |
| `proof_libraries` | proof verification, RLP, the optimised storage proof | all tries of up to 3 entries with binary branches and paths of 4 nibbles (leaves and extensions of even and odd length under branches); items of 0, 1, 2, 54–56, 255 and 256 bytes, words around 127/128 and 255/256 of up to 2 bytes; two tries over 6 slots with up to 2 differences, and any 2 proofs merged in any order, of unchanged slots too: roots that are a leaf, an extension, a branch of two and of three, branches under branches and under extensions, each of them appearing and vanishing. With 3 differences and 3 proofs (2.05 million states on its own) the three properties hold as well |

The runs whose systems come to an end switch deadlock checking off: those of the
libraries, of the fork, and of `MCRelayProxy`, whose chains are bounded and whose client has
a last method. In the others a deadlock is an error. Slots are interchangeable in the runs with `SlotSymmetry`,
the values of a trie in `proof_libraries`; runs with liveness properties use no symmetry.

Failing runs, each a statement of the repository the code does not keep:

| run | finding |
|---|---|
| `late_add_storage` | `verifyMigrateContract` compares a sealed block while `addStorage` is still open: a batch in between is locked in unverified |
| `unchecked_words` | `updateStorage` checks the account proof only (`ProxyContract.sol:623` to `:632` are comments) and writes whatever words the storage proof carries, although `:600` has the storage proofs verified; that the client's words are right (`WritesAreOfNewestBlock`) is the client's doing |

| `moved_word` | the leaf that moved up into the place of a removed slot is sent under the removed key. Where the branch above was a leaf before, `restoreLeafAtPos` puts it back with that key and with the word it was sent with. Is that the word the removed slot held, `computeRoots` finds the recorded old root and both checks pass: the slot that was filled stays empty, the removed one keeps its word, and the relay records the source's root for the proxy |
| `fork_placeholders` | the placeholder addresses of `config.ts` are not those of `ProxyContract.sol`: no fork can succeed |
| `synch_never_arrives` | the client calls `updateStorage(bytes,uint)`, the contract has `updateStorage(bytes)`: no update arrives |
| `rlp_byte_128` | `RLPWriter` writes the byte 0x80 as itself, which is the encoding of the empty string |

The passing runs of fork and synchronisation take the repaired placeholders and interface
(`MatchingPlaceholder`, `InterfaceMatches`), the failing ones the code's; `RLPCodec`'s
passing instance leaves the byte 128 out. The update of the demo's client reverts in all of
them, as it does in the code.

Divergences seen while modelling for which no run is kept:


- `getRequiredKeys` looks at the nibble after the next (`GetProof.ts:38`), and letters are no
  index of an array, so the key that would let the contract restore a leaf under a new branch
  (`:32`) is mostly not among those it asks for.
- `computeRoots` does not rebuild the old trie where a branch appeared or vanished at the root
  or under an extension (`ProxyContract.sol:331`, `:410`, `:429`), and under a root that is an
  extension reads a raw hash as an encoded number (`:354`): such updates revert.
  `ValueUpdatesAreAccepted` is stated for the others.
- A key that neither contract holds gets a leaf all the same, and with it the word of
  another slot (`GetProof.ts:223`); `NoneAskedInVain` leaves such calls out. So does a removed
  slot, and with `updateStorage`, which the client calls and which checks no root, the
  contract writes that word, or the piece of a hash an extension begins with, where there
  is nothing any more: `AdditionsArrive` is stated for updates that remove nothing.
  `updateStorageModified` refuses it unless a word moved (`moved_word`), the hypothesis
  `NoWordMoves` of `CheckedUpdateIsComplete`.
- `updateStorage` leaves the relay's record where it is (`ProxyContract.sol:637` is a comment),
  so the record is no longer the proxy's storage root (`RelayContract.sol:11`, `:15`).

- `verifyMigrateContract` may be repeated with an older block and takes the recorded number
  back (`RelayContract.sol:160`), which `updateProxyInfo` (`:37`) rules out.
- `addBlockDendreth` stores the light client's current root under the caller's number
  (`RelayContract.sol:57`), which `getStateRoot` (`:62`) then presents as that block's: a block
  finalized between the caller's reading and the call is enough.
- A fork whose last receipt is lost answers "not migrated" for a migrated proxy
  (`chain-proxy.ts:384` against `:208`).
- The base of the srcTx diff is the relay's record (`chain-proxy.ts:481`): a slot that came
  back to its value there is not synchronised. `ChangesReachProxy` has the exception `CameBack`.
- The same holds for the getProof diff, whose base is the block after the record
  (`chain-proxy.ts:466`): a change behind that block that leads back to the value there is
  never seen. `ProxyFollowsSource` says so.
- The loop over `--block-batch-size` asks for the same diff again each time
  (`smart-sync.ts:184`, `:472`), and a batch size of 0, which the model leaves out, never ends.
  `synchronize` refuses the option in mode storage, `continuous-synch` does not.
- The defaults of the command line's options take precedence over the config file's
  `diffMode` and batch sizes, which `README.md:13` has the user adjust.
- What `init` returns is looked at by no command. The migration state is read once, so a
  `continuous-synch` whose `init` failed, or that began before the migration, stays idle.
- `processParameters` answers a failing call for a block number with an empty diff, which is
  reported as synchronised.
- The demo's update cannot succeed: it sends a list without the proof of the storage
  (`optimizedProof(..., false)`), and the scripts expect `true` (`smart-sync-demo-update.ts:122`).
- The demo's update script calls `initializeProxyContract()` without a time to sleep
  (`smart-sync-demo-update.ts:98`); such a client can have an incomplete copy recorded, which
  `PatientCopyIsComplete` leaves out.
- The `toKeys` of a storage diff lack the common keys (`DiffHandler.ts:112` against
  `StorageDiff.ts:17`); nothing reads them.

## 4. Fairness

- `ForkMigration`: weak fairness of the client's next step (one process that runs until it
  ends), of the execution of the mempool and of sealing a block with transactions: ethers
  waits as long as it takes, a live chain executes what it is sent. None for the other
  party's blocks, for failures, and for running the command again.
- `DemoClient`: the same for the steps of a method and for the target chain. None for
  calling a method or for starting a process.
- `Synchronization`: weak fairness per callback, because node-cron fires again whenever the
  period is over, and of the execution of the mempool. Failures are finitely many; the
  source comes to rest because its chain is bounded.
- `KeyPaging`, `FindDeploymentBlock`: weak fairness of the loop, none of the chain.
- `CommandLine`: weak fairness of the process, none of failures and of other processes.
  `DeployingCode`: weak fairness of the EVM.
- The contracts alone have none: nobody has to call them.

## 5. What is proved

All for every value of the constants under the named assumptions of the modules.

- **RelayProxy_proofs.** Under `Spec`, so whatever anybody hands in, `TypeCorrect` and
  `RecordWitnessed`. Under `FedSpec`, whose one hypothesis is that `addBlock` gets right roots,
  `LatestRootCorrect` and `RecordCorrect`, for any words and repeated verifications. Their
  inductive invariant `IInv` = type invariant + two facts about the relay's table + the two
  about its records. It is inductive only as a whole: that a record is true needs that a
  stored root is that of its block, and that blocks are only appended.
- **DendrethRelay_proofs.** With the light client a root may lie under a wrong number, so
  the record's block number is not to be trusted; `GenuineInv` shows that the recorded root
  is a source root all the same (`GenuineCorrect`), as long as the roots stored are the light
  client's or the source's (`AnyContractStep` leaves `OtherRoot` out, under which any account can
  be shown), for any numbers, any words and any storage proof that passes.
  `ProvenSlotsSuffice` is the reason a checked update is
  complete: if putting the old words back into the proven slots gives the old storage, the
  proven slots are all that differ. `UpdateComplete` has the hypotheses of `Rebuilt`: the proof
  is the client's, the proxy holds what is recorded, no word moved. `SerialInv` (the record,
  the storage and the source block agree; before the migration nothing is recorded) carries the
  second of them on from one update of the serial operator to the next; no moved word remains
  a hypothesis of its updates (`SerialUpdate`). It gives `MirrorCorrect`, and
  `StepSimulation` maps each step to a step of `Mirror` or a stutter, hence `Refinement`.
- **ForkMigration_proofs.** `ForkInv` adds to `IInv` what the client has read (`ReadsDone`),
  that a pending batch or verification of a process is for its own proxy
  (`Ownership`), and that between the block a verification reads and the verification
  nothing of the process is left to write to its proxy (`Quiet`). Together with the distinct
  addresses of `AccountAssumption` this makes the sealed storage that is compared the one
  that gets locked: `MigrationComplete`, for every number of attempts, of failing calls and
  of foreign blocks, every batch size and every set of slots. Also `ForkTypeCorrect`.
- **Synchronization_proofs.** An update is accepted with the newest root only, the newest
  block never becomes an older one (`ContractsStep`), and a run waits for the one transaction
  that carries what it has read (`WaitsForItsOwn`): so what arrived at a run (`Arrived`) is
  never written over from an older block. `SuccessCorrect`, for any number of overlapping
  runs and failing calls; `WritesOfNewestBlock`, because words and account proof of a run are
  one answer of the node, and the contract refuses an account proof that is not under the
  newest root (of the words it checks none); `SynchTypeCorrect`.
- **DemoClient_proofs.** No receipt of a batch is waited for, so nothing of `ForkInv` helps
  here. Instead (`Patience`): a batch is under way only while the client sleeps, because
  between sending it and the end of a sleep that is long enough no awaited call can fail;
  the account's nonces have a verification executed before the batches behind it; and until
  then the block it was sent for shows the proxy as it is. `Ordered` is what the methods have
  in common. `PatientCopyCorrect`, for every number of processes and methods.
  `DemoTypeCorrect` is a bound as well: each method sends at most one batch that nobody
  waits for (`BatchToCome`, `FewBatches`), so no more are pending than methods were called.
- **ClientLibrary_proofs**, one part per module.
  *Paging:* up to the offset the list has every lasting key, and of one block exactly the
  keys; a short page is all that is left (`ShortPage`), whatever multiple of the batch size
  was asked for. *Search:* the deployment block lies in the interval as long as it was
  deployed when the search began, and code at `mid` cannot vanish while the chain grows.
  *Diffs:* the storage diff is exact and the proof diff equals it. That a slot has the value
  of its last write, an induction over the history, is the invariant `Traced` of the history
  that grows; `TxsDiffCorrect` follows, for every number of transactions and whichever of
  them cannot be replayed. *Commands:* `CommandInv` adds to the types where a command can be
  (`Placed`), that what `init` read of the proxy stays true where it is not read again
  (`FieldsTrue`), and that a number made from an unknown block belongs to an object `init` has
  given up on (`UnknownBlock`). Hence `UpdatesMigratedCorrect` and `DiffsStartCorrect`.
- **Tries_proofs.** *The loop of `verify`:* all entries below the node it looks for have as
  many nibbles left, and where that is as many as the path has, every node so far matched
  (`NoneTooLong`, `BelowThePath`): a node that does not match costs nibbles, so no path below
  it can be traversed to its end. That is why `AcceptedIsInTrie` holds although the loop does
  not stop there; with the answered nodes the entry stays among those below (`OnThePath`),
  hence `EntryIsAccepted`. *The optimised proof:* the last node of the proof of a slot that is
  held is its own leaf (`EndIsOwn`, `EndIsLeaf`: if another slot were below it, the two would part
  at a branch with a longer position). So no leaf is on the way to another (`NothingHides`),
  every leaf of the tree is in its own place and none that was asked for is lost (`Growing`),
  and the contract stores the source's words: `AdditionsArrive`, for every shape of the trie,
  every radix and every order of asking. The nodes of a trie are a recursive function; that
  it is defined (`NodeAtFixpoint`) is an induction from the longest positions up.
  *The guess of the old trie:* `CheckedUpdateIsCompleteCorrect`. Every item of the tree is the
  leaf of a slot that was asked for or a node of the source with several slots below it
  (`Assembled`), and what `computeRoots` makes of it is a recursive function too
  (`OldItemFixpoint`), with a loop over the children whose counts and last contributor are an
  invariant of their own (`TallyInv`, `LoopResult`). A slot is `Bad` if the update leaves it
  with another word than the source's. The invariant of the recursion (`Claims`) is that an old
  item that *is* the node the proxy has at that place has no bad slot below it, and that a
  leaf handed up instead of a node is `Justified`: a slot below without a leaf of its own gets at
  most its own word from it, under a key the source does not hold. `ClaimsHold` goes from the
  longest positions up; at the root the old item is the recorded
  one because the check passed (`RecordedRootGood`), so there is no bad slot at all. This needs
  that two tries with one node there hold the same words below it (`SameNodeSameWords`), and
  `NodesAssumption`: neither a word nor the piece of a hash is itself the hash of a node.
  *The guess that succeeds:* `ValueUpdatesAreAcceptedCorrect`. Where no branch comes or goes,
  the place of a slot's leaf is above no other slot of the two contracts (`OwnPlace`): two slots
  below it would part at a branch of the source, with a node further down. So a leaf that is
  added removes nothing, no proof ends above its last node, and the tree has the leaf of every
  slot asked for, the nodes above it and the branch below every extension (`Complete`,
  `MergeProofComplete`): the client does not fail and the contract can read what it is sent. In
  such a tree every item below the root comes back from `computeOldItem` as the node the proxy
  has there (`ItemsRestored`, again from the longest positions up): a leaf is put back with the
  old word or taken away (`LeafRestored`), a child that is not in the tree has the same words
  in both (`QuietChild`) and so the same node (`SameWordsSameNode`, the converse of
  `SameNodeSameWords`), and the loop over a branch, also that over the root with its unguarded
  decrement, neither reverts nor counts one child only, because the proxy's branch has two
  (`Steady`, `LoopRestores`). Hence the old root is the recorded one (`BranchRootRestored`,
  `SingleRootRestored`). `AcceptedInv` joins this to the invariant of the other theorem.
- **RLPCodec_proofs.** `CodecInv` says what was encoded, that the memory is the encoding of
  the list of it, and that the reader stands at the beginning of an item (`AtBoundary`) having
  read those before it. The lemmas are about the bytes: a number has the value of its big
  endian bytes and no leading zero, what `EncodeLength` writes is read back in each of the
  ranges of the first byte, the list's items follow one another. The two theorems have a
  hypothesis, `NoByte128`: what the byte 0x80 alone is encoded as is the finding of
  `rlp_byte_128`. `CodecAssumption` bounds items by 2^24 bytes and lists by 2^16 items; what
  memory costs grows with its square, and no transaction can pay for more.
- **Composition.** `ForkImplementsContracts`, `DemoImplementsContracts` and `SynchKeepsContracts`
  map every step of the clients' models to a step of the contracts or a stutter, and show that
  the clients meet the hypothesis of `FedSpec`: they give `addBlock` right roots, whatever fails.
  So what `RelayProxy_proofs` shows holds of them (`DemoKeepsContracts`: the newest root and the
  record of a migrated proxy). A synchronisation starts
  with a migrated proxy, so its contracts do not begin in their initial state: there the
  invariant is taken up from that state instead.

Induction over data is done without the library's induction theorems, which take an operator:
a set of numbers that is not empty has a least element (by `WFMin`), so a set that holds 0 and
every successor is all of Nat, and a recursive function on Nat exists (`LeastNat`, `Induction`,
`Recursion` in RLPCodec_proofs; `Greatest` in Tries_proofs). This is why the modules that are
proved about have recursive functions where TLC alone would do with recursive operators.

Type correctness of the proved modules, the disjointness of the pages and the equality of
the proof diff with the storage diff are proved and no longer run: a mutant that breaks them
breaks a deeper property of the same run as well.

Only model-checked: the liveness properties (`ForkEnds`, `ForkSucceeds`, `DemoMigrates`,
`ChangesReachProxy`, `ProxyFollowsSource`, `PagingEnds`, `SearchEnds`, `CallbacksEnd`,
`DeploysTheCode`), which need fairness and ENABLED. Every safety invariant and action
property that a passing run checks is a theorem; `Refinement` and `MirrorCorrect` are about the
serial operator, that the fork implements `Mirror` too is checked by TLC. The other way round,
`RecordWitnessed` and `GenuineCorrect` say more than the runs, which leave a made up root
(`OtherRoot`) and a wrong proof of a proxy that could be updated with a right one to the proofs.

## 6. Not modelled, and the plan

Not modelled: printing, the parsing of the command line's words, files, providers and logs;
the evaluation scripts, which call the demo client's methods over larger and larger contracts
and write down what they cost; the methods of the demo client that only change the source
contract (they are blocks of the source chain) and `verifyEthGetProof`; the pairing check behind
`light_client_update` (taken as the statement of its circuit); the fallback beyond its
refusal of calls that are not static; `updateProxyInfoLatest`, `setLatestDendrethBlockNumber`,
`getContractStorageFromTxs` and the libraries BeaconChain and MerkleProof, which nothing in
the repository calls.

Done, in this order: contracts, light client and refinement, fork, synchronisation, the
client's algorithms, the proof libraries and the optimised proof, the proofs above; then the
account with several processes, the demo's client, the commands, the deploying code and the
mode `getProof` of the synchronisation, and the proofs about the clients and the diff by
transactions. Next:

1. Two accounts: a fork and a synchronisation of the same source at once through one relay.
2. The safety of `DeployingCode`: what the EVM returns when it stops is the code it was given.
