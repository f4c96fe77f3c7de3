----------------------------- MODULE CommandLine -----------------------------
(***************************************************************************)
(* One command of smart-sync.ts, from its options to its end, and the      *)
(* ChainProxy object it works with.  No command looks at what init         *)
(* returns: what a half initialised object may do is up to the guards of   *)
(* its methods.  The account may meanwhile be used by another process,     *)
(* which completes a migration.                                            *)
(*                                                                         *)
(* Abstractions.  What a diff finds and whether an update succeeds is left *)
(* open, as is the work of fork after its checks; the modules              *)
(* Synchronization and ForkMigration are about them.  The ticks of         *)
(* continuous-synch are one after the other.                               *)
(***************************************************************************)
EXTENDS Integers

CONSTANT MaxBlock   \* bound: block numbers

ASSUME CommandAssumption == MaxBlock \in Nat \ {0}

\* A block number option that is not given, or 'latest', and the default of
\* --block-batch-size.
Latest == -1
Unlimited == MaxBlock + 1

Modes == {"storage", "srcTx", "getProof"}
Synchronizing == {"synchronize", "continuous-synch"}
WithAccount == Synchronizing \cup {"fork"}

\* The commands with their arguments; the option --diff-mode has a default, which
\* hides that of the config file.
CommandLines ==
  [name : {"synchronize", "continuous-synch"}, proxyGiven : {TRUE}, relayGiven : {FALSE},
   diffMode : Modes, account : {"none", "path", "both"},
   srcBlocknr : {Latest} \cup 1..MaxBlock, targetBlocknr : {Latest} \cup 1..MaxBlock,
   blockBatch : 1..Unlimited]
  \cup
  [name : {"state-diff"}, proxyGiven : BOOLEAN, relayGiven : {FALSE}, diffMode : Modes,
   account : {"none", "path", "both"},
   srcBlocknr : {Latest} \cup 1..MaxBlock, targetBlocknr : {Latest} \cup 1..MaxBlock,
   blockBatch : {Unlimited}]
  \cup
  [name : {"migration-status", "get-curr-blocknr"}, proxyGiven : {TRUE}, relayGiven : {FALSE},
   diffMode : {"srcTx"}, account : {"none", "path", "both"}, srcBlocknr : {Latest},
   targetBlocknr : {Latest}, blockBatch : {Unlimited}]
  \cup
  [name : {"fork"}, proxyGiven : {FALSE}, relayGiven : BOOLEAN, diffMode : {"srcTx"},
   account : {"none", "path", "both"}, srcBlocknr : {Latest} \cup 1..MaxBlock,
   targetBlocknr : {Latest}, blockBatch : {Unlimited}]

VARIABLES
  command,         \* the command line
  place,           \* where the action of the command is
  proxyContract, relayContract, migrationState, initialized, \* fields of ChainProxy
  srcBlocknr, targetBlocknr, \* adjustedOptions
  srcBlock,        \* the counter of the loop
  diffBase,        \* where the last diff started
  sent,            \* the methods that have sent transactions
  record           \* the relay's record of the proxy: its block, 0 for not migrated

fields == <<proxyContract, relayContract, migrationState, initialized>>
optionVars == <<srcBlocknr, targetBlocknr, srcBlock>>
commandVars == <<command, place, fields, optionVars, diffBase, sent, record>>

CommandInit ==
  /\ command \in CommandLines
  /\ place = "options"
  /\ proxyContract = FALSE /\ relayContract = FALSE
  /\ migrationState = FALSE /\ initialized = FALSE
  /\ srcBlocknr = command.srcBlocknr /\ targetBlocknr = command.targetBlocknr
  /\ srcBlock = 0 /\ diffBase = Latest
  /\ sent = {}
  /\ record \in 0..MaxBlock

From(from, to) == place = from /\ place' = to
IsSynchronizing == command.name \in Synchronizing

\* Where a callback that is over leaves its command: cron waits for the next one.
Over == IF command.name = "continuous-synch" THEN "tick" ELSE "end"

-----------------------------------------------------------------------------
(***************************************************************************)
(* Options, the constructor, init and lightInit.                           *)
(***************************************************************************)
\* A command without the account it needs exits, and so does one whose period or
\* config file is no good.
Options ==
  /\ \/ place = "options" /\ place' = "exit"
     \/ /\ From("options", "constructor")
        /\ command.name \in WithAccount => command.account = "both"
  /\ UNCHANGED <<command, fields, optionVars, diffBase, sent, record>>

\* The account's file is read and decrypted; without an account nothing can be
\* signed.
Constructor ==
  /\ \/ place = "constructor" /\ command.account # "none" /\ place' = "exit"
     \/ /\ command.account # "path"
        /\ IF command.name = "state-diff" /\ command.diffMode # "srcTx"
           THEN From("constructor", "lightInit") ELSE From("constructor", "init")
  /\ UNCHANGED <<command, fields, optionVars, diffBase, sent, record>>

\* After init every command does what it is for.
Ready == IF IsSynchronizing THEN "resolve" ELSE command.name

LightInit ==
  /\ From("lightInit", Ready)
  /\ initialized' = TRUE /\ migrationState' = TRUE
  /\ UNCHANGED <<command, proxyContract, relayContract, optionVars, diffBase, sent, record>>

\* Without a proxy there is nothing to read; the proxy's bytecode may not compile.
InitContracts ==
  /\ relayContract' = command.relayGiven
  /\ \/ ~command.proxyGiven /\ From("init", Ready) /\ initialized' = TRUE
     \/ command.proxyGiven /\ From("init", "addresses") /\ UNCHANGED initialized
     \/ command.proxyGiven /\ From("init", Ready) /\ UNCHANGED initialized
  /\ UNCHANGED <<command, proxyContract, migrationState, optionVars, diffBase, sent, record>>

\* The proxy is asked for its three addresses; any call may fail, and init returns
\* false, which nobody looks at.
ReadAddresses ==
  /\ proxyContract' = TRUE
  /\ \/ From("addresses", "state") /\ relayContract' = TRUE
     \/ From("addresses", Ready) /\ UNCHANGED relayContract
  /\ UNCHANGED <<command, migrationState, initialized, optionVars, diffBase, sent, record>>

ReadMigrationState ==
  /\ From("state", Ready)
  /\ \/ migrationState' = (record # 0) /\ initialized' = TRUE
     \/ UNCHANGED <<migrationState, initialized>>
  /\ UNCHANGED <<command, proxyContract, relayContract, optionVars, diffBase, sent, record>>

-----------------------------------------------------------------------------
(***************************************************************************)
(* The commands that do not synchronise.                                   *)
(***************************************************************************)
\* getCurrentBlockNumber
CurrentBlockNumber == IF initialized /\ relayContract THEN record ELSE -1

\* They only print, or fail.
MigrationStatus ==
  /\ From("migration-status", "end") \/ From("get-curr-blocknr", "end")
  /\ UNCHANGED <<command, fields, optionVars, diffBase, sent, record>>

\* migrateSrcContract, up to the deployment of a relay.
Fork ==
  /\ From("fork", "end")
  /\ \/ UNCHANGED sent
     \/ initialized /\ sent' = sent \cup {"fork"} \cup IF relayContract THEN {} ELSE {"relay"}
  /\ UNCHANGED <<command, fields, optionVars, diffBase, record>>

-----------------------------------------------------------------------------
(***************************************************************************)
(* synchronize and continuous-synch.                                       *)
(***************************************************************************)
\* A block number that is not given is read from the chain, or from the relay.
\* The batch size is refused in mode storage, but only by synchronize.
Resolve ==
  /\ \/ /\ command.name = "synchronize" /\ command.diffMode = "storage"
        /\ command.blockBatch # Unlimited
        /\ From("resolve", "exit")
        /\ UNCHANGED optionVars
     \/ /\ ~(command.name = "synchronize" /\ command.diffMode = "storage"
             /\ command.blockBatch # Unlimited)
        /\ From("resolve", IF command.name = "synchronize" THEN "diff" ELSE "tick")
        /\ srcBlocknr' = IF srcBlocknr = Latest THEN CurrentBlockNumber + 1 ELSE srcBlocknr
        /\ targetBlocknr' \in IF targetBlocknr = Latest THEN 1..MaxBlock ELSE {targetBlocknr}
        /\ srcBlock' = srcBlocknr'
  /\ UNCHANGED <<command, fields, diffBase, sent, record>>

\* Cron; outside mode srcTx the counters of the loop are made up.
Tick ==
  /\ From("tick", "diff")
  /\ srcBlock' = IF command.diffMode = "srcTx" THEN srcBlocknr ELSE 1
  /\ UNCHANGED <<command, fields, srcBlocknr, targetBlocknr, diffBase, sent, record>>

\* getDiff starts at the block after the relay's record, if there is a relay.
Base ==
  IF command.diffMode # "storage" /\ relayContract /\ proxyContract
  THEN record + 1 ELSE srcBlocknr

\* The block up to which a run of the loop counts.
LoopEnd ==
  IF command.name = "continuous-synch" /\ command.diffMode # "srcTx" THEN 2 ELSE targetBlocknr

\* Mutant: getDiff does not ask whether init was successful.
NoDiffOfStorage == command.diffMode = "storage" /\ command.proxyGiven /\ ~migrationState

\* getDiff returns undefined without a look at the chains.
NoDiff ==
  \/ ~initialized
  \/ command.diffMode = "storage" /\ command.proxyGiven /\ ~migrationState

\* getDiff returns no differences without a look at the chains.
EmptyDiff ==
  /\ ~NoDiff
  /\ \/ command.diffMode = "srcTx" \/ (command.diffMode = "getProof" /\ ~command.proxyGiven)
  /\ targetBlocknr # Latest /\ Base # Latest /\ Base > targetBlocknr

GetDiff ==
  /\ \/ /\ NoDiff /\ UNCHANGED diffBase
        /\ From("diff", Over) \/ From("state-diff", "end")
     \/ /\ ~NoDiff
        /\ diffBase' = IF EmptyDiff THEN diffBase ELSE Base
        /\ From("diff", "migrate") \/ From("diff", "advance") \/ From("state-diff", "end")
        /\ place' = "migrate" => ~EmptyDiff
  /\ UNCHANGED <<command, fields, optionVars, sent, record>>

\* Mutant: migrateChangesToProxy does not ask whether the proxy is migrated.
MigrateUnconditionally ==
  /\ \/ /\ initialized /\ relayContract
        /\ sent' = sent \cup {"update"}
        /\ From("migrate", "advance") \/ From("migrate", Over)
     \/ From("migrate", "advance") /\ UNCHANGED sent
  /\ UNCHANGED <<command, fields, optionVars, diffBase, record>>

\* migrateChangesToProxy with keys that changed: a failing update makes it return
\* false, and so does every refusal; the addBlock in front of it may have been sent
\* although its call fails.
MigrateChangesToProxy ==
  /\ \/ /\ initialized /\ migrationState /\ relayContract
        /\ sent' = sent \cup {"update"}
        /\ From("migrate", "advance") \/ From("migrate", Over)
     \/ From("migrate", "advance") /\ UNCHANGED sent
  /\ UNCHANGED <<command, fields, optionVars, diffBase, record>>

\* Mutant: the counter stays.
LoopWithoutCounter ==
  /\ place = "advance"
  /\ place' = IF command.diffMode # "srcTx" /\ LoopEnd > srcBlock THEN "diff" ELSE "options updated"
  /\ UNCHANGED <<command, fields, optionVars, diffBase, sent, record>>

\* The end of the loop: in mode srcTx there is one turn; in the others the same diff
\* is asked for again, as often as a batch fits between the blocks.
\* continuous-synch advances by what is left if that is less.
LoopTurn ==
  /\ place = "advance"
  /\ srcBlock' = srcBlock +
       IF command.name = "continuous-synch" /\ command.blockBatch > LoopEnd - srcBlock
       THEN LoopEnd - srcBlock ELSE command.blockBatch
  /\ place' = IF command.diffMode # "srcTx" /\ LoopEnd > srcBlock' THEN "diff" ELSE "options updated"
  /\ UNCHANGED <<command, fields, srcBlocknr, targetBlocknr, diffBase, sent, record>>

\* continuous-synch moves on to what is there now.
UpdateOptions ==
  /\ From("options updated", Over)
  /\ IF command.name = "continuous-synch"
     THEN IF command.diffMode = "srcTx"
          THEN srcBlocknr' = CurrentBlockNumber + 1 /\ targetBlocknr' \in 1..MaxBlock
          ELSE srcBlocknr' = Latest /\ targetBlocknr' = Latest
     ELSE UNCHANGED <<srcBlocknr, targetBlocknr>>
  /\ UNCHANGED <<command, fields, srcBlock, diffBase, sent, record>>

\* A call of a callback of cron that fails ends the callback, any other one the
\* process.
CallFails ==
  /\ \/ place \in {"get-curr-blocknr", "fork", "state-diff", "resolve"} /\ place' = "end"
     \/ place \in {"diff", "migrate", "options updated"} /\ place' = Over
  /\ UNCHANGED <<command, fields, optionVars, diffBase, sent, record>>

\* Another process migrates the proxy, or updates it.
OthersRecord ==
  /\ record < MaxBlock /\ record' = record + 1
  /\ place # "exit" /\ place # "end"
  /\ UNCHANGED <<command, place, fields, optionVars, diffBase, sent>>

Command ==
  \/ Options \/ Constructor \/ LightInit \/ InitContracts \/ ReadAddresses \/ ReadMigrationState
  \/ MigrationStatus \/ Fork
  \/ Resolve \/ Tick \/ GetDiff \/ MigrateChangesToProxy \/ LoopTurn \/ UpdateOptions

CommandNext == Command \/ CallFails \/ OthersRecord

CommandSpec == CommandInit /\ [][CommandNext]_commandVars /\ WF_commandVars(Command)

-----------------------------------------------------------------------------
(***************************************************************************)
(* Properties.                                                             *)
(***************************************************************************)
\* An update is only ever sent to a proxy that is migrated, although no command
\* looks at what init returns and init may fail between any two of its calls.
UpdatesOnlyMigrated == "update" \in sent => record # 0 /\ command.proxyGiven

\* The -1 that stands for an unknown block number never becomes the block a diff
\* starts at.
DiffsStartAtBlocks == diffBase # 0

\* However the blocks divide into batches, a callback that synchronises comes to
\* its end.
CallbacksEnd == (place = "diff") ~> (place \in {"tick", "end"})

=============================================================================
