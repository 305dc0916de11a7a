# Fraxtal op-reth: TLA+ models and proofs

This directory holds a verification project for `fraxtal-op-reth`, the Fraxtal
execution client (an op-reth node with its own block executor, EVM configuration and
hard-fork state transitions). It consists of TLA+ modules, TLC configurations that
model-check them on small instances, and theorems that the TLA+ proof system checks for
every value of the constants. `PROJECT.json` lists the components, the runs, which lines
of the source each definition models, the hazards, the findings and the theorems.

1. [Inventory](#1-inventory)
2. [Modules and how they correspond to the code](#2-modules)
3. [Runs, bounds and what they show](#3-runs)
4. [Fairness](#4-fairness)
5. [What is proved](#5-proofs)
6. [Findings](#6-findings)
7. [What is not modelled](#7-not-modelled)
8. [Plan](#8-plan)

## 1. Inventory

The node takes blocks or payload attributes from the consensus client (or from a local
miner in `--dev` mode), executes them and persists the state. The engine, the pool, the
EVM interpreter, the database and the network stack are upstream crates; the code of this
repository sits between them.

| component | state | operations | talks to |
|---|---|---|---|
| fork activation and transition blocks (`op-evm/src/block/{mod,canyon,granite}.rs`, `holocene/`, `isthmus/`) | none of its own: the chain specification and the block timestamp | the transition test of each fork, called by `apply_pre_execution_changes` | the chain specification, the block executor |
| irregular state transitions (`canyon.rs`, `granite.rs`, `holocene/`, `isthmus/`, `utils.rs`) | accounts in the cache of the block (revm `State`) | `ensure_create2_deployer`, `migrate_frxusd`/`migrate`, `migrate_frax_holocene`, `migrate_frax_isthmus`, `load_contract_account`, `get_contract_code` | the database through the cache |
| block executor (`op-evm/src/block/mod.rs`) | `gas_used`, `da_footprint_used`, `receipts`, the EVM's cache, the output in the caller's hands | `new`, `apply_pre_execution_changes`, `execute_transaction_without_commit`, `commit_transaction`, `finish` | the EVM, the receipt builder, the payload builder or the engine |
| payload building and validation (`op-evm/src/block/mod.rs`, `evm/src/lib.rs`) | two executors of the same block | build with refusals and drops; replay the payload's transactions | through the sealed block only |
| development payload attributes (`node/src/node.rs`, `run.sh`) | none: it reads the system clock and the parent | `OpLocalPayloadAttributesBuilder::build` | the local miner, the engine |
| EVM configuration (`evm/src/lib.rs`) | none: pure derivations | `evm_env`, `next_evm_env`, `evm_env_for_payload`, `context_for_*` | the chain specification, the executor factory |
| EVM wrapper and factory (`op-evm/src/lib.rs`) | one flag, `inspect` | delegation to op-revm | the block executor |
| node composition and network (`node/src/{node,network}.rs`, `chainspec/src/bootnodes.rs`) | configuration | `components`, `network_config` | reth's builders |
| proof history (`node/src/proof_history.rs`) | a storage handle | launch; a metrics loop | an external execution extension |
| chain specifications, command line (`chainspec/`, `bin/`) | two lazily built values | parse a name or a file | everything that asks for forks |

### What is hard, and what makes each part correct

* **Transition blocks.** The executor sees the timestamp of its block and not that of the
  parent. It takes a fork for "just activated" when the fork is active now and was not
  *two seconds ago*. That is a statement about the parent only if blocks are two seconds
  apart. Correct: each transition runs in exactly the block in which its fork becomes
  active; never twice on one branch of the chain (it is not idempotent), never not at all;
  also after a reorganisation across that block.
* **Irregular state transitions.** Holocene on mainnet rewrites the code of 25
  contracts and 82 words of storage before any transaction of the block. A migrated
  contract's code goes to an implementation address, the proxy's code takes its place.
  Reads can fail between two steps, the error of one kind of read is swallowed, an offset can lie past the end of a code (a panic), an account may
  be committed that was not loaded (a panic), the node can stop in between. Correct: the
  disk sees all of a fork's migration or none of it, every contract still runs its own
  logic, proxies are sound, holders keep their balances, and a fork that the chain reaches
  is migrated in the end. A sealed block may still be lost with the process before it is
  persisted, or reverted by a reorganisation from what its execution recorded, which is not
  what was there: the contracts must follow the blocks that are left.
* **Block executor.** Counters are `u64`, two subtractions are unchecked and the release
  profile does not enable overflow checks; an executed transaction may be committed,
  dropped or fail in between; the gas scalar changes in the middle of the block; deposits
  are exempt from some checks, depending on the fork. Correct: the subtractions never wrap
  around, receipts and the block's result account for the committed transactions and no
  other, deposit receipts hold the nonce from before.
* **Build and validate.** The builder tries and throws away transactions that the validator
  never sees. Correct: the validator gets the same receipts, state and result, and never
  refuses the block.
* **EVM configuration.** The same block is configured in three ways that share no code. The
  builder takes the base fee from the parent, whose extra data has one of three forms,
  depending on the upgrades of the *parent*, and turns an error into a base fee of zero.
  Correct: all ways give the same executor; no upgrade on the way makes the node refuse what
  it built.
* **Development chain.** Timestamps follow a clock that may stand still, jump, or go back
  between building and executing. Correct: attributes are accepted, timestamps grow, the
  fork flags fit the timestamp that was chosen.

## 2. Modules

| module | models | extends / instantiates |
|---|---|---|
| `Hardforks` | activation by timestamp, the look-back test | |
| `ForkTransition` | chains of executed blocks, unwound at will; which block runs which transition | `Hardforks` |
| `ForkTransitionProofs` | theorems about it | `ForkTransition`, TLAPS |
| `TokenUpgrades` | *abstract*: what the transitions promise to a caller of the contracts | |
| `FraxMigration` | every step of the four transitions on cached accounts, per chain id, with failures | `Hardforks`; instantiates `TokenUpgrades` |
| `FraxMigrationProofs` | theorems about it, the refinement of `TokenUpgrades` included | `FraxMigration`, TLAPS |
| `MigrationUnwind` | the same under a chain that loses sealed blocks: in a crash, or in a reorganisation before or after they are persisted | `FraxMigration` |
| `MigrationUnwindProofs` | theorems about it, the refinement with reverts included | `MigrationUnwind`, `FraxMigrationProofs` |
| `BlockExecutor` | `FraxtalBlockExecutor` | |
| `BlockExecutorProofs` | theorems about its types, limits and cumulative gas | `BlockExecutor`, TLAPS |
| `BlockLedgerProofs` | theorems about deposit nonces and the result of the block | `BlockExecutorProofs` |
| `BuildThenValidate` | two executors of one block | `BlockExecutor`, and a second instance of it |
| `BuildThenValidateProofs` | theorems about both executors | `BuildThenValidate`, `BlockLedgerProofs`, and a second instance of that |
| `EvmConfig` | the three environments and contexts of a block, the next base fee, the executor made of them (operators) | `Hardforks` |
| `BlockTree` | blocks built one upon the other across upgrades, checked and replayed | `EvmConfig` |
| `BlockTreeProofs` | theorems about it | `BlockTree`, TLAPS |
| `DevChain` | the development node's payload attributes, clock and chain | `ForkTransition` |
| `DevChainProofs` | theorems about it: attributes are accepted, a steady clock skips no transition | `DevChain`, `ForkTransitionProofs` |
| `MC*` | instances for TLC: sets of activations, transactions, contracts | the module they are named after |

Definitions whose comment starts with "Mutant" are the module's own control group: a
plausible bug in a definition, which the run of each property must notice
(`PROJECT.json`, "mutants"). They are in no specification.

### Hardforks and ForkTransition

`AtTransition` is the condition at the head of `ensure_create2_deployer` (`canyon.rs:32-34`),
`migrate_frxusd` (`granite.rs:53-55`), `migrate_frax_holocene` and `migrate_frax_isthmus`:
active at the timestamp, not active at `timestamp.saturating_sub(2)`. `ForkTransition` keeps
the chain as a sequence of blocks with their timestamps and the transitions they ran
(`ExecuteBlock` is `apply_pre_execution_changes` reduced to *which* transitions run),
`Unwind` is a reorganisation. The variable `gaps`, chosen once, is the set of block times
that occur on this chain; the properties are conditional on it, and together they say what
the look-back relies on.

### TokenUpgrades, FraxMigration and MigrationUnwind

`FraxMigration` keeps the disk (account by account: code and storage slots), the cache of
the block in execution, and a program counter into the block's program. The program is what
`apply_pre_execution_changes` does in this block on this chain: the concatenation of the
steps of the forks at their transition, in the order of the calls. The rows of the tables
are data (`Granite`, `Holocene`, `Isthmus`); the tables are cut to one or a few rows of each
kind, with both kinds of token tables (the five common tokens are two, the token that testnet
has not is one, the four bonds of mainnet are one; the two oracles are one; the Fraxlend
pairs and the gauges of the naming changes are one each), because the loop body does not depend on the row. A code is the code
of some address with a set of patches; a slot holds a word. `CodeLength` gives the proxy and
the two tokens of Granite their lengths in mainnet's genesis file, against which the patch
offsets are checked. The other patched contract, a Fraxlend pair, is deployed after genesis and
its length is not in the repository: it gets the largest length a code can have, so that an
offset past its real end would not show. The steps:

* `DeployCreate2`: `ensure_create2_deployer`;
* `MigrateToProxy`: `migrate` of `granite.rs`, and the body of the loops over tokens and
  oracles in `holocene/mod.rs` and `isthmus/mod.rs`;
* `ChangeByteCode`, `ChangeStorage`: the two naming loops of `holocene/mod.rs`;
* `Abandon`: a `?` in the middle of a transition, or the node stopping: the cache is gone;
* `Panic` (inside a step): an offset past the end of the code
  (`copy_from_slice` on a range out of bounds), or a commit of an account that the cache
  does not hold. The process is gone; `MigrationUnwind` starts it again;
* `Transact`, `Seal`: the rest of the block, which is upstream code.

`Commit`/`Changed` model what revm makes of a touched account: an empty account stays empty; a
written slot keeps the other slots; a written word of zero is *no change*, because the slots
are built with `EvmStorageSlot::new_changed(original: 0, present)` and are dropped when both
are equal. The table of naming changes has fourteen such writes, of words that follow a
shorter string; the model drops them too.

`TokenUpgrades` says what this means to someone who calls a contract: it has a *logic* (the
code that a call ends up executing), which stays its own, gets the fork's patches, and is
upgradeable from some block on, all contracts of a fork in one block, once. The refinement
mapping (`Promise` in `FraxMigration`) computes the logic from the disk through the proxy.

`MigrationUnwind` puts a second block below the head and lets the chain lose the head.
`disk` then stands for the state of the head, wherever it is kept; `persisted` says where.
A block that is only in memory is dropped without a trace (`LoseMemory`, `Unwind`). A
persisted block is unwound from its reverts (`Reverted`): accounts as they were, and for
every word that a transition has written the *recorded* original, which is zero whatever was
there, because `EvmStorageSlot::new_changed` is called with `U256::default()`. `zeroed` is a
history of the forks that were unwound in this way. `TokenUpgrades!SpecWithReverts` is the
promise with a step that takes forks back, and `KeepsPromiseAcrossReverts` the refinement.
What the zeros do to names and symbols is said by `NamesFollowForks`. A node that checks the
state root of the unwound state against the parent's header would notice them; that check is
upstream and not in the model. Reads of historical states are made from the same records and
see the same zeros.

### BlockExecutor

The variables are the fields of `FraxtalBlockExecutor`; `pending` is the `FraxtalTxResult`
in the caller's hands (at most one, as the borrow of the caller allows), `committed` is a
history variable. `Execute` and `Reject` are the two outcomes of
`execute_transaction_without_commit`, whose error is the first of its checks that fails; `Commit` and `CommitFails` are
those of `commit_transaction`, which reads the depositor before anything else; `Finish` is
`finish`; it is called with no balance increments, so the error paths of crediting them, which
cannot be reached then, are left out. `Add`, `Sub` and `Saturate` are the arithmetic of a `u64` whose largest value is
the constant `U64Max`. `PreExecutionFails`, `ReadFails` and `CommitFails` are
the database's failures where the executor reads it (the reads of the footprint estimation
are among those of `ReadFails`). The EVM enters as a table of transactions (limit, gas used,
compressed size, whether it sets the gas scalar) and the nonce check.

### BuildThenValidate

The first executor is used in any way its interface allows (`Build`). Once it has finished,
the second one executes `committed`, commits each output, gives up at the first refusal,
and starts over on a new executor when the database fails, at whichever read. Both have
the same `block` environment; that this is so is the subject of the next two modules.

### EvmConfig and BlockTree

`EvmConfig` has one operator per method of `FraxtalEvmConfig`: `EvmEnv`, `NextEvmEnv`,
`EvmEnvForPayload`, `ContextForBlock`, `ContextForNextBlock`, `ContextForPayload`; the chain
specification is the argument `forks`, the activation times of the eight upgrades from Regolith
to Jovian. The payload route takes its spec id from a function of its own
(`SpecByTimestampAfterBedrock`), the other two from an upstream one (`SpecAt`); that they agree
is a lemma (`SpecsAgree`). An environment holds all fields that the code fills
but the constants (difficulty, slot number, chain id). `CreateEvm` and `CreateExecutor` are
the factories. `NextBlockBaseFee` and what it reads of the parent are upstream code, modelled
by what `next_evm_env` asks of it: Holocene's parameters or Jovian's parameters and
smallest base fee out of the parent's extra data, and an error when these cannot be read.

`BlockTree` builds blocks on the head (`Build`), for a consensus client's request or with
the environment variables of a development node (`DevRequest`, `node.rs:71-93`), whatever
gas and footprint the execution used; the assembled block is adopted or refused by the
check of its base fee against its parent; the chain may lose its head meanwhile
(`Reorganise`). `RoutesAgree` compares whole executors, environment and context included.

### DevChain

`BuildAttributes` is `OpLocalPayloadAttributesBuilder::build`, whose timestamp is
`NextTimestamp`, the later of the clock and the parent's timestamp plus one; `SetClock` moves the
clock to any second; `Acceptable` is what the engine and the beacon-root call ask; `Produce` uses
`ExecuteBlock` of `ForkTransition` with whatever gap results. The history variable `steady` says
that the clock never was more than two seconds ahead of the tip when attributes were built.
A clock before 1970, on which `build` panics, is left out.

## 3. Runs

| run | module, configuration | bounds | shows |
|---|---|---|---|
| `ForkTransition` | `MCForkTransition`, `ForkTransition.cfg` | two forks, activations never/0/1/4/7, genesis at 0/1/3, any set of gaps from {1,2,3}, timestamps to 9 | `ExactlyAtActivation` for gap 2, `NotSkipped` for gaps of 2 or less, `RunsAgainOnlyOneSecondLater` for any |
| `MigrationMainnet` | `MCFraxMigration`, `MigrationMainnet.cfg` | chain 252, each of four forks never/2/3/4, three blocks, one fault | no panic; `KeepsPromise` (refinement of `TokenUpgrades`) |
| `MigrationDevnet` | `MCMigrationUnwind`, `MigrationDevnet.cfg` | chain 2521 without one of its tokens, forks at 2/3, one fault, which may be a swallowed code error, one reorganisation | `ProxiesAreSound`, `AllOrNothing`, `ProxiesFollowHead`, `HoldersUntouched`, `EventuallyMigrated` |
| `MigrationUnwind` | `MCMigrationUnwind`, `MigrationUnwind.cfg` | chain 252, each of four forks never/2/4, one fault, two reorganisations | `NamesFollowForks`, `KeepsPromiseAcrossReverts` (refinement of `TokenUpgrades` with reverts) |
| `BlockExecutor` | `MCBlockExecutor`, `BlockExecutor.cfg` | ten transactions, gas limit 7, `U64Max` 15, three receipts, four fork combinations | the two subtractions never wrap, receipts, nonces and result account for the block |
| `BuildThenValidate` | `MCBuildThenValidate`, `BuildThenValidate.cfg` | five transactions, three receipts, two database failures | `SameOutcome`, `NeverRefused`, `EventuallyValidated` |
| `BlockTree` | `MCBlockTree`, `BlockTree.cfg` | three blocks, seven chain specifications, three genesis blocks, two requests, 18 environments, three uses of gas and footprint | `RoutesAgree`, `RefusedOnlyOnGenesis`, `PanicsOnlyMisconfigured` |
| `DevClock` | `MCDevChain`, `DevClock.cfg` | one fork, clock at 0/2/3/5/6, timestamps to 7 | `AttributesAccepted`; `SteadyClockSkipsNothing` |
| `MigrationTestnetSfrax` | `MigrationTestnetSfrax.cfg` | chain 2522 | *violation*, see findings |
| `MigrationCodeFault` | `MigrationCodeFault.cfg` | chain 252, one failed code read | *violation* |
| `ExecutorBeforeRegolith` | `ExecutorBeforeRegolith.cfg` | before Regolith | *violation* |
| `DevSkipsTransition` | `DevSkipsTransition.cfg` | as `DevClock` | *violation* |

Why the bounds are enough:

* `MaxTimestamp`: every case of the transition test is decided by the block, its parent and
  the activation; nine seconds give up to nine blocks, with activations at or before
  genesis, at a block, between two blocks and never. The theorems of `ForkTransitionProofs` remove the bound.
* Forks of `MigrationMainnet`: {never, 2, 3, 4} makes any two forks coincide in a block, fall
  in one block from different timestamps, or in neighbouring blocks, and leaves a block
  before the first and after the last. One fault is enough for a read error at any step and a
  retry: a block's cache starts empty, so a second fault meets the same states.
* `MigrationUnwind`: one block below the head is kept, because a second reorganisation that
  goes deeper meets a state of which nothing of the lost block is left; two reorganisations
  give unwound, executed again and unwound again, once from memory and once from the database.
* `BlockTree`: a base fee depends on the parent alone, and its extra data on the parent's
  attributes. Three blocks put Holocene and Jovian in the same block, in neighbouring blocks
  and before each of the two, with blocks one or two seconds apart. The theorems of
  `BlockTreeProofs` remove the bounds.
* `U64Max` = 15 with a limit of 7: sums reach past the limit and products past `U64Max`
  (the transaction of size 15), so both wrap-around and saturation occur. `MaxReceipts` = 3
  lets the L1 info deposit come before, between and after transactions that pay for data
  availability.
* Deadlock is not checked in these runs: a chain stops at `MaxTimestamp`, a finished executor
  has nothing to do, and a refused block ends a validation.

`AllOrNothing`, `ProxiesFollowHead` and `ProxiesAreSound` are checked on a chain where a contract of the table
does not exist: its step turns the empty account into a proxy to an empty implementation,
and this is allowed. Chain ids that no arm of the code mentions get mainnet's tables; on such
a chain without mainnet's contracts the naming loop panics at the transition block (an
offset past the end of an empty code), again at every restart. The panic, the restart (`RestartFromDisk`) and
that nothing reaches the disk are in `MigrationDevnet`, through a failed code read.

## 4. Fairness

* `MigrationUnwind!UnwindFairSpec`: weak fairness of `UnwindProgress`, the steps of block
  execution and the restart after a panic taken together. The consensus client keeps sending
  blocks and sends a block again whose execution failed or that was lost, and a started
  `apply_pre_execution_changes` runs without waiting for anybody. No fairness for `Abandon`,
  `Crash`, `Unwind`, `Persist` or `Transact`. Faults and reorganisations are bounded by
  `MaxFaults` and `MaxUnwinds`, so `EventuallyMigrated` says: once the interruptions end, a
  fork that the chain reaches is migrated and stays so.
* `BuildThenValidate!FairSpecBoth`: weak fairness of the validator's steps. A validation is a
  loop over the block's transactions. Nothing forces the builder to finish, so
  `EventuallyValidated` starts where a block exists. Database failures are bounded by
  `MaxRetries`.
* `ForkTransition`, `BlockExecutor`, `BlockTree` and `DevChain` state safety and assume no fairness.

## 5. Proofs

Every safety invariant and action property that a passing run checks, and each of the two
refinements, is also a theorem, checked by `tlapm` to the last leaf for every value of
the constants. What the runs check and no theorem states are the two liveness properties,
`EventuallyMigrated` and `EventuallyValidated`: the prover does not reason about fairness
and ENABLED.

### Assumptions

The named assumptions on the constants, which TLC evaluates on every run:

* `NeverAssumption`: a fork that never activates has no timestamp.
* `ForkTransitionAssumption`, `DevChainAssumption`: timestamps are natural numbers, a block is
  later than its parent; the timestamp of a development chain's genesis fits in 64 bits.
* `FraxMigrationAssumption`: the contracts that a chain has are addresses, and none of them is
  the proxy whose code is copied or lies at an implementation address.
* `BlockExecutorAssumption`: a transaction uses at most its gas limit, fields are `u64`, forks
  are Booleans. No bound on the sets or the width.
* `EvmConfigAssumption`, `BlockTreeAssumption`: the chain's base fee parameters are not zero; a
  genesis header and a client's request set both parameters or none, with room for a gas
  target; a variable of the environment holds at most one number.

Some theorems have hypotheses of their own, on which the code relies without a check:

* `SpacedBlocks`: no two blocks are less than two seconds apart, the look-back of the transition
  test. With blocks one second apart a fork may run twice (`RunsAgainOnlyOneSecondLater`), and
  the second run takes the proxy's code for the token's. The theorems that have
  this hypothesis say nothing of such a chain.
* `PromptBlocks`: no two blocks are more than two seconds apart. With a longer gap a fork may be
  skipped (`NotSkipped`, finding 4; `SteadyClockSkipsNothing` says when a development chain is
  safe).
* `CodeFaults = FALSE`: a read of a code by its hash does not fail. Finding 2 is what happens
  otherwise.
* `PatchedAreDeployed`, for `TransitionsNeverPanic` only: the chain has the contracts that its
  tables patch. An offset past the end of an empty code panics.

### The arguments

**ForkTransitionProofs.** The inductive invariant is `ChainInv`: the chain is well typed,
consecutive blocks are a gap of `gaps` apart (`Spaced`), and each block applied what the
test says of its timestamp (`AppliedByTimestamp`). It is preserved by execution (lemma
`ExecutedBlock`) and by unwinding to a prefix (`UnwindStep`).
* `TransitionsExactlyAtActivation` follows from `ChainInv` alone: with gap 2 the look-back
  *is* the parent's timestamp.
* `TransitionsRunAgainOnlyOneSecondLater` needs more, since `ChainInv` speaks of neighbours and
  the property of any two blocks: `Ordered`, blocks that are `n` places apart are at least `n`
  seconds apart. Two blocks that both pass the test are less than two seconds apart, which
  leaves room for a parent and its child.
* `TransitionsNotSkipped`: the property itself is inductive given `ChainInv`
  (`PromptBlockTriggers`, which the development chain uses as well). If the fork was active in
  the parent, an earlier block ran its transition; otherwise the parent is within the
  look-back and the new block does.

**FraxMigrationProofs.** The properties speak of the disk, and a block works on its cache, one
step at a time. `MigrationInv` therefore says the same of two sets of accounts: the disk
is the outcome (`Upgraded`) of the steps of the forks in `done`, and what the block *sees*
(`View`, the cache over the disk) is the outcome of these and of the steps before `pc`. The
disk changes only when the block is sealed, and then becomes the view. `Upgraded` has three
parts: exactly the executed proxy steps have made proxies (`ProxiesMatch`), every proxy
has its admin and its implementation (`ProxiesPoint`), and every contract's code is at the address where
callers end up, with the patches of the executed steps (`LogicIsKept`). That a step keeps it
rests on two facts about the tables of each chain id: `StepShape`, what a step of
each kind reads and writes, and that all steps of all forks have one place each in one
order (`Order`, `HasPlace`), so that no two steps touch the same account in the same
way, and no implementation address is shared or is a contract. What a transition does to the
cache is first reduced to its effect on all accounts (`Performs`, `Effects`).
* `MigrationAllOrNothing`, `MigrationMakesSoundProxies` and `TypeCorrect` follow from the disk's
  half of the invariant.
* `MigrationFollowsHead` gets rid of the history `done`: with `HeadInv` it is the set of forks
  active at the head and not at genesis, because a block that crosses an activation is one
  whose look-back reaches the head. It is the safety half of `EventuallyMigrated`.
* `TransitionsNeverPanic`: a patch fits because the code that is patched is the contract's own
  (`LogicIsKept`), and an account that is committed was loaded.
* `MigrationLeavesHolders` is a property of steps: a changed account keeps every word
  that the step does not write.
* `MigrationKeepsPromise`: under the mapping every reachable state shows callers the logic that
  `TokenUpgrades` promises for `done` (`CallersSeeDone`); sealing a block is then one
  step of it, and everything else a stutter.

**MigrationUnwindProofs.** `UnwindInv` adds to `MigrationInv` the block below the head
(`BelowInv`): its accounts are the outcome of *its* forks, and what the head recorded as overwritten are
words that a fork of the head wrote. The codes come back as they were, so
`UnwindAllOrNothing` needs nothing about words; `UnwindLeavesSoundProxies`, and
`UnwindKeepsPromise`, which follows the implementation word to the logic, need that the words
that a reverted fork zeroed belong to accounts that are no proxies any more.
`UnwindFollowsHead` adds that the block below, too, has the forks its timestamp calls for. `UnwindNamesFollowForks` needs the two halves again for names (`NamesInv`): the name
of a contract is the one its fork gave it, its own, or a zero left by a fork in `zeroed`.

**BlockExecutorProofs.** `TypeCorrect`; `GasNeverExceedsLimit`: after an accepted check the
gas used plus the limit of the output in flight is within the block's limit, which is what
keeps the *next* subtraction from wrapping, so both halves of `GasWithinLimit` are needed for
the induction; `FootprintNeverExceedsLimit` in the same way; `ReceiptsAccountForGas` for the
chain of cumulative gas values.

**BlockLedgerProofs.** `LedgerInv`: the state, the counters, the receipts and the result of an
executor are functions of the block environment and of `committed`. The counters are kept
as *ledgers*, functions that hold the counter after each transaction and wrap around or
saturate as the code does. A property that is itself written with a recursive sum
(`ResultAccountsForBlock`) is reached because a ledger is the only one of its transactions
(`OneGasLedger`, `OneFootprintLedger`): of two different ones there would be a first place
where they differ (`Smallest`, from the well-foundedness of the natural numbers), and the
entry there is computed from the one before. This is induction over data without a
theorem that takes an operator as its parameter. `ReceiptsHaveDepositNonces` needs that the nonce in
the state counts the sender's committed transactions.

**BuildThenValidateProofs.** Both executors satisfy `LedgerInv` (the second by instantiating
`BlockLedgerProofs`), so what each has done is a function of what it has committed. `BothInv`
adds that every transaction of `committed` passed the checks against the ledgers before it
(`AllPassed`), and that the validator has committed a prefix of the block and has the next
transaction in flight (`ValidatorFollows`). A validator checks the next transaction
against the ledgers of the prefix, which are those of the block cut off: hence
`BlocksAreNeverRefused`. At the end both ledgers belong to the same transactions: hence
`ValidatorsAgree`. Neither `SameOutcome` nor `NeverRefused` is inductive: they say nothing
while the validation runs.

**BlockTreeProofs.** `EnvironmentsAgree` rests on `RoutesOfAssembled`: a header assembled from
the builder's environment and context gives them back on both routes, field by field, and
on `SpecsAgree`, that the two ways to a spec id lead to the same one. The theorems hold for
every set of requests that `BlockTreeAssumption` admits, not for a request with exactly one
parameter of zero.
`NoUpgradeIsRefused` needs `ReadableInv`: every header above genesis, in the chain and below
a block in flight, has extra data that fits the upgrades of its own timestamp, and a block
in flight has the base fee of its parent or the default. The property alone is not
inductive, since it says nothing of the parents that the next block will be built on.
`OnlyMisconfigurationPanics` needs `FeeInv`: on a well configured node every header has
parameters that are both zero or both not, a gas limit with room for a target under them and
under the chain's own, and, where the environment leaves the gas limit open, genesis' gas
limit, which the local builder hands down from block to block.

**DevChainProofs.** `LocalAttributesAccepted` and `DevTypeCorrect` need `AttributesInv`:
attributes in flight are those of their own timestamp, and were made on the block that is still
the tip, since the builder is not asked while they are in flight. `SteadyClockIsSafe` needs
`SteadyInv`: as long as the clock was steady, attributes in flight are at most two seconds after
the tip, wherever the clock has gone since; that no transition is skipped is then kept by the
block made of them (`PromptBlockTriggers`). The property alone is not inductive, since it says
nothing of attributes in flight.

## 6. Findings

1. `migrate_frxusd` upgrades FRAX and sFRAX everywhere but on chain 2522, where it upgrades
   FRAX only; the doc comment makes no exception. (`MigrationTestnetSfrax`)
2. `get_contract_code` turns an error of `code_by_hash` into an empty code, which the
   transition then moves to the implementation: one failed read leaves a token behind a proxy
   without logic. A node that validates the block would notice by the state root; one
   that builds it would seal it. (`MigrationCodeFault`)
3. Before Regolith deposits are exempt from the gas check, so that `gas_limit - gas_used`
   wraps around after a large one, and a full block takes regular transactions. Both
   bundled chain specifications have Regolith from genesis; a specification loaded from a
   file need not. (`ExecutorBeforeRegolith`)
4. "We can safely assume that this will always be triggered upon the transition": not on a
   development chain, where the first block after a pause is more than two seconds after its
   parent (`run.sh` starts from a genesis years older than the clock). All
   forks that lie between the two are active and none was migrated. (`DevSkipsTransition`)

## 7. Not modelled

* **The EVM, the database and the engine**: upstream crates. They enter as the external
  definitions of the map, by how this code uses them.
* **EVM wrapper**: every method delegates to op-revm; the one flag chooses between the
  interpreter with and without an inspector, for the same result. `create_evm` is modelled.
* **Decoding of a payload's transactions** (`tx_iterator_for_payload`): a transaction that
  cannot be decoded or has no signer ends the validation like a refused one.
* **Node composition and network**: one choice among three lists of bootnodes (command line,
  Fraxtal's, the chain specification's) and two discovery flags, made once at start.
* **Proof history**: a launch sequence around an external execution extension; it fails at
  start or not at all.
* **Chain specifications, command line**: data and parsing without state. The fork times and
  chain ids enter as constants; the schedules and genesis extra data of `MCBlockTree` follow
  the two bundled genesis files.
* **The state hook**: it is shown what `commit_transaction` commits and not what the
  transitions commit; who listens, and what is made of a gap, is upstream.
* **The state root check after unwinding**: see `MigrationUnwind`.
* **Contents of the tables**: addresses and words are abstracted to members of small sets. That
  no two implementation addresses collide is checked for the abstracted table only.
* In the 0x15 slots of `holocene/constants.rs` the length words of the long Fraxlend names, and
  the text of names in general: wording, not control.

## 8. Plan

Done, in this order: `Hardforks`, `ForkTransition` and its proofs (everything else depends on
when a transition runs); `TokenUpgrades` and `FraxMigration`; `BlockExecutor` and its proofs;
`BuildThenValidate`; `DevChain` and its proofs; `MigrationUnwind`; the database failures of
`BlockExecutor`; `EvmConfig`, `BlockTree` and its proofs; `FraxMigrationProofs`,
`MigrationUnwindProofs`, `BlockLedgerProofs` and `BuildThenValidateProofs`; the remaining invariants of `BlockTree` and `DevChain`.

Next, proofs:

1. `FraxMigration` on a chain without some of the contracts that its tables patch: an
   invariant that says which of the steps before `pc` cannot panic.
2. The safety part of the liveness properties that is not proved yet: what is left to do gets
   smaller with every step of the fair process, as an action property on a measure.

No further module is planned: what is left is listed in section 7.
