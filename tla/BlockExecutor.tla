--------------------------- MODULE BlockExecutor ---------------------------
(***************************************************************************)
(* FraxtalBlockExecutor: the execution of one block, transaction by        *)
(* transaction.  Executing a transaction yields an output that the caller  *)
(* commits or drops; only a commit changes the state, the gas and          *)
(* data-availability counters and the receipts.  The counters are u64 and  *)
(* the release build does not check their overflow.                        *)
(***************************************************************************)
EXTENDS Integers, Sequences, FiniteSets

CONSTANTS
  Senders,
  Txs,            \* the transactions a caller may offer
  Blocks,         \* the block environments: gas limit and active forks
  U64Max,         \* the largest u64
  InitialScalar,  \* the DA footprint gas scalar of the parent state
  MaxReceipts     \* bound: transactions committed in the block

Tx == [deposit  : BOOLEAN,
       sender   : Senders,
       nonce    : Nat,            \* of a regular transaction
       gasLimit : 0 .. U64Max,
       gas      : 0 .. U64Max,    \* what its execution uses
       size     : 0 .. U64Max,    \* its estimated compressed size
       scalars  : SUBSET Nat]     \* the L1 info deposit sets the gas scalar

BlockEnv == [gasLimit : 0 .. U64Max,
             regolith : BOOLEAN, canyon : BOOLEAN, jovian : BOOLEAN]

ASSUME BlockExecutorAssumption ==
  /\ U64Max \in Nat
  /\ Txs \subseteq Tx
  /\ \A tx \in Txs : tx.gas <= tx.gasLimit
  /\ Blocks \subseteq BlockEnv
  /\ InitialScalar \in Nat
  /\ MaxReceipts \in Nat

VARIABLES
  block,              \* the block environment
  gas_used,
  da_footprint_used,
  receipts,
  state,              \* the nonces and the gas scalar as of the last commit
  pending,            \* the output not yet committed or dropped, at most one
  phase,              \* "new", "started" or "finished"
  error,              \* what the last call returned
  result,             \* what finish returned
  committed           \* the committed transactions (history)

vars == <<block, gas_used, da_footprint_used, receipts, state, pending,
          phase, error, result, committed>>

State == [nonce : [Senders -> Nat], scalar : Nat]

Output == [tx : Txs, footprint : 0 .. U64Max]

Receipt == [cumulative : 0 .. U64Max,
            depositNonce : SUBSET Nat,      \* {} or the nonce
            depositVersion : SUBSET {1}]

TypeOK ==
  /\ block \in Blocks
  /\ gas_used \in 0 .. U64Max
  /\ da_footprint_used \in 0 .. U64Max
  /\ receipts \in Seq(Receipt)
  /\ state \in State
  /\ pending \in SUBSET Output
  /\ \A a, b \in pending : a = b
  /\ phase \in {"new", "started", "finished"}
  /\ error \in {"none", "gas", "footprint", "evm", "database"}
  /\ result \in SUBSET [gas_used : 0 .. U64Max, blob_gas_used : 0 .. U64Max]
  /\ committed \in Seq(Txs)
  /\ Len(committed) = Len(receipts)

----------------------------------------------------------------------------
\* u64: `-` and `+=` wrap around, the saturating operations do not.
Sub(a, b) == IF a >= b THEN a - b ELSE a - b + U64Max + 1
Add(a, b) == IF a + b <= U64Max THEN a + b ELSE a + b - U64Max - 1
Saturate(a) == IF a <= U64Max THEN a ELSE U64Max

\* The database after a transaction: its sender's nonce, and the gas scalar
\* if it is the L1 info deposit.
After(tx, s) ==
  [nonce  |-> [s.nonce EXCEPT ![tx.sender] = @ + 1],
   scalar |-> IF tx.scalars = {} THEN s.scalar ELSE CHOOSE n \in tx.scalars : TRUE]

Init ==
  /\ block \in Blocks
  /\ gas_used = 0 /\ da_footprint_used = 0 /\ receipts = << >>
  /\ state = [nonce |-> [sender \in Senders |-> 0], scalar |-> InitialScalar]
  /\ pending = {} /\ phase = "new" /\ error = "none" /\ result = {}
  /\ committed = << >>

\* apply_pre_execution_changes: the system calls, and the irregular
\* transitions (module FraxMigration); no counter changes.
ApplyPreExecutionChanges ==
  /\ phase = "new" /\ error = "none"
  /\ phase' = "started"
  /\ UNCHANGED <<block, gas_used, da_footprint_used, receipts, state, pending,
                 error, result, committed>>

\* The same when the database fails; nobody goes on with this executor, whose
\* cache may hold half a migration.
PreExecutionFails ==
  /\ phase = "new" /\ error = "none"
  /\ error' = "database"
  /\ UNCHANGED <<block, gas_used, da_footprint_used, receipts, state, pending,
                 phase, result, committed>>

----------------------------------------------------------------------------
\* The first check of execute_transaction_without_commit.
BlockAvailableGas == Sub(block.gasLimit, gas_used)

\* Mutant: deposits are always exempt.
ExceedsGasDepositsExempt(tx) ==
  tx.gasLimit > BlockAvailableGas /\ ~tx.deposit

ExceedsGas(tx) ==
  /\ tx.gasLimit > BlockAvailableGas
  /\ block.regolith \/ ~tx.deposit

\* The transactions that pay for data availability.
Charged(tx) == block.jovian /\ ~tx.deposit

\* jovian_da_footprint_estimation.
DaFootprintEstimation(tx) == Saturate(tx.size * state.scalar)

\* Mutant: the footprint is compared with the whole limit.
ExceedsFootprintAlone(tx) ==
  Charged(tx) /\ DaFootprintEstimation(tx) > block.gasLimit

ExceedsFootprint(tx) ==
  /\ Charged(tx)
  /\ DaFootprintEstimation(tx) > Sub(block.gasLimit, da_footprint_used)

\* What the EVM itself refuses: a regular transaction out of order.
EvmRefuses(tx) == ~tx.deposit /\ tx.nonce # state.nonce[tx.sender]

\* The error of execute_transaction_without_commit, in the order of its checks.
ExecutionError(tx) ==
  CASE ExceedsGas(tx) -> "gas"
    [] ~ExceedsGas(tx) /\ ExceedsFootprint(tx) -> "footprint"
    [] ~ExceedsGas(tx) /\ ~ExceedsFootprint(tx) /\ EvmRefuses(tx) -> "evm"
    [] OTHER -> "none"

\* A caller with no output in hand asks to execute a transaction.
MayExecute(tx) ==
  /\ phase = "started"
  /\ pending = {}
  /\ Len(receipts) < MaxReceipts

\* Mutants: the counters are charged when the transaction is executed, not when
\* it is committed; the EVM keeps the changes of a transaction.
ExecuteCharges(tx) ==
  LET footprint == IF Charged(tx) THEN DaFootprintEstimation(tx) ELSE 0 IN
  /\ MayExecute(tx)
  /\ ExecutionError(tx) = "none"
  /\ pending' = {[tx |-> tx, footprint |-> 0]}
  /\ da_footprint_used' = Saturate(da_footprint_used + footprint)
  /\ error' = "none"
  /\ UNCHANGED <<block, gas_used, receipts, state, phase, result, committed>>

ExecuteKeepsState(tx) ==
  /\ MayExecute(tx)
  /\ ExecutionError(tx) = "none"
  /\ pending' = {[tx        |-> tx,
                  footprint |-> IF Charged(tx) THEN DaFootprintEstimation(tx) ELSE 0]}
  /\ state' = After(tx, state)
  /\ error' = "none"
  /\ UNCHANGED <<block, gas_used, da_footprint_used, receipts, phase,
                 result, committed>>

\* execute_transaction_without_commit, when all its checks pass.
Execute(tx) ==
  /\ MayExecute(tx)
  /\ ExecutionError(tx) = "none"
  /\ pending' = {[tx        |-> tx,
                  footprint |-> IF Charged(tx) THEN DaFootprintEstimation(tx) ELSE 0]}
  /\ error' = "none"
  /\ UNCHANGED <<block, gas_used, da_footprint_used, receipts, state, phase,
                 result, committed>>

\* The same when one of them, or the EVM, returns an error.
Reject(tx) ==
  /\ MayExecute(tx)
  /\ ExecutionError(tx) # "none"
  /\ error' = ExecutionError(tx)
  /\ UNCHANGED <<block, gas_used, da_footprint_used, receipts, state, pending,
                 phase, result, committed>>

\* The same when the database fails, behind the first check, which reads
\* nothing: in the estimation of the footprint or in the EVM.
ReadFails(tx) ==
  /\ MayExecute(tx)
  /\ ~ExceedsGas(tx)
  /\ error' = "database"
  /\ UNCHANGED <<block, gas_used, da_footprint_used, receipts, state, pending,
                 phase, result, committed>>

\* The caller does not want the output.
Drop ==
  /\ pending # {}
  /\ pending' = {}
  /\ UNCHANGED <<block, gas_used, da_footprint_used, receipts, state, phase,
                 error, result, committed>>

----------------------------------------------------------------------------
\* Whether commit_transaction reads the depositor before anything else.
ReadsDepositor(tx) == block.regolith /\ tx.deposit

\* The receipt, with the nonce that the depositor had before the commit.
BuildReceipt(tx, nonces, cumulative) ==
  [cumulative     |-> cumulative,
   depositNonce   |-> IF ReadsDepositor(tx) THEN {nonces[tx.sender]} ELSE {},
   depositVersion |-> IF tx.deposit /\ block.canyon THEN {1} ELSE {}]

\* What a committed output does to the counters and to the state.
CommitOutput(output) ==
  LET tx == output.tx IN
    /\ pending' = {} /\ error' = "none"
    /\ gas_used' = Add(gas_used, tx.gas)
    /\ da_footprint_used' =
         IF Charged(tx) THEN Saturate(da_footprint_used + output.footprint)
                        ELSE da_footprint_used
    /\ state' = After(tx, state)
    /\ committed' = Append(committed, tx)
    /\ UNCHANGED <<block, phase, result>>

\* Mutant: the depositor is read after the commit.
CommitThenRead ==
  \E output \in pending :
    /\ CommitOutput(output)
    /\ receipts' = Append(receipts, BuildReceipt(output.tx, state'.nonce, gas_used'))

\* Mutant: the receipt holds the gas used before the transaction.
CommitReceiptFirst ==
  \E output \in pending :
    /\ CommitOutput(output)
    /\ receipts' = Append(receipts, BuildReceipt(output.tx, state.nonce, gas_used))

\* Mutant: only one arm of the match on build_receipt gives a receipt.
CommitWithoutReceipt ==
  \E output \in pending :
    /\ CommitOutput(output)
    /\ receipts' = IF output.tx.deposit THEN receipts
                   ELSE Append(receipts, BuildReceipt(output.tx, state.nonce, gas_used'))

\* commit_transaction.
Commit ==
  \E output \in pending :
    /\ CommitOutput(output)
    /\ receipts' = Append(receipts, BuildReceipt(output.tx, state.nonce, gas_used'))

\* commit_transaction when the depositor cannot be read: the output is gone.
CommitFails ==
  \E output \in pending :
    /\ ReadsDepositor(output.tx)
    /\ pending' = {} /\ error' = "database"
    /\ UNCHANGED <<block, gas_used, da_footprint_used, receipts, state, phase,
                   result, committed>>

\* Mutant: the gas of the block is read off the first receipt.
LegacyGasUsedFirst ==
  IF receipts = << >> THEN 0 ELSE receipts[1].cumulative

\* finish: the gas of the block is read off the last receipt.
LegacyGasUsed ==
  IF receipts = << >> THEN 0 ELSE receipts[Len(receipts)].cumulative

\* finish, when nothing is in flight.  It has no balances to increment, there
\* are no block rewards, so that the error paths of the increments are left out.
Finish ==
  /\ phase = "started"
  /\ pending = {}
  /\ result' = {[gas_used |-> LegacyGasUsed, blob_gas_used |-> da_footprint_used]}
  /\ phase' = "finished"
  /\ UNCHANGED <<block, gas_used, da_footprint_used, receipts, state, pending,
                 error, committed>>

Next ==
  \/ ApplyPreExecutionChanges \/ PreExecutionFails
  \/ \E tx \in Txs : Execute(tx) \/ Reject(tx) \/ ReadFails(tx)
  \/ Drop \/ Commit \/ CommitFails
  \/ Finish

Spec == Init /\ [][Next]_vars

----------------------------------------------------------------------------
\* From Regolith on, what is used and what the transaction in flight may still
\* use stay within the block's gas limit, so that the unchecked subtraction
\* `gas_limit - gas_used` cannot wrap around and admit anything.
GasWithinLimit ==
  block.regolith =>
    /\ gas_used <= block.gasLimit
    /\ \A output \in pending : gas_used + output.tx.gasLimit <= block.gasLimit

\* The data-availability footprint stays within the gas limit, with the output
\* in flight: the other unchecked subtraction cannot wrap around either.
FootprintWithinLimit ==
  /\ da_footprint_used <= block.gasLimit
  /\ \A output \in pending : da_footprint_used + output.footprint <= block.gasLimit

\* One receipt per committed transaction, each with the gas of the receipt
\* before it plus the gas of its own transaction, and the counter at the last
\* one: dropped, refused and failed transactions leave no gas behind.
CumulativeGas ==
  LET before(i) == IF i = 1 THEN 0 ELSE receipts[i - 1].cumulative IN
    /\ Len(receipts) = Len(committed)
    /\ \A i \in DOMAIN receipts :
         receipts[i].cumulative = Add(before(i), committed[i].gas)
    /\ gas_used = LegacyGasUsed

\* From Regolith on the receipt of a deposit holds the nonce its sender had in
\* the state before it: the number of transactions the sender had in the block
\* until then.
DepositNonces ==
  \A i \in DOMAIN receipts :
    receipts[i].depositNonce =
      IF block.regolith /\ committed[i].deposit
      THEN {Cardinality({j \in 1 .. i - 1 : committed[j].sender = committed[i].sender})}
      ELSE {}

\* The gas scalar that the i-th committed transaction was charged with: that
\* of the last L1 info deposit before it.
ScalarBefore(i) ==
  LET infos == {j \in 1 .. i - 1 : committed[j].scalars # {}} IN
  IF infos = {} THEN InitialScalar
  ELSE CHOOSE n \in committed[CHOOSE j \in infos : \A k \in infos : k <= j].scalars : TRUE

\* The result of the block accounts for the committed transactions and no
\* other: its gas is the sum of what they used, its blob gas the sum of the
\* footprints of those that pay, each at the gas scalar the L1 info deposit
\* before it had set.
ResultAccountsForBlock ==
  LET gas[i \in 0 .. Len(committed)] ==
        IF i = 0 THEN 0 ELSE Add(gas[i - 1], committed[i].gas)
      footprint[i \in 0 .. Len(committed)] ==
        IF i = 0 THEN 0
        ELSE IF Charged(committed[i])
        THEN Saturate(footprint[i - 1] + Saturate(committed[i].size * ScalarBefore(i)))
        ELSE footprint[i - 1]
  IN \A r \in result :
       /\ r.gas_used = gas[Len(committed)]
       /\ r.blob_gas_used = footprint[Len(committed)]

\* "The sum of the transaction's gas limit, Tg, and the gas utilized in this
\* block prior, must be no greater than the block's gasLimit." (block/mod.rs),
\* for the regular transactions, which the check never exempts.
RegularWithinLimit ==
  \A output \in pending :
    ~output.tx.deposit => gas_used + output.tx.gasLimit <= block.gasLimit

=============================================================================
