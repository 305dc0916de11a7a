---------------------- MODULE BuildThenValidateProofs ----------------------
(***************************************************************************)
(* For every set of transactions and any width of the counters: a          *)
(* validator that follows the block of a builder refuses none of its       *)
(* transactions, and ends with the same receipts, state and result.  Both  *)
(* executors satisfy the invariant of BlockLedgerProofs, so what they      *)
(* have done is a function of what they have committed; the validator has  *)
(* committed a prefix of what the builder has, and the checks that the     *)
(* builder made before the prefix ended are those that it makes itself.    *)
(***************************************************************************)
EXTENDS BuildThenValidate, BlockLedgerProofs, SequenceTheorems

USE MaxRetriesAssumption

\* The lemmas about an executor, of the one of the validator.
VP == INSTANCE BlockLedgerProofs WITH
  gas_used <- v_gas_used, da_footprint_used <- v_da_footprint_used,
  receipts <- v_receipts, state <- v_state, pending <- v_pending,
  phase <- v_phase, error <- v_error, result <- v_result, committed <- v_committed

\* A new validator satisfies the invariant of an executor,
LEMMA ValidatorInit == VP!Init => VP!LedgerInv
BY VP!LedgerInit, BlockExecutorAssumption DEF VP!Tx, VP!BlockEnv, Tx, BlockEnv

\* also one that starts over,
LEMMA ValidatorInitAgain == VP!Init' => VP!LedgerInv'
BY ValidatorInit, PTL

\* and every step of the executor keeps it.
LEMMA ValidatorStep == VP!LedgerInv /\ [VP!Next]_(VP!vars) => VP!LedgerInv'
BY VP!LedgerStep, BlockExecutorAssumption DEF VP!Tx, VP!BlockEnv, Tx, BlockEnv

\* A commit appends the output in flight to what the validator has committed.
LEMMA ValidatorCommitStep ==
  ASSUME VP!TypeOK, V!Commit
  PROVE  \E output \in v_pending :
           /\ output.tx \in Txs /\ v_pending' = {} /\ v_error' = "none"
           /\ v_committed' = Append(v_committed, output.tx)
           /\ UNCHANGED <<v_phase, block>>
BY DEF V!Commit, V!CommitOutput, VP!TypeOK, VP!Output

\* The two executors keep the same ledgers.
LEMMA SameLedgers ==
  /\ \A g, txs : VP!GasLedger(g, txs) <=> GasLedger(g, txs)
  /\ \A f, txs, env : VP!FootprintLedger(f, txs, env) <=> FootprintLedger(f, txs, env)
  /\ \A txs, i : VP!ScalarOf(txs, i) = ScalarOf(txs, i)
  /\ \A txs, i, s : VP!TxsBefore(txs, i, s) = TxsBefore(txs, i, s)
  /\ \A receipt, env, txs, i :
       VP!DepositFields(receipt, env, txs, i) <=> DepositFields(receipt, env, txs, i)
<1>1. \A g, txs : VP!GasLedger(g, txs) <=> GasLedger(g, txs)
  BY DEF VP!GasLedger, GasLedger, VP!Add, Add
<1>2. \A txs, i : VP!Infos(txs, i) = Infos(txs, i)
  BY DEF VP!Infos, Infos
<1>3. \A S : VP!Latest(S) = Latest(S) /\ VP!OneOf(S) = OneOf(S)
  BY DEF VP!Latest, Latest, VP!OneOf, OneOf
<1>4. \A txs, i : VP!ScalarOf(txs, i) = ScalarOf(txs, i)
  BY <1>2, <1>3 DEF VP!ScalarOf, ScalarOf
<1>5. \A f, txs, env : VP!FootprintLedger(f, txs, env) <=> FootprintLedger(f, txs, env)
  BY <1>4 DEF VP!FootprintLedger, FootprintLedger, VP!Pays, Pays, VP!Saturate, Saturate
<1>6. \A txs, i, s : VP!TxsBefore(txs, i, s) = TxsBefore(txs, i, s)
  <2>1. \A S : VP!Cardinality(S) = Cardinality(S)
    BY DEF VP!Cardinality, Cardinality
  <2>2. \A txs, i, s : VP!Earlier(txs, i, s) = Earlier(txs, i, s)
    BY DEF VP!Earlier, Earlier
  <2> QED
    BY <2>1, <2>2 DEF VP!TxsBefore, TxsBefore
<1>7. \A receipt, env, txs, i :
        VP!DepositFields(receipt, env, txs, i) <=> DepositFields(receipt, env, txs, i)
  BY <1>6 DEF VP!DepositFields, DepositFields
<1> QED
  BY <1>1, <1>4, <1>5, <1>6, <1>7

\* The steps of the validator are steps of its executor.
LEMMA ValidatorSteps ==
  ASSUME committed \in Seq(Txs), ValidatorNext, ~ValidatorRetries
  PROVE  VP!Next /\ UNCHANGED vars
<1>1. CASE ValidatorStarts
  BY <1>1 DEF ValidatorStarts, V!ApplyPreExecutionChanges, VP!ApplyPreExecutionChanges, VP!Next
<1>2. CASE ValidatorCommits
  BY <1>2 DEF ValidatorCommits, V!Commit, V!CommitOutput, VP!Next, VP!Commit, VP!CommitOutput,
     V!After, V!BuildReceipt, V!Add, V!Saturate, V!Charged, V!ReadsDepositor,
     VP!After, VP!BuildReceipt, VP!Add, VP!Saturate, VP!Charged, VP!ReadsDepositor
<1>3. CASE ValidatorFinishes
  BY <1>3 DEF ValidatorFinishes, V!Finish, VP!Finish, V!LegacyGasUsed, VP!LegacyGasUsed, VP!Next
<1>4. ASSUME Remaining PROVE NextTx \in Txs
  <2>1. CASE Len(v_committed) + 1 \in 1 .. Len(committed)
    BY <2>1 DEF NextTx
  <2> QED
    BY <1>4, <2>1 DEF Remaining
<1>5. \A tx : V!ExceedsGas(tx) <=> VP!ExceedsGas(tx)
  BY DEF V!ExceedsGas, VP!ExceedsGas, V!BlockAvailableGas, VP!BlockAvailableGas, V!Sub, VP!Sub
<1>6. \A tx : V!ExceedsFootprint(tx) <=> VP!ExceedsFootprint(tx)
  BY DEF V!ExceedsFootprint, VP!ExceedsFootprint, V!Charged, VP!Charged, V!Sub, VP!Sub,
         V!DaFootprintEstimation, VP!DaFootprintEstimation, V!Saturate, VP!Saturate
<1>7. \A tx : V!ExecutionError(tx) = VP!ExecutionError(tx) /\ (V!MayExecute(tx) <=> VP!MayExecute(tx))
  BY <1>5, <1>6 DEF V!ExecutionError, VP!ExecutionError, V!EvmRefuses, VP!EvmRefuses,
                    V!MayExecute, VP!MayExecute
<1>8. CASE ValidatorExecutes
  BY <1>4, <1>7, <1>8
  DEF ValidatorExecutes, V!Execute, V!Reject, VP!Execute, VP!Reject, VP!Next, V!Charged, VP!Charged,
      V!DaFootprintEstimation, VP!DaFootprintEstimation, V!Saturate, VP!Saturate
<1>9. CASE ValidatorReadFails
  BY <1>4, <1>5, <1>7, <1>9
  DEF ValidatorReadFails, V!PreExecutionFails, V!CommitFails, V!ReadFails, V!ReadsDepositor,
      VP!PreExecutionFails, VP!CommitFails, VP!ReadFails, VP!ReadsDepositor, VP!Next
<1> QED
  BY <1>1, <1>2, <1>3, <1>8, <1>9 DEF ValidatorNext

----------------------------------------------------------------------------
\* The checks of a transaction, on the ledgers of those before it.
Passes(env, txs, i, gas, footprint) ==
  /\ ~ (txs[i].gasLimit > Sub(env.gasLimit, gas[i - 1]) /\ (env.regolith \/ ~txs[i].deposit))
  /\ ~ (/\ Pays(env, txs[i])
        /\ Saturate(txs[i].size * ScalarOf(txs, i)) > Sub(env.gasLimit, footprint[i - 1]))
  /\ txs[i].deposit \/ txs[i].nonce = TxsBefore(txs, i, txs[i].sender)

\* The builder has checked all that it committed, and what is in flight.
AllPassed ==
  \E gas, footprint :
    /\ GasLedger(gas, committed) /\ FootprintLedger(footprint, committed, block)
    /\ \A i \in 1 .. Len(committed) : Passes(block, committed, i, gas, footprint)

\* An output in flight has passed every check on the present state and counters.
PendingPasses == \A output \in pending : ExecutionError(output.tx) = "none"

\* The two counters and the state, given the ledgers.
LEMMA Counters ==
  ASSUME LedgerInv, NEW gas, GasLedger(gas, committed),
         NEW footprint, FootprintLedger(footprint, committed, block)
  PROVE  /\ gas_used = gas[Len(committed)] /\ da_footprint_used = footprint[Len(committed)]
         /\ \A i \in 1 .. Len(receipts) : receipts[i].cumulative = gas[i]
<1>1. committed \in Seq(Txs) /\ CountersFollow
  BY DEF LedgerInv, TypeOK
<1>2. PICK g : /\ GasLedger(g, committed) /\ gas_used = g[Len(committed)]
               /\ \A i \in 1 .. Len(receipts) : receipts[i].cumulative = g[i]
  BY <1>1 DEF CountersFollow
<1>3. PICK f : FootprintLedger(f, committed, block) /\ da_footprint_used = f[Len(committed)]
  BY <1>1 DEF CountersFollow
<1>4. g = gas /\ f = footprint
  BY <1>1, <1>2, <1>3, OneGasLedger, OneFootprintLedger
<1> QED
  BY <1>2, <1>3, <1>4

\* A transaction is not refused exactly when it passes the checks as the next one.
LEMMA ChecksOfTheNext ==
  ASSUME LedgerInv, NEW tx \in Txs, NEW gas, GasLedger(gas, committed),
         NEW footprint, FootprintLedger(footprint, committed, block),
         NEW more, Len(more) > Len(committed), more[Len(committed) + 1] = tx,
         NEW gas2, gas2[Len(committed)] = gas[Len(committed)],
         NEW footprint2, footprint2[Len(committed)] = footprint[Len(committed)],
         ScalarOf(more, Len(committed) + 1) = ScalarOf(committed, Len(committed) + 1),
         TxsBefore(more, Len(committed) + 1, tx.sender)
           = TxsBefore(committed, Len(committed) + 1, tx.sender)
  PROVE  ExecutionError(tx) = "none"
           <=> Passes(block, more, Len(committed) + 1, gas2, footprint2)
<1> DEFINE n == Len(committed)
<1>1. gas_used = gas[n] /\ da_footprint_used = footprint[n]
  BY Counters
<1>2. StateFollows /\ n \in Nat
  BY DEF LedgerInv, TypeOK
<1>3. n + 1 - 1 = n
  BY <1>2
<1>4. ExceedsGas(tx) <=>
        tx.gasLimit > Sub(block.gasLimit, gas2[n]) /\ (block.regolith \/ ~tx.deposit)
  BY <1>1 DEF ExceedsGas, BlockAvailableGas
<1>5. ExceedsFootprint(tx) <=>
        /\ Pays(block, tx)
        /\ Saturate(tx.size * ScalarOf(more, n + 1)) > Sub(block.gasLimit, footprint2[n])
  BY <1>1, <1>2 DEF ExceedsFootprint, Charged, Pays, DaFootprintEstimation, StateFollows
<1>6. ~EvmRefuses(tx) <=> tx.deposit \/ tx.nonce = TxsBefore(more, n + 1, tx.sender)
  BY <1>2, TxFields DEF EvmRefuses, StateFollows
<1>7. ExecutionError(tx) = "none" <=> ~ExceedsGas(tx) /\ ~ExceedsFootprint(tx) /\ ~EvmRefuses(tx)
  BY DEF ExecutionError
<1> HIDE DEF n
<1> QED
  BY <1>3, <1>4, <1>5, <1>6, <1>7 DEF Passes, n

\* A builder that has committed nothing has nothing to check.
LEMMA BuilderInit == Init => AllPassed /\ PendingPasses
<1> SUFFICES ASSUME Init PROVE AllPassed
  BY DEF Init, PendingPasses
<1>1. PICK gas, footprint : GasLedger(gas, committed) /\ FootprintLedger(footprint, committed, block)
  BY LedgerInit DEF LedgerInv, CountersFollow
<1>2. Len(committed) = 0
  BY DEF Init
<1> QED
  BY <1>1, <1>2 DEF AllPassed

\* A builder commits what it has checked, on the ledgers that it checked it with.
LEMMA BuilderStep ==
  ASSUME LedgerInv, AllPassed, PendingPasses, [Next]_vars
  PROVE  AllPassed' /\ PendingPasses'
<1>1. TypeOK /\ committed \in Seq(Txs)
  BY DEF LedgerInv, TypeOK
<1>2. CASE Commit
  <2>1. PICK output \in pending :
          /\ output.tx \in Txs /\ pending' = {} /\ committed' = Append(committed, output.tx)
          /\ block' = block
    BY <1>1, <1>2, CommitStep
  <2> DEFINE tx == output.tx
             n == Len(committed)
  <2>2. PICK gas, footprint :
          /\ GasLedger(gas, committed) /\ FootprintLedger(footprint, committed, block)
          /\ \A i \in 1 .. n : Passes(block, committed, i, gas, footprint)
    BY DEF AllPassed
  <2>3. /\ n \in Nat /\ Len(committed') = n + 1
        /\ \A i \in 1 .. n : committed'[i] = committed[i]
        /\ committed'[n + 1] = tx
    BY <1>1, <2>1, OneMoreTx
  <2>4. tx \in Txs /\ committed' = Append(committed, tx) /\ ExecutionError(tx) = "none"
    BY <2>1 DEF PendingPasses
  <2> HIDE DEF tx
  <2>5. /\ GasGoesOn(gas, committed, tx, committed')
        /\ FootprintGoesOn(footprint, committed, tx, committed', block)
    BY <1>1, <2>2, <2>4, LongerLedgers
  <2>6. PICK gas2 : GasLedger(gas2, committed') /\ \A i \in 0 .. n : gas2[i] = gas[i]
    BY <2>5 DEF GasGoesOn
  <2>7. PICK footprint2 : /\ FootprintLedger(footprint2, committed', block)
                          /\ \A i \in 0 .. n : footprint2[i] = footprint[i]
    BY <2>5 DEF FootprintGoesOn
  <2>8. \A i \in 1 .. n + 1 : ScalarOf(committed', i) = ScalarOf(committed, i)
    BY <1>1, <2>4, MoreScalars
  <2>9. ASSUME NEW s
        PROVE  \A i \in 1 .. n + 1 : TxsBefore(committed', i, s) = TxsBefore(committed, i, s)
    <3>1. CountsOn(committed, tx, committed', s)
      BY <1>1, <2>4, MoreTxsBefore
    <3> QED
      BY <3>1 DEF CountsOn
  <2>10. ASSUME NEW i \in 1 .. n PROVE Passes(block, committed', i, gas2, footprint2)
    <3>1. i \in 1 .. n + 1 /\ i - 1 \in 0 .. n
      BY <2>3
    <3>2. /\ committed'[i] = committed[i] /\ gas2[i - 1] = gas[i - 1]
          /\ footprint2[i - 1] = footprint[i - 1]
          /\ ScalarOf(committed', i) = ScalarOf(committed, i)
          /\ \A s : TxsBefore(committed', i, s) = TxsBefore(committed, i, s)
      BY <2>3, <2>6, <2>7, <2>8, <2>9, <3>1
    <3> QED
      BY <2>2, <3>2 DEF Passes
  <2>11. Passes(block, committed', n + 1, gas2, footprint2)
    <3>1. /\ n + 1 \in 1 .. n + 1 /\ n \in 0 .. n /\ Len(committed') > n
      BY <2>3
    <3>2. /\ gas2[n] = gas[n] /\ footprint2[n] = footprint[n]
          /\ ScalarOf(committed', n + 1) = ScalarOf(committed, n + 1)
          /\ TxsBefore(committed', n + 1, tx.sender) = TxsBefore(committed, n + 1, tx.sender)
      BY <2>6, <2>7, <2>8, <2>9, <3>1
    <3> QED
      BY <2>2, <2>3, <2>4, <3>1, <3>2, ChecksOfTheNext
  <2>12. \A i \in 1 .. n + 1 : Passes(block, committed', i, gas2, footprint2)
    BY <2>3, <2>10, <2>11
  <2> QED
    BY <2>1, <2>3, <2>6, <2>7, <2>12 DEF AllPassed, PendingPasses
<1>3. ASSUME UNCHANGED <<block, committed>> PROVE AllPassed'
  BY <1>3 DEF AllPassed
<1>4. ASSUME NEW tx \in Txs, Execute(tx) PROVE AllPassed' /\ PendingPasses'
  <2>1. /\ UNCHANGED <<block, committed, gas_used, da_footprint_used, state>>
        /\ \A output \in pending' : ExecutionError(output.tx) = "none"
    BY <1>4 DEF Execute
  <2> QED
    BY <1>3, <2>1
    DEF PendingPasses, ExecutionError, ExceedsGas, ExceedsFootprint, EvmRefuses,
        BlockAvailableGas, Charged, DaFootprintEstimation
<1>5. CASE \/ ApplyPreExecutionChanges \/ PreExecutionFails \/ Drop \/ CommitFails \/ Finish
           \/ \E tx \in Txs : Reject(tx) \/ ReadFails(tx)
           \/ UNCHANGED vars
  <2>1. /\ UNCHANGED <<block, committed, gas_used, da_footprint_used, state>>
        /\ pending' \subseteq pending
    BY <1>5 DEF ApplyPreExecutionChanges, PreExecutionFails, Drop, CommitFails, Finish,
                Reject, ReadFails, vars
  <2> QED
    BY <1>3, <2>1
    DEF PendingPasses, ExecutionError, ExceedsGas, ExceedsFootprint, EvmRefuses,
        BlockAvailableGas, Charged, DaFootprintEstimation
<1> QED
  BY <1>2, <1>4, <1>5 DEF Next

----------------------------------------------------------------------------
\* The first transactions of some others.
Follows(few, txs) ==
  /\ few \in Seq(Txs) /\ txs \in Seq(Txs) /\ Len(few) <= Len(txs)
  /\ \A i \in 1 .. Len(few) : few[i] = txs[i]

\* They have the first entries of the ledgers, of the counts and of the scalars.
LEMMA LedgersOfTheFirst ==
  ASSUME NEW few, NEW txs, Follows(few, txs), NEW env,
         NEW gas, GasLedger(gas, txs), NEW g, GasLedger(g, few),
         NEW footprint, FootprintLedger(footprint, txs, env), NEW f, FootprintLedger(f, few, env)
  PROVE  /\ g[Len(few)] = gas[Len(few)] /\ f[Len(few)] = footprint[Len(few)]
         /\ ScalarOf(txs, Len(few) + 1) = ScalarOf(few, Len(few) + 1)
         /\ \A s : TxsBefore(txs, Len(few) + 1, s) = TxsBefore(few, Len(few) + 1, s)
<1> DEFINE m == Len(few)
           n == Len(txs)
<1>1. /\ few \in Seq(Txs) /\ txs \in Seq(Txs) /\ m \in Nat /\ n \in Nat /\ m <= n
      /\ \A i \in 1 .. m : few[i] = txs[i]
  BY DEF Follows
<1>2. ASSUME NEW i \in 1 .. m + 1
      PROVE  /\ ScalarOf(txs, i) = ScalarOf(few, i)
             /\ \A s : TxsBefore(txs, i, s) = TxsBefore(few, i, s)
  <2> HIDE DEF m, n
  <2>1. Infos(txs, i) = Infos(few, i) /\ Infos(few, i) \in SUBSET (1 .. m)
    BY <1>1 DEF Infos
  <2>2. \A s : Earlier(txs, i, s) = Earlier(few, i, s)
    BY <1>1 DEF Earlier
  <2>3. Infos(few, i) # {} => txs[Latest(Infos(few, i))] = few[Latest(Infos(few, i))]
    BY <1>1, <2>1, LatestOfSome
  <2> QED
    BY <2>1, <2>2, <2>3 DEF ScalarOf, TxsBefore
<1>3. g[m] = gas[m]
  <2> DEFINE first == [i \in 0 .. m |-> gas[i]]
             Entry(l, i) == IF i = 0 THEN 0 ELSE Add(l[i - 1], few[i].gas)
  <2>1. \A i \in 0 .. n : gas[i] = IF i = 0 THEN 0 ELSE Add(gas[i - 1], txs[i].gas)
    BY DEF GasLedger
  <2>2. ASSUME NEW i \in 0 .. m PROVE first[i] = Entry(first, i)
    <3>1. i \in 0 .. n /\ (i # 0 => i - 1 \in 0 .. m /\ few[i] = txs[i])
      BY <1>1
    <3>2. first[i] = gas[i] /\ (i # 0 => first[i - 1] = gas[i - 1])
      BY <3>1
    <3> HIDE DEF first
    <3> QED
      BY <2>1, <3>1, <3>2
  <2>3. first = [i \in 0 .. m |-> Entry(first, i)]
    <3> HIDE DEF Entry
    <3> QED
      BY <2>2
  <2>4. first[m] = gas[m]
    BY <1>1
  <2> HIDE DEF first
  <2>5. GasLedger(first, few)
    BY <2>3 DEF GasLedger
  <2> QED
    BY <1>1, <2>4, <2>5, OneGasLedger
<1>4. f[m] = footprint[m]
  <2> DEFINE first == [i \in 0 .. m |-> footprint[i]]
             Entry(l, i) == IF i = 0 THEN 0
                            ELSE IF Pays(env, few[i])
                            THEN Saturate(l[i - 1] + Saturate(few[i].size * ScalarOf(few, i)))
                            ELSE l[i - 1]
  <2>1. \A i \in 0 .. n :
          footprint[i] = IF i = 0 THEN 0
                         ELSE IF Pays(env, txs[i])
                         THEN Saturate(footprint[i - 1] + Saturate(txs[i].size * ScalarOf(txs, i)))
                         ELSE footprint[i - 1]
    BY DEF FootprintLedger
  <2>2. ASSUME NEW i \in 0 .. m PROVE first[i] = Entry(first, i)
    <3>1. /\ i \in 0 .. n /\ i \in 0 .. m + 1
          /\ (i # 0 => i - 1 \in 0 .. m /\ few[i] = txs[i] /\ i \in 1 .. m + 1)
      BY <1>1
    <3>2. first[i] = footprint[i] /\ (i # 0 => first[i - 1] = footprint[i - 1])
      BY <3>1
    <3> HIDE DEF first
    <3> QED
      BY <1>2, <2>1, <3>1, <3>2
  <2>3. first = [i \in 0 .. m |-> Entry(first, i)]
    <3> HIDE DEF Entry
    <3> QED
      BY <2>2
  <2>4. first[m] = footprint[m]
    BY <1>1
  <2> HIDE DEF first
  <2>5. FootprintLedger(first, few, env)
    BY <2>3 DEF FootprintLedger
  <2> QED
    BY <1>1, <2>4, <2>5, OneFootprintLedger
<1> QED
  BY <1>1, <1>2, <1>3, <1>4

----------------------------------------------------------------------------
\* The validator has done nothing before the block is built; it has committed the
\* first transactions of the block, and has the next one in flight.
ValidatorFollows ==
  /\ phase # "finished" =>
       v_phase = "new" /\ v_error = "none" /\ v_pending = {} /\ v_committed = << >>
  /\ Follows(v_committed, committed)
  /\ \A output \in v_pending : Remaining /\ output.tx = NextTx
  /\ v_phase = "finished" => ~Remaining

\* The inductive invariant: both are executors, the builder has checked every
\* transaction of the block, and the validator follows and refuses none.
BothInv ==
  /\ LedgerInv /\ AllPassed /\ PendingPasses
  /\ VP!LedgerInv
  /\ NeverRefused
  /\ ValidatorFollows

\* What the validator has, in the terms of the builder.
LEMMA ValidatorLedgers ==
  ASSUME BothInv
  PROVE  /\ committed \in Seq(Txs) /\ v_committed \in Seq(Txs)
         /\ \E g : /\ GasLedger(g, v_committed) /\ v_gas_used = g[Len(v_committed)]
                   /\ \A i \in 1 .. Len(v_receipts) : v_receipts[i].cumulative = g[i]
         /\ \E f : /\ FootprintLedger(f, v_committed, block)
                   /\ v_da_footprint_used = f[Len(v_committed)]
         /\ \A s \in Senders :
              v_state.nonce[s] = TxsBefore(v_committed, Len(v_committed) + 1, s)
         /\ v_state.scalar = ScalarOf(v_committed, Len(v_committed) + 1)
<1>1. VP!CountersFollow /\ VP!StateFollows
  BY DEF BothInv, VP!LedgerInv
<1>2. committed \in Seq(Txs) /\ v_committed \in Seq(Txs)
  BY DEF BothInv, ValidatorFollows, Follows
<1>3. \E g : /\ GasLedger(g, v_committed) /\ v_gas_used = g[Len(v_committed)]
             /\ \A i \in 1 .. Len(v_receipts) : v_receipts[i].cumulative = g[i]
  BY <1>1, SameLedgers DEF VP!CountersFollow
<1>4. \E f : /\ FootprintLedger(f, v_committed, block)
             /\ v_da_footprint_used = f[Len(v_committed)]
  BY <1>1, SameLedgers DEF VP!CountersFollow
<1>5. \A s \in Senders : v_state.nonce[s] = TxsBefore(v_committed, Len(v_committed) + 1, s)
  BY <1>1, SameLedgers DEF VP!StateFollows
<1>6. v_state.scalar = ScalarOf(v_committed, Len(v_committed) + 1)
  BY <1>1, SameLedgers DEF VP!StateFollows
<1> QED
  BY <1>2, <1>3, <1>4, <1>5, <1>6

\* The validator refuses none of the transactions it is given.
LEMMA NextIsAccepted ==
  ASSUME BothInv, Remaining
  PROVE  NextTx \in Txs /\ V!ExecutionError(NextTx) = "none"
<1> DEFINE m == Len(v_committed)
           n == Len(committed)
           tx == NextTx
<1>1. /\ Follows(v_committed, committed) /\ committed \in Seq(Txs) /\ m \in Nat /\ n \in Nat
      /\ m + 1 \in 1 .. n /\ tx = committed[m + 1] /\ tx \in Txs
  BY DEF BothInv, ValidatorFollows, Follows, Remaining, NextTx
<1>2. PICK g : GasLedger(g, v_committed) /\ v_gas_used = g[m]
  BY ValidatorLedgers
<1>3. PICK f : FootprintLedger(f, v_committed, block) /\ v_da_footprint_used = f[m]
  BY ValidatorLedgers
<1>4. PICK gas, footprint :
        /\ GasLedger(gas, committed) /\ FootprintLedger(footprint, committed, block)
        /\ \A i \in 1 .. n : Passes(block, committed, i, gas, footprint)
  BY DEF BothInv, AllPassed
<1>5. /\ v_gas_used = gas[m] /\ v_da_footprint_used = footprint[m]
      /\ ScalarOf(committed, m + 1) = ScalarOf(v_committed, m + 1)
      /\ \A s : TxsBefore(committed, m + 1, s) = TxsBefore(v_committed, m + 1, s)
  <2> HIDE DEF tx, n
  <2>1. /\ g[Len(v_committed)] = gas[Len(v_committed)]
        /\ f[Len(v_committed)] = footprint[Len(v_committed)]
        /\ ScalarOf(committed, Len(v_committed) + 1) = ScalarOf(v_committed, Len(v_committed) + 1)
        /\ \A s : TxsBefore(committed, Len(v_committed) + 1, s)
                    = TxsBefore(v_committed, Len(v_committed) + 1, s)
    <3>1. /\ Follows(v_committed, committed)
          /\ GasLedger(gas, committed) /\ GasLedger(g, v_committed)
          /\ FootprintLedger(footprint, committed, block)
          /\ FootprintLedger(f, v_committed, block)
      BY <1>1, <1>2, <1>3, <1>4
    <3> HIDE DEF m
    <3> QED
      BY ONLY <3>1, LedgersOfTheFirst
  <2> QED
    BY <1>2, <1>3, <2>1
<1>6. /\ v_state.scalar = ScalarOf(committed, m + 1)
      /\ \A s \in Senders : v_state.nonce[s] = TxsBefore(committed, m + 1, s)
  BY <1>5, ValidatorLedgers
<1>7. Passes(block, committed, m + 1, gas, footprint) /\ m + 1 - 1 = m
  BY <1>1, <1>4
<1>8. tx.sender \in Senders
  BY <1>1, TxFields
<1> HIDE DEF m, n, tx
<1>9. ~V!ExceedsGas(tx)
  BY <1>1, <1>5, <1>7 DEF Passes, V!ExceedsGas, V!BlockAvailableGas, V!Sub, Sub
<1>10. ~V!ExceedsFootprint(tx)
  BY <1>1, <1>5, <1>6, <1>7
  DEF Passes, V!ExceedsFootprint, V!Charged, V!DaFootprintEstimation, V!Sub, Sub,
      V!Saturate, Saturate, Pays
<1>11. ~V!EvmRefuses(tx)
  BY <1>1, <1>6, <1>7, <1>8 DEF Passes, V!EvmRefuses
<1>12. V!ExecutionError(tx) = "none"
  BY <1>9, <1>10, <1>11 DEF V!ExecutionError
<1> QED
  BY <1>1, <1>12 DEF tx

----------------------------------------------------------------------------
\* Both executors start empty.
LEMMA BothInit == InitBoth => BothInv
<1> SUFFICES ASSUME InitBoth PROVE BothInv
  OBVIOUS
<1>1. Init /\ VP!Init
  BY DEF InitBoth, V!Init, VP!Init
<1>2. LedgerInv /\ AllPassed /\ PendingPasses /\ VP!LedgerInv
  BY <1>1, LedgerInit, BuilderInit, ValidatorInit
<1>3. NeverRefused
  BY <1>1 DEF VP!Init, NeverRefused
<1>4. ValidatorFollows
  <2>1. /\ v_committed = << >> /\ Len(v_committed) = 0 /\ committed \in Seq(Txs)
        /\ v_phase = "new" /\ v_error = "none" /\ v_pending = {} /\ << >> \in Seq(Txs)
    BY <1>1, <1>2 DEF VP!Init, LedgerInv, TypeOK
  <2> QED
    BY <2>1 DEF ValidatorFollows, Follows
<1> QED
  BY <1>2, <1>3, <1>4 DEF BothInv

\* A builder that has finished its block leaves it alone, and no step changes the
\* block environment.
LEMMA FinishedForGood ==
  ASSUME LedgerInv, [Next]_vars
  PROVE  /\ block' = block
         /\ phase = "finished" => phase' = "finished" /\ committed' = committed
<1>1. NothingInFlight
  BY DEF LedgerInv
<1> QED
  BY <1>1
  DEF Next, ApplyPreExecutionChanges, PreExecutionFails, Execute, Reject, ReadFails, MayExecute,
      Drop, Commit, CommitOutput, CommitFails, Finish, vars, NothingInFlight

\* A step of the builder leaves the validator alone, which has done nothing yet.
LEMMA BuildKeeps ==
  ASSUME BothInv, [Next]_vars, UNCHANGED validator
  PROVE  BothInv'
<1>1. LedgerInv /\ AllPassed /\ PendingPasses
  BY DEF BothInv
<1>2. LedgerInv' /\ AllPassed' /\ PendingPasses'
  BY <1>1, LedgerStep, BuilderStep
<1>3. /\ block' = block
      /\ phase = "finished" => phase' = "finished" /\ committed' = committed
  BY <1>1, FinishedForGood
<1>4. VP!LedgerInv'
  <2>1. UNCHANGED VP!vars
    BY <1>3 DEF VP!vars, validator
  <2> QED
    BY <2>1, ValidatorStep DEF BothInv
<1>5. NeverRefused'
  BY DEF BothInv, NeverRefused, validator
<1>6. ValidatorFollows'
  <2>1. committed' \in Seq(Txs) /\ ValidatorFollows
    BY <1>2 DEF LedgerInv, TypeOK, BothInv
  <2>2. UNCHANGED <<v_phase, v_error, v_pending, v_committed>>
    BY DEF validator
  <2>3. CASE phase = "finished"
    BY <1>3, <2>1, <2>2, <2>3 DEF ValidatorFollows, Follows, Remaining, NextTx
  <2>4. CASE phase # "finished"
    <3>1. v_phase = "new" /\ v_error = "none" /\ v_pending = {} /\ v_committed = << >>
      BY <2>1, <2>4 DEF ValidatorFollows
    <3>2. Len(v_committed) = 0 /\ v_committed \in Seq(Txs)
      BY <3>1
    <3> QED
      BY <2>1, <2>2, <3>1, <3>2 DEF ValidatorFollows, Follows
  <2> QED
    BY <2>3, <2>4
<1> QED
  BY <1>2, <1>4, <1>5, <1>6 DEF BothInv

\* A new executor on the state of the parent.
LEMMA RetryKeeps ==
  ASSUME BothInv, ValidatorRetries
  PROVE  BothInv'
<1>1. LedgerInv /\ AllPassed /\ PendingPasses /\ block \in Blocks /\ committed \in Seq(Txs)
  BY DEF BothInv, LedgerInv, TypeOK
<1>2. UNCHANGED vars /\ UNCHANGED <<block, phase, committed>>
  BY DEF ValidatorRetries, vars
<1>3. LedgerInv' /\ AllPassed' /\ PendingPasses'
  BY <1>1, <1>2, LedgerStep, BuilderStep
<1>4. VP!Init'
  BY <1>1, <1>2 DEF ValidatorRetries, VP!Init
<1>5. VP!LedgerInv'
  BY <1>4, ValidatorInitAgain
<1>6. NeverRefused' /\ ValidatorFollows'
  <2>1. /\ v_committed' = << >> /\ Len(v_committed') = 0 /\ << >> \in Seq(Txs)
        /\ v_phase' = "new" /\ v_error' = "none" /\ v_pending' = {}
    BY DEF ValidatorRetries
  <2> QED
    BY <1>1, <1>2, <2>1 DEF ValidatorFollows, Follows, NeverRefused
<1> QED
  BY <1>3, <1>5, <1>6 DEF BothInv

\* The other steps of the validator.
LEMMA ValidatorKeeps ==
  ASSUME BothInv, ValidatorNext, ~ValidatorRetries
  PROVE  BothInv'
<1>1. LedgerInv /\ AllPassed /\ PendingPasses /\ committed \in Seq(Txs)
      /\ VP!LedgerInv /\ ValidatorFollows /\ NeverRefused
  BY DEF BothInv, LedgerInv, TypeOK
<1>2. VP!Next /\ UNCHANGED vars
  BY <1>1, ValidatorSteps
<1>3. UNCHANGED <<block, phase, committed>>
  BY <1>2 DEF vars
<1>4. LedgerInv' /\ AllPassed' /\ PendingPasses' /\ VP!LedgerInv'
  BY <1>1, <1>2, LedgerStep, BuilderStep, ValidatorStep
<1>5. Validating
  BY DEF ValidatorNext, ValidatorStarts, ValidatorExecutes, ValidatorCommits,
         ValidatorReadFails, ValidatorFinishes
<1>6. phase = "finished" /\ phase' = "finished"
  BY <1>3, <1>5 DEF Validating
<1>7. CASE ValidatorStarts \/ ValidatorFinishes
  <2>1. /\ UNCHANGED <<v_committed, v_pending, v_error>>
        /\ v_phase' = "started" \/ (v_phase' = "finished" /\ ~Remaining)
    BY <1>7 DEF ValidatorStarts, ValidatorFinishes, V!ApplyPreExecutionChanges, V!Finish
  <2>2. NeverRefused' /\ ValidatorFollows'
    BY <1>1, <1>3, <1>6, <2>1 DEF NeverRefused, ValidatorFollows, Follows, Remaining, NextTx
  <2> QED
    BY <1>4, <2>2 DEF BothInv
<1>8. CASE ValidatorExecutes
  <2>1. /\ UNCHANGED <<v_committed, v_phase>> /\ v_phase = "started"
        /\ Remaining /\ v_error' = "none"
        /\ \A output \in v_pending' : output.tx = NextTx
    BY <1>8, <1>1, NextIsAccepted
    DEF ValidatorExecutes, V!Execute, V!Reject, V!MayExecute
  <2>2. NeverRefused' /\ ValidatorFollows'
    BY <1>1, <1>3, <1>6, <2>1 DEF NeverRefused, ValidatorFollows, Follows, Remaining, NextTx
  <2> QED
    BY <1>4, <2>2 DEF BothInv
<1>9. CASE ValidatorCommits
  <2>1. VP!TypeOK /\ V!Commit
    BY <1>1, <1>9 DEF VP!LedgerInv, ValidatorCommits
  <2>2. PICK output \in v_pending :
          /\ output.tx \in Txs /\ v_pending' = {} /\ v_error' = "none"
          /\ v_committed' = Append(v_committed, output.tx)
          /\ UNCHANGED <<v_phase, block>>
    BY <2>1, ValidatorCommitStep
  <2>3. /\ output.tx = committed[Len(v_committed) + 1] /\ Len(v_committed) < Len(committed)
        /\ v_committed \in Seq(Txs) /\ \A i \in 1 .. Len(v_committed) : v_committed[i] = committed[i]
        /\ v_phase # "finished"
    BY <1>1 DEF ValidatorFollows, Follows, Remaining, NextTx
  <2>4. /\ v_committed' \in Seq(Txs) /\ Len(v_committed) \in Nat
        /\ Len(v_committed') = Len(v_committed) + 1
        /\ \A i \in 1 .. Len(v_committed) : v_committed'[i] = v_committed[i]
        /\ v_committed'[Len(v_committed) + 1] = output.tx
    BY <2>2, <2>3, OneMoreTx
  <2>5. Follows(v_committed', committed)
    BY <1>1, <2>3, <2>4 DEF Follows
  <2>6. NeverRefused' /\ ValidatorFollows'
    BY <1>3, <1>6, <2>2, <2>3, <2>5 DEF NeverRefused, ValidatorFollows
  <2> QED
    BY <1>4, <2>6 DEF BothInv
<1>10. CASE ValidatorReadFails
  <2>1. /\ UNCHANGED <<v_committed, v_phase>> /\ v_error' = "database"
        /\ v_pending' \subseteq v_pending
    BY <1>10 DEF ValidatorReadFails, V!PreExecutionFails, V!CommitFails, V!ReadFails
  <2>2. NeverRefused' /\ ValidatorFollows'
    BY <1>1, <1>3, <1>6, <2>1 DEF NeverRefused, ValidatorFollows, Follows, Remaining, NextTx
  <2> QED
    BY <1>4, <2>2 DEF BothInv
<1> QED
  BY <1>7, <1>8, <1>9, <1>10 DEF ValidatorNext

\* The invariant holds.
LEMMA BothInvariant == SpecBoth => []BothInv
<1>1. BothInv /\ [NextBoth]_<<vars, validator, retries>> => BothInv'
  <2> SUFFICES ASSUME BothInv, [NextBoth]_<<vars, validator, retries>> PROVE BothInv'
    OBVIOUS
  <2>1. CASE Build \/ UNCHANGED <<vars, validator, retries>>
    BY <2>1, BuildKeeps DEF Build
  <2>2. CASE ValidatorRetries
    BY <2>2, RetryKeeps
  <2>3. CASE ValidatorNext /\ ~ValidatorRetries
    BY <2>3, ValidatorKeeps
  <2> QED
    BY <2>1, <2>2, <2>3 DEF NextBoth
<1> QED
  BY <1>1, BothInit, PTL DEF SpecBoth

\* A validator refuses no transaction of a block that a builder has finished, at
\* any place of the block and on any set of transactions: neither its counters
\* nor its state differ from those the builder checked against.
THEOREM BlocksAreNeverRefused == SpecBoth => []NeverRefused
<1>1. BothInv => NeverRefused
  BY DEF BothInv
<1> QED
  BY <1>1, BothInvariant, PTL

\* A validator at the end has committed all of the block, and both sets of ledgers
\* are ledgers of the same transactions.
LEMMA FinishedTheSame == BothInv => SameOutcome
<1> SUFFICES ASSUME BothInv, v_phase = "finished"
             PROVE  v_receipts = receipts /\ v_state = state /\ v_result = result
  BY DEF SameOutcome
<1>1. LedgerInv /\ VP!LedgerInv /\ ValidatorFollows /\ phase = "finished"
  BY DEF BothInv, ValidatorFollows
<1>2. v_committed = committed
  <2>1. /\ v_committed \in Seq(Txs) /\ committed \in Seq(Txs)
        /\ Len(v_committed) = Len(committed)
        /\ \A i \in 1 .. Len(committed) : v_committed[i] = committed[i]
    BY <1>1 DEF ValidatorFollows, Follows, Remaining
  <2> QED
    BY <2>1, SeqEqual
<1> DEFINE n == Len(committed)
<1>3. /\ committed \in Seq(Txs) /\ n \in Nat
      /\ receipts \in Seq(Receipt) /\ Len(receipts) = n
      /\ v_receipts \in Seq(Receipt) /\ Len(v_receipts) = n
      /\ state \in State /\ v_state \in State
  BY <1>1, <1>2 DEF LedgerInv, VP!LedgerInv, TypeOK, VP!TypeOK, Receipt, VP!Receipt, State, VP!State
<1>4. PICK g : /\ GasLedger(g, committed) /\ v_gas_used = g[n]
               /\ \A i \in 1 .. n : v_receipts[i].cumulative = g[i]
  BY <1>2, <1>3, ValidatorLedgers
<1>5. PICK f : FootprintLedger(f, committed, block) /\ v_da_footprint_used = f[n]
  BY <1>2, ValidatorLedgers
<1>6. /\ gas_used = v_gas_used /\ da_footprint_used = v_da_footprint_used
      /\ \A i \in 1 .. n : receipts[i].cumulative = g[i]
  BY <1>1, <1>3, <1>4, <1>5, Counters
<1>7. v_state = state
  <2>1. /\ \A s \in Senders : v_state.nonce[s] = state.nonce[s]
        /\ v_state.scalar = state.scalar
    <3>1. StateFollows
      BY <1>1 DEF LedgerInv
    <3> QED
      BY <1>2, <3>1, ValidatorLedgers DEF StateFollows
  <2> QED
    BY <1>3, <2>1 DEF State
<1>8. v_receipts = receipts
  <2>1. ASSUME NEW i \in 1 .. n PROVE v_receipts[i] = receipts[i]
    <3>1. DepositFields(receipts[i], block, committed, i)
      BY <1>1, <1>3 DEF LedgerInv, ReceiptsFollow
    <3>2. DepositFields(v_receipts[i], block, committed, i)
      BY <1>1, <1>2, <1>3, SameLedgers DEF VP!LedgerInv, VP!ReceiptsFollow
    <3>3. v_receipts[i].cumulative = receipts[i].cumulative
      BY <1>4, <1>6
    <3>4. receipts[i] \in Receipt /\ v_receipts[i] \in Receipt
      BY <1>3
    <3> QED
      BY <3>1, <3>2, <3>3, <3>4 DEF DepositFields, Receipt
  <2> QED
    BY <1>3, <2>1, SeqEqual
<1>9. v_result = result
  BY <1>1, <1>6 DEF LedgerInv, VP!LedgerInv, ResultFollows, VP!ResultFollows
<1> QED
  BY <1>7, <1>8, <1>9

\* A validator that gets to the end of a block has the receipts, the state and the
\* result of its builder: what was refused or dropped while the block was built
\* and every failed attempt to validate it have left nothing behind.
THEOREM ValidatorsAgree == SpecBoth => []SameOutcome
BY BothInvariant, FinishedTheSame, PTL

=============================================================================
