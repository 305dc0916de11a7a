------------------------ MODULE BlockExecutorProofs ------------------------
(***************************************************************************)
(* For every set of transactions, block environment and width of the       *)
(* counters: the executor's state is well formed, from Regolith on neither *)
(* of its two unchecked subtractions can wrap around, and the receipts     *)
(* account for the gas of the committed transactions.                      *)
(***************************************************************************)
EXTENDS BlockExecutor, TLAPS

USE BlockExecutorAssumption

----------------------------------------------------------------------------
\* The counters stay u64 values.
LEMMA U64 ==
  /\ \A a, b \in 0 .. U64Max : Add(a, b) \in 0 .. U64Max
  /\ \A a, b \in 0 .. U64Max : Sub(a, b) \in 0 .. U64Max
  /\ \A a \in Nat : Saturate(a) \in 0 .. U64Max
BY DEF Add, Sub, Saturate

LEMMA TimesNat == \A a, b \in Nat : a * b \in Nat
OBVIOUS

\* The fields of an offered transaction.
LEMMA TxFields ==
  ASSUME NEW tx \in Txs
  PROVE  /\ tx.deposit \in BOOLEAN /\ tx.sender \in Senders
         /\ tx.gas \in 0 .. U64Max /\ tx.gasLimit \in 0 .. U64Max
         /\ tx.size \in 0 .. U64Max /\ tx.scalars \subseteq Nat
         /\ tx.gas <= tx.gasLimit
BY DEF Tx

LEMMA BlockFields ==
  ASSUME TypeOK
  PROVE  /\ block.gasLimit \in 0 .. U64Max
         /\ block.regolith \in BOOLEAN /\ block.canyon \in BOOLEAN
         /\ block.jovian \in BOOLEAN
BY DEF TypeOK, BlockEnv

LEMMA FootprintTyping ==
  ASSUME TypeOK, NEW tx \in Txs
  PROVE  DaFootprintEstimation(tx) \in 0 .. U64Max
<1>1. tx.size \in Nat /\ state.scalar \in Nat
  BY TxFields DEF TypeOK, State
<1>2. tx.size * state.scalar \in Nat
  BY <1>1, TimesNat
<1> QED
  BY <1>2, U64 DEF DaFootprintEstimation

\* The database after a transaction.
LEMMA AfterTyping ==
  ASSUME NEW tx \in Txs, NEW s \in State
  PROVE  After(tx, s) \in State
<1>1. [s.nonce EXCEPT ![tx.sender] = @ + 1] \in [Senders -> Nat]
  BY TxFields DEF State
<1>2. (IF tx.scalars = {} THEN s.scalar ELSE CHOOSE n \in tx.scalars : TRUE) \in Nat
  BY TxFields DEF State
<1> QED
  BY <1>1, <1>2 DEF After, State

LEMMA ReceiptTyping ==
  ASSUME NEW tx \in Txs, NEW nonces \in [Senders -> Nat],
         NEW cumulative \in 0 .. U64Max
  PROVE  /\ BuildReceipt(tx, nonces, cumulative) \in Receipt
         /\ BuildReceipt(tx, nonces, cumulative).cumulative = cumulative
<1>1. nonces[tx.sender] \in Nat
  BY TxFields
<1> QED
  BY <1>1 DEF BuildReceipt, Receipt

LEMMA ReceiptCumulative ==
  ASSUME TypeOK, NEW i \in 1 .. Len(receipts)
  PROVE  receipts[i].cumulative \in 0 .. U64Max
<1>1. receipts[i] \in Receipt
  BY DEF TypeOK
<1> QED
  BY <1>1 DEF Receipt

LEMMA LegacyGasUsedTyping ==
  ASSUME TypeOK
  PROVE  LegacyGasUsed \in 0 .. U64Max
<1>1. CASE receipts = << >>
  BY <1>1 DEF LegacyGasUsed
<1>2. CASE receipts # << >>
  <2>1. Len(receipts) \in 1 .. Len(receipts)
    BY <1>2 DEF TypeOK
  <2> QED
    BY <1>2, <2>1, ReceiptCumulative DEF LegacyGasUsed
<1> QED
  BY <1>1, <1>2

\* The output that is committed, and what the commit makes of the counters.
LEMMA CommitStep ==
  ASSUME TypeOK, Commit
  PROVE  \E output \in pending :
           /\ output.tx \in Txs /\ output.footprint \in 0 .. U64Max
           /\ pending' = {} /\ error' = "none"
           /\ gas_used' = Add(gas_used, output.tx.gas)
           /\ gas_used' \in 0 .. U64Max
           /\ da_footprint_used' =
                IF Charged(output.tx) THEN Saturate(da_footprint_used + output.footprint)
                                      ELSE da_footprint_used
           /\ da_footprint_used' \in 0 .. U64Max
           /\ receipts' = Append(receipts, BuildReceipt(output.tx, state.nonce, gas_used'))
           /\ BuildReceipt(output.tx, state.nonce, gas_used') \in Receipt
           /\ BuildReceipt(output.tx, state.nonce, gas_used').cumulative = gas_used'
           /\ state' = After(output.tx, state) /\ state' \in State
           /\ committed' = Append(committed, output.tx)
           /\ UNCHANGED <<block, phase, result>>
<1>1. PICK output \in pending :
        /\ pending' = {} /\ error' = "none"
        /\ gas_used' = Add(gas_used, output.tx.gas)
        /\ da_footprint_used' =
             IF Charged(output.tx) THEN Saturate(da_footprint_used + output.footprint)
                                   ELSE da_footprint_used
        /\ receipts' = Append(receipts, BuildReceipt(output.tx, state.nonce, gas_used'))
        /\ state' = After(output.tx, state)
        /\ committed' = Append(committed, output.tx)
        /\ UNCHANGED <<block, phase, result>>
  BY DEF Commit, CommitOutput
<1>2. output.tx \in Txs /\ output.footprint \in 0 .. U64Max
  BY DEF TypeOK, Output
<1>3. /\ gas_used \in 0 .. U64Max /\ da_footprint_used \in 0 .. U64Max
      /\ state \in State /\ state.nonce \in [Senders -> Nat]
  BY DEF TypeOK, State
<1>4. gas_used' \in 0 .. U64Max
  BY <1>1, <1>2, <1>3, TxFields, U64
<1>5. da_footprint_used' \in 0 .. U64Max
  <2>1. da_footprint_used + output.footprint \in Nat
    BY <1>2, <1>3
  <2> QED
    BY <1>1, <1>3, <2>1, U64
<1>6. state' \in State
  BY <1>1, <1>2, <1>3, AfterTyping
<1>7. /\ BuildReceipt(output.tx, state.nonce, gas_used') \in Receipt
      /\ BuildReceipt(output.tx, state.nonce, gas_used').cumulative = gas_used'
  BY <1>2, <1>3, <1>4, ReceiptTyping
<1> QED
  BY <1>1, <1>2, <1>4, <1>5, <1>6, <1>7

----------------------------------------------------------------------------
LEMMA TypeInit == Init => TypeOK
<1> SUFFICES ASSUME Init PROVE TypeOK
  OBVIOUS
<1>1. state \in State
  BY DEF Init, State
<1> QED
  BY <1>1 DEF Init, TypeOK

LEMMA TypeStep ==
  ASSUME TypeOK, [Next]_vars
  PROVE  TypeOK'
<1>1. CASE ApplyPreExecutionChanges
  BY <1>1 DEF ApplyPreExecutionChanges, TypeOK
<1>2. ASSUME NEW tx \in Txs, Execute(tx) PROVE TypeOK'
  <2>1. pending' \in SUBSET Output /\ \A a, b \in pending' : a = b
    BY <1>2, FootprintTyping DEF Execute, Output
  <2> QED
    BY <1>2, <2>1 DEF Execute, TypeOK
<1>3. ASSUME NEW tx \in Txs, Reject(tx) PROVE TypeOK'
  BY <1>3 DEF Reject, ExecutionError, TypeOK
<1>4. CASE Drop
  BY <1>4 DEF Drop, TypeOK
<1>5. CASE Commit
  <2>1. PICK output \in pending :
           /\ output.tx \in Txs
           /\ pending' = {} /\ error' = "none"
           /\ gas_used' \in 0 .. U64Max /\ da_footprint_used' \in 0 .. U64Max
           /\ receipts' = Append(receipts, BuildReceipt(output.tx, state.nonce, gas_used'))
           /\ BuildReceipt(output.tx, state.nonce, gas_used') \in Receipt
           /\ state' \in State
           /\ committed' = Append(committed, output.tx)
           /\ UNCHANGED <<block, phase, result>>
    BY <1>5, CommitStep
  <2>2. receipts' \in Seq(Receipt) /\ Len(receipts') = Len(receipts) + 1
    BY <2>1 DEF TypeOK
  <2>3. committed' \in Seq(Txs) /\ Len(committed') = Len(committed) + 1
    BY <2>1 DEF TypeOK
  <2> QED
    BY <2>1, <2>2, <2>3 DEF TypeOK
<1>6. CASE CommitFails
  BY <1>6 DEF CommitFails, TypeOK
<1>7. CASE Finish
  <2>1. LegacyGasUsed \in 0 .. U64Max
    BY LegacyGasUsedTyping
  <2> QED
    BY <1>7, <2>1 DEF Finish, TypeOK
<1>8. CASE PreExecutionFails
  BY <1>8 DEF PreExecutionFails, TypeOK
<1>9. ASSUME NEW tx \in Txs, ReadFails(tx) PROVE TypeOK'
  BY <1>9 DEF ReadFails, TypeOK
<1>10. CASE UNCHANGED vars
  BY <1>10 DEF vars, TypeOK
<1> QED
  BY <1>1, <1>2, <1>3, <1>4, <1>5, <1>6, <1>7, <1>8, <1>9, <1>10 DEF Next

\* The counters never leave the u64 range, at most one output is in flight, and
\* there are as many receipts as committed transactions.
THEOREM TypeCorrect == Spec => []TypeOK
<1>1. TypeOK /\ [Next]_vars => TypeOK'
  BY TypeStep
<1> QED
  BY <1>1, TypeInit, PTL DEF Spec

----------------------------------------------------------------------------
\* What a call that is not refused has checked.
LEMMA ExecutePassesChecks ==
  ASSUME NEW tx \in Txs, Execute(tx)
  PROVE  ~ExceedsGas(tx) /\ ~ExceedsFootprint(tx)
BY DEF Execute, ExecutionError

LEMMA GasStep ==
  ASSUME TypeOK, GasWithinLimit, [Next]_vars
  PROVE  GasWithinLimit'
<1> USE DEF GasWithinLimit
<1>1. ASSUME NEW tx \in Txs, Execute(tx) PROVE GasWithinLimit'
  <2> SUFFICES ASSUME block'.regolith
               PROVE  /\ gas_used' <= block'.gasLimit
                      /\ gas_used' + tx.gasLimit <= block'.gasLimit
    BY <1>1 DEF Execute
  <2>1. gas_used' = gas_used /\ block' = block
    BY <1>1 DEF Execute
  <2>2. gas_used <= block.gasLimit
    BY <2>1
  <2>3. BlockAvailableGas = block.gasLimit - gas_used
    BY <2>2 DEF BlockAvailableGas, Sub
  <2>4. tx.gasLimit <= BlockAvailableGas
    <3>1. ~(tx.gasLimit > BlockAvailableGas)
      BY <1>1, <2>1, ExecutePassesChecks DEF ExceedsGas
    <3> QED
      BY <2>3, <3>1, TxFields, BlockFields DEF TypeOK
  <2> QED
    BY <2>1, <2>2, <2>3, <2>4, TxFields, BlockFields DEF TypeOK
\* A transaction uses at most its gas limit, which was reserved.
<1>2. CASE Commit
  <2> SUFFICES ASSUME block'.regolith
               PROVE  gas_used' <= block'.gasLimit
    BY <1>2 DEF Commit, CommitOutput
  <2>1. PICK output \in pending :
          /\ output.tx \in Txs
          /\ gas_used' = Add(gas_used, output.tx.gas)
          /\ UNCHANGED block
    BY <1>2, CommitStep
  <2>2. gas_used + output.tx.gasLimit <= block.gasLimit
    BY <2>1
  <2>3. gas_used + output.tx.gas <= block.gasLimit
    BY <2>1, <2>2, TxFields, BlockFields DEF TypeOK
  <2> QED
    BY <2>1, <2>3, TxFields, BlockFields DEF Add, TypeOK
<1>3. CASE Drop
  BY <1>3 DEF Drop
<1>4. CASE CommitFails
  BY <1>4 DEF CommitFails
<1>5. ASSUME \/ ApplyPreExecutionChanges \/ PreExecutionFails
             \/ \E tx \in Txs : Reject(tx) \/ ReadFails(tx)
             \/ Finish
             \/ UNCHANGED vars
      PROVE  GasWithinLimit'
  BY <1>5 DEF ApplyPreExecutionChanges, PreExecutionFails, Reject, ReadFails, Finish, vars
<1> QED
  BY <1>1, <1>2, <1>3, <1>4, <1>5 DEF Next

\* From Regolith on the gas counter never passes the gas limit of the block and
\* the transaction in flight fits in what is left, whatever the transactions
\* are, which are refused and which dropped: `gas_limit - gas_used` is exact.
THEOREM GasNeverExceedsLimit == Spec => []GasWithinLimit
<1>1. Init => GasWithinLimit
  <2> SUFFICES ASSUME Init PROVE GasWithinLimit
    OBVIOUS
  <2>1. TypeOK
    BY TypeInit
  <2> QED
    BY <2>1, BlockFields DEF Init, GasWithinLimit
<1>2. TypeOK /\ GasWithinLimit /\ [Next]_vars => TypeOK' /\ GasWithinLimit'
  BY TypeStep, GasStep
<1> QED
  BY <1>1, <1>2, TypeInit, PTL DEF Spec

----------------------------------------------------------------------------
LEMMA FootprintStep ==
  ASSUME TypeOK, FootprintWithinLimit, [Next]_vars
  PROVE  FootprintWithinLimit'
<1> USE DEF FootprintWithinLimit
<1>1. ASSUME NEW tx \in Txs, Execute(tx) PROVE FootprintWithinLimit'
  <2> DEFINE footprint == IF Charged(tx) THEN DaFootprintEstimation(tx) ELSE 0
  <2>1. /\ pending' = {[tx |-> tx, footprint |-> footprint]}
        /\ UNCHANGED <<block, da_footprint_used>>
    BY <1>1 DEF Execute
  <2>2. footprint \in 0 .. U64Max
    BY FootprintTyping
  <2>3. da_footprint_used + footprint <= block.gasLimit
    <3>1. CASE Charged(tx)
      <4>1. ~(DaFootprintEstimation(tx) > Sub(block.gasLimit, da_footprint_used))
        BY <1>1, <3>1, ExecutePassesChecks DEF ExceedsFootprint
      <4>2. Sub(block.gasLimit, da_footprint_used) = block.gasLimit - da_footprint_used
        BY DEF Sub
      <4> QED
        BY <2>2, <3>1, <4>1, <4>2, BlockFields DEF TypeOK
    <3>2. CASE ~Charged(tx)
      BY <3>2, BlockFields DEF TypeOK
    <3> QED
      BY <3>1, <3>2
  <2> QED
    BY <2>1, <2>3
<1>2. CASE Commit
  <2>1. PICK output \in pending :
          /\ output.footprint \in 0 .. U64Max
          /\ pending' = {}
          /\ da_footprint_used' =
               IF Charged(output.tx) THEN Saturate(da_footprint_used + output.footprint)
                                     ELSE da_footprint_used
          /\ UNCHANGED block
    BY <1>2, CommitStep
  <2>2. da_footprint_used + output.footprint <= block.gasLimit
    BY <2>1
  <2> QED
    BY <2>1, <2>2, BlockFields DEF Saturate, TypeOK
<1>3. CASE Drop
  BY <1>3 DEF Drop
<1>4. CASE CommitFails
  BY <1>4 DEF CommitFails
<1>5. ASSUME \/ ApplyPreExecutionChanges \/ PreExecutionFails
             \/ \E tx \in Txs : Reject(tx) \/ ReadFails(tx)
             \/ Finish
             \/ UNCHANGED vars
      PROVE  FootprintWithinLimit'
  BY <1>5 DEF ApplyPreExecutionChanges, PreExecutionFails, Reject, ReadFails, Finish, vars
<1> QED
  BY <1>1, <1>2, <1>3, <1>4, <1>5 DEF Next

\* The data-availability footprint of the block, with the output in flight,
\* never passes the gas limit: `gas_limit - da_footprint_used` is exact and
\* the saturating addition never saturates.
THEOREM FootprintNeverExceedsLimit == Spec => []FootprintWithinLimit
<1>1. Init => FootprintWithinLimit
  <2> SUFFICES ASSUME Init PROVE FootprintWithinLimit
    OBVIOUS
  <2>1. TypeOK
    BY TypeInit
  <2> QED
    BY <2>1, BlockFields DEF Init, FootprintWithinLimit
<1>2. TypeOK /\ FootprintWithinLimit /\ [Next]_vars => TypeOK' /\ FootprintWithinLimit'
  BY TypeStep, FootprintStep
<1> QED
  BY <1>1, <1>2, TypeInit, PTL DEF Spec

----------------------------------------------------------------------------
\* The receipts of a chain of commits.
LEMMA CumulativeStep ==
  ASSUME TypeOK, CumulativeGas, [Next]_vars
  PROVE  CumulativeGas'
<1>1. CASE Commit
  <2>1. PICK output \in pending :
          /\ output.tx \in Txs
          /\ gas_used' = Add(gas_used, output.tx.gas)
          /\ receipts' = Append(receipts, BuildReceipt(output.tx, state.nonce, gas_used'))
          /\ BuildReceipt(output.tx, state.nonce, gas_used') \in Receipt
          /\ BuildReceipt(output.tx, state.nonce, gas_used').cumulative = gas_used'
          /\ committed' = Append(committed, output.tx)
    BY <1>1, CommitStep
  <2> DEFINE n == Len(receipts)
             receipt == BuildReceipt(output.tx, state.nonce, gas_used')
  <2>2. n \in Nat /\ Len(committed) = n
    BY DEF TypeOK
  <2> HIDE DEF receipt
  <2>3. /\ receipts' \in Seq(Receipt) /\ Len(receipts') = n + 1
        /\ \A i \in 1 .. n : receipts'[i] = receipts[i]
        /\ receipts'[n + 1] = receipt
    BY <2>1, <2>2 DEF receipt, TypeOK
  <2>4. /\ committed' \in Seq(Txs) /\ Len(committed') = n + 1
        /\ \A i \in 1 .. n : committed'[i] = committed[i]
        /\ committed'[n + 1] = output.tx
    BY <2>1, <2>2 DEF TypeOK
  <2>5. receipt.cumulative = gas_used'
    BY <2>1 DEF receipt
  <2>6. gas_used' = LegacyGasUsed'
    BY <2>2, <2>3, <2>5 DEF LegacyGasUsed
  <2>7. ASSUME NEW i \in 1 .. n + 1
        PROVE  receipts'[i].cumulative
                 = Add(IF i = 1 THEN 0 ELSE receipts'[i - 1].cumulative, committed'[i].gas)
    <3>1. CASE i <= n
      <4>1. /\ i \in 1 .. n /\ i \in DOMAIN receipts
            /\ i # 1 => i - 1 \in 1 .. n
        BY <2>2, <3>1 DEF TypeOK
      <4>2. receipts[i].cumulative
              = Add(IF i = 1 THEN 0 ELSE receipts[i - 1].cumulative, committed[i].gas)
        BY <4>1 DEF CumulativeGas
      <4>3. /\ receipts'[i] = receipts[i] /\ committed'[i] = committed[i]
            /\ i # 1 => receipts'[i - 1] = receipts[i - 1]
        BY <2>3, <2>4, <4>1
      <4> QED
        BY <4>2, <4>3
    <3>2. CASE i = n + 1
      <4>1. gas_used = IF i = 1 THEN 0 ELSE receipts'[i - 1].cumulative
        BY <2>2, <2>3, <3>2 DEF CumulativeGas, LegacyGasUsed, TypeOK
      <4> QED
        BY <2>1, <2>3, <2>4, <2>5, <3>2, <4>1
    <3> QED
      BY <2>2, <3>1, <3>2
  <2>8. DOMAIN receipts' = 1 .. n + 1
    BY <2>3
  <2> QED
    BY <2>3, <2>4, <2>6, <2>7, <2>8 DEF CumulativeGas
<1>2. ASSUME UNCHANGED <<receipts, committed, gas_used>> PROVE CumulativeGas'
  BY <1>2 DEF CumulativeGas, LegacyGasUsed, Add
<1>3. CASE ApplyPreExecutionChanges \/ PreExecutionFails \/ Drop \/ CommitFails \/ Finish
  BY <1>2, <1>3 DEF ApplyPreExecutionChanges, PreExecutionFails, Drop, CommitFails, Finish
<1>4. ASSUME NEW tx \in Txs, Execute(tx) \/ Reject(tx) \/ ReadFails(tx)
      PROVE  CumulativeGas'
  BY <1>2, <1>4 DEF Execute, Reject, ReadFails
<1>5. CASE UNCHANGED vars
  BY <1>2, <1>5 DEF vars
<1> QED
  BY <1>1, <1>3, <1>4, <1>5 DEF Next

\* There is one receipt per committed transaction, its cumulative gas is that
\* of the receipt before plus the transaction's own, and the last one is the
\* counter, so that what finish reports is the gas of the committed
\* transactions, whatever was refused, dropped or failed in between.
THEOREM ReceiptsAccountForGas == Spec => []CumulativeGas
<1>1. Init => CumulativeGas
  BY DEF Init, CumulativeGas, LegacyGasUsed
<1>2. TypeOK /\ CumulativeGas /\ [Next]_vars => TypeOK' /\ CumulativeGas'
  BY TypeStep, CumulativeStep
<1> QED
  BY <1>1, <1>2, TypeInit, PTL DEF Spec

=============================================================================
