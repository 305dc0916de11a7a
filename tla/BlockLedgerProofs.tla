------------------------- MODULE BlockLedgerProofs -------------------------
(***************************************************************************)
(* What an executor has done is determined by the block environment and by *)
(* the transactions it committed, one after the other: its receipts, the   *)
(* state it leaves and the result of the block.  The two counters are sums *)
(* that wrap around or saturate, kept here as ledgers: the value after     *)
(* every transaction.  That a ledger is the only one of its transactions   *)
(* follows from the first place where two of them would differ.            *)
(***************************************************************************)
EXTENDS BlockExecutorProofs, FiniteSetTheorems, WellFoundedInduction

\* The first element of a set of numbers.
LEMMA Smallest ==
  ASSUME NEW T \in SUBSET Nat, T # {}
  PROVE  \E x \in T : \A y \in T : x <= y
<1> DEFINE R == {s \in Nat \X Nat : s[1] < s[2]}
<1>1. IsWellFoundedOn(R, Nat)
  BY NatLessThanWellFounded DEF OpToRel
<1>2. \A x, y \in T : <<y, x>> \in R <=> y < x
  OBVIOUS
<1> HIDE DEF R
<1>3. PICK x \in T : \A y \in T : ~ (<<y, x>> \in R)
  BY <1>1, WFMin
<1>4. ASSUME NEW y \in T PROVE x <= y
  <2>1. ~ (y < x)
    BY <1>2, <1>3
  <2>2. x \in Nat /\ y \in Nat
    OBVIOUS
  <2> QED
    BY <2>1, <2>2
<1> QED
  BY <1>4

----------------------------------------------------------------------------
\* The gas, and the footprint, after each of the transactions.
GasLedger(gas, txs) ==
  gas = [i \in 0 .. Len(txs) |-> IF i = 0 THEN 0 ELSE Add(gas[i - 1], txs[i].gas)]

\* ScalarBefore, of any transactions.
Infos(txs, i) == {j \in 1 .. i - 1 : txs[j].scalars # {}}
\* The scalar that holds before a transaction: of the last L1 info deposit before it.
Latest(infos) == CHOOSE j \in infos : \A k \in infos : k <= j
OneOf(scalars) == CHOOSE n \in scalars : TRUE
ScalarOf(txs, i) ==
  IF Infos(txs, i) = {} THEN InitialScalar ELSE OneOf(txs[Latest(Infos(txs, i))].scalars)

\* Who pays for data availability, and the ledger of the footprint.
Pays(env, tx) == env.jovian /\ ~tx.deposit

FootprintLedger(footprint, txs, env) ==
  footprint = [i \in 0 .. Len(txs) |->
    IF i = 0 THEN 0
    ELSE IF Pays(env, txs[i])
    THEN Saturate(footprint[i - 1] + Saturate(txs[i].size * ScalarOf(txs, i)))
    ELSE footprint[i - 1]]

\* The transactions of a sender before the i-th one.
Earlier(txs, i, sender) == {j \in 1 .. i - 1 : txs[j].sender = sender}
\* How many transactions of a sender come before a place.
TxsBefore(txs, i, sender) == Cardinality(Earlier(txs, i, sender))

\* Some transactions have one gas ledger.
LEMMA OneGasLedger ==
  ASSUME NEW txs \in Seq(Txs), NEW f, GasLedger(f, txs), NEW g, GasLedger(g, txs)
  PROVE  f = g
<1> DEFINE n == Len(txs)
           T == {i \in 0 .. n : f[i] # g[i]}
<1>1. n \in Nat
  OBVIOUS
<1>2. T = {}
  <2> SUFFICES ASSUME T # {} PROVE FALSE
    OBVIOUS
  <2>1. PICK x \in T : \A y \in T : x <= y
    <3>1. T \in SUBSET Nat
      BY <1>1
    <3> HIDE DEF T
    <3> QED
      BY <3>1, Smallest
  <2>2. x \in 0 .. n /\ x # 0 /\ x - 1 \in 0 .. n
    <3>1. f[0] = 0 /\ g[0] = 0
      BY <1>1 DEF GasLedger
    <3> QED
      BY <1>1, <3>1
  <2>3. f[x - 1] = g[x - 1]
    BY <1>1, <2>1, <2>2
  <2>4. f[x] = Add(f[x - 1], txs[x].gas) /\ g[x] = Add(g[x - 1], txs[x].gas)
    BY <2>2 DEF GasLedger
  <2> QED
    BY <2>1, <2>3, <2>4
<1>3. \A i \in 0 .. n : f[i] = g[i]
  BY <1>2
<1>4. DOMAIN f = 0 .. n /\ DOMAIN g = 0 .. n
  BY DEF GasLedger
<1>5. f = [i \in DOMAIN f |-> f[i]] /\ g = [i \in DOMAIN g |-> g[i]]
  BY DEF GasLedger
<1> HIDE DEF n, T
<1> QED
  BY <1>3, <1>4, <1>5

\* And one footprint ledger.
LEMMA OneFootprintLedger ==
  ASSUME NEW txs \in Seq(Txs), NEW env,
         NEW f, FootprintLedger(f, txs, env), NEW g, FootprintLedger(g, txs, env)
  PROVE  f = g
<1> DEFINE n == Len(txs)
           T == {i \in 0 .. n : f[i] # g[i]}
<1>1. n \in Nat
  OBVIOUS
<1>2. T = {}
  <2> SUFFICES ASSUME T # {} PROVE FALSE
    OBVIOUS
  <2>1. PICK x \in T : \A y \in T : x <= y
    <3>1. T \in SUBSET Nat
      BY <1>1
    <3> HIDE DEF T
    <3> QED
      BY <3>1, Smallest
  <2>2. x \in 0 .. n /\ x # 0 /\ x - 1 \in 0 .. n
    <3>1. f[0] = 0 /\ g[0] = 0
      BY <1>1 DEF FootprintLedger
    <3> QED
      BY <1>1, <3>1
  <2>3. f[x - 1] = g[x - 1]
    BY <1>1, <2>1, <2>2
  <2>4. f[x] = g[x]
    BY <2>2, <2>3 DEF FootprintLedger
  <2> QED
    BY <2>1, <2>4
<1>3. \A i \in 0 .. n : f[i] = g[i]
  BY <1>2
<1>4. DOMAIN f = 0 .. n /\ DOMAIN g = 0 .. n
  BY DEF FootprintLedger
<1>5. f = [i \in DOMAIN f |-> f[i]] /\ g = [i \in DOMAIN g |-> g[i]]
  BY DEF FootprintLedger
<1> HIDE DEF n, T
<1> QED
  BY <1>3, <1>4, <1>5

----------------------------------------------------------------------------
\* One more transaction at the end: the entries before it stay as they were.
LEMMA OneMoreTx ==
  ASSUME NEW txs \in Seq(Txs), NEW tx \in Txs, NEW more, more = Append(txs, tx)
  PROVE  /\ more \in Seq(Txs) /\ Len(txs) \in Nat /\ Len(more) = Len(txs) + 1
         /\ \A i \in 1 .. Len(txs) : more[i] = txs[i]
         /\ more[Len(txs) + 1] = tx
OBVIOUS

\* One more transaction leaves the counts before the earlier ones as they are, and
\* adds one to the count of its sender.
CountsOn(txs, tx, more, sender) ==
  /\ \A i \in 1 .. Len(txs) + 1 : TxsBefore(more, i, sender) = TxsBefore(txs, i, sender)
  /\ TxsBefore(txs, Len(txs) + 1, sender) \in Nat
  /\ TxsBefore(more, Len(more) + 1, sender)
       = TxsBefore(txs, Len(txs) + 1, sender) + (IF tx.sender = sender THEN 1 ELSE 0)

\* So it does.
LEMMA MoreTxsBefore ==
  ASSUME NEW txs \in Seq(Txs), NEW tx \in Txs, NEW more, more = Append(txs, tx),
         NEW sender
  PROVE  CountsOn(txs, tx, more, sender)
<1> DEFINE n == Len(txs)
           before == {j \in 1 .. n : txs[j].sender = sender}
           after  == {j \in 1 .. n + 1 : more[j].sender = sender}
<1>1. /\ n \in Nat /\ Len(more) = n + 1
      /\ \A i \in 1 .. n : more[i] = txs[i]
      /\ more[n + 1] = tx
  BY OneMoreTx
<1> HIDE DEF n, CountsOn
<1>2. ASSUME NEW i \in 1 .. n + 1 PROVE TxsBefore(more, i, sender) = TxsBefore(txs, i, sender)
  <2>1. Earlier(more, i, sender) = Earlier(txs, i, sender)
    BY <1>1 DEF Earlier
  <2> QED
    BY <2>1 DEF TxsBefore
<1>3. TxsBefore(txs, n + 1, sender) = Cardinality(before)
  <2>1. Earlier(txs, n + 1, sender) = before
    BY <1>1 DEF Earlier
  <2> QED
    BY <2>1 DEF TxsBefore
<1>4. TxsBefore(more, Len(more) + 1, sender) = Cardinality(after)
  <2>1. Earlier(more, Len(more) + 1, sender) = after
    BY <1>1 DEF Earlier
  <2> QED
    BY <2>1 DEF TxsBefore
<1>5. IsFiniteSet(before) /\ Cardinality(before) \in Nat
  <2>1. IsFiniteSet(1 .. n)
    BY <1>1, FS_Interval
  <2>2. IsFiniteSet(before)
    BY <2>1, FS_Subset
  <2> QED
    BY <2>2, FS_CardinalityType
<1>6. CASE tx.sender = sender
  <2>1. after = before \cup {n + 1} /\ n + 1 \notin before
    BY <1>1, <1>6
  <2> HIDE DEF before, after
  <2>2. Cardinality(after) = Cardinality(before) + 1
    BY <1>5, <2>1, FS_AddElement
  <2> QED
    BY <1>2, <1>3, <1>4, <1>5, <1>6, <2>2 DEF n, CountsOn
<1>7. CASE tx.sender # sender
  <2>1. Cardinality(after) = Cardinality(before) + 0
    <3>1. after = before
      BY <1>1, <1>7
    <3> HIDE DEF before, after
    <3> QED
      BY <1>5, <3>1
  <2> HIDE DEF before, after
  <2> QED
    BY <1>2, <1>3, <1>4, <1>5, <1>7, <2>1 DEF n, CountsOn
<1> QED
  BY <1>6, <1>7

\* The latest of a set of numbers up to n.
LEMMA LatestOfSome ==
  ASSUME NEW n \in Nat, NEW infos \in SUBSET (1 .. n), infos # {}
  PROVE  Latest(infos) \in infos /\ \A k \in infos : k <= Latest(infos)
<1> DEFINE T == {n - k : k \in infos}
<1>1. T \in SUBSET Nat /\ T # {}
  <2>1. \A k \in infos : k \in 1 .. n /\ n - k \in Nat
    OBVIOUS
  <2> QED
    BY <2>1
<1>2. PICK x \in T : \A y \in T : x <= y
  <2> HIDE DEF T
  <2> QED
    BY <1>1, Smallest
<1>3. PICK j \in infos : x = n - j
  OBVIOUS
<1>4. ASSUME NEW k \in infos PROVE k <= j
  <2>1. n - k \in T
    OBVIOUS
  <2>2. n - j <= n - k /\ j \in Nat /\ k \in Nat
    BY <1>2, <1>3, <2>1
  <2> QED
    BY <2>2
<1> QED
  BY <1>4 DEF Latest

\* One more transaction leaves the scalars of the earlier ones as they are, and sets
\* that of the next if it is an L1 info deposit.
LEMMA MoreScalars ==
  ASSUME NEW txs \in Seq(Txs), NEW tx \in Txs, NEW more, more = Append(txs, tx)
  PROVE  /\ \A i \in 1 .. Len(txs) + 1 : ScalarOf(more, i) = ScalarOf(txs, i)
         /\ ScalarOf(more, Len(more) + 1)
              = IF tx.scalars = {} THEN ScalarOf(txs, Len(txs) + 1)
                                   ELSE OneOf(tx.scalars)
<1> DEFINE n == Len(txs)
<1>1. /\ n \in Nat /\ Len(more) = n + 1
      /\ \A i \in 1 .. n : more[i] = txs[i]
      /\ more[n + 1] = tx
  BY OneMoreTx
<1> HIDE DEF n
<1>2. ASSUME NEW i \in 1 .. n + 1 PROVE ScalarOf(more, i) = ScalarOf(txs, i)
  <2>1. Infos(more, i) = Infos(txs, i) /\ Infos(txs, i) \in SUBSET (1 .. n)
    BY <1>1 DEF Infos
  <2>2. CASE Infos(txs, i) = {}
    BY <2>1, <2>2 DEF ScalarOf
  <2>3. CASE Infos(txs, i) # {}
    <3>1. Latest(Infos(txs, i)) \in 1 .. n
      BY <1>1, <2>1, <2>3, LatestOfSome
    <3>2. more[Latest(Infos(txs, i))] = txs[Latest(Infos(txs, i))]
      BY <1>1, <3>1
    <3> QED
      BY <2>1, <2>3, <3>2 DEF ScalarOf
  <2> QED
    BY <2>2, <2>3
<1>3. /\ Infos(more, n + 2) = IF tx.scalars = {} THEN Infos(more, n + 1)
                                                ELSE Infos(more, n + 1) \cup {n + 1}
      /\ Infos(more, n + 1) \in SUBSET (1 .. n)
  BY <1>1 DEF Infos
<1>4. CASE tx.scalars = {}
  <2>1. ScalarOf(more, n + 2) = ScalarOf(more, n + 1)
    <3>1. Infos(more, n + 2) = Infos(more, n + 1)
      BY <1>3, <1>4
    <3> QED
      BY <3>1 DEF ScalarOf
  <2>2. ScalarOf(more, n + 1) = ScalarOf(txs, n + 1)
    BY <1>1, <1>2
  <2>3. Len(more) + 1 = n + 2
    BY <1>1
  <2> QED
    BY <1>2, <1>4, <2>1, <2>2, <2>3 DEF n
<1>5. CASE tx.scalars # {}
  <2>1. /\ Infos(more, n + 2) \in SUBSET (1 .. n + 1) /\ n + 1 \in Infos(more, n + 2)
        /\ n + 1 \in Nat
    BY <1>1, <1>3, <1>5
  <2>2. /\ Latest(Infos(more, n + 2)) \in Infos(more, n + 2)
        /\ n + 1 <= Latest(Infos(more, n + 2))
    BY <2>1, LatestOfSome
  <2>3. Latest(Infos(more, n + 2)) = n + 1
    <3>1. Latest(Infos(more, n + 2)) \in 1 .. n + 1
      BY <2>1, <2>2
    <3> QED
      BY <1>1, <2>2, <3>1
  <2>4. ScalarOf(more, n + 2) = OneOf(tx.scalars)
    BY <1>1, <2>1, <2>3 DEF ScalarOf
  <2>5. Len(more) + 1 = n + 2
    BY <1>1
  <2> QED
    BY <1>2, <1>5, <2>4, <2>5 DEF n
<1> QED
  BY <1>4, <1>5

----------------------------------------------------------------------------
\* The state is that of the committed transactions.
StateFollows ==
  /\ \A s \in Senders : state.nonce[s] = TxsBefore(committed, Len(committed) + 1, s)
  /\ state.scalar = ScalarOf(committed, Len(committed) + 1)

\* The counters and the receipts are those of the ledgers.
CountersFollow ==
  /\ \E gas : /\ GasLedger(gas, committed)
              /\ gas_used = gas[Len(committed)]
              /\ \A i \in 1 .. Len(receipts) : receipts[i].cumulative = gas[i]
  /\ \E footprint : /\ FootprintLedger(footprint, committed, block)
                    /\ da_footprint_used = footprint[Len(committed)]

\* The fields of a receipt that do not count gas.
DepositFields(receipt, env, txs, i) ==
  /\ receipt.depositNonce = IF env.regolith /\ txs[i].deposit
                            THEN {TxsBefore(txs, i, txs[i].sender)} ELSE {}
  /\ receipt.depositVersion = IF txs[i].deposit /\ env.canyon THEN {1} ELSE {}

\* Every receipt has the deposit fields of its transaction.
ReceiptsFollow ==
  \A i \in 1 .. Len(receipts) : DepositFields(receipts[i], block, committed, i)

\* The output in flight is priced at the scalar of the state.
PendingPriced ==
  \A output \in pending :
    output.footprint = IF Charged(output.tx) THEN DaFootprintEstimation(output.tx) ELSE 0

\* The result is read off the counters, when nothing is in flight any more.
ResultFollows ==
  result = IF phase = "finished"
           THEN {[gas_used |-> gas_used, blob_gas_used |-> da_footprint_used]} ELSE {}

\* A finished executor has no output in flight.
NothingInFlight == phase = "finished" => pending = {}

\* The inductive invariant: state, counters, receipts and result are functions of the
\* block environment and of what was committed.
LedgerInv ==
  /\ TypeOK /\ CumulativeGas
  /\ StateFollows /\ CountersFollow /\ ReceiptsFollow
  /\ PendingPriced /\ ResultFollows /\ NothingInFlight

\* An executor without transactions has empty ledgers.
LEMMA LedgerInit == Init => LedgerInv
<1> SUFFICES ASSUME Init PROVE LedgerInv
  OBVIOUS
<1>1. /\ committed = << >> /\ Len(committed) = 0 /\ receipts = << >> /\ Len(receipts) = 0
  BY DEF Init
<1>2. TypeOK /\ CumulativeGas
  BY TypeInit DEF Init, CumulativeGas, LegacyGasUsed
<1>3. StateFollows
  <2>1. \A s : Earlier(committed, 0 + 1, s) = {}
    BY DEF Earlier
  <2>2. \A s : TxsBefore(committed, 0 + 1, s) = 0
    BY <2>1, FS_EmptySet DEF TxsBefore
  <2>3. Infos(committed, 0 + 1) = {}
    BY DEF Infos
  <2> QED
    BY <1>1, <2>2, <2>3 DEF Init, StateFollows, ScalarOf
<1>4. CountersFollow
  <2> DEFINE zero == [i \in 0 .. 0 |-> 0]
  <2>1. GasLedger(zero, committed) /\ FootprintLedger(zero, committed, block)
    BY <1>1 DEF GasLedger, FootprintLedger
  <2>2. zero[0] = 0
    OBVIOUS
  <2> HIDE DEF zero
  <2> QED
    BY <1>1, <2>1, <2>2 DEF Init, CountersFollow
<1> QED
  BY <1>1, <1>2, <1>3, <1>4
  DEF Init, LedgerInv, ReceiptsFollow, PendingPriced, ResultFollows, NothingInFlight

\* One more transaction makes the ledgers longer by what it is charged.
GasGoesOn(gas, txs, tx, more) ==
  \E longer : /\ GasLedger(longer, more)
              /\ longer[Len(more)] = Add(gas[Len(txs)], tx.gas)
              /\ \A i \in 0 .. Len(txs) : longer[i] = gas[i]

\* The footprint ledger goes on with a transaction: at the scalar before it.
FootprintGoesOn(footprint, txs, tx, more, env) ==
  \E longer :
    /\ FootprintLedger(longer, more, env)
    /\ longer[Len(more)] =
         IF Pays(env, tx)
         THEN Saturate(footprint[Len(txs)] + Saturate(tx.size * ScalarOf(txs, Len(txs) + 1)))
         ELSE footprint[Len(txs)]
    /\ \A i \in 0 .. Len(txs) : longer[i] = footprint[i]

\* Ledgers of some transactions extend to ledgers of one more.
LEMMA LongerLedgers ==
  ASSUME NEW txs \in Seq(Txs), NEW tx \in Txs, NEW more, more = Append(txs, tx), NEW env,
         NEW gas, GasLedger(gas, txs), NEW footprint, FootprintLedger(footprint, txs, env)
  PROVE  /\ GasGoesOn(gas, txs, tx, more)
         /\ FootprintGoesOn(footprint, txs, tx, more, env)
<1> DEFINE n == Len(txs)
<1>1. /\ n \in Nat /\ Len(more) = n + 1
      /\ \A i \in 1 .. n : more[i] = txs[i]
      /\ more[n + 1] = tx
  BY OneMoreTx
<1> HIDE DEF n
<1>2. /\ \A i \in 1 .. n : ScalarOf(more, i) = ScalarOf(txs, i)
      /\ ScalarOf(more, n + 1) = ScalarOf(txs, n + 1)
  <2>1. \A i \in 1 .. n + 1 : ScalarOf(more, i) = ScalarOf(txs, i)
    BY MoreScalars DEF n
  <2> QED
    BY <1>1, <2>1
<1>3. \E longer : /\ GasLedger(longer, more)
                  /\ longer[n + 1] = Add(gas[n], tx.gas)
                  /\ \A i \in 0 .. n : longer[i] = gas[i]
  <2> DEFINE longer == [i \in 0 .. n + 1 |-> IF i = n + 1 THEN Add(gas[n], tx.gas) ELSE gas[i]]
  <2>1. gas[0] = 0 /\ \A i \in 1 .. n : gas[i] = Add(gas[i - 1], txs[i].gas)
    BY <1>1 DEF GasLedger, n
  <2>2. longer[n + 1] = Add(gas[n], tx.gas) /\ \A i \in 0 .. n : longer[i] = gas[i]
    BY <1>1
  <2>3. ASSUME NEW i \in 0 .. n + 1
        PROVE  longer[i] = IF i = 0 THEN 0 ELSE Add(longer[i - 1], more[i].gas)
    <3>1. CASE i = 0
      BY <1>1, <2>1, <2>2, <3>1
    <3>2. CASE i \in 1 .. n
      <4>1. i - 1 \in 0 .. n /\ i \in 0 .. n /\ i # 0
        BY <1>1, <3>2
      <4> HIDE DEF longer
      <4> QED
        BY <1>1, <2>1, <2>2, <3>2, <4>1
    <3>3. CASE i = n + 1
      <4>1. i - 1 = n /\ n \in 0 .. n /\ i # 0
        BY <1>1, <3>3
      <4> HIDE DEF longer
      <4> QED
        BY <1>1, <2>2, <3>3, <4>1
    <3> QED
      BY <1>1, <3>1, <3>2, <3>3
  <2>4. longer = [i \in 0 .. n + 1 |-> IF i = 0 THEN 0 ELSE Add(longer[i - 1], more[i].gas)]
    BY <2>3
  <2>5. GasLedger(longer, more)
    <3> HIDE DEF longer
    <3> QED
      BY <1>1, <2>4 DEF GasLedger
  <2> HIDE DEF longer
  <2> QED
    BY <2>2, <2>5
<1>4. \E longer :
        /\ FootprintLedger(longer, more, env)
        /\ longer[n + 1] =
             IF Pays(env, tx)
             THEN Saturate(footprint[n] + Saturate(tx.size * ScalarOf(txs, n + 1)))
             ELSE footprint[n]
        /\ \A i \in 0 .. n : longer[i] = footprint[i]
  <2> DEFINE Entry(f, i) == IF i = 0 THEN 0
                           ELSE IF Pays(env, more[i])
                           THEN Saturate(f[i - 1] + Saturate(more[i].size * ScalarOf(more, i)))
                           ELSE f[i - 1]
             last == IF Pays(env, tx)
                     THEN Saturate(footprint[n] + Saturate(tx.size * ScalarOf(txs, n + 1)))
                     ELSE footprint[n]
             longer == [i \in 0 .. n + 1 |-> IF i = n + 1 THEN last ELSE footprint[i]]
  <2>1. \A i \in 0 .. n : footprint[i] = Entry(footprint, i)
    <3>1. \A i \in 0 .. n :
            footprint[i] = IF i = 0 THEN 0
                           ELSE IF Pays(env, txs[i])
                           THEN Saturate(footprint[i - 1] + Saturate(txs[i].size * ScalarOf(txs, i)))
                           ELSE footprint[i - 1]
      BY <1>1 DEF FootprintLedger, n
    <3> QED
      BY <1>1, <1>2, <3>1
  <2>2. longer[n + 1] = last /\ \A i \in 0 .. n : longer[i] = footprint[i]
    BY <1>1
  <2>3. ASSUME NEW i \in 0 .. n + 1 PROVE longer[i] = Entry(longer, i)
    <3>1. CASE i \in 0 .. n
      <4>1. i = 0 \/ i - 1 \in 0 .. n
        BY <1>1, <3>1
      <4>2. longer[i] = footprint[i] /\ (i # 0 => longer[i - 1] = footprint[i - 1])
        BY <2>2, <3>1, <4>1
      <4>3. footprint[i] = Entry(footprint, i)
        BY <2>1, <3>1
      <4> HIDE DEF longer
      <4> QED
        BY <4>2, <4>3
    <3>2. CASE i = n + 1
      <4>1. i - 1 = n /\ n \in 0 .. n /\ i # 0
        BY <1>1, <3>2
      <4>2. longer[n] = footprint[n] /\ more[i] = tx /\ ScalarOf(more, i) = ScalarOf(txs, n + 1)
        BY <1>1, <1>2, <2>2, <3>2, <4>1
      <4> HIDE DEF longer
      <4>3. Entry(longer, i) = last
        BY <4>1, <4>2
      <4> QED
        BY <2>2, <3>2, <4>3
    <3> QED
      BY <1>1, <3>1, <3>2
  <2>4. longer = [i \in 0 .. n + 1 |-> Entry(longer, i)]
    <3> HIDE DEF Entry
    <3> QED
      BY <2>3
  <2>5. FootprintLedger(longer, more, env)
    <3> HIDE DEF longer
    <3> QED
      BY <1>1, <2>4 DEF FootprintLedger
  <2> HIDE DEF longer
  <2> QED
    BY <2>2, <2>5
<1> QED
  BY <1>1, <1>3, <1>4 DEF n, GasGoesOn, FootprintGoesOn

----------------------------------------------------------------------------
\* What a commit does, all told.
LEMMA LedgerCommit ==
  ASSUME LedgerInv, Commit
  PROVE  StateFollows' /\ CountersFollow' /\ ReceiptsFollow'
<1>1. TypeOK /\ CumulativeGas /\ StateFollows /\ CountersFollow /\ ReceiptsFollow /\ PendingPriced
  BY DEF LedgerInv
<1>2. PICK output \in pending :
        /\ output.tx \in Txs
        /\ gas_used' = Add(gas_used, output.tx.gas)
        /\ da_footprint_used' =
             IF Charged(output.tx) THEN Saturate(da_footprint_used + output.footprint)
                                   ELSE da_footprint_used
        /\ receipts' = Append(receipts, BuildReceipt(output.tx, state.nonce, gas_used'))
        /\ BuildReceipt(output.tx, state.nonce, gas_used') \in Receipt
        /\ BuildReceipt(output.tx, state.nonce, gas_used').cumulative = gas_used'
        /\ state' = After(output.tx, state)
        /\ committed' = Append(committed, output.tx)
        /\ block' = block
  BY <1>1, CommitStep
<1> DEFINE tx == output.tx
           receipt == BuildReceipt(tx, state.nonce, gas_used')
           n == Len(committed)
<1>3. /\ committed \in Seq(Txs) /\ tx \in Txs /\ committed' = Append(committed, tx)
      /\ Len(receipts) = n /\ receipts \in Seq(Receipt) /\ state \in State
      /\ state.nonce \in [Senders -> Nat] /\ tx.sender \in Senders
  BY <1>1, <1>2, TxFields DEF TypeOK, State
<1>4. /\ n \in Nat /\ Len(committed') = n + 1
      /\ \A i \in 1 .. n : committed'[i] = committed[i]
      /\ committed'[n + 1] = tx
  BY <1>3, OneMoreTx
<1>5. /\ Len(receipts') = n + 1
      /\ \A i \in 1 .. n : receipts'[i] = receipts[i]
      /\ receipts'[n + 1] = receipt
  <2>1. receipt \in Receipt /\ receipts' = Append(receipts, receipt)
    BY <1>2
  <2> HIDE DEF receipt
  <2> QED
    BY <1>3, <2>1
<1>6. ASSUME NEW s
      PROVE  /\ \A i \in 1 .. n + 1 : TxsBefore(committed', i, s) = TxsBefore(committed, i, s)
             /\ TxsBefore(committed', Len(committed') + 1, s)
                  = TxsBefore(committed, n + 1, s) + (IF tx.sender = s THEN 1 ELSE 0)
             /\ TxsBefore(committed, n + 1, s) \in Nat
  <2> HIDE DEF tx
  <2>1. CountsOn(committed, tx, committed', s)
    BY <1>3, MoreTxsBefore
  <2> QED
    BY <2>1 DEF CountsOn
<1>7. StateFollows'
  <2>1. ASSUME NEW s \in Senders
        PROVE  state'.nonce[s] = TxsBefore(committed', Len(committed') + 1, s)
    <3>1. state'.nonce[s] = state.nonce[s] + (IF tx.sender = s THEN 1 ELSE 0)
      BY <1>2, <1>3 DEF After
    <3>2. state.nonce[s] = TxsBefore(committed, n + 1, s)
      BY <1>1 DEF StateFollows
    <3> QED
      BY <1>6, <3>1, <3>2
  <2>2. state'.scalar = ScalarOf(committed', Len(committed') + 1)
    <3>1. state'.scalar = IF tx.scalars = {} THEN state.scalar ELSE OneOf(tx.scalars)
      BY <1>2 DEF After, OneOf
    <3>2. state.scalar = ScalarOf(committed, n + 1)
      BY <1>1 DEF StateFollows
    <3>3. ScalarOf(committed', Len(committed') + 1)
            = IF tx.scalars = {} THEN ScalarOf(committed, n + 1) ELSE OneOf(tx.scalars)
      <4> HIDE DEF tx
      <4> QED
        BY <1>3, MoreScalars
    <3> QED
      BY <3>1, <3>2, <3>3
  <2> QED
    BY <2>1, <2>2 DEF StateFollows
<1>8. CountersFollow'
  <2>1. PICK gas : /\ GasLedger(gas, committed)
                   /\ gas_used = gas[n]
                   /\ \A i \in 1 .. Len(receipts) : receipts[i].cumulative = gas[i]
    BY <1>1 DEF CountersFollow
  <2>2. PICK footprint : /\ FootprintLedger(footprint, committed, block)
                         /\ da_footprint_used = footprint[n]
    BY <1>1 DEF CountersFollow
  <2> HIDE DEF tx
  <2>3. /\ GasGoesOn(gas, committed, tx, committed')
        /\ FootprintGoesOn(footprint, committed, tx, committed', block)
    BY <1>3, <2>1, <2>2, LongerLedgers
  <2>4. PICK more : /\ GasLedger(more, committed')
                    /\ more[Len(committed')] = Add(gas[n], tx.gas)
                    /\ \A i \in 0 .. n : more[i] = gas[i]
    BY <2>3 DEF GasGoesOn
  <2>5. PICK dearer :
          /\ FootprintLedger(dearer, committed', block)
          /\ dearer[Len(committed')] =
               IF Pays(block, tx)
               THEN Saturate(footprint[n] + Saturate(tx.size * ScalarOf(committed, n + 1)))
               ELSE footprint[n]
    BY <2>3 DEF FootprintGoesOn
  <2>6. gas_used' = more[Len(committed')]
    BY <1>2, <2>1, <2>4 DEF tx
  <2>7. ASSUME NEW i \in 1 .. n + 1 PROVE receipts'[i].cumulative = more[i]
    <3>1. CASE i \in 1 .. n
      BY <1>3, <1>4, <1>5, <2>1, <2>4, <3>1
    <3>2. CASE i = n + 1
      <4>1. receipts'[i].cumulative = gas_used'
        BY <1>2, <1>5, <3>2 DEF tx
      <4> QED
        BY <1>4, <2>6, <3>2, <4>1
    <3> QED
      BY <1>4, <3>1, <3>2
  <2>8. da_footprint_used' = dearer[Len(committed')]
    <3>1. Charged(tx) <=> Pays(block, tx)
      BY DEF Charged, Pays
    <3>2. CASE Charged(tx)
      <4>1. output.footprint = Saturate(tx.size * ScalarOf(committed, n + 1))
        BY <1>1, <3>2 DEF PendingPriced, DaFootprintEstimation, StateFollows, tx
      <4>2. da_footprint_used' = Saturate(da_footprint_used + output.footprint)
        BY <1>2, <3>2 DEF tx
      <4> QED
        BY <2>2, <2>5, <3>1, <3>2, <4>1, <4>2
    <3>3. CASE ~Charged(tx)
      BY <1>2, <2>2, <2>5, <3>1, <3>3 DEF tx
    <3> QED
      BY <3>2, <3>3
  <2>9. block' = block
    BY <1>2
  <2> QED
    BY <1>5, <2>4, <2>5, <2>6, <2>7, <2>8, <2>9 DEF CountersFollow
<1>9. ReceiptsFollow'
  <2>1. ASSUME NEW i \in 1 .. n PROVE DepositFields(receipts'[i], block, committed', i)
    <3>1. /\ receipts'[i] = receipts[i] /\ committed'[i] = committed[i]
          /\ \A s : TxsBefore(committed', i, s) = TxsBefore(committed, i, s)
      <4>1. i \in 1 .. n + 1
        BY <1>4
      <4> QED
        BY <1>4, <1>5, <1>6, <4>1
    <3>2. DepositFields(receipts[i], block, committed, i)
      BY <1>1, <1>3 DEF ReceiptsFollow
    <3> QED
      BY <3>1, <3>2 DEF DepositFields
  <2>2. DepositFields(receipts'[n + 1], block, committed', n + 1)
    <3>1. state.nonce[tx.sender] = TxsBefore(committed', n + 1, tx.sender)
      BY <1>1, <1>3, <1>4, <1>6 DEF StateFollows
    <3> QED
      BY <1>4, <1>5, <3>1 DEF DepositFields, BuildReceipt, ReadsDepositor
  <2>3. block' = block
    BY <1>2
  <2> QED
    BY <1>4, <1>5, <2>1, <2>2, <2>3 DEF ReceiptsFollow
<1> QED
  BY <1>7, <1>8, <1>9

\* Every step keeps the invariant.
LEMMA LedgerStep ==
  ASSUME LedgerInv, [Next]_vars
  PROVE  LedgerInv'
<1>1. TypeOK /\ CumulativeGas
  BY DEF LedgerInv
<1>2. TypeOK' /\ CumulativeGas'
  BY <1>1, TypeStep, CumulativeStep
<1>3. ASSUME UNCHANGED <<block, gas_used, da_footprint_used, receipts, state, committed>>
      PROVE  StateFollows' /\ CountersFollow' /\ ReceiptsFollow'
  BY <1>3 DEF LedgerInv, StateFollows, CountersFollow, ReceiptsFollow
<1>4. ASSUME UNCHANGED <<block, state>>, pending' \subseteq pending
      PROVE  PendingPriced'
  BY <1>4 DEF LedgerInv, PendingPriced, Charged, DaFootprintEstimation
<1>5. ASSUME UNCHANGED <<gas_used, da_footprint_used, phase, result>>
      PROVE  ResultFollows'
  BY <1>5 DEF LedgerInv, ResultFollows
<1>6. CASE Commit
  <2>1. PICK output \in pending : pending' = {} /\ UNCHANGED <<block, phase, result>>
    BY <1>1, <1>6, CommitStep
  <2>2. phase # "finished"
    BY DEF LedgerInv, NothingInFlight
  <2>3. PendingPriced' /\ ResultFollows' /\ NothingInFlight'
    BY <2>1, <2>2 DEF LedgerInv, PendingPriced, ResultFollows, NothingInFlight
  <2> QED
    BY <1>2, <1>6, <2>3, LedgerCommit DEF LedgerInv
<1>7. ASSUME NEW tx \in Txs, Execute(tx) PROVE LedgerInv'
  <2>1. UNCHANGED <<block, gas_used, da_footprint_used, receipts, state, committed>>
    BY <1>7 DEF Execute
  <2>2. PendingPriced'
    BY <1>7 DEF Execute, PendingPriced, Charged, DaFootprintEstimation
  <2>3. ResultFollows' /\ NothingInFlight'
    BY <1>5, <1>7 DEF Execute, MayExecute, NothingInFlight
  <2> QED
    BY <1>2, <1>3, <2>1, <2>2, <2>3 DEF LedgerInv
<1>8. CASE Finish
  <2>1. /\ UNCHANGED <<block, gas_used, da_footprint_used, receipts, state, committed, pending>>
        /\ pending = {}
    BY <1>8 DEF Finish
  <2>2. ResultFollows' /\ NothingInFlight'
    BY <1>1, <1>8 DEF Finish, ResultFollows, NothingInFlight, CumulativeGas
  <2> QED
    BY <1>2, <1>3, <1>4, <2>1, <2>2 DEF LedgerInv
<1>9. ASSUME \/ PreExecutionFails \/ Drop \/ CommitFails \/ UNCHANGED vars
             \/ \E tx \in Txs : Reject(tx) \/ ReadFails(tx)
      PROVE  LedgerInv'
  <2>1. /\ UNCHANGED <<block, gas_used, da_footprint_used, receipts, state, committed>>
        /\ pending' \subseteq pending /\ UNCHANGED <<phase, result>>
    BY <1>9 DEF PreExecutionFails, Drop, CommitFails, Reject, ReadFails, vars
  <2>2. NothingInFlight'
    BY <2>1 DEF LedgerInv, NothingInFlight
  <2> QED
    BY <1>2, <1>3, <1>4, <1>5, <2>1, <2>2 DEF LedgerInv
<1>10. CASE ApplyPreExecutionChanges
  <2>1. /\ UNCHANGED <<block, gas_used, da_footprint_used, receipts, state, committed>>
        /\ pending' \subseteq pending /\ UNCHANGED result
        /\ phase = "new" /\ phase' = "started"
    BY <1>10 DEF ApplyPreExecutionChanges
  <2>2. ResultFollows' /\ NothingInFlight'
    BY <2>1 DEF LedgerInv, ResultFollows, NothingInFlight
  <2> QED
    BY <1>2, <1>3, <1>4, <2>1, <2>2 DEF LedgerInv
<1> QED
  BY <1>6, <1>7, <1>8, <1>9, <1>10 DEF Next

\* The invariant holds.
LEMMA LedgerInvariant == Spec => []LedgerInv
BY LedgerInit, LedgerStep, PTL DEF Spec

----------------------------------------------------------------------------
\* The invariant implies the nonces of the deposit receipts.
LEMMA ReceiptsHaveNonces == LedgerInv => DepositNonces
<1> SUFFICES ASSUME LedgerInv, NEW i \in DOMAIN receipts
             PROVE  receipts[i].depositNonce =
                      IF block.regolith /\ committed[i].deposit
                      THEN {Cardinality({j \in 1 .. i - 1 :
                                           committed[j].sender = committed[i].sender})}
                      ELSE {}
  BY DEF DepositNonces
<1>1. i \in 1 .. Len(receipts)
  BY DEF LedgerInv, TypeOK
<1> QED
  BY <1>1 DEF LedgerInv, ReceiptsFollow, DepositFields, TxsBefore, Earlier

\* From Regolith on a deposit's receipt has the nonce of its sender before it: the
\* depositor is read before the commit, and only committed transactions count,
\* whatever was refused, dropped or failed in between.
THEOREM ReceiptsHaveDepositNonces == Spec => []DepositNonces
BY LedgerInvariant, ReceiptsHaveNonces, PTL

\* The invariant implies what finish returns: the recursive sums of the property are
\* ledgers, and a ledger is the only one.
LEMMA ResultFollowsLedgers == LedgerInv => ResultAccountsForBlock
<1> SUFFICES ASSUME LedgerInv PROVE ResultAccountsForBlock
  OBVIOUS
<1>1. committed \in Seq(Txs) /\ CountersFollow /\ ResultFollows
  BY DEF LedgerInv, TypeOK
<1> DEFINE n == Len(committed)
           Gas(g) == [i \in 0 .. n |-> IF i = 0 THEN 0 ELSE Add(g[i - 1], committed[i].gas)]
           Prints(f) == [i \in 0 .. n |->
             IF i = 0 THEN 0
             ELSE IF Charged(committed[i])
             THEN Saturate(f[i - 1] + Saturate(committed[i].size * ScalarBefore(i)))
             ELSE f[i - 1]]
           gas == CHOOSE g : g = Gas(g)
           footprint == CHOOSE f : f = Prints(f)
<1>2. gas_used = gas[n]
  <2>1. \A g : GasLedger(g, committed) <=> g = Gas(g)
    BY DEF GasLedger
  <2>2. PICK g : GasLedger(g, committed) /\ gas_used = g[n]
    BY <1>1 DEF CountersFollow
  <2> HIDE DEF Gas
  <2>3. GasLedger(gas, committed)
    BY <2>1, <2>2
  <2>4. gas = g
    BY <1>1, <2>2, <2>3, OneGasLedger
  <2> QED
    BY <2>2, <2>4
<1>3. da_footprint_used = footprint[n]
  <2>1. \A f : Prints(f) = [i \in 0 .. n |->
                 IF i = 0 THEN 0
                 ELSE IF Pays(block, committed[i])
                 THEN Saturate(f[i - 1] + Saturate(committed[i].size * ScalarOf(committed, i)))
                 ELSE f[i - 1]]
    <3>1. \A i \in 0 .. n : ScalarBefore(i) = ScalarOf(committed, i)
      BY DEF ScalarBefore, ScalarOf, Infos, Latest, OneOf
    <3>2. \A i \in 0 .. n : Charged(committed[i]) <=> Pays(block, committed[i])
      BY DEF Charged, Pays
    <3> QED
      BY <3>1, <3>2
  <2> HIDE DEF Prints
  <2>2. \A f : FootprintLedger(f, committed, block) <=> f = Prints(f)
    BY <2>1 DEF FootprintLedger
  <2>3. PICK f : FootprintLedger(f, committed, block) /\ da_footprint_used = f[n]
    BY <1>1 DEF CountersFollow
  <2>4. FootprintLedger(footprint, committed, block)
    BY <2>2, <2>3
  <2>5. footprint = f
    BY <1>1, <2>3, <2>4, OneFootprintLedger
  <2> QED
    BY <2>3, <2>5
<1>4. \A r \in result : r.gas_used = gas_used /\ r.blob_gas_used = da_footprint_used
  BY <1>1 DEF ResultFollows
<1>5. \A r \in result : r.gas_used = gas[n] /\ r.blob_gas_used = footprint[n]
  BY <1>2, <1>3, <1>4
<1> QED
  BY <1>5 DEF ResultAccountsForBlock

\* What finish returns is the sum of the gas of the committed transactions, and the
\* sum of the footprints of those that pay, each at the gas scalar that the
\* last L1 info deposit before it had set, for any transactions and any width
\* of the counters.
THEOREM ResultAccountsForCommitted == Spec => []ResultAccountsForBlock
BY LedgerInvariant, ResultFollowsLedgers, PTL

=============================================================================
