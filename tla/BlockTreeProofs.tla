-------------------------- MODULE BlockTreeProofs --------------------------
(***************************************************************************)
(* Theorems about BlockTree: the ways to derive the environment of a block *)
(* agree, no upgrade makes the node refuse its own blocks, and the base    *)
(* fee can be computed unless the environment asks for the contrary.       *)
(***************************************************************************)
EXTENDS BlockTree, TLAPS

\* The newest active upgrade is the first that is found from the newest on.
LEMMA SpecsAgree ==
  ASSUME NEW timestamp
  PROVE  SpecByTimestampAfterBedrock(forks, timestamp) = SpecAt(forks, timestamp)
<1> DEFINE active == {i \in DOMAIN Upgrades : Active(forks, Upgrades[i], timestamp)}
           spec   == SpecByTimestampAfterBedrock(forks, timestamp)
<1>1. DOMAIN Upgrades = 1 .. 8
  BY DEF Upgrades
<1>2. /\ \A i \in 1 .. 8 : Active(forks, Upgrades[i], timestamp) <=> i \in active
      /\ active \subseteq 1 .. 8
  BY <1>1
<1>3. spec = IF 8 \in active THEN 8 ELSE IF 7 \in active THEN 7 ELSE
             IF 6 \in active THEN 6 ELSE IF 5 \in active THEN 5 ELSE
             IF 4 \in active THEN 4 ELSE IF 3 \in active THEN 3 ELSE
             IF 2 \in active THEN 2 ELSE IF 1 \in active THEN 1 ELSE 0
  BY <1>1, <1>2 DEF SpecByTimestampAfterBedrock
<1>4. SpecAt(forks, timestamp)
        = IF active = {} THEN 0 ELSE CHOOSE i \in active : \A j \in active : j <= i
  BY DEF SpecAt
<1> HIDE DEF active, spec
<1>5. CASE active = {}
  BY <1>3, <1>4, <1>5 DEF spec
<1>6. CASE active # {}
  <2>1. spec \in active /\ spec \in Nat /\ \A j \in active : j <= spec
    <3>1. active \subseteq {1, 2, 3, 4, 5, 6, 7, 8}
      BY <1>2
    <3>2. PICK k : k \in active
      BY <1>6
    <3>3. \/ 1 \in active \/ 2 \in active \/ 3 \in active \/ 4 \in active
          \/ 5 \in active \/ 6 \in active \/ 7 \in active \/ 8 \in active
      BY <3>1, <3>2
    <3>4. spec \in active /\ spec \in 1 .. 8
      BY <1>3, <3>3
    <3>5. \A j \in {1, 2, 3, 4, 5, 6, 7, 8} : j \in active => j <= spec
      BY <1>3
    <3> QED
      BY <3>1, <3>4, <3>5
  <2>2. ASSUME NEW i \in active, \A j \in active : j <= i PROVE i = spec
    BY <1>2, <2>1, <2>2
  <2>3. (CHOOSE i \in active : \A j \in active : j <= i) = spec
    BY <2>1, <2>2
  <2> QED
    BY <1>4, <1>6, <2>3 DEF spec
<1> QED
  BY <1>5, <1>6

\* A block derived from its header, and from its payload, is derived as its
\* builder did.
LEMMA RoutesOfAssembled ==
  ASSUME NEW parent, NEW attributes, NEW use
  PROVE  LET env    == NextEvmEnv(forks, parent, attributes)
             ctx    == ContextForNextBlock(parent, attributes)
             header == Assemble(env, ctx, use)
         IN /\ EvmEnv(forks, header) = env
            /\ ContextForBlock(header) = ctx
            /\ EvmEnvForPayload(forks, PayloadOf(header)) = env
            /\ ContextForPayload(PayloadOf(header)) = ctx
<1> DEFINE env    == NextEvmEnv(forks, parent, attributes)
           ctx    == ContextForNextBlock(parent, attributes)
           header == Assemble(env, ctx, use)
<1>1. /\ EvmEnv(forks, header) = env
      /\ ContextForBlock(header) = ctx
      /\ ContextForPayload(PayloadOf(header)) = ctx
  BY DEF Assemble, EvmEnv, NextEvmEnv, ContextForBlock, ContextForNextBlock,
         ContextForPayload, PayloadOf
<1> DEFINE payload == PayloadOf(header)
<1>2. /\ payload.timestamp = env.timestamp /\ payload.blockNumber = env.number
      /\ payload.feeRecipient = env.beneficiary /\ payload.prevRandao = env.prevRandao
      /\ payload.gasLimit = env.gasLimit /\ payload.baseFeePerGas = env.baseFee
  <2> HIDE DEF env, ctx
  <2> QED
    BY DEF Assemble, PayloadOf
<1>3. /\ env.timestamp = attributes.timestamp
      /\ env = [spec |-> SpecAt(forks, env.timestamp),
                blobPrice |-> BlobPrice(SpecAt(forks, env.timestamp)),
                number |-> env.number, timestamp |-> env.timestamp,
                beneficiary |-> env.beneficiary, prevRandao |-> env.prevRandao,
                gasLimit |-> env.gasLimit, baseFee |-> env.baseFee]
  BY DEF NextEvmEnv
<1>4. EvmEnvForPayload(forks, payload) = env
  <2> HIDE DEF payload, env
  <2>1. SpecByTimestampAfterBedrock(forks, payload.timestamp) = SpecAt(forks, env.timestamp)
    BY <1>2, SpecsAgree
  <2> QED
    BY <1>2, <1>3, <2>1 DEF EvmEnvForPayload
<1> QED
  BY <1>1, <1>4

\* A block that is built has the executor of its header; no other step builds one.
LEMMA RoutesStep ==
  ASSUME RoutesAgree, [Next]_vars
  PROVE  RoutesAgree'
<1>1. ASSUME NEW request, NEW gap, NEW use, Build(request, gap, use)
      PROVE  RoutesAgree'
  <2> DEFINE attributes == AttributesFor(request, Tip.timestamp + gap)
             env == NextEvmEnv(forks, Tip, attributes)
             ctx == ContextForNextBlock(Tip, attributes)
             header == Assemble(env, ctx, use)
             b == [below |-> chain, header |-> header,
                   executor |-> CreateExecutor(forks, env, ctx)]
  <2>1. built' = {b} /\ forks' = forks
    BY <1>1 DEF Build, setting
  <2>2. /\ EvmEnv(forks, header) = env
        /\ ContextForBlock(header) = ctx
        /\ EvmEnvForPayload(forks, PayloadOf(header)) = env
        /\ ContextForPayload(PayloadOf(header)) = ctx
    BY RoutesOfAssembled
  <2>3. b.header = header /\ b.executor = CreateExecutor(forks, env, ctx)
    OBVIOUS
  <2> HIDE DEF b, header, env, ctx
  <2> QED
    BY <2>1, <2>2, <2>3 DEF RoutesAgree
<1>2. CASE BuildPanics \/ Reorganise \/ UNCHANGED vars
  BY <1>2 DEF BuildPanics, Reorganise, setting, vars, RoutesAgree
<1>3. CASE Adopt \/ Refuse
  <2>1. built' = {}
    BY <1>3 DEF Adopt, Refuse
  <2> QED
    BY <2>1 DEF RoutesAgree
<1> QED
  BY <1>1, <1>2, <1>3 DEF Next

\* For every chain specification, attributes and execution: the executor of a
\* block does not depend on whether the block is built, replayed from its
\* header or taken from an engine payload.
THEOREM EnvironmentsAgree == Spec => []RoutesAgree
<1>1. Init => RoutesAgree
  BY DEF Init, RoutesAgree
<1> QED
  BY <1>1, RoutesStep, PTL DEF Spec

----------------------------------------------------------------------------
\* A chain starts at the genesis block, and above it all extra data is what the
\* upgrades of its own block demand.
ReadableAbove(c) ==
  /\ \E S : c \in Seq(S)
  /\ Len(c) > 0
  /\ \A i \in 1 .. Len(c) : c[i] = genesis \/ Readable(forks, c[i])

\* The inductive invariant: so are the head's chain and the one a block was
\* built on, and the block has the base fee that its parent prescribes, or zero
\* if that cannot be read.
ReadableInv ==
  /\ ReadableAbove(chain)
  /\ \A b \in built :
       /\ ReadableAbove(b.below)
       /\ Readable(forks, b.header)
       /\ b.header.baseFee = BaseFeeOrDefault(forks, b.below[Len(b.below)])
  /\ RefusedOnlyOnGenesis

\* The extra data that the payload builder writes can be read in the next block.
LEMMA AssembledIsReadable ==
  ASSUME NEW parent, NEW request, NEW timestamp, NEW use
  PROVE  LET attributes == AttributesFor(request, timestamp)
             header == Assemble(NextEvmEnv(forks, parent, attributes),
                                ContextForNextBlock(parent, attributes), use)
         IN /\ Readable(forks, header)
            /\ header.baseFee = BaseFeeOrDefault(forks, parent)
<1> DEFINE attributes == AttributesFor(request, timestamp)
           header == Assemble(NextEvmEnv(forks, parent, attributes),
                              ContextForNextBlock(parent, attributes), use)
<1>1. /\ header.timestamp = timestamp
      /\ header.extraData = ExtraDataFor(request, timestamp)
      /\ header.baseFee = BaseFeeOrDefault(forks, parent)
  BY DEF Assemble, NextEvmEnv, ContextForNextBlock, AttributesFor
<1>2. /\ Active(forks, "jovian", timestamp)
           => ExtraDataFor(request, timestamp).version = "jovian"
      /\ Active(forks, "holocene", timestamp) /\ ~Active(forks, "jovian", timestamp)
           => ExtraDataFor(request, timestamp).version = "holocene"
  BY DEF ExtraDataFor
<1> HIDE DEF header
<1>3. Readable(forks, header)
  BY <1>1, <1>2 DEF Readable
<1> QED
  BY <1>1, <1>3 DEF header

\* A readable block on a readable chain is a readable chain.
LEMMA AppendKeepsReadable ==
  ASSUME NEW c, ReadableAbove(c), NEW header, Readable(forks, header)
  PROVE  ReadableAbove(Append(c, header))
<1>1. PICK S : c \in Seq(S)
  BY DEF ReadableAbove
<1>2. c \in Seq(S \cup {header})
  BY <1>1
<1>3. /\ Append(c, header) \in Seq(S \cup {header})
      /\ Len(Append(c, header)) = Len(c) + 1
      /\ \A i \in 1 .. Len(c) : Append(c, header)[i] = c[i]
      /\ Append(c, header)[Len(c) + 1] = header
      /\ Len(c) \in Nat
  BY <1>2
<1> QED
  BY <1>3 DEF ReadableAbove

\* Every step keeps the chain readable and the base fee that of the parent.
LEMMA ReadableStep ==
  ASSUME ReadableInv, [Next]_vars
  PROVE  ReadableInv'
<1> USE DEF setting
<1>1. ASSUME NEW request, NEW gap, NEW use, Build(request, gap, use)
      PROVE  ReadableInv'
  <2> DEFINE attributes == AttributesFor(request, Tip.timestamp + gap)
             env == NextEvmEnv(forks, Tip, attributes)
             ctx == ContextForNextBlock(Tip, attributes)
             header == Assemble(env, ctx, use)
             b == [below |-> chain, header |-> header,
                   executor |-> CreateExecutor(forks, env, ctx)]
  <2>1. /\ built' = {b}
        /\ UNCHANGED <<forks, genesis, chain, refused>>
    BY <1>1 DEF Build
  <2>2. /\ Readable(forks, header)
        /\ header.baseFee = BaseFeeOrDefault(forks, Tip)
    BY AssembledIsReadable
  <2>3. b.header = header /\ b.below = chain
    OBVIOUS
  <2> HIDE DEF b, header
  <2> QED
    BY <2>1, <2>2, <2>3 DEF ReadableInv, ReadableAbove, RefusedOnlyOnGenesis, Tip
<1>2. CASE BuildPanics \/ UNCHANGED vars
  BY <1>2 DEF BuildPanics, vars, ReadableInv, ReadableAbove, RefusedOnlyOnGenesis
<1>3. CASE Adopt
  <2>1. PICK b \in built : chain' = Append(b.below, b.header)
    BY <1>3 DEF Adopt
  <2>2. ReadableAbove(chain')
    BY <2>1, AppendKeepsReadable DEF ReadableInv
  <2>3. built' = {} /\ UNCHANGED <<forks, genesis, refused>>
    BY <1>3 DEF Adopt
  <2> QED
    BY <2>2, <2>3 DEF ReadableInv, ReadableAbove, RefusedOnlyOnGenesis
<1>4. CASE Refuse
  <2>1. PICK b \in built : ~Accepted(b)
    BY <1>4 DEF Refuse
  <2> DEFINE parent == b.below[Len(b.below)]
  <2>2. /\ b.header.baseFee = BaseFeeOrDefault(forks, parent)
        /\ parent = genesis \/ Readable(forks, parent)
    BY DEF ReadableInv, ReadableAbove
  <2>3. ~Readable(forks, genesis)
    BY <2>1, <2>2 DEF Accepted, BaseFeeOrDefault
  <2>4. built' = {} /\ UNCHANGED <<forks, genesis, chain>>
    BY <1>4 DEF Refuse
  <2> QED
    BY <2>3, <2>4 DEF ReadableInv, ReadableAbove, RefusedOnlyOnGenesis
<1>5. CASE Reorganise
  <2>1. PICK S : chain \in Seq(S)
    BY DEF ReadableInv, ReadableAbove
  <2>2. /\ chain' = SubSeq(chain, 1, Len(chain) - 1)
        /\ Len(chain) > 1
        /\ UNCHANGED <<forks, genesis, built, refused>>
    BY <1>5 DEF Reorganise
  <2>3. /\ chain' \in Seq(S) /\ Len(chain') = Len(chain) - 1
        /\ \A i \in 1 .. Len(chain') : i \in 1 .. Len(chain) /\ chain'[i] = chain[i]
    BY <2>1, <2>2
  <2>4. ReadableAbove(chain)'
    <3>1. Len(chain') > 0
      BY <2>1, <2>2, <2>3
    <3>2. ASSUME NEW i \in 1 .. Len(chain')
          PROVE  chain'[i] = genesis' \/ Readable(forks, chain[i])
      BY <2>2, <2>3 DEF ReadableInv, ReadableAbove
    <3>3. ASSUME NEW i \in 1 .. Len(chain')
          PROVE  chain'[i] = genesis' \/ Readable(forks', chain'[i])
      BY <2>2, <2>3, <3>2
    <3> QED
      BY <2>3, <3>1, <3>3 DEF ReadableAbove
  <2> QED
    BY <2>2, <2>4 DEF ReadableInv, ReadableAbove, RefusedOnlyOnGenesis
<1> QED
  BY <1>1, <1>2, <1>3, <1>4, <1>5 DEF Next

\* The base fee of zero that stands in for an error is never the reason that a
\* block is refused, but on a genesis block that does not fit its upgrades: in
\* any order of the upgrades, and at any of them.
THEOREM NoUpgradeIsRefused == Spec => []RefusedOnlyOnGenesis
<1>1. Init => ReadableInv
  <2> SUFFICES ASSUME Init PROVE ReadableInv
    OBVIOUS
  <2>1. /\ chain \in Seq({genesis}) /\ Len(chain) = 1 /\ chain[1] = genesis
    BY DEF Init
  <2> QED
    BY <2>1 DEF Init, ReadableInv, ReadableAbove, RefusedOnlyOnGenesis
<1>2. ReadableInv => RefusedOnlyOnGenesis
  BY DEF ReadableInv
<1> QED
  BY <1>1, <1>2, ReadableStep, PTL DEF Spec

----------------------------------------------------------------------------
\* No environment of the node asks for parameters that cannot be.
WellConfigured == \A env \in dev : ~Misconfigured(env)

\* Above genesis too, the parameters that a header hands to its children are
\* admissible at its gas limit, which is that of genesis where the environment
\* leaves it open: the local builder hands it down from block to block.
Sound(header) ==
  /\ Admissible(header.extraData.params, header.gasLimit)
  /\ \A env \in dev : env.OP_DEV_GAS_LIMIT = {} => header.gasLimit = genesis.gasLimit

\* A chain of sound headers.
SoundChain(c) ==
  /\ \E S : c \in Seq(S)
  /\ Len(c) > 0
  /\ \A i \in 1 .. Len(c) : Sound(c[i])

\* The inductive invariant: unless its environment asks for it, all that a node
\* has on its chain or has built is sound, and it has not panicked.
FeeInv ==
  /\ dev \subseteq DevEnvs /\ \A e1, e2 \in dev : e1 = e2
  /\ genesis \in Geneses
  /\ WellConfigured =>
       /\ SoundChain(chain)
       /\ \A b \in built : SoundChain(b.below) /\ Sound(b.header)
       /\ ~panicked

\* A gas limit with room for a target has one.
LEMMA TargetAboveZero ==
  ASSUME NEW limit \in Nat, NEW elasticity \in Nat \ {0}, limit >= elasticity
  PROVE  limit \div elasticity # 0
<1> DEFINE q == limit \div elasticity
<1>1. limit = elasticity * q + (limit % elasticity) /\ limit % elasticity < elasticity
  OBVIOUS
<1>2. ASSUME q = 0 PROVE FALSE
  BY <1>1, <1>2
<1> QED
  BY <1>2

\* On a sound parent the base fee can be computed.
LEMMA SoundNeverDivides ==
  ASSUME NEW header, Admissible(header.extraData.params, header.gasLimit)
  PROVE  ~DividesByZero(forks, header)
<1> DEFINE p == ParamsAfter(forks, header)
<1>1. /\ p \in Params /\ p.denominator # 0 /\ p.elasticity # 0
      /\ header.gasLimit \in Nat /\ header.gasLimit >= p.elasticity
  <2>1. CASE p = DefaultParams
    BY <2>1, EvmConfigAssumption DEF Admissible
  <2>2. CASE /\ p = header.extraData.params
             /\ header.extraData.params # [denominator |-> 0, elasticity |-> 0]
    BY <2>2 DEF Admissible, Params
  <2> QED
    BY <2>1, <2>2 DEF ParamsAfter
<1>2. p.elasticity \in Nat \ {0}
  BY <1>1 DEF Params
<1> HIDE DEF p
<1>3. header.gasLimit \div p.elasticity # 0
  BY <1>1, <1>2, TargetAboveZero
<1> QED
  BY <1>1, <1>3 DEF DividesByZero, GasTarget, p

\* What the payload builder writes for admissible parameters is admissible.
LEMMA AssembledIsAdmissible ==
  ASSUME NEW parent, NEW request, NEW timestamp, NEW use,
         Admissible(request.params, request.gasLimit)
  PROVE  LET attributes == AttributesFor(request, timestamp)
             header == Assemble(NextEvmEnv(forks, parent, attributes),
                                ContextForNextBlock(parent, attributes), use)
         IN /\ Admissible(header.extraData.params, header.gasLimit)
            /\ header.gasLimit = request.gasLimit
<1> DEFINE attributes == AttributesFor(request, timestamp)
           header == Assemble(NextEvmEnv(forks, parent, attributes),
                              ContextForNextBlock(parent, attributes), use)
<1>1. /\ header.gasLimit = request.gasLimit
      /\ header.extraData = ExtraDataFor(request, timestamp)
  BY DEF Assemble, NextEvmEnv, ContextForNextBlock, AttributesFor
<1>2. ExtraDataFor(request, timestamp).params \in {DefaultParams, request.params}
  BY DEF ExtraDataFor, NoExtraData
<1>3. Admissible(DefaultParams, request.gasLimit)
  BY EvmConfigAssumption DEF Admissible, Params
<1> HIDE DEF header
<1>4. Admissible(header.extraData.params, header.gasLimit)
  BY <1>1, <1>2, <1>3
<1> QED
  BY <1>1, <1>4 DEF header

\* The request of a well configured development node is admissible, and leaves
\* the gas limit as it was where the environment does.
LEMMA DevRequestIsAdmissible ==
  ASSUME FeeInv, NEW env \in dev, ~Misconfigured(env), Sound(Tip)
  PROVE  /\ Admissible(DevRequest(env).params, DevRequest(env).gasLimit)
         /\ env.OP_DEV_GAS_LIMIT = {} => DevRequest(env).gasLimit = genesis.gasLimit
<1> DEFINE d == env.OP_DEV_EIP1559_DENOMINATOR
           e == env.OP_DEV_EIP1559_ELASTICITY
           g == env.OP_DEV_GAS_LIMIT
<1>1. /\ \A variable \in {d, e, g} : /\ variable \subseteq Nat
                                     /\ \A m, n \in variable : m = n
  BY BlockTreeAssumption DEF FeeInv, DevEnv
<1> DEFINE params == [denominator |-> ParsedOr(d, 50), elasticity |-> ParsedOr(e, 6)]
           limit  == ParsedOr(g, genesis.gasLimit)
<1>2. DevRequest(env).params = params
  BY DEF DevRequest, DevParams
<1>3. DevRequest(env).gasLimit = limit
  BY DEF DevRequest, ParsedOr, Sound
<1>4. \A variable \in {d, e, g} : variable = {} \/ \E n \in Nat : variable = {n}
  BY <1>1
<1>5. ASSUME NEW n \in Nat, NEW default
      PROVE  ParsedOr({n}, default) = n
  BY DEF ParsedOr
<1>6. ASSUME NEW default PROVE ParsedOr({}, default) = default
  BY DEF ParsedOr
<1>7. genesis.gasLimit \in Nat
  BY BlockTreeAssumption DEF FeeInv, Admissible
<1>8. limit \in Nat
  BY <1>4, <1>5, <1>6, <1>7
<1>9. /\ d = {0} <=> e = {0}
      /\ \A x \in e \cup {6, DefaultParams.elasticity} : limit >= x
  <2>1. \A x \in e \cup {6, DefaultParams.elasticity} : ~(limit < x) /\ x \in Nat
    BY <1>1, EvmConfigAssumption DEF Misconfigured, Params
  <2> QED
    BY <1>8, <2>1 DEF Misconfigured
<1>10. ParsedOr(d, 50) \in Nat /\ (ParsedOr(d, 50) = 0 <=> d = {0})
  BY <1>4, <1>5, <1>6
<1>11. /\ ParsedOr(e, 6) \in Nat /\ (ParsedOr(e, 6) = 0 <=> e = {0})
       /\ ParsedOr(e, 6) \in e \cup {6}
  BY <1>4, <1>5, <1>6
<1> HIDE DEF d, e, limit
<1>12. params \in Params /\ Admissible(params, limit)
  BY <1>8, <1>9, <1>10, <1>11 DEF Admissible, Params
<1> QED
  BY <1>2, <1>3, <1>6, <1>12 DEF limit

\* A block that is built for an admissible request is sound.
LEMMA BuildKeepsFees ==
  ASSUME FeeInv, NEW request, NEW gap, NEW use, Build(request, gap, use),
         WellConfigured => /\ Admissible(request.params, request.gasLimit)
                           /\ \A env \in dev : env.OP_DEV_GAS_LIMIT = {}
                                => request.gasLimit = genesis.gasLimit
  PROVE  FeeInv'
<1> DEFINE attributes == AttributesFor(request, Tip.timestamp + gap)
           env == NextEvmEnv(forks, Tip, attributes)
           ctx == ContextForNextBlock(Tip, attributes)
           header == Assemble(env, ctx, use)
           b == [below |-> chain, header |-> header,
                 executor |-> CreateExecutor(forks, env, ctx)]
<1>1. /\ built' = {b}
      /\ UNCHANGED <<forks, genesis, dev, chain, panicked>>
  BY DEF Build, setting
<1>2. WellConfigured =>
        /\ Admissible(header.extraData.params, header.gasLimit)
        /\ header.gasLimit = request.gasLimit
  BY AssembledIsAdmissible
<1>3. b.header = header /\ b.below = chain
  OBVIOUS
<1> HIDE DEF b, header
<1>4. WellConfigured => Sound(header)
  BY <1>2 DEF Sound
<1>5. WellConfigured' <=> WellConfigured
  BY <1>1 DEF WellConfigured, Misconfigured
<1>6. \A h : Sound(h)' <=> Sound(h)
  BY <1>1 DEF Sound
<1>7. SoundChain(chain)' <=> SoundChain(chain)
  BY <1>1, <1>6 DEF SoundChain
<1> QED
  BY <1>1, <1>3, <1>4, <1>5, <1>6, <1>7 DEF FeeInv

\* A sound header on a sound chain is a sound chain.
LEMMA AppendKeepsSound ==
  ASSUME NEW c, SoundChain(c), NEW header, Sound(header)
  PROVE  SoundChain(Append(c, header))
<1>1. PICK S : c \in Seq(S)
  BY DEF SoundChain
<1>2. c \in Seq(S \cup {header})
  BY <1>1
<1>3. /\ Append(c, header) \in Seq(S \cup {header})
      /\ Len(Append(c, header)) = Len(c) + 1
      /\ \A i \in 1 .. Len(c) : Append(c, header)[i] = c[i]
      /\ Append(c, header)[Len(c) + 1] = header
      /\ Len(c) \in Nat
  BY <1>2
<1> QED
  BY <1>3 DEF SoundChain

\* Every step keeps the headers sound.
LEMMA FeeStep ==
  ASSUME FeeInv, [Next]_vars
  PROVE  FeeInv'
<1> USE DEF setting
<1> DEFINE Kept == UNCHANGED <<forks, genesis, dev>>
<1>1. ASSUME Kept
      PROVE  /\ WellConfigured' <=> WellConfigured
             /\ \A h : Sound(h)' <=> Sound(h)
  BY <1>1 DEF WellConfigured, Misconfigured, Sound
<1>2. ASSUME Kept, NEW c PROVE SoundChain(c) => SoundChain(c)'
  BY <1>1, <1>2 DEF SoundChain
<1>3. ASSUME NEW gap, NEW use, NEW request \in Requests,
             dev = {}, Build(request, gap, use)
      PROVE  FeeInv'
  <2>1. Admissible(request.params, request.gasLimit)
    BY BlockTreeAssumption
  <2> QED
    BY <1>3, <2>1, BuildKeepsFees
<1>4. ASSUME NEW gap, NEW use, NEW env \in dev, Build(DevRequest(env), gap, use)
      PROVE  FeeInv'
  <2>1. ASSUME WellConfigured
        PROVE  Sound(Tip) /\ ~Misconfigured(env)
    <3>1. Len(chain) \in 1 .. Len(chain)
      BY <2>1 DEF FeeInv, SoundChain
    <3> QED
      BY <2>1, <3>1 DEF FeeInv, SoundChain, Tip, WellConfigured
  <2>2. ASSUME WellConfigured
        PROVE  /\ Admissible(DevRequest(env).params, DevRequest(env).gasLimit)
               /\ \A other \in dev : other.OP_DEV_GAS_LIMIT = {}
                    => DevRequest(env).gasLimit = genesis.gasLimit
    <3>1. /\ Admissible(DevRequest(env).params, DevRequest(env).gasLimit)
          /\ env.OP_DEV_GAS_LIMIT = {} => DevRequest(env).gasLimit = genesis.gasLimit
      BY <2>1, <2>2, DevRequestIsAdmissible
    <3>2. \A other \in dev : other = env
      BY DEF FeeInv
    <3> QED
      BY <3>1, <3>2
  <2> QED
    BY <1>4, <2>2, BuildKeepsFees
<1>5. CASE BuildPanics
  <2>1. ASSUME WellConfigured PROVE FALSE
    <3>1. Len(chain) \in 1 .. Len(chain)
      BY <2>1 DEF FeeInv, SoundChain
    <3>2. Admissible(Tip.extraData.params, Tip.gasLimit)
      BY <2>1, <3>1 DEF FeeInv, SoundChain, Tip, Sound
    <3> QED
      BY <1>5, <3>2, SoundNeverDivides DEF BuildPanics
  <2>2. Kept
    BY <1>5 DEF BuildPanics
  <2> QED
    BY <1>1, <2>1, <2>2 DEF FeeInv
<1>6. CASE Adopt
  <2>1. PICK b \in built : chain' = Append(b.below, b.header)
    BY <1>6 DEF Adopt
  <2>2. built' = {} /\ Kept /\ panicked' = panicked
    BY <1>6 DEF Adopt
  <2>3. WellConfigured => SoundChain(chain')
    BY <2>1, AppendKeepsSound DEF FeeInv
  <2>4. WellConfigured => SoundChain(chain)'
    BY <1>1, <2>2, <2>3 DEF SoundChain
  <2> QED
    BY <1>1, <2>2, <2>4 DEF FeeInv
<1>7. CASE Refuse
  <2>1. built' = {} /\ Kept /\ UNCHANGED <<chain, panicked>>
    BY <1>7 DEF Refuse
  <2>2. WellConfigured => SoundChain(chain)'
    BY <1>1, <2>1 DEF SoundChain, FeeInv
  <2> QED
    BY <1>1, <2>1, <2>2 DEF FeeInv
<1>8. CASE Reorganise
  <2>1. /\ chain' = SubSeq(chain, 1, Len(chain) - 1)
        /\ Len(chain) > 1
        /\ UNCHANGED <<forks, genesis, dev, built, panicked>>
    BY <1>8 DEF Reorganise
  <2>2. ASSUME WellConfigured PROVE SoundChain(chain)'
    <3>1. PICK S : chain \in Seq(S)
      BY <2>2 DEF FeeInv, SoundChain
    <3>2. /\ chain' \in Seq(S) /\ Len(chain') = Len(chain) - 1
          /\ \A i \in 1 .. Len(chain') : i \in 1 .. Len(chain) /\ chain'[i] = chain[i]
      BY <2>1, <3>1
    <3>3. Len(chain') > 0
      BY <2>1, <3>1, <3>2
    <3>4. \A i \in 1 .. Len(chain') : Sound(chain'[i])
      BY <2>2, <3>2 DEF FeeInv, SoundChain
    <3>5. SoundChain(chain')
      BY <3>2, <3>3, <3>4 DEF SoundChain
    <3> QED
      BY <1>1, <2>1, <3>5 DEF SoundChain
  <2>3. \A b \in built : b \in built'
    BY <2>1
  <2> HIDE DEF Kept
  <2>4. Kept
    BY <2>1 DEF Kept
  <2> QED
    BY <1>1, <1>2, <2>1, <2>2, <2>4 DEF FeeInv
<1>9. CASE UNCHANGED vars
  <2>1. Kept /\ UNCHANGED <<chain, built, panicked>>
    BY <1>9 DEF vars
  <2>2. SoundChain(chain)' <=> SoundChain(chain)
    BY <1>1, <2>1 DEF SoundChain
  <2> QED
    BY <1>1, <1>2, <2>1, <2>2 DEF FeeInv
<1> QED
  BY <1>3, <1>4, <1>5, <1>6, <1>7, <1>8, <1>9 DEF Next

\* For every chain specification and environment, and every genesis and request
\* that sets both base fee parameters or none, with room for a target: the base
\* fee is never computed with a zero target or denominator, on any branch of
\* the tree, unless the environment of a development node sets one parameter to
\* zero or leaves no room for a target.  An absent or unreadable variable, the
\* gas limit that is handed down from the parent and parameters left open are
\* never the reason.
THEOREM OnlyMisconfigurationPanics == Spec => []PanicsOnlyMisconfigured
<1>1. Init => FeeInv
  <2> SUFFICES ASSUME Init PROVE FeeInv
    OBVIOUS
  <2>1. /\ genesis \in Geneses
        /\ dev \subseteq DevEnvs /\ \A e1, e2 \in dev : e1 = e2
        /\ built = {} /\ panicked = FALSE
    BY DEF Init
  <2>2. chain \in Seq({genesis}) /\ Len(chain) = 1 /\ chain[1] = genesis
    BY DEF Init
  <2>3. Sound(genesis)
    BY <2>1, BlockTreeAssumption DEF Sound
  <2>4. SoundChain(chain)
    BY <2>2, <2>3 DEF SoundChain
  <2> QED
    BY <2>1, <2>4 DEF FeeInv
<1>2. FeeInv => PanicsOnlyMisconfigured
  BY DEF FeeInv, WellConfigured, PanicsOnlyMisconfigured
<1> QED
  BY <1>1, <1>2, FeeStep, PTL DEF Spec

=============================================================================
