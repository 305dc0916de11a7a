----------------------------- MODULE BlockTree -----------------------------
(***************************************************************************)
(* Blocks built one upon the other with FraxtalEvmConfig, across upgrades, *)
(* reorganisations included.  A block is built for the attributes of the   *)
(* consensus client or, on a development node, for those of the local      *)
(* attributes builder; it is then checked against its parent and executed  *)
(* again, from its header or from an engine payload.                       *)
(***************************************************************************)
EXTENDS EvmConfig

CONSTANTS
  Schedules,      \* the chain specifications
  Geneses,        \* the genesis headers
  Requests,       \* what a consensus client asks of a block
  DevEnvs,        \* the environments of a development node
  Uses,           \* the gas and the footprint a block may use
  BlockTimes,     \* the seconds between a block and its parent
  MaxNumber       \* bound: the blocks above genesis

\* The consensus client leaves both base fee parameters open, or none.
Request == [feeRecipient : STRING, prevRandao : STRING, gasLimit : Nat,
            params : Params, minBaseFee : Nat]

\* The variables of a development node: at most one number each.
DevEnv == [OP_DEV_EIP1559_DENOMINATOR : SUBSET Nat, OP_DEV_EIP1559_ELASTICITY : SUBSET Nat,
           OP_DEV_GAS_LIMIT : SUBSET Nat]

\* Base fee parameters a block can have at a gas limit: both open or none, and
\* room for a target, also that of the chain's parameters.
Admissible(params, gasLimit) ==
  /\ params \in Params /\ gasLimit \in Nat
  /\ params.denominator = 0 <=> params.elasticity = 0
  /\ gasLimit >= params.elasticity /\ gasLimit >= DefaultParams.elasticity

ASSUME BlockTreeAssumption ==
  /\ Schedules \subseteq [{Upgrades[i] : i \in DOMAIN Upgrades} -> Activation]
  /\ Requests \subseteq Request
  /\ \A r \in Requests : Admissible(r.params, r.gasLimit)
  /\ \A h \in Geneses : Admissible(h.extraData.params, h.gasLimit)
  /\ DevEnvs \subseteq DevEnv
  /\ \A e \in DevEnvs : \A variable \in DOMAIN e : \A m, n \in e[variable] : m = n
  /\ \A u \in Uses : u.gas \in Nat /\ u.footprint \in Nat
  /\ BlockTimes \subseteq Nat \ {0}
  /\ MaxNumber \in Nat

VARIABLES
  forks,      \* the chain specification
  genesis,    \* the genesis header
  dev,        \* the environment of a development node; no other has one
  chain,      \* the headers of the canonical chain
  built,      \* the block not yet adopted, at most one, its executor, and
              \* the chain it was built on
  refused,    \* has a block of ours been refused?
  panicked    \* has the computation of a base fee panicked?

vars == <<forks, genesis, dev, chain, built, refused, panicked>>
setting == <<forks, genesis, dev>>

Tip == chain[Len(chain)]

Init ==
  /\ forks \in Schedules
  /\ genesis \in Geneses
  /\ dev \in {{}} \cup {{env} : env \in DevEnvs}
  /\ chain = <<genesis>>
  /\ built = {} /\ refused = FALSE /\ panicked = FALSE

----------------------------------------------------------------------------
\* A variable of the environment that is absent or is no number has a default.
ParsedOr(value, default) == IF value = {} THEN default ELSE CHOOSE n \in value : TRUE

\* Mutant: what cannot be parsed is zero.
DevParamsOrZero(env) ==
  [denominator |-> ParsedOr(env.OP_DEV_EIP1559_DENOMINATOR, 0),
   elasticity  |-> ParsedOr(env.OP_DEV_EIP1559_ELASTICITY, 6)]

\* The base fee parameters of the local attributes.
DevParams(env) ==
  [denominator |-> ParsedOr(env.OP_DEV_EIP1559_DENOMINATOR, 50),
   elasticity  |-> ParsedOr(env.OP_DEV_EIP1559_ELASTICITY, 6)]

\* OpLocalPayloadAttributesBuilder::build, but for what DevChain models.
DevRequest(env) ==
  [feeRecipient |-> "random", prevRandao |-> "random",
   gasLimit |-> ParsedOr(env.OP_DEV_GAS_LIMIT, Tip.gasLimit),
   params |-> DevParams(env), minBaseFee |-> 0]

\* The payload builder writes extra data as the upgrades of the block demand,
\* the chain's parameters where they are left open.
ExtraDataFor(request, timestamp) ==
  LET open   == request.params = [denominator |-> 0, elasticity |-> 0]
      params == IF open THEN DefaultParams ELSE request.params
  IN CASE Active(forks, "jovian", timestamp) ->
            [version |-> "jovian", params |-> params, minBaseFee |-> request.minBaseFee]
       [] Active(forks, "holocene", timestamp) /\ ~Active(forks, "jovian", timestamp) ->
            [version |-> "holocene", params |-> params, minBaseFee |-> 0]
       [] OTHER -> NoExtraData

AttributesFor(request, timestamp) ==
  [timestamp    |-> timestamp,
   feeRecipient |-> request.feeRecipient, prevRandao |-> request.prevRandao,
   gasLimit     |-> request.gasLimit,
   beaconRoot   |-> IF Active(forks, "ecotone", timestamp) THEN {"root"} ELSE {},
   extraData    |-> ExtraDataFor(request, timestamp)]

\* The block assembler: the header of an executed block.
Assemble(env, ctx, use) ==
  [parentHash |-> ctx.parentHash, number |-> env.number, timestamp |-> env.timestamp,
   beneficiary |-> env.beneficiary, prevRandao |-> env.prevRandao,
   gasLimit |-> env.gasLimit, baseFee |-> env.baseFee,
   gasUsed |-> use.gas,
   blobGasUsed |-> IF Active(forks, "jovian", env.timestamp) THEN use.footprint ELSE 0,
   extraData |-> ctx.extraData, beaconRoot |-> ctx.beaconRoot]

\* A payload job on the head block.
Build(request, gap, use) ==
  LET attributes == AttributesFor(request, Tip.timestamp + gap)
      env == NextEvmEnv(forks, Tip, attributes)
      ctx == ContextForNextBlock(Tip, attributes)
  IN /\ built = {} /\ ~panicked
     /\ Tip.number < MaxNumber
     /\ ~DividesByZero(forks, Tip)
     /\ use.gas <= request.gasLimit /\ use.footprint <= request.gasLimit
     /\ built' = {[below    |-> chain,
                   header   |-> Assemble(env, ctx, use),
                   executor |-> CreateExecutor(forks, env, ctx)]}
     /\ UNCHANGED <<setting, chain, refused, panicked>>

\* The same on a parent whose base fee parameters hold a zero.
BuildPanics ==
  /\ built = {} /\ ~panicked
  /\ DividesByZero(forks, Tip)
  /\ panicked' = TRUE
  /\ UNCHANGED <<setting, chain, built, refused>>

----------------------------------------------------------------------------
\* The consensus rules check the base fee against the parent, as written; an
\* unreadable parent has none.
Accepted(b) ==
  LET parent == b.below[Len(b.below)] IN
  /\ Readable(forks, parent)
  /\ b.header.baseFee = NextBlockBaseFee(forks, parent)

\* The engine adopts the block, which may have become a sibling of the head.
Adopt ==
  /\ \E b \in built : Accepted(b) /\ chain' = Append(b.below, b.header)
  /\ built' = {}
  /\ UNCHANGED <<setting, refused, panicked>>

Refuse ==
  /\ \E b \in built : ~Accepted(b)
  /\ refused' = TRUE
  /\ built' = {}
  /\ UNCHANGED <<setting, chain, panicked>>

\* The consensus client goes back to the parent of the head block.
Reorganise ==
  /\ Len(chain) > 1
  /\ chain' = SubSeq(chain, 1, Len(chain) - 1)
  /\ UNCHANGED <<setting, built, refused, panicked>>

Next ==
  \/ \E gap \in BlockTimes, use \in Uses :
       \/ dev = {} /\ \E request \in Requests : Build(request, gap, use)
       \/ \E env \in dev : Build(DevRequest(env), gap, use)
  \/ BuildPanics
  \/ Adopt \/ Refuse \/ Reorganise

Spec == Init /\ [][Next]_vars

----------------------------------------------------------------------------
\* The three ways to derive environment and context agree: whoever executes
\* the block again, from its header or from its payload, makes the executor
\* that built it, with the same upgrades, fees, limits and context.
RoutesAgree ==
  \A b \in built :
    LET payload == PayloadOf(b.header) IN
    /\ CreateExecutor(forks, EvmEnv(forks, b.header), ContextForBlock(b.header)) = b.executor
    /\ CreateExecutor(forks, EvmEnvForPayload(forks, payload), ContextForPayload(payload))
         = b.executor

\* The zero that next_evm_env puts in place of an error never gets into a block
\* that this node could have built better: a block of its own is refused only
\* on a genesis whose extra data does not fit its upgrades, never at or after
\* an upgrade on the way.
RefusedOnlyOnGenesis == refused => ~Readable(forks, genesis)

\* An environment that sets one of the two parameters to zero and not both, or
\* in which the gas limit has no room for a target.
Misconfigured(env) ==
  LET denominator == env.OP_DEV_EIP1559_DENOMINATOR
      elasticity  == env.OP_DEV_EIP1559_ELASTICITY
      gasLimit    == ParsedOr(env.OP_DEV_GAS_LIMIT, genesis.gasLimit)
  IN \/ denominator = {0} /\ elasticity # {0}
     \/ elasticity = {0} /\ denominator # {0}
     \/ \E e \in elasticity \cup {6, DefaultParams.elasticity} : gasLimit < e

\* The computation of a base fee divides by zero only on a development node
\* whose environment asks for it: never because a variable is absent
\* or cannot be parsed.
PanicsOnlyMisconfigured == panicked => \E env \in dev : Misconfigured(env)

=============================================================================
