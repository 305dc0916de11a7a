----------------------------- MODULE EvmConfig -----------------------------
(***************************************************************************)
(* FraxtalEvmConfig and FraxtalEvmFactory: the environment and the context *)
(* of a block, from its header, from its parent and the attributes of the  *)
(* next block, or from an engine payload; and the executor that is made of *)
(* them.  `forks` is the chain specification, a function from upgrades to  *)
(* activations.                                                            *)
(***************************************************************************)
EXTENDS Hardforks, Sequences

CONSTANT DefaultParams    \* the chain's base fee parameters

Params == [denominator : Nat, elasticity : Nat]

ASSUME EvmConfigAssumption ==
  /\ DefaultParams \in Params
  /\ DefaultParams.denominator > 0 /\ DefaultParams.elasticity > 0

----------------------------------------------------------------------------
\* The upgrades that have rules of their own, oldest first.
Upgrades == <<"regolith", "canyon", "ecotone", "fjord", "granite",
              "holocene", "isthmus", "jovian">>

Active(forks, upgrade, timestamp) == IsActive(forks[upgrade], timestamp)

\* The newest upgrade that is active, 0 for Bedrock.
SpecAt(forks, timestamp) ==
  LET active == {i \in DOMAIN Upgrades : Active(forks, Upgrades[i], timestamp)} IN
  IF active = {} THEN 0 ELSE CHOOSE i \in active : \A j \in active : j <= i

\* revm_spec_by_timestamp_after_bedrock, which only the payload's route calls:
\* it asks for one upgrade after the other, newest first.
SpecByTimestampAfterBedrock(forks, timestamp) ==
  LET active == [i \in DOMAIN Upgrades |-> Active(forks, Upgrades[i], timestamp)] IN
  IF active[8] THEN 8 ELSE IF active[7] THEN 7 ELSE IF active[6] THEN 6 ELSE
  IF active[5] THEN 5 ELSE IF active[4] THEN 4 ELSE IF active[3] THEN 3 ELSE
  IF active[2] THEN 2 ELSE IF active[1] THEN 1 ELSE 0

\* From Ecotone on the Ethereum rules are those of Cancun: blocks have a blob
\* gas price, of 1 and with no excess.
BlobPrice(spec) == IF spec >= 3 THEN {1} ELSE {}

\* No two headers have the same hash; that of "no parent" is empty.
HashOf(header) == <<header>>

\* The extra data of a header: nothing that can be read, or a version with
\* base fee parameters, the second version with a smallest base fee.
NoExtraData == [version |-> "none", params |-> DefaultParams, minBaseFee |-> 0]

ExtraData ==
  {NoExtraData}
  \cup [version : {"holocene"}, params : Params, minBaseFee : {0}]
  \cup [version : {"jovian"}, params : Params, minBaseFee : Nat]

\* A header as an engine payload and its sidecar.
PayloadOf(header) ==
  [parentHash |-> header.parentHash, blockNumber |-> header.number,
   timestamp |-> header.timestamp, feeRecipient |-> header.beneficiary,
   prevRandao |-> header.prevRandao, gasLimit |-> header.gasLimit,
   baseFeePerGas |-> header.baseFee, extraData |-> header.extraData,
   beaconRoot |-> header.beaconRoot]

----------------------------------------------------------------------------
\* The base fee parameters that a parent prescribes: its own from Holocene on,
\* if they can be read, and the chain's where they are left open.
ParamsAfter(forks, parent) ==
  LET open == parent.extraData.params = [denominator |-> 0, elasticity |-> 0] IN
  IF Active(forks, "holocene", parent.timestamp) /\ ~open
  THEN parent.extraData.params ELSE DefaultParams

\* Can the extra data of a parent be read as its own upgrades demand?
Readable(forks, parent) ==
  CASE Active(forks, "jovian", parent.timestamp) -> parent.extraData.version = "jovian"
    [] Active(forks, "holocene", parent.timestamp)
       /\ ~Active(forks, "jovian", parent.timestamp) -> parent.extraData.version = "holocene"
    [] OTHER -> TRUE

\* The gas a parent is charged with: from Jovian on also its footprint.
ChargedGas(forks, parent) ==
  IF Active(forks, "jovian", parent.timestamp) /\ parent.blobGasUsed > parent.gasUsed
  THEN parent.blobGasUsed ELSE parent.gasUsed

\* The gas that leaves the base fee as it is.
GasTarget(forks, parent) == parent.gasLimit \div ParamsAfter(forks, parent).elasticity

\* Does the computation of the next base fee divide by zero?
DividesByZero(forks, parent) ==
  /\ Readable(forks, parent)
  /\ \/ ParamsAfter(forks, parent).elasticity = 0
     \/ /\ ParamsAfter(forks, parent).elasticity # 0
        /\ ChargedGas(forks, parent) # GasTarget(forks, parent)
        /\ \/ GasTarget(forks, parent) = 0
           \/ ParamsAfter(forks, parent).denominator = 0

\* EIP-1559: the base fee moves with the distance of the gas from its target.
NextBlockBaseFee(forks, parent) ==
  LET gas    == ChargedGas(forks, parent)
      target == GasTarget(forks, parent)
      Step(distance) == (parent.baseFee * distance)
                          \div (target * ParamsAfter(forks, parent).denominator)
      fee == CASE gas = target -> parent.baseFee
               [] gas > target -> parent.baseFee
                                  + IF Step(gas - target) = 0 THEN 1 ELSE Step(gas - target)
               [] gas < target -> parent.baseFee - Step(target - gas)
      floor == IF Active(forks, "jovian", parent.timestamp)
               THEN parent.extraData.minBaseFee ELSE 0
  IN IF fee >= floor THEN fee ELSE floor

\* next_evm_env puts zero where the base fee is an error.
BaseFeeOrDefault(forks, parent) ==
  IF Readable(forks, parent) THEN NextBlockBaseFee(forks, parent) ELSE 0

----------------------------------------------------------------------------
\* evm_env.
EvmEnv(forks, header) ==
  LET spec == SpecAt(forks, header.timestamp) IN
  [spec |-> spec, blobPrice |-> BlobPrice(spec),
   number |-> header.number, timestamp |-> header.timestamp,
   beneficiary |-> header.beneficiary, prevRandao |-> header.prevRandao,
   gasLimit |-> header.gasLimit, baseFee |-> header.baseFee]

\* next_evm_env.
NextEvmEnv(forks, parent, attributes) ==
  LET spec == SpecAt(forks, attributes.timestamp) IN
  [spec |-> spec, blobPrice |-> BlobPrice(spec),
   number |-> parent.number + 1, timestamp |-> attributes.timestamp,
   beneficiary |-> attributes.feeRecipient, prevRandao |-> attributes.prevRandao,
   gasLimit |-> attributes.gasLimit, baseFee |-> BaseFeeOrDefault(forks, parent)]

\* Mutant: the blob price is there from Canyon on.
EvmEnvForPayloadCanyonBlobs(forks, payload) ==
  LET spec == SpecByTimestampAfterBedrock(forks, payload.timestamp) IN
  [spec |-> spec, blobPrice |-> IF spec >= 2 THEN {1} ELSE {},
   number |-> payload.blockNumber, timestamp |-> payload.timestamp,
   beneficiary |-> payload.feeRecipient, prevRandao |-> payload.prevRandao,
   gasLimit |-> payload.gasLimit, baseFee |-> payload.baseFeePerGas]

\* evm_env_for_payload.
EvmEnvForPayload(forks, payload) ==
  LET spec == SpecByTimestampAfterBedrock(forks, payload.timestamp) IN
  [spec |-> spec, blobPrice |-> BlobPrice(spec),
   number |-> payload.blockNumber, timestamp |-> payload.timestamp,
   beneficiary |-> payload.feeRecipient, prevRandao |-> payload.prevRandao,
   gasLimit |-> payload.gasLimit, baseFee |-> payload.baseFeePerGas]

\* context_for_block.
ContextForBlock(header) ==
  [parentHash |-> header.parentHash, beaconRoot |-> header.beaconRoot,
   extraData |-> header.extraData]

\* Mutant: the extra data is the parent's.
ContextForNextBlockInherited(parent, attributes) ==
  [parentHash |-> HashOf(parent), beaconRoot |-> attributes.beaconRoot,
   extraData |-> parent.extraData]

\* context_for_next_block.
ContextForNextBlock(parent, attributes) ==
  [parentHash |-> HashOf(parent), beaconRoot |-> attributes.beaconRoot,
   extraData |-> attributes.extraData]

\* context_for_payload.
ContextForPayload(payload) ==
  [parentHash |-> payload.parentHash, beaconRoot |-> payload.beaconRoot,
   extraData |-> payload.extraData]

----------------------------------------------------------------------------
\* create_evm: the interpreter gets the environment as it is, and the
\* precompiles of its specification.
CreateEvm(env) == [env |-> env, precompiles |-> env.spec]

\* create_executor: the executor of BlockExecutor in its first state.
CreateExecutor(forks, env, ctx) ==
  [evm |-> CreateEvm(env), ctx |-> ctx,
   regolith |-> Active(forks, "regolith", env.timestamp)]

=============================================================================
