---------------------------- MODULE MCBlockTree ----------------------------
(* An instance of BlockTree for TLC. *)
EXTENDS BlockTree

MCDefault == [denominator |-> 2, elasticity |-> 2]

\* The upgrades at their times, oldest first.
Schedule(times) ==
  [upgrade \in {Upgrades[i] : i \in DOMAIN Upgrades} |->
     times[CHOOSE i \in DOMAIN Upgrades : Upgrades[i] = upgrade]]

\* As on the two chains of the repository (upgrades on the way, Jovian not set;
\* upgrades at genesis), and with Jovian after, with and at Holocene.
MCSchedules ==
  {Schedule(times) : times \in
     {<<0, 0, 2, 3, 4, 5, 6, Never>>, <<0, 0, 0, 0, 2, 3, 4, Never>>,
      <<0, 0, 0, 0, 0, 0, 0, Never>>, <<1, 2, 3, 3, 3, 4, 4, 5>>,
      <<0, 0, 0, 0, 0, 2, 2, 2>>, <<0, 0, 0, 0, 0, 0, 0, 0>>,
      <<0, 0, 0, 0, 0, 0, 0, 2>>}}

\* The extra data of the two genesis files, and that of a Jovian genesis.
MCGeneses ==
  {[parentHash |-> << >>, number |-> 0, timestamp |-> 0,
    beneficiary |-> "zero", prevRandao |-> "zero", gasLimit |-> 12, baseFee |-> 4,
    gasUsed |-> 0, blobGasUsed |-> 0, extraData |-> data, beaconRoot |-> {}] :
     data \in {NoExtraData,
               [version |-> "holocene", params |-> MCDefault, minBaseFee |-> 0],
               [version |-> "jovian", params |-> MCDefault, minBaseFee |-> 1]}}

MCRequests ==
  {[feeRecipient |-> "a", prevRandao |-> "x", gasLimit |-> 12,
    params |-> [denominator |-> 0, elasticity |-> 0], minBaseFee |-> 0],
   [feeRecipient |-> "b", prevRandao |-> "y", gasLimit |-> 9,
    params |-> [denominator |-> 1, elasticity |-> 3], minBaseFee |-> 5]}

\* Variables that are absent or no number, zero, and set.
MCDevEnvs ==
  {[OP_DEV_EIP1559_DENOMINATOR |-> d, OP_DEV_EIP1559_ELASTICITY |-> e,
    OP_DEV_GAS_LIMIT |-> g] :
     d \in {{}, {0}, {4}}, e \in {{}, {0}, {15}}, g \in {{}, {9}}}

MCUses == {[gas |-> 2, footprint |-> 6], [gas |-> 6, footprint |-> 4],
           [gas |-> 3, footprint |-> 0]}

MCTimes == {1, 2}

=============================================================================
