----------------------------- MODULE DevChain -----------------------------
(***************************************************************************)
(* The chain of a development node (`node --dev`, run.sh): a local miner   *)
(* asks OpLocalPayloadAttributesBuilder for the attributes of the next     *)
(* block, whose timestamp follows the system clock, and feeds them to the  *)
(* engine.  The clock may stand still, jump or go back.  What the          *)
(* executor does with the timestamps is ForkTransition, whose block times  *)
(* are then whatever the clock makes of them.                              *)
(***************************************************************************)
EXTENDS ForkTransition

CONSTANT ClockTimes     \* the seconds the system clock may show

\* A timestamp is a 64-bit number; MaxTimestamp is the largest.
ASSUME DevChainAssumption ==
  /\ ClockTimes \subseteq Nat
  /\ GenesisTimes \subseteq 0 .. MaxTimestamp

VARIABLES
  now,            \* the system clock
  payloadForks,   \* the activations of Shanghai (Canyon) and Cancun (Ecotone)
  attributes,     \* the attributes not yet executed, at most one
  refused,        \* has the engine refused attributes?
  steady          \* history: was the clock at most two seconds ahead of the
                  \* tip whenever attributes were built?

devVars == <<activation, gaps, chain, now, payloadForks, attributes, refused, steady>>

\* Withdrawals and the root are present or not; what they are does not matter.
Attributes == [timestamp : Nat, withdrawals : BOOLEAN, parentBeaconBlockRoot : BOOLEAN]

DevTypeOK ==
  /\ TypeOK
  /\ now \in ClockTimes
  /\ payloadForks \in [{"shanghai", "cancun"} -> Activations]
  /\ attributes \in SUBSET Attributes
  /\ \A a, b \in attributes : a = b
  /\ refused \in BOOLEAN
  /\ steady \in BOOLEAN

DevInit ==
  /\ Init
  /\ gaps = BlockTimes
  /\ now \in ClockTimes
  /\ payloadForks \in [{"shanghai", "cancun"} -> Activations]
  /\ attributes = {}
  /\ refused = FALSE
  /\ steady = TRUE

\* The clock is set, forwards or back.
SetClock(time) ==
  /\ now' = time
  /\ UNCHANGED <<activation, gaps, chain, payloadForks, attributes, refused, steady>>

----------------------------------------------------------------------------
\* u64::saturating_add.
SaturatingAdd(a, b) == IF a + b <= MaxTimestamp THEN a + b ELSE MaxTimestamp
Larger(a, b) == IF a >= b THEN a ELSE b

\* Mutant: the second is added to the larger of the two.
NextTimestampOfLarger == SaturatingAdd(Larger(Tip.timestamp, now), 1)

\* Strictly after the parent, and not before the clock.
NextTimestamp == Larger(SaturatingAdd(Tip.timestamp, 1), now)

AttributesOf(timestamp, forkTimestamp) ==
  [timestamp             |-> timestamp,
   withdrawals           |-> IsActive(payloadForks["shanghai"], forkTimestamp),
   parentBeaconBlockRoot |-> IsActive(payloadForks["cancun"], forkTimestamp)]

\* The clock is no further ahead of the tip than the look-back reaches.
WithinLookBack == now <= Tip.timestamp + 2

\* Mutants: the forks are looked up at the clock; the builder is asked again
\* while attributes are in flight.
BuildAttributesAtClock ==
  /\ attributes = {}
  /\ attributes' = {AttributesOf(NextTimestamp, now)}
  /\ steady' = (steady /\ WithinLookBack)
  /\ UNCHANGED <<activation, gaps, chain, now, payloadForks, refused>>

BuildAttributesAgain ==
  /\ attributes' = attributes \cup {AttributesOf(NextTimestamp, NextTimestamp)}
  /\ steady' = (steady /\ WithinLookBack)
  /\ UNCHANGED <<activation, gaps, chain, now, payloadForks, refused>>

\* OpLocalPayloadAttributesBuilder::build.  A clock set before 1970, at which
\* its unwrap panics, is left out.
BuildAttributes ==
  /\ attributes = {}
  /\ attributes' = {AttributesOf(NextTimestamp, NextTimestamp)}
  /\ steady' = (steady /\ WithinLookBack)
  /\ UNCHANGED <<activation, gaps, chain, now, payloadForks, refused>>

\* What the engine and the beacon root call ask of the attributes.
Acceptable(a) ==
  /\ a.timestamp > Tip.timestamp
  /\ a.withdrawals <=> IsActive(payloadForks["shanghai"], a.timestamp)
  /\ a.parentBeaconBlockRoot <=> IsActive(payloadForks["cancun"], a.timestamp)

\* The engine builds, executes and adopts the block.
Produce ==
  \E a \in attributes :
    /\ Acceptable(a)
    /\ ExecuteBlock(a.timestamp - Tip.timestamp)
    /\ attributes' = {}
    /\ UNCHANGED <<now, payloadForks, refused, steady>>

Refuse ==
  \E a \in attributes :
    /\ ~Acceptable(a)
    /\ refused' = TRUE
    /\ attributes' = {}
    /\ UNCHANGED <<activation, gaps, chain, now, payloadForks, steady>>

DevNext ==
  \/ \E time \in ClockTimes : SetClock(time)
  \/ BuildAttributes \/ Produce \/ Refuse

DevSpec == DevInit /\ [][DevNext]_devVars

----------------------------------------------------------------------------
\* Whatever the clock does between the building of the attributes and their
\* execution, the engine accepts them, until the timestamps of the chain are
\* exhausted.
AttributesAccepted == refused => Tip.timestamp = MaxTimestamp

\* AlwaysTriggered fails on a development chain, but only when the clock has
\* run away from the tip.  As long as it never was more than two seconds ahead
\* when attributes were built, and however it stood still, went back or moved
\* while they were in flight, every fork that became active after genesis had
\* its transition run: the timestamp that the builder chooses is then within
\* the reach of the look-back.
SteadyClockSkipsNothing == steady => AlwaysTriggered

=============================================================================
