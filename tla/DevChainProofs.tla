--------------------------- MODULE DevChainProofs ---------------------------
(***************************************************************************)
(* For every clock, genesis and chain specification: the engine accepts    *)
(* the attributes of a development node, and a clock that keeps within two *)
(* seconds of the tip skips no transition.                                 *)
(***************************************************************************)
EXTENDS DevChain, ForkTransitionProofs

USE ForkTransitionAssumption, DevChainAssumption

\* The inductive invariant for what becomes of the attributes: those in flight
\* were made for the forks of their own timestamp and, because the builder
\* waits until they are gone, on the block that is still the tip; and
\* no block lies beyond the largest timestamp, so that once the attributes are
\* refused there the tip stays.
AttributesInv ==
  /\ DevTypeOK
  /\ Tip.timestamp <= MaxTimestamp
  /\ \A a \in attributes :
       /\ a = AttributesOf(a.timestamp, a.timestamp)
       /\ a.timestamp > Tip.timestamp \/ Tip.timestamp = MaxTimestamp
  /\ AttributesAccepted

\* Nothing is in flight on the genesis block.
LEMMA AttributesInit ==
  ASSUME DevInit
  PROVE  AttributesInv
<1>1. Init /\ attributes = {} /\ refused = FALSE
  BY DEF DevInit
<1>2. PICK time \in GenesisTimes : chain = << [timestamp |-> time, applied |-> {}] >>
  BY <1>1 DEF Init
<1>3. Tip.timestamp <= MaxTimestamp
  BY <1>2 DEF Tip
<1>4. TypeOK
  BY <1>1, ChainInvInit DEF ChainInv
<1> QED
  BY <1>1, <1>3, <1>4 DEF DevInit, AttributesInv, DevTypeOK, AttributesAccepted

\* The timestamp of new attributes is after the tip, or there is none.
LEMMA NextTimestampAfterTip ==
  ASSUME TypeOK, now \in ClockTimes, Tip.timestamp <= MaxTimestamp
  PROVE  /\ NextTimestamp \in Nat
         /\ NextTimestamp > Tip.timestamp \/ Tip.timestamp = MaxTimestamp
<1>1. Tip.timestamp \in Nat
  BY ChainTyping DEF Tip
<1> QED
  BY <1>1 DEF NextTimestamp, Larger, SaturatingAdd

\* The clock moves beside the attributes; a block takes them away with the old tip.
LEMMA AttributesStep ==
  ASSUME AttributesInv, [DevNext]_devVars
  PROVE  AttributesInv'
<1> USE DEF AttributesInv, DevTypeOK, AttributesAccepted
<1>1. ASSUME NEW time \in ClockTimes, SetClock(time)
      PROVE  AttributesInv'
  BY <1>1 DEF SetClock, TypeOK, Tip, AttributesOf
<1>2. CASE BuildAttributes
  <2> DEFINE a == AttributesOf(NextTimestamp, NextTimestamp)
  <2>1. /\ attributes' = {a}
        /\ UNCHANGED <<activation, gaps, chain, now, payloadForks, refused>>
    BY <1>2 DEF BuildAttributes
  <2>2. NextTimestamp \in Nat /\ a.timestamp = NextTimestamp /\ a \in Attributes
    <3>1. NextTimestamp \in Nat
      BY NextTimestampAfterTip
    <3>2. \A fork \in {"shanghai", "cancun"} : IsActive(payloadForks[fork], NextTimestamp) \in BOOLEAN
      BY DEF IsActive
    <3> QED
      BY <3>1, <3>2 DEF AttributesOf, Attributes
  <2>3. a.timestamp > Tip.timestamp \/ Tip.timestamp = MaxTimestamp
    BY <2>2, NextTimestampAfterTip
  <2>4. a = AttributesOf(a.timestamp, a.timestamp)
    BY <2>2
  <2>5. (a = AttributesOf(a.timestamp, a.timestamp))'
    BY <2>1, <2>4 DEF AttributesOf
  <2>6. steady' \in BOOLEAN
    BY <1>2 DEF BuildAttributes, WithinLookBack
  <2> HIDE DEF a
  <2> QED
    BY <2>1, <2>2, <2>3, <2>4, <2>6 DEF TypeOK, Tip, AttributesOf
<1>3. CASE Produce
  <2>1. PICK a \in attributes :
          /\ Acceptable(a)
          /\ ExecuteBlock(a.timestamp - Tip.timestamp)
          /\ attributes' = {}
          /\ UNCHANGED <<now, payloadForks, refused, steady>>
    BY <1>3 DEF Produce
  <2> DEFINE block == [timestamp |-> a.timestamp, applied |-> IrregularTransitions(a.timestamp)]
  <2>2. a.timestamp \in Nat /\ Tip.timestamp \in Nat /\ a.timestamp > Tip.timestamp
    BY <2>1, ChainTyping DEF Acceptable, Attributes, Tip
  <2>3. Tip.timestamp + (a.timestamp - Tip.timestamp) = a.timestamp
    BY <2>2
  <2>4. /\ a.timestamp <= MaxTimestamp
        /\ chain' = Append(chain, block)
        /\ UNCHANGED <<activation, gaps>>
    BY <2>1, <2>3 DEF ExecuteBlock
  <2>5. block \in Block
    BY <2>2 DEF Block, IrregularTransitions
  <2>6. chain' \in Seq(Block) /\ chain' # << >> /\ Tip'.timestamp = a.timestamp
    <3> HIDE DEF block
    <3>1. /\ chain' \in Seq(Block) /\ Len(chain') = Len(chain) + 1
          /\ chain'[Len(chain) + 1] = block
      BY <2>4, <2>5 DEF TypeOK
    <3>2. Len(chain) \in Nat
      BY DEF TypeOK
    <3> QED
      BY <3>1, <3>2 DEF Tip, block
  <2>7. ~refused
    BY <2>2, <2>4
  <2> QED
    BY <2>1, <2>2, <2>4, <2>6, <2>7 DEF TypeOK
<1>4. CASE Refuse
  <2>1. PICK a \in attributes :
          /\ ~Acceptable(a)
          /\ refused' = TRUE
          /\ attributes' = {}
          /\ UNCHANGED <<activation, gaps, chain, now, payloadForks, steady>>
    BY <1>4 DEF Refuse
  <2>2. a = AttributesOf(a.timestamp, a.timestamp)
    OBVIOUS
  <2>3. /\ a.withdrawals <=> IsActive(payloadForks["shanghai"], a.timestamp)
        /\ a.parentBeaconBlockRoot <=> IsActive(payloadForks["cancun"], a.timestamp)
    <3>1. \A time :
            /\ AttributesOf(time, time).withdrawals = IsActive(payloadForks["shanghai"], time)
            /\ AttributesOf(time, time).parentBeaconBlockRoot
                 = IsActive(payloadForks["cancun"], time)
      BY Zenon DEF AttributesOf
    <3> QED
      BY <2>2, <3>1
  <2>4. Tip.timestamp = MaxTimestamp
    BY <2>1, <2>3 DEF Acceptable
  <2> QED
    BY <2>1, <2>4 DEF TypeOK, Tip
<1>5. CASE UNCHANGED devVars
  BY <1>5 DEF devVars, TypeOK, Tip, AttributesOf
<1> QED
  BY <1>1, <1>2, <1>3, <1>4, <1>5 DEF DevNext

\* At any time at most one set of attributes is in flight, and it is typed.
THEOREM DevTypeCorrect == DevSpec => []DevTypeOK
<1>1. AttributesInv => DevTypeOK
  BY DEF AttributesInv
<1> QED
  BY <1>1, AttributesInit, AttributesStep, PTL DEF DevSpec

\* Whatever the clock does, and whatever the activations of Shanghai and
\* Cancun: the attributes of the local builder have a timestamp after the
\* parent's and the fields its own timestamp asks for, until the 64 bits of
\* the timestamp are exhausted.
THEOREM LocalAttributesAccepted == DevSpec => []AttributesAccepted
<1>1. AttributesInv => AttributesAccepted
  BY DEF AttributesInv
<1> QED
  BY <1>1, AttributesInit, AttributesStep, PTL DEF DevSpec

----------------------------------------------------------------------------
\* While the clock has been steady, attributes in flight are for a time that
\* the look-back reaches from the tip.
AttributesPrompt == steady => \A a \in attributes : a.timestamp <= Tip.timestamp + 2

\* The inductive invariant for what a steady clock leads to.
SteadyInv ==
  /\ AttributesInv
  /\ AttributesPrompt
  /\ SteadyClockSkipsNothing

\* The genesis block is active for what it is active for.
LEMMA SteadyInit ==
  ASSUME DevInit
  PROVE  SteadyInv
<1>1. Init /\ attributes = {}
  BY DEF DevInit
<1>2. AlwaysTriggered
  BY <1>1 DEF Init, AlwaysTriggered, IsActive
<1> QED
  BY <1>1, <1>2, AttributesInit DEF SteadyInv, AttributesPrompt, SteadyClockSkipsNothing

\* One second after the parent or the clock's time, whichever is later, is
\* within the look-back if the clock is.
LEMMA NextTimestampPrompt ==
  ASSUME TypeOK, now \in ClockTimes, WithinLookBack
  PROVE  NextTimestamp <= Tip.timestamp + 2
<1>1. Tip.timestamp \in Nat
  BY ChainTyping DEF Tip
<1> QED
  BY <1>1 DEF NextTimestamp, Larger, SaturatingAdd, WithinLookBack

\* Only the building of attributes and the block made from them matter.
LEMMA SteadyStep ==
  ASSUME SteadyInv, [DevNext]_devVars
  PROVE  AttributesPrompt' /\ SteadyClockSkipsNothing'
<1>1. CASE UNCHANGED <<activation, gaps, chain, attributes, steady>>
  BY <1>1 DEF SteadyInv, AttributesPrompt, SteadyClockSkipsNothing, AlwaysTriggered, IsActive, Tip
<1>2. CASE BuildAttributes
  <2>1. /\ attributes' = {AttributesOf(NextTimestamp, NextTimestamp)}
        /\ steady' = (steady /\ WithinLookBack)
        /\ UNCHANGED <<activation, gaps, chain>>
    BY <1>2 DEF BuildAttributes
  <2>2. AttributesOf(NextTimestamp, NextTimestamp).timestamp = NextTimestamp
    BY DEF AttributesOf
  <2>3. steady' => NextTimestamp <= Tip.timestamp + 2
    BY <2>1, NextTimestampPrompt DEF SteadyInv, AttributesInv, DevTypeOK
  <2>4. Tip' = Tip
    BY <2>1 DEF Tip
  <2>5. AttributesPrompt'
    BY <2>1, <2>2, <2>3, <2>4 DEF AttributesPrompt
  <2>6. AlwaysTriggered => AlwaysTriggered'
    BY <2>1 DEF AlwaysTriggered, IsActive
  <2>7. steady' => steady
    BY <2>1
  <2> QED
    BY <2>5, <2>6, <2>7 DEF SteadyInv, SteadyClockSkipsNothing
<1>3. CASE Produce
  <2>1. PICK a \in attributes :
          /\ Acceptable(a)
          /\ ExecuteBlock(a.timestamp - Tip.timestamp)
          /\ attributes' = {}
          /\ steady' = steady
    BY <1>3 DEF Produce
  <2>2. TypeOK /\ a.timestamp \in Nat /\ Tip.timestamp \in Nat /\ a.timestamp > Tip.timestamp
    BY <2>1, ChainTyping DEF SteadyInv, AttributesInv, DevTypeOK, Acceptable, Attributes, Tip
  <2>3. ASSUME steady PROVE AlwaysTriggered'
    <3>1. a.timestamp <= Tip.timestamp + 2 /\ AlwaysTriggered
      BY <2>1, <2>3 DEF SteadyInv, AttributesPrompt, SteadyClockSkipsNothing
    <3>2. a.timestamp - Tip.timestamp \in Nat /\ a.timestamp - Tip.timestamp <= 2
      BY <2>2, <3>1
    <3> QED
      BY <2>1, <2>2, <3>1, <3>2, PromptBlockTriggers
  <2> QED
    BY <2>1, <2>3 DEF AttributesPrompt, SteadyClockSkipsNothing
<1>4. CASE Refuse
  <2>1. attributes' = {} /\ UNCHANGED <<activation, gaps, chain, steady>>
    BY <1>4 DEF Refuse
  <2> QED
    BY <2>1 DEF SteadyInv, AttributesPrompt, SteadyClockSkipsNothing, AlwaysTriggered, IsActive
<1> QED
  BY <1>1, <1>2, <1>3, <1>4 DEF DevNext, devVars, SetClock

\* Whatever the clock does while attributes are in flight: a development chain
\* skips a transition only if the clock was more than two seconds ahead of the
\* tip when the attributes of some block were built.
THEOREM SteadyClockIsSafe == DevSpec => []SteadyClockSkipsNothing
<1>1. DevInit => SteadyInv
  BY SteadyInit
<1>2. SteadyInv /\ [DevNext]_devVars => SteadyInv'
  BY SteadyStep, AttributesStep DEF SteadyInv
<1>3. SteadyInv => SteadyClockSkipsNothing
  BY DEF SteadyInv
<1> QED
  BY <1>1, <1>2, <1>3, PTL DEF DevSpec

=============================================================================
