------------------------ MODULE ForkTransitionProofs ------------------------
(***************************************************************************)
(* For every set of forks, activations and genesis times, and chains of    *)
(* any length: what a look-back of two seconds makes of the time between   *)
(* blocks.  A transition runs again only one second later, never fails to  *)
(* run where blocks are two seconds apart or less, and runs in the block   *)
(* where the fork becomes active where they are two seconds apart.         *)
(***************************************************************************)
EXTENDS ForkTransition, TLAPS

\* The spacing of the blocks, and what each of them applied.
Spaced ==
  \A i \in 2 .. Len(chain) :
    chain[i].timestamp - chain[i - 1].timestamp \in gaps

AppliedByTimestamp ==
  /\ chain[1].applied = {}
  /\ \A i \in 2 .. Len(chain) :
       chain[i].applied = IrregularTransitions(chain[i].timestamp)

\* What every reachable chain satisfies, whatever the block times.
ChainInv == TypeOK /\ Spaced /\ AppliedByTimestamp

\* Any two blocks, not only neighbours: each block takes a second at least.
Ordered ==
  \A i, j \in 1 .. Len(chain) :
    i < j => chain[i].timestamp + (j - i) <= chain[j].timestamp

----------------------------------------------------------------------------
USE ForkTransitionAssumption, NeverAssumption DEF Activation

\* Appending keeps the blocks below, and adds one on top.
LEMMA AppendBlock ==
  ASSUME NEW s \in Seq(Block), NEW b \in Block
  PROVE  /\ Append(s, b) \in Seq(Block)
         /\ Len(Append(s, b)) = Len(s) + 1
         /\ \A i \in 1 .. Len(s) : Append(s, b)[i] = s[i]
         /\ Append(s, b)[Len(s) + 1] = b
OBVIOUS

\* Unwinding keeps the blocks up to the height.
LEMMA UnwoundChain ==
  ASSUME NEW s \in Seq(Block), NEW height \in 1 .. Len(s)
  PROVE  /\ SubSeq(s, 1, height) \in Seq(Block)
         /\ Len(SubSeq(s, 1, height)) = height
         /\ \A i \in 1 .. height : SubSeq(s, 1, height)[i] = s[i]
OBVIOUS

\* What the type invariant says of the single blocks.
LEMMA ChainTyping ==
  ASSUME TypeOK
  PROVE  /\ Len(chain) \in Nat \ {0}
         /\ DOMAIN chain = 1 .. Len(chain)
         /\ \A k \in 1 .. Len(chain) : chain[k].timestamp \in Nat
         /\ \A fork \in Forks : activation[fork] \in Activation
<1>1. /\ Len(chain) \in Nat \ {0}
      /\ DOMAIN chain = 1 .. Len(chain)
      /\ \A k \in 1 .. Len(chain) : chain[k] \in Block
  BY DEF TypeOK
<1>2. \A b \in Block : b.timestamp \in Nat
  BY DEF Block
<1> QED
  BY <1>1, <1>2 DEF TypeOK

\* A block is later than its parent.
LEMMA GapsNatural ==
  ASSUME TypeOK
  PROVE  \A gap \in gaps : gap \in Nat \ {0}
BY DEF TypeOK

\* The block that a step executes, seen from the resulting chain.
LEMMA ExecutedBlock ==
  ASSUME TypeOK, NEW gap \in Nat, ExecuteBlock(gap)
  PROVE  /\ TypeOK'
         /\ Len(chain') = Len(chain) + 1
         /\ Len(chain) \in Nat \ {0}
         /\ \A i \in 1 .. Len(chain) : chain'[i] = chain[i]
         /\ chain'[Len(chain) + 1].timestamp = chain[Len(chain)].timestamp + gap
         /\ chain'[Len(chain) + 1].applied
              = IrregularTransitions(chain'[Len(chain) + 1].timestamp)
         /\ activation' = activation /\ gaps' = gaps
<1> DEFINE b == [timestamp |-> Tip.timestamp + gap,
                 applied   |-> IrregularTransitions(Tip.timestamp + gap)]
<1>1. Len(chain) \in Nat \ {0} /\ Tip \in Block
  BY DEF TypeOK, Tip
<1>2. b \in Block
  BY <1>1 DEF Block, IrregularTransitions
<1>3. chain' = Append(chain, b) /\ activation' = activation /\ gaps' = gaps
  BY DEF ExecuteBlock
<1>4. chain \in Seq(Block) /\ activation \in [Forks -> Activations] /\ gaps \subseteq BlockTimes
  BY DEF TypeOK
<1> HIDE DEF b
<1>5. /\ chain' \in Seq(Block)
      /\ Len(chain') = Len(chain) + 1
      /\ \A i \in 1 .. Len(chain) : chain'[i] = chain[i]
      /\ chain'[Len(chain) + 1] = b
  BY <1>2, <1>3, <1>4, AppendBlock
<1>6. b.timestamp = chain[Len(chain)].timestamp + gap
  BY DEF b, Tip
<1>7. b.applied = IrregularTransitions(b.timestamp)
  BY DEF b
<1>8. TypeOK'
  BY <1>1, <1>3, <1>4, <1>5 DEF TypeOK
<1> QED
  BY <1>1, <1>3, <1>5, <1>6, <1>7, <1>8

\* The chain after a reorganisation is a prefix of the chain before it.
LEMMA UnwindStep ==
  ASSUME TypeOK, NEW height \in 1 .. Len(chain), Unwind(height)
  PROVE  /\ TypeOK'
         /\ Len(chain') = height
         /\ Len(chain) \in Nat
         /\ \A i \in 1 .. height : chain'[i] = chain[i]
         /\ activation' = activation /\ gaps' = gaps
<1>1. chain \in Seq(Block) /\ activation \in [Forks -> Activations] /\ gaps \subseteq BlockTimes
  BY DEF TypeOK
<1>2. chain' = SubSeq(chain, 1, height) /\ activation' = activation /\ gaps' = gaps
  BY DEF Unwind
<1>3. /\ chain' \in Seq(Block)
      /\ Len(chain') = height
      /\ \A i \in 1 .. height : chain'[i] = chain[i]
  BY <1>1, <1>2, UnwoundChain
<1> QED
  BY <1>1, <1>2, <1>3 DEF TypeOK

----------------------------------------------------------------------------
LEMMA TypeStep ==
  ASSUME TypeOK, [Next]_vars
  PROVE  TypeOK'
<1>1. CASE \E gap \in gaps : ExecuteBlock(gap)
  BY <1>1, ExecutedBlock, GapsNatural
<1>2. CASE \E height \in 1 .. Len(chain) : Unwind(height)
  BY <1>2, UnwindStep
<1>3. CASE UNCHANGED vars
  BY <1>3 DEF vars, TypeOK
<1> QED
  BY <1>1, <1>2, <1>3 DEF Next

\* The chain keeps the gaps it has.
LEMMA GapsStep ==
  ASSUME [Next]_vars
  PROVE  gaps' = gaps
BY DEF Next, ExecuteBlock, Unwind, vars

\* A chain always has its genesis block, and every block has a timestamp and
\* a set of transitions: executing and unwinding never produce anything else.
THEOREM TypeCorrect == Spec => []TypeOK
<1>1. Init => TypeOK
  BY DEF Init, TypeOK, Block
<1>2. TypeOK /\ [Next]_vars => TypeOK'
  BY TypeStep
<1> QED
  BY <1>1, <1>2, PTL DEF Spec

LEMMA ChainInvInit == Init => ChainInv
BY DEF Init, ChainInv, TypeOK, Block, Spaced, AppliedByTimestamp

LEMMA ChainInvStep ==
  ASSUME ChainInv, [Next]_vars
  PROVE  ChainInv'
<1> USE DEF ChainInv
<1>1. ASSUME NEW gap \in gaps, ExecuteBlock(gap) PROVE ChainInv'
  <2>1. Spaced'
    <3> SUFFICES ASSUME NEW i \in 2 .. Len(chain')
                 PROVE  chain'[i].timestamp - chain'[i - 1].timestamp \in gaps'
      BY DEF Spaced
    <3>1. CASE i <= Len(chain)
      <4>1. /\ \A k \in 1 .. Len(chain) : chain'[k] = chain[k]
            /\ Len(chain) \in Nat /\ gaps' = gaps
        BY <1>1, ExecutedBlock, GapsNatural
      <4> QED
        BY <3>1, <4>1 DEF Spaced
    <3>2. CASE i = Len(chain) + 1
      <4>1. /\ chain[Len(chain)].timestamp \in Nat
            /\ chain'[i].timestamp = chain[Len(chain)].timestamp + gap
            /\ chain'[i - 1] = chain[Len(chain)]
            /\ gaps' = gaps
        BY <1>1, <3>2, ChainTyping, ExecutedBlock, GapsNatural
      <4>2. gap \in Nat
        BY DEF TypeOK
      <4> QED
        BY <4>1, <4>2
    <3> QED
      BY <1>1, <3>1, <3>2, ExecutedBlock, GapsNatural
  <2>2. AppliedByTimestamp'
    BY <1>1, ExecutedBlock, GapsNatural DEF AppliedByTimestamp, IrregularTransitions
  <2> QED
    BY <1>1, <2>1, <2>2, ExecutedBlock, GapsNatural
<1>2. ASSUME NEW height \in 1 .. Len(chain), Unwind(height) PROVE ChainInv'
  <2>1. /\ TypeOK' /\ Len(chain') = height
        /\ \A i \in 1 .. height : chain'[i] = chain[i]
        /\ activation' = activation /\ gaps' = gaps
        /\ Len(chain) \in Nat
    BY <1>2, UnwindStep
  <2>2. Spaced'
    BY <2>1 DEF Spaced
  <2>3. AppliedByTimestamp'
    BY <2>1 DEF AppliedByTimestamp, IrregularTransitions
  <2> QED
    BY <2>1, <2>2, <2>3
<1>3. CASE UNCHANGED vars
  BY <1>3 DEF vars, TypeOK, Spaced, AppliedByTimestamp, IrregularTransitions
<1> QED
  BY <1>1, <1>2, <1>3 DEF Next

\* Every reachable chain is spaced by block times, and each block applied
\* what the transition test says of its timestamp.
THEOREM ChainInvariant == Spec => []ChainInv
<1>1. ChainInv /\ [Next]_vars => ChainInv'
  BY ChainInvStep
<1> QED
  BY <1>1, ChainInvInit, PTL DEF Spec

----------------------------------------------------------------------------
\* The distance of two blocks in the chain bounds their distance in time.
LEMMA OrderedStep ==
  ASSUME TypeOK, Ordered, [Next]_vars
  PROVE  Ordered'
<1>1. ASSUME NEW gap \in gaps, ExecuteBlock(gap) PROVE Ordered'
  <2> SUFFICES ASSUME NEW i \in 1 .. Len(chain'), NEW j \in 1 .. Len(chain'), i < j
               PROVE  chain'[i].timestamp + (j - i) <= chain'[j].timestamp
    BY DEF Ordered
  <2>1. \A k \in 1 .. Len(chain) : chain[k].timestamp \in Nat
    BY ChainTyping
  <2>2. CASE j <= Len(chain)
    <3>1. /\ i \in 1 .. Len(chain) /\ j \in 1 .. Len(chain)
          /\ chain'[i] = chain[i] /\ chain'[j] = chain[j]
      BY <1>1, <2>2, ExecutedBlock, GapsNatural
    <3> QED
      BY <3>1 DEF Ordered
  <2>3. CASE j = Len(chain) + 1
    <3>1. chain'[j].timestamp = chain[Len(chain)].timestamp + gap /\ gap \in Nat \ {0}
      BY <1>1, <2>3, ExecutedBlock, GapsNatural
    <3>2. /\ i \in 1 .. Len(chain) /\ chain'[i] = chain[i]
          /\ Len(chain) \in Nat \ {0}
      BY <1>1, <2>3, ExecutedBlock, GapsNatural
    <3>3. chain[i].timestamp + (Len(chain) - i) <= chain[Len(chain)].timestamp
      BY <2>1, <3>2 DEF Ordered
    <3>4. chain[i].timestamp \in Nat /\ chain[Len(chain)].timestamp \in Nat
      BY <2>1, <3>2
    <3>5. i \in Nat /\ Len(chain) \in Nat /\ gap \in Nat \ {0}
      BY <3>1, <3>2
    <3>6. chain[i].timestamp + ((Len(chain) + 1) - i) <= chain[Len(chain)].timestamp + gap
      BY <3>3, <3>4, <3>5
    <3> QED
      BY <2>3, <3>1, <3>2, <3>6
  <2> QED
    BY <1>1, <2>2, <2>3, ExecutedBlock, GapsNatural
<1>2. ASSUME NEW height \in 1 .. Len(chain), Unwind(height) PROVE Ordered'
  BY <1>2, UnwindStep DEF Ordered
<1>3. CASE UNCHANGED vars
  BY <1>3 DEF vars, Ordered
<1> QED
  BY <1>1, <1>2, <1>3 DEF Next

\* Two seconds after a block where a fork is active, it was active two seconds
\* ago: the test fails.  Less than two seconds leave room for one block.
LEMMA OrderedRunsAgain ==
  ASSUME ChainInv, Ordered
  PROVE  RunsAgainOnlyOneSecondLater
<1>1. DOMAIN chain = 1 .. Len(chain) /\ Len(chain) \in Nat
  BY ChainTyping DEF ChainInv
<1> SUFFICES ASSUME NEW i \in 1 .. Len(chain), NEW j \in 1 .. Len(chain), i < j,
                    NEW fork \in chain[i].applied \cap chain[j].applied
             PROVE  j = i + 1 /\ chain[j].timestamp = chain[i].timestamp + 1
  BY <1>1 DEF RunsAgainOnlyOneSecondLater
<1>2. chain[i].timestamp \in Nat /\ chain[j].timestamp \in Nat
  BY ChainTyping DEF ChainInv
<1>3. /\ fork \in Forks
      /\ AtTransition(activation[fork], chain[i].timestamp)
      /\ AtTransition(activation[fork], chain[j].timestamp)
  BY DEF ChainInv, AppliedByTimestamp, IrregularTransitions
<1>4. activation[fork] \in Activation
  BY <1>3 DEF ChainInv, TypeOK
<1>5. chain[i].timestamp + (j - i) <= chain[j].timestamp
  BY DEF Ordered
<1>6. chain[j].timestamp < chain[i].timestamp + 2
  BY <1>2, <1>3, <1>4, <1>5 DEF AtTransition, IsActive, SaturatingSub
<1> QED
  BY <1>2, <1>5, <1>6

\* For any block times: a transition runs in two blocks of the canonical chain
\* only if these are parent and child one second apart, across any number of
\* reorganisations; with blocks two seconds apart or more, in one at most.
THEOREM TransitionsRunAgainOnlyOneSecondLater ==
  Spec => []RunsAgainOnlyOneSecondLater
<1>1. Init => Ordered
  BY DEF Init, Ordered
<1>2. ChainInv /\ Ordered /\ [Next]_vars => Ordered'
  BY OrderedStep DEF ChainInv
<1>3. ChainInv /\ Ordered => RunsAgainOnlyOneSecondLater
  BY OrderedRunsAgain
<1> QED
  BY <1>1, <1>2, <1>3, ChainInvInit, ChainInvStep, PTL DEF Spec

----------------------------------------------------------------------------
\* A block at most two seconds after its parent misses no transition.
LEMMA PromptBlockTriggers ==
  ASSUME TypeOK, AlwaysTriggered, NEW gap \in Nat, gap <= 2, ExecuteBlock(gap)
  PROVE  AlwaysTriggered'
<1>t. /\ \A k \in 1 .. Len(chain) : chain[k].timestamp \in Nat
      /\ Len(chain) \in Nat \ {0} /\ DOMAIN chain = 1 .. Len(chain)
      /\ \A fork \in Forks : activation[fork] \in Activation
  BY ChainTyping
<1>x. /\ TypeOK' /\ Len(chain') = Len(chain) + 1
      /\ \A i \in 1 .. Len(chain) : chain'[i] = chain[i]
      /\ chain'[Len(chain) + 1].timestamp = chain[Len(chain)].timestamp + gap
      /\ chain'[Len(chain) + 1].applied
           = IrregularTransitions(chain'[Len(chain) + 1].timestamp)
      /\ activation' = activation /\ gaps' = gaps
  BY ExecutedBlock
<1>d. DOMAIN chain' = 1 .. Len(chain) + 1
  BY <1>x DEF TypeOK
<1> SUFFICES ASSUME NEW i \in 1 .. Len(chain) + 1, NEW fork \in Forks,
                    IsActive(activation[fork], chain'[i].timestamp),
                    ~IsActive(activation[fork], chain[1].timestamp)
             PROVE  \E j \in 2 .. i : fork \in chain'[j].applied
  BY <1>t, <1>x, <1>d DEF AlwaysTriggered, IsActive
\* Active in an earlier block already: that block had run it.
<1>1. ASSUME NEW k \in 1 .. Len(chain), k <= i,
             IsActive(activation[fork], chain[k].timestamp)
      PROVE  \E j \in 2 .. i : fork \in chain'[j].applied
  <2>1. PICK j \in 2 .. k : fork \in chain[j].applied
    BY <1>t, <1>1 DEF AlwaysTriggered
  <2> QED
    BY <1>t, <1>1, <1>x, <2>1
<1>2. CASE i <= Len(chain)
  BY <1>t, <1>1, <1>2, <1>x
<1>3. CASE i = Len(chain) + 1 /\ IsActive(activation[fork], Tip.timestamp)
  BY <1>t, <1>1, <1>3 DEF Tip
\* Not active in the parent: the executed block is the transition block.
<1>4. CASE i = Len(chain) + 1 /\ ~IsActive(activation[fork], Tip.timestamp)
  <2>1. AtTransition(activation[fork], chain'[i].timestamp)
    BY <1>t, <1>4, <1>x DEF AtTransition, IsActive, SaturatingSub, Tip
  <2>2. fork \in chain'[i].applied
    BY <1>4, <1>x, <2>1 DEF IrregularTransitions
  <2> QED
    BY <1>t, <1>4, <2>2
<1> QED
  BY <1>2, <1>3, <1>4, <1>t

\* With at most two seconds between blocks no transition is missed.
LEMMA AlwaysTriggeredStep ==
  ASSUME \A gap \in gaps : gap <= 2,
         TypeOK, AlwaysTriggered, [Next]_vars
  PROVE  AlwaysTriggered'
<1>1. ASSUME NEW gap \in gaps, ExecuteBlock(gap) PROVE AlwaysTriggered'
  BY <1>1, PromptBlockTriggers, GapsNatural
<1>2. ASSUME NEW height \in 1 .. Len(chain), Unwind(height) PROVE AlwaysTriggered'
  <2>1. /\ TypeOK' /\ Len(chain') = height
        /\ \A i \in 1 .. height : chain'[i] = chain[i]
        /\ activation' = activation /\ gaps' = gaps
    BY <1>2, UnwindStep
  <2>2. DOMAIN chain' = 1 .. height /\ DOMAIN chain = 1 .. Len(chain) /\ Len(chain) \in Nat \ {0}
    BY <2>1, ChainTyping DEF TypeOK
  <2> QED
    BY <2>1, <2>2 DEF AlwaysTriggered, IsActive
<1>3. CASE UNCHANGED vars
  BY <1>3 DEF vars, AlwaysTriggered, IsActive
<1> QED
  BY <1>1, <1>2, <1>3 DEF Next

\* Blocks at most two seconds apart: no irregular transition is skipped.
THEOREM TransitionsNotSkipped == Spec => []NotSkipped
<1>1. Init => NotSkipped
  BY DEF Init, NotSkipped, AlwaysTriggered, IsActive
<1>2. TypeOK /\ NotSkipped /\ [Next]_vars => NotSkipped'
  BY AlwaysTriggeredStep, GapsStep DEF NotSkipped
<1> QED
  BY <1>1, <1>2, TypeCorrect, PTL DEF Spec

----------------------------------------------------------------------------
\* Blocks exactly two seconds apart: the look-back is the parent's timestamp,
\* and a transition runs exactly in the block where its fork becomes active.
THEOREM TransitionsExactlyAtActivation == Spec => []ExactlyAtActivation
<1>1. ChainInv => ExactlyAtActivation
  <2> SUFFICES ASSUME ChainInv, gaps = {2},
                      NEW i \in 2 .. Len(chain), NEW fork \in Forks
               PROVE  fork \in chain[i].applied
                        <=> /\ IsActive(activation[fork], chain[i].timestamp)
                            /\ ~IsActive(activation[fork], chain[i - 1].timestamp)
    BY DEF ExactlyAtActivation
  <2>1. chain[i].timestamp \in Nat /\ chain[i - 1].timestamp \in Nat
    BY ChainTyping DEF ChainInv
  <2>2. chain[i].timestamp - chain[i - 1].timestamp = 2
    BY DEF ChainInv, Spaced
  <2>3. SaturatingSub(chain[i].timestamp, 2) = chain[i - 1].timestamp
    BY <2>1, <2>2 DEF SaturatingSub
  <2> QED
    BY <2>3 DEF ChainInv, AppliedByTimestamp, IrregularTransitions, AtTransition
<1> QED
  BY <1>1, ChainInvariant, PTL

=============================================================================
