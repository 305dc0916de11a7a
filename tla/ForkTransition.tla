--------------------------- MODULE ForkTransition ---------------------------
(***************************************************************************)
(* When the irregular state transitions run.  A chain is a sequence of     *)
(* executed blocks; executing a block runs the transition of every fork    *)
(* whose transition test holds at the block's timestamp.  The executor     *)
(* never sees the parent's timestamp: it looks two seconds back instead,   *)
(* so what it does depends on the gaps between blocks.  The chain may be   *)
(* unwound (a reorganisation) and continue with other timestamps.          *)
(***************************************************************************)
EXTENDS Hardforks, Sequences

CONSTANTS
  Forks,          \* the forks with an irregular transition
  Activations,    \* the activation conditions a chain specification may give
  GenesisTimes,   \* the timestamps of the genesis block
  BlockTimes,     \* the possible gaps between a block and its parent
  MaxTimestamp    \* bound: no block is executed after it

ASSUME ForkTransitionAssumption ==
  /\ Activations \subseteq Activation
  /\ GenesisTimes \subseteq Nat
  /\ BlockTimes \subseteq Nat \ {0}
  /\ MaxTimestamp \in Nat

VARIABLES
  activation,     \* the loaded chain specification: fork -> activation
  gaps,           \* the gaps that occur on this chain
  chain           \* the canonical chain, genesis first

vars == <<activation, gaps, chain>>

Block == [timestamp : Nat, applied : SUBSET Forks]

TypeOK ==
  /\ activation \in [Forks -> Activations]
  /\ gaps \subseteq BlockTimes
  /\ chain \in Seq(Block)
  /\ chain # << >>

Tip == chain[Len(chain)]

----------------------------------------------------------------------------
\* The genesis block is written by `init`, not executed: it applies nothing.
Init ==
  /\ activation \in [Forks -> Activations]
  /\ gaps \in SUBSET BlockTimes
  /\ \E time \in GenesisTimes :
       chain = << [timestamp |-> time, applied |-> {}] >>

\* The transitions that apply_pre_execution_changes runs in a block.
IrregularTransitions(timestamp) ==
  {fork \in Forks : AtTransition(activation[fork], timestamp)}

\* Execute the next block on top of the tip.
ExecuteBlock(gap) ==
  LET timestamp == Tip.timestamp + gap IN
    /\ timestamp <= MaxTimestamp
    /\ chain' = Append(chain, [timestamp |-> timestamp,
                               applied   |-> IrregularTransitions(timestamp)])
    /\ UNCHANGED <<activation, gaps>>

\* Mutant: the unwind may drop the genesis block too.
UnwindPastGenesis(height) ==
  /\ height < Len(chain)
  /\ chain' = SubSeq(chain, 1, height - 1)
  /\ UNCHANGED <<activation, gaps>>

\* A reorganisation drops the blocks above height, with their state.
Unwind(height) ==
  /\ height < Len(chain)
  /\ chain' = SubSeq(chain, 1, height)
  /\ UNCHANGED <<activation, gaps>>

Next ==
  \/ \E gap \in gaps : ExecuteBlock(gap)
  \/ \E height \in 1 .. Len(chain) : Unwind(height)

Spec == Init /\ [][Next]_vars

----------------------------------------------------------------------------
\* On a chain that keeps the nominal block time of two seconds, the transition
\* of a fork runs in a block exactly when the fork is active there and was not
\* active in the parent block.  (canyon.rs: "active at the current timestamp,
\* and it was not active at the previous block timestamp".)
ExactlyAtActivation ==
  gaps = {2} =>
    \A i \in 2 .. Len(chain), fork \in Forks :
      fork \in chain[i].applied
        <=> /\ IsActive(activation[fork], chain[i].timestamp)
            /\ ~IsActive(activation[fork], chain[i - 1].timestamp)

\* Two blocks of the canonical chain run the same transition only as parent and
\* child one second apart, whatever was unwound before.  With blocks two seconds
\* apart or more every transition runs once at most; it has to, for the
\* migrations are not idempotent: a second run would take the proxy's code for
\* the token's.
RunsAgainOnlyOneSecondLater ==
  \A i, j \in DOMAIN chain :
    i < j /\ chain[i].applied \cap chain[j].applied # {} =>
      /\ j = i + 1
      /\ chain[j].timestamp = chain[i].timestamp + 1

\* Once there is a block at or after the activation of a fork that was not yet
\* active at genesis, some block up to it ran the transition: "we can safely
\* assume that this will always be triggered upon the transition"
\* (block/mod.rs).  It depends on the times between the blocks.
AlwaysTriggered ==
  \A i \in DOMAIN chain, fork \in Forks :
    /\ IsActive(activation[fork], chain[i].timestamp)
    /\ ~IsActive(activation[fork], chain[1].timestamp)
    => \E j \in 2 .. i : fork \in chain[j].applied

\* On a chain whose blocks are never more than two seconds apart, no transition
\* is skipped, whatever was unwound.
NotSkipped == (\A gap \in gaps : gap <= 2) => AlwaysTriggered

=============================================================================
