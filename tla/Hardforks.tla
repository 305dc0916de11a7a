----------------------------- MODULE Hardforks -----------------------------
(***************************************************************************)
(* Hard-fork activation by block timestamp, as every irregular state       *)
(* transition of crates/op-evm/src/block tests it.                         *)
(***************************************************************************)
EXTENDS Integers

CONSTANT
  Never     \* the activation of a fork that the chain specification omits

ASSUME NeverAssumption == Never \notin Nat

\* An activation condition of the chain specification.
Activation == Nat \cup {Never}

\* u64::saturating_sub.
SaturatingSub(a, b) == IF a >= b THEN a - b ELSE 0

\* is_<fork>_active_at_timestamp.
IsActive(activation, timestamp) ==
  /\ activation # Never
  /\ timestamp >= activation

----------------------------------------------------------------------------
\* Mutants: the transition test without its second half; a look-back of one
\* second; a block at the very second of the activation.
AtTransitionWheneverActive(activation, timestamp) ==
  IsActive(activation, timestamp)

AtTransitionOneSecond(activation, timestamp) ==
  /\ IsActive(activation, timestamp)
  /\ ~IsActive(activation, SaturatingSub(timestamp, 1))

AtTransitionEquality(activation, timestamp) ==
  activation = timestamp

\* The transition block of a fork, as the code recognises it: active now and
\* not active two seconds ago, two seconds being the nominal block time.
AtTransition(activation, timestamp) ==
  /\ IsActive(activation, timestamp)
  /\ ~IsActive(activation, SaturatingSub(timestamp, 2))

=============================================================================
