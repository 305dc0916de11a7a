-------------------------- MODULE MCForkTransition --------------------------
(* An instance of ForkTransition for TLC. *)
EXTENDS ForkTransition

\* Active at or before genesis, at a block, between two blocks, never.
MCActivations == {Never, 0, 1, 4, 7}
MCGenesisTimes == {0, 1, 3}

=============================================================================
