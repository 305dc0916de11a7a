------------------------ MODULE MCBuildThenValidate ------------------------
(* An instance of BuildThenValidate for TLC. *)
EXTENDS BuildThenValidate

CONSTANTS alice, bob

Deposit(sender, gasLimit, gas, scalars) ==
  [deposit |-> TRUE, sender |-> sender, nonce |-> 0, gasLimit |-> gasLimit,
   gas |-> gas, size |-> 0, scalars |-> scalars]

Regular(sender, nonce, gasLimit, gas, size) ==
  [deposit |-> FALSE, sender |-> sender, nonce |-> nonce, gasLimit |-> gasLimit,
   gas |-> gas, size |-> size, scalars |-> {}]

\* The L1 info deposit changes the gas scalar in the middle of the block; the
\* regular transactions compete for gas and for footprint.
MCTxs ==
  {Deposit(alice, 2, 1, {2}), Deposit(bob, 8, 8, {}),
   Regular(alice, 1, 3, 1, 2), Regular(bob, 0, 3, 2, 1), Regular(bob, 1, 6, 2, 3)}

Environment(r, c, j) == [gasLimit |-> 7, regolith |-> r, canyon |-> c, jovian |-> j]

MCBlocks == {Environment(FALSE, FALSE, FALSE), Environment(TRUE, FALSE, FALSE),
             Environment(TRUE, TRUE, TRUE)}

=============================================================================
