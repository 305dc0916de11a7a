-------------------------- MODULE MCBlockExecutor --------------------------
(* Instances of BlockExecutor for TLC. *)
EXTENDS BlockExecutor

CONSTANTS alice, bob

Deposit(sender, gasLimit, gas, scalars) ==
  [deposit |-> TRUE, sender |-> sender, nonce |-> 0, gasLimit |-> gasLimit,
   gas |-> gas, size |-> 0, scalars |-> scalars]

Regular(sender, nonce, gasLimit, gas, size) ==
  [deposit |-> FALSE, sender |-> sender, nonce |-> nonce, gasLimit |-> gasLimit,
   gas |-> gas, size |-> size, scalars |-> {}]

\* The L1 info deposit, a small deposit and one larger than the block; regular
\* transactions that fill the block by gas, by footprint and by neither, one
\* whose footprint exceeds a u64.
MCTxs ==
  {Deposit(alice, 2, 1, {2}), Deposit(bob, 2, 1, {}), Deposit(bob, 8, 8, {}),
   Regular(alice, 1, 3, 3, 0), Regular(alice, 1, 3, 1, 2), Regular(bob, 0, 3, 2, 1),
   Regular(bob, 1, 6, 2, 3), Regular(bob, 0, 2, 1, 3),
   Regular(bob, 0, 7, 7, 1), Regular(bob, 0, 1, 1, 15)}

\* The forks become active in order: Regolith, Canyon, Jovian.
Environment(r, c, j) == [gasLimit |-> 7, regolith |-> r, canyon |-> c, jovian |-> j]

BeforeRegolith == {Environment(FALSE, FALSE, FALSE)}
AfterRegolith  == {Environment(TRUE, FALSE, FALSE), Environment(TRUE, TRUE, FALSE),
                   Environment(TRUE, TRUE, TRUE)}
AnyFork        == BeforeRegolith \cup AfterRegolith

=============================================================================
