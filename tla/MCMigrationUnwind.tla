------------------------- MODULE MCMigrationUnwind -------------------------
(* Instances of MigrationUnwind for TLC. *)
EXTENDS MigrationUnwind

\* Forks that coincide, or are a block apart, or never come.
MCActivations == {Never, 2, 4}

\* A fork at the timestamp of a block and one between two blocks.
TwoActivations == {2, 3}

MCDeployed ==
  {FRAX_ADDR, SFRAX_ADDR, <<"fc0000", 2>>, <<"fc0000", 3>>, <<"fc0000", 7>>,
   <<"aca9a3", 9>>, <<"63eb78", 4>>, <<"98a6c3", 5>>, <<"f75063", 6>>}

\* A devnet that lacks one contract of its table.
DevnetDeployed == MCDeployed \ {<<"fc0000", 7>>}

Steady == {2}

=============================================================================
