-------------------------- MODULE MCFraxMigration --------------------------
(* Instances of FraxMigration for TLC. *)
EXTENDS FraxMigration

\* Forks that coincide, that fall between blocks, that never come.
MCActivations == {Never, 2, 3, 4}
FewActivations == {Never, 2, 5}

\* A chain that has every contract of the tables.
AllDeployed ==
  {FRAX_ADDR, SFRAX_ADDR, <<"fc0000", 2>>, <<"fc0000", 3>>, <<"fc0000", 7>>,
   <<"aca9a3", 9>>, <<"63eb78", 4>>, <<"98a6c3", 5>>, <<"f75063", 6>>}

Steady == {2}

=============================================================================
