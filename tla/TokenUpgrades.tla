--------------------------- MODULE TokenUpgrades ---------------------------
(***************************************************************************)
(* What the irregular state transitions promise to someone who only calls  *)
(* the contracts.  A contract has a logic: the code that a call to it ends *)
(* up executing, directly or through a proxy.  A fork makes some contracts *)
(* upgradeable and patches the logic of some; it does so for all of them   *)
(* in one block, once, and leaves every other logic as it was.  When the   *)
(* chain loses blocks, the contracts are again what the remaining ones     *)
(* made of them.                                                           *)
(***************************************************************************)
CONSTANTS
  Forks,        \* the hard forks that migrate contracts
  Contracts,
  Patches,      \* the patches a logic can carry
  Upgraded,     \* fork -> the contracts it makes upgradeable
  Patched       \* fork -> contract -> the patches it applies to its logic

VARIABLES
  done,         \* the forks that have migrated their contracts
  contracts     \* contract -> what a caller can tell of it

vars == <<done, contracts>>

Contract == [original : BOOLEAN,             \* its own code, no other's
             patches : SUBSET Patches,
             upgradeable : BOOLEAN]

TypeOK ==
  /\ done \subseteq Forks
  /\ contracts \in [Contracts -> Contract]

Init ==
  /\ done = {}
  /\ contracts = [c \in Contracts |->
                    [original |-> TRUE, patches |-> {}, upgradeable |-> FALSE]]

\* A block migrates the contracts of the forks it activates.
Migrate(forks) ==
  /\ done' = done \cup forks
  /\ contracts' = [c \in Contracts |->
       [original    |-> TRUE,
        patches     |-> contracts[c].patches \cup UNION {Patched[f][c] : f \in forks},
        upgradeable |-> \/ contracts[c].upgradeable
                        \/ \E f \in forks : c \in Upgraded[f]]]

Next == \E forks \in SUBSET (Forks \ done) : forks # {} /\ Migrate(forks)

Spec == Init /\ [][Next]_vars

----------------------------------------------------------------------------
\* The contracts after the migrations of some forks.
After(forks) ==
  [c \in Contracts |->
     [original    |-> TRUE,
      patches     |-> UNION {Patched[f][c] : f \in forks},
      upgradeable |-> \E f \in forks : c \in Upgraded[f]]]

\* The chain loses the blocks that migrated some forks.
Revert(forks) ==
  /\ done' = done \ forks
  /\ contracts' = After(done')

SpecWithReverts ==
  Init /\ [][Next \/ \E forks \in SUBSET done : forks # {} /\ Revert(forks)]_vars

=============================================================================
