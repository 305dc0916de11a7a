--------------------------- MODULE FraxMigration ---------------------------
(***************************************************************************)
(* The irregular state transitions of Frax, contract by contract: what     *)
(* apply_pre_execution_changes does to the accounts in the blocks where    *)
(* Canyon, Granite, Holocene and Isthmus become active.  The work of a     *)
(* block is a program of steps that depends on the chain id and on the     *)
(* timestamp; each step loads accounts into the cache of the block and     *)
(* commits changed ones to it, so a read that fails, a panic or a crash    *)
(* leaves a half-migrated cache.  The cache reaches the disk when the      *)
(* block is sealed.  Module MigrationUnwind adds the blocks that are only  *)
(* in memory, and the ways to lose one.                                    *)
(***************************************************************************)
EXTENDS Hardforks, Sequences, FiniteSets

CONSTANTS
  ChainId,        \* the chain id of the chain specification
  Activations,    \* the activation conditions it may give
  Deployed,       \* the contracts of the tables that the chain has
  BlockTimes,     \* gaps between blocks
  MaxTimestamp,   \* bound: no block is executed after it
  MaxFaults,      \* bound: read errors and crashes in a behaviour
  CodeFaults      \* may the read of a code by its hash fail?

----------------------------------------------------------------------------
\* Addresses: the first three bytes, and the rest.  Words (of a storage slot)
\* are pairs too; an address is a word.
Address ==
  {"fc0000", "fcc0d3", "13b0d8", "63eb78", "98a6c3", "aca9a3", "f75063"} \X (0 .. 9)
Word == Address \cup ({"word", "old", "name", "symbol", "holders"} \X Nat)
Zero == <<"word", 0>>

CREATE_2_DEPLOYER_ADDR == <<"13b0d8", 1>>
PROXY_ADDR             == <<"fc0000", 0>>
FRAX_ADDR              == <<"fc0000", 1>>
SFRAX_ADDR             == <<"fc0000", 8>>
FRAX_IMPL_ADDR         == <<"fcc0d3", 1>>
SFRAX_IMPL_ADDR        == <<"fcc0d3", 8>>

\* Two of the five tokens common to the chains, the token that the testnet has
\* not, one of the four bonds, one of the two oracles; the naming changes have
\* one Fraxlend pair and one gauge.
TESTNET_TOKENS_ADDRESSES  == << <<"fc0000", 2>>, <<"fc0000", 3>> >>
DEVNET_TOKENS_ADDRESSES   == TESTNET_TOKENS_ADDRESSES \o << <<"fc0000", 7>> >>
MAINNET_TOKENS_ADDRESSES  == DEVNET_TOKENS_ADDRESSES \o << <<"aca9a3", 9>> >>
MAINNET_ORACLES_ADDRESSES == << <<"f75063", 6>> >>

\* implementation_addr[0..3] = fc c0 d3.
ImplementationOf(address) == <<"fcc0d3", address[2]>>

\* The contracts of the tables are neither the proxy whose code is copied nor
\* at an address where an implementation goes.
ASSUME FraxMigrationAssumption ==
  /\ Activations \subseteq Activation
  /\ Deployed \subseteq Address
  /\ \A contract \in Deployed : contract # PROXY_ADDR /\ contract[1] # "fcc0d3"
  /\ BlockTimes \subseteq Nat \ {0}
  /\ MaxTimestamp \in Nat
  /\ MaxFaults \in Nat
  /\ CodeFaults \in BOOLEAN

Slots == {"admin", "implementation", "name", "symbol", "holders"}

----------------------------------------------------------------------------
\* A code is the code deployed at some address, with patches in place; a
\* patch is what is written and the offset where it ends.
FRXUSD_L1(end)  == [text |-> <<"l1", 1>>, end |-> end]
SFRXUSD_L1(end) == [text |-> <<"l1", 8>>, end |-> end]
Naming          == [text |-> <<"name", 5>>, end |-> 23761 + 64]

Patches ==
  {FRXUSD_L1(7238), SFRXUSD_L1(7238), FRXUSD_L1(7350),
   FRXUSD_L1(1323), SFRXUSD_L1(1323), Naming}

Nothing == <<"none", 0>>
NoCode  == [base |-> Nothing, patches |-> {}]
Code    == [base : Address \cup {Nothing}, patches : SUBSET Patches]

\* Bytes of a code: the proxy and the two tokens that are patched as mainnet's
\* genesis file has them.  The other contracts are as long as a contract may
\* be: the one of them that is patched was deployed after genesis.
CodeLength(code) ==
  CASE code.base = Nothing -> 0
    [] code.base = PROXY_ADDR -> 3959
    [] code.base \in {FRAX_ADDR, SFRAX_ADDR} -> 14014
    [] OTHER -> 24576

Account == [code : Code, slots : [Slots -> Word]]

NoAccount == [code |-> NoCode, slots |-> [s \in Slots |-> Zero]]

\* What the chain has before any of the forks.
GenesisAccount(address) ==
  IF address \in Deployed \cup {PROXY_ADDR}
  THEN [code  |-> [base |-> address, patches |-> {}],
        slots |-> [s \in Slots |->
          CASE s \in {"name", "symbol"} -> <<"old", 1>>
            [] s = "holders" -> <<"holders", 0>>
            [] OTHER -> Zero]]
  ELSE NoAccount

----------------------------------------------------------------------------
\* The steps of the transitions.  A proxy step moves the code of an account,
\* patched, to its implementation and puts the proxy's code in its place.
ProxyStep(account, implementation, patches, naming) ==
  [op |-> "proxy", account |-> account, implementation |-> implementation,
   patches |-> patches,
   writes |-> [s \in {"admin", "implementation"} \cup DOMAIN naming |->
                 CASE s = "admin" -> PROXY_ADDR
                   [] s = "implementation" -> implementation
                   [] OTHER -> naming[s]]]

MoveToProxy(account) ==
  ProxyStep(account, ImplementationOf(account), {}, << >>)

Renamed(id) == [s \in {"name", "symbol"} |-> <<s, id>>]

Canyon == << [op |-> "deploy", account |-> CREATE_2_DEPLOYER_ADDR] >>

Granite ==
  LET frax(end)  == ProxyStep(FRAX_ADDR, FRAX_IMPL_ADDR, {FRXUSD_L1(end)}, Renamed(1))
      sfrax(end) == ProxyStep(SFRAX_ADDR, SFRAX_IMPL_ADDR, {SFRXUSD_L1(end)}, Renamed(8))
  IN CASE ChainId = 2521 -> << frax(1323), sfrax(1323) >>
       [] ChainId = 2522 -> << frax(7350) >>
       [] OTHER          -> << frax(7238), sfrax(7238) >>

MAINNET_NAMING_BYTECODE_CHANGES ==
  << [op |-> "code", account |-> <<"63eb78", 4>>, patch |-> Naming] >>

\* The changes of one account: a name, and a word of the old name cleared.
MAINNET_NAMING_STORAGE_CHANGES ==
  << [op |-> "storage", account |-> <<"98a6c3", 5>>, slot |-> "name", word |-> <<"name", 5>>],
     [op |-> "storage", account |-> <<"98a6c3", 5>>, slot |-> "symbol", word |-> Zero] >>

Holocene ==
  LET proxies(table) == [i \in DOMAIN table |-> MoveToProxy(table[i])]
  IN CASE ChainId = 2521 -> proxies(DEVNET_TOKENS_ADDRESSES)
       [] ChainId = 2522 -> proxies(TESTNET_TOKENS_ADDRESSES)
       [] OTHER          -> proxies(MAINNET_TOKENS_ADDRESSES)
                              \o MAINNET_NAMING_BYTECODE_CHANGES
                              \o MAINNET_NAMING_STORAGE_CHANGES

Isthmus ==
  IF ChainId # 252 THEN << >>
  ELSE [i \in DOMAIN MAINNET_ORACLES_ADDRESSES |->
          MoveToProxy(MAINNET_ORACLES_ADDRESSES[i])]

\* The forks with an irregular transition, in the order of the calls.
Transitions == [canyon |-> Canyon, granite |-> Granite,
                holocene |-> Holocene, isthmus |-> Isthmus]
Forks == DOMAIN Transitions

----------------------------------------------------------------------------
VARIABLES
  activation,   \* fork -> its activation condition
  disk,         \* address -> account, after the head block
  head,         \* timestamp of the head block
  done,         \* the forks whose transition is on the disk (history)
  block,        \* timestamp of the block in execution
  cache,        \* the accounts that this block has loaded and committed
  pc,           \* the next step of the block's program
  status,       \* "idle", "executing" or "panicked"
  faults        \* the faults that may still happen

vars == <<activation, disk, head, done, block, cache, pc, status, faults>>

TypeOK ==
  /\ activation \in [Forks -> Activations]
  /\ disk \in [Address -> Account]
  /\ done \subseteq Forks
  /\ head \in Nat /\ block \in Nat /\ head <= block
  /\ DOMAIN cache \subseteq Address
  /\ \A a \in DOMAIN cache : cache[a] \in Account
  /\ pc \in Nat \ {0}
  /\ status \in {"idle", "executing", "panicked"}
  /\ faults \in 0 .. MaxFaults

Init ==
  /\ activation \in [Forks -> Activations]
  /\ disk = [a \in Address |-> GenesisAccount(a)]
  /\ head = 0 /\ block = 0
  /\ done = {} /\ cache = << >> /\ pc = 1
  /\ status = "idle" /\ faults = MaxFaults

\* What apply_pre_execution_changes does in the block, in order.
Steps(fork) ==
  IF AtTransition(activation[fork], block) THEN Transitions[fork] ELSE << >>

Program == Steps("canyon") \o Steps("granite") \o Steps("holocene") \o Steps("isthmus")

Migrating == status = "executing" /\ pc <= Len(Program)
Migrated  == status = "executing" /\ pc > Len(Program)

----------------------------------------------------------------------------
\* The account as this block sees it.
Current(address) ==
  IF address \in DOMAIN cache THEN cache[address] ELSE disk[address]

\* db.basic of each address: the accounts are in the cache from then on.
Loaded(addresses) ==
  [a \in DOMAIN cache \cup addresses |-> Current(a)]

\* Mutant: the storage of a changed account starts from nothing.
ChangedFromScratch(account, change) ==
  [code  |-> change.code,
   slots |-> [s \in Slots |-> IF s \in DOMAIN change.writes
                             THEN change.writes[s] ELSE Zero]]

\* Mutant: the written slots replace the storage of the account.
ChangedToWritten(account, change) ==
  [code |-> change.code, slots |-> change.writes]

\* Mutant: a written zero clears the word.
ChangedToZero(account, change) ==
  IF change.code = NoCode THEN account
  ELSE [code  |-> change.code,
        slots |-> [s \in Slots |-> IF s \in DOMAIN change.writes
                                  THEN change.writes[s] ELSE account.slots[s]]]

\* What the commit makes of one touched account.  An account without code is
\* empty and stays so; a written word that is zero equals the original value
\* that EvmStorageSlot::new_changed was given, is no change, and is dropped.
Changed(account, change) ==
  IF change.code = NoCode THEN account
  ELSE [code  |-> change.code,
        slots |-> [s \in Slots |->
          IF s \in DOMAIN change.writes /\ change.writes[s] # Zero
          THEN change.writes[s] ELSE account.slots[s]]]

Discard == cache' = << >> /\ pc' = 1

\* The process is gone; what it finds when it is started again is the subject
\* of module MigrationUnwind.
Panic ==
  /\ status' = "panicked"
  /\ Discard

\* db.commit, which expects every changed account in the cache.
Commit(loaded, changes) ==
  IF DOMAIN changes \subseteq DOMAIN loaded
  THEN /\ cache' = [a \in DOMAIN loaded |->
                      IF a \in DOMAIN changes THEN Changed(loaded[a], changes[a])
                                              ELSE loaded[a]]
       /\ pc' = pc + 1
       /\ UNCHANGED status
  ELSE Panic

\* get_contract_code: the error of code_by_hash is not returned to the caller,
\* which then works on an empty code.
GetContractCode(account, code) ==
  \/ code = account.code /\ UNCHANGED faults
  \/ CodeFaults /\ faults > 0 /\ code = NoCode /\ faults' = faults - 1

\* The code with the patch copied over it, provided that it is long enough.
Fits(patch, code) == patch.end <= CodeLength(code)
PatchedCode(code, patches) == [code EXCEPT !.patches = @ \cup patches]

----------------------------------------------------------------------------
\* The node executes a block on top of the head.
BeginBlock(gap) ==
  /\ status = "idle"
  /\ head + gap <= MaxTimestamp
  /\ block' = head + gap
  /\ status' = "executing"
  /\ Discard
  /\ UNCHANGED <<activation, disk, head, done, faults>>

Step(op) ==
  /\ Migrating
  /\ Program[pc].op = op
  /\ UNCHANGED <<activation, disk, head, done, block>>

\* ensure_create2_deployer.
DeployCreate2 ==
  /\ Step("deploy")
  /\ LET deployer == Program[pc].account
     IN Commit(Loaded({deployer}),
               [a \in {deployer} |->
                  [code |-> [base |-> deployer, patches |-> {}], writes |-> << >>]])
  /\ UNCHANGED faults

\* Mutant: the implementation account is made up without loading it.
MigrateUnloaded ==
  /\ Step("proxy")
  /\ LET step == Program[pc] IN
     \E code \in {Current(step.account).code, NoCode} :
       /\ GetContractCode(Current(step.account), code)
       /\ Commit(Loaded({step.account, PROXY_ADDR}),
                 [a \in {step.account, step.implementation} |->
                    IF a = step.account
                    THEN [code |-> Current(PROXY_ADDR).code, writes |-> step.writes]
                    ELSE [code |-> PatchedCode(code, step.patches), writes |-> << >>]])

\* Mutant: the proxy is put in place before the code is read.
MigrateProxyFirst ==
  /\ Step("proxy")
  /\ LET step == Program[pc] IN
     /\ Commit(Loaded({step.account, step.implementation, PROXY_ADDR}),
               [a \in {step.account, step.implementation} |->
                  IF a = step.account
                  THEN [code |-> Current(PROXY_ADDR).code, writes |-> step.writes]
                  ELSE [code |-> PatchedCode(Current(PROXY_ADDR).code, step.patches),
                        writes |-> << >>]])
     /\ UNCHANGED faults

\* migrate, and the loops over the token and the oracle tables: the code of
\* the contract goes to the implementation, the proxy's code to the contract.
MigrateToProxy ==
  /\ Step("proxy")
  /\ LET step == Program[pc] IN
     \E code \in {Current(step.account).code, NoCode} :
       /\ GetContractCode(Current(step.account), code)
       /\ IF \A patch \in step.patches : Fits(patch, code)
          THEN Commit(Loaded({step.account, step.implementation, PROXY_ADDR}),
                      [a \in {step.account, step.implementation} |->
                         IF a = step.account
                         THEN [code |-> Current(PROXY_ADDR).code, writes |-> step.writes]
                         ELSE [code |-> PatchedCode(code, step.patches), writes |-> << >>]])
          ELSE Panic

\* The loop over the bytecode changes.
ChangeByteCode ==
  /\ Step("code")
  /\ LET step == Program[pc] IN
     \E code \in {Current(step.account).code, NoCode} :
       /\ GetContractCode(Current(step.account), code)
       /\ IF Fits(step.patch, code)
          THEN Commit(Loaded({step.account}),
                      [a \in {step.account} |->
                         [code |-> PatchedCode(code, {step.patch}), writes |-> << >>]])
          ELSE Panic

\* The loop over the storage changes.
ChangeStorage ==
  /\ Step("storage")
  /\ LET step == Program[pc] IN
     Commit(Loaded({step.account}),
            [a \in {step.account} |->
               [code   |-> Current(step.account).code,
                writes |-> [s \in {step.slot} |-> step.word]]])
  /\ UNCHANGED faults

\* Mutant: the error of a read is swallowed and the next step runs.
SkipStep ==
  /\ Migrating
  /\ faults > 0
  /\ faults' = faults - 1
  /\ pc' = pc + 1
  /\ UNCHANGED <<activation, disk, head, done, block, cache, status>>

\* A read of an account fails and `?` returns the error, whose receiver drops
\* the cache; or the node stops.
Abandon ==
  /\ Migrating
  /\ faults > 0
  /\ faults' = faults - 1
  /\ status' = "idle"
  /\ Discard
  /\ UNCHANGED <<activation, disk, head, done, block>>

\* A transaction of the block changes what the holders of a contract have.
Transact(contract) ==
  /\ Migrated
  /\ contract \in Deployed
  /\ cache' = [Loaded({contract}) EXCEPT ![contract].slots["holders"] = <<"holders", block>>]
  /\ UNCHANGED <<activation, disk, head, done, block, pc, status, faults>>

\* The block is valid: its cache becomes the state on the disk.
Seal ==
  /\ Migrated
  /\ disk' = [a \in Address |-> Current(a)]
  /\ head' = block
  /\ done' = done \cup {f \in Forks : AtTransition(activation[f], block)}
  /\ status' = "idle"
  /\ Discard
  /\ UNCHANGED <<activation, block, faults>>

Next ==
  \/ \E gap \in BlockTimes : BeginBlock(gap)
  \/ DeployCreate2 \/ MigrateToProxy \/ ChangeByteCode \/ ChangeStorage
  \/ Abandon
  \/ \E contract \in {FRAX_ADDR, <<"fc0000", 2>>} : Transact(contract)
  \/ Seal

Spec == Init /\ [][Next]_vars

----------------------------------------------------------------------------
\* The contracts that a fork turns into proxies, and the patches it applies.
ProxyAccounts(fork) ==
  {Transitions[fork][i].account :
     i \in {i \in DOMAIN Transitions[fork] : Transitions[fork][i].op = "proxy"}}

PatchesOf(fork, contract) ==
  UNION {IF Transitions[fork][i].op = "proxy" THEN Transitions[fork][i].patches
         ELSE IF Transitions[fork][i].op = "code" THEN {Transitions[fork][i].patch}
         ELSE {} :
           i \in {i \in DOMAIN Transitions[fork] :
                    Transitions[fork][i].account = contract}}

IsProxy(contract) == disk[contract].code.base = PROXY_ADDR

\* The code that a call of a contract ends up executing.
Logic(contract) ==
  LET implementation == disk[contract].slots["implementation"]
  IN CASE ~IsProxy(contract) -> disk[contract].code
       [] IsProxy(contract) /\ implementation \in Address -> disk[implementation].code
       [] OTHER -> NoCode

\* What a caller can tell of the deployed contracts, as TokenUpgrades says.
Promise ==
  INSTANCE TokenUpgrades WITH
    Contracts <- Deployed,
    Upgraded  <- [f \in Forks |-> ProxyAccounts(f) \cap Deployed],
    Patched   <- [f \in Forks |-> [c \in Deployed |-> PatchesOf(f, c)]],
    contracts <- [c \in Deployed |->
                    [original    |-> Logic(c).base = c,
                     patches     |-> Logic(c).patches,
                     upgradeable |-> IsProxy(c)]]

\* The migration keeps the promise: whatever fails or stops halfway, the state
\* on the disk goes from one block to the next with all the contracts of a
\* fork upgraded, each keeping its own logic behind the proxy, or with none.
KeepsPromise == Promise!Spec

\* On a chain that has the contracts of the tables, no step reads past the end
\* of a code or commits an account that it did not load (either would stop the
\* node at the transition block for good).
NeverPanics == status # "panicked"

\* A proxy on the disk is administered by the proxy admin and points to an
\* implementation that is not itself a proxy and that no other contract uses.
ProxiesAreSound ==
  \A c \in Address \ {PROXY_ADDR} : IsProxy(c) =>
    /\ disk[c].slots["admin"] = PROXY_ADDR
    /\ disk[c].slots["implementation"] \in Address
    /\ ~IsProxy(disk[c].slots["implementation"])
    /\ \A d \in Address \ {PROXY_ADDR, c} : IsProxy(d) =>
         disk[d].slots["implementation"] # disk[c].slots["implementation"]

\* A step of a transition leaves what the holders have in every contract as it
\* was, although it replaces the account.
HoldersUntouched ==
  [][Migrating /\ pc' = pc + 1 =>
       \A c \in Deployed :
         Current(c)'.slots["holders"] = Current(c).slots["holders"]]_vars

\* A fork's contracts are all proxies on the disk once its transition is
\* there, and none of them is before, panics included.
AllOrNothing ==
  \A f \in Forks : \A c \in ProxyAccounts(f) : IsProxy(c) <=> f \in done

\* The timestamp of the head alone tells which contracts of the tables are
\* proxies: those of the forks that are active there and were not at genesis,
\* whatever failed, was lost or was unwound on the way.  A migration that was
\* taken back is made again before the chain is past its activation.
ProxiesFollowHead ==
  \A f \in Forks : \A c \in ProxyAccounts(f) :
    IsProxy(c) <=> IsActive(activation[f], head) /\ ~IsActive(activation[f], 0)

\* "The Granite hardfork issues an irregular state transition that upgrades
\* the frax/sfrax contracts code to be upgradable proxies." (granite.rs)
GraniteUpgradesFraxAndSfrax ==
  "granite" \in done => IsProxy(FRAX_ADDR) /\ IsProxy(SFRAX_ADDR)

\* "The Holocene hardfork issues an irregular state transition that upgrades
\* the remaining frax tokens to upgradable proxies." (holocene/mod.rs): a
\* token that is upgraded still runs its own code.
HoloceneKeepsTokens ==
  "holocene" \in done =>
    \A c \in ProxyAccounts("holocene") \cap Deployed : Logic(c).base = c

=============================================================================
