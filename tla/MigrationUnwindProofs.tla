----------------------- MODULE MigrationUnwindProofs -----------------------
(***************************************************************************)
(* Proofs about MigrationUnwind: the chain may lose its head block, in     *)
(* memory or from the database, and the contracts are what the migrations  *)
(* of the blocks that are left make of them.  The invariant extends that   *)
(* of FraxMigrationProofs to the block below the head and to the words     *)
(* that its unwinding clears.                                              *)
(***************************************************************************)
EXTENDS MigrationUnwind, FraxMigrationProofs

----------------------------------------------------------------------------
\* The word that a step writes in a slot.
WordOf(s, w) == IF s.op = "proxy" THEN s.writes[w] ELSE s.word

\* A step that writes a word of a contract.
Writes(s, c, w) == s.account = c /\ w \in WrittenBy(s)

\* The words of each kind of step.
LEMMA WrittenWords ==
  ASSUME NEW s \in AllSteps
  PROVE  /\ s.op = "proxy" => WrittenBy(s) = {w \in DOMAIN s.writes : s.writes[w] # Zero}
         /\ s.op = "storage" =>
              /\ s.slot \in {"name", "symbol"}
              /\ WrittenBy(s) = IF s.word = Zero THEN {} ELSE {s.slot}
         /\ s.op \in {"deploy", "code"} => WrittenBy(s) = {}
         /\ s.op \in {"proxy", "storage", "deploy", "code"}
<1>1. s.op \in {"proxy", "storage", "deploy", "code"}
  BY StepShape DEF IsProxyStep, IsOtherStep
<1>2. CASE s.op = "proxy"
  BY <1>2 DEF WrittenBy
<1>3. CASE s.op = "storage"
  <2>1. s.slot \in {"name", "symbol"}
    BY <1>3, StepShape DEF IsProxyStep, IsOtherStep
  <2>2. WrittenBy(s) = {w \in {s.slot} : [x \in {s.slot} |-> s.word][w] # Zero}
    BY <1>3 DEF WrittenBy
  <2> QED
    BY <1>3, <2>1, <2>2
<1>4. CASE s.op \in {"deploy", "code"}
  <2>1. WrittenBy(s) = {w \in DOMAIN << >> : << >>[w] # Zero}
    BY <1>4 DEF WrittenBy
  <2> QED
    BY <1>4, <2>1
<1> QED
  BY <1>1, <1>2, <1>3, <1>4

\* No two steps write the same word.
LEMMA WrittenOnce ==
  ASSUME NEW s \in AllSteps, NEW t \in AllSteps, NEW c, NEW w, Writes(s, c, w), Writes(t, c, w)
  PROVE  s = t
<1>1. s.account = t.account
  BY DEF Writes
<1>2. CASE s.op # "storage" \/ t.op # "storage"
  BY <1>1, <1>2, OneStepPerAccount
<1>3. CASE s.op = "storage" /\ t.op = "storage"
  <2>1. s.slot = t.slot
    BY <1>3, WrittenWords DEF Writes
  <2> QED
    BY <1>1, <2>1, StepsAreDistinct DEF AllSteps, StepsOf
<1> QED
  BY <1>2, <1>3

\* The words that a fork leaves in a slot are those that its steps write.
LEMMA WordsOfSteps ==
  ASSUME NEW f, NEW c, NEW w
  PROVE  WordsOf(f, c, w) = {WordOf(s, w) : s \in {s \in StepsOf(f) : Writes(s, c, w)}}
<1> DEFINE table == Transitions[f]
           places == {i \in DOMAIN table : table[i].account = c /\ w \in WrittenBy(table[i])}
<1>1. WordsOf(f, c, w) = {WordOf(table[i], w) : i \in places}
  BY DEF WordsOf, WordOf
<1>2. {s \in StepsOf(f) : Writes(s, c, w)} = {table[i] : i \in places}
  BY DEF StepsOf, Writes
<1> HIDE DEF table
<1>3. {WordOf(s, w) : s \in {table[i] : i \in places}} = {WordOf(table[i], w) : i \in places}
  OBVIOUS
<1> QED
  BY <1>1, <1>2, <1>3

----------------------------------------------------------------------------
\* The names of the contracts when some of the steps have been executed and the
\* steps of the forks in z have been unwound from the database.
NamesKept(accounts, steps, z) ==
  \A c \in Deployed :
    /\ accounts[c].code.base # Nothing
    /\ \A w \in {"name", "symbol"} :
         \/ \E s \in steps : Writes(s, c, w) /\ accounts[c].slots[w] = WordOf(s, w)
         \/ /\ \A s \in steps : ~Writes(s, c, w)
            /\ \/ accounts[c].slots[w] = <<"old", 1>>
               \/ /\ accounts[c].slots[w] = Zero
                  /\ \E f \in z : \E s \in StepsOf(f) : Writes(s, c, w)

\* A step writes its words in the names of its contract and no others.
LEMMA StepWrites ==
  ASSUME NEW old \in [Address -> Account], NEW S, ProxiesMatch(old, S),
         NEW new, NEW s \in AllSteps, Performs(s, old, new),
         NEW c \in Deployed, old[c].code.base # Nothing
  PROVE  /\ new[c].code.base # Nothing
         /\ \A w \in Slots :
              new[c].slots[w] = IF Writes(s, c, w) THEN WordOf(s, w) ELSE old[c].slots[w]
<1>1. /\ c \in Address /\ c # PROXY_ADDR /\ c[1] # "fcc0d3" /\ c # Nothing
      /\ PROXY_ADDR # Nothing
  BY FraxMigrationAssumption DEF Nothing, Address, PROXY_ADDR
<1>2. Effects(s, old, new)
  BY PerformsEffect
<1>3. s.op = "proxy" => c # s.implementation /\ s.implementation # s.account
  BY <1>1, StepShape, ImplementationsAreApart DEF IsProxyStep
<1>4. CASE c # s.account
  <2>1. new[c] = old[c]
    BY <1>1, <1>2, <1>3, <1>4 DEF Effects
  <2> QED
    BY <1>4, <2>1 DEF Writes
<1>5. CASE c = s.account
  <2>1. old[c].code \in Code /\ old[c].code # NoCode
    BY <1>1 DEF Account, NoCode
  <2>2. old[PROXY_ADDR].code.base = PROXY_ADDR /\ old[PROXY_ADDR].code # NoCode
    <3>1. old[PROXY_ADDR].code = [base |-> PROXY_ADDR, patches |-> {}]
      BY DEF ProxiesMatch
    <3>2. old[PROXY_ADDR].code.base = PROXY_ADDR
      BY <3>1
    <3> QED
      BY <1>1, <3>2 DEF NoCode
  <2>3. s.op \in {"proxy", "storage", "deploy", "code"}
    BY WrittenWords
  <2>4. CASE s.op = "deploy"
    <3>1. new[c].code.base # Nothing
      BY <1>1, <1>2, <1>5, <2>4 DEF Effects
    <3>2. Deploys(s, old, new)
      BY <2>4 DEF Performs, Deploys, Stores, Proxies, PatchesCode
    <3>3. \A w \in Slots : new[c].slots[w] = old[c].slots[w]
      BY <1>1, <1>5, <3>2 DEF Deploys, Effect, Changed, Account
    <3> QED
      BY <2>4, <3>1, <3>3, WrittenWords DEF Writes
  <2>5. CASE s.op = "code"
    <3>1. new[c].code.base # Nothing
      <4>1. {s.patch} \in SUBSET Patches
        BY <2>5, StepShape, NaturalCode DEF IsProxyStep, IsOtherStep
      <4>2. new[c].code = PatchedCode(old[c].code, {s.patch})
        BY <1>2, <1>5, <2>5 DEF Effects
      <4> QED
        BY <2>1, <4>1, <4>2, NaturalCode
    <3>2. \E code : PatchesCode(s, old, new, code)
      BY <2>5 DEF Performs, Deploys, Stores, Proxies, PatchesCode
    <3>3. \A w \in Slots : new[c].slots[w] = old[c].slots[w]
      BY <1>1, <1>5, <3>2 DEF PatchesCode, Effect, Changed, Account
    <3> QED
      BY <2>5, <3>1, <3>3, WrittenWords DEF Writes
  <2>6. CASE s.op = "storage"
    <3>1. new[c].code = old[c].code
      BY <1>2, <1>5, <2>6 DEF Effects
    <3>2. Stores(s, old, new)
      BY <2>6 DEF Performs, Deploys, Stores, Proxies, PatchesCode
    <3>3. \A w \in Slots : new[c].slots[w] =
            IF w = s.slot /\ s.word # Zero THEN s.word ELSE old[c].slots[w]
      BY <1>1, <1>5, <2>1, <3>2 DEF Stores, Effect, Changed
    <3>4. \A w : Writes(s, c, w) <=> w = s.slot /\ s.word # Zero
      BY <1>5, <2>6, WrittenWords DEF Writes
    <3>5. \A w : WordOf(s, w) = s.word
      BY <2>6 DEF WordOf
    <3> QED
      BY <3>1, <3>3, <3>4, <3>5
  <2>7. CASE s.op = "proxy"
    <3>1. new[c].code = old[PROXY_ADDR].code
      BY <1>2, <1>5, <2>2, <2>7 DEF Effects
    <3>2. PICK code : Proxies(s, old, new, code)
      BY <2>7 DEF Performs, Deploys, Stores, Proxies, PatchesCode
    <3>3. \A w \in Slots : new[c].slots[w] =
            IF w \in DOMAIN s.writes /\ s.writes[w] # Zero THEN s.writes[w]
            ELSE old[c].slots[w]
      BY <1>1, <1>3, <1>5, <2>2, <2>7, <3>2 DEF Proxies, Effect, Changed
    <3>4. \A w : Writes(s, c, w) <=> w \in DOMAIN s.writes /\ s.writes[w] # Zero
      BY <1>5, <2>7, WrittenWords DEF Writes
    <3>5. \A w : WordOf(s, w) = s.writes[w]
      BY <2>7 DEF WordOf
    <3> QED
      BY <1>1, <2>2, <3>1, <3>3, <3>4, <3>5
  <2> QED
    BY <2>3, <2>4, <2>5, <2>6, <2>7
<1> QED
  BY <1>4, <1>5

\* A step gives its contract its names, and leaves the others theirs.
LEMMA PerformedNamesKept ==
  ASSUME NEW old \in [Address -> Account], NEW S \in SUBSET AllSteps,
         ProxiesMatch(old, S), NEW z, NamesKept(old, S, z),
         NEW new, NEW s \in AllSteps, Performs(s, old, new)
  PROVE  NamesKept(new, S \cup {s}, z)
<1> SUFFICES ASSUME NEW c \in Deployed
             PROVE  /\ new[c].code.base # Nothing
                    /\ \A w \in {"name", "symbol"} :
                         \/ \E t \in S \cup {s} : Writes(t, c, w) /\ new[c].slots[w] = WordOf(t, w)
                         \/ /\ \A t \in S \cup {s} : ~Writes(t, c, w)
                            /\ \/ new[c].slots[w] = <<"old", 1>>
                               \/ /\ new[c].slots[w] = Zero
                                  /\ \E f \in z : \E t \in StepsOf(f) : Writes(t, c, w)
  BY DEF NamesKept
<1>1. old[c].code.base # Nothing
  BY DEF NamesKept
<1>2. /\ new[c].code.base # Nothing
      /\ \A w \in Slots :
           new[c].slots[w] = IF Writes(s, c, w) THEN WordOf(s, w) ELSE old[c].slots[w]
  BY <1>1, StepWrites
<1>3. ASSUME NEW w \in {"name", "symbol"}
      PROVE  \/ \E t \in S \cup {s} : Writes(t, c, w) /\ new[c].slots[w] = WordOf(t, w)
             \/ /\ \A t \in S \cup {s} : ~Writes(t, c, w)
                /\ \/ new[c].slots[w] = <<"old", 1>>
                   \/ /\ new[c].slots[w] = Zero
                      /\ \E f \in z : \E t \in StepsOf(f) : Writes(t, c, w)
  <2>1. w \in Slots
    BY DEF Slots
  <2>2. CASE Writes(s, c, w)
    BY <1>2, <2>1, <2>2
  <2>3. CASE ~Writes(s, c, w)
    <3>1. new[c].slots[w] = old[c].slots[w]
      BY <1>2, <2>1, <2>3
    <3> QED
      BY <2>3, <3>1 DEF NamesKept
  <2> QED
    BY <2>2, <2>3
<1> QED
  BY <1>2, <1>3

\* At genesis every contract has its own names.
LEMMA GenesisNamesKept == NamesKept([a \in Address |-> GenesisAccount(a)], {}, {})
<1> SUFFICES ASSUME NEW c \in Deployed
             PROVE  /\ GenesisAccount(c).code.base # Nothing
                    /\ \A w \in {"name", "symbol"} : GenesisAccount(c).slots[w] = <<"old", 1>>
  BY FraxMigrationAssumption DEF NamesKept
<1>1. c # Nothing
  BY FraxMigrationAssumption DEF Nothing, Address
<1> QED
  BY <1>1 DEF GenesisAccount, Slots

\* Holders have no part in the names.
LEMMA SameNamesKept ==
  ASSUME NEW S, NEW z, NEW old, NamesKept(old, S, z), NEW new,
         \A a \in Address :
           /\ new[a].code = old[a].code
           /\ \A w \in Slots \ {"holders"} : new[a].slots[w] = old[a].slots[w]
  PROVE  NamesKept(new, S, z)
<1>1. \A w \in {"name", "symbol"} : w \in Slots \ {"holders"}
  BY DEF Slots
<1>2. \A c \in Deployed : c \in Address
  BY FraxMigrationAssumption
<1> QED
  BY <1>1, <1>2 DEF NamesKept

----------------------------------------------------------------------------
\* The block below the head, and what the head block has overwritten: words
\* that only the forks it activated write.
BelowInv ==
  \A b \in below :
    /\ b.done \subseteq done /\ b.head \in Nat /\ b.head <= head
    /\ \A f \in b.done : IsActive(activation[f], b.head)
    /\ Upgraded(b.disk, StepsOfAll(b.done))
    /\ SpacedBlocks => NamesKept(b.disk, StepsOfAll(b.done), zeroed)
    /\ SpacedBlocks =>
         \A a \in Address : \A w \in b.overwritten[a] :
           \E f \in done \ b.done : \E s \in StepsOf(f) : Writes(s, a, w)

\* The names on the disk and in the block are those of the steps behind them.
NamesInv == NamesKept(disk, DiskSteps, zeroed) /\ NamesKept(View, ViewSteps, zeroed)

\* The inductive invariant: that of the migration, on the block below the head too,
\* and the names.
UnwindInv ==
  /\ MigrationInv
  /\ BelowInv
  /\ SpacedBlocks => NamesInv

\* What a block records as overwritten was written by a step of its forks.
LEMMA OverwrittenByTheBlock ==
  ASSUME TypeOK, NEW a, NEW w \in Overwritten(a)
  PROVE  \E f \in Activating : \E s \in StepsOf(f) : Writes(s, a, w)
<1>1. PICK i \in DOMAIN Program : Program[i].account = a /\ w \in WrittenBy(Program[i])
  BY DEF Overwritten
<1>2. Program[i] \in StepsOfAll(Activating)
  BY ProgramLists DEF Lists
<1> QED
  BY <1>1, <1>2 DEF Writes, StepsOfAll

\* What the database restores: the codes as they were, and the words but those
\* that the forks of the unwound block wrote.
LEMMA RevertedAccounts ==
  ASSUME NEW b, b.disk \in [Address -> Account]
  PROVE  /\ Reverted(b) \in [Address -> Account]
         /\ \A a \in Address :
              /\ Reverted(b)[a].code = b.disk[a].code
              /\ \A w \in Slots : Reverted(b)[a].slots[w] =
                   IF w \in b.overwritten[a] THEN Zero ELSE b.disk[a].slots[w]
<1>1. Zero \in Word
  BY DEF Zero, Word
<1> QED
  BY <1>1 DEF Reverted, Account

\* The accounts that the database restores are those of the steps that are left: the
\* words of a proxy are cleared only where the account is no proxy any more.
LEMMA RevertedUpgraded ==
  ASSUME BelowInv, TypeOK, NEW b \in below
  PROVE  Upgraded(Reverted(b), StepsOfAll(b.done))
<1> DEFINE S == StepsOfAll(b.done)
           new == Reverted(b)
           old == b.disk
<1>1. /\ b.done \subseteq done /\ done \subseteq Forks /\ Upgraded(old, S)
      /\ old \in [Address -> Account]
  BY DEF BelowInv, TypeOK, Upgraded
<1>2. S \in SUBSET AllSteps
  BY <1>1, StepsAreSteps
<1>3. /\ new \in [Address -> Account]
      /\ \A a \in Address :
           /\ new[a].code = old[a].code
           /\ \A w \in Slots : new[a].slots[w] =
                IF w \in b.overwritten[a] THEN Zero ELSE old[a].slots[w]
  BY <1>1, RevertedAccounts
<1> HIDE DEF new, old
<1>4. ProxiesMatch(new, S)
  BY <1>1, <1>3, StepAddresses DEF Upgraded, ProxiesMatch
<1>5. ASSUME SpacedBlocks, NEW t \in S, t.op = "proxy"
      PROVE  /\ "admin" \notin b.overwritten[t.account]
             /\ "implementation" \notin b.overwritten[t.account]
  <2>1. ASSUME NEW w \in {"admin", "implementation"}, w \in b.overwritten[t.account]
        PROVE  FALSE
    <3>1. t.account \in Address /\ t \in AllSteps
      BY <1>2, <1>5, StepAddresses
    <3>2. PICK f \in done \ b.done : \E s \in StepsOf(f) : Writes(s, t.account, w)
      BY <1>5, <2>1, <3>1 DEF BelowInv
    <3>3. t \in StepsOf(f)
      <4>1. PICK s \in StepsOf(f) : Writes(s, t.account, w)
        BY <3>2
      <4>2. s \in AllSteps
        BY <1>1, <4>1 DEF AllSteps
      <4> QED
        BY <1>5, <3>1, <4>1, <4>2, OneStepPerAccount DEF Writes
    <3>4. PICK g \in b.done : t \in StepsOf(g)
      BY DEF StepsOfAll
    <3> QED
      BY <1>1, <3>2, <3>3, <3>4, StepsOfOneFork
  <2> QED
    BY <2>1
<1>6. SpacedBlocks => ProxiesPoint(new, S)
  <2> SUFFICES ASSUME SpacedBlocks, NEW a \in Address \ {PROXY_ADDR},
                      new[a].code.base = PROXY_ADDR
               PROVE  \E s \in S :
                        /\ s.op = "proxy" /\ s.account = a
                        /\ new[a].slots["admin"] = PROXY_ADDR
                        /\ new[a].slots["implementation"] = s.implementation
    BY DEF ProxiesPoint
  <2>1. old[a].code.base = PROXY_ADDR
    BY <1>3
  <2>2. PICK s \in S : /\ s.op = "proxy" /\ s.account = a
                      /\ old[a].slots["admin"] = PROXY_ADDR
                      /\ old[a].slots["implementation"] = s.implementation
    BY <1>1, <2>1 DEF Upgraded, ProxiesPoint
  <2>3. "admin" \in Slots /\ "implementation" \in Slots
    BY DEF Slots
  <2> QED
    BY <1>3, <1>5, <2>2, <2>3
<1>7. SpacedBlocks /\ ~CodeFaults => LogicIsKept(new, S)
  <2>1. ASSUME NEW c \in Deployed PROVE Home(c, S) \in Address
    BY <1>2, FraxMigrationAssumption, StepShape, ImplementationsAreApart DEF Home, IsProxyStep
  <2> QED
    BY <1>1, <1>3, <2>1 DEF Upgraded, LogicIsKept
<1> QED
  BY <1>3, <1>4, <1>6, <1>7 DEF Upgraded, new

\* The names that the database restores are those of the forks that are left, or a
\* zero that a fork it has unwound leaves behind.
LEMMA RevertedNamesKept ==
  ASSUME BelowInv, TypeOK, NEW b \in below, SpacedBlocks
  PROVE  NamesKept(Reverted(b), StepsOfAll(b.done), zeroed \cup (done \ b.done))
<1> DEFINE S == StepsOfAll(b.done)
           z == zeroed \cup (done \ b.done)
           new == Reverted(b)
           old == b.disk
<1>1. /\ b.done \subseteq done /\ done \subseteq Forks /\ NamesKept(old, S, zeroed)
      /\ old \in [Address -> Account]
      /\ \A a \in Address : \A w \in b.overwritten[a] :
           \E f \in done \ b.done : \E s \in StepsOf(f) : Writes(s, a, w)
  BY DEF BelowInv, TypeOK, Upgraded
<1>2. S \in SUBSET AllSteps
  BY <1>1, StepsAreSteps
<1>3. /\ new \in [Address -> Account]
      /\ \A a \in Address :
           /\ new[a].code = old[a].code
           /\ \A w \in Slots : new[a].slots[w] =
                IF w \in b.overwritten[a] THEN Zero ELSE old[a].slots[w]
  BY <1>1, RevertedAccounts
<1> HIDE DEF new, old
<1>4. ASSUME NEW c \in Deployed, NEW w \in {"name", "symbol"}
      PROVE  \/ \E s \in S : Writes(s, c, w) /\ new[c].slots[w] = WordOf(s, w)
             \/ /\ \A s \in S : ~Writes(s, c, w)
                /\ \/ new[c].slots[w] = <<"old", 1>>
                   \/ /\ new[c].slots[w] = Zero
                      /\ \E f \in z : \E s \in StepsOf(f) : Writes(s, c, w)
  <2>1. c \in Address /\ w \in Slots
    BY FraxMigrationAssumption DEF Slots
  <2>2. CASE w \in b.overwritten[c]
    <3>1. PICK f \in done \ b.done : \E s \in StepsOf(f) : Writes(s, c, w)
      BY <1>1, <2>1, <2>2
    <3>2. PICK s \in StepsOf(f) : Writes(s, c, w)
      BY <3>1
    <3>3. s \in AllSteps
      BY <1>1, <3>2 DEF AllSteps
    <3>4. ASSUME NEW t \in S, Writes(t, c, w) PROVE FALSE
      <4>1. s = t
        BY <1>2, <3>2, <3>3, <3>4, WrittenOnce
      <4>2. PICK g \in b.done : t \in StepsOf(g)
        BY DEF StepsOfAll
      <4> QED
        BY <1>1, <3>1, <3>2, <4>1, <4>2, StepsOfOneFork
    <3>5. new[c].slots[w] = Zero
      BY <1>3, <2>1, <2>2
    <3> QED
      BY <3>1, <3>4, <3>5
  <2>3. CASE w \notin b.overwritten[c]
    <3>1. new[c].slots[w] = old[c].slots[w]
      BY <1>3, <2>1, <2>3
    <3>2. zeroed \subseteq z
      OBVIOUS
    <3> HIDE DEF z
    <3> QED
      BY <1>1, <3>1, <3>2 DEF NamesKept
  <2> QED
    BY <2>2, <2>3
<1>5. \A c \in Deployed : new[c].code.base # Nothing
  BY <1>1, <1>3, FraxMigrationAssumption DEF NamesKept
<1> HIDE DEF z
<1>6. NamesKept(new, S, z)
  BY <1>4, <1>5 DEF NamesKept
<1> QED
  BY <1>6 DEF new, z

\* A step of the execution keeps the names.
LEMMA NamesNext ==
  ASSUME MigrationInv, NamesInv, [Next]_vars, zeroed' = zeroed
  PROVE  NamesInv'
<1>1. TypeOK /\ View \in [Address -> Account] /\ disk \in [Address -> Account]
  BY CurrentAccounts DEF MigrationInv, TypeOK
<1>2. CASE Discard /\ UNCHANGED <<disk, done>>
  <2>1. /\ View' = disk' /\ ViewSteps' = DiskSteps' /\ disk' = disk /\ DiskSteps' = DiskSteps
    BY <1>1, <1>2, DiscardLeavesTheDisk DEF DiskSteps
  <2> QED
    BY <2>1 DEF NamesInv
<1>3. CASE TransitionStep /\ ~Panic
  <2>1. /\ pc \in DOMAIN Program /\ Program[pc] \in AllSteps
        /\ UNCHANGED <<activation, disk, head, done, block>> /\ pc' = pc + 1
        /\ Performs(Program[pc], View, View')
    BY <1>1, <1>3, StepPerforms
  <2>2. ViewSteps' = ViewSteps \cup {Program[pc]} /\ DiskSteps' = DiskSteps
    BY <1>1, <2>1, StepAdvances
  <2>3. ViewSteps \in SUBSET AllSteps
    BY <1>1, ProgramProgress, StepsAreSteps DEF ViewSteps, DiskSteps, TypeOK
  <2>4. ProxiesMatch(View, ViewSteps) /\ NamesKept(View, ViewSteps, zeroed)
    BY DEF MigrationInv, Upgraded, NamesInv
  <2>5. NamesKept(View', ViewSteps \cup {Program[pc]}, zeroed)
    BY <1>1, <2>1, <2>3, <2>4, PerformedNamesKept
  <2> QED
    BY <2>1, <2>2, <2>5 DEF NamesInv
<1>4. CASE \E c \in {FRAX_ADDR, <<"fc0000", 2>>} : Transact(c)
  <2>1. /\ ViewSteps' = ViewSteps /\ DiskSteps' = DiskSteps /\ disk' = disk
        /\ \A a \in Address :
             /\ View'[a].code = View[a].code
             /\ \A w \in Slots \ {"holders"} : View'[a].slots[w] = View[a].slots[w]
    BY <1>1, <1>4, TransactEffect
  <2>2. NamesKept(View', ViewSteps, zeroed)
    BY <2>1, SameNamesKept DEF NamesInv
  <2> QED
    BY <2>1, <2>2 DEF NamesInv
<1>5. CASE Seal
  <2>1. disk' = View /\ View' = disk' /\ DiskSteps' = ViewSteps /\ ViewSteps' = DiskSteps'
    BY <1>1, <1>5, SealEffect
  <2> QED
    BY <2>1 DEF NamesInv
<1>6. CASE UNCHANGED vars
  <2>1. View' = View /\ ViewSteps' = ViewSteps /\ DiskSteps' = DiskSteps /\ disk' = disk
    BY <1>6 DEF vars, View, Current, ViewSteps, DiskSteps, Executed, Program, Steps
  <2> QED
    BY <2>1 DEF NamesInv
<1>7. CASE TransitionStep /\ Panic
  <2>1. Discard /\ UNCHANGED <<disk, done>>
    BY <1>1, <1>7, StepPerforms DEF Panic
  <2> QED
    BY <1>2, <2>1
<1>8. CASE Abandon \/ \E gap \in BlockTimes : BeginBlock(gap)
  <2>1. Discard /\ UNCHANGED <<disk, done>>
    BY <1>8 DEF Abandon, BeginBlock
  <2> QED
    BY <1>2, <2>1
<1> QED
  BY <1>3, <1>4, <1>5, <1>6, <1>7, <1>8 DEF Next, TransitionStep

\* The chain goes back to the block below, from memory or from the database.
LEMMA GoingBack ==
  ASSUME UnwindInv, NEW b \in below,
         head' = b.head, done' = b.done, below' = {},
         \/ disk' = b.disk /\ zeroed' = zeroed
         \/ disk' = Reverted(b) /\ zeroed' = zeroed \cup (done \ b.done),
         UNCHANGED <<activation, block>>, status' = "idle", Discard,
         faults' \in 0 .. MaxFaults
  PROVE  UnwindInv'
<1>1. TypeOK /\ BelowInv
  BY DEF UnwindInv, MigrationInv
<1>2. /\ b.done \subseteq Forks /\ b.head \in Nat /\ b.head <= block
      /\ \A f \in b.done : IsActive(activation[f], b.head)
      /\ DiskSteps' = StepsOfAll(b.done)
  BY <1>1 DEF BelowInv, TypeOK, DiskSteps
<1>3. Upgraded(disk', StepsOfAll(b.done))
  BY <1>1, RevertedUpgraded DEF BelowInv
<1>4. disk' \in [Address -> Account]
  BY <1>3 DEF Upgraded
<1>5. TypeOK'
  BY <1>1, <1>2, <1>4 DEF TypeOK, Discard
<1>6. View' = disk' /\ ViewSteps' = DiskSteps' /\ Resting'
  BY <1>4, DiscardLeavesTheDisk
<1>7. MigrationInv'
  BY <1>2, <1>3, <1>5, <1>6 DEF MigrationInv, DoneAreActive
<1>8. SpacedBlocks => NamesKept(disk', StepsOfAll(b.done), zeroed')
  BY <1>1, RevertedNamesKept DEF BelowInv
<1> QED
  BY <1>2, <1>6, <1>7, <1>8 DEF UnwindInv, BelowInv, NamesInv

\* The first state satisfies the invariant.
LEMMA UnwindInitial == UnwindInit => UnwindInv
<1> SUFFICES ASSUME UnwindInit PROVE UnwindInv
  OBVIOUS
<1>1. MigrationInv
  BY MigrationInit DEF UnwindInit
<1>2. disk = [a \in Address |-> GenesisAccount(a)] /\ zeroed = {} /\ below = {}
  BY DEF UnwindInit, Init
<1>3. DiskSteps = {} /\ ViewSteps = {}
  <2>1. (1 .. pc - 1) \cap DOMAIN Program = {}
    BY DEF UnwindInit, Init
  <2> QED
    BY <2>1 DEF UnwindInit, Init, DiskSteps, ViewSteps, StepsOfAll, Executed
<1>4. View = disk
  BY <1>1, CurrentAccounts DEF MigrationInv, UnwindInit, Init
<1> QED
  BY <1>1, <1>2, <1>3, <1>4, GenesisNamesKept DEF UnwindInv, BelowInv, NamesInv

\* A sealed block is the new head, above a block that satisfies the invariant.
LEMMA SealInMemoryKeeps ==
  ASSUME UnwindInv, SealInMemory
  PROVE  UnwindInv'
<1> DEFINE b == [disk |-> disk, head |-> head, done |-> done,
                 overwritten |-> [a \in Address |-> Overwritten(a)]]
<1>1. TypeOK /\ MigrationInv /\ Seal /\ zeroed' = zeroed /\ below' = {b}
  BY DEF UnwindInv, MigrationInv, SealInMemory
<1>2. MigrationInv' /\ (SpacedBlocks => NamesInv')
  BY <1>1, MigrationNext, NamesNext DEF UnwindInv, Next
<1>3. /\ activation' = activation /\ head' = block /\ done' = done \cup Activating
      /\ status = "executing"
  BY <1>1, SealEffect
<1>4. SpacedBlocks => Activating \cap done = {}
  BY <1>1, <1>3, ActiveForksDoNotActivate DEF MigrationInv, DoneAreActive, TypeOK
<1>5. SpacedBlocks =>
        \A a \in Address : \A w \in b.overwritten[a] :
          \E f \in done' \ b.done : \E s \in StepsOf(f) : Writes(s, a, w)
  BY <1>1, <1>3, <1>4, OverwrittenByTheBlock
<1>6. /\ b.done = done /\ b.head = head /\ b.disk = disk
  OBVIOUS
<1> HIDE DEF b
<1>7. /\ b.done \subseteq done' /\ b.head \in Nat /\ b.head <= head'
      /\ \A f \in b.done : IsActive(activation'[f], b.head)
      /\ Upgraded(b.disk, StepsOfAll(b.done))
      /\ SpacedBlocks => NamesKept(b.disk, StepsOfAll(b.done), zeroed')
  BY <1>1, <1>3, <1>6 DEF UnwindInv, MigrationInv, TypeOK, DoneAreActive, DiskSteps, NamesInv
<1>8. BelowInv'
  BY <1>1, <1>5, <1>7 DEF BelowInv
<1> QED
  BY <1>2, <1>8 DEF UnwindInv

\* A step of the execution, which has nothing to do with the blocks below.
LEMMA ExecutionKeeps ==
  ASSUME UnwindInv, [Next]_vars, UNCHANGED <<activation, head, done, below, zeroed>>
  PROVE  UnwindInv'
<1>1. MigrationInv' /\ (SpacedBlocks => NamesInv')
  BY MigrationNext, NamesNext DEF UnwindInv
<1>2. BelowInv'
  BY DEF UnwindInv, BelowInv
<1> QED
  BY <1>1, <1>2 DEF UnwindInv

\* The ways to restart without losing a block.
LEMMA StartingAgain ==
  ASSUME UnwindInv, UNCHANGED <<activation, disk, head, done, block, below, zeroed>>,
         status' = "idle", Discard, faults' \in 0 .. MaxFaults
  PROVE  UnwindInv'
<1>1. disk' \in [Address -> Account] /\ DiskSteps' = DiskSteps
  BY DEF UnwindInv, MigrationInv, TypeOK, DiskSteps
<1>2. View' = disk' /\ ViewSteps' = DiskSteps' /\ Resting'
  BY <1>1, DiscardLeavesTheDisk
<1>3. TypeOK'
  BY DEF UnwindInv, MigrationInv, TypeOK, Discard
<1>4. MigrationInv'
  BY <1>1, <1>2, <1>3 DEF UnwindInv, MigrationInv, DoneAreActive
<1>5. BelowInv'
  BY DEF UnwindInv, BelowInv
<1>6. SpacedBlocks => NamesInv'
  BY <1>1, <1>2 DEF UnwindInv, NamesInv
<1> QED
  BY <1>4, <1>5, <1>6 DEF UnwindInv

\* The steps of UnwindNext: of the execution, a seal, a restart that loses
\* nothing, or the loss of the head block.
Continues == /\ [Next]_vars
             /\ UNCHANGED <<activation, head, done, below, zeroed>>

\* A process that is gone starts from the disk, or the block is executed again.
Restarts == /\ UNCHANGED <<activation, disk, head, done, block, below, zeroed>>
            /\ status' = "idle" /\ Discard /\ faults' \in 0 .. MaxFaults

\* The head block is lost: without a trace, or by its reverts.
Loses(b) ==
  /\ b \in below
  /\ \/ disk' = b.disk /\ zeroed' = zeroed
     \/ disk' = Reverted(b) /\ zeroed' = zeroed \cup (done \ b.done)
  /\ head' = b.head /\ done' = b.done /\ below' = {}
  /\ UNCHANGED <<activation, block>> /\ status' = "idle" /\ Discard
  /\ faults' \in 0 .. MaxFaults

\* Every step is of one of those kinds.
LEMMA UnwindSteps ==
  ASSUME UnwindInv, [UnwindNext]_allVars
  PROVE  Continues \/ SealInMemory \/ Restarts \/ \E b \in below : Loses(b)
<1>1. TypeOK /\ Resting /\ faults \in 0 .. MaxFaults /\ MaxFaults \in Nat
  BY FraxMigrationAssumption DEF UnwindInv, MigrationInv, TypeOK
<1>2. CASE ExecutionStep
  <2>1. Next
    BY <1>2 DEF ExecutionStep, Next
  <2>2. UNCHANGED <<activation, head, done, below, zeroed>>
    BY <1>2 DEF ExecutionStep, unwindVars, BeginBlock, DeployCreate2, MigrateToProxy,
                ChangeByteCode, ChangeStorage, Step
  <2> QED
    BY <2>1, <2>2 DEF Continues
<1>3. CASE Abandon /\ UNCHANGED unwindVars
  BY <1>3 DEF unwindVars, Continues, Next, Abandon
<1>4. CASE Transact(FRAX_ADDR) /\ UNCHANGED unwindVars
  BY <1>4 DEF unwindVars, Continues, Next, Transact
<1>5. CASE Persist
  BY <1>5 DEF Persist, Continues, vars
<1>6. CASE UNCHANGED allVars
  <2>1. UNCHANGED vars /\ UNCHANGED unwindVars
    BY <1>6 DEF allVars
  <2>2. /\ UNCHANGED <<activation, head, done, status>> /\ UNCHANGED <<below, zeroed>>
    BY <2>1 DEF vars, unwindVars
  <2> QED
    BY <2>1, <2>2 DEF Continues
<1>7. CASE Unwind
  <2>1. PICK b \in below : /\ BackTo(b, IF persisted THEN Reverted(b) ELSE b.disk)
                          /\ zeroed' = IF persisted THEN zeroed \cup (done \ b.done) ELSE zeroed
    BY <1>7 DEF Unwind
  <2>2. Discard /\ status' = "idle" /\ UNCHANGED <<activation, block>> /\ faults' \in 0 .. MaxFaults
    BY <1>1, <1>7 DEF Unwind, Resting, Discard
  <2>3. Loses(b)
    BY <2>1, <2>2 DEF Loses, BackTo
  <2> QED
    BY <2>3
<1>8. CASE Crash
  <2>1. /\ Discard /\ status' = "idle" /\ UNCHANGED <<activation, block, zeroed>>
        /\ faults' \in 0 .. MaxFaults /\ LoseMemory
    BY <1>1, <1>8 DEF Crash
  <2> QED
    BY <2>1 DEF LoseMemory, BackTo, Restarts, Loses
<1>9. CASE RestartFromDisk
  <2>1. /\ Discard /\ status' = "idle" /\ UNCHANGED <<activation, block, zeroed>>
        /\ faults' \in 0 .. MaxFaults /\ LoseMemory
    BY <1>1, <1>9 DEF RestartFromDisk, Resting, Discard
  <2> QED
    BY <2>1 DEF LoseMemory, BackTo, Restarts, Loses
<1> QED
  BY <1>2, <1>3, <1>4, <1>5, <1>6, <1>7, <1>8, <1>9 DEF UnwindNext, UnwindProgress

\* Every step keeps the invariant.
LEMMA UnwindKeeps == UnwindInv /\ [UnwindNext]_allVars => UnwindInv'
<1> SUFFICES ASSUME UnwindInv, [UnwindNext]_allVars PROVE UnwindInv'
  OBVIOUS
<1>1. CASE Continues
  BY <1>1, ExecutionKeeps DEF Continues
<1>2. CASE SealInMemory
  BY <1>2, SealInMemoryKeeps
<1>3. CASE Restarts
  BY <1>3, StartingAgain DEF Restarts
<1>4. CASE \E b \in below : Loses(b)
  <2>1. PICK b \in below : Loses(b)
    BY <1>4
  <2>2. /\ head' = b.head /\ done' = b.done /\ below' = {}
        /\ \/ disk' = b.disk /\ zeroed' = zeroed
           \/ disk' = Reverted(b) /\ zeroed' = zeroed \cup (done \ b.done)
        /\ UNCHANGED <<activation, block>> /\ status' = "idle" /\ Discard
        /\ faults' \in 0 .. MaxFaults
    BY <2>1 DEF Loses
  <2> QED
    BY <2>2, GoingBack
<1> QED
  BY <1>1, <1>2, <1>3, <1>4, UnwindSteps

\* The invariant holds.
LEMMA UnwindInvariant == UnwindSpec => []UnwindInv
BY UnwindInitial, UnwindKeeps, PTL DEF UnwindSpec

\* The variables keep their types under reorganisations and crashes.
THEOREM UnwindTypeCorrect == UnwindSpec => []TypeOK
<1>1. UnwindInv => TypeOK
  BY DEF UnwindInv, MigrationInv
<1> QED
  BY <1>1, UnwindInvariant, PTL

\* The disk has every proxy of a fork on the chain and none of a fork that is not,
\* also after the block of the fork was lost, from memory or from the database.
THEOREM UnwindAllOrNothing == UnwindSpec => []AllOrNothing
<1>1. UnwindInv => AllOrNothing
  BY MigrationIsAllOrNothing DEF UnwindInv
<1> QED
  BY <1>1, UnwindInvariant, PTL

\* The block below the head too has the migrations of all forks it had crossed.
BelowHeadInv == HeadInv /\ \A b \in below : b.done = CrossedAt(b.head)

LEMMA HeadMoves ==
  ASSUME PromptBlocks, UnwindInv, BelowHeadInv, [UnwindNext]_allVars
  PROVE  BelowHeadInv'
<1> USE DEF BelowHeadInv
<1>1. MigrationInv
  BY DEF UnwindInv
<1>2. CASE Continues
  <2>1. HeadInv'
    BY <1>1, <1>2, HeadStep DEF Continues
  <2> QED
    BY <1>2, <2>1 DEF Continues, CrossedAt
<1>3. CASE SealInMemory
  <2>1. HeadInv'
    BY <1>1, <1>3, HeadStep DEF SealInMemory, Next
  <2>2. UNCHANGED activation
    BY <1>3 DEF SealInMemory, Seal
  <2>3. \A b \in below' : b.done = done /\ b.head = head
    BY <1>3 DEF SealInMemory
  <2> QED
    BY <2>1, <2>2, <2>3 DEF HeadInv, CrossedAt
<1>4. CASE Restarts
  BY <1>4 DEF Restarts, HeadInv, CrossedAt
<1>5. CASE \E b \in below : Loses(b)
  <2>1. PICK b \in below : Loses(b)
    BY <1>5
  <2> QED
    BY <2>1 DEF Loses, HeadInv, CrossedAt
<1> QED
  BY <1>2, <1>3, <1>4, <1>5, UnwindSteps

\* The same on a chain that loses blocks: the state that is left has the proxies of
\* the forks that its own head has crossed, and a migration that was taken back is
\* made again.
THEOREM UnwindFollowsHead ==
  ASSUME PromptBlocks
  PROVE  UnwindSpec => []ProxiesFollowHead
<1>1. UnwindInit => BelowHeadInv
  BY HeadInit DEF UnwindInit, BelowHeadInv
<1>2. UnwindInv /\ BelowHeadInv /\ [UnwindNext]_allVars => BelowHeadInv'
  BY HeadMoves
<1>3. UnwindInv /\ BelowHeadInv => ProxiesFollowHead
  BY CrossedAreProxies DEF UnwindInv, BelowHeadInv
<1> QED
  BY <1>1, <1>2, <1>3, UnwindInvariant, PTL DEF UnwindSpec

\* Every proxy has its admin and its implementation, also when a fork was unwound from
\* the database and executed again over the words that its reverts left.
THEOREM UnwindLeavesSoundProxies ==
  ASSUME SpacedBlocks
  PROVE  UnwindSpec => []ProxiesAreSound
<1>1. UnwindInv => ProxiesAreSound
  BY MigrationProxiesAreSound DEF UnwindInv
<1> QED
  BY <1>1, UnwindInvariant, PTL

\* No transition changes a holder's word of a contract, on a chain that loses blocks.
THEOREM UnwindLeavesHolders == UnwindSpec => HoldersUntouched
<1>1. ASSUME UnwindInv, [UnwindNext]_allVars, Migrating, pc' = pc + 1, NEW c \in Deployed
      PROVE  Current(c)'.slots["holders"] = Current(c).slots["holders"]
  <2>1. pc \in Nat \ {0} /\ Resting /\ MigrationInv
    <3>1. MigrationInv
      BY <1>1 DEF UnwindInv
    <3>2. pc \in Nat \ {0} /\ Resting
      BY <3>1 DEF MigrationInv, TypeOK
    <3> QED
      BY <3>1, <3>2
  <2>2. pc' # 1
    BY <1>1, <2>1
  <2>3. [Next]_vars
    BY <1>1, <2>2, UnwindSteps
    DEF Continues, Restarts, Loses, Discard, SealInMemory, Next
  <2> QED
    BY <1>1, <2>1, <2>3, StepLeavesHolders
<1>2. UnwindInv /\ [UnwindNext]_allVars =>
        [Migrating /\ pc' = pc + 1 =>
           \A c \in Deployed :
             Current(c)'.slots["holders"] = Current(c).slots["holders"]]_vars
  BY <1>1
<1> QED
  BY <1>2, UnwindInvariant, PTL DEF UnwindSpec, HoldersUntouched

\* The invariant implies that the names are those of the forks on the chain.
LEMMA UnwindKeepsNames == UnwindInv /\ SpacedBlocks => NamesFollowForks
<1> SUFFICES ASSUME UnwindInv, SpacedBlocks, NEW c \in Deployed, NEW w \in {"name", "symbol"}
             PROVE  IF UNION {WordsOf(f, c, w) : f \in done} # {}
                    THEN disk[c].slots[w] \in UNION {WordsOf(f, c, w) : f \in done}
                    ELSE \/ disk[c].slots[w] = <<"old", 1>>
                         \/ disk[c].slots[w] = Zero /\ {f \in zeroed : WordsOf(f, c, w) # {}} # {}
  BY DEF NamesFollowForks
<1> DEFINE given == UNION {WordsOf(f, c, w) : f \in done}
           word == disk[c].slots[w]
<1>1. \/ \E s \in DiskSteps : Writes(s, c, w) /\ word = WordOf(s, w)
      \/ /\ \A s \in DiskSteps : ~Writes(s, c, w)
         /\ \/ word = <<"old", 1>>
            \/ word = Zero /\ \E f \in zeroed : \E s \in StepsOf(f) : Writes(s, c, w)
  BY DEF UnwindInv, NamesInv, NamesKept
<1>2. \A f : WordsOf(f, c, w) = {WordOf(s, w) : s \in {s \in StepsOf(f) : Writes(s, c, w)}}
  BY WordsOfSteps
<1> HIDE DEF word
<1>3. \A x : x \in given <=> \E s \in DiskSteps : Writes(s, c, w) /\ x = WordOf(s, w)
  BY <1>2 DEF DiskSteps, StepsOfAll
<1>4. \A f : (\E s \in StepsOf(f) : Writes(s, c, w)) => WordsOf(f, c, w) # {}
  BY <1>2
<1> HIDE DEF given
<1>5. IF given # {} THEN word \in given
      ELSE word = <<"old", 1>> \/ (word = Zero /\ {f \in zeroed : WordsOf(f, c, w) # {}} # {})
  <2>1. CASE \E s \in DiskSteps : Writes(s, c, w) /\ word = WordOf(s, w)
    BY <1>3, <2>1
  <2>2. CASE /\ \A s \in DiskSteps : ~Writes(s, c, w)
             /\ \/ word = <<"old", 1>>
                \/ word = Zero /\ \E f \in zeroed : \E s \in StepsOf(f) : Writes(s, c, w)
    <3>1. given = {}
      BY <1>3, <2>2
    <3> QED
      BY <1>4, <2>2, <3>1
  <2> QED
    BY <1>1, <2>1, <2>2
<1> QED
  BY <1>5 DEF given, word

\* A contract has the names that the forks on the chain gave it, or its own, or a zero
\* that a fork unwound from the database has left: the recorded original of zero
\* clears the names of that fork alone.
THEOREM UnwindNamesFollowForks ==
  ASSUME SpacedBlocks
  PROVE  UnwindSpec => []NamesFollowForks
<1>1. UnwindInv => NamesFollowForks
  BY UnwindKeepsNames
<1> QED
  BY <1>1, UnwindInvariant, PTL

\* The loss of a block is a revert of the abstract specification, a seal is one of its
\* upgrades, and the rest is a stutter.
LEMMA UnwindRefinesNext ==
  ASSUME SpacedBlocks
  PROVE  UnwindInv /\ CallersSeeDone /\ CallersSeeDone' /\ [UnwindNext]_allVars
           => [Promise!Next \/ \E forks \in SUBSET done :
                                forks # {} /\ Promise!Revert(forks)]_Promise!vars
<1> SUFFICES ASSUME UnwindInv, CallersSeeDone, CallersSeeDone', [UnwindNext]_allVars
             PROVE  [Promise!Next \/ \E forks \in SUBSET done :
                                forks # {} /\ Promise!Revert(forks)]_Promise!vars
  OBVIOUS
<1> DEFINE callers == [c \in Deployed |->
                         [original    |-> Logic(c).base = c,
                          patches     |-> Logic(c).patches,
                          upgradeable |-> IsProxy(c)]]
<1>1. callers = Promise!After(done) /\ callers' = Promise!After(done')
  BY DEF CallersSeeDone
<1>2. CASE [Next]_vars
  BY <1>2, MigrationRefinesNext DEF UnwindInv
<1>3. CASE done' = done
  BY <1>1, <1>3 DEF Promise!vars
<1>4. CASE done' # done /\ \E b \in below : Loses(b)
  <2>1. PICK b \in below : Loses(b)
    BY <1>4
  <2>2. done' = b.done /\ b.done \subseteq done
    BY <2>1 DEF Loses, UnwindInv, BelowInv
  <2> DEFINE forks == done \ b.done
  <2>3. forks \in SUBSET done /\ forks # {} /\ done' = done \ forks
    BY <1>4, <2>2
  <2> HIDE DEF forks
  <2>4. callers' = Promise!After(done \ forks)
    BY <1>1, <2>3
  <2>5. \E lost \in SUBSET done : lost # {} /\ Promise!Revert(lost)
    BY <2>3, <2>4 DEF Promise!Revert, Promise!After
  <2> QED
    BY <2>5
<1> QED
  BY <1>2, <1>3, <1>4, UnwindSteps DEF Continues, SealInMemory, Restarts, Next

\* Whatever blocks the chain loses, in memory or from the database, the callers see
\* the migrations of exactly the blocks that are left.
THEOREM UnwindKeepsPromise ==
  ASSUME SpacedBlocks, CodeFaults = FALSE
  PROVE  UnwindSpec => KeepsPromiseAcrossReverts
<1>1. UnwindInv => CallersSeeDone
  BY MigrationIsSeen DEF UnwindInv
<1>2. CallersSeeDone /\ UnwindInit => Promise!Init
  BY MigrationRefinesInit DEF UnwindInit
<1>3. UnwindInv /\ CallersSeeDone /\ CallersSeeDone' /\ [UnwindNext]_allVars
        => [Promise!Next \/ \E forks \in SUBSET done :
                             forks # {} /\ Promise!Revert(forks)]_Promise!vars
  BY UnwindRefinesNext
<1> QED
  BY <1>1, <1>2, <1>3, UnwindInvariant, PTL
  DEF UnwindSpec, KeepsPromiseAcrossReverts, Promise!SpecWithReverts

=============================================================================
