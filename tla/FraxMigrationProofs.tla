------------------------ MODULE FraxMigrationProofs ------------------------
(***************************************************************************)
(* Proofs about FraxMigration.  All the steps of all the tables are put in *)
(* one order, so that no two of them work on the same words; what a step   *)
(* of the executor does is then an effect on all the accounts that the     *)
(* block sees.  The invariant says of the disk that it is the outcome of   *)
(* the steps of the forks that are done, and of what the block sees that   *)
(* it is the outcome of these and of the steps it has executed.            *)
(***************************************************************************)
EXTENDS FraxMigration, SequenceTheorems, TLAPS

----------------------------------------------------------------------------
\* The steps of a fork, and of all forks.
StepsOf(fork) == {Transitions[fork][i] : i \in DOMAIN Transitions[fork]}

AllSteps == UNION {StepsOf(f) : f \in Forks}

\* The contracts that some fork turns into proxies, on some chain.
ProxiedSomewhere ==
  {FRAX_ADDR, SFRAX_ADDR, <<"fc0000", 2>>, <<"fc0000", 3>>, <<"fc0000", 7>>,
   <<"aca9a3", 9>>, <<"f75063", 6>>}

\* What the steps of each kind have in common.
IsProxyStep(s) ==
  /\ s.op = "proxy"
  /\ s.account \in ProxiedSomewhere
  /\ s.implementation = ImplementationOf(s.account)
  /\ s.patches \subseteq Patches \ {Naming}
  /\ s.writes \in [DOMAIN s.writes -> Word]
  /\ {"admin", "implementation"} \subseteq DOMAIN s.writes
  /\ DOMAIN s.writes \subseteq {"admin", "implementation", "name", "symbol"}
  /\ s.writes["admin"] = PROXY_ADDR
  /\ s.writes["implementation"] = s.implementation

\* The steps of the other kinds: a deployment, a patched code, a word of storage.
IsOtherStep(s) ==
  \/ s = [op |-> "deploy", account |-> CREATE_2_DEPLOYER_ADDR]
  \/ s.op = "code" /\ s.account = <<"63eb78", 4>> /\ s.patch = Naming
  \/ /\ s.op = "storage" /\ s.account = <<"98a6c3", 5>>
     /\ s.slot \in {"name", "symbol"} /\ s.word \in Word

\* The order of all the steps, by their accounts; only one has two, told apart
\* by the slot.
Order ==
  << CREATE_2_DEPLOYER_ADDR, FRAX_ADDR, SFRAX_ADDR, <<"fc0000", 2>>, <<"fc0000", 3>>,
     <<"fc0000", 7>>, <<"aca9a3", 9>>, <<"63eb78", 4>>, <<"98a6c3", 5>>, <<"98a6c3", 5>>,
     <<"f75063", 6>> >>

\* A step at its place of the order.
HasPlace(s, place) ==
  /\ s.account = Order[place]
  /\ place = 9  => s.op = "storage" /\ s.slot = "name"
  /\ place = 10 => s.op = "storage" /\ s.slot = "symbol"

\* A table of steps, in the places after a given one.
InPlace(table, before) ==
  /\ \E S : table \in Seq(S)
  /\ \A i \in 1 .. Len(table) :
       /\ IsProxyStep(table[i]) \/ IsOtherStep(table[i])
       /\ HasPlace(table[i], before + i)

\* The account at each place of the order.
LEMMA OrderedAccounts ==
  /\ Order[1] = CREATE_2_DEPLOYER_ADDR /\ Order[2] = FRAX_ADDR /\ Order[3] = SFRAX_ADDR
  /\ Order[4] = <<"fc0000", 2>> /\ Order[5] = <<"fc0000", 3>>
  /\ Order[6] = <<"fc0000", 7>> /\ Order[7] = <<"aca9a3", 9>>
  /\ Order[8] = <<"63eb78", 4>> /\ Order[9] = <<"98a6c3", 5>>
  /\ Order[10] = <<"98a6c3", 5>> /\ Order[11] = <<"f75063", 6>>
BY DEF Order

\* An account, with the slot when both steps write one, has one place.
LEMMA PlacesAreUnique ==
  ASSUME NEW p \in 1 .. 11, NEW q \in 1 .. 11,
         NEW s, HasPlace(s, p), NEW t, HasPlace(t, q),
         s.account = t.account,
         s.op = "storage" /\ t.op = "storage" => s.slot = t.slot
  PROVE  p = q
<1>1. Order[p] = Order[q]
  BY DEF HasPlace
<1>2. \A i, j \in 1 .. 11 : Order[i] = Order[j] => i = j \/ (i \in {9, 10} /\ j \in {9, 10})
  BY OrderedAccounts DEF CREATE_2_DEPLOYER_ADDR, FRAX_ADDR, SFRAX_ADDR
<1>3. "name" # "symbol"
  OBVIOUS
<1> QED
  BY <1>1, <1>2, <1>3 DEF HasPlace

\* The forks that have a table.
LEMMA ForkNames == Forks = {"canyon", "granite", "holocene", "isthmus"}
BY DEF Forks, Transitions

\* The table of each fork.
LEMMA TransitionOf ==
  /\ Transitions["canyon"] = Canyon /\ Transitions["granite"] = Granite
  /\ Transitions["holocene"] = Holocene /\ Transitions["isthmus"] = Isthmus
BY DEF Transitions

\* A token of a table becomes a proxy of the implementation made from its own
\* address.
LEMMA MoveToProxyIsProxyStep ==
  ASSUME NEW account \in ProxiedSomewhere
  PROVE  /\ IsProxyStep(MoveToProxy(account))
         /\ MoveToProxy(account).account = account
<1> DEFINE s == MoveToProxy(account)
<1>1. /\ s.op = "proxy" /\ s.account = account /\ s.patches = {}
      /\ s.implementation = ImplementationOf(account)
  BY DEF MoveToProxy, ProxyStep
<1>2. s.writes = [w \in {"admin", "implementation"} |->
                    CASE w = "admin" -> PROXY_ADDR
                      [] w = "implementation" -> ImplementationOf(account)
                      [] OTHER -> << >>[w]]
  BY DEF MoveToProxy, ProxyStep
<1>3. ImplementationOf(account) \in Word /\ PROXY_ADDR \in Word
  BY DEF ImplementationOf, Word, Address, PROXY_ADDR, ProxiedSomewhere, FRAX_ADDR, SFRAX_ADDR
<1> HIDE DEF s
<1>4. IsProxyStep(s)
  BY <1>1, <1>2, <1>3 DEF IsProxyStep
<1> QED
  BY <1>1, <1>4 DEF s

\* So do FRAX and sFRAX, which are renamed at the same time.
LEMMA RenamingIsProxyStep ==
  ASSUME NEW account \in {FRAX_ADDR, SFRAX_ADDR},
         NEW patches \in SUBSET (Patches \ {Naming}), NEW id \in Nat
  PROVE  LET s == ProxyStep(account, ImplementationOf(account), patches, Renamed(id))
         IN IsProxyStep(s) /\ s.account = account
<1> DEFINE s == ProxyStep(account, ImplementationOf(account), patches, Renamed(id))
<1>1. /\ s.op = "proxy" /\ s.account = account /\ s.patches = patches
      /\ s.implementation = ImplementationOf(account)
  BY DEF ProxyStep
<1>2. s.writes = [w \in {"admin", "implementation", "name", "symbol"} |->
                    CASE w = "admin" -> PROXY_ADDR
                      [] w = "implementation" -> ImplementationOf(account)
                      [] OTHER -> <<w, id>>]
  BY DEF ProxyStep, Renamed
<1>3. ImplementationOf(account) \in Word /\ PROXY_ADDR \in Word
  BY DEF ImplementationOf, Word, Address, PROXY_ADDR, FRAX_ADDR, SFRAX_ADDR
<1>4. \A w \in {"name", "symbol"} : <<w, id>> \in Word
  BY DEF Word
<1> HIDE DEF s
<1>5. IsProxyStep(s)
  BY <1>1, <1>2, <1>3, <1>4 DEF IsProxyStep, ProxiedSomewhere
<1> QED
  BY <1>1, <1>5 DEF s

\* The table of Canyon is the first place.
LEMMA CanyonInPlace == InPlace(Canyon, 0) /\ Len(Canyon) = 1
<1>1. /\ Canyon \in Seq({Canyon[1]}) /\ Len(Canyon) = 1
      /\ Canyon[1] = [op |-> "deploy", account |-> CREATE_2_DEPLOYER_ADDR]
  BY DEF Canyon
<1>2. \E S : Canyon \in Seq(S)
  BY <1>1
<1>3. HasPlace(Canyon[1], 1) /\ IsOtherStep(Canyon[1])
  BY <1>1, OrderedAccounts DEF HasPlace, IsOtherStep
<1>4. \A i \in 1 .. Len(Canyon) : i = 1 /\ 0 + i = 1
  BY <1>1
<1> QED
  BY <1>1, <1>2, <1>3, <1>4 DEF InPlace

\* The table of Granite is in the next two, on any chain.
LEMMA GraniteInPlace == InPlace(Granite, 1) /\ Len(Granite) <= 2
<1> DEFINE frax(end) == ProxyStep(FRAX_ADDR, FRAX_IMPL_ADDR, {FRXUSD_L1(end)}, Renamed(1))
           sfrax(end) == ProxyStep(SFRAX_ADDR, SFRAX_IMPL_ADDR, {SFRXUSD_L1(end)}, Renamed(8))
<1>1. /\ FRAX_IMPL_ADDR = ImplementationOf(FRAX_ADDR)
      /\ SFRAX_IMPL_ADDR = ImplementationOf(SFRAX_ADDR)
  BY DEF FRAX_IMPL_ADDR, SFRAX_IMPL_ADDR, ImplementationOf, FRAX_ADDR, SFRAX_ADDR
<1>2. /\ \A end \in {7238, 7350, 1323} : FRXUSD_L1(end) \in Patches \ {Naming}
      /\ \A end \in {7238, 1323} : SFRXUSD_L1(end) \in Patches \ {Naming}
  <2>1. Naming.end = 23761 + 64
    BY DEF Naming
  <2>2. \A end \in {7238, 7350, 1323} : FRXUSD_L1(end).end = end /\ SFRXUSD_L1(end).end = end
    BY DEF FRXUSD_L1, SFRXUSD_L1
  <2>3. \A end \in {7238, 7350, 1323} : FRXUSD_L1(end) # Naming /\ SFRXUSD_L1(end) # Naming
    BY <2>1, <2>2
  <2> QED
    BY <2>3 DEF Patches
<1>3. ASSUME NEW s, s.account \in {FRAX_ADDR, SFRAX_ADDR}
      PROVE  HasPlace(s, IF s.account = FRAX_ADDR THEN 2 ELSE 3)
  BY <1>3, OrderedAccounts DEF HasPlace
<1>4. FRAX_ADDR # SFRAX_ADDR
  BY DEF FRAX_ADDR, SFRAX_ADDR
<1>5. ASSUME NEW end \in {7238, 7350, 1323}
      PROVE  IsProxyStep(frax(end)) /\ HasPlace(frax(end), 2)
  BY <1>1, <1>2, <1>3, RenamingIsProxyStep
<1>6. ASSUME NEW end \in {7238, 1323}
      PROVE  IsProxyStep(sfrax(end)) /\ HasPlace(sfrax(end), 3)
  BY <1>1, <1>2, <1>3, <1>4, RenamingIsProxyStep
<1>7. ChainId = 2521 => Granite = << frax(1323), sfrax(1323) >>
  BY DEF Granite
<1>8. ChainId = 2522 => Granite = << frax(7350) >>
  BY DEF Granite
<1>9. ChainId # 2521 /\ ChainId # 2522 => Granite = << frax(7238), sfrax(7238) >>
  BY DEF Granite
<1> HIDE DEF frax, sfrax
<1>10. ASSUME NEW end \in {7238, 1323}, Granite = << frax(end), sfrax(end) >>
       PROVE  InPlace(Granite, 1) /\ Len(Granite) <= 2
  <2>1. Granite \in Seq({frax(end), sfrax(end)}) /\ Len(Granite) = 2
    BY <1>10
  <2>2. \A i \in 1 .. Len(Granite) : IsProxyStep(Granite[i]) /\ HasPlace(Granite[i], 1 + i)
    BY <1>5, <1>6, <1>10, <2>1
  <2>3. \E S : Granite \in Seq(S)
    BY <2>1
  <2> QED
    BY <2>1, <2>2, <2>3 DEF InPlace
<1>11. ASSUME Granite = << frax(7350) >>
       PROVE  InPlace(Granite, 1) /\ Len(Granite) <= 2
  <2>1. Granite \in Seq({frax(7350)}) /\ Len(Granite) = 1
    BY <1>11
  <2>2. \A i \in 1 .. Len(Granite) : IsProxyStep(Granite[i]) /\ HasPlace(Granite[i], 1 + i)
    BY <1>5, <1>11, <2>1
  <2>3. \E S : Granite \in Seq(S)
    BY <2>1
  <2> QED
    BY <2>1, <2>2, <2>3 DEF InPlace
<1> QED
  BY <1>7, <1>8, <1>9, <1>10, <1>11

\* Two tables one after the other.
LEMMA ConcatInPlace ==
  ASSUME NEW before \in Nat, NEW s, InPlace(s, before),
         NEW t, InPlace(t, before + Len(s))
  PROVE  InPlace(s \o t, before) /\ Len(s \o t) = Len(s) + Len(t)
<1>1. PICK S, T : s \in Seq(S) /\ t \in Seq(T)
  BY DEF InPlace
<1>2. s \in Seq(S \cup T) /\ t \in Seq(S \cup T)
  BY <1>1
<1>3. /\ s \o t \in Seq(S \cup T) /\ Len(s \o t) = Len(s) + Len(t)
      /\ Len(s) \in Nat /\ Len(t) \in Nat
      /\ \A i \in 1 .. Len(s) + Len(t) : (s \o t)[i] = IF i <= Len(s) THEN s[i] ELSE t[i - Len(s)]
  BY <1>2
<1>4. ASSUME NEW i \in 1 .. Len(s \o t)
      PROVE  /\ IsProxyStep((s \o t)[i]) \/ IsOtherStep((s \o t)[i])
             /\ HasPlace((s \o t)[i], before + i)
  <2>1. CASE i <= Len(s)
    BY <1>3, <2>1 DEF InPlace
  <2>2. CASE i > Len(s)
    <3> DEFINE j == i - Len(s)
    <3>1. j \in 1 .. Len(t) /\ before + Len(s) + j = before + i /\ (s \o t)[i] = t[j]
      BY <1>3, <2>2
    <3> HIDE DEF j
    <3> QED
      BY <3>1 DEF InPlace
  <2> QED
    BY <1>3, <2>1, <2>2
<1>5. \E R : s \o t \in Seq(R)
  BY <1>3
<1> QED
  BY <1>3, <1>4, <1>5 DEF InPlace

\* A list with one more step at its end.
LEMMA ConcatOne ==
  ASSUME NEW S, NEW s \in Seq(S), NEW t \in Seq(S), Len(t) = 1
  PROVE  /\ s \o t \in Seq(S) /\ Len(s \o t) = Len(s) + 1
         /\ \A i \in 1 .. Len(s) : (s \o t)[i] = s[i]
         /\ (s \o t)[Len(s) + 1] = t[1]
<1>1. /\ s \o t \in Seq(S) /\ Len(s \o t) = Len(s) + Len(t)
      /\ \A i \in 1 .. Len(s) + Len(t) :
           (s \o t)[i] = IF i <= Len(s) THEN s[i] ELSE t[i - Len(s)]
  BY ConcatProperties
<1>2. /\ Len(s) \in Nat
      /\ Len(s) + 1 \in 1 .. Len(s) + Len(t) /\ ~(Len(s) + 1 <= Len(s))
      /\ Len(s) + 1 - Len(s) = 1
  OBVIOUS
<1>3. ASSUME NEW i \in 1 .. Len(s) PROVE (s \o t)[i] = s[i]
  BY <1>1, <1>2
<1>4. (s \o t)[Len(s) + 1] = t[1]
  BY <1>1, <1>2
<1> QED
  BY <1>1, <1>3, <1>4

\* The token tables of the three networks follow the same order.
LEMMA TablesOfAccounts ==
  /\ TESTNET_TOKENS_ADDRESSES \in Seq(Address) /\ Len(TESTNET_TOKENS_ADDRESSES) = 2
  /\ DEVNET_TOKENS_ADDRESSES \in Seq(Address) /\ Len(DEVNET_TOKENS_ADDRESSES) = 3
  /\ MAINNET_TOKENS_ADDRESSES \in Seq(Address) /\ Len(MAINNET_TOKENS_ADDRESSES) = 4
  /\ \A i \in 1 .. 2 : TESTNET_TOKENS_ADDRESSES[i] = Order[3 + i]
  /\ \A i \in 1 .. 3 : DEVNET_TOKENS_ADDRESSES[i] = Order[3 + i]
  /\ \A i \in 1 .. 4 : MAINNET_TOKENS_ADDRESSES[i] = Order[3 + i]
<1>1. /\ TESTNET_TOKENS_ADDRESSES \in Seq(Address) /\ Len(TESTNET_TOKENS_ADDRESSES) = 2
      /\ \A i \in 1 .. 2 : TESTNET_TOKENS_ADDRESSES[i] = Order[3 + i]
  BY OrderedAccounts DEF TESTNET_TOKENS_ADDRESSES, Address
<1>2. /\ DEVNET_TOKENS_ADDRESSES \in Seq(Address) /\ Len(DEVNET_TOKENS_ADDRESSES) = 3
      /\ \A i \in 1 .. 3 : DEVNET_TOKENS_ADDRESSES[i] = Order[3 + i]
  <2> DEFINE more == << <<"fc0000", 7>> >>
  <2>1. more \in Seq(Address) /\ Len(more) = 1 /\ more[1] = Order[6]
    BY OrderedAccounts DEF Address
  <2>2. DEVNET_TOKENS_ADDRESSES = TESTNET_TOKENS_ADDRESSES \o more
    BY DEF DEVNET_TOKENS_ADDRESSES
  <2> HIDE DEF more
  <2>3. /\ TESTNET_TOKENS_ADDRESSES \o more \in Seq(Address)
        /\ Len(TESTNET_TOKENS_ADDRESSES \o more) = Len(TESTNET_TOKENS_ADDRESSES) + 1
        /\ \A i \in 1 .. Len(TESTNET_TOKENS_ADDRESSES) : (TESTNET_TOKENS_ADDRESSES \o more)[i] = TESTNET_TOKENS_ADDRESSES[i]
        /\ (TESTNET_TOKENS_ADDRESSES \o more)[Len(TESTNET_TOKENS_ADDRESSES) + 1] = more[1]
    BY <1>1, <2>1, ConcatOne
  <2>4. \A i \in 1 .. 3 : i \in 1 .. 2 \/ i = 2 + 1
    OBVIOUS
  <2> QED
    BY <1>1, <2>1, <2>2, <2>3, <2>4
<1>3. /\ MAINNET_TOKENS_ADDRESSES \in Seq(Address) /\ Len(MAINNET_TOKENS_ADDRESSES) = 4
      /\ \A i \in 1 .. 4 : MAINNET_TOKENS_ADDRESSES[i] = Order[3 + i]
  <2> DEFINE more == << <<"aca9a3", 9>> >>
  <2>1. more \in Seq(Address) /\ Len(more) = 1 /\ more[1] = Order[7]
    BY OrderedAccounts DEF Address
  <2>2. MAINNET_TOKENS_ADDRESSES = DEVNET_TOKENS_ADDRESSES \o more
    BY DEF MAINNET_TOKENS_ADDRESSES
  <2> HIDE DEF more
  <2>3. /\ DEVNET_TOKENS_ADDRESSES \o more \in Seq(Address)
        /\ Len(DEVNET_TOKENS_ADDRESSES \o more) = Len(DEVNET_TOKENS_ADDRESSES) + 1
        /\ \A i \in 1 .. Len(DEVNET_TOKENS_ADDRESSES) : (DEVNET_TOKENS_ADDRESSES \o more)[i] = DEVNET_TOKENS_ADDRESSES[i]
        /\ (DEVNET_TOKENS_ADDRESSES \o more)[Len(DEVNET_TOKENS_ADDRESSES) + 1] = more[1]
    BY <1>2, <2>1, ConcatOne
  <2>4. \A i \in 1 .. 4 : i \in 1 .. 3 \/ i = 3 + 1
    OBVIOUS
  <2> QED
    BY <1>2, <2>1, <2>2, <2>3, <2>4
<1> QED
  BY <1>1, <1>2, <1>3

\* The steps that turn the contracts of a table into proxies.
ProxiesOf(table) == [i \in DOMAIN table |-> MoveToProxy(table[i])]

\* A table of tokens that follows the order gives steps that follow it.
LEMMA ProxiesInPlace ==
  ASSUME NEW before \in Nat, NEW table \in Seq(Address),
         \A i \in 1 .. Len(table) : before + i \in {4, 5, 6, 7, 11} /\ table[i] = Order[before + i]
  PROVE  InPlace(ProxiesOf(table), before) /\ Len(ProxiesOf(table)) = Len(table)
<1> DEFINE proxies == ProxiesOf(table)
<1> USE DEF ProxiesOf
<1>1. ASSUME NEW p \in {4, 5, 6, 7, 11} PROVE Order[p] \in ProxiedSomewhere
  BY OrderedAccounts DEF ProxiedSomewhere
<1>2. ASSUME NEW p \in {4, 5, 6, 7, 11}
      PROVE  /\ IsProxyStep(MoveToProxy(Order[p]))
             /\ HasPlace(MoveToProxy(Order[p]), p)
  BY <1>1, MoveToProxyIsProxyStep DEF HasPlace
<1>3. /\ Len(table) \in Nat /\ DOMAIN table = 1 .. Len(table)
      /\ proxies \in [1 .. Len(table) -> {MoveToProxy(table[i]) : i \in DOMAIN table}]
  OBVIOUS
<1>4. /\ proxies \in Seq({MoveToProxy(table[i]) : i \in DOMAIN table})
      /\ Len(proxies) = Len(table)
  <2>1. proxies \in Seq({MoveToProxy(table[i]) : i \in DOMAIN table})
    BY <1>3, SeqDef
  <2>2. DOMAIN proxies = 1 .. Len(table)
    BY <1>3
  <2> QED
    BY <1>3, <2>1, <2>2, LenProperties
<1>5. ASSUME NEW i \in 1 .. Len(proxies)
      PROVE  IsProxyStep(proxies[i]) /\ HasPlace(proxies[i], before + i)
  BY <1>2, <1>3, <1>4
<1>6. \E S : proxies \in Seq(S)
  BY <1>4
<1> HIDE DEF proxies
<1>7. InPlace(proxies, before) /\ Len(proxies) = Len(table)
  BY <1>4, <1>5, <1>6 DEF InPlace
<1> QED
  BY <1>7 DEF proxies

\* The naming steps of the mainnet.
LEMMA NamingInPlace ==
  /\ InPlace(MAINNET_NAMING_BYTECODE_CHANGES, 7) /\ Len(MAINNET_NAMING_BYTECODE_CHANGES) = 1
  /\ InPlace(MAINNET_NAMING_STORAGE_CHANGES, 8) /\ Len(MAINNET_NAMING_STORAGE_CHANGES) = 2
<1>1. InPlace(MAINNET_NAMING_BYTECODE_CHANGES, 7) /\ Len(MAINNET_NAMING_BYTECODE_CHANGES) = 1
  <2> DEFINE table == MAINNET_NAMING_BYTECODE_CHANGES
  <2>1. /\ table \in Seq({table[1]}) /\ Len(table) = 1
        /\ IsOtherStep(table[1]) /\ HasPlace(table[1], 8)
    BY OrderedAccounts DEF MAINNET_NAMING_BYTECODE_CHANGES, IsOtherStep, HasPlace
  <2>2. \E S : table \in Seq(S)
    BY <2>1
  <2>3. \A i \in 1 .. Len(table) : i = 1 /\ 7 + i = 8
    BY <2>1
  <2> QED
    BY <2>1, <2>2, <2>3 DEF InPlace
<1>2. InPlace(MAINNET_NAMING_STORAGE_CHANGES, 8) /\ Len(MAINNET_NAMING_STORAGE_CHANGES) = 2
  <2> DEFINE table == MAINNET_NAMING_STORAGE_CHANGES
  <2>1. Zero \in Word /\ <<"name", 5>> \in Word
    BY DEF Zero, Word
  <2>2. /\ table \in Seq({table[1], table[2]}) /\ Len(table) = 2
        /\ IsOtherStep(table[1]) /\ HasPlace(table[1], 9)
        /\ IsOtherStep(table[2]) /\ HasPlace(table[2], 10)
    BY <2>1, OrderedAccounts DEF MAINNET_NAMING_STORAGE_CHANGES, IsOtherStep, HasPlace
  <2>3. \E S : table \in Seq(S)
    BY <2>2
  <2>4. \A i \in 1 .. Len(table) : (i = 1 /\ 8 + i = 9) \/ (i = 2 /\ 8 + i = 10)
    BY <2>2
  <2> QED
    BY <2>2, <2>3, <2>4 DEF InPlace
<1> QED
  BY <1>1, <1>2

\* The table of Holocene, which the chain id chooses, is in the places from 4 to
\* 10.
LEMMA HoloceneInPlace == InPlace(Holocene, 3) /\ Len(Holocene) \in {2, 3, 7}
<1>1. ChainId = 2521 => Holocene = ProxiesOf(DEVNET_TOKENS_ADDRESSES)
  BY DEF Holocene, ProxiesOf
<1>2. ChainId = 2522 => Holocene = ProxiesOf(TESTNET_TOKENS_ADDRESSES)
  BY DEF Holocene, ProxiesOf
<1>3. ChainId # 2521 /\ ChainId # 2522 =>
        Holocene = (ProxiesOf(MAINNET_TOKENS_ADDRESSES) \o MAINNET_NAMING_BYTECODE_CHANGES)
                      \o MAINNET_NAMING_STORAGE_CHANGES
  BY DEF Holocene, ProxiesOf
<1>4. \A n \in {2, 3, 4} : \A i \in 1 .. n : 3 + i \in {4, 5, 6, 7, 11}
  OBVIOUS
<1>5. /\ InPlace(ProxiesOf(DEVNET_TOKENS_ADDRESSES), 3)
      /\ Len(ProxiesOf(DEVNET_TOKENS_ADDRESSES)) = 3
  <2>1. \A i \in 1 .. Len(DEVNET_TOKENS_ADDRESSES) :
           /\ 3 + i \in {4, 5, 6, 7, 11}
           /\ DEVNET_TOKENS_ADDRESSES[i] = Order[3 + i]
    BY <1>4, TablesOfAccounts
  <2> QED
    BY <2>1, TablesOfAccounts, ProxiesInPlace
<1>6. /\ InPlace(ProxiesOf(TESTNET_TOKENS_ADDRESSES), 3)
      /\ Len(ProxiesOf(TESTNET_TOKENS_ADDRESSES)) = 2
  <2>1. \A i \in 1 .. Len(TESTNET_TOKENS_ADDRESSES) :
           /\ 3 + i \in {4, 5, 6, 7, 11}
           /\ TESTNET_TOKENS_ADDRESSES[i] = Order[3 + i]
    BY <1>4, TablesOfAccounts
  <2> QED
    BY <2>1, TablesOfAccounts, ProxiesInPlace
<1>7. /\ InPlace(ProxiesOf(MAINNET_TOKENS_ADDRESSES), 3)
      /\ Len(ProxiesOf(MAINNET_TOKENS_ADDRESSES)) = 4
  <2>1. \A i \in 1 .. Len(MAINNET_TOKENS_ADDRESSES) :
           /\ 3 + i \in {4, 5, 6, 7, 11}
           /\ MAINNET_TOKENS_ADDRESSES[i] = Order[3 + i]
    BY <1>4, TablesOfAccounts
  <2> QED
    BY <2>1, TablesOfAccounts, ProxiesInPlace
<1>8. LET tokens == ProxiesOf(MAINNET_TOKENS_ADDRESSES) \o MAINNET_NAMING_BYTECODE_CHANGES
      IN InPlace(tokens, 3) /\ Len(tokens) = 5
  <2> DEFINE s == ProxiesOf(MAINNET_TOKENS_ADDRESSES)
             t == MAINNET_NAMING_BYTECODE_CHANGES
             before == 3
  <2>1. /\ before \in Nat /\ InPlace(s, before) /\ InPlace(t, before + Len(s))
        /\ Len(s) = 4 /\ Len(t) = 1
    BY <1>7, NamingInPlace
  <2> HIDE DEF s, t, before
  <2>2. InPlace(s \o t, before) /\ Len(s \o t) = Len(s) + Len(t)
    BY <2>1, ConcatInPlace
  <2>3. Len(s \o t) = 5
    BY <2>1, <2>2
  <2> QED
    BY <2>2, <2>3 DEF s, t, before
<1>9. CASE ChainId # 2521 /\ ChainId # 2522
  <2> DEFINE s == ProxiesOf(MAINNET_TOKENS_ADDRESSES) \o MAINNET_NAMING_BYTECODE_CHANGES
             t == MAINNET_NAMING_STORAGE_CHANGES
             before == 3
  <2>1. /\ before \in Nat /\ InPlace(s, before) /\ InPlace(t, before + Len(s))
        /\ Len(s) = 5 /\ Len(t) = 2
    BY <1>8, NamingInPlace
  <2>2. Holocene = s \o t
    BY <1>3, <1>9
  <2> HIDE DEF s, t, before
  <2>3. InPlace(s \o t, before) /\ Len(s \o t) = Len(s) + Len(t)
    BY <2>1, ConcatInPlace
  <2>4. Len(Holocene) = 7
    BY <2>1, <2>2, <2>3
  <2>5. InPlace(Holocene, 3)
    BY <2>2, <2>3 DEF before
  <2> QED
    BY <2>4, <2>5
<1>10. CASE ChainId = 2521
  <2>1. Holocene = ProxiesOf(DEVNET_TOKENS_ADDRESSES)
    BY <1>1, <1>10
  <2> QED
    BY <2>1, <1>5
<1>11. CASE ChainId = 2522
  <2>1. Holocene = ProxiesOf(TESTNET_TOKENS_ADDRESSES)
    BY <1>2, <1>11
  <2> QED
    BY <2>1, <1>6
<1> QED
  BY <1>9, <1>10, <1>11

\* A chain without a table.
LEMMA EmptyInPlace ==
  ASSUME NEW before \in Nat
  PROVE  InPlace(<< >>, before) /\ Len(<< >>) = 0
<1>1. << >> \in Seq({}) /\ Len(<< >>) = 0
  OBVIOUS
<1>2. \E S : << >> \in Seq(S)
  BY <1>1
<1> QED
  BY <1>1, <1>2 DEF InPlace

\* The table of Isthmus is in the last place.
LEMMA IsthmusInPlace == InPlace(Isthmus, 10) /\ Len(Isthmus) <= 1
<1>1. CASE ChainId # 252
  BY <1>1, EmptyInPlace DEF Isthmus
<1>2. CASE ChainId = 252
  <2>1. /\ MAINNET_ORACLES_ADDRESSES \in Seq(Address) /\ Len(MAINNET_ORACLES_ADDRESSES) = 1
        /\ MAINNET_ORACLES_ADDRESSES[1] = Order[11]
    BY OrderedAccounts DEF MAINNET_ORACLES_ADDRESSES, Address
  <2>2. \A i \in 1 .. Len(MAINNET_ORACLES_ADDRESSES) :
          10 + i \in {4, 5, 6, 7, 11} /\ MAINNET_ORACLES_ADDRESSES[i] = Order[10 + i]
    BY <2>1
  <2>3. Isthmus = ProxiesOf(MAINNET_ORACLES_ADDRESSES)
    BY <1>2 DEF Isthmus, ProxiesOf
  <2>4. InPlace(Isthmus, 10) /\ Len(Isthmus) = Len(MAINNET_ORACLES_ADDRESSES)
    BY <2>1, <2>2, <2>3, ProxiesInPlace
  <2> QED
    BY <2>1, <2>4
<1> QED
  BY <1>1, <1>2

----------------------------------------------------------------------------
\* Where the table of each fork starts in the order.
Base == [canyon |-> 0, granite |-> 1, holocene |-> 3, isthmus |-> 10]

\* Every step of a fork has a place in the stretch of that fork.
LEMMA StepPlace ==
  ASSUME NEW f \in Forks, NEW i \in DOMAIN Transitions[f]
  PROVE  /\ i \in Nat /\ Base[f] \in Nat
         /\ IsProxyStep(Transitions[f][i]) \/ IsOtherStep(Transitions[f][i])
         /\ HasPlace(Transitions[f][i], Base[f] + i)
         /\ f = "canyon" => Base[f] + i = 1
         /\ f = "granite" => Base[f] + i \in 2 .. 3
         /\ f = "holocene" => Base[f] + i \in 4 .. 10
         /\ f = "isthmus" => Base[f] + i = 11
<1> DEFINE table == Transitions[f]
<1>1. /\ InPlace(table, Base[f])
      /\ f = "canyon" => Base[f] = 0 /\ Len(table) = 1
      /\ f = "granite" => Base[f] = 1 /\ Len(table) <= 2
      /\ f = "holocene" => Base[f] = 3 /\ Len(table) \in {2, 3, 7}
      /\ f = "isthmus" => Base[f] = 10 /\ Len(table) <= 1
  <2>1. CASE f = "canyon"
    BY <2>1, CanyonInPlace, TransitionOf DEF Base
  <2>2. CASE f = "granite"
    BY <2>2, GraniteInPlace, TransitionOf DEF Base
  <2>3. CASE f = "holocene"
    BY <2>3, HoloceneInPlace, TransitionOf DEF Base
  <2>4. CASE f = "isthmus"
    BY <2>4, IsthmusInPlace, TransitionOf DEF Base
  <2> QED
    BY <2>1, <2>2, <2>3, <2>4, ForkNames
<1>2. PICK S : table \in Seq(S)
  BY <1>1 DEF InPlace
<1>3. Len(table) \in Nat /\ i \in 1 .. Len(table)
  BY <1>2
<1>4. /\ IsProxyStep(table[i]) \/ IsOtherStep(table[i])
      /\ HasPlace(table[i], Base[f] + i)
  BY <1>1, <1>3 DEF InPlace
<1> HIDE DEF table
<1>5. ASSUME f = "canyon" PROVE Base[f] + i = 1
  <2>1. Base[f] = 0 /\ Len(table) = 1
    BY <1>1, <1>5
  <2>2. i = 1
    BY <2>1, <1>3
  <2> QED
    BY <2>1, <2>2
<1>6. f = "granite" => Base[f] + i \in 2 .. 3
  BY <1>1, <1>3
<1>7. ASSUME f = "holocene" PROVE Base[f] + i \in 4 .. 10
  <2>1. Base[f] = 3 /\ Len(table) \in {2, 3, 7}
    BY <1>1, <1>7
  <2>2. Len(table) \in Nat /\ Len(table) <= 7
    <3>1. \A n \in {2, 3, 7} : n \in Nat /\ n <= 7
      OBVIOUS
    <3> QED
      BY <2>1, <3>1
  <2>3. i \in 1 .. 7
    BY <2>2, <1>3
  <2> QED
    BY <2>1, <2>3
<1>8. f = "isthmus" => Base[f] + i = 11
  BY <1>1, <1>3
<1>9. i \in Nat /\ Base[f] \in Nat
  BY <1>1, <1>3, ForkNames
<1> QED
  BY <1>4, <1>5, <1>6, <1>7, <1>8, <1>9 DEF table

\* No two steps, of one fork or of two, change the same account, but for the two
\* words of one token.
LEMMA StepsAreDistinct ==
  ASSUME NEW f \in Forks, NEW i \in DOMAIN Transitions[f],
         NEW g \in Forks, NEW j \in DOMAIN Transitions[g],
         Transitions[f][i].account = Transitions[g][j].account,
         Transitions[f][i].op = "storage" /\ Transitions[g][j].op = "storage" =>
           Transitions[f][i].slot = Transitions[g][j].slot
  PROVE  f = g /\ i = j
<1> DEFINE p == Base[f] + i
           q == Base[g] + j
           s == Transitions[f][i]
           t == Transitions[g][j]
<1>1. /\ HasPlace(s, p) /\ i \in Nat /\ Base[f] \in Nat
      /\ f = "canyon" => p = 1 
      /\ f = "granite" => p \in 2 .. 3
      /\ f = "holocene" => p \in 4 .. 10
      /\ f = "isthmus" => p = 11
  BY StepPlace
<1>2. /\ HasPlace(t, q) /\ j \in Nat /\ Base[g] \in Nat
      /\ g = "canyon" => q = 1 
      /\ g = "granite" => q \in 2 .. 3
      /\ g = "holocene" => q \in 4 .. 10
      /\ g = "isthmus" => q = 11
  BY StepPlace
<1>3. p = Base[f] + i /\ q = Base[g] + j
  OBVIOUS
<1>4. s.account = t.account /\ (s.op = "storage" /\ t.op = "storage" => s.slot = t.slot)
  OBVIOUS
<1> HIDE DEF p, q, s, t
<1>5. p \in 1 .. 11 /\ q \in 1 .. 11
  BY <1>1, <1>2, ForkNames
<1>6. p = q
  BY <1>1, <1>2, <1>4, <1>5, PlacesAreUnique
<1>7. f = g
  BY <1>1, <1>2, <1>6, ForkNames
<1> QED
  BY <1>1, <1>2, <1>3, <1>6, <1>7

\* Every step is one of its kind, with a contract of its own.
LEMMA StepShape ==
  /\ \A s \in AllSteps : IsProxyStep(s) \/ IsOtherStep(s)
  /\ \A s \in AllSteps : s.op = "proxy" => IsProxyStep(s)
BY StepPlace DEF AllSteps, StepsOf, IsOtherStep

\* A step that does more than write a word is the only one of its account.
LEMMA OneStepPerAccount ==
  ASSUME NEW s \in AllSteps, s.op # "storage", NEW t \in AllSteps, s.account = t.account
  PROVE  s = t
BY StepsAreDistinct DEF AllSteps, StepsOf

\* The forks share no step.
LEMMA StepsOfOneFork ==
  ASSUME NEW f \in Forks, NEW g \in Forks, f # g
  PROVE  StepsOf(f) \cap StepsOf(g) = {}
BY StepsAreDistinct DEF StepsOf

\* The implementations, by the second components of the addresses.
LEMMA ImplementationsAreApart ==
  /\ \A c, d \in ProxiedSomewhere : ImplementationOf(c) = ImplementationOf(d) => c = d
  /\ \A c \in ProxiedSomewhere :
       /\ c \in Address /\ c # PROXY_ADDR /\ c[1] # "fcc0d3"
       /\ ImplementationOf(c) \in Address
       /\ ImplementationOf(c) # PROXY_ADDR /\ ImplementationOf(c)[1] = "fcc0d3"
BY DEF ProxiedSomewhere, ImplementationOf, FRAX_ADDR, SFRAX_ADDR, PROXY_ADDR, Address

\* No step changes the shared proxy or an implementation as its account.
LEMMA StepAddresses ==
  /\ PROXY_ADDR \in Address
  /\ \A s \in AllSteps :
       s.account \in Address /\ s.account # PROXY_ADDR /\ s.account[1] # "fcc0d3"
<1>1. /\ CREATE_2_DEPLOYER_ADDR \in Address /\ CREATE_2_DEPLOYER_ADDR # PROXY_ADDR
      /\ CREATE_2_DEPLOYER_ADDR[1] # "fcc0d3"
  BY DEF CREATE_2_DEPLOYER_ADDR, PROXY_ADDR, Address
<1>2. \A a \in {<<"63eb78", 4>>, <<"98a6c3", 5>>} :
        a \in Address /\ a # PROXY_ADDR /\ a[1] # "fcc0d3"
  BY DEF PROXY_ADDR, Address
<1>3. PROXY_ADDR \in Address
  BY DEF PROXY_ADDR, Address
<1> QED
  BY <1>1, <1>2, <1>3, StepShape, ImplementationsAreApart DEF IsProxyStep, IsOtherStep

----------------------------------------------------------------------------
\* A table without repetitions, and the set of its steps.
Lists(table, steps) ==
  /\ table \in Seq(steps)
  /\ steps = {table[i] : i \in 1 .. Len(table)}
  /\ \A i, j \in 1 .. Len(table) : table[i] = table[j] => i = j

\* One list after another lists the steps of both.
LEMMA ConcatLists ==
  ASSUME NEW s, NEW S, NEW t, NEW T, Lists(s, S), Lists(t, T), S \cap T = {}
  PROVE  Lists(s \o t, S \cup T)
<1>1. /\ s \in Seq(S) /\ t \in Seq(T) /\ s \in Seq(S \cup T) /\ t \in Seq(S \cup T)
      /\ Len(s) \in Nat /\ Len(t) \in Nat
  BY DEF Lists
<1>2. /\ s \o t \in Seq(S \cup T) /\ Len(s \o t) = Len(s) + Len(t)
      /\ \A i \in 1 .. Len(s) + Len(t) :
           (s \o t)[i] = IF i <= Len(s) THEN s[i] ELSE t[i - Len(s)]
  BY <1>1, ConcatProperties
<1>3. ASSUME NEW i \in 1 .. Len(s) PROVE i \in 1 .. Len(s) + Len(t) /\ (s \o t)[i] = s[i] /\ s[i] \in S
  BY <1>1, <1>2
<1>4. ASSUME NEW i \in 1 .. Len(t)
      PROVE  /\ Len(s) + i \in 1 .. Len(s) + Len(t)
             /\ (s \o t)[Len(s) + i] = t[i] /\ t[i] \in T
  <2>1. /\ Len(s) + i \in 1 .. Len(s) + Len(t) /\ ~(Len(s) + i <= Len(s))
        /\ Len(s) + i - Len(s) = i
    BY <1>1
  <2> QED
    BY <1>1, <1>2, <2>1
<1>5. ASSUME NEW i \in 1 .. Len(s) + Len(t)
      PROVE  i \in 1 .. Len(s) \/ \E j \in 1 .. Len(t) : i = Len(s) + j
  <2>1. CASE i <= Len(s)
    BY <2>1, <1>1
  <2>2. CASE ~(i <= Len(s))
    <3>1. i - Len(s) \in 1 .. Len(t) /\ i = Len(s) + (i - Len(s))
      BY <2>2, <1>1
    <3> QED
      BY <3>1
  <2> QED
    BY <2>1, <2>2
<1>6. S \cup T = {(s \o t)[i] : i \in 1 .. Len(s \o t)}
  <2>1. ASSUME NEW x \in S \cup T PROVE \E i \in 1 .. Len(s) + Len(t) : x = (s \o t)[i]
    <3>1. CASE x \in S
      <4>1. PICK i \in 1 .. Len(s) : x = s[i]
        BY <3>1 DEF Lists
      <4> QED
        BY <4>1, <1>3
    <3>2. CASE x \in T
      <4>1. PICK i \in 1 .. Len(t) : x = t[i]
        BY <3>2 DEF Lists
      <4> QED
        BY <4>1, <1>4
    <3> QED
      BY <3>1, <3>2
  <2>2. ASSUME NEW i \in 1 .. Len(s) + Len(t) PROVE (s \o t)[i] \in S \cup T
    BY <1>3, <1>4, <1>5
  <2> QED
    BY <1>2, <2>1, <2>2
<1>7. ASSUME NEW i \in 1 .. Len(s \o t), NEW j \in 1 .. Len(s \o t), (s \o t)[i] = (s \o t)[j]
      PROVE  i = j
  <2>1. i \in 1 .. Len(s) + Len(t) /\ j \in 1 .. Len(s) + Len(t)
    BY <1>2
  <2>2. CASE i \in 1 .. Len(s) /\ j \in 1 .. Len(s)
    BY <1>3, <1>7, <2>2 DEF Lists
  <2>3. CASE i \in 1 .. Len(s) /\ \E l \in 1 .. Len(t) : j = Len(s) + l
    BY <1>3, <1>4, <1>7, <2>3
  <2>4. CASE j \in 1 .. Len(s) /\ \E l \in 1 .. Len(t) : i = Len(s) + l
    BY <1>3, <1>4, <1>7, <2>4
  <2>5. CASE (\E k \in 1 .. Len(t) : i = Len(s) + k) /\ (\E l \in 1 .. Len(t) : j = Len(s) + l)
    <3>1. PICK k \in 1 .. Len(t) : i = Len(s) + k
      BY <2>5
    <3>2. PICK l \in 1 .. Len(t) : j = Len(s) + l
      BY <2>5
    <3>3. t[k] = t[l]
      BY <1>4, <1>7, <3>1, <3>2
    <3>4. k = l
      BY <3>3 DEF Lists
    <3> QED
      BY <3>1, <3>2, <3>4
  <2> QED
    BY <1>5, <2>1, <2>2, <2>3, <2>4, <2>5
<1> QED
  BY <1>2, <1>6, <1>7 DEF Lists

\* The forks that the block in execution activates, and the steps of forks.
Activating == {f \in Forks : AtTransition(activation[f], block)}
\* The steps of some forks.
StepsOfAll(forks) == UNION {StepsOf(f) : f \in forks}

\* A table lists the steps of its fork, each once.
LEMMA TableLists ==
  ASSUME NEW f \in Forks
  PROVE  Lists(Transitions[f], StepsOf(f))
<1>1. \E S : Transitions[f] \in Seq(S)
  BY CanyonInPlace, GraniteInPlace, HoloceneInPlace, IsthmusInPlace, TransitionOf, ForkNames
  DEF InPlace
<1>2. DOMAIN Transitions[f] = 1 .. Len(Transitions[f])
  BY <1>1
<1>3. Transitions[f] \in Seq(StepsOf(f))
  BY <1>1, <1>2 DEF StepsOf
<1>4. StepsOf(f) = {Transitions[f][i] : i \in 1 .. Len(Transitions[f])}
  BY <1>2 DEF StepsOf
<1>5. \A i, j \in 1 .. Len(Transitions[f]) : Transitions[f][i] = Transitions[f][j] => i = j
  BY <1>2, StepsAreDistinct
<1> QED
  BY <1>3, <1>4, <1>5 DEF Lists

\* The program of a block lists the steps of the forks that it activates, each
\* once, whatever the chain id and however many forks coincide.
LEMMA ProgramLists == Lists(Program, StepsOfAll(Activating))
<1> DEFINE S(f) == IF f \in Activating THEN StepsOf(f) ELSE {}
<1>1. ASSUME NEW f \in Forks PROVE Lists(Steps(f), S(f))
  <2>1. CASE f \in Activating
    BY <2>1, TableLists DEF Steps, Activating
  <2>2. CASE f \notin Activating
    <3>1. Steps(f) = << >> /\ S(f) = {}
      BY <2>2 DEF Steps, Activating
    <3>2. << >> \in Seq({}) /\ Len(<< >>) = 0
      OBVIOUS
    <3> QED
      BY <3>1, <3>2 DEF Lists
  <2> QED
    BY <2>1, <2>2
<1>2. ASSUME NEW f \in Forks, NEW g \in Forks, f # g PROVE S(f) \cap S(g) = {}
  BY <1>2, StepsOfOneFork
<1>3. StepsOfAll(Activating) = ((S("canyon") \cup S("granite")) \cup S("holocene")) \cup S("isthmus")
  BY ForkNames DEF StepsOfAll, Activating
<1> HIDE DEF S
<1>4. Lists(Steps("canyon") \o Steps("granite"), S("canyon") \cup S("granite"))
  BY <1>1, <1>2, ForkNames, ConcatLists
<1>5. (S("canyon") \cup S("granite")) \cap S("holocene") = {}
  BY <1>2, ForkNames
<1>6. Lists((Steps("canyon") \o Steps("granite")) \o Steps("holocene"),
            (S("canyon") \cup S("granite")) \cup S("holocene"))
  BY <1>1, <1>4, <1>5, ForkNames, ConcatLists
<1>7. ((S("canyon") \cup S("granite")) \cup S("holocene")) \cap S("isthmus") = {}
  BY <1>2, ForkNames
<1>8. Lists(((Steps("canyon") \o Steps("granite")) \o Steps("holocene")) \o Steps("isthmus"),
            ((S("canyon") \cup S("granite")) \cup S("holocene")) \cup S("isthmus"))
  BY <1>1, <1>6, <1>7, ForkNames, ConcatLists
<1> QED
  BY <1>3, <1>8 DEF Program

----------------------------------------------------------------------------
\* All the accounts as the block in execution sees them.
View == [a \in Address |-> Current(a)]

\* The accounts when some of them are changed.
Effect(accounts, changes) ==
  [a \in Address |-> IF a \in DOMAIN changes THEN Changed(accounts[a], changes[a])
                                             ELSE accounts[a]]

\* A step takes all the accounts from old to new.
Deploys(s, old, new) ==
  /\ s.op = "deploy"
  /\ new = Effect(old, [a \in {s.account} |->
                          [code |-> [base |-> s.account, patches |-> {}], writes |-> << >>]])

\* A code moves, patched, to the implementation; the proxy code takes its place.
Proxies(s, old, new, code) ==
  /\ s.op = "proxy"
  /\ new = Effect(old, [a \in {s.account, s.implementation} |->
             IF a = s.account
             THEN [code |-> old[PROXY_ADDR].code, writes |-> s.writes]
             ELSE [code |-> PatchedCode(code, s.patches), writes |-> << >>]])

\* A code is patched where it is.
PatchesCode(s, old, new, code) ==
  /\ s.op = "code" /\ Fits(s.patch, code)
  /\ new = Effect(old, [a \in {s.account} |->
                          [code |-> PatchedCode(code, {s.patch}), writes |-> << >>]])

\* A word is written.
Stores(s, old, new) ==
  /\ s.op = "storage"
  /\ new = Effect(old, [a \in {s.account} |->
                          [code |-> old[s.account].code,
                           writes |-> [w \in {s.slot} |-> s.word]]])

\* A step of any kind; a code fault reads an empty code.
Performs(s, old, new) ==
  \/ Deploys(s, old, new) \/ Stores(s, old, new)
  \/ \E code \in {old[s.account].code, NoCode} :
       /\ code = old[s.account].code \/ CodeFaults
       /\ Proxies(s, old, new, code) \/ PatchesCode(s, old, new, code)

\* The patches of a step, and what makes it panic: one that does not fit.
StepPatches(s) ==
  CASE s.op = "proxy" -> s.patches [] s.op = "code" -> {s.patch} [] OTHER -> {}

\* A patch of the step ends behind the end of the code that is read.
Overruns(s, old) ==
  \E code \in {old[s.account].code, NoCode} :
    /\ code = old[s.account].code \/ CodeFaults
    /\ \E patch \in StepPatches(s) : ~Fits(patch, code)

\* The four kinds of steps of the executor.
TransitionStep == DeployCreate2 \/ MigrateToProxy \/ ChangeByteCode \/ ChangeStorage

\* A commit changes what the block sees by the changed accounts and nothing else:
\* what was loaded is what the block saw already.
LEMMA CommitEffect ==
  ASSUME NEW L \in SUBSET Address, NEW changes, DOMAIN changes \subseteq L,
         Commit(Loaded(L), changes), disk' = disk, DOMAIN cache \subseteq Address
  PROVE  /\ pc' = pc + 1 /\ status' = status
         /\ DOMAIN cache' \subseteq Address
         /\ View' = Effect(View, changes)
<1>1. DOMAIN Loaded(L) = DOMAIN cache \cup L
  BY DEF Loaded
<1>2. /\ cache' = [a \in DOMAIN cache \cup L |->
                     IF a \in DOMAIN changes THEN Changed(Loaded(L)[a], changes[a])
                                             ELSE Loaded(L)[a]]
      /\ pc' = pc + 1 /\ status' = status
  BY <1>1 DEF Commit
<1>3. \A a \in DOMAIN cache \cup L : Loaded(L)[a] = View[a]
  BY DEF Loaded, View
<1>4. ASSUME NEW a \in Address
      PROVE  View'[a] = IF a \in DOMAIN changes THEN Changed(View[a], changes[a]) ELSE View[a]
  <2>1. View'[a] = IF a \in DOMAIN cache' THEN cache'[a] ELSE disk[a]
    BY DEF View, Current
  <2>2. CASE a \in DOMAIN cache \cup L
    BY <1>2, <1>3, <2>1, <2>2
  <2>3. CASE a \notin DOMAIN cache \cup L
    BY <1>2, <2>1, <2>3 DEF View, Current
  <2> QED
    BY <2>2, <2>3
<1>5. View' = Effect(View, changes)
  BY <1>4 DEF Effect, View
<1> QED
  BY <1>2, <1>5

\* A step of the executor performs the step of the program that it has reached, or
\* panics on a patch that does not fit.
LEMMA StepPerforms ==
  ASSUME TypeOK, TransitionStep
  PROVE  /\ Migrating /\ UNCHANGED <<activation, disk, head, done, block>>
         /\ faults' = faults \/ (faults > 0 /\ faults' = faults - 1)
         /\ pc \in DOMAIN Program /\ Program[pc] \in AllSteps
         /\ Program[pc] \in StepsOfAll(Activating)
         /\ \/ Panic /\ Overruns(Program[pc], View)
            \/ /\ pc' = pc + 1 /\ status' = status
               /\ DOMAIN cache' \subseteq Address
               /\ Performs(Program[pc], View, View')
<1> DEFINE s == Program[pc]
<1>1. Migrating /\ UNCHANGED <<activation, disk, head, done, block>>
  BY DEF TransitionStep, DeployCreate2, MigrateToProxy, ChangeByteCode, ChangeStorage, Step
<1>2. pc \in 1 .. Len(Program) /\ Program \in Seq(StepsOfAll(Activating))
  BY <1>1, ProgramLists DEF Migrating, TypeOK, Lists
<1>3. pc \in DOMAIN Program /\ s \in StepsOfAll(Activating) /\ s \in AllSteps
  BY <1>2 DEF StepsOfAll, AllSteps, Activating
<1>4. /\ s.account \in Address /\ PROXY_ADDR \in Address
      /\ DOMAIN cache \subseteq Address /\ disk' = disk
  BY <1>1, <1>3, StepAddresses DEF TypeOK
<1>5. /\ View[s.account] = Current(s.account) /\ View[PROXY_ADDR] = Current(PROXY_ADDR)
  BY <1>4 DEF View
<1> DEFINE Goal == \/ Panic /\ Overruns(s, View)
                   \/ /\ pc' = pc + 1 /\ status' = status
                      /\ DOMAIN cache' \subseteq Address
                      /\ Performs(s, View, View')
           Faults == faults' = faults \/ (faults > 0 /\ faults' = faults - 1)
<1>6. ASSUME DeployCreate2 PROVE Goal /\ Faults
  <2> DEFINE changes == [a \in {s.account} |->
                          [code |-> [base |-> s.account, patches |-> {}], writes |-> << >>]]
  <2>1. s.op = "deploy" /\ Commit(Loaded({s.account}), changes) /\ faults' = faults
    BY <1>6 DEF DeployCreate2, Step
  <2>2. {s.account} \in SUBSET Address /\ DOMAIN changes \subseteq {s.account}
    BY <1>4
  <2> HIDE DEF changes, s
  <2>3. /\ pc' = pc + 1 /\ status' = status
        /\ DOMAIN cache' \subseteq Address /\ View' = Effect(View, changes)
    BY <1>4, <2>1, <2>2, CommitEffect
  <2>4. Deploys(s, View, View')
    BY <2>1, <2>3 DEF Deploys, changes
  <2>5. Performs(s, View, View')
    BY <2>4 DEF Performs
  <2> QED
    BY <2>1, <2>3, <2>5
<1>7. ASSUME MigrateToProxy PROVE Goal /\ Faults
  <2>1. PICK code \in {Current(s.account).code, NoCode} :
          /\ GetContractCode(Current(s.account), code)
          /\ IF \A patch \in s.patches : Fits(patch, code)
             THEN Commit(Loaded({s.account, s.implementation, PROXY_ADDR}),
                      [a \in {s.account, s.implementation} |->
                         IF a = s.account
                         THEN [code |-> Current(PROXY_ADDR).code, writes |-> s.writes]
                         ELSE [code |-> PatchedCode(code, s.patches), writes |-> << >>]])
             ELSE Panic
    BY <1>7 DEF MigrateToProxy
  <2> DEFINE changes == [a \in {s.account, s.implementation} |->
                         IF a = s.account
                         THEN [code |-> Current(PROXY_ADDR).code, writes |-> s.writes]
                         ELSE [code |-> PatchedCode(code, s.patches), writes |-> << >>]]
             L == {s.account, s.implementation, PROXY_ADDR}
  <2>2. s.op = "proxy"
    BY <1>7 DEF MigrateToProxy, Step
  <2>3. Faults /\ (code = Current(s.account).code \/ CodeFaults)
    BY <2>1 DEF GetContractCode
  <2>4. CASE (\A patch \in s.patches : Fits(patch, code)) /\ Commit(Loaded(L), changes)
    <3>1. L \in SUBSET Address /\ DOMAIN changes \subseteq L
      <4>1. s.implementation \in Address
        BY <1>3, <2>2, StepShape, ImplementationsAreApart DEF IsProxyStep
      <4> QED
        BY <1>4, <4>1
    <3> HIDE DEF changes, L, s
    <3>2. /\ pc' = pc + 1 /\ status' = status
          /\ DOMAIN cache' \subseteq Address /\ View' = Effect(View, changes)
      BY <1>4, <2>4, <3>1, CommitEffect
    <3>3. Proxies(s, View, View', code)
      BY <1>5, <2>2, <3>2 DEF Proxies, changes
    <3>4. Performs(s, View, View')
      BY <1>5, <2>3, <3>3 DEF Performs
    <3> QED
      BY <2>3, <3>2, <3>4
  <2>5. CASE Panic /\ ~(\A patch \in s.patches : Fits(patch, code))
    <3>1. StepPatches(s) = s.patches
      BY <2>2 DEF StepPatches
    <3> HIDE DEF s
    <3>2. Overruns(s, View)
      BY <1>5, <2>3, <2>5, <3>1 DEF Overruns
    <3> QED
      BY <2>3, <2>5, <3>2
  <2> QED
    BY <2>1, <2>4, <2>5
<1>8. ASSUME ChangeByteCode PROVE Goal /\ Faults
  <2>1. PICK code \in {Current(s.account).code, NoCode} :
          /\ GetContractCode(Current(s.account), code)
          /\ IF Fits(s.patch, code)
             THEN Commit(Loaded({s.account}),
                      [a \in {s.account} |->
                         [code |-> PatchedCode(code, {s.patch}), writes |-> << >>]])
             ELSE Panic
    BY <1>8 DEF ChangeByteCode
  <2> DEFINE changes == [a \in {s.account} |->
                         [code |-> PatchedCode(code, {s.patch}), writes |-> << >>]]
  <2>2. s.op = "code"
    BY <1>8 DEF ChangeByteCode, Step
  <2>3. Faults /\ (code = Current(s.account).code \/ CodeFaults)
    BY <2>1 DEF GetContractCode
  <2>4. CASE Fits(s.patch, code) /\ Commit(Loaded({s.account}), changes)
    <3>1. {s.account} \in SUBSET Address /\ DOMAIN changes \subseteq {s.account}
      BY <1>4
    <3> HIDE DEF changes, s
    <3>2. /\ pc' = pc + 1 /\ status' = status
          /\ DOMAIN cache' \subseteq Address /\ View' = Effect(View, changes)
      BY <1>4, <2>4, <3>1, CommitEffect
    <3>3. PatchesCode(s, View, View', code)
      BY <2>2, <2>4, <3>2 DEF PatchesCode, changes
    <3>4. Performs(s, View, View')
      BY <1>5, <2>3, <3>3 DEF Performs
    <3> QED
      BY <2>3, <3>2, <3>4
  <2>5. CASE Panic /\ ~Fits(s.patch, code)
    <3>1. StepPatches(s) = {s.patch}
      BY <2>2 DEF StepPatches
    <3> HIDE DEF s
    <3>2. Overruns(s, View)
      BY <1>5, <2>3, <2>5, <3>1 DEF Overruns
    <3> QED
      BY <2>3, <2>5, <3>2
  <2> QED
    BY <2>1, <2>4, <2>5
<1>9. ASSUME ChangeStorage PROVE Goal /\ Faults
  <2> DEFINE changes == [a \in {s.account} |->
                          [code |-> Current(s.account).code,
                           writes |-> [w \in {s.slot} |-> s.word]]]
  <2>1. s.op = "storage" /\ Commit(Loaded({s.account}), changes) /\ faults' = faults
    BY <1>9 DEF ChangeStorage, Step
  <2>2. {s.account} \in SUBSET Address /\ DOMAIN changes \subseteq {s.account}
    BY <1>4
  <2> HIDE DEF changes, s
  <2>3. /\ pc' = pc + 1 /\ status' = status
        /\ DOMAIN cache' \subseteq Address /\ View' = Effect(View, changes)
    BY <1>4, <2>1, <2>2, CommitEffect
  <2>4. Stores(s, View, View')
    BY <1>5, <2>1, <2>3 DEF Stores, changes
  <2>5. Performs(s, View, View')
    BY <2>4 DEF Performs
  <2> QED
    BY <2>1, <2>3, <2>5
<1>10. Goal /\ Faults
  BY <1>6, <1>7, <1>8, <1>9 DEF TransitionStep
<1> QED
  BY <1>1, <1>3, <1>10

\* Patching a code keeps its base.
LEMMA NaturalCode ==
  /\ NoCode \in Code /\ Naming \in Patches
  /\ \A a \in Address : [base |-> a, patches |-> {}] \in Code
  /\ \A code \in Code, patches \in SUBSET Patches :
       /\ PatchedCode(code, patches) \in Code
       /\ PatchedCode(code, patches).base = code.base
       /\ PatchedCode(code, patches).patches = code.patches \cup patches
BY DEF NoCode, Code, PatchedCode, Patches

\* A changed account is an account, with the given code, or its own when that is
\* empty, and the words that are not written.
LEMMA ChangedTyped ==
  ASSUME NEW account \in Account, NEW change, change.code \in Code,
         \A w \in DOMAIN change.writes : change.writes[w] \in Word
  PROVE  /\ Changed(account, change) \in Account
         /\ change.code # NoCode => Changed(account, change).code = change.code
         /\ change.code = NoCode => Changed(account, change) = account
         /\ \A w \in Slots : w \notin DOMAIN change.writes =>
              Changed(account, change).slots[w] = account.slots[w]
BY DEF Changed, Account

\* What a step makes of the accounts.
Effects(s, old, new) ==
  /\ new \in [Address -> Account]
  /\ \A a \in Address :
       a # s.account /\ (s.op = "proxy" => a # s.implementation) => new[a] = old[a]
  /\ \A a \in Address : \A w \in {"admin", "implementation", "holders"} :
       s.op # "proxy" \/ a # s.account \/ w = "holders" =>
         new[a].slots[w] = old[a].slots[w]
  /\ s.op = "storage" => new[s.account].code = old[s.account].code
  /\ s.op = "deploy" => new[s.account].code = [base |-> s.account, patches |-> {}]
  /\ s.op = "code" =>
       new[s.account].code = PatchedCode(old[s.account].code, {s.patch})
  /\ s.op = "proxy" =>
       /\ old[PROXY_ADDR].code # NoCode =>
            /\ new[s.account].code = old[PROXY_ADDR].code
            /\ new[s.account].slots["admin"] = PROXY_ADDR
            /\ new[s.account].slots["implementation"] = s.implementation
       /\ new[s.implementation].code.base \in
            {Nothing, old[s.account].code.base, old[s.implementation].code.base}
       /\ ~CodeFaults /\ old[s.account].code.base # Nothing =>
            new[s.implementation].code = PatchedCode(old[s.account].code, s.patches)

\* What performing a step changes, and what it leaves alone.
LEMMA PerformsEffect ==
  ASSUME NEW old \in [Address -> Account], NEW new, NEW s \in AllSteps,
         Performs(s, old, new)
  PROVE  Effects(s, old, new)
<1> DEFINE Rest ==
      /\ new \in [Address -> Account]
      /\ \A a \in Address : a # s.account => new[a] = old[a]
      /\ \A a \in Address : \A w \in {"admin", "implementation", "holders"} :
           new[a].slots[w] = old[a].slots[w]
<1>1. /\ s.account \in Address /\ PROXY_ADDR \in Address
      /\ {"admin", "implementation", "holders"} \subseteq Slots
  BY StepAddresses DEF Slots
<1>2. /\ \A a \in Address : old[a] \in Account /\ old[a].code \in Code
      /\ NoCode \in Code
  BY NaturalCode DEF Account
<1>3. ASSUME Deploys(s, old, new)
      PROVE  Rest /\ new[s.account].code = [base |-> s.account, patches |-> {}]
  <2> DEFINE change == [code |-> [base |-> s.account, patches |-> {}], writes |-> << >>]
  <2>1. change.code \in Code /\ DOMAIN change.writes = {} /\ change.code # NoCode
    <3>1. Nothing \notin Address
      BY DEF Nothing, Address
    <3> QED
      BY <1>1, <3>1, NaturalCode DEF NoCode
  <2>2. new = [a \in Address |-> IF a = s.account THEN Changed(old[a], change) ELSE old[a]]
    BY <1>3 DEF Deploys, Effect
  <2>3. change.code = [base |-> s.account, patches |-> {}]
    OBVIOUS
  <2> HIDE DEF change
  <2>4. /\ Changed(old[s.account], change) \in Account
        /\ Changed(old[s.account], change).code = change.code
        /\ \A w \in Slots : Changed(old[s.account], change).slots[w] = old[s.account].slots[w]
    BY <1>1, <1>2, <2>1, ChangedTyped
  <2> QED
    BY <1>1, <1>2, <2>2, <2>3, <2>4
<1>4. ASSUME Stores(s, old, new)
      PROVE  Rest /\ new[s.account].code = old[s.account].code
  <2> DEFINE change == [code |-> old[s.account].code, writes |-> [w \in {s.slot} |-> s.word]]
  <2>1. s.slot \in {"name", "symbol"} /\ s.word \in Word
    BY <1>4, StepShape DEF Stores, IsOtherStep, IsProxyStep
  <2>2. /\ change.code = old[s.account].code /\ change.code \in Code
        /\ \A w \in {"admin", "implementation", "holders"} : w \notin DOMAIN change.writes
        /\ \A w \in DOMAIN change.writes : change.writes[w] \in Word
    BY <1>1, <1>2, <2>1
  <2>3. new = [a \in Address |-> IF a = s.account THEN Changed(old[a], change) ELSE old[a]]
    BY <1>4 DEF Stores, Effect
  <2> HIDE DEF change
  <2>4. /\ Changed(old[s.account], change) \in Account
        /\ Changed(old[s.account], change).code = old[s.account].code
        /\ \A w \in {"admin", "implementation", "holders"} :
             Changed(old[s.account], change).slots[w] = old[s.account].slots[w]
    BY <1>1, <1>2, <2>2, ChangedTyped
  <2> QED
    BY <1>1, <1>2, <2>3, <2>4
<1>5. ASSUME NEW code \in {old[s.account].code, NoCode}, PatchesCode(s, old, new, code)
      PROVE  Rest /\ new[s.account].code = PatchedCode(old[s.account].code, {s.patch})
  <2> DEFINE change == [code |-> PatchedCode(code, {s.patch}), writes |-> << >>]
  <2>1. s.patch = Naming
    BY <1>5, StepShape DEF PatchesCode, IsOtherStep, IsProxyStep
  <2>2. code # NoCode
    BY <1>5, <2>1 DEF PatchesCode, Fits, CodeLength, Naming, NoCode, Nothing
  <2>3. /\ change.code = PatchedCode(old[s.account].code, {s.patch})
        /\ change.code \in Code /\ DOMAIN change.writes = {}
        /\ change.code.patches # {}
    BY <1>1, <1>2, <2>1, <2>2, NaturalCode
  <2>4. change.code # NoCode
    BY <2>3 DEF NoCode
  <2>5. new = [a \in Address |-> IF a = s.account THEN Changed(old[a], change) ELSE old[a]]
    BY <1>5 DEF PatchesCode, Effect
  <2> HIDE DEF change
  <2>6. /\ Changed(old[s.account], change) \in Account
        /\ Changed(old[s.account], change).code = change.code
        /\ \A w \in Slots : Changed(old[s.account], change).slots[w] = old[s.account].slots[w]
    BY <1>1, <1>2, <2>3, <2>4, ChangedTyped
  <2> QED
    BY <1>1, <1>2, <2>3, <2>5, <2>6
<1>6. ASSUME NEW code \in {old[s.account].code, NoCode}, Proxies(s, old, new, code),
             code = old[s.account].code \/ CodeFaults
      PROVE  /\ new \in [Address -> Account]
             /\ \A a \in Address : a # s.account /\ a # s.implementation => new[a] = old[a]
             /\ \A a \in Address : \A w \in {"admin", "implementation", "holders"} :
                  a # s.account \/ w = "holders" => new[a].slots[w] = old[a].slots[w]
             /\ old[PROXY_ADDR].code # NoCode =>
                  /\ new[s.account].code = old[PROXY_ADDR].code
                  /\ new[s.account].slots["admin"] = PROXY_ADDR
                  /\ new[s.account].slots["implementation"] = s.implementation
             /\ new[s.implementation].code.base \in
                  {Nothing, old[s.account].code.base, old[s.implementation].code.base}
             /\ ~CodeFaults /\ old[s.account].code.base # Nothing =>
                  new[s.implementation].code = PatchedCode(old[s.account].code, s.patches)
  <2> DEFINE proxy == [code |-> old[PROXY_ADDR].code, writes |-> s.writes]
             logic == [code |-> PatchedCode(code, s.patches), writes |-> << >>]
             before == old[s.account]
             implementation == old[s.implementation]
  <2>1. IsProxyStep(s)
    BY <1>6, StepShape DEF Proxies
  <2>2. /\ s.implementation \in Address /\ s.implementation # s.account
        /\ s.implementation # Zero /\ PROXY_ADDR # Zero
    BY <2>1, ImplementationsAreApart DEF IsProxyStep, Zero, PROXY_ADDR, ImplementationOf
  <2>3. new = [a \in Address |-> IF a = s.account THEN Changed(old[a], proxy)
                                ELSE IF a = s.implementation THEN Changed(old[a], logic)
                                ELSE old[a]]
    BY <1>6 DEF Proxies, Effect
  <2>4. /\ proxy.code = old[PROXY_ADDR].code /\ proxy.code \in Code
        /\ proxy.writes = s.writes
        /\ \A w \in DOMAIN proxy.writes : proxy.writes[w] \in Word
        /\ "holders" \notin DOMAIN proxy.writes
    BY <1>1, <1>2, <2>1 DEF IsProxyStep
  <2>5. /\ logic.code = PatchedCode(code, s.patches) /\ logic.code \in Code
        /\ logic.code.base = code.base
        /\ DOMAIN logic.writes = {}
    BY <1>1, <1>2, <2>1, NaturalCode DEF IsProxyStep
  <2>6. before \in Account /\ implementation \in Account
    BY <1>1, <1>2, <2>2
  <2>7. proxy.code # NoCode =>
          /\ Changed(before, proxy).slots["admin"] = PROXY_ADDR
          /\ Changed(before, proxy).slots["implementation"] = s.implementation
    BY <1>1, <2>1, <2>2 DEF Changed, IsProxyStep
  <2>8. new[s.account] = Changed(before, proxy) /\ new[s.implementation] = Changed(implementation, logic)
    BY <1>1, <2>2, <2>3
  <2> HIDE DEF proxy, logic
  <2>9. /\ Changed(before, proxy) \in Account
        /\ proxy.code # NoCode => Changed(before, proxy).code = proxy.code
        /\ Changed(before, proxy).slots["holders"] = before.slots["holders"]
    BY <1>1, <2>4, <2>6, ChangedTyped
  <2>10. /\ Changed(implementation, logic) \in Account
         /\ logic.code # NoCode => Changed(implementation, logic).code = logic.code
         /\ logic.code = NoCode => Changed(implementation, logic) = implementation
         /\ \A w \in Slots : Changed(implementation, logic).slots[w] = implementation.slots[w]
    BY <2>5, <2>6, ChangedTyped
  <2>11. new \in [Address -> Account]
    BY <1>2, <2>3, <2>6, <2>9, <2>10
  <2>12. \A a \in Address : a # s.account /\ a # s.implementation => new[a] = old[a]
    BY <2>3
  <2>13. new[s.implementation].code.base \in {Nothing, before.code.base, implementation.code.base}
    <3>1. code.base \in {Nothing, before.code.base}
      BY DEF NoCode
    <3> QED
      BY <2>5, <2>8, <2>10, <3>1
  <2>14. ASSUME ~CodeFaults, before.code.base # Nothing
         PROVE  new[s.implementation].code = PatchedCode(before.code, s.patches)
    <3>1. code = before.code
      BY <1>6, <2>14
    <3>2. logic.code # NoCode
      BY <2>5, <2>14, <3>1 DEF NoCode
    <3> QED
      BY <2>5, <2>8, <2>10, <3>1, <3>2
  <2>15. ASSUME NEW a \in Address, NEW w \in {"admin", "implementation", "holders"},
                a # s.account \/ w = "holders"
         PROVE  new[a].slots[w] = old[a].slots[w]
    BY <1>1, <2>8, <2>9, <2>10, <2>12, <2>15
  <2> QED
    BY <2>4, <2>7, <2>8, <2>9, <2>11, <2>12, <2>13, <2>14, <2>15
<1>7. CASE Deploys(s, old, new)
  BY <1>1, <1>3, <1>7 DEF Deploys, Effects
<1>8. CASE Stores(s, old, new)
  BY <1>1, <1>4, <1>8 DEF Stores, Effects
<1>9. CASE \E code \in {old[s.account].code, NoCode} : PatchesCode(s, old, new, code)
  BY <1>1, <1>5, <1>9 DEF PatchesCode, Effects
<1>10. CASE \E code \in {old[s.account].code, NoCode} :
              Proxies(s, old, new, code) /\ (code = old[s.account].code \/ CodeFaults)
  BY <1>6, <1>10 DEF Proxies, Effects
<1> QED
  BY <1>7, <1>8, <1>9, <1>10 DEF Performs

----------------------------------------------------------------------------
\* Blocks are at least as far apart as the look-back of the transition test.
SpacedBlocks == \A gap \in BlockTimes : gap >= 2

\* The accounts when some of the steps have been executed.
ProxiesMatch(accounts, steps) ==
  /\ accounts[PROXY_ADDR].code = [base |-> PROXY_ADDR, patches |-> {}]
  /\ \A s \in AllSteps : s.op = "proxy" =>
       (accounts[s.account].code.base = PROXY_ADDR <=> s \in steps)

\* What runs the proxy code has its admin and an implementation.
ProxiesPoint(accounts, steps) ==
  \A a \in Address \ {PROXY_ADDR} : accounts[a].code.base = PROXY_ADDR =>
    \E s \in steps :
      /\ s.op = "proxy" /\ s.account = a
      /\ accounts[a].slots["admin"] = PROXY_ADDR
      /\ accounts[a].slots["implementation"] = s.implementation

\* The address at which the logic of a contract lies after some steps, and that logic.
Home(c, steps) ==
  IF \E s \in steps : s.op = "proxy" /\ s.account = c THEN ImplementationOf(c) ELSE c

LogicAfter(c, steps) ==
  [base |-> c, patches |-> UNION {StepPatches(s) : s \in {s \in steps : s.account = c}}]

\* Every contract still has its logic, with the patches of the steps.
LogicIsKept(accounts, steps) ==
  \A c \in Deployed : accounts[Home(c, steps)].code = LogicAfter(c, steps)

\* The accounts are the outcome of the steps.
Upgraded(accounts, steps) ==
  /\ accounts \in [Address -> Account]
  /\ ProxiesMatch(accounts, steps)
  /\ SpacedBlocks => ProxiesPoint(accounts, steps)
  /\ SpacedBlocks /\ ~CodeFaults => LogicIsKept(accounts, steps)

\* A step makes a proxy of its own account when it is a proxy step, and of no
\* other.
LEMMA PerformedProxiesMatch ==
  ASSUME NEW old \in [Address -> Account], NEW S \in SUBSET AllSteps, ProxiesMatch(old, S),
         NEW new, NEW s \in AllSteps, Performs(s, old, new)
  PROVE  ProxiesMatch(new, S \cup {s})
<1>0. Effects(s, old, new)
  BY PerformsEffect
<1>1. /\ PROXY_ADDR \in Address /\ PROXY_ADDR # s.account
      /\ s.op = "proxy" => PROXY_ADDR # s.implementation
  BY StepAddresses, StepShape, ImplementationsAreApart DEF IsProxyStep
<1>2. new[PROXY_ADDR] = old[PROXY_ADDR]
  BY <1>0, <1>1 DEF Effects
<1>3. old[PROXY_ADDR].code = [base |-> PROXY_ADDR, patches |-> {}]
  BY DEF ProxiesMatch
<1>4. ASSUME NEW t \in AllSteps, t.op = "proxy"
      PROVE  new[t.account].code.base = PROXY_ADDR <=> t \in S \cup {s}
  <2>1. /\ t.account \in Address
        /\ s.op = "proxy" => t.account # s.implementation
    BY <1>4, StepAddresses, StepShape, ImplementationsAreApart DEF IsProxyStep
  <2>2. CASE t.account = s.account
    <3>1. s = t
      BY <1>4, <2>2, OneStepPerAccount
    <3>2. old[PROXY_ADDR].code # NoCode
      BY <1>1, <1>3 DEF NoCode, Nothing, PROXY_ADDR
    <3>3. new[s.account].code = old[PROXY_ADDR].code
      BY <1>0, <1>4, <3>1, <3>2 DEF Effects
    <3> QED
      BY <1>3, <3>1, <3>3
  <2>3. CASE t.account # s.account
    <3>1. new[t.account] = old[t.account]
      BY <1>0, <2>1, <2>3 DEF Effects
    <3> QED
      BY <1>4, <2>3, <3>1 DEF ProxiesMatch
  <2> QED
    BY <2>2, <2>3
<1> QED
  BY <1>2, <1>3, <1>4 DEF ProxiesMatch

\* The proxies keep their admin and their implementation: only the step that makes
\* a proxy writes those words.
LEMMA PerformedProxiesPoint ==
  ASSUME NEW old \in [Address -> Account], NEW S \in SUBSET AllSteps,
         ProxiesMatch(old, S), ProxiesPoint(old, S),
         NEW new, NEW s \in AllSteps \ S, Performs(s, old, new)
  PROVE  ProxiesPoint(new, S \cup {s})
<1> SUFFICES ASSUME NEW a \in Address \ {PROXY_ADDR}, new[a].code.base = PROXY_ADDR
             PROVE  \E t \in S \cup {s} :
                      /\ t.op = "proxy" /\ t.account = a
                      /\ new[a].slots["admin"] = PROXY_ADDR
                      /\ new[a].slots["implementation"] = t.implementation
  BY DEF ProxiesPoint
<1>0. Effects(s, old, new)
  BY PerformsEffect
<1>1. CASE s.op = "proxy" /\ a = s.account
  <2>1. old[PROXY_ADDR].code # NoCode
    BY DEF ProxiesMatch, NoCode, Nothing, PROXY_ADDR
  <2> QED
    BY <1>0, <1>1, <2>1 DEF Effects
<1>2. CASE s.op = "proxy" /\ a = s.implementation
  <2>1. new[a].code.base \in {Nothing, old[s.account].code.base, old[a].code.base}
    BY <1>0, <1>2 DEF Effects
  <2>2. Nothing # PROXY_ADDR
    BY DEF Nothing, PROXY_ADDR
  <2>3. old[s.account].code.base # PROXY_ADDR
    BY <1>2 DEF ProxiesMatch
  <2>4. old[a].code.base # PROXY_ADDR
    <3>1. a[1] = "fcc0d3"
      BY <1>2, StepShape, ImplementationsAreApart DEF IsProxyStep
    <3>2. \A t \in S : t.account # a
      BY <3>1, StepAddresses
    <3> QED
      BY <3>2 DEF ProxiesPoint
  <2> QED
    BY <2>1, <2>2, <2>3, <2>4
<1>3. CASE ~(s.op = "proxy" /\ a \in {s.account, s.implementation})
  <2>1. old[a].code.base = PROXY_ADDR
    <3>1. CASE a # s.account
      BY <1>0, <1>3, <3>1 DEF Effects
    <3>2. CASE a = s.account
      <4>1. old[a].code \in Code
        BY DEF Account
      <4>2. s.op \in {"deploy", "code", "storage"}
        BY <1>3, <3>2, StepShape DEF IsProxyStep, IsOtherStep
      <4>3. s.op # "deploy"
        BY <1>0, <3>2 DEF Effects
      <4>4. CASE s.op = "storage"
        BY <1>0, <3>2, <4>4 DEF Effects
      <4>5. CASE s.op = "code"
        <5>1. {s.patch} \in SUBSET Patches
          BY <4>5, StepShape, NaturalCode DEF IsProxyStep, IsOtherStep
        <5> QED
          BY <1>0, <3>2, <4>1, <4>5, <5>1, NaturalCode DEF Effects
      <4> QED
        BY <4>2, <4>3, <4>4, <4>5
    <3> QED
      BY <3>1, <3>2
  <2>2. /\ new[a].slots["admin"] = old[a].slots["admin"]
        /\ new[a].slots["implementation"] = old[a].slots["implementation"]
    BY <1>0, <1>3 DEF Effects
  <2> QED
    BY <2>1, <2>2 DEF ProxiesPoint
<1> QED
  BY <1>1, <1>2, <1>3

\* The logic of a contract moves to its implementation with the patches of the
\* step, and no step touches an implementation but the one that fills it.
LEMMA PerformedLogicIsKept ==
  ASSUME NEW old \in [Address -> Account], NEW S \in SUBSET AllSteps, LogicIsKept(old, S),
         ~CodeFaults, NEW new, NEW s \in AllSteps \ S, Performs(s, old, new)
  PROVE  LogicIsKept(new, S \cup {s})
<1> SUFFICES ASSUME NEW c \in Deployed
             PROVE  new[Home(c, S \cup {s})].code = LogicAfter(c, S \cup {s})
  BY DEF LogicIsKept
<1> DEFINE T == S \cup {s}
<1>0. Effects(s, old, new)
  BY PerformsEffect
<1>1. /\ c \in Address /\ c # PROXY_ADDR /\ c[1] # "fcc0d3"
      /\ c # Nothing
  BY FraxMigrationAssumption DEF Nothing, Address
<1>2. old[Home(c, S)].code = LogicAfter(c, S)
  BY DEF LogicIsKept
<1>3. \A t \in AllSteps : t.op = "proxy" =>
        /\ t.account \in ProxiedSomewhere
        /\ t.implementation = ImplementationOf(t.account)
  BY StepShape DEF IsProxyStep
<1>4. Home(c, S) \in Address
  BY <1>1, <1>3, ImplementationsAreApart DEF Home
<1>5. CASE s.account # c
  <2>1. Home(c, T) = Home(c, S)
    BY <1>5 DEF Home
  <2>2. {t \in T : t.account = c} = {t \in S : t.account = c}
    BY <1>5
  <2>3. LogicAfter(c, T) = LogicAfter(c, S)
    BY <2>2 DEF LogicAfter
  <2>4. Home(c, S) # s.account
    BY <1>3, <1>5, StepAddresses, ImplementationsAreApart DEF Home
  <2>5. s.op = "proxy" => Home(c, S) # s.implementation
    BY <1>1, <1>3, <1>5, ImplementationsAreApart DEF Home
  <2>6. new[Home(c, S)] = old[Home(c, S)]
    BY <1>0, <1>4, <2>4, <2>5 DEF Effects
  <2> QED
    BY <1>2, <2>1, <2>3, <2>6
<1>6. CASE s.account = c /\ s.op = "storage"
  <2>1. \A t \in AllSteps : t.op = "proxy" => t.account # c
    BY <1>6, OneStepPerAccount
  <2>2. Home(c, S) = c /\ Home(c, T) = c
    BY <2>1 DEF Home
  <2>3. StepPatches(s) = {}
    BY <1>6 DEF StepPatches
  <2>4. UNION {StepPatches(t) : t \in {t \in T : t.account = c}}
          = UNION {StepPatches(t) : t \in {t \in S : t.account = c}}
    BY <2>3
  <2> QED
    BY <1>0, <1>2, <1>6, <2>2, <2>4 DEF LogicAfter, Effects
<1>7. CASE s.account = c /\ s.op # "storage"
  <2>1. {t \in S : t.account = c} = {} /\ {t \in T : t.account = c} = {s}
    BY <1>7, OneStepPerAccount
  <2>2. /\ Home(c, S) = c
        /\ Home(c, T) = IF s.op = "proxy" THEN ImplementationOf(c) ELSE c
    BY <1>7, <2>1 DEF Home
  <2>3. LogicAfter(c, S) = [base |-> c, patches |-> {}]
    <3>1. UNION {StepPatches(t) : t \in {t \in S : t.account = c}} = {}
      BY <2>1
    <3> QED
      BY <3>1 DEF LogicAfter
  <2>4. LogicAfter(c, T) = [base |-> c, patches |-> StepPatches(s)]
    <3>1. UNION {StepPatches(t) : t \in {t \in T : t.account = c}} = StepPatches(s)
      BY <2>1
    <3> QED
      BY <3>1 DEF LogicAfter
  <2>5. old[c].code = [base |-> c, patches |-> {}]
    BY <1>2, <2>2, <2>3
  <2>6. CASE s.op = "proxy"
    <3>1. StepPatches(s) = s.patches
      BY <2>6 DEF StepPatches
    <3>2. new[s.implementation].code = PatchedCode(old[c].code, s.patches)
      BY <1>0, <1>1, <1>7, <2>5, <2>6 DEF Effects
    <3>3. PatchedCode(old[c].code, s.patches) = [base |-> c, patches |-> s.patches]
      BY <2>5 DEF PatchedCode
    <3> QED
      BY <1>3, <1>7, <2>2, <2>4, <2>6, <3>1, <3>2, <3>3
  <2>7. CASE s.op = "code"
    <3>1. StepPatches(s) = {s.patch}
      BY <2>7 DEF StepPatches
    <3>2. new[c].code = PatchedCode(old[c].code, {s.patch})
      BY <1>0, <1>7, <2>7 DEF Effects
    <3>3. PatchedCode(old[c].code, {s.patch}) = [base |-> c, patches |-> {s.patch}]
      BY <2>5 DEF PatchedCode
    <3> QED
      BY <2>2, <2>4, <2>7, <3>1, <3>2, <3>3
  <2>8. CASE s.op = "deploy"
    <3>1. StepPatches(s) = {}
      BY <2>8 DEF StepPatches
    <3> QED
      BY <1>0, <1>7, <2>2, <2>4, <2>8, <3>1 DEF Effects
  <2> QED
    BY <1>7, <2>6, <2>7, <2>8, StepShape DEF IsProxyStep, IsOtherStep
<1> QED
  BY <1>5, <1>6, <1>7

\* A step takes accounts upgraded by some steps to accounts upgraded by one more.
LEMMA PerformedUpgraded ==
  ASSUME NEW old, NEW S \in SUBSET AllSteps, Upgraded(old, S),
         NEW new, NEW s \in AllSteps, SpacedBlocks => s \notin S, Performs(s, old, new)
  PROVE  Upgraded(new, S \cup {s})
<1>1. old \in [Address -> Account]
  BY DEF Upgraded
<1>2. new \in [Address -> Account]
  BY <1>1, PerformsEffect DEF Effects
<1>3. ProxiesMatch(new, S \cup {s})
  BY <1>1, PerformedProxiesMatch DEF Upgraded
<1>4. SpacedBlocks => ProxiesPoint(new, S \cup {s})
  BY <1>1, PerformedProxiesPoint DEF Upgraded
<1>5. SpacedBlocks /\ ~CodeFaults => LogicIsKept(new, S \cup {s})
  BY <1>1, PerformedLogicIsKept DEF Upgraded
<1> QED
  BY <1>2, <1>3, <1>4, <1>5 DEF Upgraded

\* A change of the words of the holders is none of this.
LEMMA SameCodesUpgraded ==
  ASSUME NEW S \in SUBSET AllSteps, NEW old, Upgraded(old, S),
         NEW new \in [Address -> Account],
         \A a \in Address :
           /\ new[a].code = old[a].code
           /\ new[a].slots["admin"] = old[a].slots["admin"]
           /\ new[a].slots["implementation"] = old[a].slots["implementation"]
  PROVE  Upgraded(new, S)
<1>1. ProxiesMatch(new, S)
  BY StepAddresses DEF Upgraded, ProxiesMatch
<1>2. SpacedBlocks => ProxiesPoint(new, S)
  BY DEF Upgraded, ProxiesPoint
<1>3. ASSUME NEW c \in Deployed PROVE Home(c, S) \in Address
  BY FraxMigrationAssumption, StepShape, ImplementationsAreApart DEF Home, IsProxyStep
<1>4. SpacedBlocks /\ ~CodeFaults => LogicIsKept(new, S)
  BY <1>3 DEF Upgraded, LogicIsKept
<1> QED
  BY <1>1, <1>2, <1>4 DEF Upgraded

\* At genesis no step has been executed.
LEMMA GenesisUpgraded == Upgraded([a \in Address |-> GenesisAccount(a)], {})
<1> DEFINE genesis == [a \in Address |-> GenesisAccount(a)]
<1>1. PROXY_ADDR \in Address /\ Nothing # PROXY_ADDR /\ Deployed \subseteq Address
  BY StepAddresses, FraxMigrationAssumption DEF Nothing, PROXY_ADDR
<1>2. ASSUME NEW a \in Address
      PROVE  /\ genesis[a].code = IF a \in Deployed \cup {PROXY_ADDR}
                                  THEN [base |-> a, patches |-> {}] ELSE NoCode
             /\ genesis[a] \in Account
  <2>1. genesis[a].code = IF a \in Deployed \cup {PROXY_ADDR}
                          THEN [base |-> a, patches |-> {}] ELSE NoCode
    BY DEF GenesisAccount, NoAccount
  <2>2. genesis[a].slots \in [Slots -> Word]
    <3>1. Zero \in Word /\ <<"old", 1>> \in Word /\ <<"holders", 0>> \in Word
      BY DEF Zero, Word
    <3> QED
      BY <3>1 DEF GenesisAccount, NoAccount
  <2>3. genesis[a] = [code |-> genesis[a].code, slots |-> genesis[a].slots]
    BY DEF GenesisAccount, NoAccount
  <2>4. genesis[a].code \in Code
    BY <2>1, NaturalCode
  <2> QED
    BY <2>1, <2>2, <2>3, <2>4 DEF Account
<1> HIDE DEF genesis
<1>3. genesis \in [Address -> Account]
  BY <1>2 DEF genesis
<1>4. ASSUME NEW a \in Address \ {PROXY_ADDR} PROVE genesis[a].code.base # PROXY_ADDR
  <2>1. CASE a \in Deployed
    <3>1. genesis[a].code = [base |-> a, patches |-> {}]
      BY <1>2, <2>1
    <3> QED
      BY <3>1
  <2>2. CASE a \notin Deployed
    <3>1. genesis[a].code = NoCode
      BY <1>2, <2>2
    <3> QED
      BY <1>1, <3>1 DEF NoCode
  <2> QED
    BY <2>1, <2>2
<1>5. ProxiesMatch(genesis, {})
  BY <1>1, <1>2, <1>4, StepAddresses DEF ProxiesMatch
<1>6. ProxiesPoint(genesis, {})
  BY <1>4 DEF ProxiesPoint
<1>7. LogicIsKept(genesis, {})
  <2>1. ASSUME NEW c \in Deployed
        PROVE  Home(c, {}) = c /\ LogicAfter(c, {}) = [base |-> c, patches |-> {}]
    <3>1. UNION {StepPatches(s) : s \in {s \in {} : s.account = c}} = {}
      OBVIOUS
    <3> QED
      BY <3>1 DEF Home, LogicAfter
  <2> QED
    BY <1>1, <1>2, <2>1 DEF LogicIsKept
<1>8. Upgraded(genesis, {})
  BY <1>3, <1>5, <1>6, <1>7 DEF Upgraded
<1> QED
  BY <1>8 DEF genesis

----------------------------------------------------------------------------
\* The steps of the program that this block has executed, and all the steps
\* behind the accounts on the disk and in the view of the block.
Executed  == {Program[i] : i \in (1 .. pc - 1) \cap DOMAIN Program}
\* The steps behind the disk, and behind what the block sees.
DiskSteps == StepsOfAll(done)
ViewSteps == DiskSteps \cup Executed

\* Between blocks nothing is cached.
Resting == status # "executing" => cache = << >> /\ pc = 1

\* The steps of a program that have run, one after the other.
LEMMA ProgramProgress ==
  ASSUME TypeOK
  PROVE  /\ Executed \subseteq StepsOfAll(Activating)
         /\ pc > Len(Program) => Executed = StepsOfAll(Activating)
         /\ pc \in DOMAIN Program =>
              /\ Program[pc] \notin Executed
              /\ {Program[i] : i \in (1 .. pc + 1 - 1) \cap DOMAIN Program}
                   = Executed \cup {Program[pc]}
<1>1. /\ Program \in Seq(StepsOfAll(Activating))
      /\ StepsOfAll(Activating) = {Program[i] : i \in 1 .. Len(Program)}
      /\ \A i, j \in 1 .. Len(Program) : Program[i] = Program[j] => i = j
  BY ProgramLists DEF Lists
<1>2. DOMAIN Program = 1 .. Len(Program) /\ Len(Program) \in Nat /\ pc \in Nat
  BY <1>1 DEF TypeOK
<1>3. Executed \subseteq StepsOfAll(Activating)
  BY <1>1, <1>2 DEF Executed
<1>4. ASSUME pc > Len(Program) PROVE Executed = StepsOfAll(Activating)
  <2>1. (1 .. pc - 1) \cap DOMAIN Program = 1 .. Len(Program)
    BY <1>2, <1>4
  <2> QED
    BY <1>1, <2>1 DEF Executed
<1>5. ASSUME pc \in DOMAIN Program
      PROVE  /\ Program[pc] \notin Executed
             /\ {Program[i] : i \in (1 .. pc + 1 - 1) \cap DOMAIN Program}
                  = Executed \cup {Program[pc]}
  <2>1. Program[pc] \notin Executed
    BY <1>1, <1>2, <1>5 DEF Executed
  <2>2. (1 .. pc + 1 - 1) \cap DOMAIN Program = ((1 .. pc - 1) \cap DOMAIN Program) \cup {pc}
    BY <1>2, <1>5
  <2> QED
    BY <2>1, <2>2 DEF Executed
<1> QED
  BY <1>3, <1>4, <1>5

\* A cache that is dropped leaves what is on the disk.
LEMMA DiscardLeavesTheDisk ==
  ASSUME Discard
  PROVE  /\ ViewSteps' = DiskSteps' /\ Resting'
         /\ disk' \in [Address -> Account] => View' = disk'
<1>1. Executed' = {}
  <2>1. (1 .. pc' - 1) \cap DOMAIN Program' = {}
    BY DEF Discard
  <2> QED
    BY <2>1 DEF Executed
<1>2. disk' \in [Address -> Account] => View' = disk'
  BY DEF Discard, View, Current
<1> QED
  BY <1>1, <1>2 DEF ViewSteps, Resting, Discard

\* The steps of sets of forks.
LEMMA StepsAreSteps ==
  /\ \A forks \in SUBSET Forks : StepsOfAll(forks) \subseteq AllSteps
  /\ \A forks, more \in SUBSET Forks :
       StepsOfAll(forks \cup more) = StepsOfAll(forks) \cup StepsOfAll(more)
  /\ \A forks, more \in SUBSET Forks :
       forks \cap more = {} => StepsOfAll(forks) \cap StepsOfAll(more) = {}
  /\ Activating \subseteq Forks
<1>1. ASSUME NEW forks \in SUBSET Forks, NEW more \in SUBSET Forks, forks \cap more = {}
      PROVE  StepsOfAll(forks) \cap StepsOfAll(more) = {}
  <2> SUFFICES ASSUME NEW s \in StepsOfAll(forks), s \in StepsOfAll(more) PROVE FALSE
    OBVIOUS
  <2>1. PICK f \in forks : s \in StepsOf(f)
    BY DEF StepsOfAll
  <2>2. PICK g \in more : s \in StepsOf(g)
    BY DEF StepsOfAll
  <2> QED
    BY <1>1, <2>1, <2>2, StepsOfOneFork
<1> QED
  BY <1>1 DEF StepsOfAll, AllSteps, Activating

\* A block that is 2 seconds away activates no fork that is active already.
LEMMA ActiveForksDoNotActivate ==
  ASSUME TypeOK, NEW f \in Forks, IsActive(activation[f], head), head + 2 <= block
  PROVE  f \notin Activating
<1>1. activation[f] \in Activation /\ head \in Nat /\ block \in Nat
  BY FraxMigrationAssumption DEF TypeOK
<1>2. activation[f] \in Nat /\ activation[f] <= head
  BY <1>1 DEF IsActive, Activation
<1>3. IsActive(activation[f], SaturatingSub(block, 2))
  BY <1>1, <1>2, NeverAssumption DEF IsActive, SaturatingSub
<1> QED
  BY <1>3 DEF Activating, AtTransition

\* A fork whose migration is on the disk is active at the head, and the block in
\* execution is at least a look-back later.
DoneAreActive ==
  /\ \A f \in done : IsActive(activation[f], head)
  /\ SpacedBlocks /\ status = "executing" => head + 2 <= block

\* The chain has the contracts that its tables patch.
PatchedAreDeployed == \A s \in AllSteps : StepPatches(s) # {} => s.account \in Deployed

\* The inductive invariant: what the disk and the view of the block owe to the
\* steps behind them.
MigrationInv ==
  /\ TypeOK
  /\ Resting
  /\ DoneAreActive
  /\ Upgraded(disk, DiskSteps)
  /\ Upgraded(View, ViewSteps)
  /\ SpacedBlocks /\ ~CodeFaults /\ PatchedAreDeployed => status # "panicked"

\* What the block sees is typed, and is the disk when it has loaded nothing.
LEMMA CurrentAccounts ==
  ASSUME TypeOK
  PROVE  /\ View \in [Address -> Account]
         /\ cache = << >> => View = disk
BY DEF TypeOK, View, Current

\* The first state satisfies the invariant.
LEMMA MigrationInit == Init => MigrationInv
<1> SUFFICES ASSUME Init PROVE MigrationInv
  OBVIOUS
<1>1. Upgraded(disk, {})
  BY GenesisUpgraded DEF Init
<1>2. disk \in [Address -> Account]
  BY <1>1 DEF Upgraded
<1>3. TypeOK
  BY <1>2, FraxMigrationAssumption DEF Init, TypeOK
<1>4. DiskSteps = {}
  BY DEF Init, DiskSteps, StepsOfAll
<1>5. ViewSteps = {}
  BY <1>4 DEF Init, ViewSteps, Executed
<1>6. View = disk
  BY <1>3, CurrentAccounts DEF Init
<1> QED
  BY <1>1, <1>3, <1>4, <1>5, <1>6 DEF Init, MigrationInv, Resting, DoneAreActive

\* A patch fits any code that a contract of its own has.
LEMMA NoStepOverruns ==
  ASSUME NEW old, NEW S \in SUBSET AllSteps, Upgraded(old, S),
         SpacedBlocks, ~CodeFaults, PatchedAreDeployed,
         NEW s \in AllSteps \ S, Overruns(s, old)
  PROVE  FALSE
<1>1. PICK patch \in StepPatches(s) : ~Fits(patch, old[s.account].code)
  BY DEF Overruns
<1>2. s.account \in Deployed /\ s.op # "storage"
  BY <1>1 DEF PatchedAreDeployed, StepPatches
<1>3. Home(s.account, S) = s.account
  BY <1>2, OneStepPerAccount DEF Home
<1>4. old[s.account].code.base = s.account
  <2>1. old[s.account].code = LogicAfter(s.account, S)
    BY <1>2, <1>3 DEF Upgraded, LogicIsKept
  <2> QED
    BY <2>1 DEF LogicAfter
<1>5. s.account # PROXY_ADDR /\ s.account # Nothing
  BY StepAddresses DEF Nothing, Address
<1>6. CASE s.op = "proxy"
  <2>1. patch \in Patches \ {Naming}
    BY <1>1, <1>6, StepShape DEF StepPatches, IsProxyStep
  <2>2. patch.end \in Nat /\ patch.end <= 14014
    BY <2>1 DEF Patches, FRXUSD_L1, SFRXUSD_L1
  <2>3. CodeLength(old[s.account].code) \in {14014, 24576}
    BY <1>4, <1>5 DEF CodeLength
  <2> QED
    BY <1>1, <2>2, <2>3 DEF Fits
<1>7. CASE s.op # "proxy"
  <2>1. s.account = <<"63eb78", 4>> /\ patch = Naming
    BY <1>1, <1>7, StepShape DEF StepPatches, IsProxyStep, IsOtherStep
  <2>2. CodeLength(old[s.account].code) = 24576
    BY <1>4, <1>5, <2>1 DEF CodeLength, FRAX_ADDR, SFRAX_ADDR
  <2> QED
    BY <1>1, <2>1, <2>2 DEF Fits, Naming
<1> QED
  BY <1>6, <1>7

\* One step of the program, a transaction and the seal of a block, as the view
\* shows them.
LEMMA StepAdvances ==
  ASSUME TypeOK, pc \in DOMAIN Program, pc' = pc + 1,
         UNCHANGED <<activation, done, block>>
  PROVE  ViewSteps' = ViewSteps \cup {Program[pc]} /\ DiskSteps' = DiskSteps
<1>1. Program' = Program
  BY DEF Program, Steps
<1>2. Executed' = Executed \cup {Program[pc]}
  BY <1>1, ProgramProgress DEF Executed
<1> QED
  BY <1>2 DEF ViewSteps, DiskSteps

\* A transaction changes only holders.
LEMMA TransactEffect ==
  ASSUME TypeOK, NEW c, Transact(c)
  PROVE  /\ status = "executing"
         /\ UNCHANGED <<activation, disk, head, done, block, pc, status, faults>>
         /\ ViewSteps' = ViewSteps /\ DiskSteps' = DiskSteps
         /\ View' \in [Address -> Account]
         /\ \A a \in Address :
              /\ View'[a].code = View[a].code
              /\ \A w \in Slots \ {"holders"} : View'[a].slots[w] = View[a].slots[w]
         /\ \A a \in DOMAIN cache' : a \in Address /\ cache'[a] \in Account
<1> DEFINE account == [Current(c) EXCEPT !.slots["holders"] = <<"holders", block>>]
<1>1. View \in [Address -> Account]
  BY CurrentAccounts
<1>2. /\ c \in Address /\ status = "executing"
      /\ cache' = [Loaded({c}) EXCEPT ![c].slots["holders"] = <<"holders", block>>]
      /\ UNCHANGED <<activation, disk, head, done, block, pc, status, faults>>
  BY FraxMigrationAssumption DEF Transact, Migrated
<1>3. /\ account \in Account /\ account.code = Current(c).code
      /\ \A w \in Slots \ {"holders"} : account.slots[w] = Current(c).slots[w]
  <2>1. Current(c) \in Account
    BY <1>1, <1>2 DEF View
  <2>2. <<"holders", block>> \in Word
    BY DEF TypeOK, Word
  <2> QED
    BY <2>1, <2>2 DEF Account, Slots
<1>4. /\ DOMAIN cache' = DOMAIN cache \cup {c}
      /\ \A a \in DOMAIN cache \cup {c} :
           cache'[a] = IF a = c THEN account ELSE Current(a)
  BY <1>2 DEF Loaded
<1> HIDE DEF account
<1>5. \A a \in Address : View'[a] = IF a = c THEN account ELSE View[a]
  BY <1>2, <1>4 DEF View, Current
<1>6. View' \in [Address -> Account]
  <2>1. View' = [a \in Address |-> View'[a]]
    BY DEF View
  <2> QED
    BY <1>1, <1>3, <1>5, <2>1
<1>7. ViewSteps' = ViewSteps /\ DiskSteps' = DiskSteps
  BY <1>2 DEF ViewSteps, DiskSteps, Executed, Program, Steps
<1>8. View[c] = Current(c)
  BY <1>2 DEF View
<1>9. ASSUME NEW a \in DOMAIN cache' PROVE a \in Address /\ cache'[a] \in Account
  BY <1>2, <1>3, <1>4, <1>9 DEF TypeOK, Current
<1>10. \A a \in Address :
         /\ View'[a].code = View[a].code
         /\ \A w \in Slots \ {"holders"} : View'[a].slots[w] = View[a].slots[w]
  BY <1>3, <1>5, <1>8
<1> QED
  BY <1>2, <1>6, <1>7, <1>9, <1>10

\* A seal makes what the block sees the disk, and the activating forks done.
LEMMA SealEffect ==
  ASSUME TypeOK, Seal
  PROVE  /\ Discard /\ disk' = View /\ head' = block /\ done' = done \cup Activating
         /\ status = "executing" /\ status' = "idle"
         /\ UNCHANGED <<activation, block, faults>>
         /\ View' = disk' /\ DiskSteps' = ViewSteps /\ ViewSteps' = DiskSteps'
<1>1. /\ Discard /\ disk' = View /\ head' = block /\ done' = done \cup Activating
      /\ status = "executing" /\ status' = "idle" /\ UNCHANGED <<activation, block, faults>>
      /\ pc > Len(Program)
  BY DEF Seal, Migrated, View, Activating
<1>2. View \in [Address -> Account]
  BY CurrentAccounts
<1>3. ViewSteps' = DiskSteps' /\ View' = disk'
  BY <1>1, <1>2, DiscardLeavesTheDisk
<1>4. DiskSteps' = ViewSteps
  <2>1. Executed = StepsOfAll(Activating)
    BY <1>1, ProgramProgress
  <2>2. done \in SUBSET Forks /\ Activating \in SUBSET Forks
    BY StepsAreSteps DEF TypeOK
  <2>3. StepsOfAll(done \cup Activating) = StepsOfAll(done) \cup StepsOfAll(Activating)
    BY <2>2, StepsAreSteps
  <2> QED
    BY <1>1, <2>1, <2>3 DEF ViewSteps, DiskSteps
<1> QED
  BY <1>1, <1>3, <1>4

\* A step of a transition keeps the invariant.
LEMMA MigrationStep ==
  ASSUME MigrationInv, TransitionStep
  PROVE  MigrationInv'
<1> DEFINE s == Program[pc]
<1>1. /\ Migrating /\ UNCHANGED <<activation, disk, head, done, block>>
      /\ faults' \in 0 .. MaxFaults
      /\ pc \in DOMAIN Program /\ s \in AllSteps /\ s \in StepsOfAll(Activating)
      /\ \/ Panic /\ Overruns(s, View)
         \/ /\ pc' = pc + 1 /\ status' = status
            /\ DOMAIN cache' \subseteq Address
            /\ Performs(s, View, View')
  <2>1. TypeOK /\ faults \in 0 .. MaxFaults /\ MaxFaults \in Nat
    BY FraxMigrationAssumption DEF MigrationInv, TypeOK
  <2>2. faults' = faults \/ (faults > 0 /\ faults' = faults - 1)
    BY <2>1, StepPerforms
  <2>3. faults' \in 0 .. MaxFaults
    BY <2>1, <2>2
  <2> HIDE DEF s
  <2> QED
    BY <2>1, <2>3, StepPerforms DEF s
<1>2. Upgraded(disk, DiskSteps)' /\ DiskSteps' = DiskSteps /\ disk' \in [Address -> Account]
  BY <1>1 DEF MigrationInv, DiskSteps, Upgraded
<1>3. /\ ViewSteps \subseteq AllSteps
      /\ SpacedBlocks => s \notin ViewSteps
  <2>1. Executed \subseteq StepsOfAll(Activating) /\ s \notin Executed
    BY <1>1, ProgramProgress DEF MigrationInv
  <2>2. SpacedBlocks => done \cap Activating = {}
    BY <1>1, ActiveForksDoNotActivate DEF MigrationInv, DoneAreActive, Migrating, TypeOK
  <2>3. done \subseteq Forks
    BY DEF MigrationInv, TypeOK
  <2> QED
    BY <1>1, <2>1, <2>2, <2>3, StepsAreSteps DEF ViewSteps, DiskSteps
<1>4. DoneAreActive'
  BY <1>1 DEF MigrationInv, DoneAreActive, Panic, Migrating
<1>5. CASE Panic /\ Overruns(s, View)
  <2>1. ~(SpacedBlocks /\ ~CodeFaults /\ PatchedAreDeployed)
    BY <1>1, <1>3, <1>5, NoStepOverruns DEF MigrationInv
  <2>2. TypeOK'
    BY <1>1, <1>5 DEF MigrationInv, TypeOK, Panic, Discard
  <2>3. ViewSteps' = DiskSteps' /\ Resting' /\ View' = disk'
    BY <1>2, <1>5, DiscardLeavesTheDisk DEF Panic
  <2> QED
    BY <1>2, <1>4, <2>1, <2>2, <2>3 DEF MigrationInv
<1>6. CASE /\ pc' = pc + 1 /\ status' = status
           /\ DOMAIN cache' \subseteq Address
           /\ Performs(s, View, View')
  <2>1. ViewSteps' = ViewSteps \cup {s}
    BY <1>1, <1>6, StepAdvances DEF MigrationInv
  <2>2. Upgraded(View', ViewSteps \cup {s})
    BY <1>1, <1>3, <1>6, PerformedUpgraded DEF MigrationInv
  <2>3. Upgraded(View, ViewSteps)'
    BY <2>1, <2>2
  <2>4. TypeOK'
    <3>1. View' \in [Address -> Account]
      BY <2>2 DEF Upgraded
    <3>2. ASSUME NEW a \in DOMAIN cache' PROVE cache'[a] \in Account
      <4>1. a \in Address /\ View'[a] = cache'[a]
        BY <1>6, <3>2 DEF View, Current
      <4> QED
        BY <3>1, <4>1
    <3> QED
      BY <1>1, <1>6, <3>2 DEF MigrationInv, TypeOK
  <2>5. Resting' /\ status' = "executing"
    BY <1>1, <1>6 DEF Resting, Migrating
  <2> QED
    BY <1>2, <1>4, <2>3, <2>4, <2>5 DEF MigrationInv
<1> QED
  BY <1>1, <1>5, <1>6

\* Every step of the executor and of its surroundings keeps the invariant.
LEMMA MigrationNext == MigrationInv /\ [Next]_vars => MigrationInv'
<1> SUFFICES ASSUME MigrationInv, [Next]_vars PROVE MigrationInv'
  OBVIOUS
<1>1. /\ TypeOK
      /\ disk \in [Address -> Account] /\ View \in [Address -> Account]
  BY FraxMigrationAssumption, CurrentAccounts DEF MigrationInv, TypeOK
<1>2. CASE \E gap \in BlockTimes : BeginBlock(gap)
  <2>1. PICK gap \in BlockTimes : BeginBlock(gap)
    BY <1>2
  <2>2. gap \in Nat \ {0} /\ (SpacedBlocks => gap >= 2)
    BY FraxMigrationAssumption DEF SpacedBlocks
  <2>3. /\ Discard /\ UNCHANGED <<activation, disk, head, done, faults>>
        /\ status' = "executing" /\ block' = head + gap
    BY <2>1 DEF BeginBlock
  <2>4. TypeOK'
    BY <1>1, <2>2, <2>3 DEF TypeOK, Discard
  <2>5. DoneAreActive'
    BY <1>1, <2>2, <2>3 DEF MigrationInv, DoneAreActive, TypeOK
  <2>6. ViewSteps' = DiskSteps' /\ Resting' /\ View' = disk'
    BY <1>1, <2>3, DiscardLeavesTheDisk
  <2>7. Upgraded(disk, DiskSteps)'
    BY <2>3 DEF MigrationInv, DiskSteps
  <2> QED
    BY <2>3, <2>4, <2>5, <2>6, <2>7 DEF MigrationInv
<1>3. CASE TransitionStep
  BY <1>3, MigrationStep
<1>4. CASE Abandon
  <2>1. /\ Discard /\ UNCHANGED <<activation, disk, head, done, block>>
        /\ status' = "idle" /\ faults > 0 /\ faults' = faults - 1
    BY <1>4 DEF Abandon
  <2>2. TypeOK'
    BY <1>1, <2>1, FraxMigrationAssumption DEF TypeOK, Discard
  <2>3. DoneAreActive'
    BY <2>1 DEF MigrationInv, DoneAreActive
  <2>4. ViewSteps' = DiskSteps' /\ Resting' /\ View' = disk'
    BY <1>1, <2>1, DiscardLeavesTheDisk
  <2>5. Upgraded(disk, DiskSteps)'
    BY <2>1 DEF MigrationInv, DiskSteps
  <2> QED
    BY <2>1, <2>2, <2>3, <2>4, <2>5 DEF MigrationInv
<1>5. CASE \E contract \in {FRAX_ADDR, <<"fc0000", 2>>} : Transact(contract)
  <2>1. PICK c \in {FRAX_ADDR, <<"fc0000", 2>>} : Transact(c)
    BY <1>5
  <2>2. /\ status = "executing"
        /\ UNCHANGED <<activation, disk, head, done, block, pc, status, faults>>
        /\ ViewSteps' = ViewSteps /\ DiskSteps' = DiskSteps
        /\ View' \in [Address -> Account]
        /\ \A a \in Address :
             /\ View'[a].code = View[a].code
             /\ \A w \in Slots \ {"holders"} : View'[a].slots[w] = View[a].slots[w]
        /\ \A a \in DOMAIN cache' : a \in Address /\ cache'[a] \in Account
    BY <1>1, <2>1, TransactEffect
  <2>3. ViewSteps \subseteq AllSteps
    BY <1>1, ProgramProgress, StepsAreSteps DEF ViewSteps, DiskSteps, TypeOK
  <2>4. Upgraded(View', ViewSteps)
    <3>1. \A a \in Address :
            /\ View'[a].code = View[a].code
            /\ View'[a].slots["admin"] = View[a].slots["admin"]
            /\ View'[a].slots["implementation"] = View[a].slots["implementation"]
      BY <2>2 DEF Slots
    <3> QED
      BY <2>2, <2>3, <3>1, SameCodesUpgraded DEF MigrationInv
  <2>5. TypeOK'
    BY <1>1, <2>2 DEF TypeOK
  <2>6. DoneAreActive' /\ Resting'
    BY <2>2 DEF MigrationInv, DoneAreActive, Resting
  <2>7. Upgraded(disk, DiskSteps)' /\ Upgraded(View, ViewSteps)'
    BY <2>2, <2>4 DEF MigrationInv
  <2> QED
    BY <2>2, <2>5, <2>6, <2>7 DEF MigrationInv
<1>6. CASE Seal
  <2>1. /\ Discard /\ disk' = View /\ head' = block /\ done' = done \cup Activating
        /\ status' = "idle" /\ UNCHANGED <<activation, block, faults>>
        /\ View' = disk' /\ DiskSteps' = ViewSteps /\ ViewSteps' = DiskSteps'
    BY <1>1, <1>6, SealEffect
  <2>2. TypeOK'
    BY <1>1, <2>1, StepsAreSteps DEF TypeOK, Discard
  <2>3. DoneAreActive'
    <3>1. ASSUME NEW f \in done' PROVE IsActive(activation[f], block)
      <4>1. CASE f \in Activating
        BY <4>1 DEF Activating, AtTransition
      <4>2. CASE f \in done
        <5>1. activation[f] \in Activation /\ head \in Nat /\ block \in Nat /\ head <= block
          BY <1>1, <4>2, FraxMigrationAssumption DEF TypeOK
        <5>2. IsActive(activation[f], head)
          BY <4>2 DEF MigrationInv, DoneAreActive
        <5> QED
          BY <5>1, <5>2 DEF IsActive, Activation
      <4> QED
        BY <2>1, <4>1, <4>2
    <3> QED
      BY <2>1, <3>1 DEF DoneAreActive
  <2>4. Resting'
    BY <2>1, DiscardLeavesTheDisk
  <2>5. Upgraded(disk', DiskSteps')
    BY <2>1 DEF MigrationInv
  <2> QED
    BY <2>1, <2>2, <2>3, <2>4, <2>5 DEF MigrationInv
<1>7. CASE UNCHANGED vars
  <2>1. /\ TypeOK' /\ Resting' /\ DoneAreActive'
        /\ View' = View /\ ViewSteps' = ViewSteps /\ DiskSteps' = DiskSteps
        /\ disk' = disk /\ status' = status
    BY <1>7 DEF vars, MigrationInv, TypeOK, Resting, DoneAreActive, View, Current,
                ViewSteps, DiskSteps, Executed, Program, Steps
  <2> QED
    BY <2>1 DEF MigrationInv
<1> QED
  BY <1>2, <1>3, <1>4, <1>5, <1>6, <1>7 DEF Next, TransitionStep

\* The invariant holds.
LEMMA MigrationInvariant == Spec => []MigrationInv
BY MigrationInit, MigrationNext, PTL DEF Spec

\* The variables keep their types: what the transitions load, patch and commit are
\* accounts of the chain, for every chain id and every activation.
THEOREM TypeCorrect == Spec => []TypeOK
<1>1. MigrationInv => TypeOK
  BY DEF MigrationInv
<1> QED
  BY <1>1, MigrationInvariant, PTL

\* The invariant implies that a fork is on the disk with all its proxies or none.
LEMMA MigrationIsAllOrNothing == MigrationInv => AllOrNothing
<1> SUFFICES ASSUME MigrationInv, NEW f \in Forks, NEW c \in ProxyAccounts(f)
             PROVE  IsProxy(c) <=> f \in done
  BY DEF AllOrNothing
<1>1. PICK i \in DOMAIN Transitions[f] :
        Transitions[f][i].op = "proxy" /\ c = Transitions[f][i].account
  BY DEF ProxyAccounts
<1> DEFINE s == Transitions[f][i]
<1>2. s \in StepsOf(f) /\ s \in AllSteps
  BY DEF StepsOf, AllSteps
<1>3. IsProxy(c) <=> s \in DiskSteps
  BY <1>1, <1>2 DEF MigrationInv, Upgraded, ProxiesMatch, IsProxy
<1>4. s \in DiskSteps <=> f \in done
  BY <1>2, StepsOfOneFork DEF DiskSteps, StepsOfAll, MigrationInv, TypeOK
<1> QED
  BY <1>3, <1>4

\* At every moment the disk has every proxy of a fork that is done and none of a
\* fork that is not: a fault, a panic or a crash between two steps of a block leaves
\* no part of its work behind.  It holds for any block times and code faults.
THEOREM MigrationAllOrNothing == Spec => []AllOrNothing
BY MigrationIsAllOrNothing, MigrationInvariant, PTL

\* Blocks are no further apart than the look-back of the transition test.
PromptBlocks == \A gap \in BlockTimes : gap <= 2

\* The forks that a chain has crossed at a time.
CrossedAt(time) ==
  {f \in Forks : IsActive(activation[f], time) /\ ~IsActive(activation[f], 0)}

\* The head has the migrations of all forks crossed, and the block in execution can
\* look back to it.
HeadInv ==
  /\ done = CrossedAt(head)
  /\ status = "executing" => block <= head + 2

\* A fork crossed between the head and a block that looks back to it is one that the
\* transition test finds.
LEMMA SealCrosses ==
  ASSUME TypeOK, block <= head + 2, done = CrossedAt(head)
  PROVE  done \cup Activating = CrossedAt(block)
<1>1. head \in Nat /\ block \in Nat /\ head <= block
  BY DEF TypeOK
<1>2. ASSUME NEW f \in Forks
      PROVE  f \in done \/ f \in Activating <=> f \in CrossedAt(block)
  <2>1. activation[f] \in Activation
    BY FraxMigrationAssumption DEF TypeOK
  <2>2. CASE activation[f] = Never
    BY <2>2 DEF CrossedAt, Activating, AtTransition, IsActive
  <2>3. CASE activation[f] \in Nat
    <3>1. activation[f] # Never
      BY <2>3, NeverAssumption
    <3>2. f \in done <=> activation[f] <= head /\ activation[f] > 0
      BY <1>1, <2>3, <3>1 DEF CrossedAt, IsActive
    <3>3. f \in CrossedAt(block) <=> activation[f] <= block /\ activation[f] > 0
      BY <1>1, <2>3, <3>1 DEF CrossedAt, IsActive
    <3>4. f \in Activating <=>
            activation[f] <= block /\ activation[f] > SaturatingSub(block, 2)
      BY <1>1, <2>3, <3>1 DEF Activating, AtTransition, IsActive, SaturatingSub
    <3> QED
      BY <1>1, <2>3, <3>2, <3>3, <3>4 DEF SaturatingSub
  <2> QED
    BY <2>1, <2>2, <2>3 DEF Activation
<1>3. done \subseteq Forks /\ Activating \subseteq Forks /\ CrossedAt(block) \subseteq Forks
  BY DEF TypeOK, Activating, CrossedAt
<1> QED
  BY <1>2, <1>3

LEMMA HeadInit == Init => HeadInv
<1> SUFFICES ASSUME Init PROVE done = CrossedAt(0)
  BY DEF Init, HeadInv
<1> QED
  BY DEF Init, CrossedAt

\* Steps of a block leave head and forks alone; a seal crosses what lies between.
LEMMA HeadStep ==
  ASSUME PromptBlocks, MigrationInv, HeadInv, [Next]_vars
  PROVE  HeadInv'
<1>1. TypeOK
  BY DEF MigrationInv
<1>2. CASE \E gap \in BlockTimes : BeginBlock(gap)
  <2>1. PICK gap \in BlockTimes : BeginBlock(gap)
    BY <1>2
  <2>2. gap \in Nat /\ gap <= 2 /\ head \in Nat
    BY <1>1, FraxMigrationAssumption DEF PromptBlocks, TypeOK
  <2>3. block' = head + gap /\ UNCHANGED <<activation, head, done>>
    BY <2>1 DEF BeginBlock
  <2> QED
    BY <2>2, <2>3 DEF HeadInv, CrossedAt
<1>3. CASE TransitionStep \/ Abandon \/ UNCHANGED vars
           \/ \E contract \in {FRAX_ADDR, <<"fc0000", 2>>} : Transact(contract)
  <2>1. UNCHANGED <<activation, head, done, block>>
    BY <1>3 DEF TransitionStep, DeployCreate2, MigrateToProxy, ChangeByteCode, ChangeStorage,
                Step, Abandon, Transact, vars
  <2>2. status' = "executing" => status = "executing"
    BY <1>3 DEF TransitionStep, DeployCreate2, MigrateToProxy, ChangeByteCode, ChangeStorage,
                Step, Migrating, Abandon, Transact, Migrated, vars
  <2> QED
    BY <2>1, <2>2 DEF HeadInv, CrossedAt
<1>4. CASE Seal
  <2>1. /\ head' = block /\ done' = done \cup Activating /\ UNCHANGED activation
        /\ status = "executing" /\ status' = "idle"
    BY <1>1, <1>4, SealEffect
  <2>2. done \cup Activating = CrossedAt(block)
    BY <1>1, <2>1, SealCrosses DEF HeadInv
  <2> QED
    BY <2>1, <2>2 DEF HeadInv, CrossedAt
<1> QED
  BY <1>2, <1>3, <1>4 DEF Next, TransitionStep

\* The disk has the proxies of the forks that the head has crossed.
LEMMA CrossedAreProxies == MigrationInv /\ HeadInv => ProxiesFollowHead
<1> SUFFICES ASSUME MigrationInv, HeadInv, NEW f \in Forks, NEW c \in ProxyAccounts(f)
             PROVE  IsProxy(c) <=> IsActive(activation[f], head) /\ ~IsActive(activation[f], 0)
  BY DEF ProxiesFollowHead
<1>1. IsProxy(c) <=> f \in done
  BY MigrationIsAllOrNothing DEF AllOrNothing
<1> QED
  BY <1>1 DEF HeadInv, CrossedAt

\* A contract of the tables is a proxy exactly when the head is at or past the
\* activation of its fork: no transition is missed and none comes early, whatever
\* failed on the way.  Blocks are two seconds apart or less, as the transition test
\* assumes.
THEOREM MigrationFollowsHead ==
  ASSUME PromptBlocks
  PROVE  Spec => []ProxiesFollowHead
<1>1. MigrationInv /\ HeadInv /\ [Next]_vars => HeadInv'
  BY HeadStep
<1> QED
  BY <1>1, HeadInit, CrossedAreProxies, MigrationInvariant, PTL DEF Spec

\* The invariant implies that a proxy has its admin and its implementation.
LEMMA MigrationProxiesAreSound == MigrationInv /\ SpacedBlocks => ProxiesAreSound
<1> SUFFICES ASSUME MigrationInv, SpacedBlocks, NEW c \in Address \ {PROXY_ADDR}, IsProxy(c)
             PROVE  /\ disk[c].slots["admin"] = PROXY_ADDR
                    /\ disk[c].slots["implementation"] \in Address
                    /\ ~IsProxy(disk[c].slots["implementation"])
                    /\ \A d \in Address \ {PROXY_ADDR, c} : IsProxy(d) =>
                         disk[d].slots["implementation"] # disk[c].slots["implementation"]
  BY DEF ProxiesAreSound
<1>1. DiskSteps \subseteq AllSteps
  BY StepsAreSteps DEF MigrationInv, TypeOK, DiskSteps
<1>2. ASSUME NEW a \in Address \ {PROXY_ADDR}, IsProxy(a)
      PROVE  /\ a \in ProxiedSomewhere
             /\ disk[a].slots["admin"] = PROXY_ADDR
             /\ disk[a].slots["implementation"] = ImplementationOf(a)
  BY <1>1, <1>2, StepShape DEF MigrationInv, Upgraded, ProxiesPoint, IsProxy, IsProxyStep
<1>3. /\ ImplementationOf(c) \in Address /\ ImplementationOf(c) # PROXY_ADDR
      /\ ImplementationOf(c)[1] = "fcc0d3"
  BY <1>2, ImplementationsAreApart
<1>4. ~IsProxy(ImplementationOf(c))
  BY <1>2, <1>3, ImplementationsAreApart
<1>5. \A d \in Address \ {PROXY_ADDR, c} : IsProxy(d) =>
         disk[d].slots["implementation"] # disk[c].slots["implementation"]
  BY <1>2, ImplementationsAreApart
<1> QED
  BY <1>2, <1>3, <1>4, <1>5

\* A contract on the disk that runs the proxy code has the shared admin and an
\* implementation of its own, which is no proxy.  Blocks are two seconds apart or
\* more, as the transition test assumes: a fork would run twice otherwise.
THEOREM MigrationMakesSoundProxies ==
  ASSUME SpacedBlocks
  PROVE  Spec => []ProxiesAreSound
<1>1. MigrationInv => ProxiesAreSound
  BY MigrationProxiesAreSound
<1> QED
  BY <1>1, MigrationInvariant, PTL

\* No transition indexes past the end of a code: every patch of the tables is applied
\* to a code that is there.  The chain has the contracts that its tables patch, and
\* a code that is in the database is read.
THEOREM TransitionsNeverPanic ==
  ASSUME SpacedBlocks, CodeFaults = FALSE, PatchedAreDeployed
  PROVE  Spec => []NeverPanics
<1>1. MigrationInv => NeverPanics
  BY DEF MigrationInv, NeverPanics
<1> QED
  BY <1>1, MigrationInvariant, PTL

\* A step of a transition keeps what the holders of a token have.
LEMMA StepLeavesHolders ==
  ASSUME MigrationInv, [Next]_vars, Migrating, pc' = pc + 1, NEW c \in Deployed
  PROVE  Current(c)'.slots["holders"] = Current(c).slots["holders"]
<1>1. TypeOK /\ pc \in Nat /\ pc # 0
  BY DEF MigrationInv, TypeOK
<1>2. TransitionStep /\ ~Panic
  BY <1>1 DEF Next, TransitionStep, BeginBlock, Abandon, Transact, Seal, Discard,
              Migrating, Migrated, Panic, vars
<1>3. Program[pc] \in AllSteps /\ Performs(Program[pc], View, View')
  BY <1>1, <1>2, StepPerforms
<1>4. View \in [Address -> Account]
  BY <1>1, CurrentAccounts
<1>5. Effects(Program[pc], View, View')
  BY <1>3, <1>4, PerformsEffect
<1>6. c \in Address
  BY FraxMigrationAssumption
<1>7. View'[c].slots["holders"] = View[c].slots["holders"]
  BY <1>5, <1>6 DEF Effects
<1> QED
  BY <1>6, <1>7 DEF View

\* No transition changes a holder's word of a contract, though it replaces the code
\* and other words of the same account.
THEOREM MigrationLeavesHolders == Spec => HoldersUntouched
<1>1. MigrationInv /\ [Next]_vars =>
        [Migrating /\ pc' = pc + 1 =>
           \A c \in Deployed :
             Current(c)'.slots["holders"] = Current(c).slots["holders"]]_vars
  BY StepLeavesHolders
<1> QED
  BY <1>1, MigrationInvariant, PTL DEF Spec, HoldersUntouched

----------------------------------------------------------------------------
\* What the callers can tell of the contracts is what the migrations that are
\* done make of them.
CallersSeeDone ==
  [c \in Deployed |->
     [original    |-> Logic(c).base = c,
      patches     |-> Logic(c).patches,
      upgradeable |-> IsProxy(c)]] = Promise!After(done)

\* The patches that a fork applies to a contract are those of its steps.
LEMMA PatchesOfSteps ==
  ASSUME NEW f \in Forks, NEW c
  PROVE  PatchesOf(f, c) = UNION {StepPatches(s) : s \in {s \in StepsOf(f) : s.account = c}}
<1> DEFINE table == Transitions[f]
           places == {i \in DOMAIN table : table[i].account = c}
           patches(i) == IF table[i].op = "proxy" THEN table[i].patches
                         ELSE IF table[i].op = "code" THEN {table[i].patch} ELSE {}
<1>1. PatchesOf(f, c) = UNION {patches(i) : i \in places}
  BY DEF PatchesOf
<1>2. \A i : patches(i) = StepPatches(table[i])
  BY DEF StepPatches
<1> HIDE DEF patches
<1>3. UNION {patches(i) : i \in places} = UNION {StepPatches(table[i]) : i \in places}
  BY <1>2
<1>4. {s \in StepsOf(f) : s.account = c} = {table[i] : i \in places}
  BY DEF StepsOf
<1> HIDE DEF table
<1>5. UNION {StepPatches(s) : s \in {table[i] : i \in places}}
        = UNION {StepPatches(table[i]) : i \in places}
  OBVIOUS
<1> QED
  BY <1>1, <1>3, <1>4, <1>5

\* The same for a set of forks.
LEMMA PatchesOfAllSteps ==
  ASSUME NEW forks \in SUBSET Forks, NEW c
  PROVE  UNION {StepPatches(s) : s \in {s \in StepsOfAll(forks) : s.account = c}}
           = UNION {PatchesOf(f, c) : f \in forks}
<1> DEFINE left  == UNION {StepPatches(s) : s \in {s \in StepsOfAll(forks) : s.account = c}}
           right == UNION {PatchesOf(f, c) : f \in forks}
<1>1. ASSUME NEW x \in left PROVE x \in right
  <2>1. PICK s \in StepsOfAll(forks) : s.account = c /\ x \in StepPatches(s)
    OBVIOUS
  <2>2. PICK f \in forks : s \in StepsOf(f)
    BY <2>1 DEF StepsOfAll
  <2>3. x \in PatchesOf(f, c)
    BY <2>1, <2>2, PatchesOfSteps
  <2> QED
    BY <2>2, <2>3
<1>2. ASSUME NEW x \in right PROVE x \in left
  <2>1. PICK f \in forks : x \in PatchesOf(f, c)
    OBVIOUS
  <2>2. PICK s \in StepsOf(f) : s.account = c /\ x \in StepPatches(s)
    BY <2>1, PatchesOfSteps
  <2>3. s \in StepsOfAll(forks)
    BY <2>1, <2>2 DEF StepsOfAll
  <2> QED
    BY <2>2, <2>3
<1> QED
  BY <1>1, <1>2

\* The invariant gives what the callers of a contract see: its own logic, with the
\* patches of the forks that are done.
LEMMA MigrationIsSeen ==
  ASSUME SpacedBlocks, CodeFaults = FALSE
  PROVE  MigrationInv => CallersSeeDone
<1> SUFFICES ASSUME MigrationInv PROVE CallersSeeDone
  OBVIOUS
<1>1. /\ done \in SUBSET Forks /\ DiskSteps \subseteq AllSteps
      /\ DiskSteps = StepsOfAll(done)
  BY StepsAreSteps DEF MigrationInv, TypeOK, DiskSteps
<1>2. /\ ProxiesMatch(disk, DiskSteps) /\ ProxiesPoint(disk, DiskSteps)
      /\ LogicIsKept(disk, DiskSteps)
  BY DEF MigrationInv, Upgraded
<1>3. ASSUME NEW c \in Deployed
      PROVE  /\ Logic(c) = LogicAfter(c, DiskSteps)
             /\ IsProxy(c) <=> \E f \in done : c \in ProxyAccounts(f) \cap Deployed
  <2>1. c \in Address \ {PROXY_ADDR}
    BY FraxMigrationAssumption
  <2>2. disk[Home(c, DiskSteps)].code = LogicAfter(c, DiskSteps)
    BY <1>2 DEF LogicIsKept
  <2>3. IsProxy(c) <=> \E s \in DiskSteps : s.op = "proxy" /\ s.account = c
    BY <1>1, <1>2, <2>1 DEF ProxiesMatch, ProxiesPoint, IsProxy
  <2>4. (\E s \in DiskSteps : s.op = "proxy" /\ s.account = c)
          <=> \E f \in done : c \in ProxyAccounts(f)
    BY <1>1 DEF StepsOfAll, StepsOf, ProxyAccounts
  <2>5. CASE IsProxy(c)
    <3>1. PICK s \in DiskSteps : /\ s.op = "proxy" /\ s.account = c
                                /\ disk[c].slots["implementation"] = s.implementation
      BY <1>2, <2>1, <2>5 DEF ProxiesPoint, IsProxy
    <3>2. s.implementation = ImplementationOf(c) /\ ImplementationOf(c) \in Address
      BY <1>1, <3>1, StepShape, ImplementationsAreApart DEF IsProxyStep
    <3>3. Home(c, DiskSteps) = ImplementationOf(c)
      BY <3>1 DEF Home
    <3>4. Logic(c) = disk[ImplementationOf(c)].code
      BY <2>5, <3>1, <3>2 DEF Logic
    <3> QED
      BY <2>2, <2>3, <2>4, <3>3, <3>4
  <2>6. CASE ~IsProxy(c)
    <3>1. Home(c, DiskSteps) = c
      BY <2>3, <2>6 DEF Home
    <3>2. Logic(c) = disk[c].code
      BY <2>6 DEF Logic
    <3> QED
      BY <2>2, <2>3, <2>4, <3>1, <3>2
  <2> QED
    BY <2>5, <2>6
<1>4. ASSUME NEW c \in Deployed
      PROVE  [original |-> Logic(c).base = c, patches |-> Logic(c).patches,
              upgradeable |-> IsProxy(c)]
               = [original    |-> TRUE,
                  patches     |-> UNION {PatchesOf(f, c) : f \in done},
                  upgradeable |-> \E f \in done : c \in ProxyAccounts(f) \cap Deployed]
  <2>1. /\ Logic(c).base = c
        /\ Logic(c).patches
             = UNION {StepPatches(s) : s \in {s \in DiskSteps : s.account = c}}
    BY <1>3 DEF LogicAfter
  <2>2. Logic(c).patches = UNION {PatchesOf(f, c) : f \in done}
    BY <1>1, <2>1, PatchesOfAllSteps
  <2>3. (Logic(c).base = c) = TRUE
    BY <2>1
  <2>4. IsProxy(c) = (\E f \in done : c \in ProxyAccounts(f) \cap Deployed)
    BY <1>3, Zenon DEF IsProxy
  <2> QED
    BY <2>2, <2>3, <2>4, Zenon
<1>5. Promise!After(done) =
        [c \in Deployed |->
           [original    |-> TRUE,
            patches     |-> UNION {PatchesOf(f, c) : f \in done},
            upgradeable |-> \E f \in done : c \in ProxyAccounts(f) \cap Deployed]]
  <2>1. \A c \in Deployed : \A f \in done :
           /\ [g \in Forks |-> [d \in Deployed |-> PatchesOf(g, d)]][f][c] = PatchesOf(f, c)
           /\ [g \in Forks |-> ProxyAccounts(g) \cap Deployed][f] = ProxyAccounts(f) \cap Deployed
    BY <1>1
  <2> DEFINE patched(f)  == [g \in Forks |-> [d \in Deployed |-> PatchesOf(g, d)]][f]
             upgraded(f) == [g \in Forks |-> ProxyAccounts(g) \cap Deployed][f]
  <2>2. Promise!After(done) =
          [c \in Deployed |->
             [original    |-> TRUE,
              patches     |-> UNION {patched(f)[c] : f \in done},
              upgradeable |-> \E f \in done : c \in upgraded(f)]]
    BY DEF Promise!After
  <2> HIDE DEF patched, upgraded
  <2>3. \A c \in Deployed : \A f \in done :
          patched(f)[c] = PatchesOf(f, c) /\ upgraded(f) = ProxyAccounts(f) \cap Deployed
    BY <2>1 DEF patched, upgraded
  <2>4. ASSUME NEW c \in Deployed
        PROVE  /\ {patched(f)[c] : f \in done} = {PatchesOf(f, c) : f \in done}
               /\ (\E f \in done : c \in upgraded(f))
                    = (\E f \in done : c \in ProxyAccounts(f) \cap Deployed)
    <3>1. {patched(f)[c] : f \in done} = {PatchesOf(f, c) : f \in done}
      BY <2>3
    <3>2. (\E f \in done : c \in upgraded(f))
            <=> (\E f \in done : c \in ProxyAccounts(f) \cap Deployed)
      BY <2>3
    <3> QED
      BY <3>1, <3>2, Zenon
  <2> QED
    BY <2>2, <2>4, Zenon
<1> QED
  BY <1>4, <1>5 DEF CallersSeeDone

\* The first state is one of the abstract specification.
LEMMA MigrationRefinesInit == CallersSeeDone /\ Init => Promise!Init
<1> SUFFICES ASSUME CallersSeeDone, Init PROVE Promise!Init
  OBVIOUS
<1>1. done = {}
  BY DEF Init
<1>2. Promise!After(done) = [c \in Deployed |->
                    [original |-> TRUE, patches |-> {}, upgradeable |-> FALSE]]
  BY <1>1 DEF Promise!After
<1> QED
  BY <1>1, <1>2 DEF CallersSeeDone, Promise!Init

\* A seal is a step of the abstract specification, and the rest is a stutter.
LEMMA MigrationRefinesNext ==
  ASSUME SpacedBlocks
  PROVE  MigrationInv /\ CallersSeeDone /\ CallersSeeDone' /\ [Next]_vars
           => [Promise!Next]_Promise!vars
<1> SUFFICES ASSUME MigrationInv, CallersSeeDone, CallersSeeDone', [Next]_vars
             PROVE  [Promise!Next]_Promise!vars
  OBVIOUS
<1> DEFINE callers == [c \in Deployed |->
                         [original    |-> Logic(c).base = c,
                          patches     |-> Logic(c).patches,
                          upgradeable |-> IsProxy(c)]]
<1>1. callers = Promise!After(done) /\ callers' = Promise!After(done')
  BY DEF CallersSeeDone
<1>2. CASE done' = done
  BY <1>1, <1>2 DEF Promise!vars
<1>3. CASE done' # done
  <2>1. Seal
    BY <1>3 DEF Next, BeginBlock, DeployCreate2, MigrateToProxy, ChangeByteCode,
                ChangeStorage, Step, Abandon, Transact, vars
  <2>2. done' = done \cup Activating /\ Activating \subseteq Forks
    BY <2>1, StepsAreSteps DEF Seal, Activating
  <2>3. Activating \in SUBSET (Forks \ done) /\ Activating # {}
    BY <1>3, <2>1, <2>2, ActiveForksDoNotActivate
    DEF MigrationInv, DoneAreActive, Seal, Migrated, TypeOK
  <2> DEFINE patched(f)  == [g \in Forks |-> [d \in Deployed |-> PatchesOf(g, d)]][f]
             upgraded(f) == [g \in Forks |-> ProxyAccounts(g) \cap Deployed][f]
             after(forks) == [c \in Deployed |->
                                [original    |-> TRUE,
                                 patches     |-> UNION {patched(f)[c] : f \in forks},
                                 upgradeable |-> \E f \in forks : c \in upgraded(f)]]
             migrated == [c \in Deployed |->
                            [original    |-> TRUE,
                             patches     |-> callers[c].patches
                                               \cup UNION {patched(f)[c] : f \in Activating},
                             upgradeable |-> \/ callers[c].upgradeable
                                             \/ \E f \in Activating : c \in upgraded(f)]]
  <2>4. callers = after(done) /\ callers' = after(done \cup Activating)
    BY <1>1, <2>2 DEF Promise!After
  <2>5. (callers' = migrated) => Promise!Migrate(Activating)
    BY <2>2 DEF Promise!Migrate
  <2> HIDE DEF patched, upgraded, callers
  <2>6. ASSUME NEW c \in Deployed
        PROVE  /\ callers[c].patches = UNION {patched(f)[c] : f \in done}
               /\ callers[c].upgradeable = (\E f \in done : c \in upgraded(f))
    BY <2>4
  <2>7. ASSUME NEW c \in Deployed
        PROVE  /\ UNION {patched(f)[c] : f \in done \cup Activating}
                    = callers[c].patches \cup UNION {patched(f)[c] : f \in Activating}
               /\ (\E f \in done \cup Activating : c \in upgraded(f))
                    = (callers[c].upgradeable \/ \E f \in Activating : c \in upgraded(f))
    <3>1. UNION {patched(f)[c] : f \in done \cup Activating}
            = (UNION {patched(f)[c] : f \in done}) \cup UNION {patched(f)[c] : f \in Activating}
      <4> DEFINE left  == UNION {patched(f)[c] : f \in done \cup Activating}
                 first == UNION {patched(f)[c] : f \in done}
                 more  == UNION {patched(f)[c] : f \in Activating}
      <4>1. ASSUME NEW x \in left PROVE x \in first \cup more
        OBVIOUS
      <4>2. ASSUME NEW x \in first \cup more PROVE x \in left
        OBVIOUS
      <4> HIDE DEF left, first, more
      <4>3. left = first \cup more
        BY <4>1, <4>2
      <4> QED
        BY <4>3 DEF left, first, more
    <3>2. (\E f \in done \cup Activating : c \in upgraded(f))
            = ((\E f \in done : c \in upgraded(f)) \/ (\E f \in Activating : c \in upgraded(f)))
      BY Zenon
    <3>3. UNION {patched(f)[c] : f \in done \cup Activating}
            = callers[c].patches \cup UNION {patched(f)[c] : f \in Activating}
      BY <2>6, <3>1, Zenon
    <3>4. (\E f \in done \cup Activating : c \in upgraded(f))
            = (callers[c].upgradeable \/ \E f \in Activating : c \in upgraded(f))
      BY <2>6, <3>2, Zenon
    <3> QED
      BY <3>3, <3>4
  <2>8. after(done \cup Activating) = migrated
    BY <2>7, Zenon
  <2> HIDE DEF after, migrated
  <2>9. Promise!Migrate(Activating)
    BY <2>4, <2>5, <2>8
  <2>10. \E forks \in SUBSET (Forks \ done) : forks # {} /\ Promise!Migrate(forks)
    BY <2>3, <2>9 DEF Promise!Migrate
  <2> QED
    BY <2>10 DEF Promise!Next
<1> QED
  BY <1>2, <1>3

\* The migration implements TokenUpgrades: for the callers of every deployed contract,
\* a block upgrades the logic by exactly the patches of its forks, in one step,
\* whatever the steps, the faults and the restarts behind it.
THEOREM MigrationKeepsPromise ==
  ASSUME SpacedBlocks, CodeFaults = FALSE
  PROVE  Spec => KeepsPromise
<1>1. MigrationInv => CallersSeeDone
  BY MigrationIsSeen
<1>2. CallersSeeDone /\ Init => Promise!Init
  BY MigrationRefinesInit
<1>3. MigrationInv /\ CallersSeeDone /\ CallersSeeDone' /\ [Next]_vars
        => [Promise!Next]_Promise!vars
  BY MigrationRefinesNext
<1> QED
  BY <1>1, <1>2, <1>3, MigrationInvariant, PTL DEF Spec, KeepsPromise, Promise!Spec

=============================================================================
