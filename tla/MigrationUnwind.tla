-------------------------- MODULE MigrationUnwind --------------------------
(***************************************************************************)
(* The transition blocks of FraxMigration under a chain that loses blocks. *)
(* A sealed block is in memory until the node persists it: a crash or a    *)
(* reorganisation before that drops it without a trace.  A persisted block *)
(* is unwound from what was recorded when it was committed, and the        *)
(* transitions record an original value of zero for every word they write. *)
(***************************************************************************)
EXTENDS FraxMigration

CONSTANT MaxUnwinds     \* bound: reorganisations in a behaviour

VARIABLES
  below,        \* the state below the head block, at most one; "disk" is that
                \* of the head, in memory or on the disk
  persisted,    \* is the head block in the database?
  zeroed,       \* the forks unwound from the database (history)
  unwinds       \* the reorganisations that may still happen

unwindVars == <<below, persisted, zeroed, unwinds>>
allVars == <<vars, unwindVars>>

UnwindInit ==
  /\ Init
  /\ below = {} /\ persisted = TRUE
  /\ zeroed = {} /\ unwinds = MaxUnwinds

----------------------------------------------------------------------------
\* The words that a step writes over the original value zero.  A zero is no
\* change, and leaves no record.
WrittenBy(step) ==
  LET writes == CASE step.op = "proxy"   -> step.writes
                  [] step.op = "storage" -> [s \in {step.slot} |-> step.word]
                  [] OTHER               -> << >>
  IN {s \in DOMAIN writes : writes[s] # Zero}

\* The words of an account that the transitions of this block have written.
Overwritten(address) ==
  UNION {WrittenBy(Program[i]) : i \in {i \in DOMAIN Program : Program[i].account = address}}

\* The block is valid and stays in memory, above the one it was built on.
SealInMemory ==
  /\ Seal
  /\ below' = {[disk |-> disk, head |-> head, done |-> done,
                overwritten |-> [a \in Address |-> Overwritten(a)]]}
  /\ persisted' = FALSE
  /\ UNCHANGED <<zeroed, unwinds>>

\* The persistence service writes the head block and its reverts.
Persist ==
  /\ ~persisted
  /\ persisted' = TRUE
  /\ UNCHANGED <<vars, below, zeroed, unwinds>>

\* Mutant: the revert of a block forgets the codes it replaced.
RevertedWordsOnly(b) ==
  [a \in Address |->
     [code  |-> disk[a].code,
      slots |-> [s \in Slots |-> IF s \in b.overwritten[a] THEN Zero
                                 ELSE b.disk[a].slots[s]]]]

\* The database applies the reverts of a block: accounts and words as they
\* were, and the recorded original of what the transitions have written.
Reverted(b) ==
  [a \in Address |->
     [b.disk[a] EXCEPT !.slots =
        [s \in Slots |-> IF s \in b.overwritten[a] THEN Zero ELSE @[s]]]]

\* The chain goes back to the block below the head, with this state.
BackTo(b, accounts) ==
  /\ disk' = accounts
  /\ head' = b.head /\ done' = b.done
  /\ below' = {} /\ persisted' = TRUE

\* A reorganisation drops the head block.
Unwind ==
  /\ status = "idle"
  /\ unwinds > 0 /\ unwinds' = unwinds - 1
  /\ \E b \in below :
       /\ BackTo(b, IF persisted THEN Reverted(b) ELSE b.disk)
       /\ zeroed' = IF persisted THEN zeroed \cup (done \ b.done) ELSE zeroed
  /\ UNCHANGED <<activation, block, cache, pc, status, faults>>

\* What is in memory goes with the process.
LoseMemory ==
  IF persisted THEN UNCHANGED <<disk, head, done, below, persisted>>
  ELSE \E b \in below : BackTo(b, b.disk)

\* The node stops, at any time, and is started again.
Crash ==
  /\ faults > 0 /\ faults' = faults - 1
  /\ status' = "idle"
  /\ Discard
  /\ LoseMemory
  /\ UNCHANGED <<activation, block, zeroed, unwinds>>

\* The same after a panic.
RestartFromDisk ==
  /\ status = "panicked"
  /\ status' = "idle"
  /\ LoseMemory
  /\ UNCHANGED <<activation, block, cache, pc, faults, zeroed, unwinds>>

\* The steps of a block's execution, which leave the blocks below alone.
ExecutionStep ==
  /\ \/ \E gap \in BlockTimes : BeginBlock(gap)
     \/ DeployCreate2 \/ MigrateToProxy \/ ChangeByteCode \/ ChangeStorage
  /\ UNCHANGED unwindVars

UnwindProgress == ExecutionStep \/ SealInMemory \/ RestartFromDisk

UnwindNext ==
  \/ UnwindProgress
  \/ Persist \/ Unwind \/ Crash
  \/ Abandon /\ UNCHANGED unwindVars
  \/ Transact(FRAX_ADDR) /\ UNCHANGED unwindVars

UnwindSpec == UnwindInit /\ [][UnwindNext]_allVars

\* The engine keeps feeding blocks, again after one that failed or was lost.
UnwindFairSpec == UnwindSpec /\ WF_allVars(UnwindProgress)

----------------------------------------------------------------------------
\* Whatever the chain loses, in memory or from the database, the callers of the
\* contracts see the migrations of exactly the blocks that are left.
KeepsPromiseAcrossReverts == Promise!SpecWithReverts

\* The words a fork leaves in a slot of a contract.
WordsOf(fork, contract, slot) ==
  LET table == Transitions[fork] IN
  {IF table[i].op = "proxy" THEN table[i].writes[slot] ELSE table[i].word :
     i \in {i \in DOMAIN table :
              table[i].account = contract /\ slot \in WrittenBy(table[i])}}

\* A contract has the name and the symbol that the forks on the chain gave it,
\* or its own; only a fork that was unwound from the database leaves a zero
\* behind, in the words it had written and until it is executed again.  A zero
\* in a table never clears a word.
NamesFollowForks ==
  \A c \in Deployed, s \in {"name", "symbol"} :
    LET given == UNION {WordsOf(f, c, s) : f \in done}
        lost  == {f \in zeroed : WordsOf(f, c, s) # {}}
    IN IF given # {} THEN disk[c].slots[s] \in given
       ELSE \/ disk[c].slots[s] = <<"old", 1>>
            \/ disk[c].slots[s] = Zero /\ lost # {}

\* A fork whose activation the chain reaches is migrated for good, once the
\* reorganisations and the crashes end.
EventuallyMigrated ==
  \A f \in Forks :
    (activation[f] \in 1 .. MaxTimestamp - 1) ~> [](f \in done)

=============================================================================
