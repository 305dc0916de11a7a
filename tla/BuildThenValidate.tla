------------------------- MODULE BuildThenValidate -------------------------
(***************************************************************************)
(* Two executors of the same block: the one of the payload builder, which  *)
(* is offered transactions in any order, refuses some and drops the output *)
(* of others, and the one of a validator, which only sees the block that   *)
(* came out.  The validator runs the transactions of the block one by one, *)
(* gives the block up at the first that is refused, and starts over when   *)
(* its database fails.                                                     *)
(***************************************************************************)
EXTENDS BlockExecutor

CONSTANT MaxRetries     \* bound: database failures of the validator

ASSUME MaxRetriesAssumption == MaxRetries \in Nat

VARIABLES
  v_gas_used, v_da_footprint_used, v_receipts, v_state, v_pending,
  v_phase, v_error, v_result, v_committed,
  retries               \* the failures that may still happen

validator == <<v_gas_used, v_da_footprint_used, v_receipts, v_state, v_pending,
               v_phase, v_error, v_result, v_committed>>

V == INSTANCE BlockExecutor WITH
  gas_used <- v_gas_used, da_footprint_used <- v_da_footprint_used,
  receipts <- v_receipts, state <- v_state, pending <- v_pending,
  phase <- v_phase, error <- v_error, result <- v_result, committed <- v_committed

InitBoth == Init /\ V!Init /\ retries = MaxRetries

----------------------------------------------------------------------------
\* The payload builder uses its executor in any way the interface allows.
Build == Next /\ UNCHANGED <<validator, retries>>

\* The block has been built and the validator has met no error.
Validating == phase = "finished" /\ v_error = "none"

\* tx_iterator_for_payload hands the transactions over in the order of the
\* block; those of a block that a builder finished can all be decoded.
NextTx == committed[Len(v_committed) + 1]
Remaining == Len(v_committed) < Len(committed)

ValidatorStarts ==
  /\ Validating
  /\ V!ApplyPreExecutionChanges
  /\ UNCHANGED <<vars, retries>>

\* The validator executes the next transaction of the block; refused or not.
ValidatorExecutes ==
  /\ Validating /\ Remaining
  /\ V!Execute(NextTx) \/ V!Reject(NextTx)
  /\ UNCHANGED <<vars, retries>>

\* It always commits what it has executed.
ValidatorCommits ==
  /\ Validating
  /\ V!Commit
  /\ UNCHANGED <<vars, retries>>

\* The validator's database fails, wherever the executor reads it.
ValidatorReadFails ==
  /\ Validating
  /\ retries > 0
  /\ retries' = retries - 1
  /\ V!PreExecutionFails \/ V!CommitFails \/ (Remaining /\ V!ReadFails(NextTx))
  /\ UNCHANGED vars

\* A block whose execution failed in the database is executed again, by a new
\* executor on the state of the parent.
ValidatorRetries ==
  /\ v_error = "database"
  /\ v_gas_used' = 0 /\ v_da_footprint_used' = 0 /\ v_receipts' = << >>
  /\ v_state' = [nonce |-> [sender \in Senders |-> 0], scalar |-> InitialScalar]
  /\ v_pending' = {} /\ v_phase' = "new" /\ v_error' = "none" /\ v_result' = {}
  /\ v_committed' = << >>
  /\ UNCHANGED <<vars, retries>>

ValidatorFinishes ==
  /\ Validating /\ ~Remaining
  /\ V!Finish
  /\ UNCHANGED <<vars, retries>>

ValidatorNext ==
  \/ ValidatorStarts \/ ValidatorExecutes \/ ValidatorCommits
  \/ ValidatorReadFails \/ ValidatorRetries \/ ValidatorFinishes

NextBoth == Build \/ ValidatorNext

SpecBoth == InitBoth /\ [][NextBoth]_<<vars, validator, retries>>

\* The engine carries a validation on; nothing makes the builder finish.
FairSpecBoth == SpecBoth /\ WF_<<vars, validator, retries>>(ValidatorNext)

----------------------------------------------------------------------------
\* A validator that gets to the end of a block has the receipts, the state and
\* the result of its builder, whatever the builder tried and threw away and
\* however often the validator had to start over.
SameOutcome ==
  v_phase = "finished" =>
    /\ v_receipts = receipts
    /\ v_state = state
    /\ v_result = result

\* A validator refuses no transaction of a block that a builder has finished,
\* wherever it stands in the block: the builder executed it on the same state
\* and with the same counters, whatever it had tried in between.
NeverRefused == v_error \in {"none", "database"}

\* Every block that a builder finishes is validated to the end in time: none of
\* its transactions is refused.
EventuallyValidated == (phase = "finished") ~> (v_phase = "finished")

=============================================================================
