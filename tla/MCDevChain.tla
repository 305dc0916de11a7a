---------------------------- MODULE MCDevChain ----------------------------
(* An instance of DevChain for TLC. *)
EXTENDS DevChain

MCActivations == {Never, 0, 4}

\* The genesis of the chain is older than the clock, or newer.
MCGenesisTimes == {0, 3}
MCClockTimes == {0, 2, 3, 5, 6}

\* Any gap is possible.
AnyGap == 1 .. MaxTimestamp

=============================================================================
