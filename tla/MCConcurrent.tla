---------------------------- MODULE MCConcurrent ----------------------------
(***************************************************************************)
(* Overlapping commands with every failure at once.  The number of         *)
(* commands started is bounded by MaxRuns, so that two processes, a late   *)
(* call and a store that truncates fit in one finite check.                *)
(***************************************************************************)
EXTENDS MCSecureBackup

CONSTANT MaxRuns    \* commands started in one behaviour

VARIABLE runs       \* commands started so far

BoundedInit == Init /\ runs = 0

BoundedStart(p) == Start(p) /\ runs < MaxRuns /\ runs' = runs + 1

BoundedNext ==
    \/ \E p \in Procs : BoundedStart(p)
    \/ UNCHANGED runs /\ \/ \E x \in Paths : Edit(x)
                         \/ \E p \in Procs : Run(p) \/ Crash(p)
                         \/ \E call \in late : LateCall(call) \/ LateCallLost(call)

BoundedSpec == BoundedInit /\ [][BoundedNext]_<<vars, runs>>

=============================================================================
