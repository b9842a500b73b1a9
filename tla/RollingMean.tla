----------------------------- MODULE RollingMean -----------------------------
(***************************************************************************)
(* What the current sensor promises its caller: the mean of the last       *)
(* Window measurements of the current that flowed, counting zeros for      *)
(* those not made yet.  The mean is kept as a sum, Window times as large.  *)
(***************************************************************************)
EXTENDS Naturals, Sequences, Functions

CONSTANTS
    Window,             \* measurements the mean is taken over
    Levels              \* currents that may flow

VARIABLES
    flow,               \* the current that flows
    last,               \* the last measurements, oldest first
    total               \* their sum, as reported

meanVars == <<flow, last, total>>

MeanInit ==
    /\ flow \in Levels
    /\ last = [k \in 1 .. Window |-> 0]
    /\ total = 0

Change ==
    /\ flow' \in Levels
    /\ UNCHANGED <<last, total>>

Measure ==
    /\ last' = Append(Tail(last), flow)
    /\ total' = SumFunction(last')
    /\ UNCHANGED flow

MeanSpec == MeanInit /\ [][Change \/ Measure]_meanVars
=============================================================================
