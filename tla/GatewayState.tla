---------------------------- MODULE GatewayState ----------------------------
(***************************************************************************)
(* firmware/main/core/gateway_state.cpp: the two fields the tasks share,   *)
(* behind one FreeRTOS mutex.  Every accessor takes the mutex with a 50 ms *)
(* timeout, touches one field and gives the mutex back; when the take      *)
(* times out the accessor returns without touching anything.               *)
(*                                                                         *)
(* An accessor is two steps of the calling task t, so that other tasks     *)
(* interleave while t holds the mutex: Take(t), then one of the accesses   *)
(* below.  TakeTimesOut(t) replaces both: a take can only expire while     *)
(* another task holds the mutex, for as long as that task is preempted.    *)
(***************************************************************************)
EXTENDS Naturals

CONSTANTS
    Tasks,              \* the FreeRTOS tasks that use the accessors
    Free,               \* value of mutex when nobody holds it
    Watts               \* power readings; 0 is the initial one

ASSUME FreeAssumption == Free \notin Tasks
ASSUME WattsAssumption == 0 \in Watts

VARIABLES
    mutex,              \* its holder, or Free
    current_avg_watts,
    peak_stress_active

stateVars == <<mutex, current_avg_watts, peak_stress_active>>

StateTypeOK ==
    /\ mutex \in Tasks \cup {Free}
    /\ current_avg_watts \in Watts
    /\ peak_stress_active \in BOOLEAN

\* The static object after a reset, and what init() leaves.
StateInit ==
    /\ mutex = Free
    /\ current_avg_watts = 0
    /\ peak_stress_active = FALSE

StateReset ==
    /\ mutex' = Free
    /\ current_avg_watts' = 0
    /\ peak_stress_active' = FALSE

Take(t) ==
    /\ mutex = Free
    /\ mutex' = t
    /\ UNCHANGED <<current_avg_watts, peak_stress_active>>

\* Mutant: the take waits for ever (portMAX_DELAY).
TakeWaitsForever(t) == FALSE

TakeTimesOut(t) ==
    /\ mutex \notin {Free, t}
    /\ UNCHANGED stateVars

Give(t) ==
    /\ mutex = t
    /\ mutex' = Free

WritePower(t, watts) ==
    /\ Give(t)
    /\ current_avg_watts' = watts
    /\ UNCHANGED peak_stress_active

\* Mutant: the flag is only ever raised.
SetPeakStressLatched(t, active) ==
    /\ Give(t)
    /\ peak_stress_active' = (peak_stress_active \/ active)
    /\ UNCHANGED current_avg_watts

SetPeakStress(t, active) ==
    /\ Give(t)
    /\ peak_stress_active' = active
    /\ UNCHANGED current_avg_watts

\* Mutant: an early return keeps the mutex.
ReadFieldKeepsMutex(t) == mutex = t /\ UNCHANGED stateVars

\* read_power() and get_peak_stress() change nothing but the mutex.
ReadField(t) ==
    /\ Give(t)
    /\ UNCHANGED <<current_avg_watts, peak_stress_active>>
=============================================================================
