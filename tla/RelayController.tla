--------------------------- MODULE RelayController ---------------------------
(***************************************************************************)
(* firmware/main/features/relay/relay_controller.cpp: the opto-isolated    *)
(* relay array.  Level 1 energises a relay and disconnects its load.  The  *)
(* two loops run in the calling task; each GPIO write is a step, because   *)
(* restore_loads() sleeps between two of them.                             *)
(***************************************************************************)
EXTENDS Naturals

CONSTANT RelayCount     \* RELAY_COUNT

ASSUME RelayCountAssumption == RelayCount \in Nat \ {0}

VARIABLES
    pins,               \* level of each relay's GPIO
    is_shedding,
    relay_pc,           \* the loop that runs, "idle" when none does
    relay_i             \* its index: the pin it writes next

relayVars == <<pins, is_shedding, relay_pc, relay_i>>

Relays == 1 .. RelayCount

RelayTypeOK ==
    /\ pins \in [Relays -> {0, 1}]
    /\ is_shedding \in BOOLEAN
    /\ relay_pc \in {"idle", "shed", "restore"}
    /\ relay_i \in 0 .. RelayCount + 1

Energized == {r \in Relays : pins[r] = 1}

\* Pins are low after a reset and init() writes them low.
RelayInit ==
    /\ pins = [r \in Relays |-> 0]
    /\ is_shedding = FALSE
    /\ relay_pc = "idle"
    /\ relay_i = 0

RelayReset ==
    /\ pins' = [r \in Relays |-> 0]
    /\ is_shedding' = FALSE
    /\ relay_pc' = "idle"
    /\ relay_i' = 0

\* Mutant: shed_loads() runs its loop although the loads are shed.
ShedLoadsUnguarded ==
    /\ relay_pc = "idle"
    /\ relay_pc' = "shed" /\ relay_i' = 1
    /\ UNCHANGED <<pins, is_shedding>>

\* shed_loads(): nothing to do when the loads are already shed.
ShedLoads ==
    /\ relay_pc = "idle"
    /\ IF is_shedding
       THEN UNCHANGED <<relay_pc, relay_i>>
       ELSE relay_pc' = "shed" /\ relay_i' = 1
    /\ UNCHANGED <<pins, is_shedding>>

\* Mutant: the loop runs once too often.
ShedPinPastEnd ==
    /\ relay_pc = "shed"
    /\ relay_i <= RelayCount + 1
    /\ pins' = [pins EXCEPT ![relay_i] = 1]
    /\ relay_i' = relay_i + 1
    /\ UNCHANGED <<is_shedding, relay_pc>>

ShedPin ==
    /\ relay_pc = "shed"
    /\ relay_i <= RelayCount
    /\ pins' = [pins EXCEPT ![relay_i] = 1]
    /\ relay_i' = relay_i + 1
    /\ UNCHANGED <<is_shedding, relay_pc>>

ShedReturn ==
    /\ relay_pc = "shed"
    /\ relay_i > RelayCount
    /\ is_shedding' = TRUE
    /\ relay_pc' = "idle"
    /\ relay_i' = 0
    /\ UNCHANGED pins

\* restore_loads(): in reverse order, with a delay before each next pin.
RestoreLoads ==
    /\ relay_pc = "idle"
    /\ IF is_shedding
       THEN relay_pc' = "restore" /\ relay_i' = RelayCount
       ELSE UNCHANGED <<relay_pc, relay_i>>
    /\ UNCHANGED <<pins, is_shedding>>

\* Mutants: restore in shedding order; all at once; an unsigned index, for
\* which i >= 0 always holds.
RestorePinForward ==
    /\ relay_pc = "restore"
    /\ relay_i > 0
    /\ pins' = [pins EXCEPT ![RelayCount + 1 - relay_i] = 0]
    /\ relay_i' = relay_i - 1
    /\ UNCHANGED <<is_shedding, relay_pc>>
RestorePinAllAtOnce ==
    /\ relay_pc = "restore"
    /\ relay_i > 0
    /\ pins' = [r \in Relays |-> 0]
    /\ relay_i' = 0
    /\ UNCHANGED <<is_shedding, relay_pc>>
RestorePinUnsigned ==
    /\ relay_pc = "restore"
    /\ relay_i > 0
    /\ pins' = [pins EXCEPT ![relay_i] = 0]
    /\ relay_i' = IF relay_i = 1 THEN RelayCount ELSE relay_i - 1
    /\ UNCHANGED <<is_shedding, relay_pc>>

RestorePin ==
    /\ relay_pc = "restore"
    /\ relay_i > 0
    /\ pins' = [pins EXCEPT ![relay_i] = 0]
    /\ relay_i' = relay_i - 1
    /\ UNCHANGED <<is_shedding, relay_pc>>

\* Mutant: restore_loads() forgets to clear is_shedding.
RestoreReturnStillShedding ==
    /\ relay_pc = "restore"
    /\ relay_i = 0
    /\ relay_pc' = "idle"
    /\ UNCHANGED <<pins, is_shedding, relay_i>>

RestoreReturn ==
    /\ relay_pc = "restore"
    /\ relay_i = 0
    /\ is_shedding' = FALSE
    /\ relay_pc' = "idle"
    /\ UNCHANGED <<pins, relay_i>>

RelayStep == ShedPin \/ ShedReturn \/ RestorePin \/ RestoreReturn
=============================================================================
