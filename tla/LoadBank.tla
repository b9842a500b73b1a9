------------------------------ MODULE LoadBank ------------------------------
(***************************************************************************)
(* What the relay array promises to the household, with no processor in    *)
(* it.  Loads are numbered by shedding priority: load 1 goes off first.    *)
(* They go off one by one in that order and come back one by one in the    *)
(* opposite order, a change of direction happens only with every load on   *)
(* or every load off, and only the loss of power brings all of them back   *)
(* at once.  GatewayFirmware is shown to implement this specification.     *)
(***************************************************************************)
EXTENDS Naturals

CONSTANT LoadCount      \* number of switched loads

VARIABLES
    off,                \* the loads that are disconnected
    direction           \* what the array is doing

bankVars == <<off, direction>>

Loads == 1 .. LoadCount

BankInit ==
    /\ off = {}
    /\ direction = "still"

\* A change of direction is decided only at either end of the scale.
StartShedding ==
    /\ direction = "still"
    /\ off = {}
    /\ direction' = "shedding"
    /\ UNCHANGED off

StartRestoring ==
    /\ direction = "still"
    /\ off = Loads
    /\ direction' = "restoring"
    /\ UNCHANGED off

\* The connected load that is first in the shedding order goes off.
ShedOne ==
    /\ direction = "shedding"
    /\ \E l \in Loads \ off :
          /\ \A k \in Loads : k < l => k \in off
          /\ off' = off \cup {l}
    /\ UNCHANGED direction

\* The disconnected load that is last in the shedding order comes back.
RestoreOne ==
    /\ direction = "restoring"
    /\ \E l \in off :
          /\ \A k \in Loads : k > l => k \notin off
          /\ off' = off \ {l}
    /\ UNCHANGED direction

Finish ==
    /\ \/ direction = "shedding" /\ off = Loads
       \/ direction = "restoring" /\ off = {}
    /\ direction' = "still"
    /\ UNCHANGED off

\* De-energised relays connect: without power nothing stays shed.
PowerLoss ==
    /\ off' = {}
    /\ direction' = "still"

BankNext ==
    \/ StartShedding \/ ShedOne
    \/ StartRestoring \/ RestoreOne
    \/ Finish
    \/ PowerLoss

BankSpec == BankInit /\ [][BankNext]_bankVars
=============================================================================
