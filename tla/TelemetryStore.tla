--------------------------- MODULE TelemetryStore ---------------------------
(***************************************************************************)
(* backend/internal/features/telemetry/memory_store.go: the readings of    *)
(* every gateway, the newest last, and no more than a limit of each.       *)
(* Store() and GetLatest() hold the lock from start to end.                *)
(***************************************************************************)
EXTENDS Naturals, Sequences

CONSTANTS
    Gateways,
    MaxReadings         \* maxReadingsPerGateway (100)

ASSUME MaxReadingsAssumption == MaxReadings \in Nat \ {0}

VARIABLES
    readings,           \* MemoryStore::readings
    log                 \* history: every reading that was ever stored

storeVars == <<readings, log>>

StoreInit ==
    /\ readings = [g \in Gateways |-> <<>>]
    /\ log = [g \in Gateways |-> <<>>]

\* entries[len(entries)-n:]
LastOf(entries, n) == SubSeq(entries, Len(entries) - n + 1, Len(entries))

\* Mutant: one reading beyond the limit stays.
StoreEvictsLate(g, reading) ==
    LET entries == Append(readings[g], reading)
    IN  /\ readings' = [readings EXCEPT ![g] =
                           IF Len(entries) > MaxReadings + 1
                           THEN LastOf(entries, MaxReadings) ELSE entries]
        /\ log' = [log EXCEPT ![g] = Append(@, reading)]

\* Mutant: a full list is cut at the wrong end.
StoreKeepsFirst(g, reading) ==
    LET entries == Append(readings[g], reading)
    IN  /\ readings' = [readings EXCEPT ![g] =
                           IF Len(entries) > MaxReadings
                           THEN SubSeq(entries, 1, MaxReadings) ELSE entries]
        /\ log' = [log EXCEPT ![g] = Append(@, reading)]

Store(g, reading) ==
    LET entries == Append(readings[g], reading)
    IN  /\ readings' = [readings EXCEPT ![g] =
                           IF Len(entries) > MaxReadings
                           THEN LastOf(entries, MaxReadings) ELSE entries]
        /\ log' = [log EXCEPT ![g] = Append(@, reading)]

\* A copy; empty for a gateway without readings.
GetLatest(g) == readings[g]

-----------------------------------------------------------------------------
\* What the store gives for a gateway is the end of all that was stored for it,
\* in that order: as much of it as the limit allows, and nothing of another
\* gateway's.
KeepsTheLast ==
    \A g \in Gateways :
        LET kept == Len(GetLatest(g))
            all  == Len(log[g])
        IN  /\ kept = IF all < MaxReadings THEN all ELSE MaxReadings
            /\ \A i \in 1 .. kept : GetLatest(g)[i] = log[g][all - kept + i]
=============================================================================
