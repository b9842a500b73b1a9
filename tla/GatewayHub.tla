----------------------------- MODULE GatewayHub -----------------------------
(***************************************************************************)
(* backend/internal/features/websocket/hub.go: which connection a gateway  *)
(* id stands for.  The map is keyed by the id the gateway claims, not by   *)
(* the connection.  hub_readers are the callers inside BroadcastPeakStress *)
(* with the read lock; Register and Unregister take the write lock, do one *)
(* map operation and are one step that needs the lock free of readers.     *)
(***************************************************************************)
CONSTANTS
    Ids,                \* gateway ids
    Slots,              \* connections the server can serve at a time
    NoSlot              \* an id without an entry in the map

ASSUME NoSlotAssumption == NoSlot \notin Slots

VARIABLES
    clients,            \* Hub::clients
    hub_readers         \* callers that hold the read lock

hubVars == <<clients, hub_readers>>

HubInit ==
    /\ clients = [id \in Ids |-> NoSlot]
    /\ hub_readers = {}

Registered == {clients[id] : id \in Ids} \ {NoSlot}

\* The latest connection replaces an earlier one with the same id.
Register(id, s) ==
    /\ hub_readers = {}
    /\ clients' = [clients EXCEPT ![id] = s]
    /\ UNCHANGED hub_readers

\* Mutants: the entry stays behind; every entry goes.
UnregisterNothing(id) ==
    /\ hub_readers = {}
    /\ UNCHANGED hubVars
UnregisterAll(id) ==
    /\ hub_readers = {}
    /\ clients' = [i \in Ids |-> NoSlot]
    /\ UNCHANGED hub_readers

\* Deletes the id's entry, whichever connection it holds by now.
Unregister(id) ==
    /\ hub_readers = {}
    /\ clients' = [clients EXCEPT ![id] = NoSlot]
    /\ UNCHANGED hub_readers

ReadLock(caller) ==
    /\ hub_readers' = hub_readers \cup {caller}
    /\ UNCHANGED clients

ReadUnlock(caller) ==
    /\ hub_readers' = hub_readers \ {caller}
    /\ UNCHANGED clients
=============================================================================
