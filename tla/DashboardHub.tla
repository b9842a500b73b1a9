---------------------------- MODULE DashboardHub ----------------------------
(***************************************************************************)
(* backend/internal/features/websocket/dashboard_hub.go: the dashboards    *)
(* that get every status push.  Each connection has a key of its own       *)
(* (uuid.NewString), so the map is a set of connections.  dash_readers are *)
(* the goroutines inside Broadcast; several may hold the read lock at once *)
(* and write to the same dashboards.                                       *)
(***************************************************************************)
CONSTANT Viewers        \* dashboard connections

VARIABLES
    dash_clients,       \* DashboardHub::clients
    dash_readers        \* goroutines that hold the read lock

dashHubVars == <<dash_clients, dash_readers>>

DashHubInit ==
    /\ dash_clients = {}
    /\ dash_readers = {}

DashRegister(v) ==
    /\ dash_readers = {}
    /\ dash_clients' = dash_clients \cup {v}
    /\ UNCHANGED dash_readers

DashUnregister(v) ==
    /\ dash_readers = {}
    /\ dash_clients' = dash_clients \ {v}
    /\ UNCHANGED dash_readers

DashReadLock(g) ==
    /\ dash_readers' = dash_readers \cup {g}
    /\ UNCHANGED dash_clients

DashReadUnlock(g) ==
    /\ dash_readers' = dash_readers \ {g}
    /\ UNCHANGED dash_clients
=============================================================================
