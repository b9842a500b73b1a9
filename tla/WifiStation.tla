----------------------------- MODULE WifiStation -----------------------------
(***************************************************************************)
(* firmware/main/features/network/wifi_station.cpp: wifi_init_sta() in     *)
(* app_main() waits on an event group which wifi_event_handler() sets from *)
(* the event loop task, while the driver and the access point do as they   *)
(* please.  An ESP_ERROR_CHECK that fails resets the chip and is left out. *)
(***************************************************************************)
EXTENDS Naturals, Sequences

CONSTANTS
    MaxRetry,           \* WIFI_MAX_RETRY (10)
    MaxEvents,          \* bound: events the loop has not dispatched
    MaxLosses           \* bound: times an established link is lost

ASSUME BoundsAssumption ==
    MaxRetry \in Nat /\ MaxEvents \in Nat \ {0} /\ MaxLosses \in Nat

VARIABLES
    pc,                 \* where wifi_init_sta() is
    bits_seen,          \* its local bits, what the wait returned
    group,              \* s_wifi_event_group is not null
    bits,               \* the bits set in it
    registered,         \* the event bases the handler is registered for
    s_retry_count,
    driver,             \* the Wi-Fi driver: idle, connecting, up
    events,             \* the default event loop's queue
    failures,           \* history: disconnections since the last IP
    losses              \* counter of the bound

stationVars == <<pc, bits_seen, group, bits, registered>>
driverVars  == <<driver, events, losses>>
vars == <<stationVars, s_retry_count, failures, driverVars>>

Bits == {"connected", "fail"}
Bases == {"wifi", "ip"}
Events == {"start", "disconnected", "got_ip"}

TypeOK ==
    /\ pc \in {"create", "register", "start", "wait", "unregister_wifi",
               "unregister_ip", "delete", "true", "false"}
    /\ bits_seen \subseteq Bits /\ bits \subseteq Bits
    /\ group \in BOOLEAN
    /\ registered \subseteq Bases
    /\ s_retry_count \in 0 .. MaxRetry
    /\ driver \in {"idle", "connecting", "up"}
    /\ events \in Seq(Events) /\ Len(events) <= MaxEvents
    /\ failures \in Nat
    /\ losses \in 0 .. MaxLosses

Init ==
    /\ pc = "create" /\ bits_seen = {}
    /\ group = FALSE /\ bits = {} /\ registered = {}
    /\ s_retry_count = 0 /\ failures = 0
    /\ driver = "idle" /\ events = <<>> /\ losses = 0

-----------------------------------------------------------------------------
(* wifi_init_sta().                                                        *)

CreateGroup ==
    /\ pc = "create"
    /\ \/ group' = TRUE /\ pc' = "register"
       \/ group' = FALSE /\ pc' = "false"
    /\ UNCHANGED <<bits_seen, bits, registered, s_retry_count, failures, driverVars>>

RegisterHandlers ==
    /\ pc = "register"
    /\ registered' = Bases
    /\ pc' = "start"
    /\ UNCHANGED <<bits_seen, group, bits, s_retry_count, failures, driverVars>>

StartWifi ==
    /\ pc = "start"
    /\ events' = Append(events, "start")
    /\ pc' = "wait"
    /\ UNCHANGED <<bits_seen, group, bits, registered, s_retry_count, failures,
                   driver, losses>>

\* Mutant: no timeout.
WaitForBits ==
    /\ pc = "wait" /\ bits # {}
    /\ bits_seen' = bits
    /\ pc' = "unregister_wifi"
    /\ UNCHANGED <<group, bits, registered, s_retry_count, failures, driverVars>>

\* Either bit ends the wait, and so does the timeout.
Wait ==
    /\ pc = "wait"
    /\ bits_seen' = bits
    /\ pc' = "unregister_wifi"
    /\ UNCHANGED <<group, bits, registered, s_retry_count, failures, driverVars>>

UnregisterWifi ==
    /\ pc = "unregister_wifi"
    /\ registered' = registered \ {"wifi"}
    /\ pc' = "unregister_ip"
    /\ UNCHANGED <<bits_seen, group, bits, s_retry_count, failures, driverVars>>

\* Mutant: the group goes before the handler for IP events.
UnregisterIpLast ==
    /\ pc = "unregister_ip"
    /\ group' = FALSE /\ bits' = {}
    /\ pc' = "delete"
    /\ UNCHANGED <<bits_seen, registered, s_retry_count, failures, driverVars>>

UnregisterIp ==
    /\ pc = "unregister_ip"
    /\ registered' = registered \ {"ip"}
    /\ pc' = "delete"
    /\ UNCHANGED <<bits_seen, group, bits, s_retry_count, failures, driverVars>>

\* Mutant: a wait that ended by itself passes for a connection.
DeleteGroupOptimistic ==
    /\ pc = "delete"
    /\ group' = FALSE /\ bits' = {}
    /\ pc' = IF "fail" \in bits_seen THEN "false" ELSE "true"
    /\ UNCHANGED <<bits_seen, registered, s_retry_count, failures, driverVars>>

DeleteGroup ==
    /\ pc = "delete"
    /\ group' = FALSE /\ bits' = {}
    /\ pc' = IF "connected" \in bits_seen THEN "true" ELSE "false"
    /\ UNCHANGED <<bits_seen, registered, s_retry_count, failures, driverVars>>

WifiInitSta ==
    \/ CreateGroup \/ RegisterHandlers \/ StartWifi \/ Wait
    \/ UnregisterWifi \/ UnregisterIp \/ DeleteGroup

-----------------------------------------------------------------------------
(* wifi_event_handler(), called by the event loop.  Unregistering waits    *)
(* for a handler that runs, so one call is one step.                       *)

OnStart ==
    /\ driver' = "connecting"
    /\ UNCHANGED <<bits, s_retry_count, failures>>

\* Mutant: one retry too many.
OnDisconnectedOneMore ==
    /\ failures' = failures + 1
    /\ IF s_retry_count <= MaxRetry
       THEN /\ driver' = "connecting"
            /\ s_retry_count' = s_retry_count + 1
            /\ UNCHANGED bits
       ELSE /\ bits' = bits \cup {"fail"}
            /\ UNCHANGED <<driver, s_retry_count>>

OnDisconnected ==
    /\ failures' = failures + 1
    /\ IF s_retry_count < MaxRetry
       THEN /\ driver' = "connecting"
            /\ s_retry_count' = s_retry_count + 1
            /\ UNCHANGED bits
       ELSE /\ bits' = bits \cup {"fail"}
            /\ UNCHANGED <<driver, s_retry_count>>

\* Mutant: retries are counted over all connections.
OnGotIpKeepsCount ==
    /\ failures' = 0
    /\ bits' = bits \cup {"connected"}
    /\ UNCHANGED <<driver, s_retry_count>>

OnGotIp ==
    /\ failures' = 0
    /\ s_retry_count' = 0
    /\ bits' = bits \cup {"connected"}
    /\ UNCHANGED driver

Dispatch ==
    /\ events # <<>>
    /\ events' = Tail(events)
    /\ CASE Head(events) = "start" /\ "wifi" \in registered -> OnStart
         [] Head(events) = "disconnected" /\ "wifi" \in registered -> OnDisconnected
         [] Head(events) = "got_ip" /\ "ip" \in registered -> OnGotIp
         [] OTHER -> UNCHANGED <<bits, s_retry_count, failures, driver>>
    /\ UNCHANGED <<pc, bits_seen, group, registered, losses>>

-----------------------------------------------------------------------------
(* The driver and the access point.                                        *)

ConnectSucceeds ==
    /\ driver = "connecting" /\ Len(events) < MaxEvents
    /\ driver' = "up"
    /\ events' = Append(events, "got_ip")
    /\ UNCHANGED <<stationVars, s_retry_count, failures, losses>>

ConnectFails ==
    /\ driver = "connecting" /\ Len(events) < MaxEvents
    /\ driver' = "idle"
    /\ events' = Append(events, "disconnected")
    /\ UNCHANGED <<stationVars, s_retry_count, failures, losses>>

LinkLost ==
    /\ driver = "up" /\ Len(events) < MaxEvents /\ losses < MaxLosses
    /\ losses' = losses + 1
    /\ driver' = "idle"
    /\ events' = Append(events, "disconnected")
    /\ UNCHANGED <<stationVars, s_retry_count, failures>>

Attempt == ConnectSucceeds \/ ConnectFails

Next == WifiInitSta \/ Dispatch \/ Attempt \/ LinkLost

Spec == Init /\ [][Next]_vars

\* FreeRTOS runs the calling task and the event loop task.  The access point is
\* there: an attempt to connect ends, and attempts made again and again succeed
\* in the end.
FairSpec ==
    /\ Spec /\ WF_vars(WifiInitSta)
    /\ WF_vars(Dispatch) /\ WF_vars(Attempt) /\ SF_vars(ConnectSucceeds)

-----------------------------------------------------------------------------
(* Safety.                                                                 *)

\* The handler sets bits in s_wifi_event_group without a check, from another
\* task: the group exists as long as the handler can be called.
HandlerHasItsGroup == registered # {} => group

\* wifi_init_sta() is told of a failure only after WIFI_MAX_RETRY retries in a
\* row, none of them begun before the last time there was an IP.
FailOnlyAfterAllRetries == "fail" \in bits => failures > MaxRetry

(* Liveness.                                                               *)

\* What the comments of wifi_station.cpp say: a link that is lost after the
\* initialization comes back by itself.
ReconnectIsAutomatic == pc = "true" /\ driver = "idle" ~> driver = "up"
=============================================================================
