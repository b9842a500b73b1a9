---------------------------- MODULE NetworkClient ----------------------------
(***************************************************************************)
(* firmware/main/features/network/network_client.cpp.  Two tasks run it:   *)
(* the WebSocket client's own task delivers events to event_handler(), and *)
(* with it handle_message() and the relay loops; the network task calls    *)
(* send_telemetry().  The WebSocket client itself is a library: link and   *)
(* inbox are its TCP connection and what it has received, as far as the    *)
(* events it raises show them.                                             *)
(***************************************************************************)
EXTENDS GatewayState, RelayController, Sequences

CONSTANT MaxInbox       \* bound: frames received and not yet handled

ASSUME TasksAssumption == Tasks = {"sensor", "network", "websocket"}
ASSUME MaxInboxAssumption == MaxInbox \in Nat

VARIABLES
    link,               \* the TCP connection to the backend is up
    inbox,              \* frames received over it, oldest first
    connected,          \* NetworkClient::connected
    ws_pc,              \* control point of the WebSocket client's task
    peak_active,        \* locals of handle_message()
    was_active,
    net_pc,             \* control point of the network task
    power               \* local of send_telemetry()

(***************************************************************************)
(* History, for the properties only: last_cmd is the last command handled  *)
(* to its end, tainted says that a take timed out in the handling under    *)
(* way, and clean holds the commands that were handled without a timeout   *)
(* since the last timeout; the state after a reset counts as clean.        *)
(***************************************************************************)
VARIABLES last_cmd, tainted, clean

linkVars    == <<link, inbox>>
handlerVars == <<ws_pc, peak_active, was_active>>
netVars     == <<net_pc, power>>
historyVars == <<last_cmd, tainted, clean>>
clientVars  == <<linkVars, connected, handlerVars, netVars, historyVars>>

\* A frame is what handle_message() tells apart: a text frame that contains
\* "peak_stress_active":true, any other text frame, and a frame that the
\* op-code and length test of event_handler() drops.
Frames == {"active", "inactive", "ignored"}

ClientTypeOK ==
    /\ link \in BOOLEAN
    /\ inbox \in Seq(Frames) /\ Len(inbox) <= MaxInbox
    /\ connected \in BOOLEAN
    /\ ws_pc \in {"absent", "idle", "get", "get_locked", "set", "set_locked",
                  "decide", "relays"}
    /\ peak_active \in BOOLEAN
    /\ was_active \in BOOLEAN
    /\ net_pc \in {"absent", "loop", "read", "read_locked", "send"}
    /\ power \in Watts
    /\ last_cmd \in BOOLEAN
    /\ tainted \in BOOLEAN
    /\ clean \in SUBSET BOOLEAN

ClientInit ==
    /\ link = FALSE
    /\ inbox = <<>>
    /\ connected = FALSE
    /\ ws_pc = "absent"
    /\ peak_active = FALSE
    /\ was_active = FALSE
    /\ net_pc = "absent"
    /\ power = 0
    /\ last_cmd = FALSE
    /\ tainted = FALSE
    /\ clean = BOOLEAN

ClientReset ==
    /\ link' = FALSE
    /\ inbox' = <<>>
    /\ connected' = FALSE
    /\ ws_pc' = "absent"
    /\ peak_active' = FALSE
    /\ was_active' = FALSE
    /\ net_pc' = "absent"
    /\ power' = 0
    /\ last_cmd' = FALSE
    /\ tainted' = FALSE
    /\ clean' = BOOLEAN

-----------------------------------------------------------------------------
(* The WebSocket client's task: connection events.                         *)

WsConnected ==
    /\ ws_pc = "idle"
    /\ ~link /\ ~connected
    /\ link' = TRUE
    /\ connected' = TRUE
    /\ UNCHANGED <<inbox, handlerVars, netVars, historyVars, stateVars, relayVars>>

\* WEBSOCKET_EVENT_DISCONNECTED, or _ERROR: the library raises either only
\* as it gives the connection up.
WsDisconnected ==
    /\ ws_pc = "idle"
    /\ ~link /\ connected
    /\ connected' = FALSE
    /\ inbox' = <<>>
    /\ UNCHANGED <<link, handlerVars, netVars, historyVars, stateVars, relayVars>>

(* WEBSOCKET_EVENT_DATA: event_handler() and handle_message().             *)

IgnoreFrame ==
    /\ ws_pc = "idle"
    /\ inbox # <<>> /\ Head(inbox) = "ignored"
    /\ inbox' = Tail(inbox)
    /\ UNCHANGED <<link, connected, handlerVars, netVars, historyVars,
                   stateVars, relayVars>>

ParseFrame ==
    /\ ws_pc = "idle"
    /\ inbox # <<>> /\ Head(inbox) # "ignored"
    /\ inbox' = Tail(inbox)
    /\ peak_active' = (Head(inbox) = "active")
    /\ ws_pc' = "get"
    /\ tainted' = FALSE
    /\ UNCHANGED <<link, connected, was_active, netVars, last_cmd, clean,
                   stateVars, relayVars>>

NoteTimeout == tainted' = TRUE /\ clean' = {} /\ UNCHANGED last_cmd

\* get_peak_stress(); FALSE when the take times out.
GetPeakStress ==
    /\ ws_pc = "get"
    /\ \/ /\ Take("websocket")
          /\ ws_pc' = "get_locked"
          /\ UNCHANGED <<was_active, historyVars>>
       \/ /\ TakeTimesOut("websocket")
          /\ was_active' = FALSE
          /\ ws_pc' = "set"
          /\ NoteTimeout
    /\ UNCHANGED <<linkVars, connected, peak_active, netVars, relayVars>>

GetPeakStressLocked ==
    /\ ws_pc = "get_locked"
    /\ ReadField("websocket")
    /\ was_active' = peak_stress_active
    /\ ws_pc' = "set"
    /\ UNCHANGED <<linkVars, connected, peak_active, netVars, historyVars, relayVars>>

\* set_peak_stress(); the caller ignores that the take timed out.
StorePeakStress ==
    /\ ws_pc = "set"
    /\ \/ /\ Take("websocket")
          /\ ws_pc' = "set_locked"
          /\ UNCHANGED historyVars
       \/ /\ TakeTimesOut("websocket")
          /\ ws_pc' = "decide"
          /\ NoteTimeout
    /\ UNCHANGED <<linkVars, connected, peak_active, was_active, netVars, relayVars>>

StorePeakStressLocked ==
    /\ ws_pc = "set_locked"
    /\ SetPeakStress("websocket", peak_active)
    /\ ws_pc' = "decide"
    /\ UNCHANGED <<linkVars, connected, peak_active, was_active, netVars,
                   historyVars, relayVars>>

\* Relays move only on a transition of the flag.
Decide ==
    /\ ws_pc = "decide"
    /\ \/ peak_active /\ ~was_active /\ ShedLoads
       \/ ~peak_active /\ was_active /\ RestoreLoads
       \/ peak_active = was_active /\ UNCHANGED relayVars
    /\ ws_pc' = "relays"
    /\ UNCHANGED <<linkVars, connected, peak_active, was_active, netVars,
                   historyVars, stateVars>>

MoveRelays ==
    /\ ws_pc = "relays"
    /\ RelayStep
    /\ UNCHANGED <<clientVars, stateVars>>

\* The locals die; they are reset so that states do not differ in them.
HandlerReturn ==
    /\ ws_pc = "relays"
    /\ relay_pc = "idle"
    /\ ws_pc' = "idle"
    /\ last_cmd' = peak_active
    /\ clean' = IF tainted THEN {} ELSE clean \cup {peak_active}
    /\ tainted' = FALSE
    /\ peak_active' = FALSE
    /\ was_active' = FALSE
    /\ UNCHANGED <<linkVars, connected, netVars, stateVars, relayVars>>

HandleMessage ==
    \/ GetPeakStress \/ GetPeakStressLocked
    \/ StorePeakStress \/ StorePeakStressLocked
    \/ Decide \/ MoveRelays \/ HandlerReturn

WebSocketTask ==
    \/ WsConnected \/ WsDisconnected
    \/ IgnoreFrame \/ ParseFrame
    \/ HandleMessage

-----------------------------------------------------------------------------
(* The network task: send_telemetry(), then a delay of 10 s at "loop".     *)

\* Without a connection the call returns at once and the task stays here.
TelemetryStart ==
    /\ net_pc = "loop"
    /\ connected
    /\ net_pc' = "read"
    /\ UNCHANGED <<linkVars, connected, handlerVars, power, historyVars,
                   stateVars, relayVars>>

\* read_power(); 0 when the take times out.
ReadPower ==
    /\ net_pc = "read"
    /\ \/ Take("network") /\ net_pc' = "read_locked" /\ UNCHANGED power
       \/ TakeTimesOut("network") /\ net_pc' = "send" /\ power' = 0
    /\ UNCHANGED <<linkVars, connected, handlerVars, historyVars, relayVars>>

ReadPowerLocked ==
    /\ net_pc = "read_locked"
    /\ ReadField("network")
    /\ power' = current_avg_watts
    /\ net_pc' = "send"
    /\ UNCHANGED <<linkVars, connected, handlerVars, historyVars, relayVars>>

\* A send that fails is only logged, so both outcomes lead here.
SendTelemetry ==
    /\ net_pc = "send"
    /\ net_pc' = "loop"
    /\ power' = 0
    /\ UNCHANGED <<linkVars, connected, handlerVars, historyVars, stateVars, relayVars>>

NetworkTask == TelemetryStart \/ ReadPower \/ ReadPowerLocked \/ SendTelemetry

-----------------------------------------------------------------------------
(* The environment: the backend's frames and the fate of the connection.   *)

FrameArrives ==
    /\ link
    /\ Len(inbox) < MaxInbox
    /\ \E f \in Frames : inbox' = Append(inbox, f)
    /\ UNCHANGED <<link, connected, handlerVars, netVars, historyVars,
                   stateVars, relayVars>>

\* The connection breaks at any point; frames at the tail may go with it.
LinkLost ==
    /\ link
    /\ link' = FALSE
    /\ \E n \in 0 .. Len(inbox) : inbox' = SubSeq(inbox, 1, n)
    /\ UNCHANGED <<connected, handlerVars, netVars, historyVars, stateVars, relayVars>>
=============================================================================
