-------------------------- MODULE WebSocketHandler --------------------------
(***************************************************************************)
(* backend/internal/features/websocket/handler.go: one goroutine per       *)
(* gateway connection (HandleWebSocket), one per dashboard connection      *)
(* (HandleDashboardWebSocket), and the callers of SetPeakStress, which no  *)
(* code of the repository calls: an operator's console is their place.     *)
(* The devices at the other ends, their links and what they do with the    *)
(* frames are the environment.                                             *)
(*                                                                         *)
(* A connection is a slot; a closed slot is used again.  A write appends   *)
(* to the connection's queue and blocks when Window frames are unread.     *)
(***************************************************************************)
EXTENDS GatewayHub, DashboardHub, Naturals, Sequences

CONSTANTS
    Devices,            \* gateways on the wall
    IdOf,               \* the gateway_id each of them sends
    Callers,            \* concurrent callers of SetPeakStress
    Readings,           \* what a telemetry frame carries
    Malformed,          \* the reading of a frame that is no JSON
    None,               \* no device, no reading, no status
    Window,             \* bound: frames a connection holds unread
    MaxCalls,           \* bound: calls of SetPeakStress
    MaxCuts             \* bound: links that break

ASSUME IdOfAssumption == IdOf \in [Devices -> Ids]
ASSUME BoundsAssumption ==
    /\ Window \in Nat \ {0}
    /\ MaxCalls \in Nat
    /\ MaxCuts \in Nat

Status == [watts : Readings \ {Malformed}, peak : BOOLEAN]

ASSUME NoneAssumption == None \notin Devices \cup Readings \cup Status

VARIABLES
    peakStress,         \* Handler::peakStress, read and written without a lock
    status              \* the gateway store: latest status per id

\* Per gateway connection.
VARIABLES
    pc,                 \* where HandleWebSocket is
    owner,              \* the device at the other end
    link,               \* the TCP connection is up
    inbox,              \* the telemetry frame it delivered last
    watts,              \* locals of handleIncomingMessage: the reading,
    seen,               \*   the value of peakStress it took,
    snap,               \*   the statuses it is about to broadcast,
    todo,               \*   the dashboards still to write to
    out                 \* frames on their way to the device

\* Per dashboard connection.
VARIABLES
    vpc,                \* where HandleDashboardWebSocket is
    vlink,
    vsnap,              \* the statuses it is about to send first
    vout,               \* frames on their way to the dashboard
    shown               \* the statuses the dashboard shows

\* Per caller of SetPeakStress.
VARIABLES cpc, arg, ctodo

\* The devices: the connection each one uses, the last command it followed.
VARIABLES conn, applied

\* Counters of the bounds, and a history variable for the properties: the ids
\* that had two connections at once.
VARIABLES calls, cuts, overlapped

slotVars   == <<pc, owner, link, inbox, watts, seen, snap, todo, out>>
viewerVars == <<vpc, vlink, vsnap, vout, shown>>
callerVars == <<cpc, arg, ctodo>>
deviceVars == <<conn, applied>>
boundVars  == <<calls, cuts, overlapped>>
vars == <<peakStress, status, slotVars, viewerVars, callerVars, deviceVars,
          boundVars, hubVars, dashHubVars>>

Statuses == [Ids -> Status \cup {None}]
NoStatuses == [id \in Ids |-> None]
Frames == [type : {"", "ack"}, active : BOOLEAN]
Id(s) == IdOf[owner[s]]

TypeOK ==
    /\ clients \in [Ids -> Slots \cup {NoSlot}] /\ hub_readers \subseteq Callers
    /\ dash_clients \subseteq Viewers /\ dash_readers \subseteq Slots
    /\ peakStress \in BOOLEAN /\ status \in Statuses
    /\ pc \in [Slots -> {"free", "register", "read", "store", "update", "snapshot",
                         "fanout", "push", "ack", "ack_write", "unregister"}]
    /\ owner \in [Slots -> Devices \cup {None}]
    /\ link \in [Slots -> BOOLEAN]
    /\ inbox \in [Slots -> Readings \cup {None}]
    /\ watts \in [Slots -> (Readings \ {Malformed}) \cup {None}]
    /\ seen \in [Slots -> BOOLEAN]
    /\ snap \in [Slots -> Statuses]
    /\ todo \in [Slots -> SUBSET Viewers]
    /\ \A s \in Slots : out[s] \in Seq(Frames) /\ Len(out[s]) <= Window
    /\ vpc \in [Viewers -> {"off", "register", "snapshot", "first", "open",
                            "unregister"}]
    /\ vlink \in [Viewers -> BOOLEAN]
    /\ vsnap \in [Viewers -> Statuses] /\ shown \in [Viewers -> Statuses]
    /\ \A v \in Viewers : vout[v] \in Seq(Statuses) /\ Len(vout[v]) <= Window
    /\ cpc \in [Callers -> {"idle", "rlock", "write"}]
    /\ arg \in [Callers -> BOOLEAN] /\ ctodo \in [Callers -> SUBSET Slots]
    /\ conn \in [Devices -> Slots \cup {NoSlot}] /\ applied \in [Devices -> BOOLEAN]
    /\ calls \in 0 .. MaxCalls /\ cuts \in 0 .. MaxCuts /\ overlapped \subseteq Ids

Init ==
    /\ HubInit /\ DashHubInit
    /\ peakStress = FALSE /\ status = NoStatuses
    /\ pc = [s \in Slots |-> "free"]
    /\ owner = [s \in Slots |-> None]
    /\ link = [s \in Slots |-> FALSE]
    /\ inbox = [s \in Slots |-> None]
    /\ watts = [s \in Slots |-> None]
    /\ seen = [s \in Slots |-> FALSE]
    /\ snap = [s \in Slots |-> NoStatuses]
    /\ todo = [s \in Slots |-> {}]
    /\ out = [s \in Slots |-> <<>>]
    /\ vpc = [v \in Viewers |-> "off"]
    /\ vlink = [v \in Viewers |-> FALSE]
    /\ vsnap = [v \in Viewers |-> NoStatuses]
    /\ vout = [v \in Viewers |-> <<>>]
    /\ shown = [v \in Viewers |-> NoStatuses]
    /\ cpc = [c \in Callers |-> "idle"]
    /\ arg = [c \in Callers |-> FALSE]
    /\ ctodo = [c \in Callers |-> {}]
    /\ conn = [d \in Devices |-> NoSlot]
    /\ applied = [d \in Devices |-> FALSE]
    /\ calls = 0 /\ cuts = 0 /\ overlapped = {}
-----------------------------------------------------------------------------
(* HandleWebSocket: one gateway connection.                                *)

\* The upgrade; the device takes the connection for its own from here on.
Accept(s, d) ==
    /\ pc[s] = "free" /\ conn[d] = NoSlot
    /\ pc' = [pc EXCEPT ![s] = "register"]
    /\ owner' = [owner EXCEPT ![s] = d]
    /\ link' = [link EXCEPT ![s] = TRUE]
    /\ conn' = [conn EXCEPT ![d] = s]
    /\ UNCHANGED <<peakStress, status, inbox, watts, seen, snap, todo, out,
                   viewerVars, callerVars, applied, boundVars, hubVars, dashHubVars>>

Live(id) == {s \in Slots : owner[s] # None /\ IdOf[owner[s]] = id}

SessionStart(s) ==
    /\ pc[s] = "register"
    /\ Register(Id(s), s)
    /\ pc' = [pc EXCEPT ![s] = "read"]
    /\ overlapped' = IF Live(Id(s)) = {s} THEN overlapped ELSE overlapped \cup {Id(s)}
    /\ UNCHANGED <<peakStress, status, owner, link, inbox, watts, seen, snap, todo,
                   out, viewerVars, callerVars, deviceVars, calls, cuts, dashHubVars>>

\* ReadMessage fails once the connection is gone; what was unread is lost.
ReadError(s) ==
    /\ pc[s] = "read" /\ ~link[s]
    /\ pc' = [pc EXCEPT ![s] = "unregister"]
    /\ inbox' = [inbox EXCEPT ![s] = None]
    /\ UNCHANGED <<peakStress, status, owner, link, watts, seen, snap, todo, out,
                   viewerVars, callerVars, deviceVars, boundVars, hubVars, dashHubVars>>

\* The deferred Unregister and Close.
SessionEnd(s) ==
    /\ pc[s] = "unregister"
    /\ Unregister(Id(s))
    /\ pc' = [pc EXCEPT ![s] = "free"]
    /\ owner' = [owner EXCEPT ![s] = None]
    /\ UNCHANGED <<peakStress, status, link, inbox, watts, seen, snap, todo, out,
                   viewerVars, callerVars, deviceVars, boundVars, dashHubVars>>

-----------------------------------------------------------------------------
(* handleIncomingMessage: one telemetry frame.                             *)

\* Mutant: a frame that does not parse is handled all the same.
ReadFrameUnchecked(s) ==
    /\ pc[s] = "read" /\ inbox[s] # None
    /\ inbox' = [inbox EXCEPT ![s] = None]
    /\ watts' = [watts EXCEPT ![s] = inbox[s]]
    /\ pc' = [pc EXCEPT ![s] = "store"]
    /\ UNCHANGED <<peakStress, status, owner, link, seen, snap, todo, out,
                   viewerVars, callerVars, deviceVars, boundVars, hubVars, dashHubVars>>

ReadFrame(s) ==
    /\ pc[s] = "read" /\ inbox[s] # None
    /\ inbox' = [inbox EXCEPT ![s] = None]
    /\ IF inbox[s] = Malformed
       THEN UNCHANGED <<pc, watts>>
       ELSE /\ watts' = [watts EXCEPT ![s] = inbox[s]]
            /\ pc' = [pc EXCEPT ![s] = "store"]
    /\ UNCHANGED <<peakStress, status, owner, link, seen, snap, todo, out,
                   viewerVars, callerVars, deviceVars, boundVars, hubVars, dashHubVars>>

\* Store() of the memory store (module TelemetryStore) cannot fail; then the
\* status is put together, with the flag as it is now.
BuildStatus(s) ==
    /\ pc[s] = "store"
    /\ seen' = [seen EXCEPT ![s] = peakStress]
    /\ pc' = [pc EXCEPT ![s] = "update"]
    /\ UNCHANGED <<peakStress, status, owner, link, inbox, watts, snap, todo, out,
                   viewerVars, callerVars, deviceVars, boundVars, hubVars, dashHubVars>>

\* Mutant: an entry that is there keeps its reading.
UpdateStatusOnce(s) ==
    /\ pc[s] = "update"
    /\ status' = [status EXCEPT ![Id(s)] =
                     [watts |-> IF @ = None THEN watts[s] ELSE @.watts, peak |-> seen[s]]]
    /\ pc' = [pc EXCEPT ![s] = "snapshot"]
    /\ seen' = [seen EXCEPT ![s] = FALSE]
    /\ UNCHANGED <<peakStress, owner, link, inbox, watts, snap, todo, out,
                   viewerVars, callerVars, deviceVars, boundVars, hubVars, dashHubVars>>

UpdateStatus(s) ==
    /\ pc[s] = "update"
    /\ status' = [status EXCEPT ![Id(s)] = [watts |-> watts[s], peak |-> seen[s]]]
    /\ pc' = [pc EXCEPT ![s] = "snapshot"]
    /\ seen' = [seen EXCEPT ![s] = FALSE]
    /\ UNCHANGED <<peakStress, owner, link, inbox, watts, snap, todo, out,
                   viewerVars, callerVars, deviceVars, boundVars, hubVars, dashHubVars>>

\* Mutant: only the status that changed.
GetAllOwn(s) ==
    /\ pc[s] = "snapshot"
    /\ snap' = [snap EXCEPT ![s] = [NoStatuses EXCEPT ![Id(s)] = status[Id(s)]]]
    /\ pc' = [pc EXCEPT ![s] = "fanout"]
    /\ UNCHANGED <<peakStress, status, owner, link, inbox, watts, seen, todo, out,
                   viewerVars, callerVars, deviceVars, boundVars, hubVars, dashHubVars>>

\* broadcastGridStatus: GetAll under the store's lock, ...
GetAll(s) ==
    /\ pc[s] = "snapshot"
    /\ snap' = [snap EXCEPT ![s] = status]
    /\ pc' = [pc EXCEPT ![s] = "fanout"]
    /\ UNCHANGED <<peakStress, status, owner, link, inbox, watts, seen, todo, out,
                   viewerVars, callerVars, deviceVars, boundVars, hubVars, dashHubVars>>

\* ... then Broadcast under the dashboard hub's read lock.
FanoutStart(s) ==
    /\ pc[s] = "fanout"
    /\ DashReadLock(s)
    /\ todo' = [todo EXCEPT ![s] = dash_clients]
    /\ pc' = [pc EXCEPT ![s] = "push"]
    /\ UNCHANGED <<peakStress, status, owner, link, inbox, watts, seen, snap, out,
                   viewerVars, callerVars, deviceVars, boundVars, hubVars>>

\* Mutant: a failed write has the broadcast made anew, with the lock held.
PushAnew(s, v) ==
    /\ pc[s] = "push" /\ v \in todo[s]
    /\ \/ /\ vlink[v] /\ Len(vout[v]) < Window
          /\ vout' = [vout EXCEPT ![v] = Append(@, snap[s])]
          /\ todo' = [todo EXCEPT ![s] = @ \ {v}]
          /\ UNCHANGED pc
       \/ /\ ~vlink[v] /\ UNCHANGED vout
          /\ todo' = [todo EXCEPT ![s] = {}]
          /\ pc' = [pc EXCEPT ![s] = "snapshot"]
    /\ UNCHANGED <<peakStress, status, owner, link, inbox, watts, seen, snap, out,
                   vpc, vlink, vsnap, shown, callerVars, deviceVars, boundVars,
                   hubVars, dashHubVars>>

\* One write; it blocks on a dashboard that does not read, fails on one whose
\* connection is gone, and a failure is only logged.
Push(s, v) ==
    /\ pc[s] = "push" /\ v \in todo[s]
    /\ \/ /\ vlink[v] /\ Len(vout[v]) < Window
          /\ vout' = [vout EXCEPT ![v] = Append(@, snap[s])]
       \/ ~vlink[v] /\ UNCHANGED vout
    /\ todo' = [todo EXCEPT ![s] = @ \ {v}]
    /\ UNCHANGED <<peakStress, status, pc, owner, link, inbox, watts, seen, snap, out,
                   vpc, vlink, vsnap, shown, callerVars, deviceVars, boundVars,
                   hubVars, dashHubVars>>

FanoutEnd(s) ==
    /\ pc[s] = "push" /\ todo[s] = {}
    /\ DashReadUnlock(s)
    /\ snap' = [snap EXCEPT ![s] = NoStatuses]
    /\ watts' = [watts EXCEPT ![s] = None]
    /\ pc' = [pc EXCEPT ![s] = "ack"]
    /\ UNCHANGED <<peakStress, status, owner, link, inbox, seen, todo, out,
                   viewerVars, callerVars, deviceVars, boundVars, hubVars>>

\* Mutant: the acknowledgment carries no flag, as POST /telemetry's response.
BuildAckWithoutFlag(s) ==
    /\ pc[s] = "ack"
    /\ seen' = [seen EXCEPT ![s] = FALSE]
    /\ pc' = [pc EXCEPT ![s] = "ack_write"]
    /\ UNCHANGED <<peakStress, status, owner, link, inbox, watts, snap, todo, out,
                   viewerVars, callerVars, deviceVars, boundVars, hubVars, dashHubVars>>

\* The flag is read a second time for the acknowledgment, ...
BuildAck(s) ==
    /\ pc[s] = "ack"
    /\ seen' = [seen EXCEPT ![s] = peakStress]
    /\ pc' = [pc EXCEPT ![s] = "ack_write"]
    /\ UNCHANGED <<peakStress, status, owner, link, inbox, watts, snap, todo, out,
                   viewerVars, callerVars, deviceVars, boundVars, hubVars, dashHubVars>>

\* A write to a gateway: into the queue, or into the void.
Send(s, frame) ==
    \/ /\ link[s] /\ Len(out[s]) < Window
       /\ out' = [out EXCEPT ![s] = Append(@, frame)]
    \/ ~link[s] /\ UNCHANGED out

\* ... and written later.
WriteAck(s) ==
    /\ pc[s] = "ack_write"
    /\ Send(s, [type |-> "ack", active |-> seen[s]])
    /\ seen' = [seen EXCEPT ![s] = FALSE]
    /\ pc' = [pc EXCEPT ![s] = "read"]
    /\ UNCHANGED <<peakStress, status, owner, link, inbox, watts, snap, todo,
                   viewerVars, callerVars, deviceVars, boundVars, hubVars, dashHubVars>>

HandleFrame(s) ==
    \/ ReadFrame(s) \/ BuildStatus(s) \/ UpdateStatus(s) \/ GetAll(s)
    \/ FanoutStart(s) \/ (\E v \in Viewers : Push(s, v)) \/ FanoutEnd(s)
    \/ BuildAck(s) \/ WriteAck(s)

-----------------------------------------------------------------------------
(* SetPeakStress, of the handler and of the hub.                           *)

SetFlag(c, active) ==
    /\ cpc[c] = "idle" /\ calls < MaxCalls
    /\ calls' = calls + 1
    /\ peakStress' = active
    /\ arg' = [arg EXCEPT ![c] = active]
    /\ cpc' = [cpc EXCEPT ![c] = "rlock"]
    /\ UNCHANGED <<status, slotVars, viewerVars, ctodo, deviceVars, cuts, overlapped,
                   hubVars, dashHubVars>>

\* BroadcastPeakStress: the read lock is held over all the writes.
BroadcastStart(c) ==
    /\ cpc[c] = "rlock"
    /\ ReadLock(c)
    /\ ctodo' = [ctodo EXCEPT ![c] = Registered]
    /\ cpc' = [cpc EXCEPT ![c] = "write"]
    /\ UNCHANGED <<peakStress, status, slotVars, viewerVars, arg, deviceVars,
                   boundVars, dashHubVars>>

\* The message is built without its type.
BroadcastTo(c, s) ==
    /\ cpc[c] = "write" /\ s \in ctodo[c]
    /\ Send(s, [type |-> "", active |-> arg[c]])
    /\ ctodo' = [ctodo EXCEPT ![c] = @ \ {s}]
    /\ UNCHANGED <<peakStress, status, pc, owner, link, inbox, watts, seen, snap, todo,
                   viewerVars, cpc, arg, deviceVars, boundVars, hubVars, dashHubVars>>

BroadcastEnd(c) ==
    /\ cpc[c] = "write" /\ ctodo[c] = {}
    /\ ReadUnlock(c)
    /\ arg' = [arg EXCEPT ![c] = FALSE]
    /\ cpc' = [cpc EXCEPT ![c] = "idle"]
    /\ UNCHANGED <<peakStress, status, slotVars, viewerVars, ctodo, deviceVars,
                   boundVars, dashHubVars>>

Broadcast(c) ==
    BroadcastStart(c) \/ (\E s \in Slots : BroadcastTo(c, s)) \/ BroadcastEnd(c)

-----------------------------------------------------------------------------
(* HandleDashboardWebSocket: one dashboard connection.                     *)

DashAccept(v) ==
    /\ vpc[v] = "off"
    /\ vpc' = [vpc EXCEPT ![v] = "register"]
    /\ vlink' = [vlink EXCEPT ![v] = TRUE]
    /\ UNCHANGED <<peakStress, status, slotVars, vsnap, vout, shown, callerVars,
                   deviceVars, boundVars, hubVars, dashHubVars>>

DashStart(v) ==
    /\ vpc[v] = "register"
    /\ DashRegister(v)
    /\ vpc' = [vpc EXCEPT ![v] = "snapshot"]
    /\ UNCHANGED <<peakStress, status, slotVars, vlink, vsnap, vout, shown, callerVars,
                   deviceVars, boundVars, hubVars>>

\* broadcastGridStatusTo, which runs when pushes may already go to v.
DashGetAll(v) ==
    /\ vpc[v] = "snapshot"
    /\ vsnap' = [vsnap EXCEPT ![v] = status]
    /\ vpc' = [vpc EXCEPT ![v] = "first"]
    /\ UNCHANGED <<peakStress, status, slotVars, vlink, vout, shown, callerVars,
                   deviceVars, boundVars, hubVars, dashHubVars>>

DashFirst(v) ==
    /\ vpc[v] = "first"
    /\ \/ /\ vlink[v] /\ Len(vout[v]) < Window
          /\ vout' = [vout EXCEPT ![v] = Append(@, vsnap[v])]
       \/ ~vlink[v] /\ UNCHANGED vout
    /\ vsnap' = [vsnap EXCEPT ![v] = NoStatuses]
    /\ vpc' = [vpc EXCEPT ![v] = "open"]
    /\ UNCHANGED <<peakStress, status, slotVars, vlink, shown, callerVars, deviceVars,
                   boundVars, hubVars, dashHubVars>>

DashReadError(v) ==
    /\ vpc[v] = "open" /\ ~vlink[v]
    /\ vpc' = [vpc EXCEPT ![v] = "unregister"]
    /\ UNCHANGED <<peakStress, status, slotVars, vlink, vsnap, vout, shown, callerVars,
                   deviceVars, boundVars, hubVars, dashHubVars>>

DashEnd(v) ==
    /\ vpc[v] = "unregister"
    /\ DashUnregister(v)
    /\ vpc' = [vpc EXCEPT ![v] = "off"]
    /\ UNCHANGED <<peakStress, status, slotVars, vlink, vsnap, vout, shown, callerVars,
                   deviceVars, boundVars, hubVars>>

DashSession(v) == DashGetAll(v) \/ DashFirst(v) \/ DashReadError(v)

-----------------------------------------------------------------------------
(* The environment: devices, dashboards and links.                         *)

\* send_telemetry() of a connected device, with the previous frame read.
SendTelemetry(d, w) ==
    /\ conn[d] # NoSlot /\ inbox[conn[d]] = None
    /\ inbox' = [inbox EXCEPT ![conn[d]] = w]
    /\ UNCHANGED <<peakStress, status, pc, owner, link, watts, seen, snap, todo, out,
                   viewerVars, callerVars, deviceVars, boundVars, hubVars, dashHubVars>>

\* The device handles the next frame and follows its flag, whatever its type.
Deliver(d) ==
    /\ conn[d] # NoSlot /\ out[conn[d]] # <<>>
    /\ applied' = [applied EXCEPT ![d] = Head(out[conn[d]]).active]
    /\ out' = [out EXCEPT ![conn[d]] = Tail(@)]
    /\ UNCHANGED <<peakStress, status, pc, owner, link, inbox, watts, seen, snap, todo,
                   viewerVars, callerVars, conn, boundVars, hubVars, dashHubVars>>

\* The link breaks, or the device restarts; the server notices later.
Cut(d) ==
    /\ conn[d] # NoSlot /\ cuts < MaxCuts
    /\ cuts' = cuts + 1
    /\ link' = [link EXCEPT ![conn[d]] = FALSE]
    /\ out' = [out EXCEPT ![conn[d]] = <<>>]
    /\ conn' = [conn EXCEPT ![d] = NoSlot]
    /\ \E kept \in {applied[d], FALSE} : applied' = [applied EXCEPT ![d] = kept]
    /\ UNCHANGED <<peakStress, status, pc, owner, inbox, watts, seen, snap, todo,
                   viewerVars, callerVars, calls, overlapped, hubVars, dashHubVars>>

ViewerReads(v) ==
    /\ vlink[v] /\ vout[v] # <<>>
    /\ shown' = [shown EXCEPT ![v] = Head(vout[v])]
    /\ vout' = [vout EXCEPT ![v] = Tail(@)]
    /\ UNCHANGED <<peakStress, status, slotVars, vpc, vlink, vsnap, callerVars,
                   deviceVars, boundVars, hubVars, dashHubVars>>

ViewerLeaves(v) ==
    /\ vlink[v]
    /\ vlink' = [vlink EXCEPT ![v] = FALSE]
    /\ vout' = [vout EXCEPT ![v] = <<>>]
    /\ shown' = [shown EXCEPT ![v] = NoStatuses]
    /\ UNCHANGED <<peakStress, status, slotVars, vpc, vsnap, callerVars, deviceVars,
                   boundVars, hubVars, dashHubVars>>

-----------------------------------------------------------------------------
ServeGateway(s) == SessionStart(s) \/ HandleFrame(s) \/ ReadError(s) \/ SessionEnd(s)
ServeDashboard(v) == DashStart(v) \/ DashSession(v) \/ DashEnd(v)

Next ==
    \/ \E s \in Slots : ServeGateway(s) \/ \E d \in Devices : Accept(s, d)
    \/ \E c \in Callers : Broadcast(c) \/ \E active \in BOOLEAN : SetFlag(c, active)
    \/ \E v \in Viewers :
          ServeDashboard(v) \/ DashAccept(v) \/ ViewerReads(v) \/ ViewerLeaves(v)
    \/ \E d \in Devices :
          \/ \E w \in Readings : SendTelemetry(d, w)
          \/ Deliver(d)
          \/ Cut(d)

Spec == Init /\ [][Next]_vars

(***************************************************************************)
(* Every goroutine that can run again and again does.  That is strong      *)
(* fairness, for the steps that compete for a lock or for a full           *)
(* connection: a sync.RWMutex admits no new reader past a waiting writer,  *)
(* and writers to one connection queue up for it.  A device that is on     *)
(* keeps reconnecting, reporting every 10 s and reading.  Links break and  *)
(* the operator acts at will.                                              *)
(***************************************************************************)
ServerFair ==
    /\ \A s \in Slots : SF_vars(ServeGateway(s))
    /\ \A c \in Callers : SF_vars(Broadcast(c))
    /\ \A v \in Viewers : SF_vars(ServeDashboard(v))
DevicesFair ==
    \A d \in Devices :
       /\ WF_vars(\E s \in Slots : Accept(s, d))
       /\ WF_vars(\E w \in Readings : SendTelemetry(d, w))
       /\ WF_vars(Deliver(d))
ViewersFair == \A v \in Viewers : WF_vars(ViewerReads(v))

FairSpec == Spec /\ ServerFair /\ DevicesFair /\ ViewersFair

-----------------------------------------------------------------------------
(* Safety.                                                                 *)

Open == {s \in Slots : pc[s] \notin {"free", "register"}}

\* An entry of the hub's map (hub.go) is a connection whose HandleWebSocket has
\* not returned, under the id that connection gave; a broadcast in progress
\* writes to no other.
MapHoldsOpenConnections ==
    /\ \A id \in Ids :
        clients[id] # NoSlot => clients[id] \in Open /\ Id(clients[id]) = id
    /\ \A c \in Callers : ctodo[c] \subseteq Open

\* A connected gateway misses from the map only if its id had two connections at
\* once, the only case in which one handler's Unregister (hub.go) deletes the
\* entry another one's Register made.
OnlyOverlapLosesEntries ==
    \A s \in Open : Id(s) \notin overlapped => clients[Id(s)] = s

\* What a handler pushes to the dashboards contains the reading it was called
\* with, and not an earlier one of its gateway: broadcastGridStatus comes after
\* UpdateStatus, and nobody else writes the entry in between unless the id has two
\* connections.
PushContainsOwnReading ==
    \A s \in Slots :
        pc[s] \in {"fanout", "push"} /\ Id(s) \notin overlapped =>
            /\ snap[s][Id(s)] # None
            /\ snap[s][Id(s)].watts = watts[s]

-----------------------------------------------------------------------------
(* What the repository's documents say.                                    *)

\* hub.go: a broadcast goes to all connected gateways.
ConnectedGatewayIsRegistered ==
    \A d \in Devices :
        conn[d] # NoSlot /\ pc[conn[d]] = "read" => clients[IdOf[d]] = conn[d]

-----------------------------------------------------------------------------
(* Liveness.                                                               *)

\* Once the operator is done and the links hold, every gateway ends up following
\* the flag: what a broadcast missed, or a late acknowledgment undid, the
\* acknowledgment of a later reading (handler.go) puts right.
GatewaysFollowOperator ==
    <>[](\A d \in Devices : applied[d] = peakStress)

\* Every loop comes back to its read, or to its end: no frame that
\* handleIncomingMessage took waits for its acknowledgment for ever, for a lock
\* of a hub or for a dashboard, and no connection waits to be registered.
FrameIsAcknowledged == \A s \in Slots : []<>(pc[s] \in {"read", "free"})

\* When the readings settle, every dashboard that stays shows them in the end,
\* in whatever order the pushes of different gateways reached it.
DashboardsCatchUp ==
    <>[][status' = status]_vars =>
        <>[](\A v \in Viewers :
                vpc[v] = "open" /\ vlink[v] /\ vout[v] = <<>> => shown[v] = status)
=============================================================================
