--------------------------- MODULE DashboardClient ---------------------------
(***************************************************************************)
(* The dashboard app: DashboardWebSocketService (dashboard_websocket_      *)
(* service.dart) with its reconnect timer, the providers that hand its     *)
(* stream and one HTTP fetch to the screen (dashboard_providers.dart,      *)
(* dashboard_repository.dart), and what the screen makes of them           *)
(* (dashboard_screen.dart).  One Dart event at a time, and the callbacks   *)
(* an event leaves behind run before the next one.                         *)
(*                                                                         *)
(* The other end of a connection is HandleDashboardWebSocket() (backend,   *)
(* handler.go): it registers the dashboard, takes a snapshot of the grid   *)
(* status and writes it, and pushes may come between any two of these.  A  *)
(* grid status is the number of changes the backend had seen when it was   *)
(* taken.  A push is one step here; that the pushes of two gateways'       *)
(* handlers may overtake each other is WebSocketHandler's subject.         *)
(***************************************************************************)
EXTENDS Naturals, Sequences

CONSTANTS
    Channels,           \* WebSocketChannel objects, used again once closed
    MaxServices,        \* bound: services made, the first and one per Retry
    MaxGrid,            \* bound: changes of the backend's grid status
    MaxUnread,          \* bound: frames on their way over a connection
    None

ASSUME BoundsAssumption ==
    /\ MaxServices \in Nat \ {0} /\ MaxGrid \in Nat /\ MaxUnread \in Nat \ {0}
    /\ Channels # {} /\ None \notin Channels
    /\ None \notin {"connecting", "connected", "disconnected"}

VARIABLES
    service,            \* the service the provider holds, counted from 1
    disposed,           \* services with _disposed (and _intentionalClose) set
    channel,            \* [service]: _channel
    timers,             \* [service]: reconnect timers that will fire
    state,              \* connectionStateProvider's latest value, or None
    phase, owner, inbox,\* [channel]: its connection, its service, frames to come
    closing,            \* channels whose sink the app has closed
    handler, snapshot,  \* [channel]: where the backend's handler is, its snapshot
    callbacks,          \* the library's callbacks, pending: <<channel, kind>>
    stream,             \* gridStatusStreamProvider's latest value, or None
    fetch,              \* gridStatusProvider: pending, answered, data, error
    fetched,            \* the status the answer carries
    failed,             \* the last fetch to complete was an error
    latest,             \* the screen's latestStatus and where it came from
    indicator,          \* the screen's connectionState, shown in its app bar
    screen,             \* what the last frame showed
    server_up, grid,    \* the backend and its grid status
    overtaken           \* history: snapshots not yet written when a push was

serviceVars == <<service, disposed, channel, timers, state>>
channelVars == <<phase, owner, inbox, closing>>
handlerVars == <<handler, snapshot, overtaken>>
fetchVars   == <<fetch, fetched, failed>>
screenVars  == <<latest, indicator, screen>>
serverVars  == <<server_up, grid>>
vars == <<serviceVars, channelVars, handlerVars, callbacks, stream, fetchVars,
          screenVars, serverVars>>

Services == 1 .. MaxServices
Statuses == 0 .. MaxGrid
States == {"connecting", "connected", "disconnected"}
Kinds == {"ready", "ready_error", "error", "done"}
NoStatus == [from |-> "none", v |-> 0]

TypeOK ==
    /\ service \in Services /\ disposed \subseteq Services
    /\ channel \in [Services -> Channels \cup {None}]
    /\ timers \in [Services -> 0 .. 1]
    /\ state \in States \cup {None} /\ indicator \in States
    /\ phase \in [Channels -> {"free", "connecting", "open", "broken"}]
    /\ owner \in [Channels -> Services]
    /\ inbox \in [Channels -> Seq(Statuses)]
    /\ closing \subseteq Channels
    /\ handler \in [Channels -> {"none", "accepted", "registered", "taken", "reading"}]
    /\ snapshot \in [Channels -> Statuses] /\ overtaken \subseteq Statuses
    /\ callbacks \subseteq Channels \X Kinds
    /\ stream \in Statuses \cup {None}
    /\ fetch \in {"pending", "answered", "data", "error"}
    /\ fetched \in Statuses /\ failed \in BOOLEAN
    /\ latest \in [from : {"none", "http", "stream"}, v : Statuses]
    /\ screen \in {"loading", "error", "dashboard", "gone"}
    /\ server_up \in BOOLEAN /\ grid \in Statuses

\* The first build makes the providers: the service connects, the fetch starts.
\* connect() has added "connecting" before connectionStateProvider listens, and a
\* broadcast stream keeps nothing for those who come later.
Init ==
    /\ service = 1 /\ disposed = {}
    /\ LET first == CHOOSE c \in Channels : TRUE IN
        /\ channel = [s \in Services |-> IF s = 1 THEN first ELSE None]
        /\ phase = [c \in Channels |-> IF c = first THEN "connecting" ELSE "free"]
    /\ timers = [s \in Services |-> 0]
    /\ state = None /\ indicator = "connecting"
    /\ owner = [c \in Channels |-> 1]
    /\ inbox = [c \in Channels |-> <<>>]
    /\ closing = {} /\ callbacks = {}
    /\ handler = [c \in Channels |-> "none"]
    /\ snapshot = [c \in Channels |-> 0] /\ overtaken = {}
    /\ stream = None
    /\ fetch = "pending" /\ fetched = 0 /\ failed = FALSE
    /\ latest = NoStatus /\ screen = "loading"
    /\ server_up \in BOOLEAN /\ grid = 0

\* The event loop takes the next event when no callback is left.
Idle == callbacks = {}

-----------------------------------------------------------------------------
(* DashboardWebSocketService.                                              *)

\* Which of the closed channels stands for a new one makes no difference.
Free == {c \in Channels : phase[c] = "free"}
NewChannel == CHOOSE c \in Free : TRUE

\* Mutant: the state is reported before the channel is ready.
ConnectSaysConnected(s) ==
    /\ Free # {}
    /\ channel' = [channel EXCEPT ![s] = NewChannel]
    /\ phase' = [phase EXCEPT ![NewChannel] = "connecting"]
    /\ owner' = [owner EXCEPT ![NewChannel] = s]
    /\ state' = IF s = service THEN "connected" ELSE None

\* connect() of a service that is not disposed.  The URL is a constant that
\* parses and the channel reports its failures later, so nothing throws here.  Of
\* a service that is only being made connectionStateProvider hears nothing yet.
Connect(s) ==
    /\ Free # {}
    /\ channel' = [channel EXCEPT ![s] = NewChannel]
    /\ phase' = [phase EXCEPT ![NewChannel] = "connecting"]
    /\ owner' = [owner EXCEPT ![NewChannel] = s]
    /\ state' = IF s = service THEN "connecting" ELSE None

\* Mutant: an earlier timer is not cancelled.
ScheduleReconnectKeepsTimer(s) == timers' = [timers EXCEPT ![s] = @ + 1]

\* The timer is set, an earlier one cancelled.
ScheduleReconnect(s) == timers' = [timers EXCEPT ![s] = 1]

\* The callback of ready.
OnReady(s) == state' = "connected" /\ UNCHANGED timers

\* The error callback of ready, and _onError() of the stream.
OnFailure(s) == state' = "disconnected" /\ ScheduleReconnect(s)

\* Mutant: the end of the stream is taken for the end of the service.
OnDoneForgets(s) == state' = "disconnected" /\ UNCHANGED timers

\* _onDone() of the stream.
OnDone(s) == state' = "disconnected" /\ ScheduleReconnect(s)

\* One callback of the library.  Those of a disposed service return at once; the
\* stream's error comes before its end, the others in any order.
RunCallback ==
    \E c \in Channels, k \in Kinds :
        /\ <<c, k>> \in callbacks
        /\ k = "done" => <<c, "error">> \notin callbacks
        /\ callbacks' = callbacks \ {<<c, k>>}
        /\ IF owner[c] \in disposed
             THEN UNCHANGED <<state, timers>>
             ELSE \/ k = "ready" /\ OnReady(owner[c])
                  \/ k \in {"ready_error", "error"} /\ OnFailure(owner[c])
                  \/ k = "done" /\ OnDone(owner[c])
        /\ UNCHANGED <<service, disposed, channel, channelVars, handlerVars, stream,
                       fetchVars, screenVars, serverVars>>

\* The reconnect timer fires.
TimerFires(s) ==
    /\ Idle /\ timers[s] > 0
    /\ timers' = [timers EXCEPT ![s] = @ - 1]
    /\ IF s \in disposed
         THEN UNCHANGED <<channel, phase, owner, state>>
         ELSE Connect(s)
    /\ UNCHANGED <<service, disposed, inbox, closing, handlerVars, callbacks, stream,
                   fetchVars, screenVars, serverVars>>

\* _onMessage(): the status goes to the stream, unless the service is disposed.
OnMessage(c) ==
    /\ Idle /\ phase[c] \in {"open", "broken"} /\ inbox[c] # <<>>
    /\ inbox' = [inbox EXCEPT ![c] = Tail(@)]
    /\ stream' = IF owner[c] \in disposed THEN stream ELSE Head(inbox[c])
    /\ UNCHANGED <<serviceVars, phase, owner, closing, handlerVars, callbacks,
                   fetchVars, screenVars, serverVars>>

\* Mutant: the sink is left open.
DisposeLeavesSink(s) ==
    /\ disposed' = disposed \cup {s}
    /\ timers' = [timers EXCEPT ![s] = 0]
    /\ UNCHANGED closing

\* dispose(): no timer, and the channel closes unless it is closed already.
Dispose(s) ==
    /\ disposed' = disposed \cup {s}
    /\ timers' = [timers EXCEPT ![s] = 0]
    /\ closing' = closing \cup {c \in Channels : c = channel[s] /\ phase[c] # "free"}

-----------------------------------------------------------------------------
(* The library and the network, with the backend's end of a connection.    *)

\* The backend accepts, and its handler has yet to register the dashboard.
Opens(c) ==
    /\ Idle /\ phase[c] = "connecting" /\ server_up
    /\ IF c \in closing
         THEN /\ phase' = [phase EXCEPT ![c] = "free"]
              /\ closing' = closing \ {c}
              /\ UNCHANGED <<handler, callbacks>>
         ELSE /\ phase' = [phase EXCEPT ![c] = "open"]
              /\ handler' = [handler EXCEPT ![c] = "accepted"]
              /\ callbacks' = {<<c, "ready">>}
              /\ UNCHANGED closing
    /\ UNCHANGED <<serviceVars, owner, inbox, snapshot, overtaken, stream, fetchVars,
                   screenVars, serverVars>>

\* An attempt fails in three places at once: the future and the stream.
ConnectFails(c) ==
    /\ Idle /\ phase[c] = "connecting" /\ ~server_up
    /\ phase' = [phase EXCEPT ![c] = "free"]
    /\ closing' = closing \ {c}
    /\ callbacks' = {c} \X {"ready_error", "error", "done"}
    /\ UNCHANGED <<serviceVars, owner, inbox, handlerVars, stream, fetchVars,
                   screenVars, serverVars>>

\* A connection ends: the server's end of it is gone, or the app has closed it.
Ends(c) ==
    /\ Idle
    /\ phase[c] = "broken" \/ (phase[c] = "open" /\ c \in closing)
    /\ phase' = [phase EXCEPT ![c] = "free"]
    /\ closing' = closing \ {c}
    /\ inbox' = [inbox EXCEPT ![c] = <<>>]
    /\ handler' = [handler EXCEPT ![c] = "none"]
    /\ snapshot' = [snapshot EXCEPT ![c] = 0]
    /\ callbacks' = {<<c, "done">>}
    /\ UNCHANGED <<serviceVars, owner, overtaken, stream, fetchVars, screenVars,
                   serverVars>>

\* dashboardHub.Register().
Registers(c) ==
    /\ Idle /\ handler[c] = "accepted"
    /\ handler' = [handler EXCEPT ![c] = "registered"]
    /\ UNCHANGED <<serviceVars, channelVars, snapshot, overtaken, callbacks, stream,
                   fetchVars, screenVars, serverVars>>

\* broadcastGridStatusTo() as far as GetAll().
TakesSnapshot(c) ==
    /\ Idle /\ handler[c] = "registered"
    /\ handler' = [handler EXCEPT ![c] = "taken"]
    /\ snapshot' = [snapshot EXCEPT ![c] = grid]
    /\ UNCHANGED <<serviceVars, channelVars, overtaken, callbacks, stream, fetchVars,
                   screenVars, serverVars>>

\* The rest of it: the snapshot is written, and the handler reads from then on.
WritesFirst(c) ==
    /\ Idle /\ handler[c] = "taken" /\ Len(inbox[c]) < MaxUnread
    /\ handler' = [handler EXCEPT ![c] = "reading"]
    /\ snapshot' = [snapshot EXCEPT ![c] = 0]
    /\ inbox' = [inbox EXCEPT ![c] = Append(@, snapshot[c])]
    /\ UNCHANGED <<serviceVars, phase, owner, closing, overtaken, callbacks, stream,
                   fetchVars, screenVars, serverVars>>

ServerStops ==
    /\ Idle /\ server_up
    /\ server_up' = FALSE
    /\ phase' = [c \in Channels |-> IF phase[c] = "open" THEN "broken" ELSE phase[c]]
    /\ handler' = [c \in Channels |-> "none"]
    /\ snapshot' = [c \in Channels |-> 0]
    /\ UNCHANGED <<serviceVars, owner, inbox, closing, overtaken, callbacks, stream,
                   fetchVars, screenVars, grid>>

ServerStarts ==
    /\ Idle /\ ~server_up
    /\ server_up' = TRUE
    /\ UNCHANGED <<serviceVars, channelVars, handlerVars, callbacks, stream, fetchVars,
                   screenVars, grid>>

\* Mutant: a dashboard is registered once it has its first status.
RegisteredAfterFirst == {c \in Channels : handler[c] = "reading"}

Registered == {c \in Channels : handler[c] \in {"registered", "taken", "reading"}}

\* A reading of a gateway, which may change the grid status, goes to every
\* dashboard that is registered; a full window is waited for.
Push ==
    /\ Idle /\ server_up
    /\ grid' \in {grid, grid + 1} \cap Statuses
    /\ \A c \in Registered : Len(inbox[c]) < MaxUnread
    /\ inbox' = [c \in Channels |-> IF c \in Registered THEN Append(inbox[c], grid')
                                                        ELSE inbox[c]]
    /\ overtaken' = overtaken \cup
           ({snapshot[c] : c \in {d \in Registered : handler[d] = "taken"}} \ {grid'})
    /\ UNCHANGED <<serviceVars, phase, owner, closing, handler, snapshot, callbacks,
                   stream, fetchVars, screenVars, server_up>>

-----------------------------------------------------------------------------
(* The fetch.                                                              *)

\* The backend answers GET /status with the status it then has.
FetchServed ==
    /\ Idle /\ fetch = "pending" /\ server_up
    /\ fetch' = "answered" /\ fetched' = grid
    /\ UNCHANGED <<serviceVars, channelVars, handlerVars, callbacks, stream, failed,
                   screenVars, serverVars>>

FetchReturns ==
    /\ Idle /\ fetch = "answered"
    /\ fetch' = "data" /\ failed' = FALSE
    /\ UNCHANGED <<serviceVars, channelVars, handlerVars, callbacks, stream, fetched,
                   screenVars, serverVars>>

\* The request is refused, lost, answered with an error, or timed out.
FetchFails ==
    /\ Idle /\ fetch \in {"pending", "answered"}
    /\ fetch' = "error" /\ failed' = TRUE /\ fetched' = 0
    /\ UNCHANGED <<serviceVars, channelVars, handlerVars, callbacks, stream, screenVars,
                   serverVars>>

-----------------------------------------------------------------------------
(* The screen.                                                             *)

\* latestStatus once build() has looked at the stream.
FromStream == IF stream # None THEN [from |-> "stream", v |-> stream] ELSE latest

\* Mutant: a fetch that has come back is shown first.
SeededFetchFirst ==
    IF fetch = "data" THEN [from |-> "http", v |-> fetched] ELSE FromStream

\* latestStatus after the frame's callbacks: the fetch fills an empty one.
Seeded ==
    IF FromStream.from = "none" /\ fetch = "data"
      THEN [from |-> "http", v |-> fetched] ELSE FromStream

\* connectionState once build() has looked at its stream: a service that has
\* reported nothing leaves what the one before it reported.
IndicatorSeen == IF state # None THEN state ELSE indicator

\* build() and the callback it leaves for the end of the frame.  A fetch that is
\* repeated shows the earlier error until it completes.
Build ==
    /\ Idle /\ screen # "gone"
    /\ latest' = Seeded
    /\ indicator' = IndicatorSeen
    /\ screen' = CASE latest'.from # "none" -> "dashboard"
                   [] latest'.from = "none" /\ failed -> "error"
                   [] OTHER -> "loading"
    /\ UNCHANGED <<serviceVars, channelVars, handlerVars, callbacks, stream,
                   fetchVars, serverVars>>

\* Mutant: the service is thrown away and none takes its place.
RetryWithoutService ==
    /\ Idle /\ screen = "error" /\ service < MaxServices
    /\ Dispose(service)
    /\ fetch' = "pending" /\ fetched' = 0
    /\ UNCHANGED <<service, channel, state, phase, owner, inbox, handlerVars, callbacks,
                   stream, failed, screenVars, serverVars>>

\* The button of the error screen: both providers are made again.
Retry ==
    /\ Idle /\ screen = "error" /\ service < MaxServices
    /\ Dispose(service)
    /\ service' = service + 1
    /\ Connect(service + 1)
    /\ stream' = None
    /\ fetch' = "pending" /\ fetched' = 0
    /\ UNCHANGED <<inbox, handlerVars, callbacks, failed, screenVars, serverVars>>

\* The screen goes away and its providers with it.
Leave ==
    /\ Idle /\ screen # "gone"
    /\ Dispose(service)
    /\ screen' = "gone"
    /\ UNCHANGED <<service, channel, state, phase, owner, inbox, handlerVars, callbacks,
                   stream, fetchVars, latest, indicator, serverVars>>

-----------------------------------------------------------------------------
\* What may become of an attempt and of a connection.
Connection(c) == Opens(c) \/ ConnectFails(c) \/ Ends(c)

\* HandleDashboardWebSocket() up to its read loop.
Greets(c) == Registers(c) \/ TakesSnapshot(c) \/ WritesFirst(c)

Next ==
    \/ RunCallback
    \/ \E s \in Services : TimerFires(s)
    \/ \E c \in Channels : OnMessage(c) \/ Connection(c) \/ Greets(c)
    \/ ServerStops \/ ServerStarts \/ Push
    \/ FetchServed \/ FetchReturns \/ FetchFails
    \/ Build \/ Retry \/ Leave

Spec == Init /\ [][Next]_vars

\* The event loop serves what waits for it, and so do the handlers of the backend.
\* An attempt to connect ends, and so does a connection that one side has closed,
\* although callbacks of other channels come in between.  The gateways go on
\* reporting.
Fairness ==
    /\ WF_vars(RunCallback)
    /\ WF_vars(\E s \in Services : TimerFires(s))
    /\ WF_vars(Build)
    /\ WF_vars(\E c \in Channels : OnMessage(c))
    /\ \A c \in Channels : SF_vars(Connection(c))
    /\ WF_vars(\E c \in Channels : Greets(c))
    /\ WF_vars(Push)

FairSpec == Spec /\ Fairness
-----------------------------------------------------------------------------
(* Properties.                                                             *)

Live(s) == {c \in Channels : owner[c] = s /\ phase[c] # "free"}

\* A service in use has either one connection, made or being made, or one timer
\* that will make it: three callbacks of one failure do not make three
\* connections, and no order of events leaves the service with nothing to wait for
\* (dashboard_websocket_service.dart, _scheduleReconnect()).
ConnectionOrTimer ==
    Idle => \A s \in (1 .. service) \ disposed :
        \/ timers[s] = 0 /\ \E c \in Channels : Live(s) = {c}
        \/ timers[s] = 1 /\ Live(s) = {}

\* The state of the connection of the service in use.
ConnectionState ==
    IF \E c \in Live(service) : phase[c] = "connecting" THEN "connecting"
    ELSE IF \E c \in Live(service) : phase[c] \in {"open", "broken"} THEN "connected"
    ELSE "disconnected"

\* The state a frame would show is that of the connection: no callback of an earlier
\* connection is reported over a later one.  The one exception is a first attempt:
\* while it lasts the service has reported nothing that connectionStateProvider
\* could hear, and after Retry the indicator still shows the service before
\* (dashboard_providers.dart, dashboard_screen.dart).
IndicatorMatchesConnection ==
    Idle /\ service \notin disposed =>
        \/ IndicatorSeen = ConnectionState
        \/ state = None /\ ConnectionState = "connecting"

\* A status from the stream is never replaced by the answer to the fetch, which may
\* be older (dashboard_screen.dart, build()), and by an older status only when the
\* backend wrote that one, the first of a connection, after a push that overtook it
\* (handler.go, broadcastGridStatusTo()): whatever connections they came through.
StreamStatusStays ==
    [][latest.from = "stream" =>
         /\ latest'.from = "stream"
         /\ latest'.v >= latest.v \/ latest'.v \in overtaken]_vars

\* Over a connection nothing is missed: once it has its first status, the last frame
\* to come, or the last that came, is the backend's status of now, or the first
\* status when a push overtook that.  The handler registers the dashboard before it
\* takes the snapshot, so no push falls between the two (handler.go,
\* HandleDashboardWebSocket()).
NothingIsMissed ==
    \A c \in Channels : handler[c] = "reading" /\ owner[c] \notin disposed =>
        LET last == IF inbox[c] = <<>> THEN stream ELSE inbox[c][Len(inbox[c])]
        IN  last = grid \/ last \in overtaken

\* A disposed service gives its connections up, also one that was still being
\* made when it was disposed (dispose()).
DisposedServicesLetGo ==
    \A s \in Services : <>[](s \in disposed => Live(s) = {} /\ timers[s] = 0)

\* Once the backend stays up, and with gateways that go on reporting, the screen
\* comes to show its status and the indicator "connected", and both stay so,
\* whatever failures, overtaken statuses, repeated fetches and retries came before.
ScreenCatchesUp ==
    <>[]server_up =>
        <>[](\/ screen = "gone"
             \/ latest = [from |-> "stream", v |-> grid] /\ indicator = "connected")
=============================================================================
