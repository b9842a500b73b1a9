------------------------ MODULE DashboardClient_proofs ------------------------
(***************************************************************************)
(* Proofs about the dashboard app, for any number of channels, services    *)
(* and changes of the grid status.                                         *)
(***************************************************************************)
EXTENDS DashboardClient, TLAPS

\* A closed channel can be found when there is one.
LEMMA NewChannelIsFree ==
    Free # {} => NewChannel \in Channels /\ phase[NewChannel] = "free"
BY DEF Free, NewChannel

\* The first channel is one.
LEMMA FirstChannel == (CHOOSE c \in Channels : TRUE) \in Channels
BY BoundsAssumption

\* No frames are a sequence of frames.
LEMMA EmptySequence == ASSUME NEW S PROVE <<>> \in Seq(S)
OBVIOUS

\* One more frame keeps them one.
LEMMA AppendType ==
    ASSUME NEW S, NEW q \in Seq(S), NEW e \in S PROVE Append(q, e) \in Seq(S)
OBVIOUS

\* What is read of them is a frame, and what is left are frames.
LEMMA HeadTailType ==
    ASSUME NEW S, NEW q \in Seq(S), q # <<>> PROVE Head(q) \in S /\ Tail(q) \in Seq(S)
OBVIOUS

-----------------------------------------------------------------------------
(* Type correctness.                                                       *)

\* A step of the service that leaves frames, fetch, screen and backend alone keeps
\* the other types.
LEMMA ServiceFrame ==
    ASSUME TypeOK, service' \in Services, disposed' \subseteq Services,
           channel' \in [Services -> Channels \cup {None}],
           timers' \in [Services -> 0 .. 1],
           state' \in States \cup {None},
           phase' \in [Channels -> {"free", "connecting", "open", "broken"}],
           owner' \in [Channels -> Services], closing' \subseteq Channels,
           callbacks' \subseteq Channels \X Kinds, stream' \in Statuses \cup {None},
           fetch' \in {"pending", "answered", "data", "error"}, fetched' \in Statuses,
           UNCHANGED <<inbox, handlerVars, failed, latest, indicator, serverVars>>,
           screen' \in {screen, "gone"}
    PROVE  TypeOK'
BY DEF TypeOK, Statuses, handlerVars, serverVars

\* The service's own steps: callbacks, timers, and the remaking of the service.
LEMMA ServiceType ==
    TypeOK /\ (RunCallback \/ (\E s \in Services : TimerFires(s)) \/ Retry \/ Leave)
        => TypeOK'
<1> SUFFICES ASSUME TypeOK,
                    RunCallback \/ (\E s \in Services : TimerFires(s)) \/ Retry \/ Leave
             PROVE TypeOK'
    OBVIOUS
<1> USE BoundsAssumption, NewChannelIsFree
    DEF TypeOK, serviceVars, channelVars, fetchVars, screenVars, Services, Statuses,
        States, Kinds
<1>1. CASE RunCallback
  <2>1. PICK c \in Channels, k \in Kinds : RunCallback!(c, k)
        BY <1>1 DEF RunCallback
  <2>2. timers' \in [Services -> 0 .. 1] /\ state' \in States \cup {None}
    <3>1. \/ UNCHANGED <<state, timers>>
          \/ state' = "connected" /\ UNCHANGED timers
          \/ state' = "disconnected" /\ timers' = [timers EXCEPT ![owner[c]] = 1]
          BY <2>1 DEF OnReady, OnFailure, OnDone, ScheduleReconnect
    <3>2. timers \in [Services -> 0 .. 1] /\ state \in States \cup {None}
          OBVIOUS
    <3>3. "connected" \in States /\ "disconnected" \in States OBVIOUS
    <3> HIDE DEF TypeOK, States, Services
    <3> QED BY <3>1, <3>2, <3>3
  <2>3. callbacks' \subseteq Channels \X Kinds BY <2>1
  <2>4. UNCHANGED <<service, disposed, channel, phase, owner, closing, stream, fetch,
                    fetched, inbox, handlerVars, failed, latest, indicator, screen,
                    serverVars>>
        BY <2>1
  <2> HIDE DEF Kinds, States
  <2> QED BY <2>2, <2>3, <2>4, ServiceFrame
<1>2. ASSUME NEW s \in Services, TimerFires(s) PROVE TypeOK'
  <2>1. timers' \in [Services -> 0 .. 1]
    <3>1. timers[s] > 0 BY <1>2 DEF TimerFires
    <3>2. timers[s] \in 0 .. 1 OBVIOUS
    <3>3. timers[s] = 1 BY <3>1, <3>2
    <3>4. timers' = [timers EXCEPT ![s] = 0] BY <1>2, <3>3 DEF TimerFires
    <3> QED BY <3>4
  <2>2. UNCHANGED <<service, disposed, inbox, closing, handlerVars, callbacks, stream,
                    fetch, fetched, failed, latest, indicator, screen, serverVars>>
        BY <1>2 DEF TimerFires
  <2>4. CASE s \in disposed
    <3>1. UNCHANGED <<channel, phase, owner, state>> BY <1>2, <2>4 DEF TimerFires
    <3> HIDE DEF States, Statuses, Kinds
    <3> QED BY <2>1, <2>2, <3>1, ServiceFrame
  <2>3. CASE s \notin disposed
    <3>1. Connect(s) BY <1>2, <2>3 DEF TimerFires
    <3>2. NewChannel \in Channels BY <3>1 DEF Connect
    <3>3. /\ channel' \in [Services -> Channels \cup {None}]
          /\ phase' \in [Channels -> {"free", "connecting", "open", "broken"}]
          /\ owner' \in [Channels -> Services]
          /\ state' \in States \cup {None}
          BY <3>1, <3>2 DEF Connect
    <3> HIDE DEF States, Statuses, Kinds
    <3> QED BY <2>1, <2>2, <3>3, ServiceFrame
  <2> QED BY <2>3, <2>4
<1>3. CASE Retry
  <2>1. Dispose(service) /\ Connect(service + 1) BY <1>3 DEF Retry
  <2>2. service \in Services /\ service + 1 \in Services BY <1>3 DEF Retry
  <2>3. NewChannel \in Channels BY <2>1 DEF Connect
  <2>4. /\ service' \in Services /\ disposed' \subseteq Services
        /\ timers' \in [Services -> 0 .. 1] /\ closing' \subseteq Channels
        BY <1>3, <2>1, <2>2 DEF Retry, Dispose
  <2>5. /\ channel' \in [Services -> Channels \cup {None}]
        /\ phase' \in [Channels -> {"free", "connecting", "open", "broken"}]
        /\ owner' \in [Channels -> Services]
        /\ state' \in States \cup {None}
        BY <2>1, <2>2, <2>3 DEF Connect
  <2>6. /\ stream' \in Statuses \cup {None} /\ fetched' \in Statuses
        /\ fetch' \in {"pending", "answered", "data", "error"}
        /\ callbacks' \subseteq Channels \X Kinds
        BY <1>3 DEF Retry
  <2>7. UNCHANGED <<inbox, handlerVars, failed, latest, indicator, screen, serverVars>>
        BY <1>3 DEF Retry
  <2> HIDE DEF TypeOK, Services, Statuses, States, Kinds, screenVars
  <2> QED BY <2>4, <2>5, <2>6, <2>7, ServiceFrame
<1>4. CASE Leave
  <2>1. Dispose(service) BY <1>4 DEF Leave
  <2>2. /\ disposed' \subseteq Services /\ closing' \subseteq Channels
        /\ timers' \in [Services -> 0 .. 1]
    <3>1. service \in Services /\ disposed \subseteq Services OBVIOUS
    <3>2. timers \in [Services -> 0 .. 1] /\ closing \subseteq Channels OBVIOUS
    <3> HIDE DEF TypeOK, Services
    <3>3. disposed' = disposed \cup {service} BY <2>1 DEF Dispose
    <3>4. closing' \subseteq Channels BY <2>1, <3>2 DEF Dispose
    <3>5. timers' = [timers EXCEPT ![service] = 0] BY <2>1 DEF Dispose
    <3> QED BY <3>1, <3>2, <3>3, <3>4, <3>5
  <2>3. /\ screen' = "gone"
        /\ UNCHANGED <<service, channel, state, phase, owner, inbox, handlerVars,
                       callbacks, stream, fetch, fetched, failed, latest, indicator,
                       serverVars>>
        BY <1>4 DEF Leave
  <2> HIDE DEF States, Statuses, Kinds
  <2> QED BY <2>2, <2>3, ServiceFrame
<1> QED BY <1>1, <1>2, <1>3, <1>4

\* A step that only moves channels and handlers keeps the other types.
LEMMA NetworkFrame ==
    ASSUME TypeOK, phase' \in [Channels -> {"free", "connecting", "open", "broken"}],
           inbox' \in [Channels -> Seq(Statuses)], closing' \subseteq Channels,
           handler' \in [Channels -> {"none", "accepted", "registered", "taken",
                                      "reading"}],
           snapshot' \in [Channels -> Statuses], overtaken' \subseteq Statuses,
           callbacks' \subseteq Channels \X Kinds,
           server_up' \in BOOLEAN, grid' \in Statuses,
           UNCHANGED <<serviceVars, owner, stream, fetchVars, screenVars>>
    PROVE  TypeOK'
BY DEF TypeOK, serviceVars, fetchVars, screenVars

\* The channels and the backend.
LEMMA NetworkType ==
    TypeOK /\ (\/ \E c \in Channels : OnMessage(c) \/ Connection(c) \/ Greets(c)
               \/ ServerStops \/ ServerStarts \/ Push)
        => TypeOK'
<1> SUFFICES ASSUME TypeOK,
                    \/ \E c \in Channels : OnMessage(c) \/ Connection(c) \/ Greets(c)
                    \/ ServerStops \/ ServerStarts \/ Push
             PROVE TypeOK'
    OBVIOUS
<1>z. 0 \in Statuses BY BoundsAssumption DEF Statuses
<1>1. ASSUME NEW c \in Channels, OnMessage(c) PROVE TypeOK'
  <2>1. inbox[c] \in Seq(Statuses) /\ inbox[c] # <<>> BY <1>1 DEF OnMessage, TypeOK
  <2>2. Head(inbox[c]) \in Statuses /\ Tail(inbox[c]) \in Seq(Statuses)
        BY <2>1, HeadTailType
  <2>3. inbox' \in [Channels -> Seq(Statuses)] BY <1>1, <2>2 DEF OnMessage, TypeOK
  <2>4. stream' \in Statuses \cup {None} BY <1>1, <2>2 DEF OnMessage, TypeOK
  <2>5. UNCHANGED <<serviceVars, phase, owner, closing, handlerVars, callbacks,
                    fetchVars, screenVars, serverVars>>
        BY <1>1 DEF OnMessage
  <2> QED BY <2>3, <2>4, <2>5
      DEF TypeOK, serviceVars, handlerVars, fetchVars, screenVars, serverVars
<1>2. ASSUME NEW c \in Channels, Opens(c) PROVE TypeOK'
  <2>1. <<c, "ready">> \in Channels \X Kinds BY DEF Kinds
  <2>2. callbacks' \subseteq Channels \X Kinds BY <1>2, <2>1 DEF Opens, TypeOK
  <2>3. /\ phase' \in [Channels -> {"free", "connecting", "open", "broken"}]
        /\ closing' \subseteq Channels
        /\ handler' \in [Channels -> {"none", "accepted", "registered", "taken",
                                      "reading"}]
        BY <1>2 DEF Opens, TypeOK
  <2>4. UNCHANGED <<serviceVars, owner, inbox, snapshot, overtaken, stream, fetchVars,
                    screenVars, server_up, grid>>
        BY <1>2 DEF Opens, serverVars
  <2>5. /\ inbox \in [Channels -> Seq(Statuses)] /\ snapshot \in [Channels -> Statuses]
        /\ overtaken \subseteq Statuses /\ server_up \in BOOLEAN /\ grid \in Statuses
        BY DEF TypeOK
  <2> QED BY <2>2, <2>3, <2>4, <2>5, NetworkFrame
<1>3. ASSUME NEW c \in Channels, ConnectFails(c) PROVE TypeOK'
  <2>1. callbacks' \subseteq Channels \X Kinds
    <3>1. callbacks' = {c} \X {"ready_error", "error", "done"}
          BY <1>3 DEF ConnectFails
    <3>2. {c} \subseteq Channels /\ {"ready_error", "error", "done"} \subseteq Kinds
          BY DEF Kinds
    <3> QED BY <3>1, <3>2
  <2>2. /\ phase' \in [Channels -> {"free", "connecting", "open", "broken"}]
        /\ closing' \subseteq Channels
        BY <1>3 DEF ConnectFails, TypeOK
  <2>3. UNCHANGED <<serviceVars, owner, inbox, handlerVars, stream, fetchVars,
                    screenVars, serverVars>>
        BY <1>3 DEF ConnectFails
  <2> QED BY <2>1, <2>2, <2>3
      DEF TypeOK, serviceVars, handlerVars, fetchVars, screenVars, serverVars
<1>4. ASSUME NEW c \in Channels, Ends(c) PROVE TypeOK'
  <2>1. <<>> \in Seq(Statuses) BY EmptySequence
  <2>2. /\ inbox' \in [Channels -> Seq(Statuses)]
        /\ snapshot' \in [Channels -> Statuses]
        BY <1>4, <1>z, <2>1 DEF Ends, TypeOK
  <2>3. <<c, "done">> \in Channels \X Kinds BY DEF Kinds
  <2>4. callbacks' \subseteq Channels \X Kinds BY <1>4, <2>3 DEF Ends
  <2>5. /\ phase' \in [Channels -> {"free", "connecting", "open", "broken"}]
        /\ closing' \subseteq Channels
        /\ handler' \in [Channels -> {"none", "accepted", "registered", "taken",
                                      "reading"}]
        BY <1>4 DEF Ends, TypeOK
  <2>6. UNCHANGED <<serviceVars, owner, overtaken, stream, fetchVars, screenVars,
                    server_up, grid>>
        BY <1>4 DEF Ends, serverVars
  <2>7. overtaken \subseteq Statuses /\ server_up \in BOOLEAN /\ grid \in Statuses
        BY DEF TypeOK
  <2> QED BY <2>2, <2>4, <2>5, <2>6, <2>7, NetworkFrame
<1>5. ASSUME NEW c \in Channels, Greets(c) PROVE TypeOK'
  <2>1. /\ handler' \in [Channels -> {"none", "accepted", "registered", "taken",
                                      "reading"}]
        /\ snapshot' \in [Channels -> Statuses]
    <3>1. \E h \in {"registered", "taken", "reading"} :
              handler' = [handler EXCEPT ![c] = h]
          BY <1>5 DEF Greets, Registers, TakesSnapshot, WritesFirst
    <3>2. \/ snapshot' = snapshot
          \/ \E v \in {0, grid} : snapshot' = [snapshot EXCEPT ![c] = v]
          BY <1>5 DEF Greets, Registers, TakesSnapshot, WritesFirst
    <3>3. /\ handler \in [Channels -> {"none", "accepted", "registered", "taken",
                                       "reading"}]
          /\ snapshot \in [Channels -> Statuses] /\ grid \in Statuses
          BY DEF TypeOK
    <3>4. snapshot' \in [Channels -> Statuses] BY <1>z, <3>2, <3>3
    <3> QED BY <3>1, <3>3, <3>4
  <2>2. inbox' \in [Channels -> Seq(Statuses)]
    <3>1. inbox[c] \in Seq(Statuses) /\ snapshot[c] \in Statuses BY DEF TypeOK
    <3>2. Append(inbox[c], snapshot[c]) \in Seq(Statuses) BY <3>1, AppendType
    <3>3. inbox' \in {inbox, [inbox EXCEPT ![c] = Append(inbox[c], snapshot[c])]}
          BY <1>5 DEF Greets, Registers, TakesSnapshot, WritesFirst, channelVars
    <3> QED BY <3>2, <3>3 DEF TypeOK
  <2>3. UNCHANGED <<serviceVars, phase, owner, closing, overtaken, callbacks, stream,
                    fetchVars, screenVars, server_up, grid>>
        BY <1>5 DEF Greets, Registers, TakesSnapshot, WritesFirst, channelVars,
                    serverVars
  <2>4. /\ phase \in [Channels -> {"free", "connecting", "open", "broken"}]
        /\ closing \subseteq Channels /\ overtaken \subseteq Statuses
        /\ callbacks \subseteq Channels \X Kinds
        /\ server_up \in BOOLEAN /\ grid \in Statuses
        BY DEF TypeOK
  <2> QED BY <2>1, <2>2, <2>3, <2>4, NetworkFrame
<1>6. CASE ServerStops
  <2>1. /\ phase' \in [Channels -> {"free", "connecting", "open", "broken"}]
        /\ handler' \in [Channels -> {"none", "accepted", "registered", "taken",
                                      "reading"}]
        /\ snapshot' \in [Channels -> Statuses] /\ server_up' \in BOOLEAN
        BY <1>6, <1>z DEF ServerStops, TypeOK
  <2>2. UNCHANGED <<serviceVars, owner, inbox, closing, overtaken, callbacks, stream,
                    fetchVars, screenVars, grid>>
        BY <1>6 DEF ServerStops
  <2>3. /\ inbox \in [Channels -> Seq(Statuses)]
        /\ closing \subseteq Channels /\ overtaken \subseteq Statuses
        /\ callbacks \subseteq Channels \X Kinds /\ grid \in Statuses
        BY DEF TypeOK
  <2> QED BY <2>1, <2>2, <2>3, NetworkFrame
<1>7. CASE ServerStarts
  <2>1. /\ server_up' = TRUE
        /\ UNCHANGED <<serviceVars, channelVars, handlerVars, callbacks, stream,
                       fetchVars, screenVars, grid>>
        BY <1>7 DEF ServerStarts
  <2> QED BY <2>1 DEF TypeOK, serviceVars, channelVars, handlerVars, fetchVars,
                      screenVars
<1>8. CASE Push
  <2>1. grid' \in Statuses BY <1>8 DEF Push
  <2>2. \A c \in Channels : Append(inbox[c], grid') \in Seq(Statuses)
        BY <2>1, AppendType DEF TypeOK
  <2>3. inbox' \in [Channels -> Seq(Statuses)] BY <1>8, <2>2 DEF Push, TypeOK
  <2>4. overtaken' \subseteq Statuses BY <1>8 DEF Push, TypeOK, Registered
  <2>5. UNCHANGED <<serviceVars, phase, owner, closing, handler, snapshot, callbacks,
                    stream, fetchVars, screenVars, server_up>>
        BY <1>8 DEF Push
  <2>6. /\ phase \in [Channels -> {"free", "connecting", "open", "broken"}]
        /\ closing \subseteq Channels /\ callbacks \subseteq Channels \X Kinds
        /\ handler \in [Channels -> {"none", "accepted", "registered", "taken",
                                     "reading"}]
        /\ snapshot \in [Channels -> Statuses] /\ server_up \in BOOLEAN
        BY DEF TypeOK
  <2> QED BY <2>1, <2>3, <2>4, <2>5, <2>6, NetworkFrame
<1> QED BY <1>1, <1>2, <1>3, <1>4, <1>5, <1>6, <1>7, <1>8 DEF Connection

\* The fetch and the screen.
LEMMA ScreenType ==
    TypeOK /\ (FetchServed \/ FetchReturns \/ FetchFails \/ Build) => TypeOK'
<1> SUFFICES ASSUME TypeOK, FetchServed \/ FetchReturns \/ FetchFails \/ Build
             PROVE TypeOK'
    OBVIOUS
<1>1. CASE FetchServed \/ FetchReturns \/ FetchFails
  <2>1. UNCHANGED <<serviceVars, channelVars, handlerVars, callbacks, stream, screenVars,
                    serverVars>>
        BY <1>1 DEF FetchServed, FetchReturns, FetchFails
  <2>2. 0 \in Statuses BY BoundsAssumption DEF Statuses
  <2>3. /\ fetch' \in {"pending", "answered", "data", "error"}
        /\ fetched' \in Statuses /\ failed' \in BOOLEAN
        BY <1>1, <2>2 DEF FetchServed, FetchReturns, FetchFails, TypeOK
  <2> QED BY <2>1, <2>3 DEF TypeOK, serviceVars, channelVars, handlerVars, screenVars,
                            serverVars
<1>2. CASE Build
  <2>1. latest' \in [from : {"none", "http", "stream"}, v : Statuses]
        BY <1>2 DEF Build, Seeded, FromStream, TypeOK
  <2>2. screen' \in {"loading", "error", "dashboard", "gone"}
        BY <1>2, <2>1 DEF Build
  <2>3. indicator' \in States BY <1>2 DEF Build, IndicatorSeen, TypeOK
  <2>4. UNCHANGED <<serviceVars, channelVars, handlerVars, callbacks, stream, fetchVars,
                    serverVars>>
        BY <1>2 DEF Build
  <2> QED BY <2>1, <2>2, <2>3, <2>4
      DEF TypeOK, serviceVars, channelVars, handlerVars, fetchVars, serverVars
<1> QED BY <1>1, <1>2

\* Every variable of the app keeps its type; in particular a service never has
\* two timers (_scheduleReconnect() cancels the earlier one).
THEOREM TypeCorrect == Spec => []TypeOK
<1>1. Init => TypeOK
  <2> SUFFICES ASSUME Init PROVE TypeOK
      OBVIOUS
  <2>2. 1 \in Services /\ 0 \in Statuses /\ 0 \in 0 .. 1
        BY BoundsAssumption DEF Services, Statuses
  <2>3. <<>> \in Seq(Statuses) BY EmptySequence
  <2> USE FirstChannel, BoundsAssumption DEF Init
  <2>1. /\ channel \in [Services -> Channels \cup {None}]
        /\ phase \in [Channels -> {"free", "connecting", "open", "broken"}]
        OBVIOUS
  <2>4. inbox \in [Channels -> Seq(Statuses)] BY <2>3
  <2>5. latest \in [from : {"none", "http", "stream"}, v : Statuses]
        BY <2>2 DEF NoStatus
  <2>6. timers \in [Services -> 0 .. 1] /\ owner \in [Channels -> Services]
        BY <2>2
  <2>7. /\ handler \in [Channels -> {"none", "accepted", "registered", "taken",
                                     "reading"}]
        /\ snapshot \in [Channels -> Statuses] /\ overtaken \subseteq Statuses
        BY <2>2
  <2>8. state \in States \cup {None} /\ indicator \in States BY DEF States
  <2>9. /\ stream \in Statuses \cup {None} /\ fetched \in Statuses /\ grid \in Statuses
        /\ service \in Services /\ disposed = {} /\ closing = {} /\ callbacks = {}
        /\ fetch = "pending" /\ failed = FALSE /\ screen = "loading"
        /\ server_up \in BOOLEAN
        BY <2>2
  <2> HIDE DEF Init
  <2> QED BY <2>1, <2>2, <2>4, <2>5, <2>6, <2>7, <2>8, <2>9 DEF TypeOK
<1>2. TypeOK /\ [Next]_vars => TypeOK'
  <2>1. TypeOK /\ UNCHANGED vars => TypeOK'
        BY DEF TypeOK, vars, serviceVars, channelVars, handlerVars, fetchVars,
               screenVars, serverVars
  <2> QED BY <2>1, ServiceType, NetworkType, ScreenType DEF Next, Connection, Greets
<1> QED BY <1>1, <1>2, PTL DEF Spec

(***************************************************************************)
(* The connection.  Between a failure and the last of its callbacks a      *)
(* service has neither a connection nor, perhaps, a timer, and its state   *)
(* may still be the old one; ConnectionOrTimer is therefore not inductive. *)
(* ServiceInv says what the callbacks left to run will put right: the end  *)
(* of the stream if it is among them, and else it has been put right       *)
(* already.                                                                *)
(***************************************************************************)
Held(c) == owner[c] = service /\ phase[c] # "free"

\* With nothing left to run: a timer and no channel, or a channel and no timer.
Settled ==
    \/ /\ timers[service] = 1 /\ state = "disconnected"
       /\ \A c \in Channels : ~Held(c)
    \/ /\ timers[service] = 0
       /\ \E c \in Channels :
            /\ \A d \in Channels : Held(d) <=> d = c
            /\ phase[c] = "connecting" <=> state \in {"connecting", None}
            /\ phase[c] \in {"open", "broken"} <=> state = "connected"

\* The channel has opened and its callback is to come.
Opening(c) ==
    /\ callbacks = {<<c, "ready">>}
    /\ timers[service] = 0
    /\ phase[c] = "open"
    /\ \A d \in Channels : Held(d) <=> d = c

\* The channel has closed and callbacks of it are to come.
Failing(c) ==
    /\ \A d \in Channels, k \in Kinds : <<d, k>> \in callbacks => d = c /\ k # "ready"
    /\ <<c, "done">> \notin callbacks => timers[service] = 1 /\ state = "disconnected"
    /\ \A d \in Channels : ~Held(d)

\* Callbacks of a disposed service are to come.
Muted(c) ==
    /\ \A d \in Channels, k \in Kinds : <<d, k>> \in callbacks => d = c
    /\ owner[c] \in disposed
    /\ Settled

\* The service in use.
Waiting ==
    IF callbacks = {}
      THEN Settled
      ELSE \E c \in Channels :
              Muted(c) \/ (owner[c] = service /\ (Opening(c) \/ Failing(c)))

\* The services before it and after it, and the channels they closed.
Others ==
    /\ \A s \in Services : s < service => s \in disposed
    /\ \A s \in Services : service < s => s \notin disposed /\ timers[s] = 0
    /\ \A s \in disposed : timers[s] = 0
    /\ \A c \in Channels : owner[c] <= service
    /\ \A c \in closing : owner[c] \in disposed /\ phase[c] # "free"

ServiceInv == Others /\ (service \notin disposed => Waiting)

\* ServiceInv says what the two properties say once nothing is left to run.
LEMMA ServiceInvImplies ==
    TypeOK /\ ServiceInv => ConnectionOrTimer /\ IndicatorMatchesConnection
<1> SUFFICES ASSUME TypeOK, ServiceInv, Idle
             PROVE  ConnectionOrTimer /\ IndicatorMatchesConnection
    BY DEF ConnectionOrTimer, IndicatorMatchesConnection
<1>1. \A s \in (1 .. service) \ disposed : s = service
      BY BoundsAssumption DEF ServiceInv, Others, TypeOK, Services
<1>2. service \notin disposed => Settled BY DEF ServiceInv, Waiting, Idle
<1>3. Live(service) = {c \in Channels : Held(c)} BY DEF Live, Held
<1>4. ConnectionOrTimer
  <2> SUFFICES ASSUME service \notin disposed
               PROVE  \/ timers[service] = 0 /\ \E c \in Channels : Live(service) = {c}
                      \/ timers[service] = 1 /\ Live(service) = {}
      BY <1>1 DEF ConnectionOrTimer
  <2>1. CASE timers[service] = 1 /\ \A c \in Channels : ~Held(c)
        BY <2>1, <1>3
  <2>2. CASE timers[service] = 0
             /\ \E c \in Channels : \A d \in Channels : Held(d) <=> d = c
    <3>1. PICK c \in Channels : \A d \in Channels : Held(d) <=> d = c BY <2>2
    <3>2. Live(service) = {c} BY <3>1, <1>3
    <3> QED BY <2>2, <3>2
  <2> QED BY <2>1, <2>2, <1>2 DEF Settled
<1>5. IndicatorMatchesConnection
  <2> SUFFICES ASSUME service \notin disposed
               PROVE  \/ IndicatorSeen = ConnectionState
                      \/ state = None /\ ConnectionState = "connecting"
      BY DEF IndicatorMatchesConnection
  <2>1. Settled BY <1>2
  <2>2. CASE timers[service] = 1 /\ state = "disconnected"
             /\ \A c \in Channels : ~Held(c)
    <3>1. ConnectionState = "disconnected" BY <2>2, <1>3 DEF ConnectionState
    <3>2. IndicatorSeen = "disconnected"
          BY <2>2, BoundsAssumption DEF IndicatorSeen
    <3> QED BY <3>1, <3>2
  <2>3. ASSUME NEW c \in Channels,
               \A d \in Channels : Held(d) <=> d = c,
               phase[c] = "connecting" <=> state \in {"connecting", None},
               phase[c] \in {"open", "broken"} <=> state = "connected"
        PROVE  \/ IndicatorSeen = ConnectionState
               \/ state = None /\ ConnectionState = "connecting"
    <3>1. Live(service) = {c} BY <2>3, <1>3
    <3>2. phase[c] \in {"connecting", "open", "broken"}
          BY <2>3 DEF Held, TypeOK
    <3>3. CASE phase[c] = "connecting"
      <4>1. ConnectionState = "connecting" BY <3>1, <3>3 DEF ConnectionState
      <4> QED BY <2>3, <3>3, <4>1 DEF IndicatorSeen
    <3>4. CASE phase[c] \in {"open", "broken"}
      <4>1. ConnectionState = "connected" BY <3>1, <3>4 DEF ConnectionState
      <4>2. state = "connected" BY <2>3, <3>4
      <4> QED BY <4>1, <4>2, BoundsAssumption DEF IndicatorSeen
    <3> QED BY <3>2, <3>3, <3>4
  <2> QED BY <2>1, <2>2, <2>3 DEF Settled
<1> QED BY <1>4, <1>5

\* The service the app starts with is connecting.
LEMMA InitService == Init => ServiceInv
<1> SUFFICES ASSUME Init PROVE ServiceInv
    OBVIOUS
<1> DEFINE first == CHOOSE c \in Channels : TRUE
<1>1. first \in Channels BY FirstChannel
<1>2. phase = [c \in Channels |-> IF c = first THEN "connecting" ELSE "free"]
      BY DEF Init
<1> HIDE DEF first
<1>3. 1 \in Services BY BoundsAssumption DEF Services
<1>4. service = 1 /\ disposed = {} /\ closing = {} /\ callbacks = {}
      BY DEF Init
<1>5. timers = [s \in Services |-> 0] /\ owner = [c \in Channels |-> 1]
      /\ state = None
      BY DEF Init
<1>6. Settled
      BY <1>1, <1>2, <1>3, <1>4, <1>5, BoundsAssumption DEF Settled, Held
<1> QED BY <1>2, <1>4, <1>5, <1>6 DEF ServiceInv, Others, Waiting, Services

\* What steps of the fetch, the screen, the frames and a starting backend leave
\* alone.
SameService == UNCHANGED <<service, disposed, timers, state, phase, owner, closing,
                           callbacks>>

\* What they leave alone is all that ServiceInv speaks of.
LEMMA SameServiceKeeps == ServiceInv /\ SameService => ServiceInv'
<1> SUFFICES ASSUME ServiceInv, SameService PROVE ServiceInv'
    OBVIOUS
<1>1. \A c \in Channels : Held(c)' <=> Held(c) BY DEF Held, SameService
<1>2. Settled' <=> Settled BY <1>1 DEF Settled, SameService
<1>3. \A c \in Channels : Opening(c)' <=> Opening(c)
      BY <1>1 DEF Opening, SameService
<1>4. \A c \in Channels : Failing(c)' <=> Failing(c)
      BY <1>1 DEF Failing, SameService
<1>5. \A c \in Channels : Muted(c)' <=> Muted(c) BY <1>2 DEF Muted, SameService
<1>6. Waiting' <=> Waiting
      BY <1>2, <1>3, <1>4, <1>5 DEF Waiting, SameService
<1>7. Others' BY DEF ServiceInv, Others, SameService
<1> QED BY <1>6, <1>7 DEF ServiceInv, SameService

\* They are such steps.
LEMMA QuietStep ==
    \/ (\E c \in Channels : OnMessage(c) \/ Greets(c)) \/ ServerStarts \/ Push
    \/ FetchServed \/ FetchReturns \/ FetchFails \/ Build
    \/ UNCHANGED vars
    => SameService
BY DEF SameService, OnMessage, Greets, Registers, TakesSnapshot, WritesFirst,
       ServerStarts, Push, FetchServed, FetchReturns, FetchFails, Build, vars,
       serviceVars, channelVars

-----------------------------------------------------------------------------
\* The callbacks, whoever's they are.
LEMMA CallbackKeepsService == TypeOK /\ ServiceInv /\ RunCallback => ServiceInv'
<1> SUFFICES ASSUME TypeOK, ServiceInv, RunCallback PROVE ServiceInv'
    OBVIOUS
<1>1. PICK c \in Channels, k \in Kinds : RunCallback!(c, k)
      BY DEF RunCallback
<1>2. UNCHANGED <<service, disposed, phase, owner, closing>>
      BY <1>1 DEF channelVars
<1>3. service \in Services /\ owner[c] \in Services BY DEF TypeOK
<1>4. \A d \in Channels : Held(d)' <=> Held(d) BY <1>2 DEF Held
<1>5. callbacks # {} BY <1>1
<1>6. CASE owner[c] \in disposed
  <2>1. UNCHANGED <<state, timers>> BY <1>1, <1>6
  <2>2. service \notin disposed => Muted(c)
    <3> SUFFICES ASSUME service \notin disposed PROVE Muted(c)
        OBVIOUS
    <3>1. PICK d \in Channels :
             Muted(d) \/ (owner[d] = service /\ (Opening(d) \/ Failing(d)))
          BY <1>5 DEF ServiceInv, Waiting
    <3>2. d = c BY <3>1, <1>1 DEF Muted, Opening, Failing
    <3> QED BY <3>1, <3>2, <1>6
  <2>3. Settled' <=> Settled BY <1>2, <1>4, <2>1 DEF Settled
  <2>4. service \notin disposed => Settled' /\ Muted(c)'
        BY <1>1, <1>2, <1>6, <2>2, <2>3 DEF Muted
  <2>5. service \notin disposed => Waiting' BY <2>4, <1>2 DEF Waiting
  <2>6. Others' BY <1>2, <2>1 DEF ServiceInv, Others
  <2> QED BY <1>2, <2>5, <2>6 DEF ServiceInv
<1>7. CASE owner[c] \notin disposed
  <2>1. owner[c] = service
        BY <1>3, <1>7, BoundsAssumption DEF ServiceInv, Others, Services
  <2>2. PICK d \in Channels :
           Muted(d) \/ (owner[d] = service /\ (Opening(d) \/ Failing(d)))
        BY <1>5, <1>7, <2>1 DEF ServiceInv, Waiting
  <2>3. d = c BY <2>2, <1>1 DEF Muted, Opening, Failing
  <2>4. Opening(c) \/ Failing(c) BY <2>2, <2>3, <1>7 DEF Muted
  <2>5. timers' = [timers EXCEPT ![service] = timers'[service]]
        BY <1>1, <1>3, <1>7, <2>1
        DEF OnReady, OnFailure, OnDone, ScheduleReconnect, TypeOK
  <2>6. CASE Opening(c)
    <3>1. callbacks' = {} /\ state' = "connected" /\ timers' = timers
          BY <1>1, <1>7, <2>6 DEF Opening, OnReady
    <3>2. Settled'
          BY <1>2, <1>4, <2>6, <3>1, BoundsAssumption DEF Opening, Settled
    <3>3. Others' BY <1>2, <3>1 DEF ServiceInv, Others
    <3> QED BY <3>1, <3>2, <3>3 DEF ServiceInv, Waiting
  <2>7. CASE Failing(c)
    <3>1. timers'[service] = 1 /\ state' = "disconnected"
          BY <1>1, <1>3, <1>7, <2>1, <2>7
          DEF Failing, OnReady, OnFailure, OnDone, ScheduleReconnect, TypeOK
    <3>2. Settled' BY <1>2, <1>4, <2>7, <3>1 DEF Failing, Settled
    <3>3. Failing(c)' BY <1>1, <1>2, <1>4, <2>7, <3>1 DEF Failing
    <3>4. \A s \in Services : s # service => timers'[s] = timers[s]
          BY <2>5 DEF TypeOK
    <3>5. Others'
      <4>1. \A s \in disposed : s # service BY <1>7, <2>1
      <4>2. \A s \in disposed : timers'[s] = timers[s] BY <3>4, <4>1 DEF TypeOK
      <4>3. \A s \in Services : service < s => timers'[s] = timers[s]
            BY <3>4, <1>3, BoundsAssumption DEF Services
      <4> QED BY <1>2, <4>2, <4>3 DEF ServiceInv, Others
    <3>6. Waiting' BY <1>2, <2>1, <3>2, <3>3 DEF Waiting
    <3> QED BY <3>5, <3>6 DEF ServiceInv
  <2> QED BY <2>4, <2>6, <2>7
<1> QED BY <1>6, <1>7

-----------------------------------------------------------------------------
(* The events.  They come when no callback is left, so the service is      *)
(* settled; what they do to other services' channels does not unsettle it. *)

\* In the invariant at rest.
LEMMA AtRest ==
    TypeOK /\ ServiceInv /\ Idle =>
        /\ service \in Services
        /\ service \notin disposed => Settled
        /\ \A s \in Services : s \notin disposed => service <= s
        /\ \A c \in Channels : owner[c] \notin disposed => owner[c] = service
        /\ \A c \in closing : owner[c] \in disposed
<1> SUFFICES ASSUME TypeOK, ServiceInv, Idle
             PROVE  /\ service \in Services
                    /\ service \notin disposed => Settled
                    /\ \A s \in Services : s \notin disposed => service <= s
                    /\ \A c \in Channels :
                           owner[c] \notin disposed => owner[c] = service
                    /\ \A c \in closing : owner[c] \in disposed
    OBVIOUS
<1>1. service \in Services BY DEF TypeOK
<1>2. service \notin disposed => Settled BY DEF ServiceInv, Waiting, Idle
<1>3. \A s \in Services : s \notin disposed => service <= s
      BY <1>1, BoundsAssumption DEF ServiceInv, Others, Services
<1>4. \A c \in Channels : owner[c] \notin disposed => owner[c] = service
      BY <1>1, <1>3, BoundsAssumption DEF ServiceInv, Others, Services, TypeOK
<1>5. \A c \in closing : owner[c] \in disposed BY DEF ServiceInv, Others
<1> QED BY <1>1, <1>2, <1>3, <1>4, <1>5

\* The timer that fires is the service's, and the attempt takes its place.
LEMMA TimerKeepsService ==
    ASSUME TypeOK, ServiceInv, NEW s \in Services, TimerFires(s) PROVE ServiceInv'
<1>1. /\ timers[s] > 0 /\ callbacks = {} /\ Idle
      /\ UNCHANGED <<service, disposed, closing, callbacks>>
      BY DEF TimerFires, Idle
<1>2. s \notin disposed BY <1>1 DEF ServiceInv, Others
<1>3. s = service
      BY <1>1, <1>2, BoundsAssumption DEF ServiceInv, Others, TypeOK, Services
<1>4. timers[service] = 1 BY <1>1, <1>3 DEF TypeOK
<1>5. \A c \in Channels : ~Held(c)
      BY <1>1, <1>2, <1>3, <1>4, AtRest DEF Settled
<1>6. /\ Free # {} /\ state' = "connecting"
      /\ phase' = [phase EXCEPT ![NewChannel] = "connecting"]
      /\ owner' = [owner EXCEPT ![NewChannel] = service]
      BY <1>2, <1>3 DEF TimerFires, Connect
<1>7. NewChannel \in Channels /\ phase[NewChannel] = "free"
      BY <1>6, NewChannelIsFree
<1> DEFINE n == NewChannel
<1> HIDE DEF n
<1>8. /\ n \in Channels /\ phase[n] = "free"
      /\ phase' = [phase EXCEPT ![n] = "connecting"]
      /\ owner' = [owner EXCEPT ![n] = service]
      BY <1>6, <1>7 DEF n
<1>9. timers' = [timers EXCEPT ![service] = 0]
      BY <1>3, <1>4 DEF TimerFires, TypeOK
<1>10. \A d \in Channels : Held(d)' <=> d = n
       BY <1>1, <1>5, <1>8 DEF Held, TypeOK
<1>11. timers'[service] = 0 /\ phase'[n] = "connecting"
       BY <1>8, <1>9 DEF TypeOK
<1>12. Settled' BY <1>1, <1>6, <1>8, <1>10, <1>11 DEF Settled
<1>13. Others'
  <2>1. n \notin closing BY <1>8 DEF ServiceInv, Others
  <2>2. \A c \in closing : phase'[c] = phase[c] /\ owner'[c] = owner[c]
        BY <2>1, <1>8 DEF TypeOK
  <2>3. \A c \in Channels : owner'[c] <= service
        BY <1>8, BoundsAssumption DEF ServiceInv, Others, TypeOK, Services
  <2>4. \A r \in Services : timers'[r] = timers[r] \/ timers'[r] = 0
        BY <1>9 DEF TypeOK
  <2> QED BY <1>1, <2>2, <2>3, <2>4 DEF ServiceInv, Others, TypeOK
<1> QED BY <1>1, <1>12, <1>13 DEF ServiceInv, Waiting

\* What leaves the owners, the services and their state alone.
SameOwners == UNCHANGED <<service, disposed, timers, state, owner>>

\* A channel that frees itself, and is then no longer closing, leaves the services
\* before and after the one in use as they are.
LEMMA FreedKeepsOthers ==
    ASSUME TypeOK, Others, SameOwners, NEW c \in Channels,
           phase' = [phase EXCEPT ![c] = "free"], closing' = closing \ {c}
    PROVE  Others'
<1>1. \A d \in closing' : d \in closing /\ phase'[d] = phase[d] BY DEF TypeOK
<1> QED BY <1>1 DEF Others, SameOwners

\* The service in use stays settled when its own channels stay as they are.
LEMMA SettledStays ==
    ASSUME Settled, SameOwners,
           \A d \in Channels : owner[d] = service => phase'[d] = phase[d]
    PROVE  Settled'
<1>1. \A d \in Channels : Held(d)' <=> Held(d) BY DEF Held, SameOwners
<1>2. \A d \in Channels : Held(d) => phase'[d] = phase[d] BY DEF Held
<1>3. CASE \A d \in Channels : ~Held(d)
      BY <1>1, <1>3 DEF Settled, SameOwners
<1>4. CASE ~\A d \in Channels : ~Held(d)
  <2>1. PICK e \in Channels :
          /\ \A d \in Channels : Held(d) <=> d = e
          /\ phase[e] = "connecting" <=> state \in {"connecting", None}
          /\ phase[e] \in {"open", "broken"} <=> state = "connected"
        BY <1>4 DEF Settled
  <2>2. phase'[e] = phase[e] BY <2>1, <1>2
  <2>3. timers[service] = 0 BY <1>4 DEF Settled
  <2> QED BY <1>1, <2>1, <2>2, <2>3 DEF Settled, SameOwners
<1> QED BY <1>3, <1>4

\* A channel that frees itself and calls back, as a failed attempt and the end of a
\* connection do.
LEMMA FreedKeepsService ==
    ASSUME TypeOK, ServiceInv, Idle, SameOwners, NEW c \in Channels,
           phase[c] # "free",
           phase' = [phase EXCEPT ![c] = "free"], closing' = closing \ {c},
           <<c, "done">> \in callbacks',
           \A d \in Channels, k \in Kinds :
               <<d, k>> \in callbacks' => d = c /\ k # "ready"
    PROVE  ServiceInv'
<1>1. Others' BY FreedKeepsOthers DEF ServiceInv
<1>2. callbacks' # {} OBVIOUS
<1> SUFFICES ASSUME service \notin disposed PROVE Waiting'
    BY <1>1 DEF ServiceInv, SameOwners
<1>3. Settled BY AtRest
<1>4. CASE owner[c] \in disposed
  <2>1. \A d \in Channels : owner[d] = service => phase'[d] = phase[d]
        BY <1>4 DEF TypeOK
  <2>2. Settled' BY <2>1, <1>3, SettledStays
  <2>3. Muted(c)' BY <1>4, <2>2 DEF Muted, SameOwners
  <2> QED BY <1>2, <2>3 DEF Waiting
<1>5. CASE owner[c] \notin disposed
  <2>1. owner[c] = service BY <1>5, AtRest
  <2>2. Held(c) BY <2>1 DEF Held
  <2>3. \A d \in Channels : Held(d) <=> d = c BY <1>3, <2>2 DEF Settled
  <2>4. \A d \in Channels : ~Held(d)' BY <2>3 DEF Held, SameOwners, TypeOK
  <2>5. Failing(c)' BY <2>4 DEF Failing
  <2> QED BY <1>2, <2>1, <2>5 DEF Waiting, SameOwners
<1> QED BY <1>4, <1>5

\* An attempt fails.
LEMMA ConnectFailsKeepsService ==
    ASSUME TypeOK, ServiceInv, NEW c \in Channels, ConnectFails(c) PROVE ServiceInv'
<1>1. Idle /\ SameOwners BY DEF ConnectFails, SameOwners, serviceVars
<1>2. phase[c] # "free" BY DEF ConnectFails
<1>3. callbacks' = {c} \X {"ready_error", "error", "done"} BY DEF ConnectFails
<1>4. <<c, "done">> \in callbacks' BY <1>3
<1>5. \A d \in Channels, k \in Kinds : <<d, k>> \in callbacks' => d = c /\ k # "ready"
      BY <1>3
<1>6. phase' = [phase EXCEPT ![c] = "free"] /\ closing' = closing \ {c}
      BY DEF ConnectFails
<1> QED BY <1>1, <1>2, <1>4, <1>5, <1>6, FreedKeepsService

\* A connection ends.
LEMMA EndsKeepsService ==
    ASSUME TypeOK, ServiceInv, NEW c \in Channels, Ends(c) PROVE ServiceInv'
<1>1. Idle /\ SameOwners BY DEF Ends, SameOwners, serviceVars
<1>2. phase[c] # "free" BY DEF Ends
<1>3. callbacks' = {<<c, "done">>} BY DEF Ends
<1>4. \A d \in Channels, k \in Kinds : <<d, k>> \in callbacks' => d = c /\ k # "ready"
      BY <1>3
<1>5. phase' = [phase EXCEPT ![c] = "free"] /\ closing' = closing \ {c}
      BY DEF Ends
<1> QED BY <1>1, <1>2, <1>3, <1>4, <1>5, FreedKeepsService

\* A connection is made: a closing one goes at once, another calls back.
LEMMA OpensKeepsService ==
    ASSUME TypeOK, ServiceInv, NEW c \in Channels, Opens(c) PROVE ServiceInv'
<1>1. Idle /\ SameOwners /\ callbacks = {} /\ phase[c] = "connecting"
      BY DEF Opens, SameOwners, serviceVars, Idle
<1>2. CASE c \in closing
  <2>1. /\ phase' = [phase EXCEPT ![c] = "free"] /\ closing' = closing \ {c}
        /\ callbacks' = {}
        BY <1>1, <1>2 DEF Opens
  <2>2. Others' BY <1>1, <2>1, FreedKeepsOthers DEF ServiceInv
  <2> SUFFICES ASSUME service \notin disposed PROVE Settled'
      BY <1>1, <2>1, <2>2 DEF ServiceInv, SameOwners, Waiting
  <2>3. \A d \in Channels : owner[d] = service => phase'[d] = phase[d]
        BY <1>1, <1>2, <2>1, AtRest DEF TypeOK
  <2> QED BY <1>1, <2>3, AtRest, SettledStays
<1>3. CASE c \notin closing
  <2>1. /\ phase' = [phase EXCEPT ![c] = "open"] /\ closing' = closing
        /\ callbacks' = {<<c, "ready">>}
        BY <1>1, <1>3 DEF Opens
  <2>2. Others'
    <3>1. \A d \in closing : phase'[d] = phase[d] BY <1>3, <2>1 DEF TypeOK
    <3> QED BY <1>1, <2>1, <3>1 DEF ServiceInv, Others, SameOwners
  <2> SUFFICES ASSUME service \notin disposed PROVE Waiting'
      BY <1>1, <2>2 DEF ServiceInv, SameOwners
  <2>3. callbacks' # {} BY <2>1
  <2>4. Settled BY <1>1, AtRest
  <2>5. CASE owner[c] \in disposed
    <3>1. \A d \in Channels : owner[d] = service => phase'[d] = phase[d]
          BY <2>1, <2>5 DEF TypeOK
    <3>2. Settled' BY <1>1, <2>4, <3>1, SettledStays
    <3>3. Muted(c)' BY <1>1, <2>1, <2>5, <3>2 DEF Muted, SameOwners
    <3> QED BY <2>3, <3>3 DEF Waiting
  <2>6. CASE owner[c] \notin disposed
    <3>1. owner[c] = service BY <1>1, <2>6, AtRest
    <3>2. Held(c) BY <1>1, <3>1 DEF Held
    <3>3. timers[service] = 0 /\ \A d \in Channels : Held(d) <=> d = c
          BY <2>4, <3>2 DEF Settled
    <3>4. \A d \in Channels : Held(d)' <=> Held(d)
          BY <1>1, <2>1 DEF Held, SameOwners, TypeOK
    <3>5. phase'[c] = "open" BY <2>1 DEF TypeOK
    <3>6. Opening(c)' BY <1>1, <2>1, <3>3, <3>4, <3>5 DEF Opening, SameOwners
    <3> QED BY <1>1, <2>3, <3>1, <3>6 DEF Waiting, SameOwners
  <2> QED BY <2>5, <2>6
<1> QED BY <1>2, <1>3

\* The backend stops: its connections are broken and the app does not know yet.
LEMMA StopKeepsService == ASSUME TypeOK, ServiceInv, ServerStops PROVE ServiceInv'
<1>1. Idle /\ SameOwners /\ UNCHANGED <<closing, callbacks>> /\ callbacks = {}
      BY DEF ServerStops, SameOwners, serviceVars, Idle
<1>2. \A d \in Channels :
        /\ phase'[d] = "free" <=> phase[d] = "free"
        /\ phase'[d] = "connecting" <=> phase[d] = "connecting"
        /\ phase'[d] \in {"open", "broken"} <=> phase[d] \in {"open", "broken"}
      BY DEF ServerStops
<1>3. \A d \in Channels : Held(d)' <=> Held(d) BY <1>1, <1>2 DEF Held, SameOwners
<1>4. Settled => Settled' BY <1>1, <1>2, <1>3 DEF Settled, SameOwners
<1>5. Others' BY <1>1, <1>2 DEF ServiceInv, Others, SameOwners, TypeOK
<1> QED BY <1>1, <1>4, <1>5 DEF ServiceInv, Waiting, SameOwners

\* What dispose() closes belongs to the service or to an earlier one.
LEMMA DisposeKeepsClosing ==
    ASSUME TypeOK, ServiceInv, Dispose(service)
    PROVE  /\ \A c \in Channels : owner[c] \in disposed'
           /\ \A s \in disposed' : timers'[s] = 0
           /\ \A c \in closing' : c \in Channels /\ phase[c] # "free"
           /\ \A s \in Services : service < s => s \notin disposed' /\ timers'[s] = 0
<1>1. disposed' = disposed \cup {service}
      /\ timers' = [timers EXCEPT ![service] = 0] /\ service \in Services
      BY DEF Dispose, TypeOK
<1>2. \A c \in Channels : owner[c] \in disposed'
      BY <1>1, BoundsAssumption DEF ServiceInv, Others, TypeOK, Services
<1>3. \A s \in disposed' : timers'[s] = 0
      BY <1>1 DEF ServiceInv, Others, TypeOK
<1>4. \A c \in closing' : c \in Channels /\ phase[c] # "free"
      BY DEF Dispose, ServiceInv, Others, TypeOK
<1>5. \A s \in Services : service < s => s \notin disposed' /\ timers'[s] = 0
      BY <1>1, BoundsAssumption DEF ServiceInv, Others, TypeOK, Services
<1> QED BY <1>2, <1>3, <1>4, <1>5

\* The screen goes: no service is in use any more.
LEMMA LeaveKeepsService == ASSUME TypeOK, ServiceInv, Leave PROVE ServiceInv'
<1>1. Dispose(service) /\ UNCHANGED <<service, phase, owner>> BY DEF Leave
<1>2. disposed' = disposed \cup {service} BY <1>1 DEF Dispose
<1>3. \A s \in Services : s < service => s \in disposed'
      BY <1>2 DEF ServiceInv, Others
<1>4. Others'
      BY <1>1, <1>3, DisposeKeepsClosing DEF ServiceInv, Others, TypeOK
<1> QED BY <1>1, <1>2, <1>4 DEF ServiceInv

\* A new service: the old one's channel is closing or free, and the new one has the
\* only connection that is its own.
LEMMA RetryKeepsService == ASSUME TypeOK, ServiceInv, Retry PROVE ServiceInv'
<1>1. /\ Dispose(service) /\ service' = service + 1 /\ callbacks' = {}
      /\ service < MaxServices
      BY DEF Retry, Idle
<1>2. service \in Services /\ service + 1 \in Services /\ service \in Nat
      BY <1>1, BoundsAssumption DEF TypeOK, Services
<1>3. disposed' = disposed \cup {service} BY <1>1 DEF Dispose
<1>4. /\ Free # {} /\ state' = None
      /\ phase' = [phase EXCEPT ![NewChannel] = "connecting"]
      /\ owner' = [owner EXCEPT ![NewChannel] = service + 1]
      BY <1>2 DEF Retry, Connect
<1>5. NewChannel \in Channels /\ phase[NewChannel] = "free"
      BY <1>4, NewChannelIsFree
<1> DEFINE n == NewChannel
<1> HIDE DEF n
<1>6. /\ n \in Channels /\ phase[n] = "free"
      /\ phase' = [phase EXCEPT ![n] = "connecting"]
      /\ owner' = [owner EXCEPT ![n] = service + 1]
      BY <1>4, <1>5 DEF n
<1>7. \A c \in Channels : owner[c] # service + 1
  <2> SUFFICES ASSUME NEW c \in Channels PROVE owner[c] # service + 1
      OBVIOUS
  <2>1. owner[c] \in Services BY DEF TypeOK
  <2>2. owner[c] \in Nat BY <2>1, BoundsAssumption DEF Services
  <2>3. owner[c] <= service BY DEF ServiceInv, Others
  <2> QED BY <2>2, <2>3, <1>2
<1>8. \A d \in Channels : Held(d)' <=> d = n
      BY <1>1, <1>6, <1>7 DEF Held, TypeOK
<1>9. timers'[service'] = 0 /\ service' \notin disposed'
      BY <1>1, <1>2, DisposeKeepsClosing
<1>10. phase'[n] = "connecting" BY <1>6 DEF TypeOK
<1>11. Settled' BY <1>4, <1>6, <1>8, <1>9, <1>10, BoundsAssumption DEF Settled
<1>12. Others'
  <2>1. \A s \in Services : s < service' => s \in disposed'
        BY <1>1, <1>2, <1>3, BoundsAssumption DEF ServiceInv, Others, Services
  <2>2. \A s \in Services : service' < s => s \notin disposed' /\ timers'[s] = 0
        BY <1>1, <1>2, DisposeKeepsClosing, BoundsAssumption DEF Services
  <2>3. \A c \in Channels : owner'[c] <= service'
        BY <1>1, <1>2, <1>6 DEF ServiceInv, Others, TypeOK, Services
  <2>4. \A c \in closing' : owner'[c] \in disposed' /\ phase'[c] # "free"
    <3>1. \A c \in closing' : c # n /\ c \in Channels /\ phase[c] # "free"
          BY <1>1, <1>6, DisposeKeepsClosing
    <3>2. \A c \in closing' : owner'[c] = owner[c] /\ phase'[c] = phase[c]
          BY <3>1, <1>6 DEF TypeOK
    <3> QED BY <1>1, <3>1, <3>2, DisposeKeepsClosing
  <2>5. \A s \in disposed' : timers'[s] = 0 BY <1>1, DisposeKeepsClosing
  <2> QED BY <2>1, <2>2, <2>3, <2>4, <2>5 DEF Others
<1> QED BY <1>1, <1>11, <1>12 DEF ServiceInv, Waiting

\* The service in use always has what its pending callbacks will put right, and has
\* a connection or a timer when none is pending (dashboard_websocket_service.dart).
THEOREM ServiceInvariant == Spec => [](TypeOK /\ ServiceInv)
<1>1. TypeOK /\ ServiceInv /\ [Next]_vars => ServiceInv'
  <2> SUFFICES ASSUME TypeOK, ServiceInv, [Next]_vars PROVE ServiceInv'
      OBVIOUS
  <2>1. CASE RunCallback BY <2>1, CallbackKeepsService
  <2>2. CASE \E s \in Services : TimerFires(s) BY <2>2, TimerKeepsService
  <2>3. CASE \E c \in Channels : Opens(c) \/ ConnectFails(c) \/ Ends(c)
        BY <2>3, OpensKeepsService, ConnectFailsKeepsService, EndsKeepsService
  <2>4. CASE ServerStops BY <2>4, StopKeepsService
  <2>5. CASE Retry BY <2>5, RetryKeepsService
  <2>6. CASE Leave BY <2>6, LeaveKeepsService
  <2>7. CASE \/ (\E c \in Channels : OnMessage(c) \/ Greets(c))
             \/ ServerStarts \/ Push
             \/ FetchServed \/ FetchReturns \/ FetchFails \/ Build
             \/ UNCHANGED vars
        BY <2>7, QuietStep, SameServiceKeeps
  <2> QED BY <2>1, <2>2, <2>3, <2>4, <2>5, <2>6, <2>7 DEF Next, Connection
<1> QED BY <1>1, InitService, TypeCorrect, PTL DEF Spec

\* A service in use has one connection or one timer, never both and never neither,
\* in whatever order its callbacks came (_scheduleReconnect(), dispose()).
THEOREM ConnectionOrTimerHolds == Spec => []ConnectionOrTimer
BY ServiceInvariant, ServiceInvImplies, PTL

\* What the app bar would show is the state of the connection of the service in
\* use; after Retry it may be the earlier service's while the first attempt lasts
\* (connectionStateProvider, dashboard_screen.dart).
THEOREM IndicatorMatchesConnectionHolds == Spec => []IndicatorMatchesConnection
BY ServiceInvariant, ServiceInvImplies, PTL

(***************************************************************************)
(* The stream.  StreamStatusStays is about two states; what makes it true  *)
(* is about the frames on their way: those of the service in use come in   *)
(* the order of the changes, none is older than what the stream or the     *)
(* screen has, and a connection that is made later starts with the status  *)
(* of then.  The one thing out of order is a first status that a push      *)
(* overtook: everything is said up to those.                               *)
(***************************************************************************)

\* A status not older than what stream and screen have, or overtaken.
Follows(v) ==
    /\ stream # None => stream <= v \/ v \in overtaken
    /\ latest.from = "stream" => latest.v <= v \/ v \in overtaken

\* ... and than what they have after a step.
FollowsAfter(v) ==
    /\ stream' # None => stream' <= v \/ v \in overtaken'
    /\ latest'.from = "stream" => latest'.v <= v \/ v \in overtaken'

\* The frames of a connection.
Arriving(c) ==
    \A i \in 1 .. Len(inbox[c]) :
        /\ Follows(inbox[c][i]) /\ inbox[c][i] <= grid
        /\ \A j \in i .. Len(inbox[c]) :
              inbox[c][i] <= inbox[c][j] \/ inbox[c][j] \in overtaken

\* Neither stream nor screen runs ahead of the backend.
NotAhead ==
    /\ stream # None => stream <= grid
    /\ latest.from = "stream" => latest.v <= grid

\* The screen does not run ahead of the stream.
ScreenFollowsStream ==
    stream # None /\ latest.from = "stream" =>
        latest.v <= stream \/ stream \in overtaken

\* A snapshot is of now, or a push has overtaken it.
SnapshotsAreCurrent ==
    \A c \in Channels : handler[c] = "taken" =>
        /\ snapshot[c] <= grid
        /\ snapshot[c] = grid \/ snapshot[c] \in overtaken

\* What is not a connection has no frames, and the backend's handler is there while
\* the connection is open.
FramesOnConnections ==
    \A c \in Channels :
        /\ phase[c] \in {"free", "connecting"} => inbox[c] = <<>>
        /\ handler[c] # "none" => phase[c] = "open"

StreamInv ==
    /\ NotAhead /\ ScreenFollowsStream
    /\ SnapshotsAreCurrent /\ FramesOnConnections
    /\ \A c \in Channels : owner[c] \notin disposed => Arriving(c)

\* Frames and statuses are numbers.
LEMMA StatusesAreNumbers ==
    TypeOK => /\ grid \in Nat /\ latest.v \in Nat
              /\ stream # None => stream \in Nat
              /\ \A c \in Channels : /\ inbox[c] \in Seq(Nat) /\ snapshot[c] \in Nat
                                     /\ Len(inbox[c]) \in Nat
                                     /\ \A i \in 1 .. Len(inbox[c]) : inbox[c][i] \in Nat
<1> SUFFICES ASSUME TypeOK
             PROVE  /\ grid \in Nat /\ latest.v \in Nat
                    /\ stream # None => stream \in Nat
                    /\ \A c \in Channels :
                          /\ inbox[c] \in Seq(Nat) /\ snapshot[c] \in Nat
                          /\ Len(inbox[c]) \in Nat
                          /\ \A i \in 1 .. Len(inbox[c]) : inbox[c][i] \in Nat
    OBVIOUS
<1>1. \A v \in Statuses : v \in Nat BY BoundsAssumption DEF Statuses
<1>2. grid \in Nat /\ latest.v \in Nat /\ (stream # None => stream \in Nat)
      BY <1>1 DEF TypeOK
<1>3. ASSUME NEW c \in Channels
      PROVE  /\ inbox[c] \in Seq(Nat) /\ snapshot[c] \in Nat
             /\ Len(inbox[c]) \in Nat
             /\ \A i \in 1 .. Len(inbox[c]) : inbox[c][i] \in Nat
  <2>1. inbox[c] \in Seq(Statuses) /\ snapshot[c] \in Statuses BY DEF TypeOK
  <2>2. inbox[c] \in Seq(Nat) BY <2>1, <1>1
  <2> QED BY <1>1, <2>1, <2>2
<1> QED BY <1>2, <1>3

\* The frames of a connection stay in order while others move on.
LEMMA StillArriving ==
    ASSUME TypeOK, NEW c \in Channels, Arriving(c), inbox'[c] = inbox[c],
           \A v \in Nat : Follows(v) => FollowsAfter(v),
           overtaken \subseteq overtaken', grid' \in Nat, grid <= grid'
    PROVE  Arriving(c)'
<1> DEFINE q == inbox[c]
<1>1. /\ grid \in Nat /\ Len(q) \in Nat /\ \A i \in 1 .. Len(q) : q[i] \in Nat
      BY StatusesAreNumbers
<1> SUFFICES ASSUME NEW i \in 1 .. Len(q)
             PROVE  /\ FollowsAfter(q[i]) /\ q[i] <= grid'
                    /\ \A j \in i .. Len(q) : q[i] <= q[j] \/ q[j] \in overtaken'
    BY DEF Arriving, Follows, FollowsAfter
<1>2. /\ Follows(q[i]) /\ q[i] <= grid
      /\ \A j \in i .. Len(q) : q[i] <= q[j] \/ q[j] \in overtaken
      BY DEF Arriving
<1>3. q[i] \in Nat BY <1>1
<1> HIDE DEF q
<1>4. q[i] <= grid' BY <1>1, <1>2, <1>3
<1> QED BY <1>2, <1>3, <1>4

\* A frame that nothing is newer than, or that is overtaken, follows all.
LEMMA AppendedArrives ==
    ASSUME TypeOK, NotAhead, NEW c \in Channels, Arriving(c),
           NEW e \in Nat, inbox'[c] = Append(inbox[c], e),
           UNCHANGED <<stream, latest>>,
           overtaken \subseteq overtaken', grid' \in Nat, grid <= grid',
           e <= grid', grid <= e \/ e \in overtaken'
    PROVE  Arriving(c)'
<1> DEFINE q == inbox[c]
           n == Len(q)
           new == inbox'[c]
<1>1. /\ grid \in Nat /\ latest.v \in Nat /\ (stream # None => stream \in Nat)
      /\ q \in Seq(Nat) /\ n \in Nat /\ \A i \in 1 .. n : q[i] \in Nat
      BY StatusesAreNumbers
<1>2. /\ Len(new) = n + 1 /\ new[n + 1] = e
      /\ \A i \in 1 .. n : new[i] = q[i]
      BY <1>1
<1>3. FollowsAfter(e) BY <1>1 DEF NotAhead, FollowsAfter
<1>4. \A v : Follows(v) => FollowsAfter(v) BY DEF Follows, FollowsAfter
<1>5. \A i \in 1 .. n : /\ Follows(q[i]) /\ q[i] <= grid
                        /\ \A j \in i .. n : q[i] <= q[j] \/ q[j] \in overtaken
      BY DEF Arriving
<1> HIDE DEF q, n, new
<1> SUFFICES ASSUME NEW i \in 1 .. n + 1
             PROVE  /\ FollowsAfter(new[i]) /\ new[i] <= grid'
                    /\ \A j \in i .. n + 1 : new[i] <= new[j] \/ new[j] \in overtaken'
    BY <1>2 DEF Arriving, Follows, FollowsAfter, new
<1>6. CASE i = n + 1
  <2>1. \A j \in i .. n + 1 : j = n + 1 BY <1>1, <1>6
  <2> QED BY <1>2, <1>3, <1>6, <2>1
<1>7. CASE i # n + 1
  <2>1. i \in 1 .. n BY <1>1, <1>7
  <2>2. /\ new[i] = q[i] /\ q[i] \in Nat /\ q[i] <= grid /\ Follows(q[i])
        /\ \A j \in i .. n : q[i] <= q[j] \/ q[j] \in overtaken
        BY <1>1, <1>2, <1>5, <2>1
  <2>3. q[i] <= grid' BY <1>1, <2>2
  <2>4. ASSUME NEW j \in i .. n + 1 PROVE new[i] <= new[j] \/ new[j] \in overtaken'
    <3>1. CASE j = n + 1
      <4>1. new[j] = e BY <1>2, <3>1
      <4>2. grid <= e => q[i] <= e BY <1>1, <2>2
      <4> QED BY <2>2, <4>1, <4>2
    <3>2. CASE j # n + 1
      <4>1. j \in i .. n /\ j \in 1 .. n BY <1>1, <2>1, <3>2
      <4> QED BY <1>2, <2>2, <4>1
    <3> QED BY <3>1, <3>2
  <2> QED BY <1>4, <2>2, <2>3, <2>4
<1> QED BY <1>6, <1>7

\* Steps that leave frames, stream, screen and backend alone: callbacks, the end
\* of the app, and a service that is made again or tries again.
LEMMA ServiceKeepsStream ==
    TypeOK /\ ServiceInv /\ StreamInv
        /\ (RunCallback \/ (\E s \in Services : TimerFires(s)) \/ Retry \/ Leave)
    => StreamInv'
<1> SUFFICES ASSUME TypeOK, ServiceInv, StreamInv,
                    RunCallback \/ (\E s \in Services : TimerFires(s)) \/ Retry \/ Leave
             PROVE  StreamInv'
    OBVIOUS
<1>1. /\ UNCHANGED <<inbox, handler, snapshot, overtaken, latest, grid>>
      /\ (stream' = stream \/ stream' = None)
      /\ disposed \subseteq disposed'
      BY DEF RunCallback, TimerFires, Retry, Leave, Dispose, Connect, serviceVars,
             channelVars, handlerVars, screenVars, serverVars
<1>2. \/ UNCHANGED <<phase, owner>>
      \/ \E n \in Channels, s \in Services :
            /\ phase[n] = "free" /\ phase' = [phase EXCEPT ![n] = "connecting"]
            /\ owner' = [owner EXCEPT ![n] = s]
  <2>1. CASE RunCallback BY <2>1 DEF RunCallback, channelVars
  <2>2. ASSUME NEW s \in Services, TimerFires(s) PROVE <1>2
        BY <2>2, NewChannelIsFree DEF TimerFires, Connect
  <2>3. CASE Retry
    <3>1. service + 1 \in Services
          BY <2>3, BoundsAssumption DEF Retry, TypeOK, Services
    <3> QED BY <2>3, <3>1, NewChannelIsFree DEF Retry, Connect
  <2>4. CASE Leave BY <2>4 DEF Leave
  <2> QED BY <2>1, <2>2, <2>3, <2>4
<1>3. \A v \in Nat : Follows(v) => FollowsAfter(v) BY <1>1 DEF Follows, FollowsAfter
<1>4. NotAhead' /\ ScreenFollowsStream' /\ SnapshotsAreCurrent'
      BY <1>1 DEF StreamInv, NotAhead, ScreenFollowsStream, SnapshotsAreCurrent
<1>5. grid \in Nat /\ grid' \in Nat /\ grid <= grid' BY <1>1, StatusesAreNumbers
<1>6. FramesOnConnections'
      BY <1>1, <1>2 DEF StreamInv, FramesOnConnections, TypeOK
<1>7. ASSUME NEW c \in Channels, owner'[c] \notin disposed' PROVE Arriving(c)'
  <2>1. CASE inbox[c] = <<>> BY <1>1, <2>1 DEF Arriving
  <2>2. CASE inbox[c] # <<>>
    <3>1. owner'[c] = owner[c]
          BY <1>2, <2>2 DEF StreamInv, FramesOnConnections, TypeOK
    <3>2. Arriving(c) BY <1>1, <1>7, <3>1 DEF StreamInv
    <3> QED BY <1>1, <1>3, <1>5, <3>2, StillArriving
  <2> QED BY <2>1, <2>2
<1> QED BY <1>4, <1>6, <1>7 DEF StreamInv

\* A frame that is read was the only connection's first: the others of it follow
\* it, and those of disposed services go nowhere.
LEMMA MessageKeepsStream ==
    ASSUME TypeOK, ServiceInv, StreamInv, NEW c \in Channels, OnMessage(c)
    PROVE  StreamInv'
<1>1. /\ Idle /\ inbox[c] # <<>> /\ phase[c] \in {"open", "broken"}
      /\ inbox' = [inbox EXCEPT ![c] = Tail(inbox[c])]
      /\ stream' = IF owner[c] \in disposed THEN stream ELSE Head(inbox[c])
      /\ UNCHANGED <<service, disposed, phase, owner, handler, snapshot, overtaken,
                     latest, grid>>
      BY DEF OnMessage, serviceVars, handlerVars, screenVars, serverVars
<1> DEFINE first == Head(inbox[c])
<1>2. /\ inbox[c] \in Seq(Nat) /\ Len(inbox[c]) \in Nat \ {0} /\ first \in Nat
      /\ first = inbox[c][1] /\ grid \in Nat
      BY <1>1, StatusesAreNumbers
<1>3. /\ Tail(inbox[c]) \in Seq(Nat) /\ Len(Tail(inbox[c])) = Len(inbox[c]) - 1
      /\ \A i \in 1 .. Len(inbox[c]) - 1 : Tail(inbox[c])[i] = inbox[c][i + 1]
      BY <1>2
<1>4. inbox'[c] = Tail(inbox[c]) /\ \A d \in Channels \ {c} : inbox'[d] = inbox[d]
      BY <1>1 DEF TypeOK
<1>5. FramesOnConnections' /\ SnapshotsAreCurrent'
      BY <1>1, <1>4 DEF StreamInv, FramesOnConnections, SnapshotsAreCurrent
<1>6. CASE owner[c] \in disposed
  <2>1. \A v \in Nat : Follows(v) => FollowsAfter(v)
        BY <1>1, <1>6 DEF Follows, FollowsAfter
  <2>2. ASSUME NEW d \in Channels, owner'[d] \notin disposed' PROVE Arriving(d)'
    <3>1. d # c /\ Arriving(d) BY <1>1, <1>6, <2>2 DEF StreamInv
    <3>2. inbox'[d] = inbox[d] BY <1>4, <3>1
    <3>3. overtaken \subseteq overtaken' /\ grid' \in Nat /\ grid <= grid'
          BY <1>1, <1>2
    <3> QED BY <2>1, <3>1, <3>2, <3>3, StillArriving
  <2>3. NotAhead' /\ ScreenFollowsStream'
        BY <1>1, <1>6 DEF StreamInv, NotAhead, ScreenFollowsStream
  <2> QED BY <1>5, <2>2, <2>3 DEF StreamInv
<1>7. CASE owner[c] \notin disposed
  <2>1. Arriving(c) BY <1>7 DEF StreamInv
  <2>2. /\ Follows(first) /\ first <= grid
        /\ \A i \in 1 .. Len(inbox[c]) :
              first <= inbox[c][i] \/ inbox[c][i] \in overtaken
        BY <1>2, <2>1 DEF Arriving
  <2>3. stream' = first BY <1>1, <1>7
  <2> HIDE DEF first
  <2>4. \A v \in Nat : Follows(v) /\ (first <= v \/ v \in overtaken) => FollowsAfter(v)
        BY <1>1, <2>3 DEF Follows, FollowsAfter
  <2>5. ASSUME NEW d \in Channels, d # c PROVE owner[d] \in disposed \/ inbox[d] = <<>>
    <3>1. CASE owner[d] \in disposed BY <3>1
    <3>2. CASE owner[d] \notin disposed
      <4>1. /\ owner[d] = service /\ owner[c] = service /\ service \notin disposed
            /\ Settled
            BY <1>1, <1>7, <3>2, AtRest
      <4>2. Held(c) BY <1>1, <4>1 DEF Held
      <4>3. ~Held(d) BY <2>5, <4>1, <4>2 DEF Settled
      <4>4. phase[d] = "free" BY <4>1, <4>3 DEF Held
      <4> QED BY <4>4 DEF StreamInv, FramesOnConnections
    <3> QED BY <3>1, <3>2
  <2>6. ASSUME NEW d \in Channels, owner'[d] \notin disposed' PROVE Arriving(d)'
    <3>1. CASE d # c
      <4>1. inbox'[d] = <<>> BY <1>1, <1>4, <2>5, <2>6, <3>1
      <4> QED BY <4>1 DEF Arriving
    <3>2. CASE d = c
      <4>1. Len(inbox'[c]) = Len(inbox[c]) - 1 BY <1>3, <1>4
      <4>2. \A i \in 1 .. Len(inbox'[c]) :
                inbox'[c][i] = inbox[c][i + 1] /\ i + 1 \in 1 .. Len(inbox[c])
            BY <1>2, <1>3, <1>4, <4>1
      <4>3. \A i \in 1 .. Len(inbox'[c]) : FollowsAfter(inbox'[c][i])
        <5> SUFFICES ASSUME NEW i \in 1 .. Len(inbox'[c]) PROVE FollowsAfter(inbox'[c][i])
            OBVIOUS
        <5>1. i + 1 \in 1 .. Len(inbox[c]) /\ inbox'[c][i] = inbox[c][i + 1]
              BY <4>2
        <5>2. /\ inbox[c][i + 1] \in Nat /\ Follows(inbox[c][i + 1])
              /\ first <= inbox[c][i + 1] \/ inbox[c][i + 1] \in overtaken
              BY <5>1, <2>1, <2>2, StatusesAreNumbers DEF Arriving
        <5> QED BY <5>1, <5>2, <2>4
      <4>4. \A i \in 1 .. Len(inbox'[c]) :
                /\ inbox'[c][i] <= grid'
                /\ \A j \in i .. Len(inbox'[c]) :
                      inbox'[c][i] <= inbox'[c][j] \/ inbox'[c][j] \in overtaken'
        <5> SUFFICES ASSUME NEW i \in 1 .. Len(inbox'[c])
                     PROVE  /\ inbox'[c][i] <= grid'
                            /\ \A j \in i .. Len(inbox'[c]) :
                                  inbox'[c][i] <= inbox'[c][j]
                                      \/ inbox'[c][j] \in overtaken'
            OBVIOUS
        <5>1. i + 1 \in 1 .. Len(inbox[c]) /\ inbox'[c][i] = inbox[c][i + 1]
              BY <4>2
        <5>2. ASSUME NEW j \in i .. Len(inbox'[c])
              PROVE  inbox'[c][j] = inbox[c][j + 1] /\ j + 1 \in i + 1 .. Len(inbox[c])
          <6>1. i \in Nat /\ 1 <= i /\ Len(inbox'[c]) \in Nat BY <1>2, <4>1
          <6>2. j \in Nat /\ i <= j /\ j <= Len(inbox'[c]) BY <6>1
          <6>3. j \in 1 .. Len(inbox'[c]) BY <6>1, <6>2
          <6>4. inbox'[c][j] = inbox[c][j + 1] BY <4>2, <6>3
          <6>5. j + 1 \in i + 1 .. Len(inbox[c]) BY <1>2, <4>1, <6>1, <6>2
          <6> QED BY <6>4, <6>5
        <5>3. /\ inbox[c][i + 1] <= grid
              /\ \A j \in i + 1 .. Len(inbox[c]) :
                    inbox[c][i + 1] <= inbox[c][j] \/ inbox[c][j] \in overtaken
              BY <5>1, <2>1 DEF Arriving
        <5>4. inbox'[c][i] <= grid' BY <1>1, <5>1, <5>3
        <5>5. ASSUME NEW j \in i .. Len(inbox'[c])
              PROVE  inbox'[c][i] <= inbox'[c][j] \/ inbox'[c][j] \in overtaken'
          <6>1. inbox'[c][j] = inbox[c][j + 1] /\ j + 1 \in i + 1 .. Len(inbox[c])
                BY <5>2
          <6> QED BY <1>1, <5>1, <5>3, <6>1
        <5> QED BY <5>4, <5>5
      <4> QED BY <3>2, <4>3, <4>4 DEF Arriving, Follows, FollowsAfter
    <3> QED BY <3>1, <3>2
  <2>7. NotAhead' BY <1>1, <2>2, <2>3 DEF StreamInv, NotAhead
  <2>8. ScreenFollowsStream'
        BY <1>1, <2>2, <2>3 DEF ScreenFollowsStream, Follows
  <2> QED BY <1>5, <2>6, <2>7, <2>8 DEF StreamInv
<1> QED BY <1>6, <1>7

\* The network brings no frame: a connection starts with none and loses its own when
\* it ends.
LEMMA NetworkKeepsStream ==
    TypeOK /\ StreamInv
        /\ ((\E c \in Channels : Connection(c)) \/ ServerStops \/ ServerStarts)
    => StreamInv'
<1> SUFFICES ASSUME TypeOK, StreamInv,
                    (\E c \in Channels : Connection(c)) \/ ServerStops \/ ServerStarts
             PROVE  StreamInv'
    OBVIOUS
<1> USE DEF Connection
<1>1. UNCHANGED <<disposed, owner, stream, latest, overtaken, grid>>
      BY DEF Opens, ConnectFails, Ends, ServerStops, ServerStarts, serviceVars,
             channelVars, handlerVars, screenVars, serverVars
<1>2. \A v \in Nat : Follows(v) => FollowsAfter(v) BY <1>1 DEF Follows, FollowsAfter
<1>3. NotAhead' /\ ScreenFollowsStream'
      BY <1>1 DEF StreamInv, NotAhead, ScreenFollowsStream
<1>4. \A c \in Channels : inbox'[c] = inbox[c] \/ inbox'[c] = <<>>
      BY DEF Opens, ConnectFails, Ends, ServerStops, ServerStarts, channelVars, TypeOK
<1>5. grid \in Nat /\ grid' \in Nat /\ grid <= grid' BY <1>1, StatusesAreNumbers
<1>6. ASSUME NEW c \in Channels, owner'[c] \notin disposed' PROVE Arriving(c)'
  <2>1. CASE inbox'[c] = inbox[c]
    <3>1. Arriving(c) BY <1>1, <1>6 DEF StreamInv
    <3> QED BY <1>1, <1>2, <1>5, <2>1, <3>1, StillArriving
  <2>2. CASE inbox'[c] = <<>> BY <2>2 DEF Arriving
  <2> QED BY <1>4, <2>1, <2>2
<1>7. FramesOnConnections'
  <2>1. ASSUME NEW c \in Channels, Opens(c) PROVE FramesOnConnections'
        BY <2>1 DEF Opens, StreamInv, FramesOnConnections, TypeOK
  <2>2. ASSUME NEW c \in Channels, ConnectFails(c) PROVE FramesOnConnections'
        BY <2>2 DEF ConnectFails, handlerVars, StreamInv, FramesOnConnections, TypeOK
  <2>3. ASSUME NEW c \in Channels, Ends(c) PROVE FramesOnConnections'
        BY <2>3 DEF Ends, StreamInv, FramesOnConnections, TypeOK
  <2>4. CASE ServerStops
        BY <2>4 DEF ServerStops, StreamInv, FramesOnConnections, TypeOK
  <2>5. CASE ServerStarts
        BY <2>5 DEF ServerStarts, StreamInv, FramesOnConnections, channelVars,
                    handlerVars
  <2> QED BY <2>1, <2>2, <2>3, <2>4, <2>5
<1>8. SnapshotsAreCurrent'
  <2>1. \A c \in Channels : handler'[c] = "taken" =>
            handler[c] = "taken" /\ snapshot'[c] = snapshot[c]
        BY DEF Opens, ConnectFails, Ends, ServerStops, ServerStarts, handlerVars, TypeOK
  <2> QED BY <1>1, <2>1 DEF StreamInv, SnapshotsAreCurrent
<1> QED BY <1>3, <1>6, <1>7, <1>8 DEF StreamInv

\* The backend's handler: its snapshot is of now when it is taken, and if it is older
\* when it is written a push has overtaken it.
LEMMA GreetsKeepsStream ==
    ASSUME TypeOK, StreamInv, NEW c \in Channels, Greets(c) PROVE StreamInv'
<1>1. UNCHANGED <<disposed, owner, phase, stream, latest, overtaken, grid>>
      BY DEF Greets, Registers, TakesSnapshot, WritesFirst, serviceVars, channelVars,
             screenVars, serverVars
<1>2. \A v \in Nat : Follows(v) => FollowsAfter(v) BY <1>1 DEF Follows, FollowsAfter
<1>3. NotAhead /\ NotAhead' /\ ScreenFollowsStream'
      BY <1>1 DEF StreamInv, NotAhead, ScreenFollowsStream
<1>4. /\ grid \in Nat /\ grid' \in Nat /\ grid <= grid' /\ snapshot[c] \in Nat
      BY <1>1, StatusesAreNumbers
<1>5. phase[c] = "open"
      BY DEF Greets, Registers, TakesSnapshot, WritesFirst, StreamInv,
             FramesOnConnections
<1>6. /\ \A d \in Channels \ {c} : handler'[d] = handler[d] /\ snapshot'[d] = snapshot[d]
      /\ \A d \in Channels \ {c} : inbox'[d] = inbox[d]
      BY DEF Greets, Registers, TakesSnapshot, WritesFirst, channelVars, TypeOK
<1>7. FramesOnConnections'
      BY <1>1, <1>5, <1>6 DEF StreamInv, FramesOnConnections
<1>8. SnapshotsAreCurrent'
  <2>1. handler'[c] = "taken" => snapshot'[c] = grid
        BY DEF Greets, Registers, TakesSnapshot, WritesFirst, TypeOK
  <2> QED BY <1>1, <1>4, <1>6, <2>1 DEF StreamInv, SnapshotsAreCurrent
<1>9. ASSUME NEW d \in Channels, owner'[d] \notin disposed' PROVE Arriving(d)'
  <2>1. Arriving(d) BY <1>1, <1>9 DEF StreamInv
  <2>2. CASE d = c /\ WritesFirst(c)
    <3>1. inbox'[c] = Append(inbox[c], snapshot[c]) BY <2>2 DEF WritesFirst, TypeOK
    <3>2. snapshot[c] <= grid /\ (snapshot[c] = grid \/ snapshot[c] \in overtaken)
          BY <2>2 DEF WritesFirst, StreamInv, SnapshotsAreCurrent
    <3>3. /\ snapshot[c] <= grid' /\ overtaken \subseteq overtaken'
          /\ grid <= snapshot[c] \/ snapshot[c] \in overtaken'
          BY <1>1, <1>4, <3>2
    <3> QED BY <1>1, <1>3, <1>4, <2>1, <2>2, <3>1, <3>3, AppendedArrives
  <2>3. CASE ~(d = c /\ WritesFirst(c))
    <3>1. inbox'[d] = inbox[d]
          BY <1>6, <2>3 DEF Greets, Registers, TakesSnapshot, channelVars
    <3> QED BY <1>1, <1>2, <1>4, <2>1, <3>1, StillArriving
  <2> QED BY <2>2, <2>3
<1> QED BY <1>3, <1>7, <1>8, <1>9 DEF StreamInv

\* What a push brings is not older than what is on its way, and the snapshots it
\* makes old are remembered.
LEMMA PushKeepsStream == TypeOK /\ StreamInv /\ Push => StreamInv'
<1> SUFFICES ASSUME TypeOK, StreamInv, Push PROVE StreamInv'
    OBVIOUS
<1>1. /\ UNCHANGED <<disposed, owner, phase, handler, snapshot, stream, latest>>
      /\ grid' \in {grid, grid + 1} \cap Statuses
      /\ inbox' = [c \in Channels |-> IF c \in Registered THEN Append(inbox[c], grid')
                                                          ELSE inbox[c]]
      /\ overtaken' = overtaken \cup
             ({snapshot[c] : c \in {d \in Registered : handler[d] = "taken"}} \ {grid'})
      BY DEF Push, serviceVars, screenVars
<1>2. /\ grid \in Nat /\ latest.v \in Nat /\ (stream # None => stream \in Nat)
      /\ grid' \in Nat /\ grid <= grid' /\ overtaken \subseteq overtaken'
      BY <1>1, StatusesAreNumbers
<1>3. \A v \in Nat : Follows(v) => FollowsAfter(v)
      BY <1>1, <1>2 DEF Follows, FollowsAfter
<1>4. NotAhead BY DEF StreamInv
<1>5. NotAhead' BY <1>1, <1>2, <1>4 DEF NotAhead
<1>6. ScreenFollowsStream' BY <1>1 DEF StreamInv, ScreenFollowsStream
<1>7. FramesOnConnections'
  <2>1. \A c \in Registered : phase[c] = "open"
        BY DEF Registered, StreamInv, FramesOnConnections
  <2> QED BY <1>1, <2>1 DEF StreamInv, FramesOnConnections
<1>8. SnapshotsAreCurrent'
  <2> SUFFICES ASSUME NEW c \in Channels, handler[c] = "taken"
               PROVE  /\ snapshot[c] <= grid'
                      /\ snapshot[c] = grid' \/ snapshot[c] \in overtaken'
      BY <1>1 DEF SnapshotsAreCurrent
  <2>1. snapshot[c] <= grid /\ snapshot[c] \in Nat
        BY StatusesAreNumbers DEF StreamInv, SnapshotsAreCurrent
  <2>2. c \in {d \in Registered : handler[d] = "taken"} BY DEF Registered
  <2> QED BY <1>1, <1>2, <2>1, <2>2
<1>9. ASSUME NEW c \in Channels, owner'[c] \notin disposed' PROVE Arriving(c)'
  <2>1. Arriving(c) BY <1>1, <1>9 DEF StreamInv
  <2>2. CASE c \in Registered
    <3>1. inbox'[c] = Append(inbox[c], grid') BY <1>1, <2>2
    <3>2. grid' <= grid' BY <1>2
    <3> QED BY <1>1, <1>2, <1>4, <2>1, <3>1, <3>2, AppendedArrives
  <2>3. CASE c \notin Registered
    <3>1. inbox'[c] = inbox[c] BY <1>1, <2>3
    <3> QED BY <1>2, <1>3, <2>1, <3>1, StillArriving
  <2> QED BY <2>2, <2>3
<1> QED BY <1>5, <1>6, <1>7, <1>8, <1>9 DEF StreamInv

\* The screen takes what the stream has.
LEMMA BuildKeepsStream == TypeOK /\ StreamInv /\ Build => StreamInv'
<1> SUFFICES ASSUME TypeOK, StreamInv, Build PROVE StreamInv'
    OBVIOUS
<1>1. /\ latest' = Seeded
      /\ UNCHANGED <<disposed, owner, phase, inbox, handler, snapshot, overtaken, stream,
                     grid>>
      BY DEF Build, serviceVars, channelVars, handlerVars, serverVars
<1>2. latest'.from = "stream" =>
          (stream # None /\ latest'.v = stream) \/ (stream = None /\ latest' = latest)
      BY <1>1 DEF Seeded, FromStream
<1>3. \A v \in Nat : Follows(v) => FollowsAfter(v)
      BY <1>1, <1>2 DEF Follows, FollowsAfter
<1>4. NotAhead' BY <1>1, <1>2 DEF StreamInv, NotAhead
<1>5. ScreenFollowsStream'
      BY <1>1, <1>2, StatusesAreNumbers DEF ScreenFollowsStream
<1>6. FramesOnConnections' /\ SnapshotsAreCurrent'
      BY <1>1 DEF StreamInv, FramesOnConnections, SnapshotsAreCurrent
<1>7. ASSUME NEW c \in Channels, owner'[c] \notin disposed' PROVE Arriving(c)'
  <2>1. Arriving(c) BY <1>1, <1>7 DEF StreamInv
  <2>2. grid' \in Nat /\ grid <= grid' BY <1>1, StatusesAreNumbers
  <2> QED BY <1>1, <1>3, <2>1, <2>2, StillArriving
<1> QED BY <1>4, <1>5, <1>6, <1>7 DEF StreamInv

\* At the start there are no frames.
LEMMA InitStream == Init => StreamInv
<1> SUFFICES ASSUME Init PROVE StreamInv
    OBVIOUS
<1>1. /\ stream = None /\ latest = NoStatus
      /\ \A c \in Channels : inbox[c] = <<>> /\ handler[c] = "none"
      BY DEF Init
<1>2. latest.from = "none" BY <1>1 DEF NoStatus
<1> QED BY <1>1, <1>2 DEF StreamInv, NotAhead, ScreenFollowsStream,
                          SnapshotsAreCurrent, FramesOnConnections, Arriving

\* Frames, stream and screen are in the order of the changes, up to first statuses
\* that pushes overtook, through any number of connections and services.
LEMMA StreamInvariant == Spec => [](TypeOK /\ ServiceInv /\ StreamInv)
<1>1. TypeOK /\ ServiceInv /\ StreamInv /\ [Next]_vars => StreamInv'
  <2> SUFFICES ASSUME TypeOK, ServiceInv, StreamInv, [Next]_vars PROVE StreamInv'
      OBVIOUS
  <2>1. CASE RunCallback \/ (\E s \in Services : TimerFires(s)) \/ Retry \/ Leave
        BY <2>1, ServiceKeepsStream
  <2>2. CASE \E c \in Channels : OnMessage(c) BY <2>2, MessageKeepsStream
  <2>3. CASE (\E c \in Channels : Connection(c)) \/ ServerStops \/ ServerStarts
        BY <2>3, NetworkKeepsStream
  <2>4. CASE \E c \in Channels : Greets(c) BY <2>4, GreetsKeepsStream
  <2>5. CASE Push BY <2>5, PushKeepsStream
  <2>6. CASE Build BY <2>6, BuildKeepsStream
  <2>7. CASE FetchServed \/ FetchReturns \/ FetchFails \/ UNCHANGED vars
    <3>1. UNCHANGED <<disposed, owner, phase, inbox, handler, snapshot, overtaken,
                      stream, latest, grid>>
          BY <2>7 DEF FetchServed, FetchReturns, FetchFails, vars, serviceVars,
                      channelVars, handlerVars, screenVars, serverVars
    <3> QED BY <3>1 DEF StreamInv, NotAhead, Follows, ScreenFollowsStream,
                        SnapshotsAreCurrent, FramesOnConnections, Arriving
  <2> QED BY <2>1, <2>2, <2>3, <2>4, <2>5, <2>6, <2>7 DEF Next
<1> QED BY <1>1, InitStream, ServiceInvariant, PTL DEF Spec

\* A status from the stream is replaced only by one that is not older or by a first
\* status that a push overtook, through any number of connections, failures and
\* retries (dashboard_screen.dart, build()).
THEOREM StreamStatusStaysHolds == Spec => StreamStatusStays
<1>1. TypeOK /\ StreamInv /\ [Next]_vars =>
          (latest.from = "stream" =>
              /\ latest'.from = "stream"
              /\ latest'.v >= latest.v \/ latest'.v \in overtaken)
  <2> SUFFICES ASSUME TypeOK, StreamInv, [Next]_vars, latest.from = "stream"
               PROVE  /\ latest'.from = "stream"
                      /\ latest'.v >= latest.v \/ latest'.v \in overtaken
      OBVIOUS
  <2>1. latest.v \in Nat /\ (stream # None => stream \in Nat)
        BY StatusesAreNumbers
  <2>2. CASE Build
    <3>1. latest' = Seeded BY <2>2 DEF Build
    <3>2. stream # None => latest.v <= stream \/ stream \in overtaken
          BY DEF StreamInv, ScreenFollowsStream
    <3> QED BY <2>1, <3>1, <3>2 DEF Seeded, FromStream
  <2>3. CASE ~Build
    <3>1. latest' = latest
          BY <2>3 DEF Next, vars, RunCallback, TimerFires, OnMessage, Connection, Opens,
                      ConnectFails, Ends, Greets, Registers, TakesSnapshot, WritesFirst,
                      ServerStops, ServerStarts, Push, FetchServed, FetchReturns,
                      FetchFails, Retry, Leave, screenVars
    <3> QED BY <2>1, <3>1
  <2> QED BY <2>2, <2>3
<1> QED BY <1>1, StreamInvariant, PTL DEF Spec, StreamStatusStays

-----------------------------------------------------------------------------
(* What the two liveness properties rest on.                               *)

\* Every connection there is belongs to a service that still holds it, or is being
\* closed: no attempt, failure, retry or end of the screen leaves one behind that
\* nobody would ever close (_channel and dispose()).
NoOrphans ==
    \A c \in Channels : phase[c] # "free" =>
        IF owner[c] \in disposed THEN c \in closing ELSE channel[owner[c]] = c

\* The first connection is the first service's.
LEMMA InitOrphans == Init => NoOrphans
<1> SUFFICES ASSUME Init PROVE NoOrphans
    OBVIOUS
<1> DEFINE first == CHOOSE c \in Channels : TRUE
<1>1. /\ phase = [c \in Channels |-> IF c = first THEN "connecting" ELSE "free"]
      /\ channel = [s \in Services |-> IF s = 1 THEN first ELSE None]
      /\ owner = [c \in Channels |-> 1] /\ disposed = {}
      BY DEF Init
<1>2. 1 \in Services BY BoundsAssumption DEF Services
<1> HIDE DEF first
<1> QED BY <1>1, <1>2 DEF NoOrphans

\* A reconnect puts the new channel in the place of one that is gone.
LEMMA TimerKeepsHolders ==
    ASSUME TypeOK, ServiceInv, NoOrphans, NEW s \in Services, TimerFires(s)
    PROVE  NoOrphans'
<1>1. timers[s] > 0 /\ Idle /\ UNCHANGED <<service, disposed, closing>>
      BY DEF TimerFires
<1>2. s \notin disposed BY <1>1 DEF ServiceInv, Others
<1>3. s = service /\ owner \in [Channels -> Services]
      BY <1>1, <1>2, BoundsAssumption DEF ServiceInv, Others, TypeOK, Services
<1>4. \A c \in Channels : ~Held(c)
      BY <1>1, <1>2, <1>3, AtRest DEF Settled, TypeOK
<1>5. /\ Free # {} /\ channel' = [channel EXCEPT ![s] = NewChannel]
      /\ phase' = [phase EXCEPT ![NewChannel] = "connecting"]
      /\ owner' = [owner EXCEPT ![NewChannel] = s]
      BY <1>2 DEF TimerFires, Connect
<1>6. NewChannel \in Channels BY <1>5, NewChannelIsFree
<1> DEFINE n == NewChannel
<1> HIDE DEF n
<1>7. /\ n \in Channels /\ channel' = [channel EXCEPT ![s] = n]
      /\ phase' = [phase EXCEPT ![n] = "connecting"]
      /\ owner' = [owner EXCEPT ![n] = s]
      BY <1>5, <1>6 DEF n
<1> SUFFICES ASSUME NEW c \in Channels, phase'[c] # "free"
             PROVE  IF owner'[c] \in disposed' THEN c \in closing'
                                              ELSE channel'[owner'[c]] = c
    BY DEF NoOrphans
<1>8. CASE c = n
      BY <1>1, <1>2, <1>7, <1>8 DEF TypeOK
<1>9. CASE c # n
  <2>1. phase[c] # "free" /\ owner'[c] = owner[c] BY <1>7, <1>9 DEF TypeOK
  <2>2. owner[c] # s BY <1>3, <1>4, <2>1 DEF Held
  <2>3. channel'[owner[c]] = channel[owner[c]] BY <1>3, <1>7, <2>2 DEF TypeOK
  <2> QED BY <1>1, <2>1, <2>3 DEF NoOrphans
<1> QED BY <1>8, <1>9

\* dispose() closes what the service holds; a channel of an earlier service stays
\* closing.
LEMMA DisposeClosesAll ==
    ASSUME TypeOK, ServiceInv, NoOrphans, Idle, Dispose(service)
    PROVE  \A c \in Channels : phase[c] # "free" => c \in closing'
<1> SUFFICES ASSUME NEW c \in Channels, phase[c] # "free" PROVE c \in closing'
    OBVIOUS
<1>1. CASE owner[c] \in disposed BY <1>1 DEF NoOrphans, Dispose
<1>2. CASE owner[c] \notin disposed
  <2>1. owner[c] = service BY <1>2, AtRest
  <2>2. channel[service] = c BY <1>2, <2>1 DEF NoOrphans
  <2> QED BY <2>2 DEF Dispose
<1> QED BY <1>1, <1>2

\* A new service holds the channel it makes, and what others have made is closing.
LEMMA RetryKeepsHolders ==
    ASSUME TypeOK, ServiceInv, NoOrphans, Retry PROVE NoOrphans'
<1>1. Idle /\ Dispose(service) /\ service < MaxServices BY DEF Retry
<1>2. /\ Free # {} /\ channel' = [channel EXCEPT ![service + 1] = NewChannel]
      /\ phase' = [phase EXCEPT ![NewChannel] = "connecting"]
      /\ owner' = [owner EXCEPT ![NewChannel] = service + 1]
      BY DEF Retry, Connect
<1>3. NewChannel \in Channels BY <1>2, NewChannelIsFree
<1>4. service + 1 \in Services /\ service # service + 1
      BY <1>1, BoundsAssumption DEF TypeOK, Services
<1>5. service + 1 \notin disposed'
      BY <1>1, <1>4, DisposeKeepsClosing, BoundsAssumption DEF TypeOK, Services
<1> DEFINE n == NewChannel
           s == service + 1
<1> HIDE DEF n, s
<1>6. /\ n \in Channels /\ s \in Services /\ s \notin disposed'
      /\ channel' = [channel EXCEPT ![s] = n]
      /\ phase' = [phase EXCEPT ![n] = "connecting"]
      /\ owner' = [owner EXCEPT ![n] = s]
      BY <1>2, <1>3, <1>4, <1>5 DEF n, s
<1> SUFFICES ASSUME NEW c \in Channels, phase'[c] # "free"
             PROVE  IF owner'[c] \in disposed' THEN c \in closing'
                                              ELSE channel'[owner'[c]] = c
    BY DEF NoOrphans
<1>7. CASE c = n BY <1>6, <1>7 DEF TypeOK
<1>8. CASE c # n
  <2>1. phase[c] # "free" /\ owner'[c] = owner[c] BY <1>6, <1>8 DEF TypeOK
  <2>2. owner[c] \in disposed' BY <1>1, DisposeKeepsClosing
  <2>3. c \in closing' BY <1>1, <2>1, DisposeClosesAll
  <2> QED BY <2>1, <2>2, <2>3
<1> QED BY <1>7, <1>8

\* A connection that goes is the only one that stops closing.
LEMMA NetworkKeepsHolders ==
    ASSUME TypeOK, NoOrphans,
           \/ \E c \in Channels : OnMessage(c) \/ Connection(c) \/ Greets(c)
           \/ ServerStops \/ ServerStarts \/ Push
    PROVE  NoOrphans'
<1> USE DEF Connection, OnMessage, Opens, ConnectFails, Ends, Greets, Registers,
            TakesSnapshot, WritesFirst, ServerStops, ServerStarts, Push, channelVars
<1>1. UNCHANGED <<disposed, channel, owner>> BY DEF serviceVars
<1>2. \A c \in Channels : phase'[c] # "free" =>
          phase[c] # "free" /\ (c \in closing => c \in closing')
      BY DEF TypeOK
<1> QED BY <1>1, <1>2 DEF NoOrphans

\* Every step keeps holders and closing channels together.
LEMMA NextKeepsHolders ==
    ASSUME TypeOK, ServiceInv, NoOrphans, [Next]_vars PROVE NoOrphans'
<1>1. CASE \E s \in Services : TimerFires(s) BY <1>1, TimerKeepsHolders
<1>2. CASE Retry BY <1>2, RetryKeepsHolders
<1>3. CASE Leave
  <2>1. Idle /\ Dispose(service) /\ UNCHANGED <<phase, owner>> BY <1>3 DEF Leave
  <2>2. \A c \in Channels : owner[c] \in disposed' BY <2>1, DisposeKeepsClosing
  <2>3. \A c \in Channels : phase[c] # "free" => c \in closing'
        BY <2>1, DisposeClosesAll
  <2> QED BY <2>1, <2>2, <2>3 DEF NoOrphans
<1>4. CASE \/ \E c \in Channels : OnMessage(c) \/ Connection(c) \/ Greets(c)
           \/ ServerStops \/ ServerStarts \/ Push
      BY <1>4, NetworkKeepsHolders
<1>5. CASE RunCallback \/ FetchServed \/ FetchReturns \/ FetchFails \/ Build
           \/ UNCHANGED vars
  <2>1. UNCHANGED <<disposed, channel, phase, owner, closing>>
        BY <1>5 DEF RunCallback, FetchServed, FetchReturns, FetchFails, Build, vars,
                    serviceVars, channelVars
  <2> QED BY <2>1 DEF NoOrphans
<1> QED BY <1>1, <1>2, <1>3, <1>4, <1>5 DEF Next

\* A disposed service has no timer, and all its connections are closing.
DisposedAreClosing == \A s \in disposed : timers[s] = 0 /\ Live(s) \subseteq closing

\* No connection of the app is ever without a service that holds it or a close that
\* is under way: a disposed service has asked for the end of all it made, also of
\* what was still being made (the safety half of DisposedServicesLetGo).
THEOREM NoOrphansHolds == Spec => [](NoOrphans /\ DisposedAreClosing)
<1>1. TypeOK /\ ServiceInv /\ NoOrphans /\ [Next]_vars => NoOrphans'
      BY NextKeepsHolders
<1>2. ServiceInv /\ NoOrphans => DisposedAreClosing
      BY DEF ServiceInv, Others, NoOrphans, DisposedAreClosing, Live
<1> QED BY <1>1, <1>2, InitOrphans, ServiceInvariant, PTL DEF Spec

\* The last frame to come, or the last that came, is the status of now or overtaken.
LastIsCurrent(c) ==
    IF inbox[c] = <<>>
      THEN stream = grid \/ stream \in overtaken
      ELSE inbox[c][Len(inbox[c])] = grid \/ inbox[c][Len(inbox[c])] \in overtaken

\* NothingIsMissed in these words.
LEMMA MissedByChannel ==
    NothingIsMissed <=>
        \A c \in Channels :
            handler[c] = "reading" /\ owner[c] \notin disposed => LastIsCurrent(c)
BY DEF NothingIsMissed, LastIsCurrent

\* After a frame is appended it is the last one.
LEMMA AppendedIsLast ==
    ASSUME TypeOK, NEW c \in Channels, NEW e \in Nat,
           inbox'[c] = Append(inbox[c], e), e = grid' \/ e \in overtaken'
    PROVE  LastIsCurrent(c)'
<1>1. inbox[c] \in Seq(Nat) /\ Len(inbox[c]) \in Nat BY StatusesAreNumbers
<1>2. Len(inbox'[c]) = Len(inbox[c]) + 1 /\ inbox'[c][Len(inbox[c]) + 1] = e
      BY <1>1
<1>3. inbox'[c] # <<>> BY <1>1, <1>2
<1> QED BY <1>2, <1>3 DEF LastIsCurrent

\* A message that is read is of the only connection that is not of a disposed
\* service, and the last of its frames stays the last or becomes the stream's value.
LEMMA MessageMissesNothing ==
    ASSUME TypeOK, ServiceInv, StreamInv, NothingIsMissed,
           NEW c \in Channels, OnMessage(c)
    PROVE  NothingIsMissed'
<1>1. /\ Idle /\ inbox[c] # <<>> /\ phase[c] \in {"open", "broken"}
      /\ inbox' = [inbox EXCEPT ![c] = Tail(inbox[c])]
      /\ stream' = IF owner[c] \in disposed THEN stream ELSE Head(inbox[c])
      /\ UNCHANGED <<service, disposed, handler, owner, overtaken, grid>>
      BY DEF OnMessage, serviceVars, handlerVars, serverVars
<1>2. /\ inbox'[c] = Tail(inbox[c]) /\ \A d \in Channels \ {c} : inbox'[d] = inbox[d]
      BY <1>1 DEF TypeOK
<1>3. /\ inbox[c] \in Seq(Nat) /\ Len(inbox[c]) \in Nat \ {0}
      /\ Head(inbox[c]) = inbox[c][1]
      BY <1>1, StatusesAreNumbers
<1>4. /\ Tail(inbox[c]) \in Seq(Nat) /\ Len(Tail(inbox[c])) = Len(inbox[c]) - 1
      /\ \A i \in 1 .. Len(inbox[c]) - 1 : Tail(inbox[c])[i] = inbox[c][i + 1]
      BY <1>3
<1> SUFFICES ASSUME NEW d \in Channels, handler'[d] = "reading",
                    owner'[d] \notin disposed'
             PROVE  LastIsCurrent(d)'
    BY DEF NothingIsMissed, LastIsCurrent
<1>5. LastIsCurrent(d) BY <1>1, MissedByChannel
<1>6. CASE d = c
  <2>1. /\ inbox[c][Len(inbox[c])] = grid \/ inbox[c][Len(inbox[c])] \in overtaken
        /\ stream' = Head(inbox[c])
        BY <1>1, <1>5, <1>6 DEF LastIsCurrent
  <2>2. CASE Tail(inbox[c]) = <<>>
    <3>1. Len(Tail(inbox[c])) = 0
      <4>1. Len(<<>>) = 0 OBVIOUS
      <4> QED BY <2>2, <4>1, Zenon
    <3>2. Len(inbox[c]) = 1 BY <1>3, <1>4, <3>1
    <3> QED BY <1>1, <1>2, <1>3, <1>6, <2>1, <2>2, <3>2 DEF LastIsCurrent
  <2>3. CASE Tail(inbox[c]) # <<>>
    <3>1. Len(inbox[c]) - 1 \in 1 .. Len(inbox[c]) - 1 BY <1>3, <1>4, <2>3
    <3>2. Tail(inbox[c])[Len(Tail(inbox[c]))] = inbox[c][Len(inbox[c])]
          BY <1>3, <1>4, <3>1
    <3> QED BY <1>1, <1>2, <1>6, <2>1, <2>3, <3>2 DEF LastIsCurrent
  <2> QED BY <2>2, <2>3
<1>7. CASE d # c
  <2>1. owner[c] \in disposed
    <3>1. SUFFICES ASSUME owner[c] \notin disposed PROVE FALSE
          OBVIOUS
    <3>2. owner[c] = service /\ owner[d] = service /\ service \notin disposed /\ Settled
          BY <1>1, <3>1, AtRest
    <3>3. phase[d] = "open" BY <1>1 DEF StreamInv, FramesOnConnections
    <3>4. Held(c) /\ Held(d) BY <1>1, <3>2, <3>3 DEF Held
    <3> QED BY <1>7, <3>2, <3>4 DEF Settled
  <2> QED BY <1>1, <1>2, <1>5, <1>7, <2>1 DEF LastIsCurrent
<1> QED BY <1>6, <1>7

\* What a push brings is the last frame of every connection that is registered, and
\* those that read are.
LEMMA PushMissesNothing == ASSUME TypeOK, NothingIsMissed, Push PROVE NothingIsMissed'
<1>1. /\ UNCHANGED <<handler, owner, disposed>> /\ grid' \in Statuses
      /\ inbox' = [c \in Channels |-> IF c \in Registered THEN Append(inbox[c], grid')
                                                          ELSE inbox[c]]
      BY DEF Push, serviceVars
<1> SUFFICES ASSUME NEW c \in Channels, handler'[c] = "reading",
                    owner'[c] \notin disposed'
             PROVE  LastIsCurrent(c)'
    BY DEF NothingIsMissed, LastIsCurrent
<1>2. c \in Registered BY <1>1 DEF Registered
<1>3. inbox'[c] = Append(inbox[c], grid') BY <1>1, <1>2
<1>4. grid' \in Nat BY <1>1, BoundsAssumption DEF Statuses
<1> QED BY <1>3, <1>4, AppendedIsLast

\* The first status is of now when it is written, or a push had overtaken it.
LEMMA GreetsMissesNothing ==
    ASSUME TypeOK, StreamInv, NothingIsMissed, NEW c \in Channels, Greets(c)
    PROVE  NothingIsMissed'
<1>1. UNCHANGED <<disposed, owner, stream, overtaken, grid>>
      BY DEF Greets, Registers, TakesSnapshot, WritesFirst, serviceVars, channelVars,
             serverVars
<1> SUFFICES ASSUME NEW d \in Channels, handler'[d] = "reading",
                    owner'[d] \notin disposed'
             PROVE  LastIsCurrent(d)'
    BY DEF NothingIsMissed, LastIsCurrent
<1>2. CASE d = c /\ WritesFirst(c)
  <2>1. inbox'[c] = Append(inbox[c], snapshot[c]) BY <1>2 DEF WritesFirst, TypeOK
  <2>2. snapshot[c] = grid \/ snapshot[c] \in overtaken
        BY <1>2 DEF WritesFirst, StreamInv, SnapshotsAreCurrent
  <2>3. snapshot[c] \in Nat BY StatusesAreNumbers
  <2> QED BY <1>1, <1>2, <2>1, <2>2, <2>3, AppendedIsLast
<1>3. CASE ~(d = c /\ WritesFirst(c))
  <2>1. inbox'[d] = inbox[d] /\ handler[d] = "reading"
        BY <1>3 DEF Greets, Registers, TakesSnapshot, WritesFirst, channelVars, TypeOK
  <2>2. LastIsCurrent(d) BY <1>1, <2>1, MissedByChannel
  <2> QED BY <1>1, <2>1, <2>2 DEF LastIsCurrent
<1> QED BY <1>2, <1>3

\* The network and the remaking of connections: none that is read from changes hands.
LEMMA OthersMissNothing ==
    ASSUME TypeOK, ServiceInv, StreamInv, NothingIsMissed, [Next]_vars,
           ~(\E c \in Channels : OnMessage(c)), ~(\E c \in Channels : Greets(c)), ~Push
    PROVE  NothingIsMissed'
<1>1. grid' = grid /\ overtaken' = overtaken /\ disposed \subseteq disposed'
      BY DEF Next, vars, RunCallback, TimerFires, Connection, Opens, ConnectFails, Ends,
             ServerStops, ServerStarts, FetchServed, FetchReturns, FetchFails, Build,
             Retry, Leave, Dispose, serviceVars, handlerVars, serverVars
<1> SUFFICES ASSUME NEW c \in Channels, handler'[c] = "reading",
                    owner'[c] \notin disposed'
             PROVE  LastIsCurrent(c)'
    BY DEF NothingIsMissed, LastIsCurrent
<1>2. handler[c] = "reading" /\ inbox'[c] = inbox[c]
  <2>1. CASE \E d \in Channels : Connection(d)
        BY <2>1 DEF Connection, Opens, ConnectFails, Ends, handlerVars, StreamInv,
                    FramesOnConnections, TypeOK
  <2>2. CASE ServerStops BY <2>2 DEF ServerStops
  <2>3. CASE RunCallback \/ (\E s \in Services : TimerFires(s)) \/ ServerStarts
             \/ FetchServed \/ FetchReturns \/ FetchFails \/ Build \/ Retry \/ Leave
             \/ UNCHANGED vars
        BY <2>3 DEF RunCallback, TimerFires, ServerStarts, FetchServed, FetchReturns,
                    FetchFails, Build, Retry, Leave, vars, channelVars, handlerVars
  <2> QED BY <2>1, <2>2, <2>3 DEF Next
<1>3. phase[c] = "open" BY <1>2 DEF StreamInv, FramesOnConnections
<1>4. owner'[c] = owner[c]
  <2>1. CASE \E s \in Services : TimerFires(s)
        BY <1>3, <2>1, NewChannelIsFree DEF TimerFires, Connect, TypeOK
  <2>2. CASE Retry BY <1>3, <2>2, NewChannelIsFree DEF Retry, Connect, TypeOK
  <2>3. CASE ~Retry /\ ~(\E s \in Services : TimerFires(s))
        BY <2>3 DEF Next, Connection, Opens, ConnectFails, Ends, ServerStops,
                    RunCallback, ServerStarts, FetchServed, FetchReturns, FetchFails,
                    Build, Leave, vars, channelVars
  <2> QED BY <2>1, <2>2, <2>3
<1>5. CASE Retry
  <2>1. Dispose(service) BY <1>5 DEF Retry
  <2>2. owner[c] \in disposed' BY <2>1, DisposeKeepsClosing
  <2> QED BY <1>4, <2>2
<1>6. CASE ~Retry
  <2>1. stream' = stream
        BY <1>6 DEF Next, vars, RunCallback, TimerFires, Connection, Opens, ConnectFails,
                    Ends, ServerStops, ServerStarts, FetchServed, FetchReturns,
                    FetchFails, Build, Leave
  <2>2. LastIsCurrent(c) BY <1>1, <1>2, <1>4, MissedByChannel
  <2> QED BY <1>1, <1>2, <2>1, <2>2 DEF LastIsCurrent
<1> QED BY <1>5, <1>6

\* Once a connection of the service in use has its first status, nothing the backend
\* says is lost on the way to the stream, although pushes may come before, between
\* and after the handler's registering, its snapshot and its writing: when no frame
\* is left to come the stream has the backend's status of now, or the first status
\* if a push overtook that (handler.go; the safety half of ScreenCatchesUp).
THEOREM NothingIsMissedHolds == Spec => []NothingIsMissed
<1>1. Init => NothingIsMissed
      BY DEF Init, NothingIsMissed
<1>2. TypeOK /\ ServiceInv /\ StreamInv /\ NothingIsMissed /\ [Next]_vars
          => NothingIsMissed'
      BY MessageMissesNothing, PushMissesNothing, GreetsMissesNothing, OthersMissNothing
<1> QED BY <1>1, <1>2, StreamInvariant, PTL DEF Spec
=============================================================================
