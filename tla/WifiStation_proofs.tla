-------------------------- MODULE WifiStation_proofs --------------------------
(***************************************************************************)
(* Proofs about wifi_init_sta() and its event handler, for any number of   *)
(* retries and of losses.                                                  *)
(***************************************************************************)
EXTENDS WifiStation, SequenceTheorems, TLAPS

\* What the driver may have told the event loop and not been heard of yet: at
\* most one event for each of its changes since the last call of
\* esp_wifi_connect().
QueueFollowsDriver ==
    /\ driver \in {"idle", "connecting", "up"}
    /\ driver = "connecting" => events = <<>>
    /\ driver = "up" => events \in {<<>>, <<"got_ip">>}
    /\ driver = "idle" =>
          events \in {<<>>, <<"start">>, <<"disconnected">>,
                      <<"got_ip", "disconnected">>}

\* Before esp_wifi_start() nothing has happened.
QuietBeforeStart ==
    pc \in {"create", "register", "start"} =>
        driver = "idle" /\ events = <<>> /\ bits = {}

\* The handler is registered only while wifi_init_sta() is between
\* RegisterHandlers and UnregisterIp, and the group is there all that time.
GroupCoversRegistration ==
    /\ pc \in {"register", "start", "wait", "unregister_wifi", "unregister_ip",
               "delete"} => group
    /\ registered # {} => pc \in {"start", "wait", "unregister_wifi", "unregister_ip"}
    /\ pc = "unregister_ip" => registered \subseteq {"ip"}
    /\ registered \subseteq Bases

\* The counter never runs ahead of the disconnections, and the handler gives up
\* for good.
GivesUpForGood ==
    /\ failures \in Nat /\ s_retry_count \in 0 .. MaxRetry
    /\ s_retry_count <= failures
    /\ "fail" \in bits => failures > MaxRetry /\ driver = "idle" /\ events = <<>>

StationInv ==
    /\ QueueFollowsDriver
    /\ QuietBeforeStart
    /\ GroupCoversRegistration
    /\ GivesUpForGood

\* Queues of one and of two events.
LEMMA AppendToOne == ASSUME NEW a, NEW b PROVE Append(<<a>>, b) = <<a, b>>
<1> DEFINE s == Append(<<a>>, b)
           t == <<a, b>>
<1>1. /\ <<a>> \in Seq({a, b}) /\ Len(<<a>>) = 1
      /\ t \in Seq({a, b}) /\ Len(t) = 2 /\ t[1] = a /\ t[2] = b
  OBVIOUS
<1>2. s \in Seq({a, b}) /\ Len(s) = 2 /\ s[1] = a /\ s[2] = b
  BY <1>1, AppendProperties
<1>3. \A i \in 1 .. 2 : s[i] = t[i]
  BY <1>1, <1>2
<1> QED BY <1>1, <1>2, <1>3, SeqEqual
\* What is left of two events after the first.
LEMMA TailOfTwo == ASSUME NEW a, NEW b PROVE Tail(<<a, b>>) = <<b>>
  OBVIOUS

\* The invariant holds at power-on.
LEMMA InitStation == Init => StationInv
  BY BoundsAssumption
     DEF Init, StationInv, QueueFollowsDriver, QuietBeforeStart,
         GroupCoversRegistration, GivesUpForGood

\* The steps of wifi_init_sta().
LEMMA InitStaKeepsStation ==
    ASSUME StationInv, WifiInitSta PROVE StationInv'
<1> USE DEF StationInv, QueueFollowsDriver, QuietBeforeStart,
            GroupCoversRegistration, GivesUpForGood, Bases, driverVars
<1>1. CASE CreateGroup
  BY <1>1 DEF CreateGroup
<1>2. CASE RegisterHandlers
  BY <1>2 DEF RegisterHandlers
<1>3. CASE StartWifi
  <2>1. events' = <<"start">> /\ driver' = "idle" /\ bits' = {}
    BY <1>3 DEF StartWifi
  <2> QED BY <1>3, <2>1 DEF StartWifi
<1>4. CASE Wait
  BY <1>4 DEF Wait
<1>5. CASE UnregisterWifi
  BY <1>5 DEF UnregisterWifi
<1>6. CASE UnregisterIp
  <2>1. pc = "unregister_ip" /\ pc' = "delete" /\ registered' = registered \ {"ip"}
    BY <1>6 DEF UnregisterIp
  <2> QED BY <1>6, <2>1 DEF UnregisterIp
<1>7. CASE DeleteGroup
  BY <1>7 DEF DeleteGroup
<1> QED BY <1>1, <1>2, <1>3, <1>4, <1>5, <1>6, <1>7 DEF WifiInitSta

\* One call of the handler, or an event nobody listens to.
LEMMA DispatchKeepsStation ==
    ASSUME StationInv, Dispatch PROVE StationInv'
<1> USE DEF StationInv, QueueFollowsDriver, QuietBeforeStart,
            GroupCoversRegistration, GivesUpForGood
<1>1. /\ driver \in {"idle", "up"}
      /\ pc \notin {"create", "register", "start"}
      /\ "fail" \notin bits
  BY DEF Dispatch
<1>2. /\ s_retry_count < MaxRetry \/ s_retry_count = MaxRetry
      /\ s_retry_count + 1 \in Nat
  BY BoundsAssumption
<1>3. CASE events = <<"start">>
  <2>1. Head(events) = "start" /\ events' = <<>> /\ driver = "idle"
    BY <1>1, <1>3 DEF Dispatch
  <2>2. CASE "wifi" \in registered
    BY <1>1, <2>1, <2>2 DEF Dispatch, OnStart
  <2>3. CASE "wifi" \notin registered
    BY <1>1, <2>1, <2>3 DEF Dispatch
  <2> QED BY <2>2, <2>3
<1>4. CASE events = <<"disconnected">>
  <2>1. Head(events) = "disconnected" /\ events' = <<>> /\ driver = "idle"
    BY <1>1, <1>4 DEF Dispatch
  <2>2. CASE "wifi" \in registered
    BY <1>1, <1>2, <2>1, <2>2, BoundsAssumption DEF Dispatch, OnDisconnected
  <2>3. CASE "wifi" \notin registered
    BY <1>1, <2>1, <2>3 DEF Dispatch
  <2> QED BY <2>2, <2>3
<1>5. CASE events \in {<<"got_ip">>, <<"got_ip", "disconnected">>}
  <2>1. /\ Head(events) = "got_ip"
        /\ driver = "up" => events' = <<>>
        /\ driver = "idle" => events' = <<"disconnected">>
    <3>1. CASE events = <<"got_ip">>
      <4>1. driver = "up"
        BY <1>1, <3>1
      <4> QED BY <3>1, <4>1 DEF Dispatch
    <3>2. CASE events = <<"got_ip", "disconnected">>
      <4>1. driver = "idle"
        BY <1>1, <3>2
      <4>2. Tail(events) = <<"disconnected">>
        BY <3>2, TailOfTwo
      <4> QED BY <3>2, <4>1, <4>2 DEF Dispatch
    <3> QED BY <1>5, <3>1, <3>2
  <2>2. CASE "ip" \in registered
    BY <1>1, <2>1, <2>2, BoundsAssumption DEF Dispatch, OnGotIp
  <2>3. CASE "ip" \notin registered
    BY <1>1, <2>1, <2>3 DEF Dispatch
  <2> QED BY <2>2, <2>3
<1> QED BY <1>1, <1>3, <1>4, <1>5 DEF Dispatch

\* The driver.
LEMMA DriverKeepsStation ==
    ASSUME StationInv, Attempt \/ LinkLost PROVE StationInv'
<1> USE DEF StationInv, QueueFollowsDriver, QuietBeforeStart,
            GroupCoversRegistration, GivesUpForGood, stationVars
<1>1. CASE ConnectSucceeds
  <2>1. events' = <<"got_ip">>
    BY <1>1 DEF ConnectSucceeds
  <2> QED BY <1>1, <2>1 DEF ConnectSucceeds
<1>2. CASE ConnectFails
  <2>1. events' = <<"disconnected">>
    BY <1>2 DEF ConnectFails
  <2> QED BY <1>2, <2>1 DEF ConnectFails
<1>3. CASE LinkLost
  <2>1. CASE events = <<>>
    <3>1. events' = <<"disconnected">>
      BY <1>3, <2>1 DEF LinkLost
    <3> QED BY <1>3, <2>1, <3>1 DEF LinkLost
  <2>2. CASE events = <<"got_ip">>
    <3>1. events' = <<"got_ip", "disconnected">>
      BY <1>3, <2>2, AppendToOne DEF LinkLost
    <3> QED BY <1>3, <2>2, <3>1 DEF LinkLost
  <2> QED BY <1>3, <2>1, <2>2 DEF LinkLost
<1> QED BY <1>1, <1>2, <1>3 DEF Attempt

\* A stuttering step.
LEMMA StutterKeepsStation ==
    ASSUME StationInv, UNCHANGED vars PROVE StationInv'
  BY DEF StationInv, QueueFollowsDriver, QuietBeforeStart, GroupCoversRegistration,
         GivesUpForGood, vars, stationVars, driverVars

\* The strengthened invariant of the station holds in every state.
THEOREM StationInvariant == Spec => []StationInv
<1>1. StationInv /\ [Next]_vars => StationInv'
  BY InitStaKeepsStation, DispatchKeepsStation, DriverKeepsStation,
     StutterKeepsStation DEF Next
<1> QED BY InitStation, <1>1, PTL DEF Spec

-----------------------------------------------------------------------------
\* The handler, which runs in the event loop task, never sets a bit of an event
\* group that wifi_init_sta() has deleted.
THEOREM HandlerHasItsGroupHolds == Spec => []HandlerHasItsGroup
<1>1. StationInv => HandlerHasItsGroup
  BY DEF StationInv, GroupCoversRegistration, HandlerHasItsGroup
<1> QED BY <1>1, StationInvariant, PTL

\* A failure is reported only after WIFI_MAX_RETRY retries in a row, whatever
\* that number is.
THEOREM FailOnlyAfterAllRetriesHolds == Spec => []FailOnlyAfterAllRetries
<1>1. StationInv => FailOnlyAfterAllRetries
  BY DEF StationInv, GivesUpForGood, FailOnlyAfterAllRetries
<1> QED BY <1>1, StationInvariant, PTL

-----------------------------------------------------------------------------
\* Types, action by action; the queue has room for what is put into it.
LEMMA InitStaKeepsTypes ==
    ASSUME TypeOK, StationInv, WifiInitSta PROVE TypeOK'
<1> USE DEF TypeOK, Bits, Bases, driverVars
<1>1. CASE StartWifi
  <2>1. events' = <<"start">> /\ Len(events') = 1
    <3>1. events = <<>>
      BY <1>1 DEF StartWifi, StationInv, QuietBeforeStart
    <3> QED BY <1>1, <3>1 DEF StartWifi
  <2>2. events' \in Seq(Events) /\ Len(events') <= MaxEvents
    BY <2>1, BoundsAssumption DEF Events
  <2> QED BY <1>1, <2>2 DEF StartWifi
<1>2. CASE ~StartWifi
  <2>1. UNCHANGED <<s_retry_count, failures, driver, events, losses>>
    BY <1>2 DEF WifiInitSta, CreateGroup, RegisterHandlers, Wait, UnregisterWifi,
                UnregisterIp, DeleteGroup
  <2> QED BY <1>2, <2>1 DEF WifiInitSta, CreateGroup, RegisterHandlers, Wait,
                            UnregisterWifi, UnregisterIp, DeleteGroup
<1> QED BY <1>1, <1>2

\* The event handler keeps the types.
LEMMA DispatchKeepsTypes == ASSUME TypeOK, Dispatch PROVE TypeOK'
<1>1. events' \in Seq(Events) /\ Len(events') <= MaxEvents
  BY BoundsAssumption DEF TypeOK, Dispatch
<1>2. /\ bits' \subseteq Bits /\ s_retry_count' \in 0 .. MaxRetry /\ failures' \in Nat
      /\ driver' \in {"idle", "connecting", "up"}
  BY BoundsAssumption DEF TypeOK, Dispatch, OnStart, OnDisconnected, OnGotIp, Bits
<1> QED BY <1>1, <1>2 DEF TypeOK, Dispatch

\* The driver keeps the types; it does not post to a full queue.
LEMMA DriverKeepsTypes == ASSUME TypeOK, Attempt \/ LinkLost PROVE TypeOK'
<1>1. /\ Len(events) < MaxEvents
      /\ \E e \in Events : events' = Append(events, e)
  BY DEF Attempt, ConnectSucceeds, ConnectFails, LinkLost, Events
<1>2. events' \in Seq(Events) /\ Len(events') <= MaxEvents
  BY <1>1, BoundsAssumption DEF TypeOK
<1>3. losses' \in 0 .. MaxLosses /\ driver' \in {"idle", "connecting", "up"}
  BY BoundsAssumption DEF TypeOK, Attempt, ConnectSucceeds, ConnectFails, LinkLost
<1> QED BY <1>2, <1>3 DEF TypeOK, Attempt, ConnectSucceeds, ConnectFails, LinkLost,
                          stationVars

\* Every variable keeps its type, for any number of retries, events and losses.
THEOREM TypeCorrect == Spec => []TypeOK
<1>1. Init => TypeOK
  <2> SUFFICES ASSUME Init PROVE TypeOK
    OBVIOUS
  <2>1. events \in Seq(Events) /\ Len(events) <= MaxEvents
    <3>1. events = <<>> /\ Len(<<>>) = 0
      BY DEF Init
    <3> QED BY <3>1, BoundsAssumption
  <2>2. s_retry_count \in 0 .. MaxRetry /\ losses \in 0 .. MaxLosses
    BY BoundsAssumption DEF Init
  <2> QED BY <2>1, <2>2 DEF Init, TypeOK
<1>2. TypeOK /\ StationInv /\ [Next]_vars => TypeOK'
  <2> SUFFICES ASSUME TypeOK, StationInv, [Next]_vars PROVE TypeOK'
    OBVIOUS
  <2>1. CASE UNCHANGED vars
    BY <2>1 DEF TypeOK, vars, stationVars, driverVars
  <2> QED BY <2>1, InitStaKeepsTypes, DispatchKeepsTypes, DriverKeepsTypes DEF Next
<1> QED BY <1>1, <1>2, StationInvariant, PTL DEF Spec
=============================================================================
