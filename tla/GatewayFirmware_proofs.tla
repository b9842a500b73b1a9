----------------------- MODULE GatewayFirmware_proofs -----------------------
(***************************************************************************)
(* Proofs about GatewayFirmware, for any number of relays, any bound on    *)
(* the inbox and any set of readings.                                      *)
(***************************************************************************)
EXTENDS GatewayFirmware, TLAPS

(***************************************************************************)
(* Type correctness.  The only arithmetic is the relay index, whose loops  *)
(* stop one beyond either end.                                             *)
(***************************************************************************)

\* app_main() leaves everything in its type.
LEMMA AppMainType == TypeOK /\ AppMain => TypeOK'
<1> SUFFICES ASSUME TypeOK, AppMain PROVE TypeOK'
    OBVIOUS
<1> USE DEF TypeOK, StateTypeOK, RelayTypeOK, ClientTypeOK,
            stateVars, relayVars, clientVars, linkVars, handlerVars, netVars,
            historyVars
<1>1. CASE InitNvs BY <1>1 DEF InitNvs
<1>2. CASE InitPart BY <1>2 DEF InitPart, After
<1>3. CASE InitNetwork BY <1>3 DEF InitNetwork, After
<1>4. CASE InitFails BY <1>4 DEF InitFails
<1>5. CASE CreateSensorTask BY <1>5 DEF CreateSensorTask
<1>6. CASE CreateNetworkTask BY <1>6 DEF CreateNetworkTask
<1> QED BY <1>1, <1>2, <1>3, <1>4, <1>5, <1>6 DEF AppMain

\* So do the sensor task and the network task.
LEMMA PeriodicTasksType ==
    TypeOK /\ (SensorTask \/ (NetworkTask /\ UNCHANGED mainVars)) => TypeOK'
<1> SUFFICES ASSUME TypeOK, SensorTask \/ (NetworkTask /\ UNCHANGED mainVars)
             PROVE TypeOK'
    OBVIOUS
<1> USE WattsAssumption, TasksAssumption
    DEF TypeOK, StateTypeOK, RelayTypeOK, ClientTypeOK, mainVars,
        stateVars, relayVars, clientVars, linkVars, handlerVars, netVars,
        historyVars, Take, TakeTimesOut, Give
<1>1. CASE ReadSensor BY <1>1 DEF ReadSensor
<1>2. CASE WriteReading BY <1>2 DEF WriteReading
<1>3. CASE WriteReadingLocked BY <1>3 DEF WriteReadingLocked, WritePower
<1>4. CASE TelemetryStart /\ UNCHANGED mainVars BY <1>4 DEF TelemetryStart
<1>5. CASE ReadPower /\ UNCHANGED mainVars BY <1>5 DEF ReadPower
<1>6. CASE ReadPowerLocked /\ UNCHANGED mainVars
      BY <1>6 DEF ReadPowerLocked, ReadField
<1>7. CASE SendTelemetry /\ UNCHANGED mainVars BY <1>7 DEF SendTelemetry
<1> QED BY <1>1, <1>2, <1>3, <1>4, <1>5, <1>6, <1>7 DEF SensorTask, NetworkTask

\* A relay loop keeps its index between 0 and RelayCount + 1.
LEMMA RelayStepType == RelayTypeOK /\ RelayStep => RelayTypeOK'
<1> SUFFICES ASSUME RelayTypeOK, RelayStep PROVE RelayTypeOK'
    OBVIOUS
<1> USE RelayCountAssumption DEF RelayTypeOK, Relays
<1>1. CASE ShedPin
  <2>1. pins' \in [Relays -> {0, 1}] BY <1>1 DEF ShedPin
  <2>2. relay_i' \in 0 .. RelayCount + 1 BY <1>1 DEF ShedPin
  <2> QED BY <2>1, <2>2, <1>1 DEF ShedPin
<1>2. CASE ShedReturn BY <1>2 DEF ShedReturn
<1>3. CASE RestorePin
  <2>1. pins' \in [Relays -> {0, 1}] BY <1>3 DEF RestorePin
  <2>2. relay_i' \in 0 .. RelayCount + 1 BY <1>3 DEF RestorePin
  <2> QED BY <2>1, <2>2, <1>3 DEF RestorePin
<1>4. CASE RestoreReturn BY <1>4 DEF RestoreReturn
<1> QED BY <1>1, <1>2, <1>3, <1>4 DEF RelayStep

\* A frame taken from, added to, or lost from the inbox leaves it one.
LEMMA InboxType ==
    ASSUME NEW q \in Seq(Frames), Len(q) <= MaxInbox
    PROVE  /\ q # <<>> => Tail(q) \in Seq(Frames) /\ Len(Tail(q)) <= MaxInbox
           /\ \A f \in Frames : Len(q) < MaxInbox =>
                 Append(q, f) \in Seq(Frames) /\ Len(Append(q, f)) <= MaxInbox
           /\ \A n \in 0 .. Len(q) :
                 SubSeq(q, 1, n) \in Seq(Frames) /\ Len(SubSeq(q, 1, n)) <= MaxInbox
<1> USE MaxInboxAssumption
<1>1. q # <<>> => Tail(q) \in Seq(Frames) /\ Len(Tail(q)) <= MaxInbox
      OBVIOUS
<1>2. ASSUME NEW f \in Frames, Len(q) < MaxInbox
      PROVE  Append(q, f) \in Seq(Frames) /\ Len(Append(q, f)) <= MaxInbox
      BY <1>2
<1>3. ASSUME NEW n \in 0 .. Len(q)
      PROVE  SubSeq(q, 1, n) \in Seq(Frames) /\ Len(SubSeq(q, 1, n)) <= MaxInbox
      OBVIOUS
<1> QED BY <1>1, <1>2, <1>3

\* The WebSocket client's task keeps the types.
LEMMA WebSocketTaskType ==
    TypeOK /\ WebSocketTask /\ UNCHANGED mainVars => TypeOK'
<1> SUFFICES ASSUME TypeOK, WebSocketTask, UNCHANGED mainVars PROVE TypeOK'
    OBVIOUS
<1> USE TasksAssumption
    DEF TypeOK, StateTypeOK, ClientTypeOK, mainVars, stateVars, clientVars,
        linkVars, handlerVars, netVars, historyVars, Take, TakeTimesOut, Give
<1>r. relayVars' = relayVars => RelayTypeOK'
      BY DEF RelayTypeOK, relayVars
<1>1. CASE WsConnected BY <1>1, <1>r DEF WsConnected
<1>2. CASE WsDisconnected
  <2>1. <<>> \in Seq(Frames) /\ Len(<<>>) <= MaxInbox
        BY MaxInboxAssumption
  <2>2. connected' \in BOOLEAN BY <1>2 DEF WsDisconnected
  <2>3. inbox' \in Seq(Frames) /\ Len(inbox') <= MaxInbox
        BY <1>2, <2>1 DEF WsDisconnected
  <2>4. StateTypeOK' BY <1>2 DEF WsDisconnected
  <2>5. RelayTypeOK' BY <1>2, <1>r DEF WsDisconnected
  <2>6. ClientTypeOK' BY <1>2, <2>2, <2>3 DEF WsDisconnected
  <2> QED BY <2>4, <2>5, <2>6
<1>3. CASE IgnoreFrame BY <1>3, <1>r, InboxType DEF IgnoreFrame
<1>4. CASE ParseFrame
  <2>1. inbox' \in Seq(Frames) /\ Len(inbox') <= MaxInbox
        BY <1>4, InboxType DEF ParseFrame
  <2>2. peak_active' \in BOOLEAN BY <1>4 DEF ParseFrame
  <2>3. tainted' \in BOOLEAN BY <1>4 DEF ParseFrame
  <2>4. StateTypeOK' /\ RelayTypeOK' BY <1>4, <1>r DEF ParseFrame
  <2>5. ClientTypeOK' BY <1>4, <2>1, <2>2, <2>3 DEF ParseFrame
  <2> QED BY <2>4, <2>5
<1>5. CASE GetPeakStress
  <2>1. was_active' \in BOOLEAN BY <1>5 DEF GetPeakStress
  <2>2. /\ last_cmd' \in BOOLEAN
        /\ tainted' \in BOOLEAN
        /\ clean' \in SUBSET BOOLEAN
        BY <1>5 DEF GetPeakStress, NoteTimeout
  <2>3. StateTypeOK' BY <1>5 DEF GetPeakStress
  <2>4. RelayTypeOK' BY <1>5, <1>r DEF GetPeakStress
  <2>5. ClientTypeOK' BY <1>5, <2>1, <2>2 DEF GetPeakStress
  <2> QED BY <2>3, <2>4, <2>5
<1>6. CASE GetPeakStressLocked BY <1>6, <1>r DEF GetPeakStressLocked, ReadField
<1>7. CASE StorePeakStress
  <2>1. /\ last_cmd' \in BOOLEAN
        /\ tainted' \in BOOLEAN
        /\ clean' \in SUBSET BOOLEAN
        BY <1>7 DEF StorePeakStress, NoteTimeout
  <2>2. StateTypeOK' BY <1>7 DEF StorePeakStress
  <2>3. RelayTypeOK' BY <1>7, <1>r DEF StorePeakStress
  <2>4. ClientTypeOK' BY <1>7, <2>1 DEF StorePeakStress
  <2> QED BY <2>2, <2>3, <2>4
<1>8. CASE StorePeakStressLocked
      BY <1>8, <1>r DEF StorePeakStressLocked, SetPeakStress
<1>9. CASE Decide
  <2>1. RelayTypeOK'
        BY <1>9, RelayCountAssumption
        DEF Decide, ShedLoads, RestoreLoads, RelayTypeOK, relayVars
  <2> QED BY <1>9, <2>1 DEF Decide
<1>10. CASE MoveRelays BY <1>10, RelayStepType DEF MoveRelays
<1>11. CASE HandlerReturn
  <2>1. /\ peak_active' \in BOOLEAN
        /\ was_active' \in BOOLEAN
        /\ last_cmd' \in BOOLEAN
        /\ tainted' \in BOOLEAN
        BY <1>11 DEF HandlerReturn
  <2>2. clean' \in SUBSET BOOLEAN BY <1>11 DEF HandlerReturn
  <2>3. StateTypeOK' /\ RelayTypeOK' BY <1>11, <1>r DEF HandlerReturn
  <2>4. ClientTypeOK' BY <1>11, <2>1, <2>2 DEF HandlerReturn
  <2> QED BY <2>3, <2>4
<1> QED BY <1>1, <1>2, <1>3, <1>4, <1>5, <1>6, <1>7, <1>8, <1>9, <1>10, <1>11
        DEF WebSocketTask, HandleMessage

\* The environment's steps and a reset keep the types.
LEMMA EnvironmentType ==
    /\ TypeOK /\ (FrameArrives \/ LinkLost) /\ UNCHANGED mainVars => TypeOK'
    /\ Reset => TypeOK'
<1> USE DEF TypeOK, StateTypeOK, RelayTypeOK, ClientTypeOK, mainVars
<1>1. ASSUME TypeOK, FrameArrives \/ LinkLost, UNCHANGED mainVars
      PROVE  TypeOK'
  <2>1. inbox' \in Seq(Frames) /\ Len(inbox') <= MaxInbox
        BY <1>1, InboxType DEF FrameArrives, LinkLost
  <2>2. link' \in BOOLEAN BY <1>1 DEF FrameArrives, LinkLost
  <2>3. StateTypeOK' /\ RelayTypeOK'
        BY <1>1 DEF FrameArrives, LinkLost, stateVars, relayVars
  <2>4. ClientTypeOK'
        BY <1>1, <2>1, <2>2
        DEF FrameArrives, LinkLost, handlerVars, netVars, historyVars
  <2> QED BY <1>1, <2>3, <2>4
<1>2. ASSUME Reset PROVE TypeOK'
  <2>1. inbox' \in Seq(Frames) /\ Len(inbox') <= MaxInbox
        BY <1>2, MaxInboxAssumption DEF Reset, ClientReset
  <2>2. StateTypeOK' BY <1>2, WattsAssumption DEF Reset, StateReset
  <2>3. RelayTypeOK'
    <3>1. is_shedding' \in BOOLEAN BY <1>2 DEF Reset, RelayReset
    <3> QED BY <1>2, <3>1, RelayCountAssumption DEF Reset, RelayReset
  <2>4. /\ link' \in BOOLEAN /\ connected' \in BOOLEAN
        /\ peak_active' \in BOOLEAN /\ was_active' \in BOOLEAN
        /\ last_cmd' \in BOOLEAN /\ tainted' \in BOOLEAN
        /\ clean' \in SUBSET BOOLEAN
        BY <1>2 DEF Reset, ClientReset
  <2>5. ClientTypeOK'
        BY <1>2, <2>1, <2>4, WattsAssumption DEF Reset, ClientReset
  <2> QED BY <1>2, <2>2, <2>3, <2>5, WattsAssumption DEF Reset
<1> QED BY <1>1, <1>2

\* TypeOK: every variable of the firmware keeps its type through boot, the
\* three tasks, the backend's frames, lost connections and resets.
THEOREM TypeCorrect == Spec => []TypeOK
<1>1. Init => TypeOK
  <2> SUFFICES ASSUME Init PROVE TypeOK
      OBVIOUS
  <2>1. inbox \in Seq(Frames) /\ Len(inbox) <= MaxInbox
        BY MaxInboxAssumption DEF Init, ClientInit
  <2>2. StateTypeOK BY WattsAssumption DEF Init, StateInit, StateTypeOK
  <2>3. RelayTypeOK
    <3>1. is_shedding \in BOOLEAN BY DEF Init, RelayInit
    <3> QED BY <3>1, RelayCountAssumption DEF Init, RelayInit, RelayTypeOK
  <2>4. /\ link \in BOOLEAN /\ connected \in BOOLEAN
        /\ peak_active \in BOOLEAN /\ was_active \in BOOLEAN
        /\ last_cmd \in BOOLEAN /\ tainted \in BOOLEAN
        /\ clean \in SUBSET BOOLEAN
        BY DEF Init, ClientInit
  <2>5. ClientTypeOK
        BY <2>1, <2>4, WattsAssumption DEF Init, ClientInit, ClientTypeOK
  <2> QED BY <2>2, <2>3, <2>5, WattsAssumption DEF Init, TypeOK
<1>2. TypeOK /\ [Next]_vars => TypeOK'
  <2> SUFFICES ASSUME TypeOK, [Next]_vars PROVE TypeOK'
      OBVIOUS
  <2>1. CASE AppMain BY <2>1, AppMainType
  <2>2. CASE SensorTask \/ (NetworkTask /\ UNCHANGED mainVars)
        BY <2>2, PeriodicTasksType
  <2>3. CASE WebSocketTask /\ UNCHANGED mainVars BY <2>3, WebSocketTaskType
  <2>4. CASE (FrameArrives \/ LinkLost) /\ UNCHANGED mainVars
        BY <2>4, EnvironmentType
  <2>5. CASE Reset BY <2>5, EnvironmentType
  <2>6. CASE UNCHANGED vars
        BY <2>6
        DEF vars, mainVars, stateVars, relayVars, clientVars, linkVars,
            handlerVars, netVars, historyVars,
            TypeOK, StateTypeOK, RelayTypeOK, ClientTypeOK
  <2>7. CASE Next
        BY <2>1, <2>2, <2>3, <2>4, <2>5, <2>7 DEF Next
  <2> QED BY <2>6, <2>7
<1> QED BY <1>1, <1>2, PTL DEF Spec

-----------------------------------------------------------------------------
(***************************************************************************)
(* The boot sequence.  Stages says which tasks exist and which parts are   *)
(* ready at each point of app_main(); it is what makes a task's creation a *)
(* first creation, and no relay moves before its task exists.              *)
(***************************************************************************)
Stages ==
    /\ ws_pc # "absent" => boot \in {"create_sensor", "create_network", "up"}
    /\ sensor_pc # "absent" => boot \in {"create_network", "up"}
    /\ net_pc # "absent" => boot = "up"
    /\ boot = "sensor" => "state" \in ready
    /\ boot = "relay" => {"state", "sensor"} \subseteq ready
    /\ boot \in {"network", "create_sensor", "create_network", "up"} =>
          {"state", "sensor", "relay"} \subseteq ready
    /\ ws_pc = "absent" => ~is_shedding

\* app_main() passes through its stages in order, whatever the tasks do.
THEOREM StagesInvariant == Spec => []Stages
<1>1. Init => Stages
      BY DEF Init, RelayInit, ClientInit, Stages
<1>2. Stages /\ [Next]_vars => Stages'
  <2> SUFFICES ASSUME Stages, [Next]_vars PROVE Stages'
      OBVIOUS
  <2> USE DEF Stages, mainVars, clientVars, handlerVars, netVars, relayVars
  <2>1. CASE AppMain
    <3>1. CASE InitNvs BY <3>1 DEF InitNvs
    <3>2. CASE InitPart BY <3>2 DEF InitPart, After
    <3>3. CASE InitNetwork BY <3>3 DEF InitNetwork, After
    <3>4. CASE InitFails BY <3>4 DEF InitFails
    <3>5. CASE CreateSensorTask BY <3>5 DEF CreateSensorTask
    <3>6. CASE CreateNetworkTask BY <3>6 DEF CreateNetworkTask
    <3> QED BY <2>1, <3>1, <3>2, <3>3, <3>4, <3>5, <3>6 DEF AppMain
  <2>2. CASE SensorTask
        BY <2>2 DEF SensorTask, ReadSensor, WriteReading, WriteReadingLocked
  <2>3. CASE NetworkTask /\ UNCHANGED mainVars
        BY <2>3 DEF NetworkTask, TelemetryStart, ReadPower, ReadPowerLocked,
                    SendTelemetry
  <2>4. CASE WebSocketTask /\ UNCHANGED mainVars
    <3>1. CASE WsConnected \/ WsDisconnected \/ IgnoreFrame \/ ParseFrame
          BY <2>4, <3>1 DEF WsConnected, WsDisconnected, IgnoreFrame, ParseFrame
    <3>2. CASE GetPeakStress \/ GetPeakStressLocked
          BY <2>4, <3>2 DEF GetPeakStress, GetPeakStressLocked
    <3>3. CASE StorePeakStress \/ StorePeakStressLocked
          BY <2>4, <3>3 DEF StorePeakStress, StorePeakStressLocked
    <3>4. CASE Decide
          BY <2>4, <3>4 DEF Decide, ShedLoads, RestoreLoads
    <3>5. CASE MoveRelays BY <2>4, <3>5 DEF MoveRelays
    <3>6. CASE HandlerReturn BY <2>4, <3>6 DEF HandlerReturn
    <3> QED BY <2>4, <3>1, <3>2, <3>3, <3>4, <3>5, <3>6
            DEF WebSocketTask, HandleMessage
  <2>5. CASE (FrameArrives \/ LinkLost) /\ UNCHANGED mainVars
        BY <2>5 DEF FrameArrives, LinkLost
  <2>6. CASE Reset BY <2>6 DEF Reset, RelayReset, ClientReset
  <2>7. CASE UNCHANGED vars BY <2>7 DEF vars
  <2> QED BY <2>1, <2>2, <2>3, <2>4, <2>5, <2>6, <2>7 DEF Next
<1> QED BY <1>1, <1>2, PTL DEF Spec

-----------------------------------------------------------------------------
(***************************************************************************)
(* The mutex: a take needs it free, each locked section ends in the step   *)
(* that gives it back, and app_main() creates each task once.              *)
(***************************************************************************)

\* MutexMatchesSections: in every state the mutex is held by exactly the task
\* that is inside an accessor of gateway_state.cpp, and by nobody otherwise.
THEOREM MutexDiscipline == Spec => []MutexMatchesSections
<1> USE TasksAssumption, FreeAssumption
<1>1. Init => MutexMatchesSections
      BY DEF Init, StateInit, ClientInit, MutexMatchesSections
<1>2. Stages /\ MutexMatchesSections /\ [Next]_vars => MutexMatchesSections'
  <2> SUFFICES ASSUME Stages, MutexMatchesSections, [Next]_vars
               PROVE  MutexMatchesSections'
      OBVIOUS
  <2> USE DEF MutexMatchesSections, mainVars, stateVars, clientVars, linkVars,
              handlerVars, netVars, Take, TakeTimesOut, Give
  <2>1. CASE AppMain
    <3>1. CASE InitNvs \/ InitPart \/ InitFails
          BY <3>1 DEF InitNvs, InitPart, InitFails
    <3>2. CASE InitNetwork BY <3>2 DEF InitNetwork, Stages
    <3>3. CASE CreateSensorTask BY <3>3 DEF CreateSensorTask, Stages
    <3>4. CASE CreateNetworkTask BY <3>4 DEF CreateNetworkTask, Stages
    <3> QED BY <2>1, <3>1, <3>2, <3>3, <3>4 DEF AppMain
  <2>2. CASE SensorTask
    <3>1. CASE ReadSensor BY <3>1 DEF ReadSensor
    <3>2. CASE WriteReading BY <3>2 DEF WriteReading
    <3>3. CASE WriteReadingLocked BY <3>3 DEF WriteReadingLocked, WritePower
    <3> QED BY <2>2, <3>1, <3>2, <3>3 DEF SensorTask
  <2>3. CASE NetworkTask /\ UNCHANGED mainVars
    <3>1. CASE TelemetryStart BY <2>3, <3>1 DEF TelemetryStart
    <3>2. CASE ReadPower BY <2>3, <3>2 DEF ReadPower
    <3>3. CASE ReadPowerLocked BY <2>3, <3>3 DEF ReadPowerLocked, ReadField
    <3>4. CASE SendTelemetry BY <2>3, <3>4 DEF SendTelemetry
    <3> QED BY <2>3, <3>1, <3>2, <3>3, <3>4 DEF NetworkTask
  <2>4. CASE WebSocketTask /\ UNCHANGED mainVars
    <3>1. CASE WsConnected \/ WsDisconnected \/ IgnoreFrame
          BY <2>4, <3>1 DEF WsConnected, WsDisconnected, IgnoreFrame
    <3>2. CASE ParseFrame BY <2>4, <3>2 DEF ParseFrame
    <3>3. CASE GetPeakStress BY <2>4, <3>3 DEF GetPeakStress
    <3>4. CASE GetPeakStressLocked
          BY <2>4, <3>4 DEF GetPeakStressLocked, ReadField
    <3>5. CASE StorePeakStress BY <2>4, <3>5 DEF StorePeakStress
    <3>6. CASE StorePeakStressLocked
          BY <2>4, <3>6 DEF StorePeakStressLocked, SetPeakStress
    <3>7. CASE Decide \/ MoveRelays \/ HandlerReturn
          BY <2>4, <3>7 DEF Decide, MoveRelays, HandlerReturn
    <3> QED BY <2>4, <3>1, <3>2, <3>3, <3>4, <3>5, <3>6, <3>7
            DEF WebSocketTask, HandleMessage
  <2>5. CASE (FrameArrives \/ LinkLost) /\ UNCHANGED mainVars
        BY <2>5 DEF FrameArrives, LinkLost
  <2>6. CASE Reset BY <2>6 DEF Reset, StateReset, ClientReset
  <2>7. CASE UNCHANGED vars BY <2>7 DEF vars
  <2> QED BY <2>1, <2>2, <2>3, <2>4, <2>5, <2>6, <2>7 DEF Next
<1> QED BY <1>1, <1>2, StagesInvariant, PTL DEF Spec

-----------------------------------------------------------------------------
(***************************************************************************)
(* The relays.  PriorityOrder and NeverHalfShed are not inductive: they    *)
(* forget how far a loop has got.  RelayLoops says which pins are high at  *)
(* each index of each loop, and that a loop only runs inside the call that *)
(* handle_message() makes.                                                 *)
(***************************************************************************)
PinsHighBelow(n) == \A r \in Relays : pins[r] = IF r < n THEN 1 ELSE 0

RelayLoops ==
    /\ relay_pc = "idle" =>
          PinsHighBelow(IF is_shedding THEN RelayCount + 1 ELSE 1)
    /\ relay_pc = "shed" =>
          ~is_shedding /\ relay_i \in 1 .. RelayCount + 1 /\ PinsHighBelow(relay_i)
    /\ relay_pc = "restore" =>
          is_shedding /\ relay_i \in 0 .. RelayCount /\ PinsHighBelow(relay_i + 1)
    /\ relay_pc # "idle" => ws_pc = "relays"

\* No step outside the call that moves the relays can disturb RelayLoops.
LEMMA RelayLoopsFrame ==
    ASSUME RelayLoops, relayVars' = relayVars,
           ws_pc = "relays" => ws_pc' = "relays" \/ relay_pc = "idle"
    PROVE  RelayLoops'
BY DEF RelayLoops, PinsHighBelow, relayVars, Relays

\* One GPIO write, or the end of a loop.
LEMMA RelayLoopsStep ==
    ASSUME RelayTypeOK, RelayLoops, RelayStep, ws_pc' = ws_pc
    PROVE  RelayLoops'
<1> USE RelayCountAssumption
    DEF RelayTypeOK, RelayLoops, PinsHighBelow, Relays
<1>1. CASE ShedPin BY <1>1 DEF ShedPin
<1>2. CASE ShedReturn BY <1>2 DEF ShedReturn
<1>3. CASE RestorePin BY <1>3 DEF RestorePin
<1>4. CASE RestoreReturn BY <1>4 DEF RestoreReturn
<1> QED BY <1>1, <1>2, <1>3, <1>4 DEF RelayStep

\* The loops keep their invariant, whatever runs beside them.
THEOREM RelayLoopsInvariant == Spec => []RelayLoops
<1> USE RelayCountAssumption
<1>1. Init => RelayLoops
      BY DEF Init, RelayInit, RelayLoops, PinsHighBelow, Relays
<1>2. TypeOK /\ Stages /\ RelayLoops /\ [Next]_vars => RelayLoops'
  <2> SUFFICES ASSUME TypeOK, Stages, RelayLoops, [Next]_vars
               PROVE  RelayLoops'
      OBVIOUS
  <2>1. CASE AppMain
    <3>1. relayVars' = relayVars
          BY <2>1 DEF AppMain, InitNvs, InitPart, InitNetwork, InitFails,
                      CreateSensorTask, CreateNetworkTask
    <3>2. ws_pc' = ws_pc \/ ws_pc = "absent"
          BY <2>1 DEF AppMain, InitNvs, InitPart, InitNetwork, InitFails,
                      CreateSensorTask, CreateNetworkTask, clientVars,
                      handlerVars, Stages
    <3> QED BY <3>1, <3>2, RelayLoopsFrame
  <2>2. CASE SensorTask
        BY <2>2, RelayLoopsFrame
        DEF SensorTask, ReadSensor, WriteReading, WriteReadingLocked,
            clientVars, handlerVars
  <2>3. CASE NetworkTask /\ UNCHANGED mainVars
        BY <2>3, RelayLoopsFrame
        DEF NetworkTask, TelemetryStart, ReadPower, ReadPowerLocked,
            SendTelemetry, handlerVars
  <2>4. CASE WebSocketTask /\ UNCHANGED mainVars
    <3>1. CASE MoveRelays
          BY <3>1, RelayLoopsStep DEF MoveRelays, TypeOK, clientVars, handlerVars
    <3>2. CASE Decide
          BY <3>2 DEF Decide, ShedLoads, RestoreLoads, RelayLoops,
                      PinsHighBelow, Relays, relayVars
    <3>3. CASE HandlerReturn BY <3>3, RelayLoopsFrame DEF HandlerReturn
    <3>4. CASE WsConnected \/ WsDisconnected \/ IgnoreFrame \/ ParseFrame
          BY <3>4, RelayLoopsFrame
          DEF WsConnected, WsDisconnected, IgnoreFrame, ParseFrame
    <3>5. CASE GetPeakStress \/ GetPeakStressLocked
          BY <3>5, RelayLoopsFrame DEF GetPeakStress, GetPeakStressLocked
    <3>6. CASE StorePeakStress \/ StorePeakStressLocked
          BY <3>6, RelayLoopsFrame DEF StorePeakStress, StorePeakStressLocked
    <3> QED BY <2>4, <3>1, <3>2, <3>3, <3>4, <3>5, <3>6
            DEF WebSocketTask, HandleMessage
  <2>5. CASE (FrameArrives \/ LinkLost) /\ UNCHANGED mainVars
        BY <2>5, RelayLoopsFrame DEF FrameArrives, LinkLost, handlerVars
  <2>6. CASE Reset
        BY <2>6 DEF Reset, RelayReset, RelayLoops, PinsHighBelow, Relays
  <2>7. CASE UNCHANGED vars
        BY <2>7, RelayLoopsFrame DEF vars, clientVars, handlerVars
  <2> QED BY <2>1, <2>2, <2>3, <2>4, <2>5, <2>6, <2>7 DEF Next
<1> QED BY <1>1, <1>2, TypeCorrect, StagesInvariant, PTL DEF Spec

\* PriorityOrder: at no moment, in the middle of a loop or not, is a load of
\* relay_controller.cpp disconnected while one before it is connected.
THEOREM PriorityOrderHolds == Spec => []PriorityOrder
<1>1. TypeOK /\ RelayLoops => PriorityOrder
      BY RelayCountAssumption
      DEF TypeOK, RelayTypeOK, RelayLoops, PinsHighBelow, PriorityOrder,
          Energized, Relays
<1> QED BY <1>1, TypeCorrect, RelayLoopsInvariant, PTL

\* NeverHalfShed: outside the call of handle_message() that moves the relays,
\* all loads are off or none is, and is_shedding tells which.
THEOREM NeverHalfShedHolds == Spec => []NeverHalfShed
<1>1. TypeOK /\ RelayLoops => NeverHalfShed
  <2> SUFFICES ASSUME TypeOK, RelayLoops, ws_pc # "relays"
               PROVE  \/ is_shedding /\ Energized = Relays
                      \/ ~is_shedding /\ Energized = {}
      BY DEF NeverHalfShed
  <2>1. PinsHighBelow(IF is_shedding THEN RelayCount + 1 ELSE 1)
        BY DEF RelayLoops
  <2>2. CASE is_shedding
    <3>1. \A r \in Relays : pins[r] = 1
          BY <2>1, <2>2, RelayCountAssumption DEF PinsHighBelow, Relays
    <3> QED BY <2>2, <3>1 DEF Energized
  <2>3. CASE ~is_shedding
    <3>1. \A r \in Relays : pins[r] = 0
          BY <2>1, <2>3, RelayCountAssumption DEF PinsHighBelow, Relays
    <3> QED BY <2>3, <3>1 DEF Energized
  <2> QED BY <2>2, <2>3
<1> QED BY <1>1, TypeCorrect, RelayLoopsInvariant, PTL

\* TasksOnlyUseReadyParts: no task reaches a part of the firmware whose init()
\* app_main() has not called successfully, nor are its effects seen before.
THEOREM TasksOnlyUseReadyPartsHolds == Spec => []TasksOnlyUseReadyParts
<1>1. /\ TypeOK /\ Stages /\ MutexMatchesSections /\ NeverHalfShed
      => TasksOnlyUseReadyParts
  <2> SUFFICES ASSUME TypeOK, Stages, MutexMatchesSections, NeverHalfShed
               PROVE  TasksOnlyUseReadyParts
      OBVIOUS
  <2>1. /\ ws_pc # "absent" => {"state", "relay"} \subseteq ready
        /\ sensor_pc # "absent" => {"state", "sensor"} \subseteq ready
        /\ net_pc # "absent" => "state" \in ready
        BY DEF Stages
  <2>2. mutex # Free => "state" \in ready
        BY <2>1, TasksAssumption
        DEF MutexMatchesSections, TypeOK, StateTypeOK
  <2>3. Energized # {} => "relay" \in ready
        BY <2>1 DEF Stages, NeverHalfShed
  <2> QED BY <2>1, <2>2, <2>3 DEF TasksOnlyUseReadyParts
<1> QED BY <1>1, TypeCorrect, StagesInvariant, MutexDiscipline,
           NeverHalfShedHolds, PTL

\* StaggeredRestore: only a reset reconnects two loads in one step; otherwise a
\* load comes back alone, in restore_loads(), and the last of those that are off.
THEOREM StaggeredRestoreHolds == Spec => StaggeredRestore
<1> DEFINE Staggered ==
        \A r \in Energized \ Energized' :
           /\ relay_pc = "restore"
           /\ Energized \ Energized' = {r}
           /\ \A q \in Energized : q <= r
<1>1. TypeOK /\ RelayLoops /\ [Next]_vars => boot' = "nvs" \/ Staggered
  <2> SUFFICES ASSUME TypeOK, RelayLoops, [Next]_vars
               PROVE  boot' = "nvs" \/ Staggered
      OBVIOUS
  <2>1. pins' = pins => Staggered
        BY DEF Energized
  <2>2. CASE AppMain
        BY <2>1, <2>2
        DEF AppMain, InitNvs, InitPart, InitNetwork, InitFails,
            CreateSensorTask, CreateNetworkTask, relayVars
  <2>3. CASE SensorTask
        BY <2>1, <2>3
        DEF SensorTask, ReadSensor, WriteReading, WriteReadingLocked, relayVars
  <2>4. CASE NetworkTask
        BY <2>1, <2>4
        DEF NetworkTask, TelemetryStart, ReadPower, ReadPowerLocked,
            SendTelemetry, relayVars
  <2>5. CASE WebSocketTask
    <3>1. CASE MoveRelays
      <4> USE DEF TypeOK, RelayTypeOK, RelayLoops, PinsHighBelow, Energized,
                  Relays
      <4>1. CASE ShedPin BY <4>1 DEF ShedPin
      <4>2. CASE RestorePin
        <5>1. pins' = [pins EXCEPT ![relay_i] = 0] /\ relay_i \in Relays
              BY <4>2 DEF RestorePin
        <5>2. Energized \ Energized' = {relay_i}
              BY <4>2, <5>1 DEF RestorePin
        <5>3. \A q \in Energized : q <= relay_i
              BY <4>2 DEF RestorePin
        <5> HIDE DEF Energized
        <5> QED BY <4>2, <5>2, <5>3 DEF RestorePin
      <4>3. CASE ShedReturn \/ RestoreReturn
            BY <2>1, <4>3 DEF ShedReturn, RestoreReturn
      <4> QED BY <3>1, <4>1, <4>2, <4>3 DEF MoveRelays, RelayStep
    <3>2. CASE Decide
          BY <2>1, <3>2 DEF Decide, ShedLoads, RestoreLoads, relayVars
    <3>3. CASE /\ ~MoveRelays
               /\ ~Decide
          BY <2>1, <2>5, <3>3
          DEF WebSocketTask, HandleMessage, WsConnected, WsDisconnected,
              IgnoreFrame, ParseFrame, GetPeakStress, GetPeakStressLocked,
              StorePeakStress, StorePeakStressLocked, HandlerReturn, relayVars
    <3> QED BY <3>1, <3>2, <3>3
  <2>6. CASE FrameArrives \/ LinkLost
        BY <2>1, <2>6 DEF FrameArrives, LinkLost, relayVars
  <2>7. CASE Reset BY <2>7 DEF Reset
  <2>8. CASE UNCHANGED vars BY <2>1, <2>8 DEF vars, relayVars
  <2> QED BY <2>2, <2>3, <2>4, <2>5, <2>6, <2>7, <2>8 DEF Next
<1>2. TypeOK /\ RelayLoops /\ [Next]_vars => [boot' = "nvs" \/ Staggered]_vars
      BY <1>1
<1> QED BY <1>2, TypeCorrect, RelayLoopsInvariant, PTL DEF Spec, StaggeredRestore

-----------------------------------------------------------------------------
(***************************************************************************)
(* Flag and relays.  A timeout can leave the flag and the relays apart in  *)
(* either direction.  Shed relays under a lowered flag are caught up with  *)
(* by the next clean "active" command, connected relays under a raised one *)
(* by the next clean "inactive": so each clean command excludes one way of *)
(* being apart, which is what Excludes says of a flag and the relays.      *)
(* Within a handling, the flag that the command found plays the flag's     *)
(* part until the relays have moved.                                       *)
(***************************************************************************)
Excludes(commands, flag) ==
    /\ TRUE \in commands /\ is_shedding => flag
    /\ FALSE \in commands /\ flag => is_shedding

CommandInv ==
    /\ tainted => clean = {}
    /\ ws_pc \in {"absent", "idle"} =>
          /\ ~tainted
          /\ Excludes(clean, peak_stress_active)
          /\ clean # {} => peak_stress_active = last_cmd
    /\ ws_pc \in {"get", "get_locked"} =>
          ~tainted /\ Excludes(clean, peak_stress_active)
    /\ ws_pc \in {"set", "set_locked"} /\ ~tainted =>
          /\ was_active = peak_stress_active
          /\ Excludes(clean, was_active)
    /\ ws_pc = "decide" /\ ~tainted =>
          /\ peak_stress_active = peak_active
          /\ Excludes(clean, was_active)
    /\ ws_pc = "relays" =>
          /\ ~tainted => peak_stress_active = peak_active
          /\ relay_pc = "shed" => peak_active
          /\ relay_pc = "restore" => ~peak_active
          /\ ~tainted /\ relay_pc = "idle" =>
                Excludes(clean \cup {peak_active}, peak_active)

\* Steps that touch neither the handling, nor the flag, nor the relays.
LEMMA CommandInvFrame ==
    ASSUME TypeOK, TypeOK', CommandInv,
           UNCHANGED <<handlerVars, historyVars, relayVars, peak_stress_active>>
    PROVE  CommandInv'
BY DEF CommandInv, Excludes, handlerVars, historyVars, relayVars

\* A timed-out take gives up what the clean commands had established, a clean
\* command that is handled to its end establishes its own part.
LEMMA CommandInvWebSocketTask ==
    ASSUME TypeOK, TypeOK', RelayLoops, CommandInv, WebSocketTask
    PROVE  CommandInv'
<1> USE DEF TypeOK, StateTypeOK, RelayTypeOK, ClientTypeOK, CommandInv, Excludes,
            stateVars, relayVars, clientVars, linkVars, handlerVars, historyVars,
            Take, TakeTimesOut, Give
<1>1. CASE WsConnected \/ WsDisconnected \/ IgnoreFrame
      BY <1>1 DEF WsConnected, WsDisconnected, IgnoreFrame
<1>2. CASE ParseFrame BY <1>2 DEF ParseFrame
<1>3. CASE GetPeakStress BY <1>3 DEF GetPeakStress, NoteTimeout
<1>4. CASE GetPeakStressLocked BY <1>4 DEF GetPeakStressLocked, ReadField
<1>5. CASE StorePeakStress BY <1>5 DEF StorePeakStress, NoteTimeout
<1>6. CASE StorePeakStressLocked
      BY <1>6 DEF StorePeakStressLocked, SetPeakStress
<1>7. CASE Decide
  <2>1. /\ ws_pc = "decide" /\ ws_pc' = "relays"
        /\ UNCHANGED <<tainted, clean, peak_active, was_active,
                       peak_stress_active>>
        BY <1>7 DEF Decide
  <2>i. relay_pc = "idle" BY <2>1 DEF RelayLoops
  <2>s. is_shedding' = is_shedding
        BY <1>7 DEF Decide, ShedLoads, RestoreLoads
  <2>2. CASE peak_active /\ ~was_active
    <3>1. ShedLoads BY <1>7, <2>2 DEF Decide
    <3>2. CASE is_shedding
          BY <2>1, <2>i, <2>s, <2>2, <3>1, <3>2 DEF ShedLoads
    <3>3. CASE ~is_shedding
          BY <2>1, <2>i, <2>s, <2>2, <3>1, <3>3 DEF ShedLoads
    <3> QED BY <3>2, <3>3
  <2>3. CASE ~peak_active /\ was_active
    <3>1. RestoreLoads BY <1>7, <2>3 DEF Decide
    <3>2. CASE is_shedding
          BY <2>1, <2>i, <2>s, <2>3, <3>1, <3>2 DEF RestoreLoads
    <3>3. CASE ~is_shedding
          BY <2>1, <2>i, <2>s, <2>3, <3>1, <3>3 DEF RestoreLoads
    <3> QED BY <3>2, <3>3
  <2>4. CASE peak_active = was_active
    <3>1. relay_pc' = "idle" BY <1>7, <2>i, <2>4 DEF Decide, ShedLoads, RestoreLoads
    <3> QED BY <2>1, <2>i, <2>s, <2>4, <3>1
  <2> QED BY <2>2, <2>3, <2>4
<1>8. CASE MoveRelays
      BY <1>8 DEF MoveRelays, RelayStep, ShedPin, ShedReturn, RestorePin,
                  RestoreReturn, RelayLoops
<1>9. CASE HandlerReturn
  <2>1. /\ ws_pc = "relays" /\ ws_pc' = "idle"
        /\ relay_pc = "idle" /\ relay_pc' = "idle"
        /\ tainted' = FALSE
        /\ last_cmd' = peak_active
        /\ UNCHANGED <<peak_stress_active, is_shedding>>
        BY <1>9 DEF HandlerReturn
  <2>2. CASE tainted
    <3>1. clean' = {} BY <1>9, <2>2 DEF HandlerReturn
    <3> QED BY <2>1, <3>1
  <2>3. CASE ~tainted
    <3>1. clean' = clean \cup {peak_active} BY <1>9, <2>3 DEF HandlerReturn
    <3>2. peak_stress_active = peak_active BY <2>1, <2>3
    <3>3. Excludes(clean', peak_stress_active') BY <2>1, <2>3, <3>1, <3>2
    <3> QED BY <2>1, <3>1, <3>2, <3>3
  <2> QED BY <2>2, <2>3
<1> QED BY <1>1, <1>2, <1>3, <1>4, <1>5, <1>6, <1>7, <1>8, <1>9
        DEF WebSocketTask, HandleMessage

\* FlagAndRelaysAgree: in handle_message(), flag, relays and last command agree
\* between commands until a take times out, and again from the moment both
\* commands have been handled without a timeout since the last one.
THEOREM FlagAndRelaysAgreeHolds == Spec => []FlagAndRelaysAgree
<1>1. Init => CommandInv
      BY DEF Init, StateInit, RelayInit, ClientInit, CommandInv, Excludes
<1>2. /\ TypeOK /\ TypeOK' /\ Stages /\ RelayLoops /\ CommandInv /\ [Next]_vars
      => CommandInv'
  <2> SUFFICES ASSUME TypeOK, TypeOK', Stages, RelayLoops, CommandInv, [Next]_vars
               PROVE  CommandInv'
      OBVIOUS
  <2>1. CASE AppMain
    <3>1. CASE InitNetwork
          BY <3>1
          DEF InitNetwork, Stages, CommandInv, Excludes, historyVars, stateVars,
              relayVars, TypeOK, StateTypeOK, RelayTypeOK, ClientTypeOK
    <3>2. CASE InitNvs \/ InitPart \/ InitFails
          BY <3>2, CommandInvFrame
          DEF InitNvs, InitPart, InitFails, clientVars, stateVars
    <3>3. CASE CreateSensorTask \/ CreateNetworkTask
          BY <3>3, CommandInvFrame
          DEF CreateSensorTask, CreateNetworkTask, clientVars, stateVars
    <3> QED BY <2>1, <3>1, <3>2, <3>3 DEF AppMain
  <2>2. CASE SensorTask
        BY <2>2, CommandInvFrame
        DEF SensorTask, ReadSensor, WriteReading, WriteReadingLocked,
            WritePower, Take, TakeTimesOut, clientVars, stateVars
  <2>3. CASE NetworkTask
        BY <2>3, CommandInvFrame
        DEF NetworkTask, TelemetryStart, ReadPower, ReadPowerLocked,
            SendTelemetry, ReadField, Take, TakeTimesOut, stateVars
  <2>4. CASE WebSocketTask BY <2>4, CommandInvWebSocketTask
  <2>5. CASE FrameArrives \/ LinkLost
        BY <2>5, CommandInvFrame DEF FrameArrives, LinkLost, stateVars
  <2>6. CASE Reset
        BY <2>6 DEF Reset, StateReset, RelayReset, ClientReset, CommandInv,
                    Excludes
  <2>7. CASE UNCHANGED vars
        BY <2>7, CommandInvFrame DEF vars, clientVars, stateVars
  <2> QED BY <2>1, <2>2, <2>3, <2>4, <2>5, <2>6, <2>7 DEF Next
<1>3. TypeOK /\ CommandInv => FlagAndRelaysAgree
      BY DEF TypeOK, StateTypeOK, RelayTypeOK, CommandInv, Excludes,
             FlagAndRelaysAgree
<1> QED BY <1>1, <1>2, <1>3, TypeCorrect, StagesInvariant, RelayLoopsInvariant,
           PTL DEF Spec

-----------------------------------------------------------------------------
(***************************************************************************)
(* Refinement.  Each step of the firmware is a step of the bank of loads   *)
(* or leaves it as it is.                                                  *)
(***************************************************************************)

\* A step that leaves the relays alone leaves the bank alone.
LEMMA BankStutter ==
    relayVars' = relayVars => UNCHANGED Bank!bankVars
BY DEF Bank!bankVars, relayVars, Energized

\* The decision starts a loop only at the end the bank may leave.
LEMMA BankDecide ==
    ASSUME TypeOK, RelayLoops, NeverHalfShed, Decide
    PROVE  Bank!BankNext \/ UNCHANGED Bank!bankVars
<1> USE DEF Energized, Bank!bankVars, Bank!Loads, Relays
<1>1. CASE relayVars' = relayVars BY <1>1, BankStutter
<1>2. CASE ShedLoads /\ ~is_shedding
  <2>1. Bank!StartShedding
        BY <1>2 DEF Bank!StartShedding, ShedLoads, NeverHalfShed, Decide
  <2> QED BY <2>1 DEF Bank!BankNext
<1>3. CASE RestoreLoads /\ is_shedding
  <2>1. Bank!StartRestoring
        BY <1>3 DEF Bank!StartRestoring, RestoreLoads, NeverHalfShed, Decide
  <2> QED BY <2>1 DEF Bank!BankNext
<1> QED BY <1>1, <1>2, <1>3 DEF Decide, ShedLoads, RestoreLoads, relayVars

\* Each GPIO write moves the one load that is due, each return ends a run.
LEMMA BankMove ==
    ASSUME TypeOK, RelayLoops, RelayStep
    PROVE  Bank!BankNext
<1> USE RelayCountAssumption
    DEF TypeOK, RelayTypeOK, RelayLoops, PinsHighBelow, Energized, Relays
<1>1. CASE ShedPin
  <2>1. /\ relay_i \in Relays \ Energized
        /\ \A k \in Relays : k < relay_i => k \in Energized
        /\ Energized' = Energized \cup {relay_i}
        BY <1>1 DEF ShedPin
  <2>2. relay_pc = "shed" /\ relay_pc' = relay_pc
        BY <1>1 DEF ShedPin
  <2> HIDE DEF Energized
  <2>3. Bank!ShedOne BY <2>1, <2>2 DEF Bank!ShedOne, Bank!Loads
  <2> QED BY <2>3 DEF Bank!BankNext
<1>2. CASE RestorePin
  <2>1. /\ relay_i \in Energized
        /\ \A k \in Relays : k > relay_i => k \notin Energized
        /\ Energized' = Energized \ {relay_i}
        BY <1>2 DEF RestorePin
  <2>2. relay_pc = "restore" /\ relay_pc' = relay_pc
        BY <1>2 DEF RestorePin
  <2> HIDE DEF Energized
  <2>3. Bank!RestoreOne BY <2>1, <2>2 DEF Bank!RestoreOne, Bank!Loads
  <2> QED BY <2>3 DEF Bank!BankNext
<1>3. CASE ShedReturn
  <2>1. Energized = Relays /\ Energized' = Energized BY <1>3 DEF ShedReturn
  <2>2. relay_pc = "shed" /\ relay_pc' = "idle" BY <1>3 DEF ShedReturn
  <2> HIDE DEF Energized
  <2> QED BY <2>1, <2>2 DEF Bank!BankNext, Bank!Finish, Bank!Loads
<1>4. CASE RestoreReturn
  <2>1. Energized = {} /\ Energized' = Energized BY <1>4 DEF RestoreReturn
  <2>2. relay_pc = "restore" /\ relay_pc' = "idle" BY <1>4 DEF RestoreReturn
  <2> HIDE DEF Energized
  <2> QED BY <2>1, <2>2 DEF Bank!BankNext, Bank!Finish, Bank!Loads
<1> QED BY <1>1, <1>2, <1>3, <1>4 DEF RelayStep

\* ImplementsLoadBank: the relays, driven by commands, tasks, timeouts and
\* resets, show the household nothing but behaviours of LoadBank.
THEOREM FirmwareImplementsLoadBank == Spec => ImplementsLoadBank
<1>1. Init => Bank!BankInit
      BY DEF Init, RelayInit, Bank!BankInit, Energized
<1>2. /\ TypeOK /\ RelayLoops /\ NeverHalfShed /\ [Next]_vars
      => [Bank!BankNext]_(Bank!bankVars)
  <2> SUFFICES ASSUME TypeOK, RelayLoops, NeverHalfShed, [Next]_vars
               PROVE  Bank!BankNext \/ UNCHANGED Bank!bankVars
      OBVIOUS
  <2>1. CASE AppMain
        BY <2>1, BankStutter
        DEF AppMain, InitNvs, InitPart, InitNetwork, InitFails,
            CreateSensorTask, CreateNetworkTask
  <2>2. CASE SensorTask
        BY <2>2, BankStutter
        DEF SensorTask, ReadSensor, WriteReading, WriteReadingLocked
  <2>3. CASE NetworkTask
        BY <2>3, BankStutter
        DEF NetworkTask, TelemetryStart, ReadPower, ReadPowerLocked,
            SendTelemetry
  <2>4. CASE WebSocketTask
    <3>1. CASE Decide BY <3>1, BankDecide
    <3>2. CASE MoveRelays BY <3>2, BankMove DEF MoveRelays
    <3>3. CASE ~Decide /\ ~MoveRelays
          BY <2>4, <3>3, BankStutter
          DEF WebSocketTask, HandleMessage, WsConnected, WsDisconnected,
              IgnoreFrame, ParseFrame, GetPeakStress, GetPeakStressLocked,
              StorePeakStress, StorePeakStressLocked, HandlerReturn
    <3> QED BY <3>1, <3>2, <3>3
  <2>5. CASE FrameArrives \/ LinkLost
        BY <2>5, BankStutter DEF FrameArrives, LinkLost
  <2>6. CASE Reset
        BY <2>6 DEF Reset, RelayReset, Energized, Bank!BankNext, Bank!PowerLoss
  <2>7. CASE UNCHANGED vars BY <2>7, BankStutter DEF vars
  <2> QED BY <2>1, <2>2, <2>3, <2>4, <2>5, <2>6, <2>7 DEF Next
<1> QED BY <1>1, <1>2, TypeCorrect, RelayLoopsInvariant, NeverHalfShedHolds,
           PTL DEF Spec, ImplementsLoadBank, Bank!BankSpec

=============================================================================
