--------------------------- MODULE GatewayFirmware ---------------------------
(***************************************************************************)
(* The gateway's program, firmware/main/main.cpp: app_main() brings up the *)
(* parts in a fixed order and creates the two tasks; the sensor task then  *)
(* measures, the network task reports, and the WebSocket client's task,    *)
(* which already runs before those two exist, executes commands.  The      *)
(* power may fail, or the chip reset, at any moment.                       *)
(***************************************************************************)
EXTENDS NetworkClient

VARIABLES
    boot,               \* the next call of app_main()
    ready,              \* the parts whose init() has succeeded
    sensor_pc,          \* control point of the sensor task
    amps                \* its local current_amps

mainVars == <<boot, ready, sensor_pc, amps>>
vars == <<mainVars, clientVars, stateVars, relayVars>>

TypeOK ==
    /\ StateTypeOK
    /\ RelayTypeOK
    /\ ClientTypeOK
    /\ boot \in {"nvs", "state", "sensor", "relay", "network", "create_sensor",
                 "create_network", "up", "halted"}
    /\ ready \in SUBSET {"state", "sensor", "relay"}
    /\ sensor_pc \in {"absent", "sample", "write", "write_locked"}
    /\ amps \in Watts

Init ==
    /\ boot = "nvs"
    /\ ready = {}
    /\ sensor_pc = "absent"
    /\ amps = 0
    /\ StateInit
    /\ RelayInit
    /\ ClientInit

-----------------------------------------------------------------------------
(* app_main().                                                             *)

\* An NVS error aborts and restarts the chip, which is a Reset here.
InitNvs ==
    /\ boot = "nvs"
    /\ boot' = "state"
    /\ UNCHANGED <<ready, sensor_pc, amps, clientVars, stateVars, relayVars>>

\* Mutant: the network comes up before the relays.
AfterRelaysLast(stage) ==
    CASE stage = "state"   -> "sensor"
      [] stage = "sensor"  -> "network"
      [] stage = "network" -> "relay"
      [] stage = "relay"   -> "create_sensor"

\* The order of the init() calls.
After(stage) ==
    CASE stage = "state"   -> "sensor"
      [] stage = "sensor"  -> "relay"
      [] stage = "relay"   -> "network"
      [] stage = "network" -> "create_sensor"

\* Mutex, converter and pins: the fields keep the values of a reset.
InitPart ==
    /\ boot \in {"state", "sensor", "relay"}
    /\ boot' = After(boot)
    /\ ready' = ready \cup {boot}
    /\ UNCHANGED <<sensor_pc, amps, clientVars, stateVars, relayVars>>

\* network_client.init() starts the WebSocket client's task.
InitNetwork ==
    /\ boot = "network"
    /\ boot' = After(boot)
    /\ ws_pc' = "idle"
    /\ UNCHANGED <<ready, sensor_pc, amps, linkVars, connected, peak_active, was_active,
                   netVars, historyVars, stateVars, relayVars>>

\* An init() that fails makes app_main() return: nothing more is started.
InitFails ==
    /\ boot \in {"state", "sensor", "relay", "network"}
    /\ boot' = "halted"
    /\ UNCHANGED <<ready, sensor_pc, amps, clientVars, stateVars, relayVars>>

\* The result of xTaskCreatePinnedToCore() is ignored: without memory for
\* the task's stack app_main() goes on without the task.
CreateSensorTask ==
    /\ boot = "create_sensor"
    /\ boot' = "create_network"
    /\ sensor_pc' \in {"sample", "absent"}
    /\ UNCHANGED <<ready, amps, clientVars, stateVars, relayVars>>

CreateNetworkTask ==
    /\ boot = "create_network"
    /\ boot' = "up"
    /\ net_pc' \in {"loop", "absent"}
    /\ UNCHANGED <<ready, sensor_pc, amps, linkVars, connected, handlerVars, power,
                   historyVars, stateVars, relayVars>>

AppMain ==
    \/ InitNvs \/ InitPart \/ InitNetwork \/ InitFails
    \/ CreateSensorTask \/ CreateNetworkTask

-----------------------------------------------------------------------------
(* Task_ReadSensors: what a reading is worth is SensorPipeline's subject.  *)

ReadSensor ==
    /\ sensor_pc = "sample"
    /\ amps' \in Watts
    /\ sensor_pc' = "write"
    /\ UNCHANGED <<boot, ready, clientVars, stateVars, relayVars>>

\* write_power(); the task ignores that the take timed out.
WriteReading ==
    /\ sensor_pc = "write"
    /\ \/ Take("sensor") /\ sensor_pc' = "write_locked" /\ UNCHANGED amps
       \/ TakeTimesOut("sensor") /\ sensor_pc' = "sample" /\ amps' = 0
    /\ UNCHANGED <<boot, ready, clientVars, relayVars>>

WriteReadingLocked ==
    /\ sensor_pc = "write_locked"
    /\ WritePower("sensor", amps)
    /\ sensor_pc' = "sample"
    /\ amps' = 0
    /\ UNCHANGED <<boot, ready, clientVars, relayVars>>

SensorTask == ReadSensor \/ WriteReading \/ WriteReadingLocked

\* Power loss, a panic, the watchdog: memory is lost and the pins go low.
Reset ==
    /\ boot' = "nvs"
    /\ ready' = {}
    /\ sensor_pc' = "absent"
    /\ amps' = 0
    /\ StateReset
    /\ RelayReset
    /\ ClientReset

-----------------------------------------------------------------------------
Next ==
    \/ AppMain
    \/ SensorTask
    \/ NetworkTask /\ UNCHANGED mainVars
    \/ WebSocketTask /\ UNCHANGED mainVars
    \/ FrameArrives /\ UNCHANGED mainVars
    \/ LinkLost /\ UNCHANGED mainVars
    \/ Reset

Spec == Init /\ [][Next]_vars

(***************************************************************************)
(* A task that can run does: FreeRTOS schedules every ready task, as those *)
(* above it block for most of the time.  Each task has fairness of its     *)
(* own, so that a property can say which tasks it needs.                   *)
(***************************************************************************)
SensorFair    == WF_vars(SensorTask)
WebSocketFair == WF_vars(HandleMessage /\ UNCHANGED mainVars)

-----------------------------------------------------------------------------
(* Safety.                                                                 *)

\* The mutex is held exactly by the task that is between its take and its
\* give, in gateway_state.cpp, whatever path the accessor takes out: so no
\* accessor ever leaves it held for good.
MutexMatchesSections ==
    /\ mutex = "sensor" <=> sensor_pc = "write_locked"
    /\ mutex = "network" <=> net_pc = "read_locked"
    /\ mutex = "websocket" <=> ws_pc \in {"get_locked", "set_locked"}

\* Loads go off and come back in priority order (relay_controller.cpp): at
\* every moment the disconnected loads are the first ones of that order, also
\* in the middle of a loop and after a reset in the middle of one.
PriorityOrder ==
    \A r \in Energized : \A q \in 1 .. r : q \in Energized

\* Between two commands the array is never left half way, and is_shedding
\* tells which end it is at: shed_loads() and restore_loads() rely on it.
NeverHalfShed ==
    ws_pc # "relays" =>
        \/ is_shedding /\ Energized = Relays
        \/ ~is_shedding /\ Energized = {}

\* handle_message() keeps flag, relays and command together as long as no
\* take times out; and once it lost them, it has them together again as soon
\* as a command of each kind, a shed and a clear, was handled without a timeout.
FlagAndRelaysAgree ==
    ws_pc = "idle" /\ clean = BOOLEAN =>
        /\ is_shedding = peak_stress_active
        /\ is_shedding = last_cmd

\* Commands reach relays that relay_controller.init() has set up and state
\* whose mutex exists: nothing runs before app_main() has got that far.
TasksOnlyUseReadyParts ==
    /\ ws_pc # "absent" => {"state", "relay"} \subseteq ready
    /\ sensor_pc # "absent" => {"state", "sensor"} \subseteq ready
    /\ net_pc # "absent" => "state" \in ready
    /\ mutex # Free => "state" \in ready
    /\ Energized # {} => "relay" \in ready

\* What FIRMWARE_LOGIC.md and gateway_state.cpp say of a timed-out query, that
\* loads stay connected: no load is off once a clear was handled.
TimeoutKeepsLoadsConnected ==
    ws_pc = "idle" /\ ~last_cmd => ~is_shedding

-----------------------------------------------------------------------------
(* Steps.                                                                  *)

\* Motors come back one at a time, last in the priority order first, and only
\* when restore_loads() runs; a reset is the one exception.
StaggeredRestore ==
    [][boot' = "nvs" \/
       \A r \in Energized \ Energized' :
          /\ relay_pc = "restore"
          /\ Energized \ Energized' = {r}
          /\ \A q \in Energized : q <= r]_vars

-----------------------------------------------------------------------------
(* Liveness.                                                               *)

\* The sampling loop never stalls on the mutex, even if the task that holds it
\* never runs again: gateway_state.cpp bounds every take for this.
SamplingNeverStalls ==
    SensorFair => []<>(sensor_pc \in {"absent", "sample"})

\* handle_message() returns to the event loop whatever the other tasks do, and
\* so do the relay loops it calls.
HandlerReturns ==
    WebSocketFair => (ws_pc \notin {"absent", "idle"} ~> ws_pc \in {"absent", "idle"})

-----------------------------------------------------------------------------
\* The relays of the running firmware implement the abstract bank of loads.
Bank == INSTANCE LoadBank WITH
            LoadCount <- RelayCount,
            off <- Energized,
            direction <- CASE relay_pc = "idle"    -> "still"
                           [] relay_pc = "shed"    -> "shedding"
                           [] relay_pc = "restore" -> "restoring"

ImplementsLoadBank == Bank!BankSpec
=============================================================================
