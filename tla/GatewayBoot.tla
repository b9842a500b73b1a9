----------------------------- MODULE GatewayBoot -----------------------------
(***************************************************************************)
(* From power-on to a running WebSocket client: app_main() (main.cpp) gets *)
(* the flash going and loads the configuration, and NetworkClient::init()  *)
(* (network_client.cpp) passes it on to the Wi-Fi station and to the       *)
(* backend's URI.  The state, the sensor and the relays come up in between *)
(* (GatewayFirmware has them one by one).                                  *)
(***************************************************************************)
EXTENDS WifiStation, NvsConfig

CONSTANTS
    Sheets,             \* what may have been written to the flash
    Networks,           \* credentials of the access point that is there
    MaxResets           \* bound: resets

ASSUME SheetsAssumption == Sheets \subseteq [Keys -> Nat \cup {Missing}]
ASSUME NetworksAssumption == Networks \subseteq [{"ssid", "password"} -> Nat]
ASSUME MaxResetsAssumption == MaxResets \in Nat

\* sdkconfig.defaults keeps to the limits of the buffers; Kconfig has none.
ASSUME DefaultsFitAssumption ==
    \A k \in {"ws_host", "ws_port", "gw_id"} : Default[k] < Capacity[k]

VARIABLES
    boot,               \* the next call of app_main() and init()
    network,            \* the access point's credentials
    sta,                \* wifi_config.sta: ssid, password
    uri,                \* what the client was given to connect to
    client,             \* the WebSocket client: none, created, started
    resets              \* counter of the bound

clientVars == <<uri, client>>
bootVars == <<boot, network, sta, clientVars, resets>>
bootAllVars == <<vars, nvsVars, bootVars>>

Credentials == {"ssid", "password"}
NoUri == [host |-> 0, port |-> 0, id |-> 0, kept |-> 0]
NoSta == [k \in Credentials |-> 0]

BootTypeOK ==
    /\ TypeOK
    /\ NvsTypeOK
    /\ boot \in {"flash", "erase", "reflash", "load", "parts", "wifi", "client",
                 "start", "up", "halted"}
    /\ network \in [Credentials -> Nat] /\ sta \in [Credentials -> Nat]
    /\ uri \in [host : Nat, port : Nat, id : Nat, kept : Nat]
    /\ client \in {"none", "created", "started"}
    /\ resets \in 0 .. MaxResets

BootInit ==
    /\ Init
    /\ NvsInit /\ nvs \in Sheets
    /\ boot = "flash" /\ network \in Networks /\ sta = NoSta
    /\ uri = NoUri /\ client = "none" /\ resets = 0

-----------------------------------------------------------------------------
(* A reset: power, brownout, or a failed ESP_ERROR_CHECK.  The flash stays. *)

Reset ==
    /\ resets < MaxResets
    /\ resets' = resets + 1
    /\ pc' = "create" /\ bits_seen' = {} /\ group' = FALSE /\ bits' = {}
    /\ registered' = {} /\ s_retry_count' = 0 /\ failures' = 0
    /\ driver' = "idle" /\ events' = <<>>
    /\ NvsReset
    /\ boot' = "flash" /\ sta' = NoSta /\ uri' = NoUri /\ client' = "none"
    /\ UNCHANGED <<losses, nvs, network>>

-----------------------------------------------------------------------------
(* app_main().                                                             *)

Go(stage) ==
    /\ boot' = stage
    /\ UNCHANGED <<vars, nvsVars, network, sta, clientVars, resets>>

\* A partition without free pages, or of another version, is erased.
FlashInit == boot = "flash" /\ (Go("load") \/ Go("erase"))

\* nvs_flash_erase(): everything that was provisioned is gone.
FlashErase ==
    /\ boot = "erase"
    /\ nvs' = [k \in Keys |-> Missing]
    /\ boot' = "reflash"
    /\ UNCHANGED <<vars, loadVars, network, sta, clientVars, resets>>

FlashReinit == boot = "reflash" /\ Go("load")

LoadConfig ==
    /\ boot = "load"
    /\ \/ load_pc = "done" /\ Go("parts")
       \/ Load /\ UNCHANGED <<vars, bootVars>>

InitParts == boot = "parts" /\ (Go("wifi") \/ Go("halted"))

-----------------------------------------------------------------------------
(* NetworkClient::init().                                                  *)

\* strlcpy(): the copy always ends with a terminator.
StrLCpy(n, size) == IF n < size THEN n ELSE size - 1

StaSize == [ssid |-> 32, password |-> 64]

\* The credentials are copied before the driver is started.
WifiRuns ==
    /\ boot = "wifi" /\ WifiInitSta
    /\ sta' = IF pc = "start" THEN [k \in Credentials |-> StrLCpy(Getter(k), StaSize[k])]
              ELSE sta
    /\ UNCHANGED <<nvsVars, boot, network, clientVars, resets>>

WifiReturns ==
    /\ boot = "wifi"
    /\ \/ pc = "true" /\ Go("client")
       \/ pc = "false" /\ Go("halted")

Digits(n) == IF n < 10 THEN 1 ELSE IF n < 100 THEN 2 ELSE IF n < 1000 THEN 3
             ELSE IF n < 10000 THEN 4 ELSE 5

UriSize == 192          \* URI_BUFFER_SIZE

\* "ws://%s:%u/ws?gateway_id=%s" into a buffer of UriSize: the id comes last
\* and loses what the buffer has no room for.
UriOf(host, port, id) ==
    LET before == 5 + host + 1 + Digits(port) + 15
    IN  [host |-> host, port |-> port, id |-> id,
         kept |-> IF before + id < UriSize THEN id
                  ELSE IF before < UriSize THEN UriSize - 1 - before ELSE 0]

ClientInit ==
    /\ boot = "client"
    /\ \/ /\ client' = "created" /\ boot' = "start"
          /\ uri' = UriOf(Getter("ws_host"), Getter("ws_port"), Getter("gw_id"))
       \/ boot' = "halted" /\ UNCHANGED clientVars
    /\ UNCHANGED <<vars, nvsVars, network, sta, resets>>

\* A client that cannot start is destroyed.
ClientStart ==
    /\ boot = "start"
    /\ \/ client' = "started" /\ boot' = "up"
       \/ client' = "none" /\ boot' = "halted"
    /\ UNCHANGED <<vars, nvsVars, network, sta, uri, resets>>

AppMain ==
    \/ FlashInit \/ FlashErase \/ FlashReinit \/ LoadConfig \/ InitParts
    \/ WifiRuns \/ WifiReturns \/ ClientInit \/ ClientStart

-----------------------------------------------------------------------------
\* The access point lets in who knows its name and its password.
Joins == sta = network

Surroundings ==
    /\ Dispatch \/ LinkLost \/ ConnectFails \/ (Joins /\ ConnectSucceeds)
    /\ UNCHANGED <<nvsVars, bootVars>>

BootNext == AppMain \/ Surroundings \/ Reset

BootSpec == BootInit /\ [][BootNext]_bootAllVars

\* FreeRTOS runs the main task.
BootFair == WF_bootAllVars(AppMain)

-----------------------------------------------------------------------------
\* app_main() comes to an end, with the client running or without, whatever the
\* flash holds, the access point does and the event loop delivers.
BootEnds == BootFair => <>[](boot \in {"up", "halted"})

\* The backend is told the whole gateway id (network_client.cpp): no
\* combination of provisioned and default values makes the URI too long for
\* its buffer, which nvs_config.hpp's buffers are not told about.
UriNamesTheGateway == client # "none" => uri.kept = uri.id

\* A gateway that is up got there with the configuration its flash holds: it
\* has joined the network under the credentials, and goes to the backend
\* under the id, that the flash gives, and nothing the boot before had read.
UpAsProvisioned ==
    boot = "up" =>
        /\ \A k \in Keys \ (unread \cup {"ssid", "password"}) :
              Fits(k, nvs[k]) =>
                  nvs[k] = CASE k = "ws_host" -> uri.host
                             [] k = "ws_port" -> uri.port
                             [] k = "gw_id"   -> uri.id
        /\ network = [k \in Credentials |-> StrLCpy(Getter(k), StaSize[k])]
        /\ client = "started"

\* What nvs_config.hpp and README.md say, that an SSID may have 32 characters:
\* the driver is started with the name that was configured.
SsidReachesTheDriver ==
    pc = "wait" /\ Getter("ssid") <= 32 => sta["ssid"] = Getter("ssid")
=============================================================================
