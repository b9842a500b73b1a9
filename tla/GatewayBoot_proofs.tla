-------------------------- MODULE GatewayBoot_proofs --------------------------
(***************************************************************************)
(* Proofs about the boot: the configuration for any contents of the flash, *)
(* and what of it reaches the driver and the backend, over any number of   *)
(* resets.                                                                 *)
(***************************************************************************)
EXTENDS GatewayBoot, WifiStation_proofs

\* How far load() is.
LoadStages ==
    /\ load_pc \in {"wifi", "gateway", "done"}
    /\ load_pc = "wifi" =>
          to_read \in {<<>>, <<"ssid", "password">>, <<"password">>}
    /\ load_pc = "gateway" =>
          to_read \in {<<>>, <<"ws_host", "ws_port", "gw_id">>,
                       <<"ws_port", "gw_id">>, <<"gw_id">>}
    /\ load_pc = "done" => to_read = <<>>

\* The keys load() is through with.
Handled ==
    CASE load_pc = "wifi" /\ to_read = <<"password">> -> {"ssid"}
      [] load_pc = "wifi" /\ to_read # <<"password">> -> {}
      [] load_pc = "gateway" /\ to_read = <<"gw_id">> ->
            {"ssid", "password", "ws_host", "ws_port"}
      [] load_pc = "gateway" /\ to_read = <<"ws_port", "gw_id">> ->
            {"ssid", "password", "ws_host"}
      [] load_pc = "gateway" /\ to_read \notin {<<"gw_id">>, <<"ws_port", "gw_id">>} ->
            {"ssid", "password"}
      [] load_pc = "done" -> Keys

\* What is loaded is what could be read of the keys handled.
LoadedOfHandled ==
    /\ loaded = {k \in Handled : k \notin unread /\ Fits(k, nvs[k])}
    /\ unread \subseteq Handled
    /\ \A k \in loaded : buffers[k] = nvs[k]

LoadTypes ==
    /\ nvs \in [Keys -> Nat \cup {Missing}]
    /\ buffers \in [Keys -> Nat]

LoadInv == LoadStages /\ LoadedOfHandled /\ LoadTypes

\* Heads and tails of the lists of keys.
LEMMA ListsOfKeys ==
    /\ Head(<<"ssid", "password">>) = "ssid"
    /\ Tail(<<"ssid", "password">>) = <<"password">>
    /\ Head(<<"password">>) = "password" /\ Tail(<<"password">>) = <<>>
    /\ Head(<<"ws_host", "ws_port", "gw_id">>) = "ws_host"
    /\ Tail(<<"ws_host", "ws_port", "gw_id">>) = <<"ws_port", "gw_id">>
    /\ Head(<<"ws_port", "gw_id">>) = "ws_port"
    /\ Tail(<<"ws_port", "gw_id">>) = <<"gw_id">>
    /\ Head(<<"gw_id">>) = "gw_id" /\ Tail(<<"gw_id">>) = <<>>
  OBVIOUS

\* The lists differ from each other.
LEMMA ListsDiffer ==
    /\ <<"ssid", "password">> # <<"password">>
    /\ <<"ws_host", "ws_port", "gw_id">> # <<"ws_port", "gw_id">>
    /\ <<"ws_host", "ws_port", "gw_id">> # <<"gw_id">>
    /\ <<"ws_port", "gw_id">> # <<"gw_id">>
    /\ <<>> # <<"password">> /\ <<>> # <<"gw_id">> /\ <<>> # <<"ws_port", "gw_id">>
    /\ <<>> # <<"ssid", "password">> /\ <<>> # <<"ws_host", "ws_port", "gw_id">>
  OBVIOUS

\* Handling the key at the head of the list makes that key, and no other,
\* handled.
LEMMA HeadIsHandled ==
    ASSUME LoadStages, to_read # <<>>, NEW size, KeyDone(size)
    PROVE  /\ LoadStages'
           /\ Head(to_read) \in Keys \ Handled
           /\ Handled' = Handled \cup {Head(to_read)}
<1> USE ListsOfKeys, ListsDiffer DEF Keys
<1>1. CASE load_pc = "wifi" /\ to_read = <<"ssid", "password">>
  <2>1. load_pc' = "wifi" /\ to_read' = <<"password">>
    BY <1>1 DEF KeyDone
  <2>2. Handled = {} /\ Handled' = {"ssid"}
    BY <1>1, <2>1 DEF Handled
  <2> QED BY <1>1, <2>1, <2>2 DEF LoadStages
<1>2. CASE load_pc = "wifi" /\ to_read = <<"password">>
  <2>1. load_pc' = "gateway" /\ to_read' = <<>>
    BY <1>2 DEF KeyDone, NextNamespace
  <2>2. Handled = {"ssid"} /\ Handled' = {"ssid", "password"}
    BY <1>2, <2>1 DEF Handled
  <2> QED BY <1>2, <2>1, <2>2 DEF LoadStages
<1>3. CASE load_pc = "gateway" /\ to_read = <<"ws_host", "ws_port", "gw_id">>
  <2>1. load_pc' = "gateway" /\ to_read' = <<"ws_port", "gw_id">>
    BY <1>3 DEF KeyDone
  <2>2. /\ Handled = {"ssid", "password"}
        /\ Handled' = {"ssid", "password", "ws_host"}
    BY <1>3, <2>1 DEF Handled
  <2> QED BY <1>3, <2>1, <2>2 DEF LoadStages
<1>4. CASE load_pc = "gateway" /\ to_read = <<"ws_port", "gw_id">>
  <2>1. load_pc' = "gateway" /\ to_read' = <<"gw_id">>
    BY <1>4 DEF KeyDone
  <2>2. /\ Handled = {"ssid", "password", "ws_host"}
        /\ Handled' = {"ssid", "password", "ws_host", "ws_port"}
    BY <1>4, <2>1 DEF Handled
  <2> QED BY <1>4, <2>1, <2>2 DEF LoadStages
<1>5. CASE load_pc = "gateway" /\ to_read = <<"gw_id">>
  <2>1. load_pc' = "done" /\ to_read' = <<>>
    BY <1>5 DEF KeyDone, NextNamespace
  <2>2. /\ Handled = {"ssid", "password", "ws_host", "ws_port"}
        /\ Handled' = Keys
    BY <1>5, <2>1 DEF Handled
  <2> QED BY <1>5, <2>1, <2>2 DEF LoadStages
<1> QED BY <1>1, <1>2, <1>3, <1>4, <1>5 DEF LoadStages

\* Opening a namespace, or failing to.
LEMMA OpenKeepsLoad ==
    ASSUME LoadInv, OpenNamespace \/ OpenFails PROVE LoadInv'
<1> USE ListsOfKeys, ListsDiffer DEF LoadInv, LoadTypes
<1>1. CASE OpenNamespace
  <2>1. /\ load_pc \in {"wifi", "gateway"} /\ load_pc' = load_pc
        /\ to_read = <<>> /\ to_read' = KeysOf(load_pc)
        /\ UNCHANGED <<nvs, buffers, loaded, unread>>
    BY <1>1 DEF OpenNamespace, Opening
  <2>2. LoadStages' /\ Handled' = Handled
    <3>1. CASE load_pc = "wifi"
      <4>1. to_read' = <<"ssid", "password">>
        BY <2>1, <3>1 DEF KeysOf
      <4> QED BY <2>1, <3>1, <4>1 DEF LoadStages, Handled
    <3>2. CASE load_pc = "gateway"
      <4>1. to_read' = <<"ws_host", "ws_port", "gw_id">>
        BY <2>1, <3>2 DEF KeysOf
      <4> QED BY <2>1, <3>2, <4>1 DEF LoadStages, Handled
    <3> QED BY <2>1, <3>1, <3>2
  <2> QED BY <2>1, <2>2 DEF LoadedOfHandled, Fits
<1>2. CASE OpenFails
  <2>1. /\ load_pc \in {"wifi", "gateway"} /\ load_pc' = NextNamespace
        /\ to_read = <<>> /\ to_read' = <<>>
        /\ unread' = unread \cup KeySet(load_pc)
        /\ UNCHANGED <<nvs, buffers, loaded>>
    BY <1>2 DEF OpenFails, Opening
  <2>2. /\ LoadStages'
        /\ Handled' = Handled \cup KeySet(load_pc)
        /\ KeySet(load_pc) \cap Handled = {}
    <3>1. CASE load_pc = "wifi"
      <4>1. KeySet(load_pc) = {"ssid", "password"}
        <5>1. KeysOf(load_pc) = <<"ssid", "password">> /\ DOMAIN KeysOf(load_pc) = {1, 2}
          BY <3>1 DEF KeysOf
        <5> QED BY <5>1 DEF KeySet
      <4>2. load_pc' = "gateway"
        BY <2>1, <3>1 DEF NextNamespace
      <4> QED BY <2>1, <3>1, <4>1, <4>2 DEF LoadStages, Handled
    <3>2. CASE load_pc = "gateway"
      <4>1. KeySet(load_pc) = {"ws_host", "ws_port", "gw_id"}
        <5>1. /\ KeysOf(load_pc) = <<"ws_host", "ws_port", "gw_id">>
              /\ DOMAIN KeysOf(load_pc) = {1, 2, 3}
          BY <3>2 DEF KeysOf
        <5> QED BY <5>1 DEF KeySet
      <4>2. load_pc' = "done"
        BY <2>1, <3>2 DEF NextNamespace
      <4> QED BY <2>1, <3>2, <4>1, <4>2 DEF LoadStages, Handled, Keys
    <3> QED BY <2>1, <3>1, <3>2
  <2> QED BY <2>1, <2>2 DEF LoadedOfHandled, Fits
<1> QED BY <1>1, <1>2

\* Reading one key.
LEMMA ReadKeepsLoad ==
    ASSUME LoadInv, ReadKey \/ ReadKeyFails PROVE LoadInv'
<1> DEFINE k == Head(to_read)
<1>1. to_read # <<>> /\ \E size : KeyDone(size)
  BY DEF ReadKey, ReadKeyFails
<1>2. /\ LoadStages' /\ k \in Keys \ Handled
      /\ Handled' = Handled \cup {k}
  BY <1>1, HeadIsHandled DEF LoadInv
<1>3. nvs' = nvs
  BY DEF ReadKey, ReadKeyFails
<1> HIDE DEF k
<1>4. CASE ReadKeyFails
  <2>1. unread' = unread \cup {k} /\ UNCHANGED <<loaded, buffers>>
    BY <1>4 DEF ReadKeyFails, k
  <2>2. LoadedOfHandled'
    BY <1>2, <1>3, <2>1 DEF LoadInv, LoadedOfHandled, Fits
  <2> QED BY <1>2, <1>3, <2>1, <2>2 DEF LoadInv, LoadTypes
<1>5. CASE ReadKey /\ Fits(k, nvs[k])
  <2>1. /\ unread' = unread /\ loaded' = loaded \cup {k}
        /\ buffers' = [buffers EXCEPT ![k] = nvs[k]]
    BY <1>5 DEF ReadKey, k
  <2>2. nvs[k] \in Nat
    BY <1>2, <1>5 DEF LoadInv, LoadTypes, Fits
  <2>3. LoadTypes'
    BY <1>3, <2>1, <2>2 DEF LoadInv, LoadTypes
  <2>4. loaded' = {q \in Handled' : q \notin unread' /\ Fits(q, nvs'[q])}
    BY <1>2, <1>3, <1>5, <2>1 DEF LoadInv, LoadedOfHandled, Fits
  <2>5. \A q \in loaded' : buffers'[q] = nvs'[q]
    <3> SUFFICES ASSUME NEW q \in loaded' PROVE buffers'[q] = nvs'[q]
      OBVIOUS
    <3>1. loaded \subseteq Keys
      <4>1. Handled \subseteq Keys
        BY DEF LoadInv, LoadStages, Handled, Keys
      <4> QED BY <4>1 DEF LoadInv, LoadedOfHandled
    <3> QED BY <1>2, <1>3, <2>1, <3>1 DEF LoadInv, LoadedOfHandled, LoadTypes
  <2> QED BY <1>2, <2>1, <2>3, <2>4, <2>5 DEF LoadInv, LoadedOfHandled
<1>6. CASE ReadKey /\ ~Fits(k, nvs[k])
  <2>1. UNCHANGED <<unread, loaded, buffers>>
    BY <1>6 DEF ReadKey, k
  <2>2. LoadedOfHandled'
    BY <1>2, <1>3, <1>6, <2>1 DEF LoadInv, LoadedOfHandled, Fits
  <2> QED BY <1>2, <1>3, <2>1, <2>2 DEF LoadInv, LoadTypes
<1> QED BY <1>4, <1>5, <1>6

\* Once load() is done, its invariant says what every getter returns.
LEMMA GettersOfLoad == LoadInv => EveryKeyOnItsOwn
<1> SUFFICES ASSUME LoadInv, load_pc = "done", NEW k \in Keys
             PROVE  Getter(k) = IF k \notin unread /\ Fits(k, nvs[k]) THEN nvs[k]
                                ELSE Default[k]
  BY DEF EveryKeyOnItsOwn
<1>1. Handled = Keys
  BY DEF LoadInv, LoadStages, Handled
<1> QED BY <1>1 DEF LoadInv, LoadedOfHandled, Getter

\* No value is longer than its buffer.
LEMMA GettersFit ==
    ASSUME LoadInv, load_pc = "done", NEW k \in {"ws_host", "ws_port", "gw_id"}
    PROVE  Getter(k) \in Nat /\ Getter(k) < Capacity[k]
<1>1. k \in Keys
  BY DEF Keys
<1>2. CASE k \notin unread /\ Fits(k, nvs[k])
  <2>1. Getter(k) = nvs[k]
    BY <1>1, <1>2, GettersOfLoad DEF EveryKeyOnItsOwn
  <2> QED BY <1>1, <1>2, <2>1 DEF Fits, LoadInv, LoadTypes
<1>3. CASE ~(k \notin unread /\ Fits(k, nvs[k]))
  <2>1. Getter(k) = Default[k]
    BY <1>1, <1>3, GettersOfLoad DEF EveryKeyOnItsOwn
  <2> QED BY <1>1, <2>1, DefaultsFitAssumption, DefaultAssumption
<1> QED BY <1>2, <1>3

\* The URI has room for the longest host, port and id together.
LEMMA UriHasRoom ==
    ASSUME NEW host \in Nat, host < 128, NEW port \in Nat, port < 65536,
           NEW id \in Nat, id < 32
    PROVE  UriOf(host, port, id).kept = UriOf(host, port, id).id
<1>1. Digits(port) \in 1 .. 5
  BY DEF Digits
<1>2. 5 + host + 1 + Digits(port) + 15 + id < 192
  BY <1>1
<1> QED BY <1>2 DEF UriOf, UriSize

-----------------------------------------------------------------------------
\* load() runs between the flash's initialization and the other parts; the
\* station is started after that; the client is made once the station is up.
StagesInOrder ==
    /\ boot \in {"flash", "erase", "reflash", "load", "parts", "wifi", "client",
                 "start", "up", "halted"}
    /\ boot \in {"flash", "erase", "reflash"} => load_pc = "wifi" /\ to_read = <<>>
    /\ boot \in {"parts", "wifi", "client", "start", "up", "halted"} => load_pc = "done"
    /\ boot \in {"flash", "erase", "reflash", "load", "parts"} => pc = "create"
    /\ boot \in {"client", "start", "up"} => pc = "true"
    /\ client = CASE boot = "start" -> "created" [] boot = "up" -> "started"
                  [] OTHER -> "none"

ConfiguredUri == UriOf(Getter("ws_host"), Getter("ws_port"), Getter("gw_id"))
ConfiguredSta == [k \in Credentials |-> StrLCpy(Getter(k), StaSize[k])]

\* The client has the URI, and the driver the credentials, of this boot's
\* configuration.
UsesItsConfig ==
    /\ boot \in {"start", "up"} => uri = ConfiguredUri
    /\ pc \in {"wait", "unregister_wifi", "unregister_ip", "delete", "true"} =>
          sta = ConfiguredSta

\* Whatever tells of a connection tells of one under these credentials.
ToldOfConnection ==
    \/ driver = "up"
    \/ events \in {<<"got_ip">>, <<"got_ip", "disconnected">>}
    \/ "connected" \in bits \cup bits_seen

ConnectedAsConfigured ==
    /\ pc \in {"create", "register", "start"} => bits_seen = {}
    /\ pc = "true" => "connected" \in bits_seen
    /\ ToldOfConnection => Joins

BootInv ==
    /\ LoadInv /\ StationInv
    /\ StagesInOrder /\ UsesItsConfig /\ ConnectedAsConfigured

\* The first boot starts from the invariant.
LEMMA InitBoot == BootInit => BootInv
<1> SUFFICES ASSUME BootInit PROVE BootInv
  OBVIOUS
<1> USE DEF BootInit
<1>1. StationInv
  BY InitStation
<1>2. LoadInv
  BY ListsDiffer, SheetsAssumption
     DEF LoadInv, LoadStages, LoadedOfHandled, LoadTypes, Handled, NvsInit
<1>3. StagesInOrder /\ UsesItsConfig /\ ConnectedAsConfigured
  BY DEF StagesInOrder, UsesItsConfig, ConnectedAsConfigured, ToldOfConnection, Init,
         NvsInit
<1> QED BY <1>1, <1>2, <1>3 DEF BootInv

\* A reset: everything but the flash starts over.
LEMMA ResetKeepsBoot == ASSUME BootInv, Reset PROVE BootInv'
<1> USE DEF Reset
<1>1. StationInv'
  BY BoundsAssumption
     DEF StationInv, QueueFollowsDriver, QuietBeforeStart, GroupCoversRegistration,
         GivesUpForGood, Bases
<1>2. LoadInv'
  BY ListsDiffer DEF BootInv, LoadInv, LoadStages, LoadedOfHandled, LoadTypes, Handled,
                     NvsReset
<1>3. StagesInOrder' /\ UsesItsConfig' /\ ConnectedAsConfigured'
  BY DEF StagesInOrder, UsesItsConfig, ConnectedAsConfigured, ToldOfConnection, NvsReset
<1> QED BY <1>1, <1>2, <1>3 DEF BootInv

\* Steps that leave the station, the driver and the configuration alone.
LEMMA SameStation ==
    ASSUME StationInv, UNCHANGED vars PROVE StationInv'
  BY StutterKeepsStation

\* A step that does not load anything keeps what was loaded.
LEMMA SameLoad == ASSUME LoadInv, UNCHANGED nvsVars PROVE LoadInv'
  BY DEF LoadInv, LoadStages, LoadedOfHandled, LoadTypes, Handled, Fits, nvsVars,
         loadVars

\* The configuration is a function of what was loaded.
LEMMA SameConfig ==
    ASSUME UNCHANGED loadVars
    PROVE  ConfiguredUri' = ConfiguredUri /\ ConfiguredSta' = ConfiguredSta
  BY DEF ConfiguredUri, ConfiguredSta, Getter, loadVars

\* The steps of app_main() that only go on to the next one.
LEMMA AppMainKeepsBoot ==
    ASSUME BootInv, FlashInit \/ FlashReinit \/ InitParts \/ WifiReturns
    PROVE  BootInv'
<1>1. PICK stage \in {"load", "erase", "wifi", "halted", "client"} : Go(stage)
  BY DEF FlashInit, FlashReinit, InitParts, WifiReturns
<1>2. UNCHANGED <<vars, nvsVars, network, sta, clientVars, resets>> /\ boot' = stage
  BY <1>1 DEF Go
<1>3. StationInv' /\ LoadInv'
  BY <1>2, SameStation, SameLoad DEF BootInv
<1>4. StagesInOrder'
  BY <1>2 DEF BootInv, StagesInOrder, FlashInit, FlashReinit, InitParts, WifiReturns,
              Go, vars, stationVars, nvsVars, loadVars, clientVars
<1>5. UsesItsConfig'
  <2>1. ConfiguredUri' = ConfiguredUri /\ ConfiguredSta' = ConfiguredSta
    BY <1>2, SameConfig DEF nvsVars
  <2> QED BY <1>2, <2>1 DEF BootInv, UsesItsConfig, vars, stationVars, clientVars
<1>6. ConnectedAsConfigured'
  BY <1>2 DEF BootInv, ConnectedAsConfigured, ToldOfConnection, Joins, vars,
              stationVars, driverVars
<1> QED BY <1>3, <1>4, <1>5, <1>6 DEF BootInv

\* nvs_flash_erase() comes before anything was loaded.
LEMMA EraseKeepsBoot == ASSUME BootInv, FlashErase PROVE BootInv'
<1> USE DEF FlashErase
<1>1. StationInv'
  BY SameStation DEF BootInv
<1>2. LoadInv'
  <2>1. /\ load_pc = "wifi" /\ to_read = <<>>
        /\ UNCHANGED <<load_pc, to_read, buffers, loaded, unread>>
    BY DEF BootInv, StagesInOrder, loadVars
  <2> QED BY <2>1, ListsDiffer DEF BootInv, LoadInv, LoadStages, LoadedOfHandled,
                                   LoadTypes, Handled
<1>3. StagesInOrder'
  BY DEF BootInv, StagesInOrder, vars, stationVars, loadVars, clientVars
<1>4. UsesItsConfig'
  BY DEF BootInv, StagesInOrder, UsesItsConfig, vars, stationVars
<1>5. ConnectedAsConfigured'
  BY DEF BootInv, ConnectedAsConfigured, ToldOfConnection, Joins, vars, stationVars,
         driverVars
<1> QED BY <1>1, <1>2, <1>3, <1>4, <1>5 DEF BootInv

\* load() comes before anything uses the configuration.
LEMMA LoadKeepsBoot == ASSUME BootInv, LoadConfig PROVE BootInv'
<1>1. CASE load_pc = "done" /\ Go("parts")
  <2>1. UNCHANGED <<vars, nvsVars, network, sta, clientVars, resets>> /\ boot' = "parts"
        /\ boot = "load"
    BY <1>1 DEF Go, LoadConfig
  <2>2. StationInv' /\ LoadInv'
    BY <2>1, SameStation, SameLoad DEF BootInv
  <2>3. StagesInOrder'
    BY <1>1, <2>1 DEF BootInv, StagesInOrder, vars, stationVars, nvsVars, loadVars,
                      clientVars
  <2>4. UsesItsConfig'
    BY <2>1, <2>3 DEF StagesInOrder, UsesItsConfig
  <2>5. ConnectedAsConfigured'
    BY <2>1 DEF BootInv, ConnectedAsConfigured, ToldOfConnection, Joins, vars,
                stationVars, driverVars
  <2> QED BY <2>2, <2>3, <2>4, <2>5 DEF BootInv
<1>2. CASE Load /\ UNCHANGED <<vars, bootVars>>
  <2>1. StationInv'
    BY <1>2, SameStation DEF BootInv
  <2>2. LoadInv'
    BY <1>2, OpenKeepsLoad, ReadKeepsLoad DEF BootInv, Load
  <2>3. boot = "load" /\ boot' = "load"
    BY <1>2 DEF LoadConfig, bootVars
  <2>4. StagesInOrder'
    BY <1>2, <2>3 DEF BootInv, StagesInOrder, vars, stationVars, bootVars, clientVars
  <2>5. UsesItsConfig'
    BY <2>3, <2>4 DEF StagesInOrder, UsesItsConfig
  <2>6. ConnectedAsConfigured'
    BY <1>2 DEF BootInv, ConnectedAsConfigured, ToldOfConnection, Joins, vars,
                stationVars, driverVars,
                bootVars
  <2> QED BY <2>1, <2>2, <2>4, <2>5, <2>6 DEF BootInv
<1> QED BY <1>1, <1>2 DEF LoadConfig

\* One step of wifi_init_sta().
LEMMA WifiKeepsBoot == ASSUME BootInv, WifiRuns PROVE BootInv'
<1>1. /\ boot = "wifi" /\ boot' = "wifi" /\ WifiInitSta
      /\ UNCHANGED <<nvsVars, network, clientVars>>
  BY DEF WifiRuns
<1>2. StationInv'
  BY <1>1, InitStaKeepsStation DEF BootInv
<1>3. LoadInv'
  BY <1>1, SameLoad DEF BootInv
<1>4. StagesInOrder'
  BY <1>1 DEF BootInv, StagesInOrder, nvsVars, loadVars, clientVars
<1>5. ConfiguredUri' = ConfiguredUri /\ ConfiguredSta' = ConfiguredSta
  BY <1>1, SameConfig DEF nvsVars
<1>6. CASE pc = "start"
  <2>1. /\ pc' = "wait" /\ sta' = ConfiguredSta
        /\ driver = "idle" /\ events = <<>> /\ bits = {} /\ bits_seen = {}
    BY <1>1, <1>6 DEF WifiRuns, WifiInitSta, CreateGroup, RegisterHandlers, StartWifi,
          Wait, UnregisterWifi, UnregisterIp, DeleteGroup, ConfiguredSta,
          BootInv, StationInv, QuietBeforeStart, ConnectedAsConfigured, ToldOfConnection
  <2>2. events' = <<"start">> /\ UNCHANGED <<driver, bits, bits_seen>>
    BY <1>1, <1>6, <2>1 DEF WifiInitSta, CreateGroup, RegisterHandlers, StartWifi, Wait,
          UnregisterWifi, UnregisterIp, DeleteGroup
  <2>3. UsesItsConfig'
    BY <1>1, <1>5, <2>1 DEF UsesItsConfig
  <2>4. ConnectedAsConfigured'
    BY <2>1, <2>2 DEF ConnectedAsConfigured, ToldOfConnection
  <2> QED BY <1>2, <1>3, <1>4, <2>3, <2>4 DEF BootInv
<1>7. CASE pc # "start"
  <2>1. sta' = sta /\ network' = network
    BY <1>1, <1>7 DEF WifiRuns
  <2>2. UsesItsConfig'
    BY <1>1, <1>5, <1>7, <2>1
       DEF BootInv, UsesItsConfig, WifiInitSta, CreateGroup, RegisterHandlers,
           StartWifi,
           Wait, UnregisterWifi, UnregisterIp, DeleteGroup
  <2>3. ConnectedAsConfigured'
    BY <1>1, <1>7, <2>1
       DEF BootInv, ConnectedAsConfigured, ToldOfConnection, Joins, WifiInitSta,
           CreateGroup,
           RegisterHandlers, StartWifi, Wait, UnregisterWifi, UnregisterIp, DeleteGroup,
           driverVars
  <2> QED BY <1>2, <1>3, <1>4, <2>2, <2>3 DEF BootInv
<1> QED BY <1>6, <1>7

\* The client is made of the configuration, and started or destroyed.
LEMMA ClientKeepsBoot == ASSUME BootInv, ClientInit \/ ClientStart PROVE BootInv'
<1>1. UNCHANGED <<vars, nvsVars, network, sta>>
  BY DEF ClientInit, ClientStart
<1>2. StationInv' /\ LoadInv'
  BY <1>1, SameStation, SameLoad DEF BootInv
<1>3. StagesInOrder'
  BY <1>1 DEF BootInv, StagesInOrder, ClientInit, ClientStart, clientVars, vars,
              stationVars, nvsVars, loadVars
<1>4. UsesItsConfig'
  <2>1. ConfiguredUri' = ConfiguredUri /\ ConfiguredSta' = ConfiguredSta
    BY <1>1, SameConfig DEF nvsVars
  <2> QED BY <1>1, <2>1 DEF BootInv, UsesItsConfig, ClientInit, ClientStart, clientVars,
                            vars, stationVars, ConfiguredUri
<1>5. ConnectedAsConfigured'
  BY <1>1 DEF BootInv, ConnectedAsConfigured, ToldOfConnection, Joins, vars,
              stationVars, driverVars
<1> QED BY <1>2, <1>3, <1>4, <1>5 DEF BootInv

\* The event loop, the driver and the access point.
LEMMA SurroundingsKeepBoot == ASSUME BootInv, Surroundings PROVE BootInv'
<1>1. UNCHANGED <<nvsVars, bootVars>> /\ pc' = pc /\ bits_seen' = bits_seen
  BY DEF Surroundings, Dispatch, LinkLost, ConnectFails, ConnectSucceeds, stationVars
<1>2. StationInv'
  BY DispatchKeepsStation, DriverKeepsStation DEF BootInv, Surroundings, Attempt
<1>3. LoadInv'
  BY <1>1, SameLoad DEF BootInv
<1>4. StagesInOrder'
  BY <1>1 DEF BootInv, StagesInOrder, nvsVars, loadVars, bootVars, clientVars
<1>5. UsesItsConfig'
  <2>1. ConfiguredUri' = ConfiguredUri /\ ConfiguredSta' = ConfiguredSta
    BY <1>1, SameConfig DEF nvsVars
  <2> QED BY <1>1, <2>1 DEF BootInv, UsesItsConfig, bootVars, clientVars
<1>6. ConnectedAsConfigured'
  <2>1. sta' = sta /\ network' = network
    BY <1>1 DEF bootVars
  <2>2. CASE ConnectSucceeds
    BY <1>1, <2>1, <2>2 DEF BootInv, ConnectedAsConfigured, ToldOfConnection, Joins,
                            Surroundings,
        ConnectSucceeds, Dispatch, LinkLost, ConnectFails, StationInv, QueueFollowsDriver
  <2>3. CASE ConnectFails
    <3>1. events' = <<"disconnected">> /\ driver' = "idle" /\ bits' = bits
      BY <2>3 DEF ConnectFails, BootInv, StationInv, QueueFollowsDriver, stationVars
    <3> QED BY <1>1, <2>1, <3>1 DEF BootInv, ConnectedAsConfigured, ToldOfConnection,
                                    Joins
  <2>4. CASE LinkLost
    <3>1. driver = "up" /\ bits' = bits
      BY <2>4 DEF LinkLost, stationVars
    <3> QED BY <1>1, <2>1, <3>1 DEF BootInv, ConnectedAsConfigured, ToldOfConnection,
                                    Joins
  <2>5. CASE Dispatch
    <3>1. CASE Joins
      BY <1>1, <2>1, <3>1 DEF BootInv, ConnectedAsConfigured, ToldOfConnection, Joins
    <3>2. CASE ~Joins
      <4>1. /\ driver # "up" /\ "connected" \notin bits \cup bits_seen
            /\ events \notin {<<"got_ip">>, <<"got_ip", "disconnected">>}
        BY <3>2 DEF BootInv, ConnectedAsConfigured, ToldOfConnection
      <4>2. events \in {<<"start">>, <<"disconnected">>}
        BY <2>5, <4>1 DEF Dispatch, BootInv, StationInv, QueueFollowsDriver
      <4>3. Head(events) # "got_ip" /\ events' = <<>>
        <5>1. CASE events = <<"start">>
          BY <2>5, <5>1 DEF Dispatch
        <5>2. CASE events = <<"disconnected">>
          BY <2>5, <5>2 DEF Dispatch
        <5> QED BY <4>2, <5>1, <5>2
      <4>4. driver' # "up" /\ "connected" \notin bits'
        BY <2>5, <4>1, <4>3 DEF Dispatch, OnStart, OnDisconnected
      <4> QED BY <1>1, <2>1, <4>1, <4>3, <4>4 DEF BootInv, ConnectedAsConfigured,
                                                  ToldOfConnection
    <3> QED BY <3>1, <3>2
  <2> QED BY <2>2, <2>3, <2>4, <2>5 DEF Surroundings
<1> QED BY <1>2, <1>3, <1>4, <1>5, <1>6 DEF BootInv

\* A stuttering step.
LEMMA StutterKeepsBoot == ASSUME BootInv, UNCHANGED bootAllVars PROVE BootInv'
<1>1. UNCHANGED <<vars, nvsVars, bootVars>>
  BY DEF bootAllVars
<1>2. StationInv' /\ LoadInv'
  BY <1>1, SameStation, SameLoad DEF BootInv
<1>3. ConfiguredUri' = ConfiguredUri /\ ConfiguredSta' = ConfiguredSta
  BY <1>1, SameConfig DEF nvsVars
<1>4. StagesInOrder' /\ UsesItsConfig'
  BY <1>1, <1>3 DEF BootInv, StagesInOrder, UsesItsConfig, vars, stationVars, nvsVars,
                    loadVars, bootVars, clientVars
<1>5. ConnectedAsConfigured'
  BY <1>1 DEF BootInv, ConnectedAsConfigured, ToldOfConnection, Joins, vars,
              stationVars, driverVars,
              bootVars
<1> QED BY <1>2, <1>4, <1>5 DEF BootInv

\* The strengthened invariant of the boot holds in every state.
THEOREM BootInvariant == BootSpec => []BootInv
<1>1. BootInv /\ [BootNext]_bootAllVars => BootInv'
  BY AppMainKeepsBoot, EraseKeepsBoot, LoadKeepsBoot, WifiKeepsBoot, ClientKeepsBoot,
     SurroundingsKeepBoot, ResetKeepsBoot, StutterKeepsBoot DEF BootNext, AppMain
<1> QED BY InitBoot, <1>1, PTL DEF BootSpec

-----------------------------------------------------------------------------
\* Each getter returns the value of its own tier, whatever the flash holds,
\* wherever reading it failed and however often the chip was reset.
THEOREM EveryKeyOnItsOwnHolds == BootSpec => []EveryKeyOnItsOwn
<1>1. BootInv => EveryKeyOnItsOwn
  BY GettersOfLoad DEF BootInv
<1> QED BY <1>1, BootInvariant, PTL

\* The backend is always told the whole gateway id.
THEOREM UriNamesTheGatewayHolds == BootSpec => []UriNamesTheGateway
<1>1. BootInv => UriNamesTheGateway
  <2> SUFFICES ASSUME BootInv, client # "none" PROVE uri.kept = uri.id
    BY DEF UriNamesTheGateway
  <2>1. boot \in {"start", "up"} /\ load_pc = "done"
    BY DEF BootInv, StagesInOrder
  <2>2. uri = UriOf(Getter("ws_host"), Getter("ws_port"), Getter("gw_id"))
    BY <2>1 DEF BootInv, UsesItsConfig, ConfiguredUri
  <2>3. /\ Getter("ws_host") \in Nat /\ Getter("ws_host") < 128
        /\ Getter("ws_port") \in Nat /\ Getter("ws_port") < 65536
        /\ Getter("gw_id") \in Nat /\ Getter("gw_id") < 32
    <3>1. \A k \in {"ws_host", "ws_port", "gw_id"} :
             Getter(k) \in Nat /\ Getter(k) < Capacity[k]
      BY <2>1, GettersFit DEF BootInv
    <3> QED BY <3>1 DEF Capacity
  <2> QED BY <2>2, <2>3, UriHasRoom
<1> QED BY <1>1, BootInvariant, PTL

\* A gateway that is up uses the network, the backend and the id that its own
\* flash gives.
THEOREM UpAsProvisionedHolds == BootSpec => []UpAsProvisioned
<1>1. BootInv => UpAsProvisioned
  <2> SUFFICES ASSUME BootInv, boot = "up" PROVE UpAsProvisioned
    BY DEF UpAsProvisioned
  <2>1. load_pc = "done" /\ client = "started" /\ pc = "true"
    BY DEF BootInv, StagesInOrder
  <2>2. sta = ConfiguredSta /\ uri = ConfiguredUri /\ Joins
    BY <2>1 DEF BootInv, UsesItsConfig, ConnectedAsConfigured, ToldOfConnection
  <2>3. /\ uri.host = Getter("ws_host") /\ uri.port = Getter("ws_port")
        /\ uri.id = Getter("gw_id")
    BY <2>2 DEF ConfiguredUri, UriOf
  <2>4. \A k \in Keys \ unread : Fits(k, nvs[k]) => Getter(k) = nvs[k]
    BY <2>1, GettersOfLoad DEF BootInv, EveryKeyOnItsOwn
  <2> QED BY <2>1, <2>2, <2>3, <2>4 DEF UpAsProvisioned, ConfiguredSta, Joins, Keys
<1> QED BY <1>1, BootInvariant, PTL

\* Resets in the middle of wifi_init_sta() do not bring the handler to a deleted
\* event group either, nor a failure before all retries.
THEOREM StationHoldsThroughBoots ==
    BootSpec => [](HandlerHasItsGroup /\ FailOnlyAfterAllRetries)
<1>1. BootInv => HandlerHasItsGroup /\ FailOnlyAfterAllRetries
  BY DEF BootInv, StationInv, GroupCoversRegistration, GivesUpForGood,
         HandlerHasItsGroup, FailOnlyAfterAllRetries
<1> QED BY <1>1, BootInvariant, PTL

-----------------------------------------------------------------------------
(* Types.                                                                  *)

ClientTypes ==
    /\ network \in [Credentials -> Nat] /\ sta \in [Credentials -> Nat]
    /\ uri \in [host : Nat, port : Nat, id : Nat, kept : Nat]
    /\ resets \in 0 .. MaxResets

\* Types at the first boot.
LEMMA InitBootTypes == BootInit => TypeOK /\ NvsTypeOK /\ ClientTypes
<1> SUFFICES ASSUME BootInit PROVE TypeOK /\ NvsTypeOK /\ ClientTypes
  OBVIOUS
<1>1. TypeOK
  <2>1. events \in Seq(Events) /\ Len(events) <= MaxEvents
    <3>1. events = <<>> /\ Len(<<>>) = 0
      BY DEF BootInit, Init
    <3> QED BY <3>1, BoundsAssumption
  <2>2. s_retry_count \in 0 .. MaxRetry /\ losses \in 0 .. MaxLosses
    BY BoundsAssumption DEF BootInit, Init
  <2> QED BY <2>1, <2>2 DEF BootInit, Init, TypeOK
<1>2. NvsTypeOK
  BY SheetsAssumption DEF BootInit, NvsInit, NvsTypeOK
<1>3. ClientTypes
  BY NetworksAssumption, MaxResetsAssumption
     DEF BootInit, ClientTypes, Credentials, NoSta, NoUri
<1> QED BY <1>1, <1>2, <1>3

\* A getter returns the length of a string, or a port.
LEMMA GettersAreNat ==
    ASSUME NvsTypeOK, NEW k \in Keys PROVE Getter(k) \in Nat
  BY DefaultAssumption DEF NvsTypeOK, Getter

\* The lists of keys that are left.
LEMMA KeysLeft ==
    /\ \A n \in {"wifi", "gateway"} : KeysOf(n) \in Seq(Keys) /\ KeySet(n) \subseteq Keys
    /\ \A q \in Seq(Keys) : q # <<>> => Head(q) \in Keys /\ Tail(q) \in Seq(Keys)
<1>1. \A n \in {"wifi", "gateway"} : KeysOf(n) \in Seq(Keys)
  <2>1. <<"ssid", "password">> \in Seq(Keys)
    BY DEF Keys
  <2>2. <<"ws_host", "ws_port", "gw_id">> \in Seq(Keys)
    BY DEF Keys
  <2>3. KeysOf("wifi") = <<"ssid", "password">>
    BY DEF KeysOf
  <2>4. KeysOf("gateway") = <<"ws_host", "ws_port", "gw_id">>
    BY DEF KeysOf
  <2> QED BY <2>1, <2>2, <2>3, <2>4
<1>2. \A n \in {"wifi", "gateway"} : KeySet(n) \subseteq Keys
  BY <1>1 DEF KeySet
<1>3. \A q \in Seq(Keys) : q # <<>> => Head(q) \in Keys /\ Tail(q) \in Seq(Keys)
  OBVIOUS
<1> QED BY <1>1, <1>2, <1>3

\* load() keeps the types.
LEMMA LoadKeepsTypes == ASSUME NvsTypeOK, Load PROVE NvsTypeOK'
<1> USE DEF NvsTypeOK, NextNamespace
<1>1. CASE OpenNamespace
  BY <1>1, KeysLeft DEF OpenNamespace, Opening
<1>2. CASE OpenFails
  BY <1>2, KeysLeft DEF OpenFails, Opening
<1>3. CASE ReadKey \/ ReadKeyFails
  <2> DEFINE k == Head(to_read)
  <2>1. k \in Keys /\ Tail(to_read) \in Seq(Keys)
    BY <1>3, KeysLeft DEF ReadKey, ReadKeyFails
  <2>2. Capacity[k] \in Nat
    BY <2>1 DEF Capacity, Keys
  <2>3. SizeOut(k, Capacity[k]) \in Nat
    BY <2>1, <2>2 DEF SizeOut
  <2>4. PICK size \in Nat : KeyDone(size)
    BY <1>3, <2>2, <2>3 DEF ReadKey, ReadKeyFails
  <2>5. to_read' \in Seq(Keys) /\ load_pc' \in {"wifi", "gateway", "done"} /\ len' \in Nat
    BY <2>1, <2>4 DEF KeyDone
  <2>6. Fits(k, nvs[k]) => nvs[k] \in Nat
    BY <2>1 DEF Fits
  <2>7. nvs' = nvs /\ buffers' \in [Keys -> Nat] /\ loaded' \subseteq Keys
        /\ unread' \subseteq Keys
    BY <1>3, <2>1, <2>6 DEF ReadKey, ReadKeyFails
  <2> QED BY <2>5, <2>7
<1> QED BY <1>1, <1>2, <1>3 DEF Load

\* strlcpy() into a buffer of at least one byte leaves a string.
LEMMA CopyIsNat ==
    ASSUME NEW n \in Nat, NEW size \in Nat \ {0} PROVE StrLCpy(n, size) \in Nat
  BY DEF StrLCpy

\* The URI is made of numbers.
LEMMA UriIsTyped ==
    ASSUME NEW host \in Nat, NEW port \in Nat, NEW id \in Nat
    PROVE  UriOf(host, port, id) \in [host : Nat, port : Nat, id : Nat, kept : Nat]
<1>1. Digits(port) \in Nat
  BY DEF Digits
<1>2. 5 + host + 1 + Digits(port) + 15 \in Nat
  BY <1>1
<1> QED BY <1>2 DEF UriOf, UriSize

\* Every step keeps the types.
LEMMA NextKeepsBootTypes ==
    ASSUME StationInv, TypeOK, NvsTypeOK, ClientTypes, [BootNext]_bootAllVars
    PROVE  TypeOK' /\ NvsTypeOK' /\ ClientTypes'
<1>0. ASSUME UNCHANGED vars PROVE TypeOK'
  BY <1>0 DEF TypeOK, vars, stationVars, driverVars
<1>1. ASSUME UNCHANGED nvsVars PROVE NvsTypeOK'
  BY <1>1 DEF NvsTypeOK, nvsVars, loadVars
<1>2. ASSUME UNCHANGED <<network, sta, uri, resets>> PROVE ClientTypes'
  BY <1>2 DEF ClientTypes
<1>3. CASE UNCHANGED bootAllVars
  BY <1>0, <1>1, <1>2, <1>3 DEF bootAllVars, bootVars, clientVars
<1>4. CASE FlashInit \/ FlashReinit \/ InitParts \/ WifiReturns
  BY <1>0, <1>1, <1>2, <1>4 DEF FlashInit, FlashReinit, InitParts, WifiReturns, Go,
                                clientVars
<1>5. CASE FlashErase
  <2>1. NvsTypeOK'
    BY <1>5 DEF FlashErase, NvsTypeOK, loadVars
  <2> QED BY <1>0, <1>2, <1>5, <2>1 DEF FlashErase, clientVars
<1>6. CASE LoadConfig
  <2>1. CASE Go("parts")
    BY <1>0, <1>1, <1>2, <2>1 DEF Go, clientVars
  <2>2. CASE Load /\ UNCHANGED <<vars, bootVars>>
    BY <1>0, <1>2, <2>2, LoadKeepsTypes DEF bootVars, clientVars
  <2> QED BY <1>6, <2>1, <2>2 DEF LoadConfig
<1>7. CASE WifiRuns
  <2>1. TypeOK'
    BY <1>7, InitStaKeepsTypes DEF WifiRuns
  <2>2. \A k \in Credentials : StrLCpy(Getter(k), StaSize[k]) \in Nat
    <3>1. \A k \in Credentials : k \in Keys /\ StaSize[k] \in Nat \ {0}
      BY DEF Credentials, Keys, StaSize
    <3> QED BY <3>1, GettersAreNat, CopyIsNat
  <2>3. ClientTypes'
    BY <1>7, <2>2 DEF WifiRuns, ClientTypes, clientVars
  <2> QED BY <1>1, <1>7, <2>1, <2>3 DEF WifiRuns
<1>8. CASE ClientInit
  <2>1. UriOf(Getter("ws_host"), Getter("ws_port"), Getter("gw_id"))
           \in [host : Nat, port : Nat, id : Nat, kept : Nat]
    <3>1. /\ Getter("ws_host") \in Nat /\ Getter("ws_port") \in Nat
          /\ Getter("gw_id") \in Nat
      BY GettersAreNat DEF Keys
    <3> QED BY <3>1, UriIsTyped
  <2>2. ClientTypes'
    BY <1>8, <2>1 DEF ClientInit, ClientTypes, clientVars
  <2> QED BY <1>0, <1>1, <1>8, <2>2 DEF ClientInit
<1>9. CASE ClientStart
  BY <1>0, <1>1, <1>2, <1>9 DEF ClientStart
<1>10. CASE Surroundings
  <2>1. (Dispatch \/ LinkLost \/ Attempt) /\ UNCHANGED <<nvsVars, bootVars>>
    BY <1>10 DEF Surroundings, Attempt
  <2> QED BY <1>1, <1>2, <2>1, DispatchKeepsTypes, DriverKeepsTypes
          DEF bootVars, clientVars
<1>11. CASE Reset
  <2>1. TypeOK'
    <3>1. events' \in Seq(Events) /\ Len(events') <= MaxEvents
      <4>1. events' = <<>> /\ Len(<<>>) = 0
        BY <1>11 DEF Reset
      <4> QED BY <4>1, BoundsAssumption
    <3>2. 0 \in 0 .. MaxRetry
      BY BoundsAssumption
    <3> QED BY <1>11, <3>1, <3>2 DEF Reset, TypeOK
  <2>2. NvsTypeOK'
    BY <1>11 DEF Reset, NvsReset, NvsTypeOK
  <2>3. ClientTypes'
    <3>1. resets' \in 0 .. MaxResets
      BY <1>11, MaxResetsAssumption DEF Reset, ClientTypes
    <3> QED BY <1>11, <3>1 DEF Reset, ClientTypes, NoSta, NoUri, Credentials
  <2> QED BY <2>1, <2>2, <2>3
<1> QED BY <1>3, <1>4, <1>5, <1>6, <1>7, <1>8, <1>9, <1>10, <1>11 DEF BootNext, AppMain

\* Every variable of a boot keeps its type, for any contents of the flash and any
\* number of resets.
THEOREM BootTypeCorrect == BootSpec => []BootTypeOK
<1>1. BootInv => StationInv
  BY DEF BootInv
<1>2. StationInv /\ (TypeOK /\ NvsTypeOK /\ ClientTypes) /\ [BootNext]_bootAllVars
         => (TypeOK /\ NvsTypeOK /\ ClientTypes)'
  BY NextKeepsBootTypes
<1>3. BootInv /\ TypeOK /\ NvsTypeOK /\ ClientTypes => BootTypeOK
  BY DEF BootInv, StagesInOrder, ClientTypes, BootTypeOK
<1> QED BY <1>1, <1>2, <1>3, InitBootTypes, BootInvariant, PTL DEF BootSpec
=============================================================================
