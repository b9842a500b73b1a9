--------------------------- MODULE MCGatewayBoot ---------------------------
(***************************************************************************)
(* GatewayBoot for TLC.  A gateway has a complete sheet, no sheet, or one  *)
(* with keys left out or too long; strings are as long as their buffers    *)
(* allow, one shorter or one longer.                                       *)
(***************************************************************************)
EXTENDS GatewayBoot, TLC

MCDefault ==
    [ssid |-> 10, password |-> 0, ws_host |-> 13, ws_port |-> 8080, gw_id |-> 12]

FullSheet ==
    [ssid |-> 31, password |-> 63, ws_host |-> 127, ws_port |-> 65535, gw_id |-> 31]

NoSheet == [k \in Keys |-> Missing]

MCSheets ==
    {FullSheet, NoSheet,
     "ssid" :> Missing @@ FullSheet, "ws_port" :> Missing @@ FullSheet,
     "ws_host" :> 128 @@ FullSheet, "gw_id" :> 32 @@ FullSheet,
     "ssid" :> 33 @@ "password" :> 8 @@ NoSheet,
     "ssid" :> 32 @@ "password" :> 62 @@ "ws_host" :> 159 @@ FullSheet}

MCNetworks ==
    {[ssid |-> 31, password |-> 63], [ssid |-> 10, password |-> 0]}
=============================================================================
