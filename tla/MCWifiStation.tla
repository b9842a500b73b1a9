---------------------------- MODULE MCWifiStation ----------------------------
(* WifiStation for TLC. *)
EXTENDS WifiStation
=============================================================================
