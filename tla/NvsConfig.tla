------------------------------ MODULE NvsConfig ------------------------------
(***************************************************************************)
(* firmware/main/core/nvs_config.cpp: the configuration a gateway runs     *)
(* with, read once per boot from two namespaces of the flash, key by key,  *)
(* with the build's default for every key that could not be read.          *)
(*                                                                         *)
(* A string is the number of its characters; two strings that differ have  *)
(* different numbers.  The port is the number it is.                       *)
(***************************************************************************)
EXTENDS Naturals, Sequences

CONSTANTS
    Missing,            \* what the flash has for a key never written
    Default             \* the CONFIG_GATEWAY_* values of the build

Keys == {"ssid", "password", "ws_host", "ws_port", "gw_id"}

ASSUME DefaultAssumption == Default \in [Keys -> Nat] /\ Missing \notin Nat

\* The order of the reads in each namespace.
KeysOf(namespace) ==
    CASE namespace = "wifi"    -> <<"ssid", "password">>
      [] namespace = "gateway" -> <<"ws_host", "ws_port", "gw_id">>

\* Mutant: the host's buffer grows beyond what the URI has room for.
WideCapacity ==
    [ssid |-> 33, password |-> 65, ws_host |-> 160, ws_port |-> 65536, gw_id |-> 32]

\* NVS_*_MAX, terminator included; a port is a uint16_t.
Capacity ==
    [ssid |-> 33, password |-> 65, ws_host |-> 128, ws_port |-> 65536, gw_id |-> 32]

Fits(k, value) == value # Missing /\ value < Capacity[k]

VARIABLES
    nvs,                \* the flash: key -> value
    load_pc,            \* "wifi", "gateway": which namespace is next
    to_read,            \* the keys not read yet of the one that is open
    len,                \* load()'s local len
    buffers,            \* the members ssid_, pass_, ws_host_, ws_port_, gw_id_
    loaded,             \* the keys whose *_loaded_ is true
    unread              \* history: the keys whose read or open failed

loadVars == <<load_pc, to_read, len, buffers, loaded, unread>>
nvsVars == <<nvs, loadVars>>

NvsTypeOK ==
    /\ nvs \in [Keys -> Nat \cup {Missing}]
    /\ load_pc \in {"wifi", "gateway", "done"}
    /\ to_read \in Seq(Keys)
    /\ len \in Nat
    /\ buffers \in [Keys -> Nat]
    /\ loaded \subseteq Keys
    /\ unread \subseteq Keys

\* The static instance, after every reset.
NvsReset ==
    /\ load_pc' = "wifi" /\ to_read' = <<>> /\ len' = 0
    /\ buffers' = [k \in Keys |-> 0]
    /\ loaded' = {} /\ unread' = {}

NvsInit ==
    /\ load_pc = "wifi" /\ to_read = <<>> /\ len = 0
    /\ buffers = [k \in Keys |-> 0]
    /\ loaded = {} /\ unread = {}

-----------------------------------------------------------------------------
(* load().                                                                 *)

NextNamespace == IF load_pc = "wifi" THEN "gateway" ELSE "done"

KeySet(namespace) == {KeysOf(namespace)[i] : i \in DOMAIN KeysOf(namespace)}

Opening == load_pc \in {"wifi", "gateway"} /\ to_read = <<>>

OpenNamespace ==
    /\ Opening
    /\ \E k \in KeySet(load_pc) : nvs[k] # Missing
    /\ to_read' = KeysOf(load_pc)
    /\ UNCHANGED <<nvs, load_pc, len, buffers, loaded, unread>>

\* ESP_ERR_NVS_NOT_FOUND for a namespace nothing was ever written to, or
\* another error: both leave all its keys at the defaults.
OpenFails ==
    /\ Opening
    /\ load_pc' = NextNamespace
    /\ len' = IF load_pc' = "done" THEN 0 ELSE len
    /\ unread' = unread \cup KeySet(load_pc)
    /\ UNCHANGED <<nvs, to_read, buffers, loaded>>

\* The last key of a namespace is followed by nvs_close(), and the last of all
\* by the return.
KeyDone(size) ==
    /\ to_read' = Tail(to_read)
    /\ load_pc' = IF Len(to_read) = 1 THEN NextNamespace ELSE load_pc
    /\ len' = IF load_pc' = "done" THEN 0 ELSE size

\* The size the string k leaves in len.
SizeOut(k, room) == IF nvs[k] = Missing THEN room ELSE nvs[k] + 1

\* Mutant: len keeps what the read before left in it.
ReadKeyKeepsLen ==
    /\ to_read # <<>>
    /\ LET k == Head(to_read)
           room == IF k = "password" THEN len ELSE Capacity[k]
       IN  /\ KeyDone(IF k = "ws_port" THEN len ELSE SizeOut(k, room))
           /\ IF nvs[k] # Missing /\ nvs[k] < room
              THEN /\ buffers' = [buffers EXCEPT ![k] = nvs[k]]
                   /\ loaded' = loaded \cup {k}
              ELSE UNCHANGED <<buffers, loaded>>
    /\ UNCHANGED <<nvs, unread>>

\* len goes in as the size of the buffer and comes out as the size of the
\* string; a key that is not there, or does not fit, changes nothing.
ReadKey ==
    /\ to_read # <<>>
    /\ LET k == Head(to_read)
       IN  /\ KeyDone(IF k = "ws_port" THEN len ELSE SizeOut(k, Capacity[k]))
           /\ IF Fits(k, nvs[k])
              THEN /\ buffers' = [buffers EXCEPT ![k] = nvs[k]]
                   /\ loaded' = loaded \cup {k}
              ELSE UNCHANGED <<buffers, loaded>>
    /\ UNCHANGED <<nvs, unread>>

\* An entry of the flash that is damaged.
ReadKeyFails ==
    /\ to_read # <<>>
    /\ LET k == Head(to_read)
       IN  /\ KeyDone(IF k = "ws_port" THEN len ELSE Capacity[k])
           /\ unread' = unread \cup {k}
    /\ UNCHANGED <<nvs, buffers, loaded>>

Load == OpenNamespace \/ OpenFails \/ ReadKey \/ ReadKeyFails

\* wifi_ssid(), wifi_pass(), ws_host(), ws_port(), gateway_id().
Getter(k) == IF k \in loaded THEN buffers[k] ELSE Default[k]

-----------------------------------------------------------------------------
\* What nvs_config.hpp promises of its two tiers, key by key: each getter gives
\* the value on the flash, and the build's default only for a key that is not
\* there, does not fit or could not be read; trouble with one key is no trouble
\* for the keys read after it.
EveryKeyOnItsOwn ==
    load_pc = "done" =>
        \A k \in Keys :
            Getter(k) = IF k \notin unread /\ Fits(k, nvs[k]) THEN nvs[k]
                        ELSE Default[k]
=============================================================================
