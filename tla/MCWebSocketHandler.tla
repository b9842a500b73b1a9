------------------------- MODULE MCWebSocketHandler -------------------------
(* WebSocketHandler for TLC: who the devices are and what they report. *)
EXTENDS WebSocketHandler, TLC

CONSTANTS d1, d2, w1, w2

\* One gateway; two gateways of their own.
MCOneDevice == [d \in {d1} |-> "gw-1"]
MCTwoDevices == [d \in {d1, d2} |-> IF d = d1 THEN "gw-1" ELSE "gw-2"]

\* Connections are interchangeable, and so are callers, dashboards and readings.
Interchangeable ==
    Permutations(Slots) \cup Permutations(Callers) \cup Permutations(Viewers)
        \cup Permutations(Readings \ {Malformed})

\* Neither the flag and its copies nor what devices and dashboards made of their
\* frames is read by a guard, so for safety properties about entries and readings
\* states that differ in nothing else are the same.
WattsOf(st) == [id \in Ids |-> IF st[id] = None THEN None ELSE st[id].watts]
ServerView ==
    <<WattsOf(status), pc, owner, link, inbox, watts,
      [s \in Slots |-> WattsOf(snap[s])], todo, [s \in Slots |-> Len(out[s])],
      vpc, vlink, [v \in Viewers |-> Len(vout[v])], cpc, ctodo, conn,
      boundVars, hubVars, dashHubVars>>
=============================================================================
