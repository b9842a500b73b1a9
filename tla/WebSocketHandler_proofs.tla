------------------------ MODULE WebSocketHandler_proofs ------------------------
(***************************************************************************)
(* Proofs about the gateway hub under the connection handlers, for any     *)
(* number of gateways, ids, connections, dashboards and callers.           *)
(***************************************************************************)
EXTENDS WebSocketHandler, TLAPS

PcValues == {"free", "register", "read", "store", "update", "snapshot",
             "fanout", "push", "ack", "ack_write", "unregister"}

HubType ==
    /\ clients \in [Ids -> Slots \cup {NoSlot}]
    /\ hub_readers \subseteq Callers
    /\ pc \in [Slots -> PcValues]
    /\ owner \in [Slots -> Devices \cup {None}]
    /\ cpc \in [Callers -> {"idle", "rlock", "write"}]
    /\ ctodo \in [Callers -> SUBSET Slots]
    /\ overlapped \subseteq Ids

\* A connection has an owner from the upgrade to the return of its handler.
ServedHaveOwners ==
    \A s \in Slots : IF pc[s] = "free" THEN owner[s] = None ELSE owner[s] \in Devices

\* The read lock is held exactly over the writes of a broadcast.
ReadersAreWriting ==
    /\ hub_readers = {c \in Callers : cpc[c] = "write"}
    /\ \A c \in Callers : cpc[c] # "write" => ctodo[c] = {}

\* The two parts of MapHoldsOpenConnections, with their quantifiers spelt out.
EntriesAreOpen ==
    \A id \in Ids : clients[id] # NoSlot =>
        /\ clients[id] \in Slots
        /\ pc[clients[id]] \notin {"free", "register"}
        /\ IdOf[owner[clients[id]]] = id
TargetsAreOpen ==
    \A c \in Callers : \A s \in ctodo[c] : pc[s] \notin {"free", "register"}

\* An id that never had two connections at once has one open connection at most.
OneOpenUnlessOverlapped ==
    \A s, t \in Slots :
        /\ pc[s] \notin {"free", "register"} /\ pc[t] \notin {"free", "register"}
        /\ IdOf[owner[s]] = IdOf[owner[t]] /\ IdOf[owner[s]] \notin overlapped
        => s = t

\* OnlyOverlapLosesEntries, in the same way.
OpenAreEntries ==
    \A s \in Slots :
        pc[s] \notin {"free", "register"} /\ IdOf[owner[s]] \notin overlapped =>
            clients[IdOf[owner[s]]] = s

HubInv ==
    /\ HubType
    /\ ServedHaveOwners
    /\ ReadersAreWriting
    /\ EntriesAreOpen
    /\ TargetsAreOpen
    /\ OneOpenUnlessOverlapped
    /\ OpenAreEntries

\* What the two properties of the hub say is part of the invariant.
LEMMA HubInvImplies == HubInv => MapHoldsOpenConnections /\ OnlyOverlapLosesEntries
  BY NoSlotAssumption
     DEF HubInv, HubType, EntriesAreOpen, TargetsAreOpen, OpenAreEntries,
         MapHoldsOpenConnections, OnlyOverlapLosesEntries, Open, Id

\* The invariant holds with no connection.
LEMMA InitHub == Init => HubInv
  BY NoSlotAssumption
     DEF Init, HubInit, HubInv, HubType, PcValues, ServedHaveOwners,
         ReadersAreWriting, EntriesAreOpen, TargetsAreOpen,
         OneOpenUnlessOverlapped, OpenAreEntries

-----------------------------------------------------------------------------
(* Most steps touch neither the hub nor who is served.                     *)

SameHub ==
    /\ UNCHANGED <<clients, hub_readers, owner, cpc, ctodo, overlapped>>
    /\ pc' \in [Slots -> PcValues]
    /\ \A s \in Slots : /\ pc'[s] = "free" <=> pc[s] = "free"
                        /\ pc'[s] = "register" <=> pc[s] = "register"

\* Such a step keeps the invariant.
LEMMA SameHubKeepsHub ==
    ASSUME HubInv, SameHub PROVE HubInv'
<1> USE DEF HubInv, SameHub
<1>1. HubType'
  BY DEF HubType
<1>2. ServedHaveOwners'
  BY DEF ServedHaveOwners
<1>3. ReadersAreWriting'
  BY DEF ReadersAreWriting
<1>4. EntriesAreOpen'
  BY DEF EntriesAreOpen
<1>5. TargetsAreOpen'
  BY DEF TargetsAreOpen, HubType
<1>6. OneOpenUnlessOverlapped'
  BY DEF OneOpenUnlessOverlapped
<1>7. OpenAreEntries'
  BY DEF OpenAreEntries
<1> QED BY <1>1, <1>2, <1>3, <1>4, <1>5, <1>6, <1>7

\* A handler that goes from one of its inner steps to another.
LEMMA InnerStep ==
    ASSUME HubInv, NEW s \in Slots, NEW next \in PcValues \ {"free", "register"},
           pc[s] \notin {"free", "register"},
           pc' = [pc EXCEPT ![s] = next] \/ pc' = pc,
           UNCHANGED <<clients, hub_readers, owner, cpc, ctodo, overlapped>>
    PROVE  SameHub
  BY DEF HubInv, HubType, SameHub

\* Handling a frame is such a step.
LEMMA HandleFrameKeepsHub ==
    ASSUME HubInv, NEW s \in Slots, HandleFrame(s) \/ ReadError(s) PROVE SameHub
<1> USE DEF PcValues, hubVars, callerVars, boundVars
<1>1. CASE ReadError(s)
  BY <1>1, InnerStep DEF ReadError
<1>2. CASE ReadFrame(s)
  BY <1>2, InnerStep DEF ReadFrame
<1>3. CASE BuildStatus(s)
  BY <1>3, InnerStep DEF BuildStatus
<1>4. CASE UpdateStatus(s)
  BY <1>4, InnerStep DEF UpdateStatus
<1>5. CASE GetAll(s)
  BY <1>5, InnerStep DEF GetAll
<1>6. CASE FanoutStart(s)
  BY <1>6, InnerStep DEF FanoutStart
<1>7. CASE \E v \in Viewers : Push(s, v)
  BY <1>7, InnerStep DEF Push
<1>8. CASE FanoutEnd(s)
  BY <1>8, InnerStep DEF FanoutEnd
<1>9. CASE BuildAck(s)
  BY <1>9, InnerStep DEF BuildAck
<1>10. CASE WriteAck(s)
  BY <1>10, InnerStep DEF WriteAck
<1> QED BY <1>1, <1>2, <1>3, <1>4, <1>5, <1>6, <1>7, <1>8, <1>9, <1>10
        DEF HandleFrame

\* So is one that changes nothing the invariant is about.
LEMMA QuietStep ==
    ASSUME HubInv,
           UNCHANGED <<clients, hub_readers, pc, owner, cpc, ctodo, overlapped>>
    PROVE  SameHub
  BY DEF HubInv, HubType, SameHub

\* The dashboards do not touch the gateways' hub.
LEMMA DashboardsKeepHub ==
    ASSUME HubInv, NEW v \in Viewers,
           ServeDashboard(v) \/ DashAccept(v) \/ ViewerReads(v) \/ ViewerLeaves(v)
    PROVE  SameHub
<1> USE DEF hubVars, slotVars, callerVars, boundVars
<1>1. CASE DashStart(v)
  BY <1>1, QuietStep DEF DashStart
<1>2. CASE DashSession(v)
  BY <1>2, QuietStep DEF DashSession, DashGetAll, DashFirst, DashReadError
<1>3. CASE DashEnd(v)
  BY <1>3, QuietStep DEF DashEnd
<1>4. CASE DashAccept(v)
  BY <1>4, QuietStep DEF DashAccept
<1>5. CASE ViewerReads(v) \/ ViewerLeaves(v)
  BY <1>5, QuietStep DEF ViewerReads, ViewerLeaves
<1> QED BY <1>1, <1>2, <1>3, <1>4, <1>5 DEF ServeDashboard

\* Neither do the devices at the other ends.
LEMMA DevicesKeepHub ==
    ASSUME HubInv, NEW d \in Devices,
           (\E w \in Readings : SendTelemetry(d, w)) \/ Deliver(d) \/ Cut(d)
    PROVE  SameHub
<1> USE DEF hubVars, callerVars, boundVars
<1>1. CASE \E w \in Readings : SendTelemetry(d, w)
  BY <1>1, QuietStep DEF SendTelemetry
<1>2. CASE Deliver(d)
  BY <1>2, QuietStep DEF Deliver
<1>3. CASE Cut(d)
  BY <1>3, QuietStep DEF Cut
<1> QED BY <1>1, <1>2, <1>3

-----------------------------------------------------------------------------
(* Connections that come and go.                                           *)

\* A new connection is not open before Register().
LEMMA AcceptKeepsHub ==
    ASSUME HubInv, NEW s \in Slots, NEW d \in Devices, Accept(s, d) PROVE HubInv'
<1> USE DEF HubInv, Accept, callerVars, boundVars, hubVars
<1>1. pc[s] = "free" /\ pc' = [pc EXCEPT ![s] = "register"]
      /\ owner' = [owner EXCEPT ![s] = d]
      /\ UNCHANGED <<clients, hub_readers, cpc, ctodo, overlapped>>
  OBVIOUS
<1>2. HubType'
  BY <1>1 DEF HubType, PcValues
<1>3. ServedHaveOwners'
  BY <1>1 DEF ServedHaveOwners, HubType
<1>4. ReadersAreWriting'
  BY <1>1 DEF ReadersAreWriting
<1>5. EntriesAreOpen'
  BY <1>1 DEF EntriesAreOpen, HubType
<1>6. TargetsAreOpen'
  BY <1>1 DEF TargetsAreOpen, HubType
<1>7. \A t \in Slots : pc'[t] \notin {"free", "register"} =>
          pc[t] \notin {"free", "register"} /\ owner'[t] = owner[t]
  BY <1>1 DEF HubType
<1>8. OneOpenUnlessOverlapped'
  BY <1>1, <1>7 DEF OneOpenUnlessOverlapped
<1>9. OpenAreEntries'
  BY <1>1, <1>7 DEF OpenAreEntries
<1> QED BY <1>2, <1>3, <1>4, <1>5, <1>6, <1>8, <1>9

\* Register(): the new entry is an open connection; if the id does not count as
\* overlapped after it, this connection is the only one it has.
LEMMA SessionStartKeepsHub ==
    ASSUME HubInv, NEW s \in Slots, SessionStart(s) PROVE HubInv'
<1> DEFINE id == IdOf[owner[s]]
<1>1. /\ pc[s] = "register" /\ pc' = [pc EXCEPT ![s] = "read"]
      /\ hub_readers = {} /\ clients' = [clients EXCEPT ![id] = s]
      /\ overlapped' = IF Live(id) = {s} THEN overlapped ELSE overlapped \cup {id}
      /\ UNCHANGED <<hub_readers, owner, cpc, ctodo>>
  BY DEF SessionStart, Register, Id, callerVars
<1>2. owner[s] \in Devices /\ id \in Ids
  BY <1>1, IdOfAssumption DEF HubInv, ServedHaveOwners
<1>3. clients \in [Ids -> Slots \cup {NoSlot}] /\ pc \in [Slots -> PcValues]
      /\ clients' \in [Ids -> Slots \cup {NoSlot}] /\ pc' \in [Slots -> PcValues]
  BY <1>1, <1>2 DEF HubInv, HubType, PcValues
<1>4. HubType'
  BY <1>1, <1>2, <1>3 DEF HubInv, HubType
<1>5. ServedHaveOwners'
  BY <1>1, <1>3 DEF HubInv, ServedHaveOwners
<1>6. ReadersAreWriting'
  BY <1>1 DEF HubInv, ReadersAreWriting
<1>7. EntriesAreOpen'
  <2> SUFFICES ASSUME NEW i \in Ids, clients'[i] # NoSlot
               PROVE  /\ clients'[i] \in Slots
                      /\ pc'[clients'[i]] \notin {"free", "register"}
                      /\ IdOf[owner'[clients'[i]]] = i
    BY DEF EntriesAreOpen
  <2>1. CASE i = id
    BY <1>1, <1>2, <1>3, <2>1
  <2>2. CASE i # id
    <3>1. clients'[i] = clients[i]
      BY <1>1, <1>3, <2>2
    <3> QED BY <1>1, <1>3, <3>1 DEF HubInv, EntriesAreOpen
  <2> QED BY <2>1, <2>2
<1>8. TargetsAreOpen'
  BY <1>1, <1>3, <1>4 DEF HubInv, TargetsAreOpen, HubType
\* Whoever shares the id with s is s, if the id is not overlapped now.
<1>9. ASSUME id \notin overlapped', NEW t \in Slots, pc'[t] \notin {"free", "register"},
             IdOf[owner[t]] = id
      PROVE  t = s
  <2>1. owner[t] # None
    BY <1>1, <1>3, <1>9, NoneAssumption DEF HubInv, ServedHaveOwners
  <2>2. t \in Live(id)
    BY <1>9, <2>1 DEF Live
  <2>3. Live(id) = {s}
    BY <1>1, <1>9
  <2> QED BY <2>2, <2>3
<1>10. \A i : i \notin overlapped' => i \notin overlapped
  BY <1>1
<1>11. OneOpenUnlessOverlapped'
  <2> SUFFICES ASSUME NEW t \in Slots, NEW u \in Slots,
                      pc'[t] \notin {"free", "register"},
                      pc'[u] \notin {"free", "register"},
                      IdOf[owner[t]] = IdOf[owner[u]],
                      IdOf[owner[t]] \notin overlapped'
               PROVE  t = u
    BY <1>1 DEF OneOpenUnlessOverlapped
  <2>1. CASE IdOf[owner[t]] = id
    BY <1>9, <2>1
  <2>2. CASE IdOf[owner[t]] # id
    BY <1>1, <1>3, <1>10, <2>2 DEF HubInv, OneOpenUnlessOverlapped
  <2> QED BY <2>1, <2>2
<1>12. OpenAreEntries'
  <2> SUFFICES ASSUME NEW t \in Slots, pc'[t] \notin {"free", "register"},
                      IdOf[owner[t]] \notin overlapped'
               PROVE  clients'[IdOf[owner[t]]] = t
    BY <1>1 DEF OpenAreEntries
  <2>1. CASE IdOf[owner[t]] = id
    BY <1>1, <1>2, <1>3, <1>9, <2>1
  <2>2. CASE IdOf[owner[t]] # id
    <3>1. owner[t] \in Devices
      BY <1>1, <1>3 DEF HubInv, ServedHaveOwners
    <3>2. IdOf[owner[t]] \in Ids
      BY <3>1, IdOfAssumption
    <3> QED BY <1>1, <1>3, <1>10, <2>2, <3>2 DEF HubInv, OpenAreEntries
  <2> QED BY <2>1, <2>2
<1> QED BY <1>4, <1>5, <1>6, <1>7, <1>8, <1>11, <1>12 DEF HubInv

\* Unregister() and the return: no broadcast is under way, so nothing but the
\* map can still name the connection.  If the map does not, it loses the entry of
\* another open connection, whose id is then overlapped.
LEMMA SessionEndKeepsHub ==
    ASSUME HubInv, NEW s \in Slots, SessionEnd(s) PROVE HubInv'
<1> DEFINE id == IdOf[owner[s]]
<1>1. /\ pc[s] = "unregister" /\ pc' = [pc EXCEPT ![s] = "free"]
      /\ owner' = [owner EXCEPT ![s] = None]
      /\ hub_readers = {} /\ clients' = [clients EXCEPT ![id] = NoSlot]
      /\ UNCHANGED <<hub_readers, cpc, ctodo, overlapped>>
  BY DEF SessionEnd, Unregister, Id, callerVars, boundVars
<1>2. owner[s] \in Devices /\ id \in Ids
  BY <1>1, IdOfAssumption DEF HubInv, ServedHaveOwners
<1>3. /\ clients \in [Ids -> Slots \cup {NoSlot}] /\ pc \in [Slots -> PcValues]
      /\ owner \in [Slots -> Devices \cup {None}]
      /\ clients' \in [Ids -> Slots \cup {NoSlot}] /\ pc' \in [Slots -> PcValues]
      /\ owner' \in [Slots -> Devices \cup {None}]
  BY <1>1, <1>2 DEF HubInv, HubType, PcValues
<1>4. HubType'
  BY <1>1, <1>3 DEF HubInv, HubType
<1>5. ServedHaveOwners'
  BY <1>1, <1>3 DEF HubInv, ServedHaveOwners
<1>6. ReadersAreWriting'
  BY <1>1 DEF HubInv, ReadersAreWriting
<1>7. EntriesAreOpen'
  <2> SUFFICES ASSUME NEW i \in Ids, clients'[i] # NoSlot
               PROVE  /\ clients'[i] \in Slots
                      /\ pc'[clients'[i]] \notin {"free", "register"}
                      /\ IdOf[owner'[clients'[i]]] = i
    BY DEF EntriesAreOpen
  <2>1. i # id /\ clients'[i] = clients[i]
    BY <1>1, <1>3
  <2>2. clients[i] # s
    BY <2>1 DEF HubInv, EntriesAreOpen
  <2> QED BY <1>1, <1>3, <2>1, <2>2 DEF HubInv, EntriesAreOpen
<1>8. TargetsAreOpen'
  <2>1. \A c \in Callers : ctodo[c] = {}
    BY <1>1 DEF HubInv, ReadersAreWriting
  <2> QED BY <1>1, <2>1 DEF TargetsAreOpen
<1>9. \A t \in Slots : pc'[t] \notin {"free", "register"} =>
          t # s /\ pc[t] \notin {"free", "register"} /\ owner'[t] = owner[t]
  BY <1>1, <1>3
<1>10. OneOpenUnlessOverlapped'
  BY <1>1, <1>9 DEF HubInv, OneOpenUnlessOverlapped
<1>11. OpenAreEntries'
  <2> SUFFICES ASSUME NEW t \in Slots, pc'[t] \notin {"free", "register"},
                      IdOf[owner'[t]] \notin overlapped'
               PROVE  clients'[IdOf[owner'[t]]] = t
    BY DEF OpenAreEntries
  <2>1. t # s /\ owner'[t] = owner[t] /\ pc[t] \notin {"free", "register"}
    BY <1>9
  <2>2. IdOf[owner[t]] # id
    BY <1>1, <2>1 DEF HubInv, OneOpenUnlessOverlapped
  <2>3. IdOf[owner[t]] \in Ids
    BY <2>1, IdOfAssumption DEF HubInv, ServedHaveOwners
  <2> QED BY <1>1, <1>3, <2>1, <2>2, <2>3 DEF HubInv, OpenAreEntries
<1> QED BY <1>4, <1>5, <1>6, <1>7, <1>8, <1>10, <1>11 DEF HubInv

-----------------------------------------------------------------------------
(* The callers of SetPeakStress.                                           *)

\* What the caller's steps leave alone of the invariant.
LEMMA CallerKeepsEntries ==
    ASSUME HubInv, UNCHANGED <<clients, pc, owner, overlapped>>
    PROVE  /\ ServedHaveOwners' /\ EntriesAreOpen'
           /\ OneOpenUnlessOverlapped' /\ OpenAreEntries'
  BY DEF HubInv, ServedHaveOwners, EntriesAreOpen, OneOpenUnlessOverlapped,
         OpenAreEntries

\* A broadcast goes to open connections, and holds the read lock over it.
LEMMA CallerKeepsHub ==
    ASSUME HubInv, NEW c \in Callers,
           Broadcast(c) \/ (\E active \in BOOLEAN : SetFlag(c, active))
    PROVE  HubInv'
<1>1. UNCHANGED <<clients, pc, owner, overlapped>>
  BY DEF Broadcast, BroadcastStart, BroadcastTo, BroadcastEnd, SetFlag, ReadLock,
         ReadUnlock, hubVars, slotVars, boundVars
<1>2. /\ ServedHaveOwners' /\ EntriesAreOpen'
      /\ OneOpenUnlessOverlapped' /\ OpenAreEntries'
  BY <1>1, CallerKeepsEntries
<1>3. HubType' /\ ReadersAreWriting' /\ TargetsAreOpen'
  <2>1. CASE \E active \in BOOLEAN : SetFlag(c, active)
    BY <1>1, <2>1
       DEF SetFlag, hubVars, HubInv, HubType, ReadersAreWriting, TargetsAreOpen
  <2>2. CASE BroadcastStart(c)
    <3>1. /\ cpc[c] = "rlock" /\ cpc' = [cpc EXCEPT ![c] = "write"]
          /\ hub_readers' = hub_readers \cup {c}
          /\ ctodo' = [ctodo EXCEPT ![c] = Registered]
      BY <2>2 DEF BroadcastStart, ReadLock
    <3>2. Registered \subseteq Slots
          /\ \A s \in Registered : pc[s] \notin {"free", "register"}
      BY DEF Registered, HubInv, HubType, EntriesAreOpen
    <3>3. HubType'
      BY <1>1, <3>1, <3>2 DEF HubInv, HubType
    <3>4. ReadersAreWriting'
      BY <3>1 DEF HubInv, HubType, ReadersAreWriting
    <3>5. TargetsAreOpen'
      BY <1>1, <3>1, <3>2 DEF HubInv, HubType, TargetsAreOpen
    <3> QED BY <3>3, <3>4, <3>5
  <2>3. CASE \E s \in Slots : BroadcastTo(c, s)
    <3>1. PICK s \in Slots : BroadcastTo(c, s)
      BY <2>3
    <3>2. /\ cpc[c] = "write" /\ UNCHANGED <<cpc, hub_readers>>
          /\ ctodo' = [ctodo EXCEPT ![c] = @ \ {s}]
      BY <3>1 DEF BroadcastTo, hubVars
    <3> QED BY <1>1, <3>2 DEF HubInv, HubType, ReadersAreWriting, TargetsAreOpen
  <2>4. CASE BroadcastEnd(c)
    <3>1. /\ cpc[c] = "write" /\ ctodo[c] = {} /\ cpc' = [cpc EXCEPT ![c] = "idle"]
          /\ hub_readers' = hub_readers \ {c} /\ UNCHANGED ctodo
      BY <2>4 DEF BroadcastEnd, ReadUnlock
    <3> QED BY <1>1, <3>1 DEF HubInv, HubType, ReadersAreWriting, TargetsAreOpen
  <2> QED BY <2>1, <2>2, <2>3, <2>4 DEF Broadcast
<1> QED BY <1>2, <1>3 DEF HubInv

-----------------------------------------------------------------------------
\* Every step keeps the invariant of the hub.
LEMMA NextKeepsHub == HubInv /\ [Next]_vars => HubInv'
<1> SUFFICES ASSUME HubInv, [Next]_vars PROVE HubInv'
  OBVIOUS
<1>1. CASE \E s \in Slots : ServeGateway(s) \/ \E d \in Devices : Accept(s, d)
  BY <1>1, AcceptKeepsHub, SessionStartKeepsHub, SessionEndKeepsHub,
     HandleFrameKeepsHub, SameHubKeepsHub DEF ServeGateway
<1>2. CASE \E c \in Callers : Broadcast(c) \/ \E active \in BOOLEAN : SetFlag(c, active)
  BY <1>2, CallerKeepsHub
<1>3. CASE \E v \in Viewers :
              ServeDashboard(v) \/ DashAccept(v) \/ ViewerReads(v) \/ ViewerLeaves(v)
  BY <1>3, DashboardsKeepHub, SameHubKeepsHub
<1>4. CASE \E d \in Devices :
              (\E w \in Readings : SendTelemetry(d, w)) \/ Deliver(d) \/ Cut(d)
  BY <1>4, DevicesKeepHub, SameHubKeepsHub
<1>5. CASE UNCHANGED vars
  BY <1>5, QuietStep, SameHubKeepsHub
     DEF vars, hubVars, slotVars, callerVars, boundVars
<1> QED BY <1>1, <1>2, <1>3, <1>4, <1>5 DEF Next

\* The invariant of the hub holds in every state.
THEOREM HubInvariant == Spec => []HubInv
  BY InitHub, NextKeepsHub, PTL DEF Spec

\* No broadcast writes to a connection whose handler has returned, and the map
\* names open connections only, under their ids.
THEOREM MapHoldsOpenConnectionsHolds == Spec => []MapHoldsOpenConnections
  BY HubInvariant, HubInvImplies, PTL

\* A gateway whose id never had two connections at once is in the map whenever
\* its handler is past Register().
THEOREM OnlyOverlapLosesEntriesHolds == Spec => []OnlyOverlapLosesEntries
  BY HubInvariant, HubInvImplies, PTL

-----------------------------------------------------------------------------
(* The data the connections carry.                                         *)

StoreTypes ==
    /\ peakStress \in BOOLEAN
    /\ status \in Statuses
SlotTypes ==
    /\ link \in [Slots -> BOOLEAN]
    /\ inbox \in [Slots -> Readings \cup {None}]
    /\ watts \in [Slots -> (Readings \ {Malformed}) \cup {None}]
    /\ seen \in [Slots -> BOOLEAN]
    /\ snap \in [Slots -> Statuses]
    /\ todo \in [Slots -> SUBSET Viewers]
ViewerTypes ==
    /\ dash_clients \subseteq Viewers
    /\ dash_readers \subseteq Slots
    /\ vpc \in [Viewers -> {"off", "register", "snapshot", "first", "open",
                            "unregister"}]
    /\ vlink \in [Viewers -> BOOLEAN]
    /\ vsnap \in [Viewers -> Statuses]
    /\ shown \in [Viewers -> Statuses]
QueueTypes ==
    /\ out \in [Slots -> Seq(Frames)]
    /\ \A s \in Slots : Len(out[s]) <= Window
    /\ vout \in [Viewers -> Seq(Statuses)]
    /\ \A v \in Viewers : Len(vout[v]) <= Window
CallerTypes ==
    /\ arg \in [Callers -> BOOLEAN]
    /\ conn \in [Devices -> Slots \cup {NoSlot}]
    /\ applied \in [Devices -> BOOLEAN]
    /\ calls \in 0 .. MaxCalls
    /\ cuts \in 0 .. MaxCuts

\* A handler at work on a frame has its reading.
ReadingThere ==
    \A s \in Slots :
        pc[s] \in {"store", "update", "snapshot", "fanout", "push"} =>
            watts[s] \in Readings \ {Malformed}

\* What BoundsAssumption says of a queue that has room, or is not empty.
LEMMA QueueStep ==
    ASSUME NEW T, NEW q \in Seq(T), Len(q) <= Window
    PROVE  /\ \A x \in T : Len(q) < Window =>
                  Append(q, x) \in Seq(T) /\ Len(Append(q, x)) <= Window
           /\ q # <<>> => Head(q) \in T /\ Tail(q) \in Seq(T) /\ Len(Tail(q)) <= Window
           /\ <<>> \in Seq(T) /\ Len(<<>>) <= Window
<1>1. Window \in Nat \ {0} /\ Len(q) \in Nat
  BY BoundsAssumption
<1>2. ASSUME NEW x \in T, Len(q) < Window
      PROVE  Append(q, x) \in Seq(T) /\ Len(Append(q, x)) <= Window
  BY <1>1, <1>2
<1>3. ASSUME q # <<>>
      PROVE  Head(q) \in T /\ Tail(q) \in Seq(T) /\ Len(Tail(q)) <= Window
  BY <1>1, <1>3
<1>4. <<>> \in Seq(T) /\ Len(<<>>) <= Window
  BY <1>1
<1> QED BY <1>2, <1>3, <1>4

DataInv ==
    /\ StoreTypes
    /\ SlotTypes
    /\ ViewerTypes
    /\ QueueTypes
    /\ CallerTypes
    /\ ReadingThere

\* Types with no connection.
LEMMA InitData == Init => DataInv
<1> SUFFICES ASSUME Init PROVE DataInv
  OBVIOUS
<1>1. NoStatuses \in Statuses
  BY DEF NoStatuses, Statuses
<1>2. <<>> \in Seq(Frames) /\ <<>> \in Seq(Statuses) /\ Len(<<>>) <= Window
  BY BoundsAssumption
<1>3. StoreTypes /\ SlotTypes /\ ViewerTypes /\ ReadingThere
  BY <1>1 DEF Init, HubInit, DashHubInit, StoreTypes, SlotTypes, ViewerTypes, ReadingThere
<1>4. QueueTypes
  BY <1>2 DEF Init, QueueTypes
<1>5. CallerTypes
  BY BoundsAssumption DEF Init, CallerTypes
<1> QED BY <1>3, <1>4, <1>5 DEF DataInv

\* The id a served connection gave.
LEMMA IdIsAnId == ASSUME HubInv, NEW s \in Slots, pc[s] # "free" PROVE Id(s) \in Ids
  BY IdOfAssumption DEF HubInv, ServedHaveOwners, Id

\* The steps of a handler before the pushes.
LEMMA FirstHalfKeepsData ==
    ASSUME HubInv, DataInv, NEW s \in Slots,
           ReadError(s) \/ ReadFrame(s) \/ BuildStatus(s) \/ UpdateStatus(s) \/ GetAll(s)
    PROVE  DataInv'
<1> USE DEF DataInv
<1>0. pc \in [Slots -> PcValues]
  BY DEF HubInv, HubType
<1>1. CASE ReadError(s)
  BY <1>0, <1>1 DEF ReadError, StoreTypes, SlotTypes, ViewerTypes, QueueTypes, CallerTypes,
                    ReadingThere, viewerVars, callerVars, deviceVars, boundVars, dashHubVars
<1>2. CASE ReadFrame(s)
  <2>1. /\ inbox' = [inbox EXCEPT ![s] = None]
        /\ \/ UNCHANGED <<pc, watts>>
           \/ /\ inbox[s] \in Readings \ {Malformed}
              /\ watts' = [watts EXCEPT ![s] = inbox[s]]
              /\ pc' = [pc EXCEPT ![s] = "store"]
    BY <1>2 DEF ReadFrame, SlotTypes
  <2>2. SlotTypes'
    BY <1>2, <2>1 DEF ReadFrame, SlotTypes
  <2>3. ReadingThere'
    BY <1>0, <2>1 DEF ReadingThere, SlotTypes
  <2> QED
    BY <1>2, <2>2, <2>3 DEF ReadFrame, StoreTypes, ViewerTypes, QueueTypes, CallerTypes,
                      viewerVars, callerVars, deviceVars, boundVars, dashHubVars
<1>3. CASE BuildStatus(s)
  BY <1>0, <1>3 DEF BuildStatus, StoreTypes, SlotTypes, ViewerTypes, QueueTypes, CallerTypes,
                    ReadingThere, viewerVars, callerVars, deviceVars, boundVars, dashHubVars
<1>4. CASE UpdateStatus(s)
  <2>1. Id(s) \in Ids
    BY <1>4, IdIsAnId DEF UpdateStatus
  <2>2. [watts |-> watts[s], peak |-> seen[s]] \in Status
    BY <1>4 DEF UpdateStatus, ReadingThere, SlotTypes, Status
  <2>3. status' \in Statuses
    BY <1>4, <2>1, <2>2 DEF UpdateStatus, StoreTypes, Statuses
  <2> QED
    BY <1>0, <1>4, <2>3 DEF UpdateStatus, StoreTypes, SlotTypes, ViewerTypes, QueueTypes,
            CallerTypes, ReadingThere, viewerVars, callerVars, deviceVars, boundVars,
            dashHubVars
<1>5. CASE GetAll(s)
  BY <1>0, <1>5 DEF GetAll, StoreTypes, SlotTypes, ViewerTypes, QueueTypes, CallerTypes,
                    ReadingThere, viewerVars, callerVars, deviceVars, boundVars, dashHubVars
<1> QED BY <1>1, <1>2, <1>3, <1>4, <1>5

\* A write to a gateway keeps its queue in bounds.
LEMMA SendKeepsQueues ==
    ASSUME QueueTypes, NEW s \in Slots, NEW frame \in Frames, Send(s, frame),
           UNCHANGED vout
    PROVE  QueueTypes'
<1>1. CASE ~link[s] /\ UNCHANGED out
  BY <1>1 DEF QueueTypes
<1>2. CASE Len(out[s]) < Window /\ out' = [out EXCEPT ![s] = Append(@, frame)]
  <2>1. Append(out[s], frame) \in Seq(Frames) /\ Len(Append(out[s], frame)) <= Window
    BY <1>2, QueueStep DEF QueueTypes
  <2> QED BY <1>2, <2>1 DEF QueueTypes
<1> QED BY <1>1, <1>2 DEF Send

\* A write to a dashboard, likewise.
LEMMA WriteToDashboardKeepsQueues ==
    ASSUME QueueTypes, NEW v \in Viewers, NEW statuses \in Statuses, UNCHANGED out,
           \/ /\ Len(vout[v]) < Window
              /\ vout' = [vout EXCEPT ![v] = Append(@, statuses)]
           \/ UNCHANGED vout
    PROVE  QueueTypes'
<1>1. CASE UNCHANGED vout
  BY <1>1 DEF QueueTypes
<1>2. CASE Len(vout[v]) < Window /\ vout' = [vout EXCEPT ![v] = Append(@, statuses)]
  <2>1. Append(vout[v], statuses) \in Seq(Statuses) /\ Len(Append(vout[v], statuses)) <= Window
    BY <1>2, QueueStep DEF QueueTypes
  <2> QED BY <1>2, <2>1 DEF QueueTypes
<1> QED BY <1>1, <1>2

\* The pushes and the acknowledgment.
LEMMA SecondHalfKeepsData ==
    ASSUME HubInv, DataInv, NEW s \in Slots,
           \/ FanoutStart(s) \/ (\E v \in Viewers : Push(s, v)) \/ FanoutEnd(s)
           \/ BuildAck(s) \/ WriteAck(s)
    PROVE  DataInv'
<1> USE DEF DataInv
<1>0. pc \in [Slots -> PcValues]
  BY DEF HubInv, HubType
<1>1. CASE FanoutStart(s)
  BY <1>0, <1>1 DEF FanoutStart, DashReadLock, StoreTypes, SlotTypes, ViewerTypes,
                    QueueTypes, CallerTypes, ReadingThere, viewerVars, callerVars,
                    deviceVars, boundVars
<1>2. CASE \E v \in Viewers : Push(s, v)
  <2>1. PICK v \in Viewers : Push(s, v)
    BY <1>2
  <2>2. snap[s] \in Statuses
    BY DEF SlotTypes
  <2>3. QueueTypes'
    BY <2>1, <2>2, WriteToDashboardKeepsQueues DEF Push
  <2> QED
    BY <2>1, <2>3 DEF Push, StoreTypes, SlotTypes, ViewerTypes, CallerTypes, ReadingThere,
                      callerVars, deviceVars, boundVars, dashHubVars
<1>3. CASE FanoutEnd(s)
  <2>1. NoStatuses \in Statuses
    BY DEF NoStatuses, Statuses
  <2> QED
    BY <1>0, <1>3, <2>1 DEF FanoutEnd, DashReadUnlock, StoreTypes, SlotTypes, ViewerTypes,
            QueueTypes, CallerTypes, ReadingThere, viewerVars, callerVars, deviceVars,
            boundVars
<1>4. CASE BuildAck(s)
  BY <1>0, <1>4 DEF BuildAck, StoreTypes, SlotTypes, ViewerTypes, QueueTypes, CallerTypes,
                    ReadingThere, viewerVars, callerVars, deviceVars, boundVars, dashHubVars
<1>5. CASE WriteAck(s)
  <2>1. [type |-> "ack", active |-> seen[s]] \in Frames
    BY DEF SlotTypes, Frames
  <2>2. QueueTypes'
    BY <1>5, <2>1, SendKeepsQueues DEF WriteAck, viewerVars
  <2> QED
    BY <1>0, <1>5, <2>2 DEF WriteAck, StoreTypes, SlotTypes, ViewerTypes, CallerTypes,
            ReadingThere, viewerVars, callerVars, deviceVars, boundVars, dashHubVars
<1> QED BY <1>1, <1>2, <1>3, <1>4, <1>5

\* Connections that come and go.
LEMMA SessionsKeepData ==
    ASSUME HubInv, DataInv, NEW s \in Slots,
           SessionStart(s) \/ SessionEnd(s) \/ (\E d \in Devices : Accept(s, d))
    PROVE  DataInv'
<1> USE DEF DataInv
<1>0. pc \in [Slots -> PcValues]
  BY DEF HubInv, HubType
<1>1. CASE SessionStart(s)
  BY <1>0, <1>1 DEF SessionStart, StoreTypes, SlotTypes, ViewerTypes, QueueTypes,
                    CallerTypes, ReadingThere, viewerVars, callerVars, deviceVars,
                    dashHubVars
<1>2. CASE SessionEnd(s)
  BY <1>0, <1>2 DEF SessionEnd, StoreTypes, SlotTypes, ViewerTypes, QueueTypes,
                    CallerTypes, ReadingThere, viewerVars, callerVars, deviceVars,
                    boundVars, dashHubVars
<1>3. CASE \E d \in Devices : Accept(s, d)
  <2>1. PICK d \in Devices : Accept(s, d)
    BY <1>3
  <2> QED
    BY <1>0, <2>1 DEF Accept, StoreTypes, SlotTypes, ViewerTypes, QueueTypes, CallerTypes,
                      ReadingThere, viewerVars, callerVars, boundVars, dashHubVars
<1> QED BY <1>1, <1>2, <1>3

\* Callers of SetPeakStress keep the types.
LEMMA CallersKeepData ==
    ASSUME HubInv, DataInv, NEW c \in Callers,
           Broadcast(c) \/ (\E active \in BOOLEAN : SetFlag(c, active))
    PROVE  DataInv'
<1> USE DEF DataInv
<1>1. CASE \E active \in BOOLEAN : SetFlag(c, active)
  <2>1. PICK active \in BOOLEAN : SetFlag(c, active)
    BY <1>1
  <2>2. calls' \in 0 .. MaxCalls
    BY <2>1, BoundsAssumption DEF SetFlag, CallerTypes
  <2> QED
    BY <2>1, <2>2 DEF SetFlag, StoreTypes, SlotTypes, ViewerTypes, QueueTypes, CallerTypes,
                      ReadingThere, slotVars, viewerVars, deviceVars, dashHubVars
<1>2. CASE BroadcastStart(c)
  BY <1>2 DEF BroadcastStart, StoreTypes, SlotTypes, ViewerTypes, QueueTypes, CallerTypes,
              ReadingThere, slotVars, viewerVars, deviceVars, boundVars, dashHubVars
<1>3. CASE \E s \in Slots : BroadcastTo(c, s)
  <2>1. PICK s \in Slots : BroadcastTo(c, s)
    BY <1>3
  <2>2. [type |-> "", active |-> arg[c]] \in Frames
    BY DEF CallerTypes, Frames
  <2>3. QueueTypes'
    BY <2>1, <2>2, SendKeepsQueues DEF BroadcastTo, viewerVars
  <2> QED
    BY <2>1, <2>3 DEF BroadcastTo, StoreTypes, SlotTypes, ViewerTypes, CallerTypes,
                      ReadingThere, viewerVars, deviceVars, boundVars, dashHubVars
<1>4. CASE BroadcastEnd(c)
  BY <1>4 DEF BroadcastEnd, StoreTypes, SlotTypes, ViewerTypes, QueueTypes, CallerTypes,
              ReadingThere, slotVars, viewerVars, deviceVars, boundVars, dashHubVars
<1> QED BY <1>1, <1>2, <1>3, <1>4 DEF Broadcast

\* The goroutines of the dashboards, and the dashboards, keep the types.
LEMMA DashboardsKeepData ==
    ASSUME DataInv, NEW v \in Viewers,
           ServeDashboard(v) \/ DashAccept(v) \/ ViewerReads(v) \/ ViewerLeaves(v)
    PROVE  DataInv'
<1> USE DEF DataInv
<1>0. NoStatuses \in Statuses
  BY DEF NoStatuses, Statuses
<1>1. CASE DashStart(v)
  BY <1>1 DEF DashStart, DashRegister, StoreTypes, SlotTypes, ViewerTypes, QueueTypes,
              CallerTypes, ReadingThere, slotVars, callerVars, deviceVars, boundVars
<1>2. CASE DashGetAll(v)
  BY <1>2 DEF DashGetAll, StoreTypes, SlotTypes, ViewerTypes, QueueTypes, CallerTypes,
              ReadingThere, slotVars, callerVars, deviceVars, boundVars, dashHubVars
<1>3. CASE DashFirst(v)
  <2>1. vsnap[v] \in Statuses
    BY DEF ViewerTypes
  <2>2. QueueTypes'
    BY <1>3, <2>1, WriteToDashboardKeepsQueues DEF DashFirst, slotVars
  <2> QED
    BY <1>0, <1>3, <2>2 DEF DashFirst, StoreTypes, SlotTypes, ViewerTypes, CallerTypes,
            ReadingThere, slotVars, callerVars, deviceVars, boundVars, dashHubVars
<1>4. CASE DashReadError(v)
  BY <1>4 DEF DashReadError, StoreTypes, SlotTypes, ViewerTypes, QueueTypes, CallerTypes,
              ReadingThere, slotVars, callerVars, deviceVars, boundVars, dashHubVars
<1>5. CASE DashEnd(v)
  BY <1>5 DEF DashEnd, DashUnregister, StoreTypes, SlotTypes, ViewerTypes, QueueTypes,
              CallerTypes, ReadingThere, slotVars, callerVars, deviceVars, boundVars
<1>6. CASE DashAccept(v)
  BY <1>6 DEF DashAccept, StoreTypes, SlotTypes, ViewerTypes, QueueTypes, CallerTypes,
              ReadingThere, slotVars, callerVars, deviceVars, boundVars, dashHubVars
<1>7. CASE ViewerReads(v)
  <2>1. /\ Head(vout[v]) \in Statuses
        /\ Tail(vout[v]) \in Seq(Statuses) /\ Len(Tail(vout[v])) <= Window
    BY <1>7, QueueStep DEF ViewerReads, QueueTypes
  <2> QED
    BY <1>7, <2>1 DEF ViewerReads, StoreTypes, SlotTypes, ViewerTypes, QueueTypes,
            CallerTypes, ReadingThere, slotVars, callerVars, deviceVars, boundVars,
            dashHubVars
<1>8. CASE ViewerLeaves(v)
  <2>1. <<>> \in Seq(Statuses) /\ Len(<<>>) <= Window
    BY BoundsAssumption
  <2> QED
    BY <1>0, <1>8, <2>1 DEF ViewerLeaves, StoreTypes, SlotTypes, ViewerTypes, QueueTypes,
            CallerTypes, ReadingThere, slotVars, callerVars, deviceVars, boundVars,
            dashHubVars
<1> QED BY <1>1, <1>2, <1>3, <1>4, <1>5, <1>6, <1>7, <1>8 DEF ServeDashboard, DashSession

\* The devices and their links keep the types.
LEMMA DevicesKeepData ==
    ASSUME DataInv, NEW d \in Devices,
           (\E w \in Readings : SendTelemetry(d, w)) \/ Deliver(d) \/ Cut(d)
    PROVE  DataInv'
<1> USE DEF DataInv
<1>1. CASE \E w \in Readings : SendTelemetry(d, w)
  BY <1>1 DEF SendTelemetry, StoreTypes, SlotTypes, ViewerTypes, QueueTypes, CallerTypes,
              ReadingThere, viewerVars, callerVars, deviceVars, boundVars, dashHubVars
<1>2. conn[d] # NoSlot => conn[d] \in Slots
  BY DEF CallerTypes
<1>3. CASE Deliver(d)
  <2>1. /\ Head(out[conn[d]]) \in Frames
        /\ Tail(out[conn[d]]) \in Seq(Frames) /\ Len(Tail(out[conn[d]])) <= Window
    BY <1>2, <1>3, QueueStep DEF Deliver, QueueTypes
  <2>2. Head(out[conn[d]]).active \in BOOLEAN
    BY <2>1 DEF Frames
  <2> QED
    BY <1>2, <1>3, <2>1, <2>2 DEF Deliver, StoreTypes, SlotTypes, ViewerTypes, QueueTypes,
            CallerTypes, ReadingThere, viewerVars, callerVars, boundVars, dashHubVars
<1>4. CASE Cut(d)
  <2>1. <<>> \in Seq(Frames) /\ Len(<<>>) <= Window
    BY BoundsAssumption
  <2>2. cuts' \in 0 .. MaxCuts
    BY <1>4, BoundsAssumption DEF Cut, CallerTypes
  <2>3. applied' \in [Devices -> BOOLEAN]
    BY <1>4 DEF Cut, CallerTypes
  <2>4. SlotTypes' /\ QueueTypes'
    BY <1>2, <1>4, <2>1 DEF Cut, SlotTypes, QueueTypes, viewerVars
  <2> QED
    BY <1>4, <2>2, <2>3, <2>4 DEF Cut, StoreTypes, ViewerTypes, CallerTypes, ReadingThere,
            viewerVars, callerVars, dashHubVars
<1> QED BY <1>1, <1>3, <1>4

\* Every step keeps the types.
LEMMA NextKeepsData == ASSUME HubInv, DataInv, [Next]_vars PROVE DataInv'
<1>1. CASE UNCHANGED vars
  BY <1>1 DEF vars, slotVars, viewerVars, callerVars, deviceVars, boundVars, dashHubVars,
              DataInv, StoreTypes, SlotTypes, ViewerTypes, QueueTypes, CallerTypes,
              ReadingThere
<1>2. CASE \E s \in Slots : ServeGateway(s) \/ \E d \in Devices : Accept(s, d)
  BY <1>2, SessionsKeepData, FirstHalfKeepsData, SecondHalfKeepsData
     DEF ServeGateway, HandleFrame
<1>3. CASE \E c \in Callers : Broadcast(c) \/ \E active \in BOOLEAN : SetFlag(c, active)
  BY <1>3, CallersKeepData
<1>4. CASE \E v \in Viewers :
              ServeDashboard(v) \/ DashAccept(v) \/ ViewerReads(v) \/ ViewerLeaves(v)
  BY <1>4, DashboardsKeepData
<1>5. CASE \E d \in Devices :
              (\E w \in Readings : SendTelemetry(d, w)) \/ Deliver(d) \/ Cut(d)
  BY <1>5, DevicesKeepData
<1> QED BY <1>1, <1>2, <1>3, <1>4, <1>5 DEF Next

\* The types of what connections carry hold in every state.
THEOREM DataInvariant == Spec => []DataInv
<1>1. HubInv /\ DataInv /\ [Next]_vars => DataInv'
  BY NextKeepsData
<1> QED BY InitData, <1>1, HubInvariant, PTL DEF Spec

\* Types, and no connection holds more unread frames than its window.
THEOREM TypeCorrect == Spec => []TypeOK
<1>1. HubInv /\ DataInv => TypeOK
  BY DEF HubInv, HubType, PcValues, DataInv, StoreTypes, SlotTypes, ViewerTypes,
         QueueTypes, CallerTypes, TypeOK
<1> QED BY <1>1, HubInvariant, DataInvariant, PTL

-----------------------------------------------------------------------------
(* A handler's own reading, from the store to the dashboards.              *)

\* Between UpdateStatus() and the end of the pushes the status of the id, or the
\* copy of it that is pushed, is the one this handler made.
OwnStatusStored ==
    \A s \in Slots :
        pc[s] = "snapshot" /\ Id(s) \notin overlapped =>
            status[Id(s)] # None /\ status[Id(s)].watts = watts[s]
OwnInv == OwnStatusStored /\ PushContainsOwnReading

\* A step that leaves statuses, readings and copies alone and lets no handler
\* enter the stages OwnInv is about.
LEMMA SameOwn ==
    ASSUME OwnInv, UNCHANGED <<status, watts, snap>>,
           \A i \in Ids : i \in overlapped => i \in overlapped',
           \A s \in Slots : pc'[s] \in {"snapshot", "fanout", "push"} =>
               /\ Id(s) \in Ids /\ owner'[s] = owner[s]
               /\ pc[s] = "snapshot" <=> pc'[s] = "snapshot"
               /\ pc[s] \in {"fanout", "push"} <=> pc'[s] \in {"fanout", "push"}
    PROVE  OwnInv'
<1>1. \A s \in Slots : pc'[s] \in {"snapshot", "fanout", "push"} => Id(s)' = Id(s)
  BY DEF Id
<1>2. OwnStatusStored'
  BY <1>1 DEF OwnInv, OwnStatusStored
<1>3. PushContainsOwnReading'
  BY <1>1 DEF OwnInv, PushContainsOwnReading
<1> QED BY <1>2, <1>3 DEF OwnInv

\* The steps that give a handler a status, a copy, or another reading, each of
\* which is about one connection.
LEMMA UpdateStatusKeepsOwn ==
    ASSUME HubInv, DataInv, OwnInv, NEW s \in Slots, UpdateStatus(s) PROVE OwnInv'
<1>1. /\ pc[s] = "update" /\ pc' = [pc EXCEPT ![s] = "snapshot"]
      /\ status' = [status EXCEPT ![Id(s)] = [watts |-> watts[s], peak |-> seen[s]]]
      /\ UNCHANGED <<owner, watts, snap, overlapped>>
  BY DEF UpdateStatus, boundVars
<1>2. Id(s) \in Ids /\ status \in [Ids -> Status \cup {None}] /\ pc \in [Slots -> PcValues]
  BY <1>1, IdIsAnId DEF DataInv, StoreTypes, Statuses, HubInv, HubType
<1>3. [watts |-> watts[s], peak |-> seen[s]] \in Status
  BY <1>1 DEF DataInv, ReadingThere, SlotTypes, Status
<1>4. status'[Id(s)] # None /\ status'[Id(s)].watts = watts[s]
  BY <1>1, <1>2, <1>3, NoneAssumption
<1>5. \A t \in Slots : Id(t)' = Id(t)
  BY <1>1 DEF Id
<1>6. ASSUME NEW t \in Slots, pc'[t] = "snapshot", Id(t) \notin overlapped
      PROVE  status'[Id(t)] # None /\ status'[Id(t)].watts = watts[t]
  <2>1. CASE t = s
    BY <1>4, <2>1
  <2>2. CASE t # s
    <3>1. pc[t] = "snapshot"
      BY <1>1, <1>2, <1>6, <2>2
    <3>2. Id(t) # Id(s)
      BY <1>1, <1>6, <2>2, <3>1 DEF HubInv, OneOpenUnlessOverlapped, Id
    <3>3. status'[Id(t)] = status[Id(t)]
      BY <1>1, <1>2, <3>1, <3>2, IdIsAnId
    <3> QED BY <1>6, <3>1, <3>3 DEF OwnInv, OwnStatusStored
  <2> QED BY <2>1, <2>2
<1>7. OwnStatusStored'
  BY <1>1, <1>5, <1>6 DEF OwnStatusStored
<1>8. PushContainsOwnReading'
  BY <1>1, <1>2, <1>5 DEF OwnInv, PushContainsOwnReading
<1> QED BY <1>7, <1>8 DEF OwnInv

\* GetAll() copies the status the handler has stored.
LEMMA GetAllKeepsOwn ==
    ASSUME HubInv, DataInv, OwnInv, NEW s \in Slots, GetAll(s) PROVE OwnInv'
<1>1. /\ pc[s] = "snapshot" /\ pc' = [pc EXCEPT ![s] = "fanout"]
      /\ snap' = [snap EXCEPT ![s] = status]
      /\ UNCHANGED <<owner, watts, status, overlapped>>
  BY DEF GetAll, boundVars
<1>2. pc \in [Slots -> PcValues] /\ snap \in [Slots -> Statuses]
  BY DEF HubInv, HubType, DataInv, SlotTypes
<1>3. \A t \in Slots : Id(t)' = Id(t)
  BY <1>1 DEF Id
<1>4. OwnStatusStored'
  BY <1>1, <1>2, <1>3 DEF OwnInv, OwnStatusStored
<1>5. PushContainsOwnReading'
  BY <1>1, <1>2, <1>3 DEF OwnInv, OwnStatusStored, PushContainsOwnReading
<1> QED BY <1>4, <1>5 DEF OwnInv

\* A handler that takes a frame, or is through with the pushes, has no copy.
LEMMA EndsKeepOwn ==
    ASSUME HubInv, DataInv, OwnInv, NEW s \in Slots, ReadFrame(s) \/ FanoutEnd(s)
    PROVE  OwnInv'
<1>1. /\ pc[s] \in {"read", "push"}
      /\ \/ UNCHANGED <<pc, watts, snap>>
         \/ /\ pc'[s] \in {"store", "ack"}
            /\ \A t \in Slots \ {s} :
                  pc'[t] = pc[t] /\ watts'[t] = watts[t] /\ snap'[t] = snap[t]
      /\ UNCHANGED <<owner, status, overlapped>>
  BY DEF ReadFrame, FanoutEnd, boundVars, HubInv, HubType, DataInv, SlotTypes
<1>2. \A t \in Slots : Id(t)' = Id(t)
  BY <1>1 DEF Id
<1>3. \A t \in Slots : pc'[t] \in {"snapshot", "fanout", "push"} =>
          pc'[t] = pc[t] /\ watts'[t] = watts[t] /\ snap'[t] = snap[t]
  BY <1>1
<1>4. OwnStatusStored'
  BY <1>1, <1>2, <1>3 DEF OwnInv, OwnStatusStored
<1>5. PushContainsOwnReading'
  BY <1>1, <1>2, <1>3 DEF OwnInv, PushContainsOwnReading
<1> QED BY <1>4, <1>5 DEF OwnInv

\* The steps of a handler that move it neither into nor out of these stages.
LEMMA OtherStepsKeepOwn ==
    ASSUME HubInv, OwnInv, NEW s \in Slots,
           \/ SessionStart(s) \/ SessionEnd(s) \/ (\E d \in Devices : Accept(s, d))
           \/ ReadError(s) \/ BuildStatus(s) \/ FanoutStart(s)
           \/ (\E v \in Viewers : Push(s, v)) \/ BuildAck(s) \/ WriteAck(s)
    PROVE  OwnInv'
<1>1. UNCHANGED <<status, watts, snap>>
  BY DEF SessionStart, SessionEnd, Accept, ReadError, BuildStatus, FanoutStart, Push,
         BuildAck, WriteAck
<1>2. \A i \in Ids : i \in overlapped => i \in overlapped'
  BY DEF SessionStart, SessionEnd, Accept, ReadError, BuildStatus, FanoutStart, Push,
         BuildAck, WriteAck, boundVars
<1>3. pc \in [Slots -> PcValues] /\ owner \in [Slots -> Devices \cup {None}]
  BY DEF HubInv, HubType
<1>4. ASSUME NEW t \in Slots, pc'[t] \in {"snapshot", "fanout", "push"}
      PROVE  /\ owner'[t] = owner[t]
             /\ pc[t] = "snapshot" <=> pc'[t] = "snapshot"
             /\ pc[t] \in {"fanout", "push"} <=> pc'[t] \in {"fanout", "push"}
  BY <1>3, <1>4 DEF SessionStart, SessionEnd, Accept, ReadError, BuildStatus, FanoutStart,
                    Push, BuildAck, WriteAck, deviceVars
<1>5. \A t \in Slots : pc'[t] \in {"snapshot", "fanout", "push"} => Id(t) \in Ids
  BY <1>4, IdIsAnId
<1> QED BY <1>1, <1>2, <1>4, <1>5, SameOwn

\* Nobody else touches statuses, readings or copies.
LEMMA OthersKeepOwn ==
    ASSUME HubInv, OwnInv,
           \/ UNCHANGED vars
           \/ \E c \in Callers : Broadcast(c) \/ \E active \in BOOLEAN : SetFlag(c, active)
           \/ \E v \in Viewers :
                 ServeDashboard(v) \/ DashAccept(v) \/ ViewerReads(v) \/ ViewerLeaves(v)
           \/ \E d \in Devices :
                 (\E w \in Readings : SendTelemetry(d, w)) \/ Deliver(d) \/ Cut(d)
    PROVE  OwnInv'
<1>1. UNCHANGED <<status, watts, snap, pc, owner, overlapped>>
  <2>1. CASE UNCHANGED vars
    BY <2>1 DEF vars, slotVars, boundVars
  <2>2. CASE \E c \in Callers : Broadcast(c) \/ \E active \in BOOLEAN : SetFlag(c, active)
    BY <2>2 DEF Broadcast, BroadcastStart, BroadcastTo, BroadcastEnd, SetFlag, slotVars,
                boundVars
  <2>3. CASE \E v \in Viewers :
                ServeDashboard(v) \/ DashAccept(v) \/ ViewerReads(v) \/ ViewerLeaves(v)
    BY <2>3 DEF ServeDashboard, DashSession, DashStart, DashGetAll, DashFirst,
                DashReadError, DashEnd, DashAccept, ViewerReads, ViewerLeaves, slotVars,
                boundVars
  <2>4. CASE \E d \in Devices :
                (\E w \in Readings : SendTelemetry(d, w)) \/ Deliver(d) \/ Cut(d)
    BY <2>4 DEF SendTelemetry, Deliver, Cut, boundVars
  <2> QED BY <2>1, <2>2, <2>3, <2>4
<1>2. \A t \in Slots : pc'[t] \in {"snapshot", "fanout", "push"} => Id(t) \in Ids
  BY <1>1, IdIsAnId
<1> QED BY <1>1, <1>2, SameOwn

\* Every step keeps a handler's own reading with it.
LEMMA NextKeepsOwn == ASSUME HubInv, DataInv, OwnInv, [Next]_vars PROVE OwnInv'
<1>1. CASE \E s \in Slots : ServeGateway(s) \/ \E d \in Devices : Accept(s, d)
  <2>1. PICK s \in Slots : ServeGateway(s) \/ \E d \in Devices : Accept(s, d)
    BY <1>1
  <2>2. CASE UpdateStatus(s)
    BY <2>2, UpdateStatusKeepsOwn
  <2>3. CASE GetAll(s)
    BY <2>3, GetAllKeepsOwn
  <2>4. CASE ReadFrame(s) \/ FanoutEnd(s)
    BY <2>4, EndsKeepOwn
  <2>5. CASE \/ SessionStart(s) \/ SessionEnd(s) \/ (\E d \in Devices : Accept(s, d))
             \/ ReadError(s) \/ BuildStatus(s) \/ FanoutStart(s)
             \/ (\E v \in Viewers : Push(s, v)) \/ BuildAck(s) \/ WriteAck(s)
    BY <2>5, OtherStepsKeepOwn
  <2> QED BY <2>1, <2>2, <2>3, <2>4, <2>5 DEF ServeGateway, HandleFrame
<1> QED BY <1>1, OthersKeepOwn DEF Next

\* What a handler pushes contains the reading it was called with, unless its id
\* had two connections at once.
THEOREM PushContainsOwnReadingHolds == Spec => []PushContainsOwnReading
<1>1. Init => OwnInv
  BY DEF Init, OwnInv, OwnStatusStored, PushContainsOwnReading
<1>2. HubInv /\ DataInv /\ OwnInv /\ [Next]_vars => OwnInv'
  BY NextKeepsOwn
<1>3. OwnInv => PushContainsOwnReading
  BY DEF OwnInv
<1> QED BY <1>1, <1>2, <1>3, HubInvariant, DataInvariant, PTL DEF Spec

-----------------------------------------------------------------------------
(* The links: a device and its handler mean the same connection.           *)

\* The connection a device uses is up, and was accepted for it.
LinksAreDevices ==
    \A d \in Devices : conn[d] # NoSlot => link[conn[d]] /\ owner[conn[d]] = d

\* A connection that is up is the one its device uses, and its handler has not
\* come to its end.
LiveLinksAreServed ==
    \A s \in Slots : link[s] =>
        /\ pc[s] \notin {"free", "unregister"}
        /\ conn[owner[s]] = s

\* What a connection carried is gone with it: its slot is used again empty.
DeadLinksCarryNothing ==
    \A s \in Slots :
        /\ ~link[s] => out[s] = <<>>
        /\ pc[s] \in {"free", "unregister"} => inbox[s] = None

LinkInv == LinksAreDevices /\ LiveLinksAreServed /\ DeadLinksCarryNothing

\* With no device connected there is nothing to relate.
LEMMA InitLinks == Init => LinkInv
  BY DEF Init, LinkInv, LinksAreDevices, LiveLinksAreServed, DeadLinksCarryNothing

\* Most steps keep the connections, and end no handler whose connection is up.
SameLinks ==
    /\ UNCHANGED <<conn, link, owner>>
    /\ \A s \in Slots :
          /\ link[s] => pc'[s] \notin {"free", "unregister"}
          /\ ~link[s] => out'[s] = out[s]
          /\ pc'[s] \in {"free", "unregister"} => inbox'[s] = None

\* Such a step keeps the invariant of the links.
LEMMA SameLinksKeepLinks == ASSUME LinkInv, SameLinks PROVE LinkInv'
<1> USE DEF LinkInv, SameLinks
<1>1. LinksAreDevices'
  BY DEF LinksAreDevices
<1>2. LiveLinksAreServed'
  BY DEF LiveLinksAreServed
<1>3. DeadLinksCarryNothing'
  BY DEF DeadLinksCarryNothing
<1> QED BY <1>1, <1>2, <1>3

\* What the step lemmas below need of the types.
LinkTypes ==
    /\ pc \in [Slots -> PcValues]
    /\ owner \in [Slots -> Devices \cup {None}]
    /\ link \in [Slots -> BOOLEAN]
    /\ inbox \in [Slots -> Readings \cup {None}]
    /\ out \in [Slots -> Seq(Frames)]
    /\ conn \in [Devices -> Slots \cup {NoSlot}]

\* The two invariants proved above give them.
LEMMA LinksHaveTypes == HubInv /\ DataInv => LinkTypes
  BY DEF HubInv, HubType, DataInv, SlotTypes, QueueTypes, CallerTypes, LinkTypes

\* A write to a gateway goes into a queue only while the connection is up.
LEMMA SendUsesALiveLink ==
    ASSUME LinkTypes, NEW s \in Slots, NEW frame, Send(s, frame)
    PROVE  \A t \in Slots : ~link[t] => out'[t] = out[t]
<1>1. CASE link[s] /\ out' = [out EXCEPT ![s] = Append(@, frame)]
  <2> SUFFICES ASSUME NEW t \in Slots, ~link[t] PROVE out'[t] = out[t]
    OBVIOUS
  <2>1. t # s
    BY <1>1
  <2> QED BY <1>1, <2>1 DEF LinkTypes
<1>2. CASE UNCHANGED out
  BY <1>2
<1> QED BY <1>1, <1>2 DEF Send

\* A handler at work on its connection: only a broken connection makes it leave
\* the loop.
LEMMA ServingKeepsLinks ==
    ASSUME LinkTypes, LinkInv, NEW s \in Slots,
           HandleFrame(s) \/ ReadError(s) \/ SessionStart(s)
    PROVE  SameLinks
<1> USE DEF LinkTypes, LinkInv, LiveLinksAreServed, DeadLinksCarryNothing, SameLinks,
            deviceVars
<1>1. CASE ReadError(s)
  BY <1>1 DEF ReadError
<1>2. CASE ReadFrame(s)
  BY <1>2 DEF ReadFrame
<1>3. CASE BuildStatus(s)
  BY <1>3 DEF BuildStatus
<1>4. CASE UpdateStatus(s)
  BY <1>4 DEF UpdateStatus
<1>5. CASE GetAll(s)
  BY <1>5 DEF GetAll
<1>6. CASE FanoutStart(s)
  BY <1>6 DEF FanoutStart
<1>7. CASE \E v \in Viewers : Push(s, v)
  BY <1>7 DEF Push
<1>8. CASE FanoutEnd(s)
  BY <1>8 DEF FanoutEnd
<1>9. CASE BuildAck(s)
  BY <1>9 DEF BuildAck
<1>10. CASE WriteAck(s)
  <2>1. \A t \in Slots : ~link[t] => out'[t] = out[t]
    BY <1>10, SendUsesALiveLink DEF WriteAck
  <2> QED BY <1>10, <2>1 DEF WriteAck
<1>11. CASE SessionStart(s)
  BY <1>11 DEF SessionStart
<1> QED BY <1>1, <1>2, <1>3, <1>4, <1>5, <1>6, <1>7, <1>8, <1>9, <1>10, <1>11
        DEF HandleFrame

\* The upgrade takes a free slot, which no device uses.
LEMMA AcceptKeepsLinks ==
    ASSUME LinkTypes, LinkInv, NEW s \in Slots, NEW d \in Devices, Accept(s, d)
    PROVE  LinkInv'
<1>1. /\ pc[s] = "free" /\ conn[d] = NoSlot
      /\ pc' = [pc EXCEPT ![s] = "register"] /\ owner' = [owner EXCEPT ![s] = d]
      /\ link' = [link EXCEPT ![s] = TRUE] /\ conn' = [conn EXCEPT ![d] = s]
      /\ UNCHANGED <<inbox, out>>
  BY DEF Accept
<1>2. ~link[s]
  BY <1>1 DEF LinkInv, LiveLinksAreServed
<1>3. \A e \in Devices : e # d => conn'[e] = conn[e]
  BY <1>1 DEF LinkTypes
<1>4. \A e \in Devices : conn[e] # s
  BY <1>2, NoSlotAssumption DEF LinkInv, LinksAreDevices
<1>5. LinksAreDevices'
  <2> SUFFICES ASSUME NEW e \in Devices, conn'[e] # NoSlot
               PROVE  link'[conn'[e]] /\ owner'[conn'[e]] = e
    BY DEF LinksAreDevices
  <2>1. CASE e = d
    BY <1>1, <2>1 DEF LinkTypes
  <2>2. CASE e # d
    <3>1. conn'[e] = conn[e] /\ conn[e] \in Slots /\ conn[e] # s
      BY <1>3, <1>4, <2>2 DEF LinkTypes
    <3> QED BY <1>1, <3>1 DEF LinkTypes, LinkInv, LinksAreDevices
  <2> QED BY <2>1, <2>2
<1>6. LiveLinksAreServed'
  <2> SUFFICES ASSUME NEW t \in Slots, link'[t]
               PROVE  /\ pc'[t] \notin {"free", "unregister"}
                      /\ conn'[owner'[t]] = t
    BY DEF LiveLinksAreServed
  <2>1. CASE t = s
    BY <1>1, <2>1 DEF LinkTypes
  <2>2. CASE t # s
    <3>1. link[t] /\ pc'[t] = pc[t] /\ owner'[t] = owner[t]
      BY <1>1, <2>2 DEF LinkTypes
    <3>2. pc[t] \notin {"free", "unregister"} /\ conn[owner[t]] = t
      BY <3>1 DEF LinkInv, LiveLinksAreServed
    <3>3. owner[t] # d
      BY <1>1, <3>2, NoSlotAssumption
    <3> QED BY <1>1, <3>1, <3>2, <3>3 DEF LinkTypes
  <2> QED BY <2>1, <2>2
<1>7. DeadLinksCarryNothing'
  BY <1>1 DEF LinkTypes, LinkInv, DeadLinksCarryNothing
<1> QED BY <1>5, <1>6, <1>7 DEF LinkInv

\* The return of a handler, whose connection is down: no device uses it.
LEMMA SessionEndKeepsLinks ==
    ASSUME LinkTypes, LinkInv, NEW s \in Slots, SessionEnd(s) PROVE LinkInv'
<1>1. /\ pc[s] = "unregister" /\ pc' = [pc EXCEPT ![s] = "free"]
      /\ owner' = [owner EXCEPT ![s] = None]
      /\ UNCHANGED <<link, conn, inbox, out>>
  BY DEF SessionEnd, deviceVars
<1>2. ~link[s]
  BY <1>1 DEF LinkInv, LiveLinksAreServed
<1>3. LinksAreDevices'
  BY <1>1, <1>2 DEF LinkTypes, LinkInv, LinksAreDevices
<1>4. LiveLinksAreServed'
  BY <1>1, <1>2 DEF LinkTypes, LinkInv, LiveLinksAreServed
<1>5. DeadLinksCarryNothing'
  BY <1>1 DEF LinkTypes, LinkInv, DeadLinksCarryNothing
<1> QED BY <1>3, <1>4, <1>5 DEF LinkInv

\* A device writes and reads on a connection that is up, and a cut takes the
\* connection from both ends.
LEMMA DevicesKeepLinks ==
    ASSUME LinkTypes, LinkInv, NEW d \in Devices,
           (\E w \in Readings : SendTelemetry(d, w)) \/ Deliver(d) \/ Cut(d)
    PROVE  LinkInv'
<1>1. /\ conn[d] \in Slots /\ conn[d] # NoSlot /\ link[conn[d]]
      /\ pc[conn[d]] \notin {"free", "unregister"}
  BY DEF SendTelemetry, Deliver, Cut, LinkTypes, LinkInv, LinksAreDevices,
         LiveLinksAreServed
<1>2. CASE \E w \in Readings : SendTelemetry(d, w)
  <2>1. SameLinks
    BY <1>1, <1>2 DEF SendTelemetry, deviceVars, LinkTypes, LinkInv, LiveLinksAreServed,
                      DeadLinksCarryNothing, SameLinks
  <2> QED BY <2>1, SameLinksKeepLinks
<1>3. CASE Deliver(d)
  <2>1. SameLinks
    BY <1>1, <1>3 DEF Deliver, LinkTypes, LinkInv, LiveLinksAreServed,
                      DeadLinksCarryNothing, SameLinks
  <2> QED BY <2>1, SameLinksKeepLinks
<1>4. CASE Cut(d)
  <2>1. /\ link' = [link EXCEPT ![conn[d]] = FALSE]
        /\ out' = [out EXCEPT ![conn[d]] = <<>>]
        /\ conn' = [conn EXCEPT ![d] = NoSlot]
        /\ UNCHANGED <<pc, owner, inbox>>
    BY <1>4 DEF Cut
  <2>2. owner[conn[d]] = d
    BY <1>1 DEF LinkInv, LinksAreDevices
  <2>3. LinksAreDevices'
    <3> SUFFICES ASSUME NEW e \in Devices, conn'[e] # NoSlot
                 PROVE  link'[conn'[e]] /\ owner'[conn'[e]] = e
      BY DEF LinksAreDevices
    <3>1. e # d /\ conn'[e] = conn[e] /\ conn[e] \in Slots
      BY <2>1 DEF LinkTypes
    <3>2. link[conn[e]] /\ owner[conn[e]] = e
      BY <3>1 DEF LinkInv, LinksAreDevices
    <3>3. conn[e] # conn[d]
      BY <2>2, <3>1, <3>2
    <3> QED BY <2>1, <3>1, <3>2, <3>3 DEF LinkTypes
  <2>4. LiveLinksAreServed'
    <3> SUFFICES ASSUME NEW t \in Slots, link'[t]
                 PROVE  /\ pc'[t] \notin {"free", "unregister"}
                        /\ conn'[owner'[t]] = t
      BY DEF LiveLinksAreServed
    <3>1. t # conn[d] /\ link[t]
      BY <1>1, <2>1 DEF LinkTypes
    <3>2. pc[t] \notin {"free", "unregister"} /\ conn[owner[t]] = t
      BY <3>1 DEF LinkInv, LiveLinksAreServed
    <3>3. owner[t] # d
      BY <3>1, <3>2
    <3> QED BY <2>1, <3>2, <3>3 DEF LinkTypes
  <2>5. DeadLinksCarryNothing'
    BY <1>1, <2>1 DEF LinkTypes, LinkInv, DeadLinksCarryNothing
  <2> QED BY <2>3, <2>4, <2>5 DEF LinkInv
<1> QED BY <1>2, <1>3, <1>4

\* A broadcast is a write to gateways; the dashboards touch no gateway's link.
LEMMA OthersKeepLinks ==
    ASSUME LinkTypes, LinkInv,
           \/ UNCHANGED vars
           \/ \E c \in Callers : Broadcast(c) \/ \E active \in BOOLEAN : SetFlag(c, active)
           \/ \E v \in Viewers :
                 ServeDashboard(v) \/ DashAccept(v) \/ ViewerReads(v) \/ ViewerLeaves(v)
    PROVE  SameLinks
<1>1. UNCHANGED <<conn, link, owner, pc, inbox>>
  BY DEF vars, slotVars, deviceVars, Broadcast, BroadcastStart, BroadcastTo, BroadcastEnd,
         SetFlag, ServeDashboard, DashSession, DashStart, DashGetAll, DashFirst,
         DashReadError, DashEnd, DashAccept, ViewerReads, ViewerLeaves
<1>2. UNCHANGED out \/ \E s \in Slots : \E frame : Send(s, frame)
  BY DEF vars, slotVars, Broadcast, BroadcastStart, BroadcastTo, BroadcastEnd,
         SetFlag, ServeDashboard, DashSession, DashStart, DashGetAll, DashFirst,
         DashReadError, DashEnd, DashAccept, ViewerReads, ViewerLeaves
<1>3. \A s \in Slots : ~link[s] => out'[s] = out[s]
  BY <1>2, SendUsesALiveLink
<1> QED BY <1>1, <1>3 DEF LinkInv, LiveLinksAreServed, DeadLinksCarryNothing, SameLinks

\* Every step keeps the invariant of the links.
LEMMA NextKeepsLinks == ASSUME LinkTypes, LinkInv, [Next]_vars PROVE LinkInv'
<1>1. CASE \E s \in Slots : ServeGateway(s) \/ \E d \in Devices : Accept(s, d)
  BY <1>1, ServingKeepsLinks, SameLinksKeepLinks, AcceptKeepsLinks, SessionEndKeepsLinks
     DEF ServeGateway
<1>2. CASE \E d \in Devices :
              (\E w \in Readings : SendTelemetry(d, w)) \/ Deliver(d) \/ Cut(d)
  BY <1>2, DevicesKeepLinks
<1> QED BY <1>1, <1>2, OthersKeepLinks, SameLinksKeepLinks DEF Next

\* A device and the handler that serves it mean the same connection, a handler
\* ends only when its connection is down, and a slot that is used again carries
\* nothing of the connection before: no gateway gets another one's command.
THEOREM LinksHold == Spec => []LinkInv
<1>1. HubInv /\ DataInv /\ LinkInv /\ [Next]_vars => LinkInv'
  BY LinksHaveTypes, NextKeepsLinks
<1> QED BY InitLinks, <1>1, HubInvariant, DataInvariant, PTL DEF Spec

-----------------------------------------------------------------------------
(* The dashboards' hub.                                                    *)

\* The read lock is held exactly over the pushes.
PushersAreReading ==
    /\ dash_readers = {s \in Slots : pc[s] = "push"}
    /\ \A s \in Slots : pc[s] # "push" => todo[s] = {}

\* The hub has the dashboards whose handlers are between Register() and
\* Unregister(), and a push under way is for no other.
ServedDashboardsAreEntries ==
    /\ dash_clients = {v \in Viewers : vpc[v] \notin {"off", "register"}}
    /\ \A s \in Slots : todo[s] \subseteq dash_clients

\* A dashboard's handler ends only when its connection is down, and a new
\* connection carries nothing of the one before.
DeadViewsCarryNothing ==
    \A v \in Viewers :
        /\ ~vlink[v] => vout[v] = <<>>
        /\ vpc[v] \in {"off", "unregister"} => ~vlink[v]

DashInv == PushersAreReading /\ ServedDashboardsAreEntries /\ DeadViewsCarryNothing

\* With no dashboard there is no push.
LEMMA InitDash == Init => DashInv
  BY DEF Init, DashHubInit, DashInv, PushersAreReading, ServedDashboardsAreEntries,
         DeadViewsCarryNothing

\* What the step lemmas below need of the types.
DashTypes ==
    /\ pc \in [Slots -> PcValues]
    /\ todo \in [Slots -> SUBSET Viewers]
    /\ dash_clients \subseteq Viewers
    /\ vpc \in [Viewers -> {"off", "register", "snapshot", "first", "open",
                            "unregister"}]
    /\ vlink \in [Viewers -> BOOLEAN]
    /\ vout \in [Viewers -> Seq(Statuses)]

\* The two invariants proved above give them.
LEMMA DashboardsHaveTypes == HubInv /\ DataInv => DashTypes
  BY DEF HubInv, HubType, DataInv, SlotTypes, ViewerTypes, QueueTypes, DashTypes

\* Most steps start and end no push, and leave the dashboards alone.
SameDash ==
    /\ UNCHANGED <<dash_clients, dash_readers, todo, vpc, vlink, vout>>
    /\ \A s \in Slots : pc'[s] = "push" <=> pc[s] = "push"

\* Such a step keeps the invariant of the dashboards' hub.
LEMMA SameDashKeepsDash == ASSUME DashInv, SameDash PROVE DashInv'
<1> USE DEF DashInv, SameDash
<1>1. PushersAreReading'
  BY DEF PushersAreReading
<1>2. ServedDashboardsAreEntries'
  BY DEF ServedDashboardsAreEntries
<1>3. DeadViewsCarryNothing'
  BY DEF DeadViewsCarryNothing
<1> QED BY <1>1, <1>2, <1>3

\* A gateway's handler, but for its pushes, is at such a step.
LEMMA ServingKeepsDash ==
    ASSUME DashTypes, NEW s \in Slots,
           \/ SessionStart(s) \/ SessionEnd(s) \/ (\E d \in Devices : Accept(s, d))
           \/ ReadError(s) \/ ReadFrame(s) \/ BuildStatus(s) \/ UpdateStatus(s)
           \/ GetAll(s) \/ BuildAck(s) \/ WriteAck(s)
    PROVE  SameDash
<1> USE DEF DashTypes, SameDash, dashHubVars, viewerVars
<1>1. CASE SessionStart(s)
  BY <1>1 DEF SessionStart
<1>2. CASE SessionEnd(s)
  BY <1>2 DEF SessionEnd
<1>3. CASE \E d \in Devices : Accept(s, d)
  BY <1>3 DEF Accept
<1>4. CASE ReadError(s)
  BY <1>4 DEF ReadError
<1>5. CASE ReadFrame(s)
  BY <1>5 DEF ReadFrame
<1>6. CASE BuildStatus(s)
  BY <1>6 DEF BuildStatus
<1>7. CASE UpdateStatus(s)
  BY <1>7 DEF UpdateStatus
<1>8. CASE GetAll(s)
  BY <1>8 DEF GetAll
<1>9. CASE BuildAck(s)
  BY <1>9 DEF BuildAck
<1>10. CASE WriteAck(s)
  BY <1>10 DEF WriteAck
<1> QED BY <1>1, <1>2, <1>3, <1>4, <1>5, <1>6, <1>7, <1>8, <1>9, <1>10

\* A broadcast takes the lock, writes to the entries there are, and gives it back.
LEMMA FanoutKeepsDash ==
    ASSUME DashTypes, DashInv, NEW s \in Slots,
           FanoutStart(s) \/ (\E v \in Viewers : Push(s, v)) \/ FanoutEnd(s)
    PROVE  DashInv'
<1> USE DEF DashTypes
<1>1. CASE FanoutStart(s)
  <2>1. /\ pc[s] = "fanout" /\ pc' = [pc EXCEPT ![s] = "push"]
        /\ dash_readers' = dash_readers \cup {s}
        /\ todo' = [todo EXCEPT ![s] = dash_clients]
        /\ UNCHANGED <<dash_clients, vpc, vlink, vout>>
    BY <1>1 DEF FanoutStart, DashReadLock, viewerVars
  <2>2. PushersAreReading'
    BY <2>1 DEF DashInv, PushersAreReading
  <2>3. ServedDashboardsAreEntries'
    BY <2>1 DEF DashInv, ServedDashboardsAreEntries
  <2>4. DeadViewsCarryNothing'
    BY <2>1 DEF DashInv, DeadViewsCarryNothing
  <2> QED BY <2>2, <2>3, <2>4 DEF DashInv
<1>2. CASE \E v \in Viewers : Push(s, v)
  <2>1. PICK v \in Viewers : Push(s, v)
    BY <1>2
  <2>2. /\ pc[s] = "push" /\ todo' = [todo EXCEPT ![s] = @ \ {v}]
        /\ UNCHANGED <<pc, dash_clients, dash_readers, vpc, vlink>>
    BY <2>1 DEF Push, dashHubVars
  <2>3. \A u \in Viewers : ~vlink[u] => vout'[u] = vout[u]
    <3>1. CASE vlink[v] /\ vout' = [vout EXCEPT ![v] = Append(@, snap[s])]
      <4> SUFFICES ASSUME NEW u \in Viewers, ~vlink[u] PROVE vout'[u] = vout[u]
        OBVIOUS
      <4>1. u # v
        BY <3>1
      <4> QED BY <3>1, <4>1
    <3>2. CASE UNCHANGED vout
      BY <3>2
    <3> QED BY <2>1, <3>1, <3>2 DEF Push
  <2>4. PushersAreReading'
    BY <2>2 DEF DashInv, PushersAreReading
  <2>5. ServedDashboardsAreEntries'
    BY <2>2 DEF DashInv, ServedDashboardsAreEntries
  <2>6. DeadViewsCarryNothing'
    BY <2>2, <2>3 DEF DashInv, DeadViewsCarryNothing
  <2> QED BY <2>4, <2>5, <2>6 DEF DashInv
<1>3. CASE FanoutEnd(s)
  <2>1. /\ pc[s] = "push" /\ todo[s] = {} /\ pc' = [pc EXCEPT ![s] = "ack"]
        /\ dash_readers' = dash_readers \ {s}
        /\ UNCHANGED <<todo, dash_clients, vpc, vlink, vout>>
    BY <1>3 DEF FanoutEnd, DashReadUnlock, viewerVars
  <2>2. PushersAreReading'
    BY <2>1 DEF DashInv, PushersAreReading
  <2>3. ServedDashboardsAreEntries'
    BY <2>1 DEF DashInv, ServedDashboardsAreEntries
  <2>4. DeadViewsCarryNothing'
    BY <2>1 DEF DashInv, DeadViewsCarryNothing
  <2> QED BY <2>2, <2>3, <2>4 DEF DashInv
<1> QED BY <1>1, <1>2, <1>3

\* A dashboard comes and goes under the write lock, when no push is under way.
LEMMA DashboardsKeepDash ==
    ASSUME DashTypes, DashInv, NEW v \in Viewers,
           ServeDashboard(v) \/ DashAccept(v) \/ ViewerReads(v) \/ ViewerLeaves(v)
    PROVE  DashInv'
<1> USE DEF DashTypes
<1>1. UNCHANGED <<pc, todo, dash_readers>>
  BY DEF ServeDashboard, DashSession, DashStart, DashRegister, DashGetAll, DashFirst,
         DashReadError, DashEnd, DashUnregister, DashAccept, ViewerReads, ViewerLeaves,
         slotVars, dashHubVars
<1>2. PushersAreReading'
  BY <1>1 DEF DashInv, PushersAreReading
<1>3. ServedDashboardsAreEntries'
  <2>1. CASE DashStart(v)
    BY <1>1, <2>1 DEF DashStart, DashRegister, DashInv, ServedDashboardsAreEntries
  <2>2. CASE DashEnd(v)
    <3>1. \A s \in Slots : todo[s] = {}
      BY <2>2 DEF DashEnd, DashUnregister, DashInv, PushersAreReading
    <3> QED BY <1>1, <2>2, <3>1
            DEF DashEnd, DashUnregister, DashInv, ServedDashboardsAreEntries
  <2>3. CASE DashAccept(v)
    BY <1>1, <2>3 DEF DashAccept, dashHubVars, DashInv, ServedDashboardsAreEntries
  <2>4. CASE DashSession(v)
    BY <1>1, <2>4 DEF DashSession, DashGetAll, DashFirst, DashReadError, dashHubVars,
                      DashInv, ServedDashboardsAreEntries
  <2>5. CASE ViewerReads(v) \/ ViewerLeaves(v)
    BY <1>1, <2>5 DEF ViewerReads, ViewerLeaves, dashHubVars, DashInv,
                      ServedDashboardsAreEntries
  <2> QED BY <2>1, <2>2, <2>3, <2>4, <2>5 DEF ServeDashboard
<1>4. DeadViewsCarryNothing'
  <2> USE DEF DashInv, DeadViewsCarryNothing
  <2>1. CASE DashStart(v) \/ DashEnd(v)
    BY <2>1 DEF DashStart, DashEnd
  <2>2. CASE DashAccept(v)
    BY <2>2 DEF DashAccept
  <2>3. CASE DashGetAll(v) \/ DashReadError(v)
    BY <2>3 DEF DashGetAll, DashReadError
  <2>4. CASE DashFirst(v)
    BY <2>4 DEF DashFirst
  <2>5. CASE ViewerReads(v)
    BY <2>5 DEF ViewerReads
  <2>6. CASE ViewerLeaves(v)
    BY <2>6 DEF ViewerLeaves
  <2> QED BY <2>1, <2>2, <2>3, <2>4, <2>5, <2>6 DEF ServeDashboard, DashSession
<1> QED BY <1>2, <1>3, <1>4 DEF DashInv

\* The callers and the devices touch nothing of it.
LEMMA OthersKeepDash ==
    ASSUME \/ UNCHANGED vars
           \/ \E c \in Callers : Broadcast(c) \/ \E active \in BOOLEAN : SetFlag(c, active)
           \/ \E d \in Devices :
                 (\E w \in Readings : SendTelemetry(d, w)) \/ Deliver(d) \/ Cut(d)
    PROVE  SameDash
  BY DEF vars, slotVars, viewerVars, dashHubVars, Broadcast, BroadcastStart, BroadcastTo,
         BroadcastEnd, SetFlag, SendTelemetry, Deliver, Cut, SameDash

\* Every step keeps the invariant of the dashboards' hub.
LEMMA NextKeepsDash == ASSUME DashTypes, DashInv, [Next]_vars PROVE DashInv'
<1>1. CASE \E s \in Slots : ServeGateway(s) \/ \E d \in Devices : Accept(s, d)
  BY <1>1, ServingKeepsDash, SameDashKeepsDash, FanoutKeepsDash
     DEF ServeGateway, HandleFrame
<1>2. CASE \E v \in Viewers :
              ServeDashboard(v) \/ DashAccept(v) \/ ViewerReads(v) \/ ViewerLeaves(v)
  BY <1>2, DashboardsKeepDash
<1> QED BY <1>1, <1>2, OthersKeepDash, SameDashKeepsDash DEF Next

\* No push goes to a dashboard whose handler has returned, and the read lock is
\* held for the pushes alone.
THEOREM DashboardHubHolds == Spec => []DashInv
<1>1. HubInv /\ DataInv /\ DashInv /\ [Next]_vars => DashInv'
  BY DashboardsHaveTypes, NextKeepsDash
<1> QED BY InitDash, <1>1, HubInvariant, DataInvariant, PTL DEF Spec

-----------------------------------------------------------------------------
(* Why no lock is held for ever.                                           *)

\* Who holds the read lock of the gateways' hub waits for no lock: only for a
\* gateway that is connected and has frames to read.
BroadcastsWaitForGateways ==
    \A c \in hub_readers :
        /\ cpc[c] = "write"
        /\ \A s \in ctodo[c] :
              \/ ~link[s] \/ Len(out[s]) < Window
              \/ owner[s] \in Devices /\ conn[owner[s]] = s /\ out[s] # <<>>

\* Who holds that of the dashboards' hub waits, likewise, only for a dashboard
\* that is connected, is served, and has pushes to read.
PushesWaitForDashboards ==
    \A s \in dash_readers :
        /\ pc[s] = "push"
        /\ \A v \in todo[s] :
              /\ vpc[v] \in {"snapshot", "first", "open", "unregister"}
              /\ ~vlink[v] \/ Len(vout[v]) < Window \/ vout[v] # <<>>

LocksAreReleased == BroadcastsWaitForGateways /\ PushesWaitForDashboards

\* A queue without room is not empty.
LEMMA FullIsNotEmpty ==
    ASSUME NEW T, NEW q \in Seq(T) PROVE Len(q) < Window \/ q # <<>>
<1>1. Len(<<>>) = 0
  OBVIOUS
<1>2. 0 < Window
  BY BoundsAssumption
<1> QED BY <1>1, <1>2

\* No circle of goroutines that wait for each other: no holder of a hub's lock
\* waits for another lock, so each one goes on as its peers read or leave.  This
\* is the safety half of FrameIsAcknowledged.
THEOREM LocksAreReleasedHolds == Spec => []LocksAreReleased
<1>1. HubInv /\ DataInv /\ LinkInv => BroadcastsWaitForGateways
  <2> SUFFICES ASSUME HubInv, DataInv, LinkInv, NEW c \in hub_readers
               PROVE  /\ cpc[c] = "write"
                      /\ \A s \in ctodo[c] :
                            \/ ~link[s] \/ Len(out[s]) < Window
                            \/ owner[s] \in Devices /\ conn[owner[s]] = s /\ out[s] # <<>>
    BY DEF BroadcastsWaitForGateways
  <2>1. c \in Callers /\ cpc[c] = "write" /\ ctodo[c] \subseteq Slots
    BY DEF HubInv, HubType, ReadersAreWriting
  <2> SUFFICES ASSUME NEW s \in ctodo[c], link[s]
               PROVE  \/ Len(out[s]) < Window
                      \/ owner[s] \in Devices /\ conn[owner[s]] = s /\ out[s] # <<>>
    BY <2>1
  <2>2. s \in Slots /\ out[s] \in Seq(Frames)
    BY <2>1 DEF DataInv, QueueTypes
  <2>3. owner[s] \in Devices /\ conn[owner[s]] = s
    BY <2>2 DEF HubInv, ServedHaveOwners, LinkInv, LiveLinksAreServed
  <2> QED BY <2>2, <2>3, FullIsNotEmpty
<1>2. DataInv /\ DashInv => PushesWaitForDashboards
  <2> SUFFICES ASSUME DataInv, DashInv, NEW s \in dash_readers
               PROVE  /\ pc[s] = "push"
                      /\ \A v \in todo[s] :
                            /\ vpc[v] \in {"snapshot", "first", "open", "unregister"}
                            /\ ~vlink[v] \/ Len(vout[v]) < Window \/ vout[v] # <<>>
    BY DEF PushesWaitForDashboards
  <2>1. s \in Slots /\ pc[s] = "push"
    BY DEF DashInv, PushersAreReading
  <2> SUFFICES ASSUME NEW v \in todo[s]
               PROVE  /\ vpc[v] \in {"snapshot", "first", "open", "unregister"}
                      /\ ~vlink[v] \/ Len(vout[v]) < Window \/ vout[v] # <<>>
    BY <2>1
  <2>2. v \in Viewers /\ vpc[v] \notin {"off", "register"}
    BY <2>1 DEF DashInv, ServedDashboardsAreEntries
  <2>3. vout[v] \in Seq(Statuses)
    BY <2>2 DEF DataInv, QueueTypes
  <2>4. vpc[v] \in {"snapshot", "first", "open", "unregister"}
    BY <2>2 DEF DataInv, ViewerTypes
  <2> QED BY <2>3, <2>4, FullIsNotEmpty
<1> QED BY <1>1, <1>2, HubInvariant, DataInvariant, LinksHold, DashboardHubHolds, PTL
        DEF LocksAreReleased

-----------------------------------------------------------------------------
(* Nothing undoes what has settled.                                        *)

\* What a queue does to a property of all its frames.
LEMMA QueueKeeps ==
    ASSUME NEW T, NEW q \in Seq(T), NEW G, \A i \in 1 .. Len(q) : q[i] \in G
    PROVE  /\ \A x \in T : x \in G =>
                  \A i \in 1 .. Len(Append(q, x)) : Append(q, x)[i] \in G
           /\ q # <<>> => Head(q) \in G /\ \A i \in 1 .. Len(Tail(q)) : Tail(q)[i] \in G
<1>1. Len(q) \in Nat
  OBVIOUS
<1>2. ASSUME NEW x \in T, x \in G, NEW i \in 1 .. Len(Append(q, x))
      PROVE  Append(q, x)[i] \in G
  <2>1. Len(Append(q, x)) = Len(q) + 1
    OBVIOUS
  <2>2. CASE i = Len(q) + 1
    BY <1>2, <2>2
  <2>3. CASE i \in 1 .. Len(q)
    BY <2>3
  <2> QED BY <1>1, <1>2, <2>1, <2>2, <2>3
<1>3. ASSUME q # <<>>
      PROVE  Head(q) \in G /\ \A i \in 1 .. Len(Tail(q)) : Tail(q)[i] \in G
  <2>1. Len(q) >= 1 /\ Head(q) = q[1]
    BY <1>3
  <2>2. Len(Tail(q)) = Len(q) - 1 /\ \A i \in 1 .. Len(q) - 1 : Tail(q)[i] = q[i + 1]
    BY <1>3
  <2> QED BY <1>1, <2>1, <2>2
<1> QED BY <1>2, <1>3

\* The frames that carry a flag.
FramesWith(flag) == {frame \in Frames : frame.active = flag}

\* A gateway follows the operator and nothing under way says otherwise: no call is in
\* progress, and the frames it has not read, or the acknowledgment about to be
\* written, carry the flag as it is.
Follows(d) ==
    /\ \A c \in Callers : cpc[c] = "idle"
    /\ applied[d] = peakStress
    /\ conn[d] # NoSlot =>
          /\ \A i \in 1 .. Len(out[conn[d]]) : out[conn[d]][i] \in FramesWith(peakStress)
          /\ pc[conn[d]] = "ack_write" => seen[conn[d]] = peakStress

\* Only a call of the operator, or a link that breaks, changes that.
KeepsFollowing ==
    [][\A d \in Devices :
          Follows(d) /\ calls' = calls /\ cuts' = cuts => Follows(d)']_vars

\* A step that leaves alone what Follows is about.
LEMMA SameFollows ==
    ASSUME NEW d \in Devices, Follows(d),
           UNCHANGED <<cpc, peakStress, applied, conn, out>>,
           conn[d] # NoSlot /\ pc'[conn[d]] = "ack_write" =>
               \/ pc[conn[d]] = "ack_write" /\ seen'[conn[d]] = seen[conn[d]]
               \/ seen'[conn[d]] = peakStress
    PROVE  Follows(d)'
  BY DEF Follows, FramesWith

\* The handlers: an acknowledgment is made with the flag as it is.
LEMMA ServingKeepsFollowing ==
    ASSUME LinkTypes, DataInv, NEW d \in Devices, Follows(d), NEW s \in Slots,
           ServeGateway(s)
    PROVE  Follows(d)'
<1> USE DEF callerVars, deviceVars
<1>0. /\ pc \in [Slots -> PcValues] /\ conn[d] \in Slots \cup {NoSlot}
      /\ seen \in [Slots -> BOOLEAN] /\ out \in [Slots -> Seq(Frames)]
  BY DEF LinkTypes, DataInv, SlotTypes
<1>1. CASE WriteAck(s)
  <2>1. /\ pc[s] = "ack_write" /\ pc' = [pc EXCEPT ![s] = "read"]
        /\ seen' = [seen EXCEPT ![s] = FALSE]
        /\ \/ out' = [out EXCEPT ![s] = Append(@, [type |-> "ack", active |-> seen[s]])]
           \/ UNCHANGED out
        /\ UNCHANGED <<cpc, peakStress, applied, conn>>
    BY <1>1 DEF WriteAck, Send
  <2>2. CASE conn[d] = s /\ conn[d] # NoSlot
    <3>1. [type |-> "ack", active |-> seen[s]] \in Frames
          /\ [type |-> "ack", active |-> seen[s]] \in FramesWith(peakStress)
      BY <1>0, <2>1, <2>2 DEF Follows, Frames, FramesWith
    <3>2. \A i \in 1 .. Len(out[s]) : out[s][i] \in FramesWith(peakStress)
      BY <2>2 DEF Follows
    <3>3. \A i \in 1 .. Len(out'[s]) : out'[s][i] \in FramesWith(peakStress)
      <4>1. CASE UNCHANGED out
        BY <3>2, <4>1
      <4>2. CASE out' = [out EXCEPT ![s] = Append(@, [type |-> "ack", active |-> seen[s]])]
        <5>1. out'[s] = Append(out[s], [type |-> "ack", active |-> seen[s]])
          BY <1>0, <4>2
        <5>2. out[s] \in Seq(Frames)
          BY <1>0
        <5> QED BY <3>1, <3>2, <5>1, <5>2, QueueKeeps
      <4> QED BY <2>1, <4>1, <4>2
    <3> QED BY <1>0, <2>1, <2>2, <3>3 DEF Follows, FramesWith
  <2>3. CASE conn[d] # s
    <3>1. conn[d] # NoSlot => /\ out'[conn[d]] = out[conn[d]]
                              /\ pc'[conn[d]] = pc[conn[d]]
                              /\ seen'[conn[d]] = seen[conn[d]]
      BY <1>0, <2>1, <2>3
    <3> QED BY <2>1, <3>1 DEF Follows, FramesWith
  <2>4. CASE conn[d] = NoSlot
    BY <2>1, <2>4 DEF Follows
  <2> QED BY <2>2, <2>3, <2>4
<1>2. CASE BuildAck(s)
  BY <1>0, <1>2, SameFollows DEF BuildAck
<1>3. CASE SessionStart(s)
  BY <1>0, <1>3, SameFollows DEF SessionStart
<1>4. CASE SessionEnd(s)
  BY <1>0, <1>4, SameFollows DEF SessionEnd
<1>5. CASE ReadError(s) \/ ReadFrame(s)
  BY <1>0, <1>5, SameFollows DEF ReadError, ReadFrame
<1>6. CASE BuildStatus(s) \/ UpdateStatus(s)
  BY <1>0, <1>6, SameFollows DEF BuildStatus, UpdateStatus
<1>7. CASE GetAll(s) \/ FanoutStart(s)
  BY <1>0, <1>7, SameFollows DEF GetAll, FanoutStart
<1>8. CASE (\E v \in Viewers : Push(s, v)) \/ FanoutEnd(s)
  BY <1>0, <1>8, SameFollows DEF Push, FanoutEnd
<1> QED BY <1>1, <1>2, <1>3, <1>4, <1>5, <1>6, <1>7, <1>8 DEF ServeGateway, HandleFrame

\* A new connection carries nothing yet, and nobody else's becomes the device's.
LEMMA AcceptKeepsFollowing ==
    ASSUME LinkTypes, LinkInv, NEW d \in Devices, Follows(d),
           NEW s \in Slots, NEW e \in Devices, Accept(s, e)
    PROVE  Follows(d)'
<1>1. /\ pc[s] = "free" /\ pc' = [pc EXCEPT ![s] = "register"]
      /\ conn' = [conn EXCEPT ![e] = s]
      /\ UNCHANGED <<cpc, peakStress, applied, out, seen>>
  BY DEF Accept, callerVars
<1>2. out[s] = <<>>
  BY <1>1 DEF LinkInv, LiveLinksAreServed, DeadLinksCarryNothing
<1>3. CASE d = e
  <2>1. conn'[d] = s /\ pc'[s] = "register"
    BY <1>1, <1>3 DEF LinkTypes
  <2>2. \A i \in 1 .. Len(out[s]) : FALSE
    <3>1. Len(<<>>) = 0
      OBVIOUS
    <3> QED BY <1>2, <3>1
  <2> QED BY <1>1, <2>1, <2>2 DEF Follows
<1>4. CASE d # e
  <2>1. conn'[d] = conn[d]
    BY <1>1, <1>4 DEF LinkTypes
  <2>2. \A t \in Slots : pc'[t] = "ack_write" => pc[t] = "ack_write"
    BY <1>1 DEF LinkTypes
  <2>3. conn[d] \in Slots \cup {NoSlot}
    BY DEF LinkTypes
  <2> QED BY <1>1, <2>1, <2>2, <2>3 DEF Follows, FramesWith
<1> QED BY <1>3, <1>4

\* A device that reads its next frame follows it, and it carries the flag as it is.
LEMMA DeliverKeepsFollowing ==
    ASSUME LinkTypes, LinkInv, DataInv, NEW d \in Devices, Follows(d),
           NEW e \in Devices, Deliver(e)
    PROVE  Follows(d)'
<1>1. /\ conn[e] # NoSlot /\ out[conn[e]] # <<>>
      /\ applied' = [applied EXCEPT ![e] = Head(out[conn[e]]).active]
      /\ out' = [out EXCEPT ![conn[e]] = Tail(@)]
      /\ UNCHANGED <<cpc, peakStress, conn, pc, seen>>
  BY DEF Deliver, callerVars
<1>2. conn[e] \in Slots /\ out[conn[e]] \in Seq(Frames) /\ conn[d] \in Slots \cup {NoSlot}
  BY <1>1 DEF LinkTypes
<1>3. CASE d = e
  <2>1. \A i \in 1 .. Len(out[conn[d]]) : out[conn[d]][i] \in FramesWith(peakStress)
    BY <1>1, <1>3 DEF Follows
  <2>2. /\ Head(out[conn[d]]) \in FramesWith(peakStress)
        /\ \A i \in 1 .. Len(Tail(out[conn[d]])) :
              Tail(out[conn[d]])[i] \in FramesWith(peakStress)
    BY <1>1, <1>2, <1>3, <2>1, QueueKeeps
  <2>3. out'[conn[d]] = Tail(out[conn[d]])
    BY <1>1, <1>2, <1>3 DEF LinkTypes
  <2>4. applied'[d] = peakStress
    BY <1>1, <1>3, <2>2 DEF FramesWith, DataInv, CallerTypes
  <2> QED BY <1>1, <1>2, <1>3, <2>2, <2>3, <2>4 DEF Follows, FramesWith
<1>4. CASE d # e
  <2>1. conn[d] # conn[e] \/ conn[d] = NoSlot
    BY <1>1, <1>4 DEF LinkInv, LinksAreDevices
  <2>2. conn[d] # NoSlot => out'[conn[d]] = out[conn[d]]
    BY <1>1, <1>2, <2>1 DEF LinkTypes
  <2>3. applied'[d] = applied[d]
    BY <1>1, <1>4
  <2> QED BY <1>1, <2>2, <2>3 DEF Follows, FramesWith
<1> QED BY <1>3, <1>4

\* A gateway that follows the operator, with nothing stale on its way to it, goes on
\* following until the next call or the next cut, whatever readings, dashboards and
\* other gateways do: the safety half of GatewaysFollowOperator.
THEOREM KeepsFollowingHolds == Spec => KeepsFollowing
<1>1. ASSUME HubInv, DataInv, LinkInv, [Next]_vars,
             NEW d \in Devices, Follows(d), calls' = calls, cuts' = cuts
      PROVE  Follows(d)'
  <2>0. LinkTypes /\ calls \in Nat /\ cuts \in Nat
    BY <1>1, LinksHaveTypes, BoundsAssumption DEF DataInv, CallerTypes
  <2>1. CASE \E s \in Slots : ServeGateway(s) \/ \E e \in Devices : Accept(s, e)
    BY <1>1, <2>0, <2>1, ServingKeepsFollowing, AcceptKeepsFollowing
  <2>2. CASE \E c \in Callers : Broadcast(c) \/ \E active \in BOOLEAN : SetFlag(c, active)
    <3>1. ASSUME NEW c \in Callers, Broadcast(c) PROVE FALSE
      <4>1. cpc[c] \in {"rlock", "write"}
        BY <3>1 DEF Broadcast, BroadcastStart, BroadcastTo, BroadcastEnd
      <4> QED BY <1>1, <4>1 DEF Follows
    <3>2. ASSUME NEW c \in Callers, NEW active \in BOOLEAN, SetFlag(c, active) PROVE FALSE
      <4>1. calls' = calls + 1
        BY <3>2 DEF SetFlag
      <4> QED BY <1>1, <2>0, <4>1
    <3> QED BY <2>2, <3>1, <3>2
  <2>3. CASE \E v \in Viewers :
                ServeDashboard(v) \/ DashAccept(v) \/ ViewerReads(v) \/ ViewerLeaves(v)
    <3>1. UNCHANGED <<cpc, peakStress, applied, conn, out, pc, seen>>
      BY <2>3 DEF ServeDashboard, DashSession, DashStart, DashGetAll, DashFirst,
                  DashReadError, DashEnd, DashAccept, ViewerReads, ViewerLeaves,
                  slotVars, callerVars, deviceVars
    <3> QED BY <1>1, <3>1, SameFollows
  <2>4. CASE \E e \in Devices : \E w \in Readings : SendTelemetry(e, w)
    BY <1>1, <2>4, SameFollows DEF SendTelemetry, callerVars, deviceVars
  <2>5. CASE \E e \in Devices : Deliver(e)
    BY <1>1, <2>0, <2>5, DeliverKeepsFollowing
  <2>6. CASE \E e \in Devices : Cut(e)
    BY <1>1, <2>0, <2>6 DEF Cut
  <2>7. CASE UNCHANGED vars
    BY <1>1, <2>7, SameFollows DEF vars, slotVars, callerVars, deviceVars
  <2> QED BY <1>1, <2>1, <2>2, <2>3, <2>4, <2>5, <2>6, <2>7 DEF Next
<1>2. HubInv /\ DataInv /\ LinkInv /\ [Next]_vars =>
          [\A d \in Devices :
              Follows(d) /\ calls' = calls /\ cuts' = cuts => Follows(d)']_vars
  BY <1>1
<1> QED BY <1>2, HubInvariant, DataInvariant, LinksHold, PTL DEF Spec, KeepsFollowing

\* A dashboard shows the statuses of the store and nothing under way says otherwise:
\* neither a push it has not read, nor a copy a handler is about to write.
Shows(v) ==
    /\ shown[v] = status
    /\ \A i \in 1 .. Len(vout[v]) : vout[v][i] \in {status}
    /\ \A s \in Slots : pc[s] \in {"fanout", "push"} => snap[s] = status
    /\ vpc[v] = "first" => vsnap[v] = status

\* Only a reading that changes the statuses, or the dashboard itself, changes that.
KeepsShowing ==
    [][\A v \in Viewers :
          Shows(v) /\ status' = status /\ vlink'[v] = vlink[v] => Shows(v)']_vars

\* What the step lemmas below need of the types.
ShowTypes ==
    /\ pc \in [Slots -> PcValues]
    /\ snap \in [Slots -> Statuses]
    /\ vpc \in [Viewers -> {"off", "register", "snapshot", "first", "open",
                            "unregister"}]
    /\ vlink \in [Viewers -> BOOLEAN]
    /\ vout \in [Viewers -> Seq(Statuses)]
    /\ vsnap \in [Viewers -> Statuses] /\ shown \in [Viewers -> Statuses]
    /\ status \in Statuses

\* The two invariants proved above give them.
LEMMA ShowsHaveTypes == HubInv /\ DataInv => ShowTypes
  BY DEF HubInv, HubType, DataInv, StoreTypes, SlotTypes, ViewerTypes, QueueTypes, ShowTypes

\* A step of a handler that leaves the dashboards alone, and makes no old copy.
LEMMA SameShows ==
    ASSUME ShowTypes, NEW v \in Viewers, Shows(v), status' = status,
           UNCHANGED <<shown, vout, vpc, vsnap>>,
           \A s \in Slots : pc'[s] \in {"fanout", "push"} =>
               \/ pc[s] \in {"fanout", "push"} /\ snap'[s] = snap[s]
               \/ snap'[s] = status
    PROVE  Shows(v)'
  BY DEF Shows

\* A write of the current statuses to a dashboard, or to none.
LEMMA WriteKeepsShowing ==
    ASSUME ShowTypes, NEW v \in Viewers, Shows(v), status' = status,
           NEW u \in Viewers, NEW x, u = v => x = status,
           \/ vout' = [vout EXCEPT ![u] = Append(@, x)]
           \/ UNCHANGED vout
    PROVE  \A i \in 1 .. Len(vout'[v]) : vout'[v][i] \in {status'}
<1>1. vout[v] \in Seq(Statuses) /\ status \in Statuses
      /\ \A i \in 1 .. Len(vout[v]) : vout[v][i] \in {status}
  BY DEF ShowTypes, Shows
<1>2. CASE vout'[v] = vout[v]
  BY <1>1, <1>2
<1>3. CASE u = v /\ vout' = [vout EXCEPT ![u] = Append(@, x)]
  <2>1. vout'[v] = Append(vout[v], status)
    BY <1>3 DEF ShowTypes
  <2>2. \A i \in 1 .. Len(Append(vout[v], status)) : Append(vout[v], status)[i] \in {status}
    BY <1>1, QueueKeeps
  <2> QED BY <2>1, <2>2
<1>4. CASE u # v
  BY <1>2, <1>4 DEF ShowTypes
<1> QED BY <1>2, <1>3, <1>4

\* The handlers of the gateways: what they copy and push is what the store has.
LEMMA ServingKeepsShowing ==
    ASSUME ShowTypes, NEW v \in Viewers, Shows(v), status' = status, NEW s \in Slots,
           ServeGateway(s) \/ \E d \in Devices : Accept(s, d)
    PROVE  Shows(v)'
<1> USE DEF viewerVars
<1>0. pc \in [Slots -> PcValues] /\ snap \in [Slots -> Statuses]
  BY DEF ShowTypes
<1>1. CASE \E u \in Viewers : Push(s, u)
  <2>1. PICK u \in Viewers : Push(s, u)
    BY <1>1
  <2>2. /\ pc[s] = "push" /\ UNCHANGED <<pc, snap, shown, vpc, vsnap>>
        /\ \/ vout' = [vout EXCEPT ![u] = Append(@, snap[s])]
           \/ UNCHANGED vout
    BY <2>1 DEF Push
  <2>3. snap[s] = status
    BY <2>2 DEF Shows
  <2>4. \A i \in 1 .. Len(vout'[v]) : vout'[v][i] \in {status'}
    BY <2>2, <2>3, WriteKeepsShowing
  <2> QED BY <2>2, <2>4 DEF Shows
<1>2. CASE SessionStart(s) \/ SessionEnd(s) \/ \E d \in Devices : Accept(s, d)
  BY <1>0, <1>2, SameShows DEF SessionStart, SessionEnd, Accept
<1>3. CASE ReadError(s) \/ ReadFrame(s)
  BY <1>0, <1>3, SameShows DEF ReadError, ReadFrame
<1>4. CASE BuildStatus(s) \/ UpdateStatus(s)
  BY <1>0, <1>4, SameShows DEF BuildStatus, UpdateStatus
<1>5. CASE GetAll(s) \/ FanoutStart(s)
  BY <1>0, <1>5, SameShows DEF GetAll, FanoutStart
<1>6. CASE FanoutEnd(s)
  BY <1>0, <1>6, SameShows DEF FanoutEnd
<1>7. CASE BuildAck(s) \/ WriteAck(s)
  BY <1>0, <1>7, SameShows DEF BuildAck, WriteAck
<1> QED BY <1>1, <1>2, <1>3, <1>4, <1>5, <1>6, <1>7 DEF ServeGateway, HandleFrame

\* The dashboards: the first copy is the store's, and what is read is what is shown.
LEMMA DashboardsKeepShowing ==
    ASSUME ShowTypes, NEW v \in Viewers, Shows(v), status' = status,
           vlink'[v] = vlink[v], NEW u \in Viewers,
           ServeDashboard(u) \/ DashAccept(u) \/ ViewerReads(u) \/ ViewerLeaves(u)
    PROVE  Shows(v)'
<1> USE DEF slotVars
<1>0. UNCHANGED <<pc, snap>>
  BY DEF ServeDashboard, DashSession, DashStart, DashGetAll, DashFirst, DashReadError,
         DashEnd, DashAccept, ViewerReads, ViewerLeaves
<1>1. CASE DashFirst(u)
  <2>1. /\ vpc[u] = "first" /\ vpc' = [vpc EXCEPT ![u] = "open"]
        /\ vsnap' = [vsnap EXCEPT ![u] = NoStatuses]
        /\ UNCHANGED shown
        /\ \/ vout' = [vout EXCEPT ![u] = Append(@, vsnap[u])]
           \/ UNCHANGED vout
    BY <1>1 DEF DashFirst
  <2>2. u = v => vsnap[u] = status
    BY <2>1 DEF Shows
  <2>3. \A i \in 1 .. Len(vout'[v]) : vout'[v][i] \in {status'}
    BY <2>1, <2>2, WriteKeepsShowing
  <2>4. vpc'[v] = "first" => vsnap'[v] = status
    BY <2>1 DEF Shows, ShowTypes
  <2> QED BY <1>0, <2>1, <2>3, <2>4 DEF Shows
<1>2. CASE DashGetAll(u)
  <2>1. vpc'[v] = "first" => vsnap'[v] = status
    BY <1>2 DEF DashGetAll, Shows, ShowTypes
  <2> QED BY <1>0, <1>2, <2>1 DEF DashGetAll, Shows
<1>3. CASE DashStart(u) \/ DashReadError(u) \/ DashEnd(u) \/ DashAccept(u)
  <2>1. UNCHANGED <<shown, vout, vsnap>> /\ (vpc'[v] = "first" => vpc[v] = "first")
    BY <1>3 DEF DashStart, DashReadError, DashEnd, DashAccept, ShowTypes
  <2> QED BY <1>0, <2>1 DEF Shows
<1>4. CASE ViewerReads(u)
  <2>1. /\ vout[u] # <<>> /\ shown' = [shown EXCEPT ![u] = Head(vout[u])]
        /\ vout' = [vout EXCEPT ![u] = Tail(@)] /\ UNCHANGED <<vpc, vsnap>>
    BY <1>4 DEF ViewerReads
  <2>2. CASE u = v
    <3>1. shown'[v] = Head(vout[v]) /\ vout'[v] = Tail(vout[v])
      BY <2>1, <2>2 DEF ShowTypes
    <3>2. /\ Head(vout[v]) \in {status}
          /\ \A i \in 1 .. Len(Tail(vout[v])) : Tail(vout[v])[i] \in {status}
      <4>1. vout[v] \in Seq(Statuses)
            /\ \A i \in 1 .. Len(vout[v]) : vout[v][i] \in {status}
        BY DEF ShowTypes, Shows
      <4> QED BY <2>1, <2>2, <4>1, QueueKeeps
    <3> QED BY <1>0, <2>1, <3>1, <3>2 DEF Shows
  <2>3. CASE u # v
    <3>1. shown'[v] = shown[v] /\ vout'[v] = vout[v]
      BY <2>1, <2>3 DEF ShowTypes
    <3> QED BY <1>0, <2>1, <3>1 DEF Shows
  <2> QED BY <2>2, <2>3
<1>5. CASE ViewerLeaves(u)
  <2>1. u # v
    BY <1>5 DEF ViewerLeaves, ShowTypes
  <2>2. /\ shown'[v] = shown[v] /\ vout'[v] = vout[v] /\ UNCHANGED <<vpc, vsnap>>
    BY <1>5, <2>1 DEF ViewerLeaves, ShowTypes
  <2> QED BY <1>0, <2>2 DEF Shows
<1> QED BY <1>1, <1>2, <1>3, <1>4, <1>5 DEF ServeDashboard, DashSession

\* A dashboard that shows the store's statuses, with no older copy on its way to it,
\* goes on showing them as long as it stays and no reading changes them, whatever
\* other handlers copy and push: the safety half of DashboardsCatchUp.
THEOREM KeepsShowingHolds == Spec => KeepsShowing
<1>1. ASSUME HubInv, DataInv, [Next]_vars,
             NEW v \in Viewers, Shows(v), status' = status, vlink'[v] = vlink[v]
      PROVE  Shows(v)'
  <2>0. ShowTypes
    BY <1>1, ShowsHaveTypes
  <2>1. CASE \E s \in Slots : ServeGateway(s) \/ \E d \in Devices : Accept(s, d)
    BY <1>1, <2>0, <2>1, ServingKeepsShowing
  <2>2. CASE \E u \in Viewers :
                ServeDashboard(u) \/ DashAccept(u) \/ ViewerReads(u) \/ ViewerLeaves(u)
    BY <1>1, <2>0, <2>2, DashboardsKeepShowing
  <2>3. CASE \/ UNCHANGED vars
             \/ \E c \in Callers :
                   Broadcast(c) \/ \E active \in BOOLEAN : SetFlag(c, active)
             \/ \E d \in Devices :
                   (\E w \in Readings : SendTelemetry(d, w)) \/ Deliver(d) \/ Cut(d)
    <3>1. UNCHANGED <<shown, vout, vpc, vsnap, pc, snap>>
      BY <2>3 DEF vars, slotVars, viewerVars, Broadcast, BroadcastStart, BroadcastTo,
                  BroadcastEnd, SetFlag, SendTelemetry, Deliver, Cut
    <3> QED BY <1>1, <2>0, <3>1, SameShows
  <2> QED BY <1>1, <2>1, <2>2, <2>3 DEF Next
<1>2. HubInv /\ DataInv /\ [Next]_vars =>
          [\A v \in Viewers :
              Shows(v) /\ status' = status /\ vlink'[v] = vlink[v] => Shows(v)']_vars
  BY <1>1
<1> QED BY <1>2, HubInvariant, DataInvariant, PTL DEF Spec, KeepsShowing
=============================================================================
