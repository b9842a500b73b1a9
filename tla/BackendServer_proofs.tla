------------------------- MODULE BackendServer_proofs -------------------------
(***************************************************************************)
(* Proofs about the backend process: for any number of requests, frames    *)
(* and gateways, and any limit of the store.                               *)
(***************************************************************************)
EXTENDS BackendServer, TLAPS

-----------------------------------------------------------------------------
(* The store.                                                              *)

StoreTypes ==
    /\ readings \in [Gateways -> Seq(Reading)]
    /\ log \in [Gateways -> Seq(Reading)]

\* What Store() does to the list and to the log of the gateway it is called for.
LEMMA StoreAppends ==
    ASSUME StoreTypes, NEW g \in Gateways, NEW r \in Reading, Store(g, r)
    PROVE  /\ log' = [log EXCEPT ![g] = Append(log[g], r)]
           /\ log'[g] = Append(log[g], r)
           /\ \A h \in Gateways \ {g} : log'[h] = log[h] /\ readings'[h] = readings[h]
           /\ readings'[g] = IF Len(Append(readings[g], r)) > MaxReadings
                             THEN LastOf(Append(readings[g], r), MaxReadings)
                             ELSE Append(readings[g], r)
  BY DEF Store, StoreTypes

\* The last n of at least n entries.
LEMMA LastOfEntries ==
    ASSUME NEW s \in Seq(Reading), NEW n \in Nat \ {0}, n <= Len(s)
    PROVE  /\ LastOf(s, n) \in Seq(Reading)
           /\ Len(LastOf(s, n)) = n
           /\ \A i \in 1 .. n : LastOf(s, n)[i] = s[Len(s) - n + i]
<1>1. /\ Len(s) \in Nat
      /\ Len(s) - n + 1 \in 1 .. Len(s)
  OBVIOUS
<1>2. LastOf(s, n) = [i \in 1 .. n |-> s[Len(s) - n + i]]
  BY <1>1 DEF LastOf
<1> QED BY <1>1, <1>2

\* Store() keeps the types of list and log.
LEMMA StoreKeepsTypes ==
    ASSUME StoreTypes, NEW g \in Gateways, NEW r \in Reading, Store(g, r),
           KeepsTheLast
    PROVE  StoreTypes'
<1>1. Append(readings[g], r) \in Seq(Reading) /\ Append(log[g], r) \in Seq(Reading)
  BY DEF StoreTypes
<1>2. readings'[g] \in Seq(Reading)
  <2>1. CASE Len(Append(readings[g], r)) > MaxReadings
    <3>0. MaxReadings \in Nat \ {0} /\ MaxReadings <= Len(Append(readings[g], r))
      BY <1>1, <2>1, MaxReadingsAssumption
    <3>1. LastOf(Append(readings[g], r), MaxReadings) \in Seq(Reading)
      BY <1>1, <3>0, LastOfEntries
    <3> QED BY <2>1, <3>1, StoreAppends
  <2>2. CASE ~(Len(Append(readings[g], r)) > MaxReadings)
    BY <1>1, <2>2, StoreAppends
  <2> QED BY <2>1, <2>2
<1> QED BY <1>1, <1>2, StoreAppends DEF Store, StoreTypes

\* Store() keeps the list the end of the log.
LEMMA StoreKeepsTheLast ==
    ASSUME StoreTypes, NEW g \in Gateways, NEW r \in Reading, Store(g, r),
           KeepsTheLast
    PROVE  KeepsTheLast'
<1> DEFINE entries == Append(readings[g], r)
           kept == Len(readings[g])
           all == Len(log[g])
<1>0. /\ log'[g] = Append(log[g], r)
      /\ readings'[g] = IF Len(entries) > MaxReadings THEN LastOf(entries, MaxReadings)
                        ELSE entries
      /\ \A h \in Gateways \ {g} : log'[h] = log[h] /\ readings'[h] = readings[h]
  BY StoreAppends
<1>1. /\ entries \in Seq(Reading) /\ Len(entries) = kept + 1 /\ kept \in Nat /\ all \in Nat
      /\ \A i \in 1 .. kept : entries[i] = readings[g][i]
      /\ entries[kept + 1] = r
  BY DEF StoreTypes
<1>2. /\ Len(log'[g]) = all + 1
      /\ \A i \in 1 .. all : log'[g][i] = log[g][i]
      /\ log'[g][all + 1] = r
  BY <1>0 DEF StoreTypes
<1>3. /\ kept = IF all < MaxReadings THEN all ELSE MaxReadings
      /\ \A i \in 1 .. kept : readings[g][i] = log[g][all - kept + i]
  BY DEF KeepsTheLast, GetLatest
<1> HIDE DEF entries, kept, all
<1>4. \A i \in 1 .. kept + 1 : entries[i] = log'[g][all - kept + i]
  <2> SUFFICES ASSUME NEW i \in 1 .. kept + 1 PROVE entries[i] = log'[g][all - kept + i]
    OBVIOUS
  <2>1. CASE i = kept + 1
    <3>1. all - kept + i = all + 1
      BY <1>1, <2>1
    <3> QED BY <1>1, <1>2, <2>1, <3>1
  <2>2. CASE i # kept + 1
    <3>1. i \in 1 .. kept /\ all - kept + i \in 1 .. all
      BY <1>1, <1>3, <2>2, MaxReadingsAssumption
    <3> QED BY <1>1, <1>2, <1>3, <3>1
  <2> QED BY <2>1, <2>2
<1>5. PICK k \in Nat :
         /\ Len(readings'[g]) = k
         /\ k = IF all + 1 < MaxReadings THEN all + 1 ELSE MaxReadings
         /\ \A i \in 1 .. k : readings'[g][i] = log'[g][all + 1 - k + i]
  <2>1. CASE kept + 1 > MaxReadings
    <3>1. kept = MaxReadings /\ all >= MaxReadings
      BY <1>1, <1>3, <2>1, MaxReadingsAssumption
    <3>2. readings'[g] = LastOf(entries, MaxReadings)
      BY <1>0, <1>1, <2>1
    <3>3. /\ Len(readings'[g]) = MaxReadings
          /\ \A i \in 1 .. MaxReadings : readings'[g][i] = entries[kept + 1 - MaxReadings + i]
      <4>1. MaxReadings \in Nat \ {0} /\ MaxReadings <= Len(entries)
        BY <1>1, <2>1, MaxReadingsAssumption
      <4>2. /\ Len(readings'[g]) = MaxReadings
            /\ \A i \in 1 .. MaxReadings :
                  readings'[g][i] = entries[Len(entries) - MaxReadings + i]
        <5>1. entries \in Seq(Reading)
          BY <1>1
        <5>2. /\ Len(LastOf(entries, MaxReadings)) = MaxReadings
              /\ \A i \in 1 .. MaxReadings :
                    LastOf(entries, MaxReadings)[i] = entries[Len(entries) - MaxReadings + i]
          BY <4>1, <5>1, LastOfEntries
        <5> QED BY <3>2, <5>2
      <4> QED BY <1>1, <4>2
    <3>4. \A i \in 1 .. MaxReadings :
             readings'[g][i] = log'[g][all + 1 - MaxReadings + i]
      <4> SUFFICES ASSUME NEW i \in 1 .. MaxReadings
                   PROVE  readings'[g][i] = log'[g][all + 1 - MaxReadings + i]
        OBVIOUS
      <4>1. kept + 1 - MaxReadings + i = i + 1 /\ i + 1 \in 1 .. kept + 1
        BY <3>1, MaxReadingsAssumption
      <4>2. readings'[g][i] = log'[g][all - kept + (i + 1)]
        BY <1>4, <3>3, <4>1
      <4>3. all - kept + (i + 1) = all + 1 - MaxReadings + i
        BY <1>1, <3>1
      <4> QED BY <4>2, <4>3
    <3> QED BY <1>1, <3>1, <3>3, <3>4, MaxReadingsAssumption
  <2>2. CASE kept + 1 <= MaxReadings
    <3>1. kept = all
      BY <1>1, <1>3, <2>2, MaxReadingsAssumption
    <3>2. readings'[g] = entries
      BY <1>0, <1>1, <2>2, MaxReadingsAssumption
    <3>3. \A i \in 1 .. kept + 1 : readings'[g][i] = log'[g][all + 1 - (kept + 1) + i]
      BY <1>1, <1>4, <3>1, <3>2
    <3> QED BY <1>1, <2>2, <3>1, <3>2, <3>3, MaxReadingsAssumption
  <2> QED BY <1>1, <2>1, <2>2, MaxReadingsAssumption
<1>6. ASSUME NEW h \in Gateways, h # g
      PROVE  readings'[h] = readings[h] /\ log'[h] = log[h]
  BY <1>0, <1>6
<1>7. ASSUME NEW h \in Gateways
      PROVE  LET m == Len(readings'[h])
                 n == Len(log'[h])
             IN  /\ m = IF n < MaxReadings THEN n ELSE MaxReadings
                 /\ \A i \in 1 .. m : readings'[h][i] = log'[h][n - m + i]
  <2>1. CASE h = g
    <3>1. Len(readings'[h]) = k /\ Len(log'[h]) = all + 1
      BY <1>2, <1>5, <2>1
    <3>2. Len(readings'[h]) = IF Len(log'[h]) < MaxReadings THEN Len(log'[h])
                              ELSE MaxReadings
      BY <1>5, <3>1
    <3>3. Len(log'[h]) - Len(readings'[h]) = all + 1 - k
      <4>1. all \in Nat /\ k \in Nat
        BY <1>1, <1>5
      <4> QED BY <3>1, <4>1
    <3>4. \A i \in 1 .. Len(readings'[h]) :
             readings'[h][i] = log'[h][Len(log'[h]) - Len(readings'[h]) + i]
      BY <1>5, <2>1, <3>1, <3>3
    <3> QED BY <3>2, <3>4
  <2>2. CASE h # g
    BY <1>6, <2>2 DEF KeepsTheLast, GetLatest
  <2> QED BY <2>1, <2>2
<1> QED BY <1>7 DEF KeepsTheLast, GetLatest

-----------------------------------------------------------------------------
(* The handlers.                                                           *)

JobTypes ==
    /\ pc \in [Jobs -> {"none", "body", "stamp", "store", "reply", "done"}]
    /\ at \in [Jobs -> Nat]
    /\ answer \in [Jobs -> {"none", "ok", "bad request", "no content"}]
    /\ before \in [Jobs -> SUBSET Jobs]
    /\ clock \in Nat

Places(g) == 1 .. Len(log[g])

\* What was done with before a reading arrived stays done with.
BeforeIsDone == \A j \in Jobs : \A k \in before[j] : pc[k] = "done"

\* What is in the log got there through its handler, under its gateway.
LoggedIsHandled ==
    \A g \in Gateways : \A i \in Places(g) :
        /\ pc[log[g][i].job] \in {"reply", "done"}
        /\ answer[log[g][i].job] = "ok"
        /\ GatewayOf[log[g][i].job] = g
        /\ log[g][i].at <= clock

LoggedOnce ==
    \A g \in Gateways : \A i, k \in Places(g) :
        log[g][i].job = log[g][k].job => i = k

\* The order of the whole log: nothing is stored before what was done with before
\* it arrived.
LoggedAsSent ==
    \A g \in Gateways : \A i, k \in Places(g) :
        /\ i <= k => log[g][k].job \notin before[log[g][i].job]
        /\ i < k /\ log[g][i].job \in before[log[g][k].job] =>
              log[g][i].at < log[g][k].at

\* A stamp not stored yet is later than those of what was done with before.
StampIsFresh ==
    \A j \in Jobs :
        pc[j] = "store" =>
            /\ at[j] <= clock
            /\ \A g \in Gateways : \A i \in Places(g) :
                  log[g][i].job \in before[j] => log[g][i].at < at[j]

OkIsLogged ==
    \A j \in Jobs :
        /\ pc[j] \in {"none", "body", "stamp", "store"} => answer[j] = "none"
        /\ answer[j] = "ok" =>
              \E i \in Places(GatewayOf[j]) : log[GatewayOf[j]][i].job = j

LogInv == LoggedIsHandled /\ LoggedOnce /\ LoggedAsSent
HandlerInv == BeforeIsDone /\ StampIsFresh /\ OkIsLogged

ServerInv == StoreTypes /\ KeepsTheLast /\ JobTypes /\ LogInv /\ HandlerInv

\* An entry of the log is a reading.
LEMMA Entries ==
    ASSUME StoreTypes, NEW g \in Gateways, NEW i \in Places(g)
    PROVE  log[g][i].job \in Jobs /\ log[g][i].at \in Nat
<1>1. log[g] \in Seq(Reading)
  BY DEF StoreTypes
<1>2. log[g][i] \in Reading
  BY <1>1 DEF Places
<1> QED BY <1>2 DEF Reading

\* An empty store, and no reading on its way.
LEMMA InitServer == Init => ServerInv
<1> SUFFICES ASSUME Init PROVE ServerInv
  OBVIOUS
<1>1. \A g \in Gateways : log[g] = <<>> /\ readings[g] = <<>> /\ Len(<<>>) = 0
  BY DEF Init, StoreInit
<1>2. StoreTypes
  <2>1. <<>> \in Seq(Reading)
    OBVIOUS
  <2> QED BY <2>1 DEF Init, StoreInit, StoreTypes
<1>3. KeepsTheLast
  <2>1. \A g \in Gateways : Len(log[g]) = 0 /\ Len(GetLatest(g)) = 0
    BY <1>1 DEF GetLatest
  <2>2. 0 < MaxReadings /\ 1 .. 0 = {}
    BY MaxReadingsAssumption
  <2> QED BY <2>1, <2>2 DEF KeepsTheLast
<1>4. LogInv
  BY <1>1 DEF LogInv, LoggedIsHandled, LoggedOnce, LoggedAsSent, Places
<1>5. JobTypes /\ HandlerInv
  BY DEF Init, JobTypes, HandlerInv, BeforeIsDone, StampIsFresh, OkIsLogged
<1> QED BY <1>2, <1>3, <1>4, <1>5 DEF ServerInv

\* Nothing of this changes while main(), startServer() and signals have their way.
LEMMA SameServer ==
    ASSUME ServerInv, UNCHANGED <<jobVars, storeVars>> PROVE ServerInv'
<1> USE DEF jobVars, storeVars
<1>1. StoreTypes' /\ KeepsTheLast' /\ JobTypes'
  BY DEF ServerInv, StoreTypes, KeepsTheLast, GetLatest, JobTypes
<1>2. LogInv'
  BY DEF ServerInv, LogInv, LoggedIsHandled, LoggedOnce, LoggedAsSent, Places
<1>3. HandlerInv'
  BY DEF ServerInv, HandlerInv, BeforeIsDone, StampIsFresh, OkIsLogged, Places
<1> QED BY <1>1, <1>2, <1>3 DEF ServerInv

\* The steps of a handler that do not touch the store.
Outside(j) == Arrive(j) \/ Preflight(j) \/ Decode(j) \/ Stamp(j) \/ Reply(j)

\* A handler that does not store leaves what the log says true.
LEMMA OutsideKeepsLog ==
    ASSUME ServerInv, NEW j \in Jobs, Outside(j)
    PROVE  StoreTypes' /\ KeepsTheLast' /\ JobTypes' /\ LogInv'
<1>0. StoreTypes /\ KeepsTheLast /\ JobTypes /\ LogInv
  BY DEF ServerInv
<1>1. UNCHANGED storeVars
  BY DEF Outside, Arrive, Preflight, Decode, Stamp, Reply
<1>2. StoreTypes' /\ KeepsTheLast'
  BY <1>0, <1>1 DEF StoreTypes, KeepsTheLast, GetLatest, storeVars
<1>3. JobTypes'
  <2> USE DEF JobTypes
  <2>1. CASE Arrive(j)
    BY <1>0, <2>1 DEF Arrive
  <2>2. CASE Preflight(j)
    BY <1>0, <2>2 DEF Preflight
  <2>3. CASE Decode(j)
    <3>1. /\ pc' = [pc EXCEPT ![j] = "stamp"] \/ pc' = [pc EXCEPT ![j] = "reply"]
          /\ answer' = answer \/ answer' = [answer EXCEPT ![j] = "bad request"]
          /\ UNCHANGED <<at, before, clock>>
      BY <2>3 DEF Decode
    <3>2. pc' \in [Jobs -> {"none", "body", "stamp", "store", "reply", "done"}]
      BY <1>0, <3>1
    <3>3. answer' \in [Jobs -> {"none", "ok", "bad request", "no content"}]
      BY <1>0, <3>1
    <3> QED BY <1>0, <3>1, <3>2, <3>3
  <2>4. CASE Stamp(j)
    <3>1. clock' \in Nat
      <4>1. clock' = clock + 1
        BY <2>4 DEF Stamp
      <4>2. clock \in Nat
        BY <1>0
      <4> QED BY <4>1, <4>2
    <3>2. at' = [at EXCEPT ![j] = clock']
      BY <2>4 DEF Stamp
    <3>3. UNCHANGED <<answer, before>> /\ pc' = [pc EXCEPT ![j] = "store"]
      BY <2>4 DEF Stamp
    <3> QED BY <1>0, <3>1, <3>2, <3>3
  <2>5. CASE Reply(j)
    BY <1>0, <2>5 DEF Reply
  <2> QED BY <2>1, <2>2, <2>3, <2>4, <2>5 DEF Outside
<1>4. clock <= clock'
  <2>1. clock' = clock \/ clock' = clock + 1
    BY DEF Outside, Arrive, Preflight, Decode, Stamp, Reply
  <2>2. clock \in Nat
    BY <1>0 DEF JobTypes
  <2> QED BY <2>1, <2>2
<1>9. \A k \in Jobs : pc[k] \in {"reply", "done"} =>
         /\ pc'[k] \in {"reply", "done"} /\ answer'[k] = answer[k]
         /\ before'[k] = before[k]
  <2> USE DEF JobTypes
  <2>1. CASE Arrive(j)
    BY <1>0, <2>1 DEF Arrive
  <2>2. CASE Preflight(j)
    BY <1>0, <2>2 DEF Preflight
  <2>3. CASE Decode(j)
    BY <1>0, <2>3 DEF Decode
  <2>4. CASE Stamp(j)
    BY <1>0, <2>4 DEF Stamp
  <2>5. CASE Reply(j)
    BY <1>0, <2>5 DEF Reply
  <2> QED BY <2>1, <2>2, <2>3, <2>4, <2>5 DEF Outside
<1>5. \A g \in Gateways : Places(g)' = Places(g) /\ log'[g] = log[g]
  BY <1>1 DEF Places, storeVars
<1>6. LoggedIsHandled'
  <2> SUFFICES ASSUME NEW g \in Gateways, NEW i \in Places(g)
               PROVE  /\ pc'[log[g][i].job] \in {"reply", "done"}
                      /\ answer'[log[g][i].job] = "ok"
                      /\ GatewayOf[log[g][i].job] = g
                      /\ log[g][i].at <= clock'
    BY <1>5 DEF LoggedIsHandled
  <2>1. log[g][i].job \in Jobs /\ log[g][i].at \in Nat
    BY <1>0, Entries
  <2>2. clock \in Nat /\ clock' \in Nat
    BY <1>0, <1>3 DEF JobTypes
  <2> QED BY <1>0, <1>4, <1>9, <2>1, <2>2 DEF LogInv, LoggedIsHandled
<1>7. LoggedOnce'
  BY <1>0, <1>5 DEF LogInv, LoggedOnce
<1>8. LoggedAsSent'
  <2> SUFFICES ASSUME NEW g \in Gateways, NEW i \in Places(g), NEW k \in Places(g)
               PROVE  /\ i <= k => log[g][k].job \notin before'[log[g][i].job]
                      /\ i < k /\ log[g][i].job \in before'[log[g][k].job] =>
                            log[g][i].at < log[g][k].at
    BY <1>5 DEF LoggedAsSent
  <2>1. /\ before'[log[g][i].job] = before[log[g][i].job]
        /\ before'[log[g][k].job] = before[log[g][k].job]
    BY <1>0, <1>9, Entries DEF LogInv, LoggedIsHandled
  <2> QED BY <1>0, <2>1 DEF LogInv, LoggedAsSent
<1> QED BY <1>2, <1>3, <1>6, <1>7, <1>8 DEF LogInv

\* What was done with before an arrival is what is done with then.
LEMMA OutsideKeepsHandlers ==
    ASSUME ServerInv, NEW j \in Jobs, Outside(j) PROVE HandlerInv'
<1>0. JobTypes /\ StoreTypes /\ LogInv /\ HandlerInv /\ UNCHANGED storeVars
  BY DEF ServerInv, Outside, Arrive, Preflight, Decode, Stamp, Reply
<1>1. \A g \in Gateways : Places(g)' = Places(g) /\ log'[g] = log[g]
  BY <1>0 DEF Places, storeVars
<1>2. BeforeIsDone'
  <2> USE DEF JobTypes
  <2>1. \A k \in Jobs : pc[k] = "done" => pc'[k] = "done"
    BY <1>0 DEF Outside, Arrive, Preflight, Decode, Stamp, Reply
  <2>2. CASE Arrive(j)
    <3>1. before' = [before EXCEPT ![j] = {k \in Jobs : pc[k] = "done"}]
      BY <2>2 DEF Arrive
    <3> QED BY <1>0, <2>1, <3>1 DEF HandlerInv, BeforeIsDone
  <2>3. CASE ~Arrive(j)
    <3>1. before' = before
      BY <2>3 DEF Outside, Preflight, Decode, Stamp, Reply
    <3> QED BY <1>0, <2>1, <3>1 DEF HandlerInv, BeforeIsDone
  <2> QED BY <2>2, <2>3
<1>3. StampIsFresh'
  <2> USE DEF JobTypes
  <2> SUFFICES ASSUME NEW k \in Jobs, pc'[k] = "store"
               PROVE  /\ at'[k] <= clock'
                      /\ \A g \in Gateways : \A i \in Places(g) :
                            log[g][i].job \in before'[k] => log[g][i].at < at'[k]
    BY <1>1 DEF StampIsFresh
  <2>1. CASE Stamp(j) /\ k = j
    <3>1. at'[k] = clock + 1 /\ clock' = clock + 1 /\ before'[k] = before[k]
      BY <1>0, <2>1 DEF Stamp
    <3>2. ASSUME NEW g \in Gateways, NEW i \in Places(g) PROVE log[g][i].at < clock + 1
      <4>1. log[g][i].at \in Nat
        BY <1>0, Entries
      <4>2. log[g][i].at <= clock /\ clock \in Nat
        BY <1>0 DEF LogInv, LoggedIsHandled
      <4> QED BY <4>1, <4>2
    <3>3. clock \in Nat
      BY <1>0
    <3> QED BY <3>1, <3>2, <3>3
  <2>2. CASE ~(Stamp(j) /\ k = j)
    <3>1. pc[k] = "store" /\ at'[k] = at[k] /\ before'[k] = before[k]
      BY <1>0, <2>2 DEF Outside, Arrive, Preflight, Decode, Stamp, Reply
    <3>2. clock <= clock' /\ clock \in Nat /\ clock' \in Nat /\ at[k] \in Nat
      <4>1. clock' = clock \/ clock' = clock + 1
        BY DEF Outside, Arrive, Preflight, Decode, Stamp, Reply
      <4>2. clock \in Nat /\ at[k] \in Nat
        BY <1>0
      <4> QED BY <4>1, <4>2
    <3>3. /\ at[k] <= clock
          /\ \A g \in Gateways : \A i \in Places(g) :
                log[g][i].job \in before[k] => log[g][i].at < at[k]
      BY <1>0, <3>1 DEF HandlerInv, StampIsFresh
    <3> QED BY <3>1, <3>2, <3>3
  <2> QED BY <2>1, <2>2
<1>4. OkIsLogged'
  <2> USE DEF JobTypes
  <2> SUFFICES ASSUME NEW k \in Jobs
               PROVE  /\ pc'[k] \in {"none", "body", "stamp", "store"} =>
                            answer'[k] = "none"
                      /\ answer'[k] = "ok" =>
                            \E i \in Places(GatewayOf[k]) : log[GatewayOf[k]][i].job = k
    BY <1>1, JobsAssumption DEF OkIsLogged
  <2>1. /\ pc'[k] \in {"none", "body", "stamp", "store"} =>
              pc[k] \in {"none", "body", "stamp", "store"} /\ answer'[k] = answer[k]
        /\ answer'[k] = "ok" => answer[k] = "ok"
    <3>1. CASE Arrive(j)
      BY <1>0, <3>1 DEF Arrive
    <3>2. CASE Preflight(j)
      BY <1>0, <3>2 DEF Preflight
    <3>3. CASE Decode(j)
      BY <1>0, <3>3 DEF Decode
    <3>4. CASE Stamp(j)
      BY <1>0, <3>4 DEF Stamp
    <3>5. CASE Reply(j)
      BY <1>0, <3>5 DEF Reply
    <3> QED BY <3>1, <3>2, <3>3, <3>4, <3>5 DEF Outside
  <2> QED BY <1>0, <2>1 DEF HandlerInv, OkIsLogged
<1> QED BY <1>2, <1>3, <1>4 DEF HandlerInv

-----------------------------------------------------------------------------
(* The step that stores.                                                   *)

\* The log of the reading's gateway has one entry more, at its end.
LEMMA LogGrows ==
    ASSUME ServerInv, NEW j \in Jobs, StoreReading(j)
    PROVE  LET g == GatewayOf[j]
               n == Len(log[g])
           IN  /\ g \in Gateways /\ n \in Nat
               /\ Places(g)' = 1 .. (n + 1)
               /\ \A i \in 1 .. n : log'[g][i] = log[g][i]
               /\ log'[g][n + 1] = [job |-> j, at |-> at[j]]
               /\ \A h \in Gateways \ {g} : Places(h)' = Places(h) /\ log'[h] = log[h]
<1> DEFINE g == GatewayOf[j]
           r == [job |-> j, at |-> at[j]]
<1>1. g \in Gateways
  BY JobsAssumption
<1>2. r \in Reading
  BY DEF ServerInv, JobTypes, Reading
<1>3. Store(g, r)
  BY DEF StoreReading
<1>4. StoreTypes
  BY DEF ServerInv
<1>5. /\ log'[g] = Append(log[g], r)
      /\ \A h \in Gateways \ {g} : log'[h] = log[h]
  BY <1>1, <1>2, <1>3, <1>4, StoreAppends
<1>6. log[g] \in Seq(Reading)
  BY <1>1, <1>4 DEF StoreTypes
<1>7. /\ Len(log[g]) \in Nat
      /\ Len(log'[g]) = Len(log[g]) + 1
      /\ \A i \in 1 .. Len(log[g]) : log'[g][i] = log[g][i]
      /\ log'[g][Len(log[g]) + 1] = r
  BY <1>2, <1>5, <1>6
<1> QED BY <1>1, <1>5, <1>7 DEF Places

\* Storing keeps the list, its types and those of the handlers.
LEMMA StoringKeepsTypes ==
    ASSUME ServerInv, NEW j \in Jobs, StoreReading(j)
    PROVE  StoreTypes' /\ KeepsTheLast' /\ JobTypes'
<1>1. GatewayOf[j] \in Gateways /\ [job |-> j, at |-> at[j]] \in Reading
  BY JobsAssumption DEF ServerInv, JobTypes, Reading
<1>2. Store(GatewayOf[j], [job |-> j, at |-> at[j]])
  BY DEF StoreReading
<1>3. StoreTypes' /\ KeepsTheLast'
  BY <1>1, <1>2, StoreKeepsTypes, StoreKeepsTheLast DEF ServerInv
<1>4. JobTypes'
  BY DEF ServerInv, JobTypes, StoreReading
<1> QED BY <1>3, <1>4

\* Storing once, after everything that was done with before.
LEMMA StoringKeepsLog ==
    ASSUME ServerInv, NEW j \in Jobs, StoreReading(j) PROVE LogInv'
<1> DEFINE g0 == GatewayOf[j]
           n == Len(log[g0])
           r == [job |-> j, at |-> at[j]]
<1>0. StoreTypes /\ JobTypes /\ LogInv /\ HandlerInv
  BY DEF ServerInv
<1>1. /\ g0 \in Gateways /\ n \in Nat
      /\ Places(g0)' = 1 .. (n + 1)
      /\ \A i \in 1 .. n : log'[g0][i] = log[g0][i]
      /\ log'[g0][n + 1] = r
      /\ \A h \in Gateways \ {g0} : Places(h)' = Places(h) /\ log'[h] = log[h]
  BY LogGrows
<1>2. Places(g0) = 1 .. n
  BY DEF Places
<1>3. /\ pc[j] = "store" /\ pc'[j] = "reply" /\ answer'[j] = "ok"
      /\ \A k \in Jobs \ {j} : pc'[k] = pc[k] /\ answer'[k] = answer[k]
      /\ before' = before /\ clock' = clock
  <2>1. pc[j] = "store" /\ answer[j] = "none"
    BY <1>0 DEF StoreReading, HandlerInv, OkIsLogged
  <2> QED BY <1>0, <2>1 DEF JobTypes, StoreReading
<1>4. r.job = j /\ r.at = at[j]
  OBVIOUS
<1>5. \A g \in Gateways : \A i \in Places(g) : log[g][i].job \in Jobs \ {j}
  BY <1>0, <1>3, Entries DEF LogInv, LoggedIsHandled
<1>6. at[j] <= clock
  BY <1>0, <1>3 DEF HandlerInv, StampIsFresh
<1> HIDE DEF g0, n, r
<1>7. ASSUME NEW g \in Gateways, NEW i \in Places(g)'
      PROVE  \/ g = g0 /\ i = n + 1 /\ log'[g][i] = r
             \/ i \in Places(g) /\ log'[g][i] = log[g][i]
  <2>1. CASE g = g0
    <3>1. i = n + 1 \/ i \in 1 .. n
      BY <1>1, <2>1
    <3> QED BY <1>1, <1>2, <2>1, <3>1
  <2>2. CASE g # g0
    BY <1>1, <2>2
  <2> QED BY <2>1, <2>2
<1>8. LoggedIsHandled'
  <2> SUFFICES ASSUME NEW g \in Gateways, NEW i \in Places(g)'
               PROVE  /\ pc'[log'[g][i].job] \in {"reply", "done"}
                      /\ answer'[log'[g][i].job] = "ok"
                      /\ GatewayOf[log'[g][i].job] = g
                      /\ log'[g][i].at <= clock'
    BY DEF LoggedIsHandled
  <2>1. CASE g = g0 /\ i = n + 1 /\ log'[g][i] = r
    BY <1>3, <1>4, <1>6, <2>1 DEF g0
  <2>2. CASE i \in Places(g) /\ log'[g][i] = log[g][i]
    BY <1>0, <1>3, <1>5, <2>2 DEF LogInv, LoggedIsHandled
  <2> QED BY <1>7, <2>1, <2>2
<1>9. LoggedOnce'
  <2> SUFFICES ASSUME NEW g \in Gateways, NEW i \in Places(g)', NEW k \in Places(g)',
                      log'[g][i].job = log'[g][k].job
               PROVE  i = k
    BY DEF LoggedOnce
  <2> DEFINE New(m) == g = g0 /\ m = n + 1 /\ log'[g][m] = r
             Old(m) == m \in Places(g) /\ log'[g][m] = log[g][m]
  <2>1. (New(i) \/ Old(i)) /\ (New(k) \/ Old(k))
    BY <1>7
  <2>2. CASE New(i) /\ New(k)
    BY <2>2
  <2>3. CASE Old(i) /\ Old(k)
    BY <1>0, <2>3 DEF LogInv, LoggedOnce
  <2>4. CASE New(i) /\ Old(k)
    BY <1>4, <1>5, <2>4
  <2>5. CASE Old(i) /\ New(k)
    BY <1>4, <1>5, <2>5
  <2> QED BY <2>1, <2>2, <2>3, <2>4, <2>5
<1>10. LoggedAsSent'
  <2> SUFFICES ASSUME NEW g \in Gateways, NEW i \in Places(g)', NEW k \in Places(g)'
               PROVE  /\ i <= k => log'[g][k].job \notin before[log'[g][i].job]
                      /\ i < k /\ log'[g][i].job \in before[log'[g][k].job] =>
                            log'[g][i].at < log'[g][k].at
    BY <1>3 DEF LoggedAsSent
  <2> DEFINE New(m) == g = g0 /\ m = n + 1 /\ log'[g][m] = r
             Old(m) == m \in Places(g) /\ log'[g][m] = log[g][m]
  <2>1. (New(i) \/ Old(i)) /\ (New(k) \/ Old(k))
    BY <1>7
  <2>2. CASE New(i)
    <3>1. k \in 1 .. (n + 1) /\ i = n + 1
      BY <1>1, <2>2
    <3>2. ~(i < k) /\ (i <= k => i = k)
      BY <1>1, <3>1
    <3>3. j \notin before[j]
      BY <1>0, <1>3 DEF HandlerInv, BeforeIsDone
    <3> QED BY <1>4, <2>2, <3>2, <3>3
  <2>3. CASE Old(i) /\ Old(k)
    BY <1>0, <2>3 DEF LogInv, LoggedAsSent
  <2>4. CASE Old(i) /\ New(k)
    <3>1. j \notin before[log[g][i].job]
      BY <1>0, <1>3, <1>5, <2>4 DEF HandlerInv, BeforeIsDone
    <3>2. log[g][i].job \in before[j] => log[g][i].at < at[j]
      BY <1>0, <1>3, <2>4 DEF HandlerInv, StampIsFresh
    <3> QED BY <1>4, <2>4, <3>1, <3>2
  <2> QED BY <2>1, <2>2, <2>3, <2>4
<1> QED BY <1>8, <1>9, <1>10 DEF LogInv

\* What is stored was not done with before any other reading arrived.
LEMMA StoringKeepsHandlers ==
    ASSUME ServerInv, NEW j \in Jobs, StoreReading(j) PROVE HandlerInv'
<1> DEFINE g0 == GatewayOf[j]
           n == Len(log[g0])
<1>0. StoreTypes /\ JobTypes /\ LogInv /\ HandlerInv
  BY DEF ServerInv
<1>1. /\ g0 \in Gateways /\ n \in Nat
      /\ Places(g0)' = 1 .. (n + 1)
      /\ \A i \in 1 .. n : log'[g0][i] = log[g0][i]
      /\ log'[g0][n + 1].job = j
      /\ \A h \in Gateways \ {g0} : Places(h)' = Places(h) /\ log'[h] = log[h]
  <2>1. log'[g0][n + 1] = [job |-> j, at |-> at[j]]
    BY LogGrows
  <2>2. log'[g0][n + 1].job = j
    BY <2>1
  <2> HIDE DEF n
  <2> QED BY <2>2, LogGrows DEF n
<1>2. Places(g0) = 1 .. n
  BY DEF Places
<1>3. /\ pc[j] = "store" /\ pc'[j] = "reply" /\ answer'[j] = "ok"
      /\ \A k \in Jobs \ {j} : pc'[k] = pc[k] /\ answer'[k] = answer[k]
      /\ before' = before /\ clock' = clock /\ at' = at
  <2>1. pc[j] = "store" /\ answer[j] = "none"
    BY <1>0 DEF StoreReading, HandlerInv, OkIsLogged
  <2> QED BY <1>0, <2>1 DEF JobTypes, StoreReading
<1> HIDE DEF g0, n
<1>4. ASSUME NEW g \in Gateways, NEW i \in Places(g)'
      PROVE  \/ g = g0 /\ i = n + 1 /\ log'[g][i].job = j
             \/ i \in Places(g) /\ log'[g][i] = log[g][i]
  <2>1. CASE g = g0
    <3>1. i = n + 1 \/ i \in 1 .. n
      BY <1>1, <2>1
    <3> QED BY <1>1, <1>2, <2>1, <3>1
  <2>2. CASE g # g0
    BY <1>1, <2>2
  <2> QED BY <2>1, <2>2
<1>5. BeforeIsDone'
  <2> SUFFICES ASSUME NEW k \in Jobs, NEW m \in before[k] PROVE pc'[m] = "done"
    BY <1>3 DEF BeforeIsDone
  <2>1. m \in Jobs /\ pc[m] = "done"
    BY <1>0 DEF HandlerInv, BeforeIsDone, JobTypes
  <2> QED BY <1>3, <2>1
<1>6. StampIsFresh'
  <2> SUFFICES ASSUME NEW k \in Jobs, pc'[k] = "store"
               PROVE  /\ at[k] <= clock
                      /\ \A g \in Gateways : \A i \in Places(g)' :
                            log'[g][i].job \in before[k] => log'[g][i].at < at[k]
    BY <1>3 DEF StampIsFresh
  <2>1. k # j /\ pc[k] = "store"
    BY <1>3
  <2>2. j \notin before[k]
    BY <1>0, <1>3 DEF HandlerInv, BeforeIsDone
  <2> QED BY <1>0, <1>4, <2>1, <2>2 DEF HandlerInv, StampIsFresh
<1>7. OkIsLogged'
  <2> SUFFICES ASSUME NEW k \in Jobs
               PROVE  /\ pc'[k] \in {"none", "body", "stamp", "store"} =>
                            answer'[k] = "none"
                      /\ answer'[k] = "ok" =>
                            \E i \in Places(GatewayOf[k])' :
                               log'[GatewayOf[k]][i].job = k
    BY DEF OkIsLogged
  <2>1. CASE k = j
    <3>1. n + 1 \in Places(g0)' /\ log'[g0][n + 1].job = j
      BY <1>1
    <3> QED BY <1>3, <2>1, <3>1 DEF g0
  <2>2. CASE k # j
    <3>1. GatewayOf[k] \in Gateways
      BY JobsAssumption
    <3>2. \A i \in Places(GatewayOf[k]) :
             i \in Places(GatewayOf[k])' /\ log'[GatewayOf[k]][i] = log[GatewayOf[k]][i]
      BY <1>1, <1>2, <3>1
    <3> QED BY <1>0, <1>3, <2>2, <3>2 DEF HandlerInv, OkIsLogged
  <2> QED BY <2>1, <2>2
<1> QED BY <1>5, <1>6, <1>7 DEF HandlerInv

-----------------------------------------------------------------------------
\* Every step keeps the invariant.
LEMMA NextKeepsServer == ASSUME ServerInv, [Next]_vars PROVE ServerInv'
<1>1. CASE Listen \/ FatalExit \/ Main \/ DrainTimeout \/ Signal \/ UNCHANGED vars
  <2>1. UNCHANGED <<jobVars, storeVars>>
    BY <1>1 DEF Listen, FatalExit, Main, Notify, Receive, BeginShutdown, Poll,
                PollAgain, DrainTimeout, Signal, vars
  <2> QED BY <2>1, SameServer
<1>2. ASSUME NEW j \in Jobs, Outside(j) PROVE ServerInv'
  BY <1>2, OutsideKeepsLog, OutsideKeepsHandlers DEF ServerInv
<1>3. ASSUME NEW j \in Jobs, StoreReading(j) PROVE ServerInv'
  BY <1>3, StoringKeepsTypes, StoringKeepsLog, StoringKeepsHandlers DEF ServerInv
<1> QED BY <1>1, <1>2, <1>3 DEF Next, Handle, Outside

\* The strengthened invariant of the backend holds in every state.
THEOREM ServerInvariant == Spec => []ServerInv
<1>1. ServerInv /\ [Next]_vars => ServerInv'
  BY NextKeepsServer
<1> QED BY InitServer, <1>1, PTL DEF Spec

-----------------------------------------------------------------------------
\* The store holds the last readings of each gateway, as many as its limit
\* allows, for every limit.
THEOREM KeepsTheLastHolds == Spec => []KeepsTheLast
<1>1. ServerInv => KeepsTheLast
  BY DEF ServerInv
<1> QED BY <1>1, ServerInvariant, PTL

\* Of readings sent one after the other the newer one is stamped later and kept at
\* least as long, whatever the limit and whatever else is handled meanwhile.
THEOREM NewerOutlivesOlderHolds == Spec => []NewerOutlivesOlder
<1>1. ServerInv => NewerOutlivesOlder
  <2> SUFFICES ASSUME ServerInv, NEW g \in Gateways,
                      NEW older \in ReadingsOf(log[g]), NEW newer \in ReadingsOf(log[g]),
                      older.job \in before[newer.job]
               PROVE  /\ older.at < newer.at
                      /\ older \in ReadingsOf(GetLatest(g)) =>
                            newer \in ReadingsOf(GetLatest(g))
    BY DEF NewerOutlivesOlder
  <2> DEFINE kept == Len(GetLatest(g))
             all == Len(log[g])
  <2>1. kept \in Nat /\ all \in Nat /\ kept <= all
    <3>1. readings[g] \in Seq(Reading) /\ log[g] \in Seq(Reading)
      BY DEF ServerInv, StoreTypes
    <3>2. Len(readings[g]) \in Nat /\ Len(log[g]) \in Nat
      BY <3>1
    <3>3. Len(readings[g]) = IF Len(log[g]) < MaxReadings THEN Len(log[g])
                             ELSE MaxReadings
      BY DEF ServerInv, KeepsTheLast, GetLatest
    <3>4. Len(readings[g]) <= Len(log[g])
      BY <3>2, <3>3, MaxReadingsAssumption
    <3> QED BY <3>2, <3>4 DEF GetLatest
  <2>2. \A m \in 1 .. kept : GetLatest(g)[m] = log[g][all - kept + m]
    BY DEF ServerInv, KeepsTheLast
  <2>3. /\ ReadingsOf(log[g]) = {log[g][m] : m \in 1 .. all}
        /\ ReadingsOf(GetLatest(g)) = {GetLatest(g)[m] : m \in 1 .. kept}
        /\ Places(g) = 1 .. all
    BY DEF ReadingsOf, Places
  <2> HIDE DEF kept, all
  <2>4. PICK i \in 1 .. all : log[g][i] = older
    BY <2>3
  <2>5. PICK k \in 1 .. all : log[g][k] = newer
    BY <2>3
  <2>6. LoggedAsSent /\ LoggedOnce
    BY DEF ServerInv, LogInv
  <2>7. i < k
    <3>1. ~(k <= i)
      BY <2>3, <2>4, <2>5, <2>6 DEF LoggedAsSent
    <3> QED BY <2>1, <3>1
  <2>8. older.at < newer.at
    BY <2>3, <2>4, <2>5, <2>6, <2>7 DEF LoggedAsSent
  <2>9. ASSUME older \in ReadingsOf(GetLatest(g)) PROVE newer \in ReadingsOf(GetLatest(g))
    <3>1. PICK m \in 1 .. kept : GetLatest(g)[m] = older
      BY <2>3, <2>9
    <3>2. log[g][all - kept + m] = older /\ all - kept + m \in 1 .. all
      BY <2>1, <2>2, <3>1
    <3>3. all - kept + m = i
      BY <2>3, <2>4, <2>6, <3>2 DEF LoggedOnce
    <3>4. k - (all - kept) \in 1 .. kept /\ all - kept + (k - (all - kept)) = k
      BY <2>1, <2>7, <3>3
    <3>5. GetLatest(g)[k - (all - kept)] = log[g][k]
      BY <2>2, <3>4
    <3> QED BY <2>3, <2>5, <3>4, <3>5
  <2> QED BY <2>8, <2>9
<1> QED BY <1>1, ServerInvariant, PTL

\* Success is told exactly to those whose reading is stored, once.
THEOREM AnswerTellsWhatHappenedHolds == Spec => []AnswerTellsWhatHappened
<1>1. ServerInv => AnswerTellsWhatHappened
  <2> SUFFICES ASSUME ServerInv, NEW j \in Jobs, pc[j] = "done"
               PROVE  LET mine == log[GatewayOf[j]]
                      IN  IF answer[j] = "ok"
                          THEN \E i \in 1 .. Len(mine) :
                                  /\ mine[i].job = j
                                  /\ \A k \in 1 .. Len(mine) : mine[k].job = j => k = i
                          ELSE \A i \in 1 .. Len(mine) : mine[i].job # j
    BY DEF AnswerTellsWhatHappened
  <2>1. GatewayOf[j] \in Gateways
    BY JobsAssumption
  <2>2. CASE answer[j] = "ok"
    <3>1. PICK i \in Places(GatewayOf[j]) : log[GatewayOf[j]][i].job = j
      BY <2>2 DEF ServerInv, HandlerInv, OkIsLogged
    <3>2. \A k \in Places(GatewayOf[j]) : log[GatewayOf[j]][k].job = j => k = i
      BY <2>1, <3>1 DEF ServerInv, LogInv, LoggedOnce
    <3> QED BY <2>2, <3>1, <3>2 DEF Places
  <2>3. CASE answer[j] # "ok"
    BY <2>1, <2>3 DEF ServerInv, LogInv, LoggedIsHandled, Places
  <2> QED BY <2>2, <2>3
<1> QED BY <1>1, ServerInvariant, PTL

-----------------------------------------------------------------------------
\* Types, and the bound on what a gateway can make the process keep.
THEOREM TypeCorrect == Spec => []TypeOK
<1> DEFINE ProcessTypes ==
              /\ main \in {"start", "wait", "shutdown", "drain", "poll"}
              /\ listener \in {"off", "open", "failed", "closed"}
              /\ quit \in BOOLEAN
              /\ exit \in {"none", "clean", "error", "killed"}
<1>1. Init => ProcessTypes
  BY DEF Init
<1>2. ProcessTypes /\ [Next]_vars => ProcessTypes'
  <2> SUFFICES ASSUME ProcessTypes, [Next]_vars PROVE ProcessTypes'
    OBVIOUS
  <2>1. CASE Listen \/ FatalExit \/ Main \/ DrainTimeout \/ Signal
    BY <2>1 DEF Listen, FatalExit, Main, Notify, Receive, BeginShutdown, Poll,
                PollAgain, DrainTimeout, Signal
  <2>2. CASE (\E j \in Jobs : Handle(j)) \/ UNCHANGED vars
    BY <2>2 DEF Handle, Arrive, Preflight, Decode, Stamp, StoreReading, Reply, vars,
                processVars
  <2> QED BY <2>1, <2>2 DEF Next
<1>3. ServerInv /\ ProcessTypes => TypeOK
  <2> SUFFICES ASSUME ServerInv, ProcessTypes PROVE TypeOK
    OBVIOUS
  <2>1. ASSUME NEW g \in Gateways PROVE Len(readings[g]) <= MaxReadings
    <3>1. Len(log[g]) \in Nat
      BY DEF ServerInv, StoreTypes
    <3>2. Len(readings[g]) = IF Len(log[g]) < MaxReadings THEN Len(log[g])
                             ELSE MaxReadings
      BY DEF ServerInv, KeepsTheLast, GetLatest
    <3> QED BY <3>1, <3>2, MaxReadingsAssumption
  <2> QED BY <2>1 DEF ServerInv, StoreTypes, JobTypes, TypeOK
<1> QED BY <1>1, <1>2, <1>3, ServerInvariant, PTL DEF Spec
=============================================================================
