---------------------------- MODULE BackendServer ----------------------------
(***************************************************************************)
(* The backend process, cmd/api/main.go and internal/shared/server.go,     *)
(* with what it is there for: readings that come as POST /telemetry        *)
(* requests or as frames of WebSockets, each handled by a goroutine of its *)
(* own.  WebSocketHandler has what a frame sets off besides.               *)
(*                                                                         *)
(* Of net/http's Server this has what main() relies on: Shutdown() closes  *)
(* the listener, then polls until no connection has a request in progress. *)
(* A connection that became a WebSocket is no longer among them.           *)
(***************************************************************************)
EXTENDS TelemetryStore

CONSTANTS
    Posts,              \* requests
    Frames,             \* telemetry frames of WebSockets
    GatewayOf           \* the gateway each of them is from

Jobs == Posts \cup Frames

ASSUME JobsAssumption ==
    /\ Posts \cap Frames = {}
    /\ GatewayOf \in [Jobs -> Gateways]

VARIABLES
    main,               \* where main() is
    listener,           \* where startServer() is
    quit,               \* the channel quit holds a signal
    exit                \* how the process ended

\* Per reading.
VARIABLES
    pc,                 \* where its handler is
    at,                 \* its time stamp, 0 before it has one
    answer,             \* the status of the response or acknowledgment
    before              \* history: what was done with when it arrived

VARIABLE clock          \* the time of the last stamp

processVars == <<main, listener, quit, exit>>
jobVars == <<pc, at, answer, before, clock>>
vars == <<processVars, jobVars, storeVars>>

Running == exit = "none"
Reading == [job : Jobs, at : Nat]

TypeOK ==
    /\ readings \in [Gateways -> Seq(Reading)]
    /\ \A g \in Gateways : Len(readings[g]) <= MaxReadings
    /\ log \in [Gateways -> Seq(Reading)]
    /\ main \in {"start", "wait", "shutdown", "drain", "poll"}
    /\ listener \in {"off", "open", "failed", "closed"}
    /\ quit \in BOOLEAN
    /\ exit \in {"none", "clean", "error", "killed"}
    /\ pc \in [Jobs -> {"none", "body", "stamp", "store", "reply", "done"}]
    /\ at \in [Jobs -> Nat]
    /\ answer \in [Jobs -> {"none", "ok", "bad request", "no content"}]
    /\ before \in [Jobs -> SUBSET Jobs]
    /\ clock \in Nat

Init ==
    /\ StoreInit
    /\ main = "start" /\ listener = "off" /\ quit = FALSE /\ exit = "none"
    /\ clock = 0
    /\ pc = [j \in Jobs |-> "none"]
    /\ at = [j \in Jobs |-> 0]
    /\ answer = [j \in Jobs |-> "none"]
    /\ before = [j \in Jobs |-> {}]

-----------------------------------------------------------------------------
(* startServer(), a goroutine beside main().                               *)

ShuttingDown == main \in {"drain", "poll"}

\* ListenAndServe() refuses to begin once Shutdown() was called.
Listen ==
    /\ Running /\ listener = "off" /\ ~ShuttingDown
    /\ listener' \in {"open", "failed"}
    /\ UNCHANGED <<main, quit, exit, jobVars, storeVars>>

\* An error of Start() ends the process, whatever main() is doing.
FatalExit ==
    /\ Running /\ listener = "failed"
    /\ exit' = "error"
    /\ UNCHANGED <<main, listener, quit, jobVars, storeVars>>

-----------------------------------------------------------------------------
(* main() from waitForShutdownSignal() on.                                 *)

\* signal.Notify().
Notify ==
    /\ Running /\ main = "start"
    /\ main' = "wait"
    /\ UNCHANGED <<listener, quit, exit, jobVars, storeVars>>

Receive ==
    /\ Running /\ main = "wait" /\ quit
    /\ quit' = FALSE
    /\ main' = "shutdown"
    /\ UNCHANGED <<listener, exit, jobVars, storeVars>>

\* A listener that is closed makes Start() return without an error.
BeginShutdown ==
    /\ Running /\ main = "shutdown"
    /\ main' = "drain"
    /\ listener' = IF listener = "open" THEN "closed" ELSE listener
    /\ UNCHANGED <<quit, exit, jobVars, storeVars>>

\* The requests net/http waits for.
Active == {j \in Posts : pc[j] \notin {"none", "done"}}

Poll ==
    /\ Running /\ main = "drain"
    /\ IF Active = {}
       THEN exit' = "clean" /\ UNCHANGED main
       ELSE main' = "poll" /\ UNCHANGED exit
    /\ UNCHANGED <<listener, quit, jobVars, storeVars>>

PollAgain ==
    /\ Running /\ main = "poll"
    /\ main' = "drain"
    /\ UNCHANGED <<listener, quit, exit, jobVars, storeVars>>

\* Mutant: a context without a deadline.
PollForEver ==
    /\ Running /\ main = "poll"
    /\ main' = "drain"
    /\ UNCHANGED <<listener, quit, exit, jobVars, storeVars>>

\* drainTimeout.
DrainTimeout ==
    /\ Running /\ main = "poll"
    /\ exit' = "error"
    /\ UNCHANGED <<main, listener, quit, jobVars, storeVars>>

Main == Notify \/ Receive \/ BeginShutdown \/ Poll \/ PollAgain

\* SIGINT or SIGTERM kills a process that has not asked for it.  The channel has
\* room for one; a second one is dropped, or waits for nobody.
Signal ==
    /\ Running /\ ~quit
    /\ IF main = "start" THEN exit' = "killed" /\ UNCHANGED quit
                         ELSE quit' = TRUE /\ UNCHANGED exit
    /\ UNCHANGED <<main, listener, jobVars, storeVars>>

-----------------------------------------------------------------------------
(* One reading, from its arrival to its answer.                            *)

\* A connection made before the listener was closed may bring a request, or a
\* frame, after that.
Arrive(j) ==
    /\ Running /\ listener \in {"open", "closed"} /\ pc[j] = "none"
    /\ before' = [before EXCEPT ![j] = {k \in Jobs : pc[k] = "done"}]
    /\ pc' = [pc EXCEPT ![j] = IF j \in Posts THEN "body" ELSE "stamp"]
    /\ UNCHANGED <<at, answer, clock, processVars, storeVars>>

\* CORSMiddleware answers OPTIONS itself.
Preflight(j) ==
    /\ Running /\ pc[j] = "body"
    /\ answer' = [answer EXCEPT ![j] = "no content"]
    /\ pc' = [pc EXCEPT ![j] = "reply"]
    /\ UNCHANGED <<at, before, clock, processVars, storeVars>>

\* Mutant: the return after http.Error() is missing.
DecodeNoReturn(j) ==
    /\ Running /\ pc[j] = "body"
    /\ \/ UNCHANGED answer
       \/ answer' = [answer EXCEPT ![j] = "bad request"]
    /\ pc' = [pc EXCEPT ![j] = "stamp"]
    /\ UNCHANGED <<at, before, clock, processVars, storeVars>>

\* The body has come, or its sender is gone: no JSON, no gateway_id and a
\* negative power are all a bad request.
Decode(j) ==
    /\ Running /\ pc[j] = "body"
    /\ \/ /\ pc' = [pc EXCEPT ![j] = "stamp"]
          /\ UNCHANGED answer
       \/ /\ pc' = [pc EXCEPT ![j] = "reply"]
          /\ answer' = [answer EXCEPT ![j] = "bad request"]
    /\ UNCHANGED <<at, before, clock, processVars, storeVars>>

\* time.Now(), before the store's lock.
Stamp(j) ==
    /\ Running /\ pc[j] = "stamp"
    /\ clock' = clock + 1
    /\ at' = [at EXCEPT ![j] = clock + 1]
    /\ pc' = [pc EXCEPT ![j] = "store"]
    /\ UNCHANGED <<answer, before, processVars, storeVars>>

\* The first status written is the one that is sent.
StoreReading(j) ==
    /\ Running /\ pc[j] = "store"
    /\ Store(GatewayOf[j], [job |-> j, at |-> at[j]])
    /\ answer' = [answer EXCEPT ![j] = IF @ = "none" THEN "ok" ELSE @]
    /\ pc' = [pc EXCEPT ![j] = "reply"]
    /\ UNCHANGED <<at, before, clock, processVars>>

Reply(j) ==
    /\ Running /\ pc[j] = "reply"
    /\ pc' = [pc EXCEPT ![j] = "done"]
    /\ UNCHANGED <<at, answer, before, clock, processVars, storeVars>>

Handle(j) ==
    Arrive(j) \/ Preflight(j) \/ Decode(j) \/ Stamp(j) \/ StoreReading(j) \/ Reply(j)

-----------------------------------------------------------------------------
Next ==
    \/ Listen \/ FatalExit \/ Main \/ DrainTimeout \/ Signal
    \/ \E j \in Jobs : Handle(j)

\* The goroutines of main() and startServer() run, and 15 seconds pass even if
\* the polls go on and a client never sends its body.
Fairness == WF_vars(Main) /\ WF_vars(FatalExit) /\ SF_vars(DrainTimeout)

Spec == Init /\ [][Next]_vars /\ Fairness

-----------------------------------------------------------------------------
ReadingsOf(list) == {list[i] : i \in 1 .. Len(list)}

\* Of two readings of a gateway, the second sent after the first was answered, the
\* second has the later time stamp and is kept at least as long, whatever
\* overlapped with them and whichever way each came.  The stamps are taken before
\* the store's lock (handler.go), so of readings handled at the same time the one
\* with the later stamp may be the first to go.
NewerOutlivesOlder ==
    \A g \in Gateways : \A older, newer \in ReadingsOf(log[g]) :
        older.job \in before[newer.job] =>
            /\ older.at < newer.at
            /\ older \in ReadingsOf(GetLatest(g)) => newer \in ReadingsOf(GetLatest(g))

\* A sender that is told of success has its reading stored, once; one that is
\* told of a bad request, or that only asked for permission, has left nothing.
AnswerTellsWhatHappened ==
    \A j \in Jobs :
        LET mine == log[GatewayOf[j]]
        IN  pc[j] = "done" =>
                IF answer[j] = "ok"
                THEN \E i \in 1 .. Len(mine) :
                        /\ mine[i].job = j
                        /\ \A k \in 1 .. Len(mine) : mine[k].job = j => k = i
                ELSE \A i \in 1 .. Len(mine) : mine[i].job # j

\* A signal that main() has asked for ends the process within the drain
\* timeout, and so does a listener that cannot start, whatever clients do.
ServerEnds == quit \/ listener = "failed" ~> ~Running
=============================================================================
