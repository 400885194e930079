-------------------------------- MODULE Shutdown --------------------------------
(***************************************************************************)
(* gracefulShutdown of src/index.ts, while a viewer watches live video     *)
(* (LiveRelay) and other clients are connected. Shutdown stops the event   *)
(* stream, closes Socket.IO and waits for the HTTP server, which waits for *)
(* its open connections; nothing in it closes a viewer's WebSocket, and a  *)
(* timer ends the process after SHUTDOWN_TIMEOUT_MS. Each signal starts    *)
(* it once more.                                                           *)
(*                                                                         *)
(* stop() of the stream is the step that SpecterEventStream models; here   *)
(* it resolves, rejects or takes for ever. Node's HTTP server and          *)
(* Socket.IO are seen through close() and the connections they hold.       *)
(***************************************************************************)
EXTENDS LiveRelay

CONSTANTS
    Clients,        \* the clients of Socket.IO
    Requests,       \* the requests of the API that may be in flight
    MaxSignals      \* bound: the signals that fa gets

Signals == 1..MaxSignals

ASSUME ShutdownAssumption ==
    /\ MaxSignals \in Nat \ {0}
    /\ Clients \intersect Requests = {}

VARIABLES
    stage,          \* stage[i]: where the gracefulShutdown of signal i is
    listening,      \* the HTTP server accepts connections
    connections,    \* its open connections, but for the viewer's
    exitCode        \* of the process, or "running"

shutdownVars == <<stage, listening, connections, exitCode>>
allVars == <<relayVars, shutdownVars>>

Running == exitCode = "running"

ShutdownInit ==
    /\ RelayInit
    /\ stage = [i \in Signals |-> "idle"]
    /\ listening = TRUE
    /\ connections \in SUBSET (Clients \union Requests)
    /\ exitCode = "running"

--------------------------------------------------------------------------------
(* The other connections of the server. *)

Connect ==
    /\ Running /\ listening
    /\ \E c \in Clients \union Requests : connections' = connections \union {c}
    /\ UNCHANGED <<relayVars, stage, listening, exitCode>>

Disconnect(c) ==
    /\ Running
    /\ c \in connections
    /\ connections' = connections \ {c}
    /\ UNCHANGED <<relayVars, stage, listening, exitCode>>

--------------------------------------------------------------------------------
(* gracefulShutdown *)

\* The process ends, and every connection with it.
Exit(code) ==
    /\ exitCode' = code
    /\ readyState' = [s \in Sockets |-> "closed"]
    /\ connections' = {}
    /\ listening' = FALSE
    /\ UNCHANGED <<received, pending, sent, viewerCode>>

Signal(i) ==
    /\ Running
    /\ stage[i] = "idle"
    /\ \A j \in 1..(i - 1) : stage[j] # "idle"
    /\ stage' = [stage EXCEPT ![i] = "stopping_stream"]
    /\ UNCHANGED <<relayVars, listening, connections, exitCode>>

\* stop() has resolved or rejected. io.close() disconnects the clients and closes the server.
CloseSocketServer(i) ==
    /\ Running
    /\ stage[i] = "stopping_stream"
    /\ stage' = [stage EXCEPT ![i] = "closing_server"]
    /\ connections' = connections \ Clients
    /\ listening' = FALSE
    /\ UNCHANGED <<relayVars, exitCode>>

\* No connection of the server is left, an upgraded one included.
Drained == connections = {} /\ readyState["viewer"] = "closed"

\* httpServer.close() calls back.
ServerCloses(i) ==
    /\ Running
    /\ stage[i] = "closing_server"
    /\ Drained
    /\ Exit("0")
    /\ UNCHANGED stage

TimerArmedByServer(i) == stage[i] = "closing_server"

\* The timer of signal i.
TimerArmed(i) == stage[i] # "idle"

TimeLimit(i) ==
    /\ Running
    /\ TimerArmed(i)
    /\ Exit("1")
    /\ UNCHANGED stage

--------------------------------------------------------------------------------
RelayStep == Running /\ RelayNext /\ UNCHANGED shutdownVars

ShutdownNext ==
    \/ RelayStep
    \/ Connect
    \/ \E c \in Clients \union Requests : Disconnect(c)
    \/ \E i \in Signals : Signal(i) \/ CloseSocketServer(i) \/ ServerCloses(i) \/ TimeLimit(i)

\* The sockets as in LiveRelay; the timers fire. Nothing makes stop() return, a viewer leave or a
\* signal come.
ShutdownFairness ==
    /\ WF_allVars(readyState["upstream"] = "aborting" /\ HandshakeEnds /\ RelayStep)
    /\ WF_allVars(readyState["upstream"] = "closing" /\ UpstreamClose /\ RelayStep)
    /\ WF_allVars(readyState["viewer"] = "closing" /\ ViewerClose /\ RelayStep)
    /\ \A i \in Signals : WF_allVars(TimeLimit(i))

ShutdownSpec == ShutdownInit /\ [][ShutdownNext]_allVars /\ ShutdownFairness

--------------------------------------------------------------------------------
Stages == {"idle", "stopping_stream", "closing_server"}

\* Type correctness.
ShutdownTypeOK ==
    /\ RelayTypeOK
    /\ stage \in [Signals -> Stages]
    /\ listening \in BOOLEAN
    /\ connections \subseteq Clients \union Requests
    /\ exitCode \in {"running", "0", "1"}

\* A signal always ends the process, although a live video may play on and the stream may never
\* close: both hold up the steps of the shutdown, and only the timer is sure (index.ts:31).
SignalsEndTheProcess ==
    \A i \in Signals : stage[i] # "idle" ~> ~Running
================================================================================
