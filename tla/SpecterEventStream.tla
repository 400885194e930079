-------------------------- MODULE SpecterEventStream --------------------------
(***************************************************************************)
(* src/src/specter/specterEventStream.ts: fa's side of Specter's event     *)
(* streams. run() connects to the NATS server and then starts one loop,    *)
(* follow(), per stream; a loop gets a consumer, hands each message to     *)
(* every handler in turn, and starts over when the consumption breaks.     *)
(*                                                                         *)
(* Each await of the code ends an action. The NATS client is external: it  *)
(* keeps one connection alive over outages (maxReconnectAttempts: -1), and *)
(* an ordered consumer yields messages in their order. Messages are        *)
(* numbers into the stream's log; those of a kind or version that          *)
(* parseSpecterEvent rejects are the invalid ones.                         *)
(***************************************************************************)
EXTENDS Naturals, Sequences, FiniteSetsExt

CONSTANTS
    NewStreams,     \* the streams followed with DeliverPolicy.New
    LatestStreams,  \* the streams followed with DeliverPolicy.LastPerSubject
    Subjects,       \* the subjects of a stream: one per camera
    HandlerCount,   \* the handlers that onEvent() has registered
    InitialDelay,   \* INITIAL_RETRY_DELAY_MS
    MaximumDelay,   \* MAXIMUM_RETRY_DELAY_MS
    MaxPublished,   \* bound: the messages of all streams
    MaxFaults       \* bound: the faults of the network, NATS and Specter

Streams == NewStreams \union LatestStreams
Handlers == 1..HandlerCount

ASSUME StreamAssumption ==
    /\ IsFiniteSet(Streams)
    /\ NewStreams \intersect LatestStreams = {}
    /\ HandlerCount \in Nat \ {0}
    /\ InitialDelay \in Nat \ {0}
    /\ MaximumDelay \in Nat /\ InitialDelay <= MaximumDelay
    /\ MaxPublished \in Nat /\ MaxFaults \in Nat

VARIABLES
    reachable,     \* the NATS server can be reached
    declared,      \* Specter has declared its streams
    log,           \* log[s]: the messages of stream s
    faults,        \* the faults so far
    isStopped,     \* this.isStopped
    hasStopped,    \* the promise of stop() has resolved
    connection,    \* this.connection: null, open or closed
    runPc,         \* where run() is
    pc,            \* pc[s]: where follow() is, for stream s
    retryDelay,    \* retryDelay[s]: retryDelayMs of follow(); retryDelay["run"] that of connectWithRetry()
    todo,          \* todo[s]: the messages that the consumer of s still has to yield
    cut,           \* the streams whose messages stop() has stopped
    current,       \* current[s]: the message being dispatched, or 0
    turn,          \* turn[s]: the handler it is at, or 1
    handled        \* handled[s][h][x]: the last message of subject x that handler h was given, or 0

brokerVars == <<reachable, declared, log, faults>>
stopVars == <<isStopped, hasStopped, cut>>
runVars == <<connection, runPc>>
followVars == <<pc, todo, current, turn, handled>>
vars == <<brokerVars, stopVars, runVars, followVars, retryDelay>>

Init ==
    /\ reachable \in BOOLEAN
    /\ declared \in BOOLEAN
    /\ log = [s \in Streams |-> <<>>]
    /\ faults = 0
    /\ isStopped = FALSE /\ hasStopped = FALSE
    /\ cut = {}
    /\ connection = "null"
    /\ runPc = "connecting"
    /\ pc = [s \in Streams |-> "off"]
    /\ retryDelay = [p \in Streams \union {"run"} |-> InitialDelay]
    /\ todo = [s \in Streams |-> {}]
    /\ current = [s \in Streams |-> 0]
    /\ turn = [s \in Streams |-> 1]
    /\ handled = [s \in Streams |-> [h \in Handlers |-> [x \in Subjects |-> 0]]]

-------------------------------------------------------------------------------
(* Specter, the network and the NATS server. *)

Consuming(s) == pc[s] \in {"waiting", "handling"}

Published == MapThenSumSet(LAMBDA s : Len(log[s]), Streams)

Publish(s, x, valid) ==
    /\ declared
    /\ Published < MaxPublished
    /\ log' = [log EXCEPT ![s] = Append(@, [subject |-> x, valid |-> valid])]
    /\ todo' = IF Consuming(s) THEN [todo EXCEPT ![s] = @ \union {Len(log[s]) + 1}] ELSE todo
    /\ UNCHANGED <<reachable, declared, faults, stopVars, runVars, pc, current, turn, handled, retryDelay>>

\* Specter declares its streams when it starts.
DeclareStreams ==
    /\ ~declared
    /\ declared' = TRUE
    /\ UNCHANGED <<reachable, log, faults, stopVars, runVars, followVars, retryDelay>>

Fault ==
    /\ faults < MaxFaults
    /\ faults' = faults + 1
    /\ UNCHANGED <<declared, log>>

BecomeUnreachable ==
    /\ reachable
    /\ Fault
    /\ reachable' = FALSE
    /\ UNCHANGED <<stopVars, runVars, followVars, retryDelay>>

BecomeReachable ==
    /\ ~reachable
    /\ reachable' = TRUE
    /\ UNCHANGED <<declared, log, faults, stopVars, runVars, followVars, retryDelay>>

-------------------------------------------------------------------------------
(* connectWithRetry() and the start of the loops. *)

Unlimited(delay) == delay * 2
Doubled(delay) == IF delay * 2 < MaximumDelay THEN delay * 2 ELSE MaximumDelay

UnlessStopped(place) == IF isStopped THEN "ended" ELSE place

\* waitOnFirstConnect: connect() stays pending while the server cannot be reached.
ConnectSucceeds ==
    /\ runPc = "connecting"
    /\ reachable
    /\ connection' = "open"
    /\ runPc' = "following"
    /\ pc' = [s \in Streams |-> UnlessStopped("getting")]
    /\ UNCHANGED <<brokerVars, stopVars, todo, current, turn, handled, retryDelay>>

\* connect() rejects: the server refuses the connection for another reason.
ConnectFails ==
    /\ runPc = "connecting"
    /\ Fault
    /\ runPc' = UnlessStopped("sleeping")
    /\ UNCHANGED <<reachable, stopVars, connection, followVars, retryDelay>>

ConnectAgain ==
    /\ runPc = "sleeping"
    /\ runPc' = UnlessStopped("connecting")
    /\ retryDelay' = [retryDelay EXCEPT !["run"] = Doubled(@)]
    /\ UNCHANGED <<brokerVars, stopVars, connection, followVars>>

-------------------------------------------------------------------------------
(* follow(): the awaits of consumers.get() and consume() are one action,   *)
(* since fa keeps no state between them.                                   *)

Numbers(s) == 1..Len(log[s])

LatestPerSubject(s) ==
    {n \in Numbers(s) : \A m \in Numbers(s) : log[s][m].subject = log[s][n].subject => m <= n}

\* What a new consumer yields before the messages published later.
Backlog(s) == IF s \in LatestStreams THEN LatestPerSubject(s) ELSE {}

GetConsumer(s) ==
    /\ pc[s] = "getting"
    /\ connection = "open" /\ reachable /\ declared
    /\ pc' = [pc EXCEPT ![s] = "waiting"]
    /\ todo' = [todo EXCEPT ![s] = Backlog(s)]
    /\ retryDelay' = [retryDelay EXCEPT ![s] = InitialDelay]
    /\ UNCHANGED <<brokerVars, stopVars, runVars, current, turn, handled>>

\* The catch block and the checks of isStopped after it.
SleepOrEnd(s) ==
    /\ pc' = [pc EXCEPT ![s] = UnlessStopped("sleeping")]
    /\ todo' = [todo EXCEPT ![s] = {}]
    /\ UNCHANGED <<stopVars, runVars, current, turn, handled, retryDelay>>

\* The stream does not exist yet, or there is no answer from the server.
NoConsumer(s) ==
    /\ pc[s] = "getting"
    /\ connection = "closed" \/ ~reachable \/ ~declared
    /\ SleepOrEnd(s)
    /\ UNCHANGED brokerVars

GetConsumerFails(s) ==
    /\ pc[s] = "getting"
    /\ Fault
    /\ SleepOrEnd(s)
    /\ UNCHANGED reachable

FollowAgain(s) ==
    /\ pc[s] = "sleeping"
    /\ pc' = [pc EXCEPT ![s] = UnlessStopped("getting")]
    /\ retryDelay' = [retryDelay EXCEPT ![s] = Doubled(@)]
    /\ UNCHANGED <<brokerVars, stopVars, runVars, todo, current, turn, handled>>

-------------------------------------------------------------------------------
(* The for await loop and dispatch(). A message that the client has        *)
(* received is still yielded after the connection or the loop is stopped.  *)

Yield(s) ==
    /\ pc[s] = "waiting"
    /\ todo[s] # {}
    /\ LET n == Min(todo[s]) IN
           /\ todo' = [todo EXCEPT ![s] = @ \ {n}]
           /\ IF log[s][n].valid
                  THEN /\ pc' = [pc EXCEPT ![s] = "handling"]
                       /\ current' = [current EXCEPT ![s] = n]
                  ELSE UNCHANGED <<pc, current>>
    /\ UNCHANGED <<brokerVars, stopVars, runVars, turn, handled, retryDelay>>

LastOrFailed(s, failed) == failed \/ turn[s] = HandlerCount
Last(s, failed) == turn[s] = HandlerCount

\* The handler's promise resolves or rejects; the next handler gets the event either way.
HandlerEnds(s, failed) ==
    /\ pc[s] = "handling"
    /\ handled' = [handled EXCEPT ![s][turn[s]][log[s][current[s]].subject] = current[s]]
    /\ IF Last(s, failed)
           THEN /\ pc' = [pc EXCEPT ![s] = "waiting"]
                /\ turn' = [turn EXCEPT ![s] = 1]
                /\ current' = [current EXCEPT ![s] = 0]
           ELSE /\ turn' = [turn EXCEPT ![s] = @ + 1]
                /\ UNCHANGED <<pc, current>>
    /\ UNCHANGED <<brokerVars, stopVars, runVars, todo, retryDelay>>

\* The messages are stopped, or the connection under them is closed.
ConsumptionEnds(s) ==
    /\ pc[s] = "waiting"
    /\ s \in cut \/ connection = "closed"
    /\ SleepOrEnd(s)
    /\ UNCHANGED brokerVars

\* The consumption fails by itself, for instance when Specter deletes the stream.
ConsumptionBreaks(s) ==
    /\ pc[s] = "waiting"
    /\ Fault
    /\ SleepOrEnd(s)
    /\ UNCHANGED reachable

-------------------------------------------------------------------------------
(* stop() *)

Stop ==
    /\ ~isStopped
    /\ isStopped' = TRUE
    /\ cut' = {s \in Streams : Consuming(s)}
    /\ hasStopped' = (connection = "null")
    /\ UNCHANGED <<brokerVars, runVars, followVars, retryDelay>>

LeaveOpen == UNCHANGED connection
Close == connection' = "closed"

ConnectionCloses ==
    /\ isStopped /\ ~hasStopped
    /\ Close
    /\ hasStopped' = TRUE
    /\ UNCHANGED <<brokerVars, isStopped, cut, runPc, followVars, retryDelay>>

-------------------------------------------------------------------------------
FollowStep(s) ==
    \/ GetConsumer(s)
    \/ NoConsumer(s)
    \/ FollowAgain(s)
    \/ Yield(s)
    \/ \E failed \in BOOLEAN : HandlerEnds(s, failed)
    \/ ConsumptionEnds(s)

Next ==
    \/ \E s \in Streams, x \in Subjects, valid \in BOOLEAN : Publish(s, x, valid)
    \/ DeclareStreams
    \/ BecomeUnreachable
    \/ BecomeReachable
    \/ ConnectSucceeds
    \/ ConnectFails
    \/ ConnectAgain
    \/ \E s \in Streams : FollowStep(s)
    \/ \E s \in Streams : GetConsumerFails(s)
    \/ \E s \in Streams : ConsumptionBreaks(s)
    \/ Stop
    \/ ConnectionCloses

\* Timers fire, the client's requests end, handlers return. Nothing makes a fault or a stop happen.
Fairness ==
    /\ WF_vars(ConnectSucceeds)
    /\ WF_vars(ConnectAgain)
    /\ WF_vars(ConnectionCloses)
    /\ \A s \in Streams : WF_vars(FollowStep(s))

Spec == Init /\ [][Next]_vars /\ Fairness

-------------------------------------------------------------------------------
Loops == {"off", "getting", "waiting", "handling", "sleeping", "ended"}

\* Type correctness; the retry delays stay between their two limits.
TypeOK ==
    /\ reachable \in BOOLEAN /\ declared \in BOOLEAN
    /\ log \in [Streams -> Seq([subject : Subjects, valid : BOOLEAN])]
    /\ faults \in 0..MaxFaults
    /\ isStopped \in BOOLEAN /\ hasStopped \in BOOLEAN
    /\ cut \in SUBSET Streams
    /\ connection \in {"null", "open", "closed"}
    /\ runPc \in {"connecting", "sleeping", "following", "ended"}
    /\ pc \in [Streams -> Loops]
    /\ retryDelay \in [Streams \union {"run"} -> InitialDelay..MaximumDelay]
    /\ DOMAIN todo = Streams /\ \A s \in Streams : todo[s] \subseteq Numbers(s)
    /\ current \in [Streams -> Nat]
    /\ \A s \in Streams : IF pc[s] = "handling" THEN current[s] \in Numbers(s) ELSE current[s] = 0
    /\ turn \in [Streams -> Handlers]
    /\ handled \in [Streams -> [Handlers -> [Subjects -> Nat]]]

\* The loops, consumers and retries are how the handlers are given what EventFeed promises them.
\* Whatever one handler throws, all of them are given the same events, in turn; over all consumers
\* that follow one another an alert comes at most once and in order, and a camera's status never
\* after a newer one; and once Specter stays reachable the latest status of every camera comes,
\* also when it was published during an outage (specterEventStream.ts:73, 153-159).
Feed == INSTANCE EventFeed WITH up <- reachable /\ declared /\ ~isStopped, seen <- handled

ImplementsFeed == Feed!Feed

\* After stop() every loop ends, also one that was getting a consumer meanwhile, whose messages
\* stop() did not know of.
StopEndsTheLoops ==
    isStopped /\ runPc = "following" ~> \A s \in Streams : pc[s] = "ended"

\* src/tests/specterEventStream.test.ts:41-43: after stop() the stream is not connected.
StoppedIsDisconnected ==
    hasStopped => connection # "open"

-------------------------------------------------------------------------------
(* The inductive invariant: what the handlers of a stream have been given, and what still comes. *)

\* The last handler is given a message last; until then it knows what all knew before.
GivenToAll(s) == handled[s][HandlerCount]

\* While a message is dispatched, the handlers before the turn have been given it, and no other.
GivenInTurn(s) ==
    /\ \A h \in Handlers :
          handled[s][h] = IF h < turn[s]
                              THEN [GivenToAll(s) EXCEPT ![log[s][current[s]].subject] = current[s]]
                              ELSE GivenToAll(s)
    /\ pc[s] # "handling" => turn[s] = 1

Dispatched(s) == IF pc[s] = "handling" THEN {current[s]} ELSE {}

\* What a consumer yields comes after what the handlers were given: of the same subject where the
\* stream starts with the latest statuses, of any subject where it starts with new messages.
ComesLater(s, n) ==
    IF s \in LatestStreams THEN GivenToAll(s)[log[s][n].subject] <= n
                           ELSE \A x \in Subjects : GivenToAll(s)[x] < n

NothingComesBack(s) ==
    /\ \A x \in Subjects : GivenToAll(s)[x] # 0 =>
          GivenToAll(s)[x] \in Numbers(s) /\ log[s][GivenToAll(s)[x]].subject = x
    /\ \A n \in todo[s] \union Dispatched(s) : ComesLater(s, n)
    /\ pc[s] = "handling" => log[s][current[s]].valid /\ \A n \in todo[s] : current[s] < n
    /\ ~Consuming(s) => todo[s] = {}

\* run() starts the loops once it has connected.
LoopsStartWithRun == runPc # "following" => \A s \in Streams : pc[s] = "off"

StreamInvariant ==
    /\ TypeOK
    /\ LoopsStartWithRun
    /\ \A s \in Streams : GivenInTurn(s) /\ NothingComesBack(s)

-------------------------------------------------------------------------------
(* What this means to the handlers. *)

\* A handler has been given nothing that the handlers before it have not: when the relay is given a
\* change of the configuration, the names have been invalidated (index.ts:72-75).
HandlersInTurn ==
    \A s \in Streams : \A g, h \in Handlers : g <= h =>
        \A x \in Subjects : handled[s][h][x] <= handled[s][g][x]

\* An alert or a configuration change comes after all that came before it; a status is never
\* replaced by an older one.
NothingOldAgain ==
    [][\A s \in Streams, h \in Handlers, x \in Subjects :
          /\ handled[s][h][x] <= handled'[s][h][x]
          /\ s \in NewStreams /\ handled'[s][h][x] # handled[s][h][x]
                => \A y \in Subjects : handled[s][h][y] < handled'[s][h][x]]_vars
===============================================================================
