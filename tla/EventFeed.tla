------------------------------ MODULE EventFeed ------------------------------
(***************************************************************************)
(* What SpecterEventStream promises to the handlers that onEvent()         *)
(* registers, without connections, consumers, retries or delays: the       *)
(* events of a stream come to every handler in turn, messages may be       *)
(* missed, none comes out of order, and of the streams that start with     *)
(* DeliverPolicy.LastPerSubject the last one of every subject comes in the *)
(* end. SpecterEventStream implements it.                                  *)
(***************************************************************************)
EXTENDS Naturals, Sequences

CONSTANTS NewStreams, LatestStreams, Subjects, HandlerCount

Streams == NewStreams \union LatestStreams
Handlers == 1..HandlerCount

VARIABLES
    up,       \* the streams can be followed, and fa wants to
    log,      \* log[s]: the messages of stream s
    seen      \* seen[s][h][x]: the last message of subject x that handler h was given, or 0

feedVars == <<up, log, seen>>

Init ==
    /\ up \in BOOLEAN
    /\ log = [s \in Streams |-> <<>>]
    /\ seen = [s \in Streams |-> [h \in Handlers |-> [x \in Subjects |-> 0]]]

Publish(s) ==
    /\ \E x \in Subjects, valid \in BOOLEAN :
           log' = [log EXCEPT ![s] = Append(@, [subject |-> x, valid |-> valid])]
    /\ UNCHANGED <<up, seen>>

Change ==
    /\ up' = ~up
    /\ UNCHANGED <<log, seen>>

\* The handlers before h have been given the message, and the first handler gets it only when the
\* last message has been to all of them.
InTurn(s, h, n) ==
    IF h = 1 THEN \A g \in Handlers : seen[s][g] = seen[s][1]
             ELSE seen[s][h - 1][log[s][n].subject] = n

\* A status may come again, an alert or a configuration change may not.
InOrder(s, h, n) ==
    IF s \in LatestStreams THEN seen[s][h][log[s][n].subject] <= n
                           ELSE \A x \in Subjects : seen[s][h][x] < n

Give(s, h, n) ==
    /\ log[s][n].valid
    /\ InTurn(s, h, n)
    /\ InOrder(s, h, n)
    /\ seen' = [seen EXCEPT ![s][h][log[s][n].subject] = n]
    /\ UNCHANGED <<up, log>>

IsLatest(s, n) ==
    \A m \in DOMAIN log[s] : log[s][m].subject = log[s][n].subject => m <= n

\* While the streams can be followed, handler h is given the last message of subject x.
Deliver(s, h, x) ==
    /\ up
    /\ \E n \in DOMAIN log[s] :
           /\ log[s][n].subject = x
           /\ IsLatest(s, n)
           /\ Give(s, h, n)

Next ==
    \/ \E s \in Streams : Publish(s)
    \/ Change
    \/ \E s \in Streams, h \in Handlers : \E n \in DOMAIN log[s] : Give(s, h, n)

Fairness ==
    \A s \in LatestStreams, h \in Handlers, x \in Subjects : WF_feedVars(Deliver(s, h, x))

\* What may never happen, and what must in the end.
SafeFeed == Init /\ [][Next]_feedVars
Feed == SafeFeed /\ Fairness
===============================================================================
