------------------------------- MODULE LiveRelay -------------------------------
(***************************************************************************)
(* src/src/live/liveVideoRelay.ts, from the callback of handleUpgrade on:  *)
(* the viewer's WebSocket is open, Specter's is being opened, and whatever *)
(* one receives the other is sent, until either ends.                      *)
(*                                                                         *)
(* The sockets are those of the ws library, seen through readyState, send, *)
(* close and the events that the handlers listen to. ws emits "close" once *)
(* for every socket; when a handshake fails or is aborted it emits "error" *)
(* and "close" together, so both handlers run in one action.               *)
(***************************************************************************)
EXTENDS Naturals, Sequences

CONSTANT MaxMessages      \* bound: the messages a socket receives

ASSUME MessageAssumption == MaxMessages \in Nat

VARIABLES
    readyState,     \* of each socket; a handshake that was given up is "aborting"
    received,       \* how many messages fa received from each socket: they are 1, 2, 3...
    pending,        \* the messages that wait until a socket opens
    sent,           \* the messages a socket was told to send
    viewerCode      \* the code of the close frame sent to the viewer

relayVars == <<readyState, received, pending, sent, viewerCode>>

Sockets == {"viewer", "upstream"}
ReadyStates == {"connecting", "open", "aborting", "closing", "closed"}
Other(s) == IF s = "viewer" THEN "upstream" ELSE "viewer"

\* Close codes: one of the peer's, 1005 and 1006 of ws when there was none, and 1011.
PeerCodes == {"given", "none_given"}
Codes == PeerCodes \union {"abnormal", "upstream_failed", "not_closed"}

RelayInit ==
    /\ readyState = [viewer |-> "open", upstream |-> "connecting"]
    /\ received = [s \in Sockets |-> 0]
    /\ pending = [s \in Sockets |-> <<>>]
    /\ sent = [s \in Sockets |-> <<>>]
    /\ viewerCode = "not_closed"

--------------------------------------------------------------------------------
(* relayMessages(from, to) *)

DropUntilOpen(to, m) ==
    /\ sent' = IF readyState[to] = "open" THEN [sent EXCEPT ![to] = Append(@, m)] ELSE sent
    /\ UNCHANGED pending

SendOrWait(to, m) ==
    /\ sent' = IF readyState[to] = "open" THEN [sent EXCEPT ![to] = Append(@, m)] ELSE sent
    /\ pending' = IF readyState[to] = "connecting"
                      THEN [pending EXCEPT ![to] = Append(@, m)]
                      ELSE pending

\* A socket that fa is closing still receives what its peer sent before.
Message(from) ==
    /\ readyState[from] \in {"open", "closing"}
    /\ received[from] < MaxMessages
    /\ received' = [received EXCEPT ![from] = @ + 1]
    /\ SendOrWait(Other(from), received'[from])
    /\ UNCHANGED <<readyState, viewerCode>>

FlushPending(s) ==
    /\ sent' = [sent EXCEPT ![s] = @ \o pending[s]]
    /\ pending' = [pending EXCEPT ![s] = <<>>]

UpstreamOpens ==
    /\ readyState["upstream"] = "connecting"
    /\ readyState' = [readyState EXCEPT !["upstream"] = "open"]
    /\ FlushPending("upstream")
    /\ UNCHANGED <<received, viewerCode>>

--------------------------------------------------------------------------------
(* How the sockets end. WebSocket.close() does nothing to a socket that is  *)
(* already closing, so only the first code reaches the viewer.              *)

SameCode(code) == code
closeCode(code) == IF code \in {"none_given", "abnormal"} THEN "upstream_failed" ELSE code

\* The states after "upstream" changed to state and viewer.close(code) was called.
CloseViewer(state, code) ==
    /\ readyState' = [viewer   |-> IF readyState["viewer"] = "open" THEN "closing"
                                                                  ELSE readyState["viewer"],
                      upstream |-> state]
    /\ viewerCode' = IF readyState["viewer"] = "open" THEN code ELSE viewerCode

LeaveUpstream(state) ==
    /\ readyState' = [readyState EXCEPT !["viewer"] = state]
    /\ UNCHANGED viewerCode

\* The states after "viewer" changed to state and upstream.close() was called.
CloseUpstream(state) ==
    /\ readyState' = [viewer   |-> state,
                      upstream |-> CASE readyState["upstream"] = "connecting" -> "aborting"
                                     [] readyState["upstream"] = "open" -> "closing"
                                     [] OTHER -> readyState["upstream"]]
    /\ UNCHANGED viewerCode

\* Specter refuses the handshake, cannot be reached, or fa gave the handshake up.
HandshakeEnds ==
    /\ readyState["upstream"] \in {"connecting", "aborting"}
    /\ CloseViewer("closed", "upstream_failed")
    /\ UNCHANGED <<received, pending, sent>>

UpstreamError ==
    /\ readyState["upstream"] = "open"
    /\ CloseViewer("closing", "upstream_failed")
    /\ UNCHANGED <<received, pending, sent>>

UpstreamClose ==
    /\ readyState["upstream"] \in {"open", "closing"}
    /\ \E code \in PeerCodes \union {"abnormal"} : CloseViewer("closed", closeCode(code))
    /\ UNCHANGED <<received, pending, sent>>

ViewerError ==
    /\ readyState["viewer"] = "open"
    /\ CloseUpstream("closing")
    /\ UNCHANGED <<received, pending, sent>>

ViewerClose ==
    /\ readyState["viewer"] \in {"open", "closing"}
    /\ CloseUpstream("closed")
    /\ UNCHANGED <<received, pending, sent>>

RelayNext ==
    \/ \E s \in Sockets : Message(s)
    \/ UpstreamOpens
    \/ HandshakeEnds
    \/ UpstreamError
    \/ UpstreamClose
    \/ ViewerError
    \/ ViewerClose

\* ws ends a handshake that is given up at once, and a close handshake by a timer at the latest.
\* Nothing bounds a handshake that Specter does not answer, or a stream that stays open.
RelayFairness ==
    /\ WF_relayVars(readyState["upstream"] = "aborting" /\ HandshakeEnds)
    /\ WF_relayVars(readyState["upstream"] = "closing" /\ UpstreamClose)
    /\ WF_relayVars(readyState["viewer"] = "closing" /\ ViewerClose)

RelaySpec == RelayInit /\ [][RelayNext]_relayVars /\ RelayFairness

--------------------------------------------------------------------------------
FirstMessages(n) == [i \in 1..n |-> i]

\* Type correctness; a socket is told to send no more than the other one has received.
RelayTypeOK ==
    /\ readyState \in [Sockets -> ReadyStates]
    /\ received \in [Sockets -> 0..MaxMessages]
    /\ \A s \in Sockets : Len(pending[s]) + Len(sent[s]) <= received[Other(s)]
    /\ viewerCode \in Codes

\* The player asks for the stream before Specter's socket is open: what one side sent reaches
\* the other completely and in order, the messages that waited first, for as long as it is open.
InOrderWithoutLoss ==
    \A s \in Sockets :
        LET relayed == sent[s] \o pending[s] IN
        /\ relayed = FirstMessages(Len(relayed))
        /\ readyState[s] \in {"connecting", "open"} => Len(relayed) = received[Other(s)]
        /\ readyState[s] = "open" => pending[s] = <<>>

\* ws throws on a close code it may not send, out of the event handler and so out of fa: the
\* viewer only ever gets a code of Specter's or 1011 (closeCode).
CloseCodesMayBeSent == viewerCode \notin {"none_given", "abnormal"}

\* The inductive invariant: the messages are in order because each is relayed, or waits, before the
\* next one is received, and only a viewer that is being closed has been sent a code.
RelayInvariant ==
    /\ RelayTypeOK
    /\ sent \in [Sockets -> Seq(Nat)]
    /\ pending \in [Sockets -> Seq(Nat)]
    /\ InOrderWithoutLoss
    /\ CloseCodesMayBeSent

\* No half of a relay outlives the other: viewers that left do not keep streams of Specter open,
\* and a viewer is not left waiting on a stream that has ended.
BothSocketsEnd ==
    \A s \in Sockets : readyState[s] = "closed" ~> readyState[Other(s)] = "closed"
================================================================================
