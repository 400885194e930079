------------------------------ MODULE LiveTickets ------------------------------
(***************************************************************************)
(* src/src/live/liveVideoRelay.ts and liveController.ts: tickets that open *)
(* one video WebSocket each.                                               *)
(*                                                                         *)
(* A ticket is a signed token with a camera and an expiry time, so fa only *)
(* remembers the ids of used tickets, and forgets them once expired. The   *)
(* upgrade handler reads the clock twice, to verify the ticket and to      *)
(* forget expired ids: no other code of fa runs in between, but the clock  *)
(* does. The clock counts seconds, as both readings do.                    *)
(***************************************************************************)
EXTENDS Naturals

CONSTANTS
    Tickets,
    Cameras,
    Upgrades,     \* upgrade requests
    Lifetime,     \* TICKET_LIFETIME_SECONDS
    MaxPause,     \* seconds that may begin between the two readings of the clock
    MaxTime,      \* bound: the clock stops there
    NoRequest

ASSUME TicketAssumption ==
    /\ Lifetime \in Nat
    /\ MaxTime \in Nat
    /\ MaxPause \in {0, 1}
    /\ NoRequest \notin Upgrades

VARIABLES
    now,
    ticket,       \* the tickets' payloads: [issued, camera, exp]
    usedTicketIds,
    upgrade,      \* the upgrade requests: [state, ticket, camera]
    running,      \* the request whose redeemLiveTicket is between its two readings
    pause         \* the seconds that began since the first reading

vars == <<now, ticket, usedTicketIds, upgrade, running, pause>>

UpgradeStates ==
    {"none", "verified", "authorizing", "open", "refused", "unavailable", "closed"}

\* A ticket that is not issued, and a request that has not arrived, have placeholders for the rest.
Blank(c) == [issued |-> FALSE, camera |-> c, exp |-> 0]

Init ==
    /\ now = 0
    /\ \E c \in Cameras : ticket = [t \in Tickets |-> Blank(c)]
    /\ usedTicketIds = {}
    /\ \E c \in Cameras, t \in Tickets :
           upgrade = [q \in Upgrades |-> [state |-> "none", ticket |-> t, camera |-> c]]
    /\ running = NoRequest
    /\ pause = 0

Step(q, state) == upgrade' = [upgrade EXCEPT ![q].state = state]

--------------------------------------------------------------------------------
ClockTick ==
    /\ now < MaxTime
    /\ running = NoRequest \/ pause < MaxPause
    /\ now' = now + 1
    /\ pause' = IF running = NoRequest THEN 0 ELSE pause + 1
    /\ UNCHANGED <<ticket, usedTicketIds, upgrade, running>>

ExpiryInMilliseconds == now + 1000 * Lifetime
Expiry == now + Lifetime

\* issueLiveTicket, after the user's access to the camera was checked.
Issue(t, c) ==
    /\ running = NoRequest
    /\ ~ticket[t].issued
    /\ ticket' = [ticket EXCEPT ![t] = [issued |-> TRUE, camera |-> c, exp |-> Expiry]]
    /\ UNCHANGED <<now, usedTicketIds, upgrade, running, pause>>

(* redeemLiveTicket *)

Verifies(t) == ticket[t].issued /\ now < ticket[t].exp

\* jwt.verify: the signature and the expiry time. A request for an ill-formed camera ends here too.
Verify(q, t, c) ==
    /\ running = NoRequest
    /\ upgrade[q].state = "none"
    /\ Verifies(t)
    /\ upgrade' = [upgrade EXCEPT ![q] = [state |-> "verified", ticket |-> t, camera |-> c]]
    /\ running' = q
    /\ pause' = 0
    /\ UNCHANGED <<now, ticket, usedTicketIds>>

Reject(q, t, c) ==
    /\ running = NoRequest
    /\ upgrade[q].state = "none"
    /\ ~Verifies(t)
    /\ upgrade' = [upgrade EXCEPT ![q] = [state |-> "refused", ticket |-> t, camera |-> c]]
    /\ UNCHANGED <<now, ticket, usedTicketIds, running, pause>>

RememberedTooShort == {t \in usedTicketIds : ticket[t].exp > now}
RememberedForGood == usedTicketIds

\* forgetExpiredTickets
Remembered == {t \in usedTicketIds : ticket[t].exp >= now}

AcceptedForAnyCamera(q) == upgrade[q].ticket \notin Remembered
Accepted(q) ==
    /\ upgrade[q].camera = ticket[upgrade[q].ticket].camera
    /\ upgrade[q].ticket \notin Remembered

Redeem(q) ==
    /\ running = q
    /\ Accepted(q)
    /\ usedTicketIds' = Remembered \union {upgrade[q].ticket}
    /\ Step(q, "authorizing")
    /\ running' = NoRequest
    /\ pause' = 0
    /\ UNCHANGED <<now, ticket>>

Refuse(q) ==
    /\ running = q
    /\ ~Accepted(q)
    /\ usedTicketIds' = Remembered
    /\ Step(q, "refused")
    /\ running' = NoRequest
    /\ pause' = 0
    /\ UNCHANGED <<now, ticket>>

(* The rest of the upgrade handler, after it awaited the service token. *)

OpenSocket(q) ==
    /\ running = NoRequest
    /\ upgrade[q].state = "authorizing"
    /\ Step(q, "open")
    /\ UNCHANGED <<now, ticket, usedTicketIds, running, pause>>

\* The token file cannot be read: the ticket stays used.
TokenUnavailable(q) ==
    /\ running = NoRequest
    /\ upgrade[q].state = "authorizing"
    /\ Step(q, "unavailable")
    /\ UNCHANGED <<now, ticket, usedTicketIds, running, pause>>

\* The socket ends; LiveRelay tells how.
CloseSocket(q) ==
    /\ running = NoRequest
    /\ upgrade[q].state = "open"
    /\ Step(q, "closed")
    /\ UNCHANGED <<now, ticket, usedTicketIds, running, pause>>

\* A restart of fa forgets its memory; the tickets and the key that signs them remain.
Restart ==
    /\ usedTicketIds' = {}
    /\ upgrade' = [q \in Upgrades |->
                     CASE upgrade[q].state = "verified" -> [upgrade[q] EXCEPT !.state = "refused"]
                       [] upgrade[q].state \in {"authorizing", "open"}
                              -> [upgrade[q] EXCEPT !.state = "closed"]
                       [] OTHER -> upgrade[q]]
    /\ running' = NoRequest
    /\ pause' = 0
    /\ UNCHANGED <<now, ticket>>

Next ==
    \/ ClockTick
    \/ \E t \in Tickets, c \in Cameras : Issue(t, c)
    \/ \E q \in Upgrades, t \in Tickets, c \in Cameras : Verify(q, t, c) \/ Reject(q, t, c)
    \/ \E q \in Upgrades :
           \/ Redeem(q)
           \/ Refuse(q)
           \/ OpenSocket(q)
           \/ TokenUnavailable(q)
           \/ CloseSocket(q)

Spec == Init /\ [][Next]_vars

\* The same service over several lives of the process.
RestartSpec == Init /\ [][Next \/ Restart]_vars

--------------------------------------------------------------------------------
Redeemed(q) == upgrade[q].state \in {"authorizing", "open", "unavailable", "closed"}

\* Type correctness; a ticket is signed for one lifetime, in the unit in which it is verified.
TypeOK ==
    /\ now \in 0..MaxTime
    /\ ticket \in [Tickets -> [issued : BOOLEAN, camera : Cameras, exp : 0..MaxTime + Lifetime]]
    /\ usedTicketIds \subseteq Tickets
    /\ upgrade \in [Upgrades -> [state : UpgradeStates, ticket : Tickets, camera : Cameras]]
    /\ running \in Upgrades \union {NoRequest}
    /\ pause \in 0..MaxPause
    /\ \A q \in Upgrades : running = q <=> upgrade[q].state = "verified"

\* "Each ticket opens one WebSocket, so a ticket that leaks from a URL cannot be replayed"
\* (liveVideoRelay.ts:32): however requests, the clock and the forgetting of expired ids
\* interleave, a ticket is redeemed once.
OneSocketPerTicket ==
    \A p, q \in Upgrades :
        Redeemed(p) /\ Redeemed(q) /\ upgrade[p].ticket = upgrade[q].ticket => p = q

\* The inductive invariant behind OneSocketPerTicket: a used id is remembered until its ticket has
\* expired for every later reading of the clock, and a ticket that has just been verified has
\* not expired by more than the pause in between.
TicketInvariant ==
    /\ TypeOK
    /\ OneSocketPerTicket
    /\ \A q \in Upgrades : Redeemed(q) =>
          \/ upgrade[q].ticket \in usedTicketIds
          \/ ticket[upgrade[q].ticket].exp < now
    /\ \A q \in Upgrades : upgrade[q].state # "none" /\ upgrade[q].state # "refused"
          => ticket[upgrade[q].ticket].issued
    /\ running # NoRequest => now < ticket[upgrade[running].ticket].exp + pause

Live(q) == upgrade[q].state \in {"authorizing", "open"}

\* What is left of OneSocketPerTicket over restarts, which forget the used ids but also end the
\* sockets: a ticket may open a socket in each life of the process, but never has two at the same
\* time. A socket may outlive its ticket, and then the id is forgotten while the socket is open.
OneLiveSocket ==
    \A p, q \in Upgrades : Live(p) /\ Live(q) /\ upgrade[p].ticket = upgrade[q].ticket => p = q

\* The inductive invariant of RestartSpec: as TicketInvariant, but of live sockets only.
RestartInvariant ==
    /\ TypeOK
    /\ OneLiveSocket
    /\ \A q \in Upgrades : Live(q) =>
          \/ upgrade[q].ticket \in usedTicketIds
          \/ ticket[upgrade[q].ticket].exp < now
    /\ \A q \in Upgrades : Live(q) \/ upgrade[q].state = "verified"
          => ticket[upgrade[q].ticket].issued
    /\ \A t \in Tickets : ticket[t].exp <= now + Lifetime
    /\ running # NoRequest => now < ticket[upgrade[running].ticket].exp + pause

\* A ticket opens the camera that was checked when it was issued, never the one of another
\* request's URL, and is redeemed no later than its last second ends.
OpensItsCameraInTime ==
    [][\A q \in Upgrades : ~Redeemed(q) /\ Redeemed(q)' =>
          /\ upgrade'[q].camera = ticket[upgrade'[q].ticket].camera
          /\ now <= ticket[upgrade'[q].ticket].exp]_vars

\* The table of used ids is bounded by the tickets of the last minute: no redemption leaves an
\* expired id behind.
ForgetsExpiredIds ==
    [][usedTicketIds' # usedTicketIds => \A t \in usedTicketIds' : ticket[t].exp >= now]_vars
================================================================================
