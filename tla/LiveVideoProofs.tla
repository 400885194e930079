---------------------------- MODULE LiveVideoProofs ----------------------------
(***************************************************************************)
(* Proofs about live video: LiveTickets, and LiveRelay with Shutdown       *)
(* around it, for any tickets, upgrade requests, lifetime, messages,       *)
(* clients, requests and signals. A ticket opens one socket, for its       *)
(* camera and in time, and no ids of expired tickets are kept; messages    *)
(* are relayed in order and without loss, and close codes may be sent.     *)
(***************************************************************************)
EXTENDS LiveTickets, Shutdown, SequenceTheorems, TLAPS

USE DEF vars, relayVars, shutdownVars, allVars
--------------------------------------------------------------------------------
(* Tickets. *)

TicketType == [Tickets -> [issued : BOOLEAN, camera : Cameras, exp : 0..MaxTime + Lifetime]]
UpgradeType == [Upgrades -> [state : UpgradeStates, ticket : Tickets, camera : Cameras]]

\* No ticket has been issued when fa starts.
LEMMA TicketTypeInit == Init => TypeOK
<1> SUFFICES ASSUME Init
             PROVE  TypeOK
  OBVIOUS
<1>1. ticket \in TicketType
  BY TicketAssumption DEF Init, Blank, TicketType
<1>2. upgrade \in UpgradeType
  BY DEF Init, UpgradeType, UpgradeStates
<1>3. \A q \in Upgrades : upgrade[q].state = "none" /\ running # q
  BY TicketAssumption DEF Init
<1> QED
  BY <1>1, <1>2, <1>3, TicketAssumption DEF Init, TypeOK, TicketType, UpgradeType

\* One step of one request, in the form the steps below share.
LEMMA UpgradeStepEffect ==
    ASSUME TypeOK, NEW q \in Upgrades, NEW state \in UpgradeStates, Step(q, state)
    PROVE  /\ upgrade' \in UpgradeType
           /\ upgrade'[q].state = state
           /\ upgrade'[q].ticket = upgrade[q].ticket
           /\ upgrade'[q].camera = upgrade[q].camera
           /\ \A p \in Upgrades \ {q} : upgrade'[p] = upgrade[p]
  BY DEF Step, TypeOK, UpgradeType

\* Every step of the tickets leaves their state typed.
LEMMA TicketTypeStep == TypeOK /\ [Next]_vars => TypeOK'
<1> SUFFICES ASSUME TypeOK, [Next]_vars
             PROVE  TypeOK'
  OBVIOUS
<1>0. ticket \in TicketType /\ upgrade \in UpgradeType
  BY DEF TypeOK, TicketType, UpgradeType
<1>1. CASE ClockTick
  BY <1>1, TicketAssumption DEF ClockTick, TypeOK
<1>2. ASSUME NEW t \in Tickets, NEW c \in Cameras, Issue(t, c)
      PROVE  TypeOK'
  <2>1. Expiry \in 0..MaxTime + Lifetime
    BY TicketAssumption DEF Expiry, TypeOK
  <2>2. ticket' \in TicketType
    BY <1>0, <1>2, <2>1 DEF Issue, TicketType
  <2> QED
    BY <1>2, <2>2 DEF Issue, TypeOK, TicketType
<1>3. ASSUME NEW q \in Upgrades, NEW t \in Tickets, NEW c \in Cameras, Verify(q, t, c)
      PROVE  TypeOK'
  <2>1. upgrade' \in UpgradeType
    BY <1>0, <1>3 DEF Verify, UpgradeType, UpgradeStates
  <2>2. \A p \in Upgrades : running' = p <=> upgrade'[p].state = "verified"
    BY <1>0, <1>3, TicketAssumption DEF Verify, UpgradeType, TypeOK
  <2> QED
    BY <1>3, <2>1, <2>2, TicketAssumption DEF Verify, TypeOK, UpgradeType
<1>4. ASSUME NEW q \in Upgrades, NEW t \in Tickets, NEW c \in Cameras, Reject(q, t, c)
      PROVE  TypeOK'
  <2>1. upgrade' \in UpgradeType
    BY <1>0, <1>4 DEF Reject, UpgradeType, UpgradeStates
  <2>2. \A p \in Upgrades : running' = p <=> upgrade'[p].state = "verified"
    BY <1>0, <1>4, TicketAssumption DEF Reject, UpgradeType, TypeOK
  <2> QED
    BY <1>4, <2>1, <2>2 DEF Reject, TypeOK, UpgradeType
<1>5. ASSUME NEW q \in Upgrades, Redeem(q) \/ Refuse(q)
      PROVE  TypeOK'
  <2>1. PICK state \in UpgradeStates : state # "verified" /\ Step(q, state)
    BY <1>5 DEF Redeem, Refuse, UpgradeStates
  <2>2. usedTicketIds' \subseteq Tickets
    BY <1>0, <1>5 DEF Redeem, Refuse, Remembered, TypeOK, UpgradeType
  <2>3. \A p \in Upgrades : running' = p <=> upgrade'[p].state = "verified"
    BY <1>5, <2>1, UpgradeStepEffect, TicketAssumption DEF Redeem, Refuse, TypeOK
  <2> QED
    BY <1>5, <2>1, <2>2, <2>3, UpgradeStepEffect, TicketAssumption
    DEF Redeem, Refuse, TypeOK, UpgradeType
<1>6. ASSUME NEW q \in Upgrades, OpenSocket(q) \/ TokenUnavailable(q) \/ CloseSocket(q)
      PROVE  TypeOK'
  <2>1. PICK state \in UpgradeStates : state # "verified" /\ Step(q, state)
    BY <1>6 DEF OpenSocket, TokenUnavailable, CloseSocket, UpgradeStates
  <2>2. running = NoRequest /\ UNCHANGED <<now, ticket, usedTicketIds, running, pause>>
    BY <1>6 DEF OpenSocket, TokenUnavailable, CloseSocket
  <2>3. \A p \in Upgrades : running' = p <=> upgrade'[p].state = "verified"
    BY <2>1, <2>2, UpgradeStepEffect, TicketAssumption DEF TypeOK
  <2> QED
    BY <2>1, <2>2, <2>3, UpgradeStepEffect DEF TypeOK, UpgradeType
<1>7. CASE UNCHANGED vars
  BY <1>7 DEF TypeOK
<1> QED
  BY <1>1, <1>2, <1>3, <1>4, <1>5, <1>6, <1>7 DEF Next

--------------------------------------------------------------------------------
\* The tickets' invariant holds when fa starts.
LEMMA TicketInvariantInit == Init => TicketInvariant
<1> SUFFICES ASSUME Init
             PROVE  TicketInvariant
  OBVIOUS
<1>1. TypeOK
  BY TicketTypeInit
<1>2. running = NoRequest /\ \A q \in Upgrades : upgrade[q].state = "none"
  BY DEF Init
<1> QED
  BY <1>1, <1>2 DEF TicketInvariant, OneSocketPerTicket, Redeemed

\* A ticket that is being redeemed and is not remembered has not been redeemed before: its id
\* was not forgotten, because the ticket has not expired by more than the pause.
LEMMA NotRedeemedBefore ==
    ASSUME TicketInvariant, NEW q \in Upgrades, Redeem(q), NEW p \in Upgrades, Redeemed(p)
    PROVE  upgrade[p].ticket # upgrade[q].ticket
<1> SUFFICES ASSUME upgrade[p].ticket = upgrade[q].ticket
             PROVE  FALSE
  OBVIOUS
<1> DEFINE t == upgrade[q].ticket
<1>1. /\ t \in Tickets /\ ticket[t].exp \in Nat /\ now \in Nat /\ pause \in 0..MaxPause
  BY TicketAssumption DEF TicketInvariant, TypeOK
<1>2. running = q /\ t \notin Remembered
  BY DEF Redeem, Accepted
<1>3. now < ticket[t].exp + pause
  BY <1>2, TicketAssumption DEF TicketInvariant
<1>4. now <= ticket[t].exp
  BY <1>1, <1>3, TicketAssumption
<1>5. t \in usedTicketIds
  BY <1>1, <1>4 DEF TicketInvariant
<1> QED
  BY <1>1, <1>2, <1>4, <1>5 DEF Remembered

\* Every step of the tickets keeps their invariant.
LEMMA TicketInvariantStep == TicketInvariant /\ [Next]_vars => TicketInvariant'
<1> SUFFICES ASSUME TicketInvariant, [Next]_vars
             PROVE  TicketInvariant'
  OBVIOUS
<1>0. /\ TypeOK /\ TypeOK'
      /\ ticket \in TicketType /\ upgrade \in UpgradeType
      /\ now \in Nat
  BY TicketTypeStep, TicketAssumption DEF TicketInvariant, TypeOK, TicketType, UpgradeType
<1>1. CASE ClockTick
  <2>1. /\ now' = now + 1
        /\ pause' = IF running = NoRequest THEN 0 ELSE pause + 1
        /\ UNCHANGED <<ticket, usedTicketIds, upgrade, running>>
    BY <1>1 DEF ClockTick
  <2>2. \A t \in Tickets : ticket[t].exp \in Nat
    BY <1>0, TicketAssumption DEF TicketType
  <2>3. \A q \in Upgrades : upgrade[q].ticket \in Tickets
    BY <1>0 DEF UpgradeType
  <2>4. running # NoRequest => now' < ticket[upgrade[running].ticket].exp + pause'
    BY <1>0, <2>1, <2>2, <2>3, TicketAssumption DEF TicketInvariant, TypeOK
  <2> QED
    BY <1>0, <2>1, <2>2, <2>3, <2>4 DEF TicketInvariant, OneSocketPerTicket, Redeemed
<1>2. ASSUME NEW t \in Tickets, NEW c \in Cameras, Issue(t, c)
      PROVE  TicketInvariant'
  <2>1. /\ ~ticket[t].issued /\ running = NoRequest
        /\ UNCHANGED <<now, usedTicketIds, upgrade, running, pause>>
        /\ ticket'[t].issued
        /\ \A s \in Tickets \ {t} : ticket'[s] = ticket[s]
    BY <1>0, <1>2 DEF Issue, TicketType
  <2>2. \A q \in Upgrades : upgrade[q].ticket \in Tickets
    BY <1>0 DEF UpgradeType
  <2>3. \A q \in Upgrades : Redeemed(q) => upgrade[q].ticket # t
    BY <2>1 DEF TicketInvariant, Redeemed
  <2> QED
    BY <1>0, <2>1, <2>2, <2>3 DEF TicketInvariant, OneSocketPerTicket, Redeemed
<1>3. ASSUME NEW q \in Upgrades, NEW t \in Tickets, NEW c \in Cameras, Verify(q, t, c)
      PROVE  TicketInvariant'
  <2>1. /\ Verifies(t) /\ UNCHANGED <<now, ticket, usedTicketIds>> /\ running' = q /\ pause' = 0
        /\ upgrade'[q].state = "verified" /\ upgrade'[q].ticket = t
        /\ \A p \in Upgrades \ {q} : upgrade'[p] = upgrade[p]
    BY <1>0, <1>3 DEF Verify, UpgradeType
  <2>2. ~Redeemed(q)' /\ \A p \in Upgrades \ {q} : Redeemed(p)' = Redeemed(p)
    BY <2>1 DEF Redeemed
  <2>3. now < ticket[t].exp /\ ticket[t].exp \in Nat /\ ticket[t].issued
    BY <1>0, <2>1, TicketAssumption DEF Verifies, TicketType
  <2> QED
    BY <1>0, <2>1, <2>2, <2>3 DEF TicketInvariant, OneSocketPerTicket
<1>4. ASSUME NEW q \in Upgrades, NEW t \in Tickets, NEW c \in Cameras, Reject(q, t, c)
      PROVE  TicketInvariant'
  <2>1. /\ running = NoRequest /\ UNCHANGED <<now, ticket, usedTicketIds, running, pause>>
        /\ upgrade'[q].state = "refused"
        /\ \A p \in Upgrades \ {q} : upgrade'[p] = upgrade[p]
    BY <1>0, <1>4 DEF Reject, UpgradeType
  <2>2. ~Redeemed(q)' /\ \A p \in Upgrades \ {q} : Redeemed(p)' = Redeemed(p)
    BY <2>1 DEF Redeemed
  <2> QED
    BY <1>0, <2>1, <2>2 DEF TicketInvariant, OneSocketPerTicket
<1>5. ASSUME NEW q \in Upgrades, Redeem(q)
      PROVE  TicketInvariant'
  <2>1. /\ UNCHANGED <<now, ticket>> /\ running = q /\ running' = NoRequest
        /\ usedTicketIds' = Remembered \union {upgrade[q].ticket}
    BY <1>5 DEF Redeem
  <2>2. /\ upgrade'[q].state = "authorizing" /\ upgrade'[q].ticket = upgrade[q].ticket
        /\ \A p \in Upgrades \ {q} : upgrade'[p] = upgrade[p]
    BY <1>0, <1>5, UpgradeStepEffect DEF Redeem, UpgradeStates
  <2>3. Redeemed(q)' /\ \A p \in Upgrades \ {q} : Redeemed(p)' = Redeemed(p)
    BY <2>2 DEF Redeemed
  <2>4. OneSocketPerTicket'
    BY <1>5, <2>2, <2>3, NotRedeemedBefore DEF TicketInvariant, OneSocketPerTicket
  <2>5. ASSUME NEW p \in Upgrades, Redeemed(p)'
        PROVE  (upgrade[p].ticket \in usedTicketIds \/ ticket[upgrade[p].ticket].exp < now)'
    <3>1. CASE p = q
      BY <2>1, <2>2, <3>1
    <3>2. CASE p # q
      <4>1. /\ upgrade'[p] = upgrade[p] /\ upgrade[p].ticket \in Tickets
            /\ \/ upgrade[p].ticket \in usedTicketIds
               \/ ticket[upgrade[p].ticket].exp < now
        BY <1>0, <2>2, <2>3, <2>5, <3>2 DEF TicketInvariant, UpgradeType
      <4>2. ticket[upgrade[p].ticket].exp \in Nat
        BY <1>0, <4>1, TicketAssumption DEF TicketType
      <4> QED
        BY <1>0, <2>1, <4>1, <4>2 DEF Remembered
    <3> QED
      BY <3>1, <3>2
  <2>6. upgrade[q].state = "verified"
    BY <1>0, <2>1 DEF TypeOK
  <2> QED
    BY <1>0, <2>1, <2>2, <2>4, <2>5, <2>6 DEF TicketInvariant
<1>6. ASSUME NEW q \in Upgrades, Refuse(q)
      PROVE  TicketInvariant'
  <2>1. /\ UNCHANGED <<now, ticket>> /\ running' = NoRequest /\ usedTicketIds' = Remembered
    BY <1>6 DEF Refuse
  <2>2. /\ upgrade'[q].state = "refused"
        /\ \A p \in Upgrades \ {q} : upgrade'[p] = upgrade[p]
    BY <1>0, <1>6, UpgradeStepEffect DEF Refuse, UpgradeStates
  <2>3. ~Redeemed(q)' /\ \A p \in Upgrades \ {q} : Redeemed(p)' = Redeemed(p)
    BY <2>2 DEF Redeemed
  <2>4. ASSUME NEW p \in Upgrades, Redeemed(p)'
        PROVE  (upgrade[p].ticket \in usedTicketIds \/ ticket[upgrade[p].ticket].exp < now)'
    <3>1. /\ p # q /\ upgrade'[p] = upgrade[p] /\ upgrade[p].ticket \in Tickets
          /\ upgrade[p].ticket \in usedTicketIds \/ ticket[upgrade[p].ticket].exp < now
      BY <1>0, <2>2, <2>3, <2>4 DEF TicketInvariant, UpgradeType
    <3>2. ticket[upgrade[p].ticket].exp \in Nat
      BY <1>0, <3>1, TicketAssumption DEF TicketType
    <3> QED
      BY <1>0, <2>1, <3>1, <3>2 DEF Remembered
  <2> QED
    BY <1>0, <2>1, <2>2, <2>3, <2>4 DEF TicketInvariant, OneSocketPerTicket
<1>7. ASSUME NEW q \in Upgrades, OpenSocket(q) \/ TokenUnavailable(q) \/ CloseSocket(q)
      PROVE  TicketInvariant'
  <2>1. /\ running = NoRequest /\ UNCHANGED <<now, ticket, usedTicketIds, running, pause>>
        /\ Redeemed(q)
    BY <1>7 DEF OpenSocket, TokenUnavailable, CloseSocket, Redeemed
  <2>2. /\ upgrade'[q].ticket = upgrade[q].ticket /\ Redeemed(q)'
        /\ \A p \in Upgrades \ {q} : upgrade'[p] = upgrade[p]
    BY <1>0, <1>7, UpgradeStepEffect
    DEF OpenSocket, TokenUnavailable, CloseSocket, Redeemed, UpgradeStates
  <2>3. \A p \in Upgrades : Redeemed(p)' = Redeemed(p) /\ upgrade'[p].ticket = upgrade[p].ticket
    BY <2>1, <2>2 DEF Redeemed
  <2>4. upgrade[q].state # "none" /\ upgrade[q].state # "refused"
    BY <2>1 DEF Redeemed
  <2> QED
    BY <1>0, <2>1, <2>2, <2>3, <2>4 DEF TicketInvariant, OneSocketPerTicket
<1>8. CASE UNCHANGED vars
  BY <1>0, <1>8 DEF TicketInvariant, OneSocketPerTicket, Redeemed
<1> QED
  BY <1>1, <1>2, <1>3, <1>4, <1>5, <1>6, <1>7, <1>8 DEF Next

--------------------------------------------------------------------------------
\* The inductive invariant holds as long as the process runs.
THEOREM TicketInvariantHolds == Spec => []TicketInvariant
  BY TicketInvariantInit, TicketInvariantStep, PTL DEF Spec

\* Type correctness, with every ticket signed for one lifetime.
THEOREM TicketTypes == Spec => []TypeOK
<1>1. TicketInvariant => TypeOK
  BY DEF TicketInvariant
<1> QED
  BY <1>1, TicketInvariantHolds, PTL

\* However many requests race with one ticket, and whenever its id is forgotten, one opens.
THEOREM OneSocket == Spec => []OneSocketPerTicket
<1>1. TicketInvariant => OneSocketPerTicket
  BY DEF TicketInvariant
<1> QED
  BY <1>1, TicketInvariantHolds, PTL

--------------------------------------------------------------------------------
\* A ticket that is being redeemed had not expired at the first reading of the clock.
InTime == running # NoRequest => now < ticket[upgrade[running].ticket].exp + pause

\* As at most one second begins between the readings, it is still its last second at the second.
LEMMA RedeemedInItsLastSecond ==
    ASSUME TypeOK, InTime, NEW q \in Upgrades, running = q
    PROVE  now <= ticket[upgrade[q].ticket].exp
<1>1. upgrade[q].ticket \in Tickets
  BY DEF TypeOK
<1>2. ticket[upgrade[q].ticket].exp \in Nat /\ now \in Nat /\ pause \in 0..MaxPause
  BY <1>1, TicketAssumption DEF TypeOK
<1> QED
  BY <1>2, TicketAssumption DEF InTime

\* A request that becomes redeemed is the one that is redeemed in this step.
LEMMA OnlyRedeemRedeems ==
    ASSUME TypeOK, Next \/ Restart, NEW q \in Upgrades, ~Redeemed(q), Redeemed(q)'
    PROVE  Redeem(q)
<1>1. upgrade \in UpgradeType
  BY DEF TypeOK, UpgradeType
<1>2. ASSUME NEW p \in Upgrades, p # q,
             \/ \E t \in Tickets, c \in Cameras : Verify(p, t, c) \/ Reject(p, t, c)
             \/ Redeem(p) \/ Refuse(p) \/ OpenSocket(p) \/ TokenUnavailable(p) \/ CloseSocket(p)
      PROVE  FALSE
  <2>1. upgrade'[q] = upgrade[q]
    BY <1>1, <1>2 DEF Verify, Reject, Redeem, Refuse, OpenSocket, TokenUnavailable, CloseSocket,
                      Step, UpgradeType
  <2> QED
    BY <2>1 DEF Redeemed
<1>3. ~\E t \in Tickets, c \in Cameras : Verify(q, t, c) \/ Reject(q, t, c)
  BY <1>1 DEF Verify, Reject, Redeemed, UpgradeType
<1>4. ~(Refuse(q) \/ OpenSocket(q) \/ TokenUnavailable(q) \/ CloseSocket(q))
  BY <1>1 DEF Refuse, OpenSocket, TokenUnavailable, CloseSocket, Step, Redeemed, UpgradeType
<1>5. ~(ClockTick \/ \E t \in Tickets, c \in Cameras : Issue(t, c))
  BY DEF ClockTick, Issue, Redeemed
<1>6. ASSUME Restart
      PROVE  FALSE
  <2>1. upgrade[q].state \in {"none", "verified", "refused"}
    BY <1>1 DEF Redeemed, UpgradeType, UpgradeStates
  <2>2. upgrade'[q].state \in {"none", "refused"}
    BY <1>1, <1>6, <2>1 DEF Restart, UpgradeType
  <2> QED
    BY <2>2 DEF Redeemed
<1> QED
  BY <1>2, <1>3, <1>4, <1>5, <1>6 DEF Next

\* So a request is redeemed for its ticket's camera, in its ticket's last second at the latest.
LEMMA RedeemsItsCameraInTime ==
    ASSUME TypeOK, InTime, Next \/ Restart, NEW q \in Upgrades, ~Redeemed(q), Redeemed(q)'
    PROVE  /\ upgrade'[q].camera = ticket[upgrade'[q].ticket].camera
           /\ now <= ticket[upgrade'[q].ticket].exp
<1>1. Redeem(q)
  BY OnlyRedeemRedeems
<1>2. upgrade'[q].ticket = upgrade[q].ticket /\ upgrade'[q].camera = upgrade[q].camera
  BY <1>1, UpgradeStepEffect DEF Redeem, UpgradeStates
<1>3. upgrade[q].camera = ticket[upgrade[q].ticket].camera /\ running = q
  BY <1>1 DEF Redeem, Accepted
<1> QED
  BY <1>2, <1>3, RedeemedInItsLastSecond

\* What a changed table of used ids holds had not expired, the redeemed id included.
LEMMA NoExpiredIdsAreLeft ==
    ASSUME TypeOK, InTime, Next \/ Restart, usedTicketIds' # usedTicketIds, NEW t \in usedTicketIds'
    PROVE  t \in Tickets /\ ticket[t].exp >= now
<1>1. PICK q \in Upgrades : Redeem(q) \/ Refuse(q)
  BY DEF Next, Restart, ClockTick, Issue, Verify, Reject, OpenSocket, TokenUnavailable, CloseSocket
<1>2. CASE t \in Remembered
  BY <1>2 DEF Remembered, TypeOK
<1>3. CASE t \notin Remembered
  <2>1. t = upgrade[q].ticket /\ running = q
    BY <1>1, <1>3 DEF Redeem, Refuse
  <2>2. t \in Tickets /\ ticket[t].exp \in Nat /\ now \in Nat
    BY <2>1, TicketAssumption DEF TypeOK
  <2> QED
    BY <2>1, <2>2, RedeemedInItsLastSecond
<1> QED
  BY <1>2, <1>3

\* A ticket is redeemed for its own camera, in the second in which it expires at the latest.
THEOREM OpensInTime == Spec => OpensItsCameraInTime
<1>1. TicketInvariant /\ [Next]_vars =>
        [\A q \in Upgrades : ~Redeemed(q) /\ Redeemed(q)' =>
            /\ upgrade'[q].camera = ticket[upgrade'[q].ticket].camera
            /\ now <= ticket[upgrade'[q].ticket].exp]_vars
  BY RedeemsItsCameraInTime DEF TicketInvariant, InTime
<1> QED
  BY <1>1, TicketInvariantHolds, PTL DEF Spec, OpensItsCameraInTime

\* Whenever the table of used ids changes, what it then holds are ids of tickets that have not
\* expired, the redeemed one among them.
THEOREM ForgetsIds == Spec => ForgetsExpiredIds
<1>1. TicketInvariant /\ [Next]_vars =>
        [usedTicketIds' # usedTicketIds => \A t \in usedTicketIds' : ticket[t].exp >= now]_vars
  BY NoExpiredIdsAreLeft DEF TicketInvariant, InTime
<1> QED
  BY <1>1, TicketInvariantHolds, PTL DEF Spec, ForgetsExpiredIds

--------------------------------------------------------------------------------
(* Tickets over several lives of the process. *)

\* A restart leaves the state typed.
LEMMA RestartIsTyped == TypeOK /\ Restart => TypeOK'
<1> SUFFICES ASSUME TypeOK, Restart
             PROVE  TypeOK'
  OBVIOUS
<1>1. \A q \in Upgrades :
         /\ upgrade'[q] \in [state : UpgradeStates, ticket : Tickets, camera : Cameras]
         /\ upgrade'[q].state # "verified"
  BY DEF Restart, TypeOK, UpgradeStates
<1>2. upgrade' \in UpgradeType
  BY <1>1 DEF Restart, UpgradeType
<1>3. /\ running' = NoRequest /\ pause' = 0 /\ usedTicketIds' = {}
      /\ UNCHANGED <<now, ticket>>
  BY DEF Restart
<1>4. \A q \in Upgrades : running' = q <=> upgrade'[q].state = "verified"
  BY <1>1, <1>3, TicketAssumption
<1> QED
  BY <1>2, <1>3, <1>4, TicketAssumption DEF TypeOK, UpgradeType

\* The invariant over restarts holds when fa first starts.
LEMMA RestartInvariantInit == Init => RestartInvariant
<1> SUFFICES ASSUME Init
             PROVE  RestartInvariant
  OBVIOUS
<1>1. TypeOK
  BY TicketTypeInit
<1>2. running = NoRequest /\ \A q \in Upgrades : upgrade[q].state = "none"
  BY DEF Init
<1>3. now = 0 /\ \A t \in Tickets : ticket[t].exp = 0
  <2>1. PICK c \in Cameras : ticket = [t \in Tickets |-> Blank(c)]
    BY DEF Init
  <2>2. \A t \in Tickets : ticket[t] = Blank(c)
    BY <2>1
  <2> QED
    BY <2>2 DEF Init, Blank
<1> QED
  BY <1>1, <1>2, <1>3, TicketAssumption DEF RestartInvariant, OneLiveSocket, Live

\* What a step of one request does to the others and to its own liveness.
LEMMA OthersStay ==
    ASSUME TypeOK, NEW q \in Upgrades, NEW state \in UpgradeStates, Step(q, state)
    PROVE  /\ upgrade'[q].ticket = upgrade[q].ticket
           /\ Live(q)' <=> state \in {"authorizing", "open"}
           /\ \A p \in Upgrades \ {q} : upgrade'[p] = upgrade[p] /\ Live(p)' = Live(p)
  BY UpgradeStepEffect DEF Live

\* Every step, restarts included, keeps the invariant over restarts.
LEMMA RestartInvariantStep == RestartInvariant /\ [Next \/ Restart]_vars => RestartInvariant'
<1> SUFFICES ASSUME RestartInvariant, [Next \/ Restart]_vars
             PROVE  RestartInvariant'
  OBVIOUS
<1>0. /\ TypeOK /\ TypeOK'
      /\ now \in Nat /\ now' \in Nat /\ pause \in Nat
      /\ \A q \in Upgrades : upgrade[q].ticket \in Tickets
      /\ \A t \in Tickets : ticket[t].exp \in Nat
  <2>1. TypeOK'
    BY TicketTypeStep, RestartIsTyped DEF RestartInvariant
  <2> QED
    BY <2>1, TicketAssumption DEF RestartInvariant, TypeOK
<1>1. CASE ClockTick
  <2>1. /\ now' = now + 1
        /\ pause' = IF running = NoRequest THEN 0 ELSE pause + 1
        /\ UNCHANGED <<ticket, usedTicketIds, upgrade, running>>
    BY <1>1 DEF ClockTick
  <2>2. running # NoRequest => now' < ticket[upgrade[running].ticket].exp + pause'
    BY <1>0, <2>1 DEF RestartInvariant, TypeOK
  <2>3. \A t \in Tickets : ticket'[t].exp <= now' + Lifetime
    BY <1>0, <2>1, TicketAssumption DEF RestartInvariant
  <2> QED
    BY <1>0, <2>1, <2>2, <2>3 DEF RestartInvariant, OneLiveSocket, Live
<1>2. ASSUME NEW t \in Tickets, NEW c \in Cameras, Issue(t, c)
      PROVE  RestartInvariant'
  <2>1. /\ ~ticket[t].issued /\ running = NoRequest
        /\ UNCHANGED <<now, usedTicketIds, upgrade, running, pause>>
        /\ ticket'[t].issued /\ ticket'[t].exp = Expiry
        /\ \A s \in Tickets \ {t} : ticket'[s] = ticket[s]
    BY <1>0, <1>2 DEF Issue, TypeOK
  <2>2. \A q \in Upgrades : Live(q) => upgrade[q].ticket # t
    BY <2>1 DEF RestartInvariant
  <2>3. \A s \in Tickets : ticket'[s].exp <= now' + Lifetime
    BY <1>0, <2>1, TicketAssumption DEF RestartInvariant, Expiry
  <2> QED
    BY <1>0, <2>1, <2>2, <2>3 DEF RestartInvariant, OneLiveSocket, Live
<1>3. ASSUME NEW q \in Upgrades, NEW t \in Tickets, NEW c \in Cameras,
             Verify(q, t, c) \/ Reject(q, t, c)
      PROVE  RestartInvariant'
  <2>1. /\ running = NoRequest /\ UNCHANGED <<now, ticket, usedTicketIds>>
        /\ upgrade'[q].ticket = t
        /\ \A p \in Upgrades \ {q} : upgrade'[p] = upgrade[p]
    BY <1>0, <1>3 DEF Verify, Reject, TypeOK
  <2>2. \/ upgrade'[q].state = "verified" /\ Verifies(t) /\ running' = q /\ pause' = 0
        \/ upgrade'[q].state = "refused" /\ running' = NoRequest
    BY <1>0, <1>3 DEF Verify, Reject, TypeOK
  <2>3. ~Live(q)' /\ \A p \in Upgrades \ {q} : Live(p)' = Live(p)
    BY <2>1, <2>2 DEF Live
  <2>4. Verifies(t) => now < ticket[t].exp + 0 /\ ticket[t].issued
    BY <1>0 DEF Verifies
  <2> QED
    BY <1>0, <2>1, <2>2, <2>3, <2>4 DEF RestartInvariant, OneLiveSocket
<1>4. ASSUME NEW q \in Upgrades, Redeem(q) \/ Refuse(q)
      PROVE  RestartInvariant'
  <2>1. /\ UNCHANGED <<now, ticket>> /\ running = q /\ running' = NoRequest
        /\ Remembered \subseteq usedTicketIds'
    BY <1>4 DEF Redeem, Refuse
  <2>2. PICK state \in {"authorizing", "refused"} :
           /\ Step(q, state)
           /\ state = "authorizing" => Redeem(q)
    BY <1>4 DEF Redeem, Refuse
  <2>3. /\ upgrade'[q].ticket = upgrade[q].ticket
        /\ upgrade'[q].state = state
        /\ Live(q)' => Redeem(q)
        /\ \A p \in Upgrades \ {q} : upgrade'[p] = upgrade[p] /\ Live(p)' = Live(p)
    BY <1>0, <2>2, OthersStay, UpgradeStepEffect DEF UpgradeStates
  <2>4. ASSUME NEW p \in Upgrades \ {q}, Live(p)
        PROVE  upgrade[p].ticket \in Remembered \/ ticket[upgrade[p].ticket].exp < now
    BY <1>0, <2>4 DEF RestartInvariant, Remembered
  <2>5. ASSUME Redeem(q), NEW p \in Upgrades \ {q}, Live(p)
        PROVE  upgrade[p].ticket # upgrade[q].ticket
    <3>1. upgrade[q].ticket \notin Remembered
      BY <2>5 DEF Redeem, Accepted
    <3>2. now <= ticket[upgrade[q].ticket].exp
      BY <1>0, <2>1, RedeemedInItsLastSecond DEF RestartInvariant, InTime
    <3> QED
      BY <1>0, <2>4, <2>5, <3>1, <3>2
  <2>6. OneLiveSocket'
    BY <2>3, <2>5 DEF RestartInvariant, OneLiveSocket
  <2>7. Redeem(q) => upgrade[q].ticket \in usedTicketIds'
    BY DEF Redeem
  <2>8. upgrade[q].state = "verified"
    BY <1>0, <2>1 DEF TypeOK
  <2>9. ASSUME NEW p \in Upgrades, Live(p)'
        PROVE  (upgrade[p].ticket \in usedTicketIds \/ ticket[upgrade[p].ticket].exp < now)'
    BY <2>1, <2>3, <2>4, <2>7, <2>9
  <2> QED
    BY <1>0, <2>1, <2>2, <2>3, <2>6, <2>8, <2>9 DEF RestartInvariant
<1>5. ASSUME NEW q \in Upgrades, OpenSocket(q) \/ TokenUnavailable(q) \/ CloseSocket(q)
      PROVE  RestartInvariant'
  <2>1. /\ running = NoRequest /\ UNCHANGED <<now, ticket, usedTicketIds, running, pause>>
        /\ Live(q)
    BY <1>5 DEF OpenSocket, TokenUnavailable, CloseSocket, Live
  <2>2. PICK state \in {"open", "unavailable", "closed"} : Step(q, state)
    BY <1>5 DEF OpenSocket, TokenUnavailable, CloseSocket
  <2>3. /\ upgrade'[q].ticket = upgrade[q].ticket /\ upgrade'[q].state = state
        /\ \A p \in Upgrades \ {q} : upgrade'[p] = upgrade[p] /\ Live(p)' = Live(p)
    BY <1>0, <2>2, OthersStay, UpgradeStepEffect DEF UpgradeStates
  <2>4. \A p \in Upgrades : /\ upgrade'[p].ticket = upgrade[p].ticket
                            /\ Live(p)' => Live(p)
                            /\ upgrade'[p].state = "verified" => upgrade[p].state = "verified"
    BY <2>1, <2>2, <2>3
  <2> QED
    BY <1>0, <2>1, <2>4 DEF RestartInvariant, OneLiveSocket
<1>6. CASE Restart
  <2>1. UNCHANGED <<now, ticket>> /\ running' = NoRequest
    BY <1>6 DEF Restart
  <2>2. \A q \in Upgrades : ~Live(q)' /\ upgrade'[q].state # "verified"
    BY <1>0, <1>6 DEF Restart, Live, TypeOK, UpgradeStates
  <2> QED
    BY <1>0, <2>1, <2>2 DEF RestartInvariant, OneLiveSocket
<1>7. CASE UNCHANGED vars
  BY <1>0, <1>7 DEF RestartInvariant, OneLiveSocket, Live
<1> QED
  BY <1>1, <1>2, <1>3, <1>4, <1>5, <1>6, <1>7 DEF Next

\* The invariant over restarts holds in every life of the process.
THEOREM RestartInvariantHolds == RestartSpec => []RestartInvariant
  BY RestartInvariantInit, RestartInvariantStep, PTL DEF RestartSpec

\* A restart may let a ticket open a second socket, but never while the first is open: at any time
\* a ticket shows its camera once.
THEOREM OneSocketAtATime == RestartSpec => []OneLiveSocket
<1>1. RestartInvariant => OneLiveSocket
  BY DEF RestartInvariant
<1> QED
  BY <1>1, RestartInvariantHolds, PTL

\* Restarts give a ticket no other camera and no further time.
THEOREM OpensInTimeAfterRestarts == RestartSpec => OpensItsCameraInTime
<1>1. RestartInvariant /\ [Next \/ Restart]_vars =>
        [\A q \in Upgrades : ~Redeemed(q) /\ Redeemed(q)' =>
            /\ upgrade'[q].camera = ticket[upgrade'[q].ticket].camera
            /\ now <= ticket[upgrade'[q].ticket].exp]_vars
  BY RedeemsItsCameraInTime DEF RestartInvariant, InTime
<1> QED
  BY <1>1, RestartInvariantHolds, PTL DEF RestartSpec, OpensItsCameraInTime

\* The size of the table of used ids: whenever it changes, it holds ids of tickets of the last
\* lifetime only, so at most as many as were issued in that time.
THEOREM RemembersOneLifetime ==
    RestartSpec =>
        [][usedTicketIds' # usedTicketIds =>
              \A t \in usedTicketIds' : ticket[t].exp \in now..now + Lifetime]_vars
<1>1. RestartInvariant /\ [Next \/ Restart]_vars =>
        [usedTicketIds' # usedTicketIds =>
            \A t \in usedTicketIds' : ticket[t].exp \in now..now + Lifetime]_vars
  <2> SUFFICES ASSUME RestartInvariant, Next \/ Restart, usedTicketIds' # usedTicketIds,
                      NEW t \in usedTicketIds'
               PROVE  ticket[t].exp \in now..now + Lifetime
    OBVIOUS
  <2>1. t \in Tickets /\ ticket[t].exp >= now
    BY NoExpiredIdsAreLeft DEF RestartInvariant, InTime
  <2>2. ticket[t].exp \in Nat /\ now \in Nat /\ ticket[t].exp <= now + Lifetime
    BY <2>1, TicketAssumption DEF RestartInvariant, TypeOK
  <2> QED
    BY <2>1, <2>2, TicketAssumption
<1> QED
  BY <1>1, RestartInvariantHolds, PTL DEF RestartSpec

--------------------------------------------------------------------------------
(* The relay, and the end of the process. *)

\* The next message completes the first n to the first n + 1.
LEMMA NextMessage ==
    ASSUME NEW s \in Seq(Nat), s = FirstMessages(Len(s))
    PROVE  /\ Append(s, Len(s) + 1) \in Seq(Nat)
           /\ Len(Append(s, Len(s) + 1)) = Len(s) + 1
           /\ Append(s, Len(s) + 1) = FirstMessages(Len(s) + 1)
<1> DEFINE t == Append(s, Len(s) + 1)
<1>1. Len(s) \in Nat
  BY LenProperties
<1>2. /\ t \in Seq(Nat) /\ Len(t) = Len(s) + 1
      /\ \A i \in 1..Len(s) : t[i] = s[i]
      /\ t[Len(s) + 1] = Len(s) + 1
  BY <1>1, AppendProperties
<1>3. \A i \in 1..Len(s) : s[i] = i
  BY DEF FirstMessages
<1>4. DOMAIN t = 1..Len(s) + 1 /\ t = [i \in 1..Len(s) + 1 |-> t[i]]
  BY <1>2, LenProperties
<1>5. \A i \in 1..Len(s) + 1 : t[i] = i
  BY <1>1, <1>2, <1>3
<1> QED
  BY <1>2, <1>4, <1>5 DEF FirstMessages

\* What was sent, followed by what waits.
Relayed(s) == sent[s] \o pending[s]

\* Whether it is sent or waits, a message that is relayed comes after those before it.
LEMMA AppendToEither ==
    ASSUME NEW a \in Seq(Nat), NEW b \in Seq(Nat), NEW m \in Nat
    PROVE  /\ a \o Append(b, m) = Append(a \o b, m)
           /\ a \o b \in Seq(Nat) /\ Len(a \o b) = Len(a) + Len(b)
           /\ b = <<>> => Append(a, m) \o b = Append(a \o b, m)
  BY ConcatProperties, ConcatEmptySeq

-------------------------------------------------------------------------------
\* InOrderWithoutLoss for one socket.
InOrder(s) ==
    /\ Relayed(s) = FirstMessages(Len(Relayed(s)))
    /\ readyState[s] \in {"connecting", "open"} => Len(Relayed(s)) = received[Other(s)]
    /\ readyState[s] = "open" => pending[s] = <<>>

\* Where neither a socket's messages nor its state change, nor does their order.
LEMMA UntouchedStaysInOrder ==
    ASSUME NEW s \in Sockets, InOrder(s),
           sent'[s] = sent[s], pending'[s] = pending[s],
           \/ received'[Other(s)] = received[Other(s)] /\ readyState'[s] = readyState[s]
           \/ received'[Other(s)] = received[Other(s)] /\ readyState'[s] \notin {"connecting", "open"}
           \/ readyState'[s] \notin {"connecting", "open"}
    PROVE  InOrder(s)'
  BY DEF InOrder, Relayed

\* The relay's invariant holds before any client has connected.
LEMMA RelayInvariantInit == RelayInit => RelayInvariant
<1> SUFFICES ASSUME RelayInit
             PROVE  RelayInvariant
  OBVIOUS
<1>1. /\ sent \in [Sockets -> Seq(Nat)] /\ pending \in [Sockets -> Seq(Nat)]
      /\ \A s \in Sockets : Len(sent[s]) = 0 /\ Len(pending[s]) = 0
  BY EmptySeq DEF RelayInit
<1>2. RelayTypeOK
  BY <1>1, MessageAssumption DEF RelayInit, RelayTypeOK, Sockets, ReadyStates, Codes, Other
<1>3. ASSUME NEW s \in Sockets
      PROVE  InOrder(s)
  <2>1. Relayed(s) = <<>>
    BY EmptySeq, ConcatEmptySeq DEF RelayInit, Relayed
  <2>2. Len(Relayed(s)) = 0 /\ FirstMessages(0) = <<>>
    BY <2>1, EmptySeq DEF FirstMessages
  <2> QED
    BY <2>1, <2>2 DEF RelayInit, InOrder, Sockets, Other
<1> QED
  BY <1>1, <1>2, <1>3
  DEF RelayInvariant, InOrderWithoutLoss, InOrder, Relayed, CloseCodesMayBeSent, RelayInit

\* Each step of one relay keeps its invariant and leaves the other relays alone.
LEMMA RelayStepKeepsInvariant == RelayInvariant /\ [RelayNext]_relayVars => RelayInvariant'
<1> SUFFICES ASSUME RelayInvariant, [RelayNext]_relayVars
             PROVE  RelayInvariant'
  OBVIOUS
<1> USE DEF RelayInvariant
<1>0. \A s \in Sockets : InOrder(s)
  BY DEF InOrderWithoutLoss, InOrder, Relayed
<1>o. \A s \in Sockets : Other(s) \in Sockets /\ Other(s) # s /\ Other(Other(s)) = s
  BY DEF Other, Sockets
<1>t. \A s \in Sockets : /\ Len(sent[s]) \in Nat /\ Len(pending[s]) \in Nat
                          /\ received[s] \in Nat
  BY LenProperties, MessageAssumption DEF RelayTypeOK
<1>q. ASSUME RelayTypeOK', (sent \in [Sockets -> Seq(Nat)])', (pending \in [Sockets -> Seq(Nat)])',
             CloseCodesMayBeSent', \A s \in Sockets : InOrder(s)'
      PROVE  RelayInvariant'
  BY <1>q DEF InOrderWithoutLoss, InOrder, Relayed
<1>1. ASSUME NEW from \in Sockets, Message(from)
      PROVE  RelayInvariant'
  <2> DEFINE to == Other(from)
             m == received[from] + 1
  <2>1. to \in Sockets /\ to # from /\ Other(to) = from
    BY <1>o
  <2>2. /\ m \in Nat /\ received[from] \in Nat
        /\ received' = [received EXCEPT ![from] = m] /\ received' \in [Sockets -> 0..MaxMessages]
        /\ readyState' = readyState /\ viewerCode' = viewerCode
    BY <1>1, MessageAssumption DEF Message, RelayTypeOK
  <2>3. received'[from] = m
    BY <2>2 DEF RelayTypeOK
  <2>4. SendOrWait(to, m)
    BY <1>1, <2>3 DEF Message
  <2>5. /\ sent[to] \in Seq(Nat) /\ pending[to] \in Seq(Nat)
        /\ Append(sent[to], m) \in Seq(Nat) /\ Append(pending[to], m) \in Seq(Nat)
        /\ Len(Append(sent[to], m)) = Len(sent[to]) + 1
        /\ Len(Append(pending[to], m)) = Len(pending[to]) + 1
        /\ Len(sent[to]) \in Nat /\ Len(pending[to]) \in Nat
    BY <2>1, <2>2, AppendProperties, LenProperties
  <2>6. /\ Relayed(to) \in Seq(Nat)
        /\ Len(Relayed(to)) = Len(sent[to]) + Len(pending[to])
        /\ sent[to] \o Append(pending[to], m) = Append(Relayed(to), m)
        /\ pending[to] = <<>> => Append(sent[to], m) \o pending[to] = Append(Relayed(to), m)
    <3> HIDE DEF to, m
    <3>1. /\ sent[to] \o Append(pending[to], m) = Append(sent[to] \o pending[to], m)
          /\ sent[to] \o pending[to] \in Seq(Nat)
          /\ Len(sent[to] \o pending[to]) = Len(sent[to]) + Len(pending[to])
          /\ pending[to] = <<>> =>
                Append(sent[to], m) \o pending[to] = Append(sent[to] \o pending[to], m)
      <4>1. sent[to] \in Seq(Nat) /\ pending[to] \in Seq(Nat) /\ m \in Nat
        BY <2>2, <2>5
      <4> QED
        BY <4>1, AppendToEither
    <3> QED
      BY <3>1 DEF Relayed
  <2>7. sent' \in [Sockets -> Seq(Nat)] /\ pending' \in [Sockets -> Seq(Nat)]
    BY <2>1, <2>4, <2>5 DEF SendOrWait
  <2>8. sent'[from] = sent[from] /\ pending'[from] = pending[from]
    BY <2>1, <2>4 DEF SendOrWait
  <2>9. InOrder(from)'
    <3>1. received'[Other(from)] = received[Other(from)]
      BY <2>1, <2>2 DEF RelayTypeOK
    <3> QED
      BY <1>0, <2>2, <2>8, <3>1, UntouchedStaysInOrder
  <2>10. CASE readyState[to] \in {"connecting", "open"}
    <3>1. Len(Relayed(to)) = received[from] /\ Relayed(to) = FirstMessages(Len(Relayed(to)))
      BY <1>0, <2>1, <2>10 DEF InOrder
    <3>2. Relayed(to)' = Append(Relayed(to), m)
      <4>1. CASE readyState[to] = "connecting"
        <5>1. sent'[to] = sent[to] /\ pending'[to] = Append(pending[to], m)
          BY <2>1, <2>4, <4>1 DEF SendOrWait
        <5> QED
          BY <2>6, <5>1 DEF Relayed
      <4>2. CASE readyState[to] = "open"
        <5>1. sent'[to] = Append(sent[to], m) /\ pending'[to] = pending[to]
          BY <2>1, <2>4, <4>2 DEF SendOrWait
        <5>2. pending[to] = <<>>
          BY <1>0, <2>1, <4>2 DEF InOrder
        <5> QED
          BY <2>6, <5>1, <5>2 DEF Relayed
      <4> QED
        BY <2>10, <4>1, <4>2
    <3>3. Len(Relayed(to)') = m /\ Relayed(to)' = FirstMessages(m)
      BY <2>6, <3>1, <3>2, NextMessage
    <3>4. readyState[to] = "open" => pending'[to] = <<>>
      BY <1>0, <2>1, <2>4 DEF InOrder, SendOrWait
    <3>5. InOrder(to)'
      BY <2>1, <2>2, <2>3, <3>3, <3>4 DEF InOrder, Relayed
    <3>6. Len(pending'[to]) + Len(sent'[to]) = Len(pending[to]) + Len(sent[to]) + 1
      <4> HIDE DEF to, m
      <4>1. CASE readyState[to] = "connecting"
        <5>1. sent'[to] = sent[to] /\ pending'[to] = Append(pending[to], m)
          BY <2>1, <2>4, <4>1 DEF SendOrWait
        <5> QED
          BY <2>5, <5>1
      <4>2. CASE readyState[to] = "open"
        <5>1. sent'[to] = Append(sent[to], m) /\ pending'[to] = pending[to]
          BY <2>1, <2>4, <4>2 DEF SendOrWait
        <5> QED
          BY <2>5, <5>1
      <4> QED
        BY <2>10, <4>1, <4>2
    <3>7. RelayTypeOK'
      <4>1. ASSUME NEW s \in Sockets
            PROVE  Len(pending'[s]) + Len(sent'[s]) <= received'[Other(s)]
        <5>1. CASE s = to
          <6>1. Len(pending'[to]) + Len(sent'[to]) <= received'[from]
            <7> HIDE DEF to, m
            <7> DEFINE p == Len(pending[to])  q == Len(sent[to])  r == received[from]
                       pp == Len(pending'[to])  qq == Len(sent'[to])
            <7>1. p \in Nat /\ q \in Nat /\ r \in Nat
              BY <2>2, <2>5
            <7>2. q + p = r
              BY <2>6, <3>1
            <7>3. pp + qq = p + q + 1 /\ received'[from] = r + 1
              BY <2>3, <3>6 DEF m
            <7> HIDE DEF p, q, r, pp, qq
            <7>4. pp + qq <= received'[from]
              BY <7>1, <7>2, <7>3
            <7> QED
              BY <7>4 DEF pp, qq
          <6> QED
            BY <2>1, <5>1, <6>1
        <5>2. CASE s = from
          <6>1. received'[to] = received[to]
            BY <2>1, <2>2 DEF RelayTypeOK
          <6>2. Len(pending[s]) + Len(sent[s]) <= received[to]
            BY <5>2 DEF RelayTypeOK
          <6> QED
            BY <2>8, <5>2, <6>1, <6>2
        <5> QED
          BY <5>1, <5>2 DEF Sockets, Other
      <4> QED
        BY <2>2, <4>1 DEF RelayTypeOK
    <3> QED
      BY <1>q, <2>1, <2>2, <2>7, <2>9, <3>5, <3>7 DEF Sockets, Other, CloseCodesMayBeSent
  <2>11. CASE readyState[to] \notin {"connecting", "open"}
    <3>1. sent' = sent /\ pending' = pending
      BY <2>4, <2>11 DEF SendOrWait
    <3>2. InOrder(to)'
      BY <1>0, <2>1, <2>2, <2>11, <3>1, UntouchedStaysInOrder
    <3>3. RelayTypeOK'
      BY <2>1, <2>2, <3>1 DEF RelayTypeOK
    <3> QED
      BY <1>q, <2>1, <2>2, <2>7, <2>9, <3>2, <3>3 DEF Sockets, Other, CloseCodesMayBeSent
  <2> QED
    BY <2>10, <2>11
<1>2. CASE UpstreamOpens
  <2> DEFINE u == "upstream"
  <2>1. /\ u \in Sockets /\ sent[u] \in Seq(Nat) /\ pending[u] \in Seq(Nat)
        /\ Relayed(u) \in Seq(Nat) /\ Len(Relayed(u)) = Len(sent[u]) + Len(pending[u])
    BY ConcatProperties DEF Sockets, Relayed
  <2>2. /\ sent' = [sent EXCEPT ![u] = Relayed(u)] /\ pending' = [pending EXCEPT ![u] = <<>>]
        /\ readyState' = [readyState EXCEPT ![u] = "open"] /\ readyState[u] = "connecting"
        /\ received' = received /\ viewerCode' = viewerCode
    BY <1>2 DEF UpstreamOpens, FlushPending, Relayed
  <2>3. sent' \in [Sockets -> Seq(Nat)] /\ pending' \in [Sockets -> Seq(Nat)]
    BY <2>1, <2>2, EmptySeq
  <2>4. sent'[u] = Relayed(u) /\ pending'[u] = <<>> /\ Relayed(u)' = Relayed(u)
    BY <2>1, <2>2, ConcatEmptySeq DEF Relayed
  <2>5. Len(Relayed(u)) = received[Other(u)]
    BY <1>0, <2>1, <2>2 DEF InOrder
  <2>6. InOrder(u)'
    BY <1>0, <2>1, <2>2, <2>4, <2>5 DEF InOrder
  <2>7. InOrder("viewer")'
    <3>1. "viewer" \in Sockets /\ "viewer" # u
      BY DEF Sockets
    <3>2. /\ sent'["viewer"] = sent["viewer"] /\ pending'["viewer"] = pending["viewer"]
          /\ readyState'["viewer"] = readyState["viewer"]
      BY <2>2, <3>1 DEF RelayTypeOK
    <3> QED
      BY <1>0, <2>2, <3>1, <3>2, UntouchedStaysInOrder
  <2>8. RelayTypeOK'
    <3>1. Len(pending'[u]) + Len(sent'[u]) <= received'[Other(u)]
      BY <1>o, <2>1, <2>2, <2>4, <2>5, EmptySeq, MessageAssumption DEF RelayTypeOK
    <3>2. \A s \in Sockets : Len(pending'[s]) + Len(sent'[s]) <= received'[Other(s)]
      <4>1. /\ sent'["viewer"] = sent["viewer"] /\ pending'["viewer"] = pending["viewer"]
            /\ received' = received
        BY <2>2
      <4>2. Len(pending["viewer"]) + Len(sent["viewer"]) <= received[Other("viewer")]
        BY DEF RelayTypeOK, Sockets
      <4> QED
        BY <3>1, <4>1, <4>2 DEF Sockets
    <3>3. readyState' \in [Sockets -> ReadyStates]
      BY <2>1, <2>2 DEF RelayTypeOK, ReadyStates
    <3> QED
      BY <2>2, <3>2, <3>3 DEF RelayTypeOK
  <2> QED
    BY <1>q, <2>2, <2>3, <2>6, <2>7, <2>8 DEF Sockets, CloseCodesMayBeSent
<1>3. ASSUME UNCHANGED <<received, pending, sent>>,
             readyState' \in [Sockets -> ReadyStates],
             \A s \in Sockets : \/ readyState'[s] = readyState[s]
                               \/ readyState'[s] \notin {"connecting", "open"},
             viewerCode' \in {viewerCode, "given", "upstream_failed"}
      PROVE  RelayInvariant'
  <2>1. \A s \in Sockets : InOrder(s)'
    BY <1>0, <1>3, UntouchedStaysInOrder
  <2>2. RelayTypeOK'
    BY <1>3 DEF RelayTypeOK, Codes, PeerCodes
  <2> QED
    BY <1>q, <1>3, <2>1, <2>2 DEF CloseCodesMayBeSent
<1>4. ASSUME NEW state \in {"closing", "closed"}, NEW code \in {"given", "upstream_failed"},
             CloseViewer(state, code), UNCHANGED <<received, pending, sent>>
      PROVE  RelayInvariant'
  BY <1>3, <1>4 DEF CloseViewer, RelayTypeOK, Sockets, ReadyStates
<1>5. ASSUME NEW state \in {"closing", "closed"},
             CloseUpstream(state), UNCHANGED <<received, pending, sent>>
      PROVE  RelayInvariant'
  BY <1>3, <1>5 DEF CloseUpstream, RelayTypeOK, Sockets, ReadyStates
<1>6. CASE HandshakeEnds
  BY <1>4, <1>6 DEF HandshakeEnds
<1>7. CASE UpstreamError
  BY <1>4, <1>7 DEF UpstreamError
<1>8. CASE UpstreamClose
  BY <1>4, <1>8 DEF UpstreamClose, closeCode, PeerCodes
<1>9. CASE ViewerError
  BY <1>5, <1>9 DEF ViewerError
<1>10. CASE ViewerClose
  BY <1>5, <1>10 DEF ViewerClose
<1>11. CASE UNCHANGED relayVars
  BY <1>3, <1>11 DEF RelayTypeOK
<1> QED
  BY <1>1, <1>2, <1>6, <1>7, <1>8, <1>9, <1>10, <1>11 DEF RelayNext

-------------------------------------------------------------------------------
(* LiveRelay by itself *)

\* RelayInvariant, of every state of the relays (liveVideoRelay.ts).
THEOREM RelayInvariantHolds == RelaySpec => []RelayInvariant
  BY RelayInvariantInit, RelayStepKeepsInvariant, PTL DEF RelaySpec

-------------------------------------------------------------------------------
(* With the process that ends around it *)

\* The process ends with its sockets: nothing is relayed any more.
LEMMA ExitKeepsInvariant ==
    ASSUME RelayInvariant, NEW code, Exit(code)
    PROVE  RelayInvariant'
<1>1. /\ received' = received /\ pending' = pending /\ sent' = sent /\ viewerCode' = viewerCode
      /\ readyState' = [s \in Sockets |-> "closed"]
  BY DEF Exit
<1>2. RelayTypeOK'
  BY <1>1 DEF RelayInvariant, RelayTypeOK, ReadyStates
<1>3. InOrderWithoutLoss'
  BY <1>1 DEF RelayInvariant, InOrderWithoutLoss
<1> QED
  BY <1>1, <1>2, <1>3 DEF RelayInvariant, CloseCodesMayBeSent

\* Shutdown's invariant.
ShutdownInvariant == RelayInvariant /\ ShutdownTypeOK

\* The process's shutdown and what goes on meanwhile keep the invariant.
LEMMA ShutdownStepKeepsInvariant ==
    ShutdownInvariant /\ [ShutdownNext]_allVars => ShutdownInvariant'
<1> SUFFICES ASSUME ShutdownInvariant, [ShutdownNext]_allVars
             PROVE  ShutdownInvariant'
  OBVIOUS
<1>0. RelayInvariant /\ ShutdownTypeOK
  BY DEF ShutdownInvariant
<1>1. ASSUME UNCHANGED relayVars, ShutdownTypeOK'
      PROVE  ShutdownInvariant'
  BY <1>0, <1>1, RelayStepKeepsInvariant DEF ShutdownInvariant
<1>2. CASE RelayStep
  <2>1. RelayInvariant'
    BY <1>0, <1>2, RelayStepKeepsInvariant DEF RelayStep
  <2> QED
    BY <1>0, <1>2, <2>1 DEF ShutdownInvariant, ShutdownTypeOK, RelayStep, RelayInvariant
<1>3. CASE Connect
  <2>1. RelayTypeOK' /\ stage' = stage /\ exitCode' = exitCode /\ listening' = listening
        /\ connections' \subseteq Clients \union Requests
    BY <1>0, <1>3 DEF Connect, ShutdownTypeOK, RelayTypeOK
  <2> QED
    BY <1>0, <1>1, <1>3, <2>1 DEF Connect, ShutdownTypeOK
<1>4. ASSUME NEW c \in Clients \union Requests, Disconnect(c)
      PROVE  ShutdownInvariant'
  <2>1. RelayTypeOK'
    BY <1>0, <1>4 DEF Disconnect, ShutdownTypeOK, RelayTypeOK
  <2> QED
    BY <1>0, <1>1, <1>4, <2>1 DEF Disconnect, ShutdownTypeOK
<1>5. ASSUME NEW i \in Signals, Signal(i) \/ CloseSocketServer(i)
      PROVE  ShutdownInvariant'
  <2>1. RelayTypeOK'
    BY <1>0, <1>5 DEF Signal, CloseSocketServer, ShutdownTypeOK, RelayTypeOK
  <2>2. /\ stage' \in [Signals -> Stages] /\ listening' \in BOOLEAN /\ exitCode' = exitCode
        /\ connections' \subseteq Clients \union Requests
    BY <1>0, <1>5 DEF Signal, CloseSocketServer, ShutdownTypeOK, Stages
  <2> QED
    BY <1>0, <1>1, <1>5, <2>1, <2>2 DEF Signal, CloseSocketServer, ShutdownTypeOK
<1>6. ASSUME NEW i \in Signals, ServerCloses(i) \/ TimeLimit(i)
      PROVE  ShutdownInvariant'
  <2>1. PICK code \in {"0", "1"} : Exit(code) /\ stage' = stage
    BY <1>6 DEF ServerCloses, TimeLimit
  <2>2. RelayInvariant'
    BY <1>0, <2>1, ExitKeepsInvariant
  <2> QED
    BY <1>0, <2>1, <2>2 DEF ShutdownInvariant, ShutdownTypeOK, RelayInvariant, Exit
<1>7. CASE UNCHANGED allVars
  BY <1>0, <1>1, <1>7 DEF ShutdownTypeOK, RelayTypeOK
<1> QED
  BY <1>2, <1>3, <1>4, <1>5, <1>6, <1>7 DEF ShutdownNext

\* ShutdownInvariant, of every state of the relays and the process that stops them (index.ts).
THEOREM ShutdownInvariantHolds == ShutdownSpec => []ShutdownInvariant
<1>1. ShutdownInit => ShutdownInvariant
  <2> SUFFICES ASSUME ShutdownInit
               PROVE  ShutdownInvariant
    OBVIOUS
  <2>1. RelayInvariant
    BY RelayInvariantInit DEF ShutdownInit
  <2> QED
    BY <2>1 DEF ShutdownInit, ShutdownInvariant, ShutdownTypeOK, RelayInvariant, Stages
<1> QED
  BY <1>1, ShutdownStepKeepsInvariant, PTL DEF ShutdownSpec

\* Whatever the two sides send before, while and after Specter's socket opens, and whoever ends the
\* relay, what was relayed are the first messages received, all of them while the socket is open.
THEOREM RelayedInOrder == ShutdownSpec => []InOrderWithoutLoss
<1>1. ShutdownInvariant => InOrderWithoutLoss
  BY DEF ShutdownInvariant, RelayInvariant
<1> QED
  BY <1>1, ShutdownInvariantHolds, PTL

\* viewer.close() is never called with a code that ws refuses to send.
THEOREM OnlySendableCodes == ShutdownSpec => []CloseCodesMayBeSent
<1>1. ShutdownInvariant => CloseCodesMayBeSent
  BY DEF ShutdownInvariant, RelayInvariant
<1> QED
  BY <1>1, ShutdownInvariantHolds, PTL
================================================================================
