------------------------ MODULE NotificationRoomsProofs ------------------------
(***************************************************************************)
(* Proofs about the rooms of the notification sockets, for any users,      *)
(* connections and cameras and any order of their steps.                   *)
(***************************************************************************)
EXTENDS NotificationRooms, SequenceTheorems, TLAPS

USE RoomAssumption

\* The event that the relay takes next.
LEMMA NextEventIsTyped ==
    ASSUME TypeOK, NextEvent
    PROVE  /\ Head(config) \in [camera : Cameras \union {NoCamera}, change : Changes]
           /\ Tail(config) \in Seq([camera : Cameras \union {NoCamera}, change : Changes])
<1>1. config \in Seq([camera : Cameras \union {NoCamera}, change : Changes]) /\ config # <<>>
      BY DEF TypeOK, NextEvent
<1>2. QED
      BY <1>1, HeadTailProperties

\* Every step keeps the types; that a camera whose creation is announced was created follows from
\* the truth of the events.
LEMMA TypesAreKept ==
    ASSUME TypeOK, EventsAreTrue, [Next]_vars
    PROVE  TypeOK'
<1> USE DEF TypeOK, outside, sockets, Silent, Nothing, Kinds, Changes, Steps, Handling
<1>1. ASSUME NEW c \in Cameras, CreateCamera(c)
      PROVE  TypeOK'
      BY <1>1 DEF CreateCamera, Publish, RecordAccess
<1>2. ASSUME NEW c \in Cameras, DeleteCamera(c)
      PROVE  TypeOK'
      BY <1>2 DEF DeleteCamera, Publish
<1>3. ASSUME NEW c \in Cameras, ReceiveAlert(c)
      PROVE  TypeOK'
      BY <1>3 DEF ReceiveAlert
<1>4. ASSUME NEW c \in Cameras, SendAlert(c)
      PROVE  TypeOK'
      BY <1>4 DEF SendAlert, toCamera
<1>5. ASSUME NEW c \in Cameras \union {NoCamera}, OtherChange(c)
      PROVE  TypeOK'
      BY <1>5 DEF OtherChange, Publish
<1>6. ASSUME NEW u \in Users, NEW c \in Cameras, Assign(u, c)
      PROVE  TypeOK'
      BY <1>6 DEF Assign, RecordAccess
<1>7. ASSUME NEW u \in Users, NEW c \in Cameras, Unassign(u, c)
      PROVE  TypeOK'
      BY <1>7 DEF Unassign
<1>8. ASSUME NEW s \in Sockets, Connect(s)
      PROVE  TypeOK'
      BY <1>8 DEF Connect
<1>9. ASSUME NEW s \in Sockets, JoinRole(s)
      PROVE  TypeOK'
      BY <1>9 DEF JoinRole
<1>10. ASSUME NEW s \in Sockets, ListCameras(s)
      PROVE  TypeOK'
      BY <1>10 DEF ListCameras
<1>11. ASSUME NEW s \in Sockets, ListAssignments(s)
      PROVE  TypeOK'
      BY <1>11 DEF ListAssignments, Authorized
<1>12. ASSUME NEW s \in Sockets, ListingFails(s)
      PROVE  TypeOK'
      BY <1>12 DEF ListingFails, AfterError, Finish
<1>13. ASSUME NEW s \in Sockets, NEW c \in Cameras, JoinCamera(s, c)
      PROVE  TypeOK'
      BY <1>13 DEF JoinCamera
<1>14. ASSUME NEW s \in Sockets, Subscribed(s)
      PROVE  TypeOK'
      BY <1>14 DEF Subscribed, Finish
<1>15. ASSUME NEW s \in Sockets, Disconnect(s)
      PROVE  TypeOK'
      BY <1>15 DEF Disconnect
<1>16. ASSUME NEW s \in Sockets, NEW c \in Cameras, Unsubscribe(s, c)
      PROVE  TypeOK'
      BY <1>16 DEF Unsubscribe
<1>17. ASSUME NEW s \in Sockets, NEW cs \in SUBSET Cameras, Subscribe(s, cs)
      PROVE  TypeOK'
      BY <1>17 DEF Subscribe
<1>18. CASE RelayEnrollment
      BY <1>18 DEF RelayEnrollment, RoleRoom
<1>19. CASE MissEvent
      BY <1>19 DEF MissEvent, NextEvent
<1>20. CASE RelayOtherChange
  <2>1. /\ Head(config) \in [camera : Cameras \union {NoCamera}, change : Changes]
        /\ Tail(config) \in Seq([camera : Cameras \union {NoCamera}, change : Changes])
        BY <1>20, NextEventIsTyped DEF RelayOtherChange
  <2>2. emitted' \in [kind : Kinds, camera : Cameras \union {NoCamera}, to : SUBSET Sockets]
        BY <1>20, <2>1 DEF RelayOtherChange, RoleRoom
  <2>3. QED
        BY <1>20, <2>1, <2>2 DEF RelayOtherChange, NextEvent
<1>21. CASE RelayCameraChange
  <2>1. /\ Head(config) \in [camera : Cameras \union {NoCamera}, change : Changes]
        /\ Tail(config) \in Seq([camera : Cameras \union {NoCamera}, change : Changes])
        BY <1>21, NextEventIsTyped DEF RelayCameraChange
  <2>2. PICK c \in Cameras, change \in Changes :
            /\ c = Head(config).camera /\ change = Head(config).change
        BY <1>21, <2>1 DEF RelayCameraChange
  <2>3. RoleRoom(MANAGER_ROLES) \subseteq Sockets /\ RoleRoom({"admin"}) \subseteq Sockets
        BY DEF RoleRoom
  <2>4. Joined(c, change) \subseteq Sockets
        BY <2>2, <2>3 DEF Joined
  <2>5. emitted' \in [kind : Kinds, camera : Cameras \union {NoCamera}, to : SUBSET Sockets]
        BY <1>21, <2>2, <2>3, <2>4 DEF RelayCameraChange, toCameraAndRoles, RoomBeforeClosing
  <2>6. room' \in [Cameras -> SUBSET Sockets]
        BY <1>21, <2>2, <2>4 DEF RelayCameraChange, RoomAfterClosing
  <2>7. c \in used
        BY <1>21, <2>2 DEF RelayCameraChange, NextEvent, EventsAreTrue
  <2>8. QED
        BY <1>21, <2>1, <2>2, <2>5, <2>6, <2>7 DEF RelayCameraChange, NextEvent
<1>22. CASE UNCHANGED vars
      BY <1>22 DEF vars
<1>23. QED
      BY <1>1, <1>2, <1>3, <1>4, <1>5, <1>6, <1>7, <1>8, <1>9, <1>10, <1>11, <1>12, <1>13, <1>14,
         <1>15, <1>16, <1>17, <1>18, <1>19, <1>20, <1>21, <1>22
         DEF Next, SocketStep

\* A deleted camera never exists again, so an event that tells of a deletion stays true.
LEMMA EventsStayTrue ==
    ASSUME TypeOK, EventsAreTrue, [Next]_vars
    PROVE  EventsAreTrue'
<1> USE DEF TypeOK, EventsAreTrue, outside
<1>1. CASE UNCHANGED <<exists, used, config>>
      BY <1>1
<1>2. ASSUME NEW c \in Cameras, CreateCamera(c)
      PROVE  EventsAreTrue'
      BY <1>2 DEF CreateCamera, Publish, RecordAccess
<1>3. ASSUME NEW c \in Cameras, DeleteCamera(c)
      PROVE  EventsAreTrue'
      BY <1>3 DEF DeleteCamera, Publish
<1>4. ASSUME NEW c \in Cameras \union {NoCamera}, OtherChange(c)
      PROVE  EventsAreTrue'
      BY <1>4 DEF OtherChange, Publish
<1>5. CASE MissEvent
      BY <1>5 DEF MissEvent, NextEvent
<1>6. CASE RelayOtherChange
      BY <1>6 DEF RelayOtherChange, NextEvent
<1>7. CASE RelayCameraChange
      BY <1>7 DEF RelayCameraChange, NextEvent
<1>8. QED
      BY <1>1, <1>2, <1>3, <1>4, <1>5, <1>6, <1>7 DEF Next, SocketStep, sockets, vars, Silent,
                                                      Finish, AfterError, ReceiveAlert, SendAlert,
                                                      Assign, Unassign, Connect, JoinRole,
                                                      ListCameras, ListAssignments, ListingFails,
                                                      JoinCamera, Subscribed, Disconnect,
                                                      Unsubscribe, Subscribe, RelayEnrollment

\* Whatever a user who is not an admin may hear of was recorded when they could see it.
LEMMA HearingIsKept ==
    ASSUME RoomInvariant, NEW t \in Sockets, Role(t) # "admin", [Next]_vars
    PROVE  HearsWhatItMay(t)'
<1> USE DEF RoomInvariant, TypeOK, EventsAreTrue, outside, sockets,
           HearsWhatItMay, Connected, MayView, Role, Requested
<1>1. ASSUME NEW c \in Cameras, CreateCamera(c)
      PROVE  HearsWhatItMay(t)'
      BY <1>1 DEF CreateCamera, Publish, RecordAccess
<1>2. ASSUME NEW c \in Cameras, DeleteCamera(c)
      PROVE  HearsWhatItMay(t)'
      BY <1>2 DEF DeleteCamera, Publish
<1>3. ASSUME NEW c \in Cameras, ReceiveAlert(c)
      PROVE  HearsWhatItMay(t)'
      BY <1>3 DEF ReceiveAlert
<1>4. ASSUME NEW c \in Cameras, SendAlert(c)
      PROVE  HearsWhatItMay(t)'
      BY <1>4 DEF SendAlert, toCamera
<1>5. ASSUME NEW c \in Cameras \union {NoCamera}, OtherChange(c)
      PROVE  HearsWhatItMay(t)'
      BY <1>5 DEF OtherChange, Publish
<1>6. ASSUME NEW u \in Users, NEW c \in Cameras, Assign(u, c)
      PROVE  HearsWhatItMay(t)'
      BY <1>6 DEF Assign, RecordAccess
<1>7. ASSUME NEW u \in Users, NEW c \in Cameras, Unassign(u, c)
      PROVE  HearsWhatItMay(t)'
      BY <1>7 DEF Unassign, canViewCamera, isOperatorOfCamera
<1>8. ASSUME NEW s \in Sockets, Connect(s)
      PROVE  HearsWhatItMay(t)'
      BY <1>8 DEF Connect
<1>9. ASSUME NEW s \in Sockets, JoinRole(s)
      PROVE  HearsWhatItMay(t)'
      BY <1>9 DEF JoinRole
<1>10. ASSUME NEW s \in Sockets, ListCameras(s)
      PROVE  HearsWhatItMay(t)'
      BY <1>10 DEF ListCameras
<1>11. ASSUME NEW s \in Sockets, ListAssignments(s)
      PROVE  HearsWhatItMay(t)'
      BY <1>11 DEF ListAssignments, Authorized
<1>12. ASSUME NEW s \in Sockets, ListingFails(s)
      PROVE  HearsWhatItMay(t)'
      BY <1>12 DEF ListingFails, AfterError, Finish
<1>13. ASSUME NEW s \in Sockets, NEW c \in Cameras, JoinCamera(s, c)
      PROVE  HearsWhatItMay(t)'
      BY <1>13 DEF JoinCamera
<1>14. ASSUME NEW s \in Sockets, Subscribed(s)
      PROVE  HearsWhatItMay(t)'
      BY <1>14 DEF Subscribed, Finish
<1>15. ASSUME NEW s \in Sockets, Disconnect(s)
      PROVE  HearsWhatItMay(t)'
      BY <1>15 DEF Disconnect
<1>16. ASSUME NEW s \in Sockets, NEW c \in Cameras, Unsubscribe(s, c)
      PROVE  HearsWhatItMay(t)'
      BY <1>16 DEF Unsubscribe
<1>17. ASSUME NEW s \in Sockets, NEW cs \in SUBSET Cameras, Subscribe(s, cs)
      PROVE  HearsWhatItMay(t)'
      BY <1>17 DEF Subscribe
<1>18. CASE RelayEnrollment
      BY <1>18 DEF RelayEnrollment, RoleRoom
<1>19. CASE MissEvent
      BY <1>19 DEF MissEvent, NextEvent
<1>20. CASE RelayOtherChange
      BY <1>20 DEF RelayOtherChange, NextEvent, RoleRoom
<1>21. CASE RelayCameraChange
      BY <1>21 DEF RelayCameraChange, NextEvent, RoleRoom, toCameraAndRoles, RoomBeforeClosing,
                   RoomAfterClosing, Joined
<1>22. CASE UNCHANGED vars
      BY <1>22 DEF vars
<1>23. QED
      BY <1>1, <1>2, <1>3, <1>4, <1>5, <1>6, <1>7, <1>8, <1>9, <1>10, <1>11, <1>12, <1>13, <1>14,
         <1>15, <1>16, <1>17, <1>18, <1>19, <1>20, <1>21, <1>22
         DEF Next, SocketStep

\* An admin joins the rooms of the cameras that the listing returned, and RelayCameraChange those of
\* later ones; only the admin's client makes it leave one.
LEMMA FollowingIsKept ==
    ASSUME RoomInvariant, NEW t \in Sockets, Role(t) = "admin", [Next]_vars
    PROVE  FollowsNewCameras(t)'
<1> USE DEF RoomInvariant, TypeOK, EventsAreTrue, outside, sockets,
           FollowsNewCameras, Follows, Connected, Role, Requested, InRole
<1>1. ASSUME NEW c \in Cameras, CreateCamera(c)
      PROVE  FollowsNewCameras(t)'
      BY <1>1 DEF CreateCamera, Publish, RecordAccess
<1>2. ASSUME NEW c \in Cameras, DeleteCamera(c)
      PROVE  FollowsNewCameras(t)'
      BY <1>2 DEF DeleteCamera, Publish
<1>3. ASSUME NEW c \in Cameras, ReceiveAlert(c)
      PROVE  FollowsNewCameras(t)'
      BY <1>3 DEF ReceiveAlert
<1>4. ASSUME NEW c \in Cameras, SendAlert(c)
      PROVE  FollowsNewCameras(t)'
      BY <1>4 DEF SendAlert, toCamera
<1>5. ASSUME NEW c \in Cameras \union {NoCamera}, OtherChange(c)
      PROVE  FollowsNewCameras(t)'
      BY <1>5 DEF OtherChange, Publish
<1>6. ASSUME NEW u \in Users, NEW c \in Cameras, Assign(u, c)
      PROVE  FollowsNewCameras(t)'
      BY <1>6 DEF Assign, RecordAccess
<1>7. ASSUME NEW u \in Users, NEW c \in Cameras, Unassign(u, c)
      PROVE  FollowsNewCameras(t)'
      BY <1>7 DEF Unassign
<1>8. ASSUME NEW s \in Sockets, Connect(s)
      PROVE  FollowsNewCameras(t)'
      BY <1>8 DEF Connect
<1>9. ASSUME NEW s \in Sockets, JoinRole(s)
      PROVE  FollowsNewCameras(t)'
      BY <1>9 DEF JoinRole
<1>10. ASSUME NEW s \in Sockets, ListCameras(s)
      PROVE  FollowsNewCameras(t)'
      BY <1>10 DEF ListCameras
<1>11. ASSUME NEW s \in Sockets, ListAssignments(s)
      PROVE  FollowsNewCameras(t)'
      BY <1>11 DEF ListAssignments, Authorized
<1>12. ASSUME NEW s \in Sockets, ListingFails(s)
      PROVE  FollowsNewCameras(t)'
      BY <1>12 DEF ListingFails, AfterError, Finish
<1>13. ASSUME NEW s \in Sockets, NEW c \in Cameras, JoinCamera(s, c)
      PROVE  FollowsNewCameras(t)'
      BY <1>13 DEF JoinCamera
<1>14. ASSUME NEW s \in Sockets, Subscribed(s)
      PROVE  FollowsNewCameras(t)'
      BY <1>14 DEF Subscribed, Finish
<1>15. ASSUME NEW s \in Sockets, Disconnect(s)
      PROVE  FollowsNewCameras(t)'
      BY <1>15 DEF Disconnect
<1>16. ASSUME NEW s \in Sockets, NEW c \in Cameras, Unsubscribe(s, c)
      PROVE  FollowsNewCameras(t)'
      BY <1>16 DEF Unsubscribe
<1>17. ASSUME NEW s \in Sockets, NEW cs \in SUBSET Cameras, Subscribe(s, cs)
      PROVE  FollowsNewCameras(t)'
      BY <1>17 DEF Subscribe
<1>18. CASE RelayEnrollment
      BY <1>18 DEF RelayEnrollment, RoleRoom
<1>19. CASE MissEvent
      BY <1>19 DEF MissEvent, NextEvent
<1>20. CASE RelayOtherChange
      BY <1>20 DEF RelayOtherChange, NextEvent, RoleRoom
<1>21. CASE RelayCameraChange
      BY <1>21 DEF RelayCameraChange, NextEvent, RoleRoom, toCameraAndRoles, RoomBeforeClosing,
                   RoomAfterClosing, Joined
<1>22. CASE UNCHANGED vars
      BY <1>22 DEF vars
<1>23. QED
      BY <1>1, <1>2, <1>3, <1>4, <1>5, <1>6, <1>7, <1>8, <1>9, <1>10, <1>11, <1>12, <1>13, <1>14,
         <1>15, <1>16, <1>17, <1>18, <1>19, <1>20, <1>21, <1>22
         DEF Next, SocketStep

\* An alert goes to the members of the camera's room, who may hear of it; no other notification is
\* one.
LEMMA AlertsAreKeptInside ==
    ASSUME RoomInvariant, [Next]_vars
    PROVE  AlertsStayInside'
<1> USE DEF RoomInvariant, TypeOK, AlertsStayInside, Role, outside, sockets
<1>1. CASE Silent
      BY <1>1 DEF Silent, Nothing
<1>2. ASSUME NEW c \in Cameras, SendAlert(c)
      PROVE  AlertsStayInside'
      BY <1>2 DEF SendAlert, toCamera, HearsWhatItMay
<1>3. CASE RelayOtherChange
      BY <1>3, NextEventIsTyped DEF RelayOtherChange, Changes
<1>4. CASE RelayCameraChange
      BY <1>4, NextEventIsTyped DEF RelayCameraChange, Changes
<1>5. CASE UNCHANGED vars
      BY <1>5 DEF vars
<1>6. CASE RelayEnrollment
      BY <1>6 DEF RelayEnrollment
<1>7. QED
      BY <1>1, <1>2, <1>3, <1>4, <1>5, <1>6 DEF Next, SocketStep, CreateCamera, DeleteCamera,
                                                ReceiveAlert, OtherChange, Assign, Unassign,
                                                Connect, JoinRole, ListCameras, ListAssignments,
                                                ListingFails, JoinCamera, Subscribed, Disconnect,
                                                Unsubscribe, Subscribe, MissEvent

\* RoomInvariant holds initially.
LEMMA RoomInit == Init => RoomInvariant
BY DEF Init, RoomInvariant, TypeOK, EventsAreTrue, HearsWhatItMay, FollowsNewCameras, Follows,
       AlertsStayInside, Nothing, Connected, Steps, Handling, Kinds, Changes

\* Every step keeps the invariant.
LEMMA RoomStepKeepsInvariant == RoomInvariant /\ [Next]_vars => RoomInvariant'
<1> SUFFICES ASSUME RoomInvariant, [Next]_vars
             PROVE  RoomInvariant'
    OBVIOUS
<1>1. TypeOK /\ EventsAreTrue
      BY DEF RoomInvariant
<1>2. ASSUME NEW s \in Sockets
      PROVE  IF Role(s) = "admin" THEN FollowsNewCameras(s)' ELSE HearsWhatItMay(s)'
      BY <1>2, HearingIsKept, FollowingIsKept
<1>3. \A s \in Sockets : (IF Role(s) = "admin" THEN FollowsNewCameras(s) ELSE HearsWhatItMay(s))'
      BY <1>2 DEF Role
<1>4. QED
      BY <1>1, <1>3, TypesAreKept, EventsStayTrue, AlertsAreKeptInside DEF RoomInvariant

\* RoomInvariant holds in every state of the relay and its connections.
THEOREM RoomInvariantHolds == Spec => []RoomInvariant
BY RoomInit, RoomStepKeepsInvariant, PTL DEF Spec

\* Every reachable state is type correct.
THEOREM RoomTypes == Spec => []TypeOK
<1>1. RoomInvariant => TypeOK
      BY DEF RoomInvariant
<1>2. QED
      BY <1>1, RoomInvariantHolds, PTL

\* An alert never goes to a user, other than an admin, who could not see its camera at any time
\* since their connection opened.
THEOREM AlertsInside == Spec => []AlertsStayInside
<1>1. RoomInvariant => AlertsStayInside
      BY DEF RoomInvariant
<1>2. QED
      BY <1>1, RoomInvariantHolds, PTL

\* An admin whose connection is set up follows every camera whose creation was announced.
THEOREM AdminsFollow == Spec => []AdminsFollowNewCameras
<1>1. RoomInvariant => AdminsFollowNewCameras
      BY DEF RoomInvariant, AdminsFollowNewCameras, FollowsNewCameras, Follows
<1>2. QED
      BY <1>1, RoomInvariantHolds, PTL

\* What NobodyDropsOutInSilence says of one step.
SilenceStep ==
    \A c \in Cameras : \A s \in room[c] \ room'[c] :
        \/ pc'[s] = "gone"
        \/ Unsubscribe(s, c)
        \/ emitted'.kind = "deleted" /\ emitted'.camera = c /\ s \in emitted'.to

\* Only a client that leaves or disconnects, and the relay of a deletion, take members out of rooms.
LEMMA SilentLeaving ==
    ASSUME TypeOK, [Next]_vars
    PROVE  SilenceStep
<1> USE DEF TypeOK, SilenceStep, outside, sockets
<1>1. CASE room' = room
      BY <1>1
<1>2. ASSUME NEW s \in Sockets, NEW c \in Cameras, JoinCamera(s, c)
      PROVE  SilenceStep
      BY <1>2 DEF JoinCamera
<1>3. ASSUME NEW s \in Sockets, Disconnect(s)
      PROVE  SilenceStep
      BY <1>3 DEF Disconnect
<1>4. ASSUME NEW s \in Sockets, NEW c \in Cameras, Unsubscribe(s, c)
      PROVE  SilenceStep
      BY <1>4 DEF Unsubscribe
<1>5. CASE RelayCameraChange
      BY <1>5 DEF RelayCameraChange, NextEvent, RoleRoom, toCameraAndRoles, RoomBeforeClosing,
                  RoomAfterClosing, Joined
<1>6. QED
      BY <1>1, <1>2, <1>3, <1>4, <1>5 DEF Next, SocketStep, vars, Silent, Finish, AfterError,
                                          CreateCamera, DeleteCamera, ReceiveAlert, SendAlert,
                                          OtherChange, Assign, Unassign, Connect, JoinRole,
                                          ListCameras, ListAssignments, ListingFails, Subscribed,
                                          Subscribe, RelayEnrollment, MissEvent, RelayOtherChange

\* Viewers of a camera learn that it is gone before its room closes.
THEOREM NobodyInSilence == Spec => NobodyDropsOutInSilence
<1>1. RoomInvariant /\ [Next]_vars => [SilenceStep]_vars
      BY SilentLeaving DEF RoomInvariant
<1>2. QED
      BY <1>1, RoomInvariantHolds, PTL DEF Spec, NobodyDropsOutInSilence, SilenceStep
================================================================================
