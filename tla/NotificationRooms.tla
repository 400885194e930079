--------------------------- MODULE NotificationRooms ---------------------------
(***************************************************************************)
(* src/src/notifications: Socket.IO connections, their rooms, and the      *)
(* relay of Specter's events to them (cameraRoomManager, socketServer,     *)
(* specterEventRelay, notificationDispatcher).                             *)
(*                                                                         *)
(* A connection joins its role's room, lists the cameras its user may see  *)
(* and joins their rooms; from then on its client may subscribe and        *)
(* unsubscribe. Meanwhile cameras come and go in Specter, assignments in   *)
(* Supabase, and events reach the relay later than the changes they tell.  *)
(* Every await ends an action; emitted is the io.to(rooms).emit() of the   *)
(* last step, if it made one.                                              *)
(***************************************************************************)
EXTENDS Naturals, Sequences, FiniteSets, CameraAccess

CONSTANTS
    Users, Sockets, Cameras,
    RoleOf,       \* the role in a user's access token
    UserOf,       \* the user who opened a connection
    CreatorOf,    \* the user who creates a camera
    NoCamera,     \* the camera of a change of something else
    MaxEvents     \* bound: the configuration events on their way

ASSUME RoomAssumption ==
    /\ RoleOf \in [Users -> Roles]
    /\ UserOf \in [Sockets -> Users]
    /\ CreatorOf \in [Cameras -> Users]
    /\ NoCamera \notin Cameras
    /\ MaxEvents \in Nat

VARIABLES
    exists,       \* the cameras in Specter
    used,         \* the cameras that ever existed: ids are never used again
    assigned,     \* camera_assignments: pairs of a user and a camera
    config,       \* configuration.changed events on their way to fa
    relaying,     \* the cameras of the events that wait for the catalog's names
    pc,           \* where a connection's handler is
    request,      \* the cameras it asks for: all of them at first
    listed,       \* what its listing has returned so far
    registered,   \* the connections whose subscribe and unsubscribe handlers are registered
    room,         \* the members of each camera's room
    emitted,      \* the notification of the last step: [kind, camera, to]
    announced,    \* history: the cameras whose creation the relay has handled
    unlisted,     \* history: the admins' connections whose first listing failed
    left,         \* history: the rooms that an admin's client asked to leave
    mayHear       \* history: the cameras that a connection's user, not an admin, could see since

outside == <<exists, used, assigned, config>>
sockets == <<pc, request, listed, registered, unlisted, left>>
vars == <<outside, relaying, sockets, room, emitted, announced, mayHear>>

Handling == {"listing", "filtering", "joining"}
Steps == {"new", "connected", "ready", "gone"} \union Handling
Changes == {"created", "updated", "deleted"}
Kinds == Changes \union {"alert", "enrollment", "none"}

Role(s) == RoleOf[UserOf[s]]
Connected(s) == pc[s] \notin {"new", "gone"}

MayView(u, c) == canViewCamera(RoleOf[u], CreatorOf[c] = u, <<u, c>> \in assigned)

\* The members of role:<role>, which a connection joins before it lists cameras.
InRoleAfterListing(s) == pc[s] \in {"joining", "ready"}
InRole(s) == pc[s] \notin {"new", "connected", "gone"}
RoleRoom(roles) == {s \in Sockets : InRole(s) /\ Role(s) \in roles}

Nothing == [kind |-> "none", camera |-> NoCamera, to |-> {}]

Init ==
    /\ exists = {}
    /\ used = {}
    /\ assigned = {}
    /\ config = <<>>
    /\ relaying = {}
    /\ pc = [s \in Sockets |-> "new"]
    /\ request = [s \in Sockets |-> {}]
    /\ listed = [s \in Sockets |-> {}]
    /\ registered = {}
    /\ room = [c \in Cameras |-> {}]
    /\ emitted = Nothing
    /\ announced = {}
    /\ unlisted = {}
    /\ left = [s \in Sockets |-> {}]
    /\ mayHear = [s \in Sockets |-> {}]

\* Most steps send nothing.
Silent == emitted' = Nothing

--------------------------------------------------------------------------------
(* Specter and Supabase. *)

Publish(c, change) ==
    /\ Len(config) < MaxEvents
    /\ config' = Append(config, [camera |-> c, change |-> change])

\* What the users of open connections could see, after a change of cameras or assignments.
RecordAccess ==
    mayHear' = [s \in Sockets |->
        IF Connected(s) /\ Role(s) # "admin"
            THEN mayHear[s] \union {c \in exists' : MayView(UserOf[s], c)'}
            ELSE mayHear[s]]

CreateCamera(c) ==
    /\ c \notin used
    /\ exists' = exists \union {c}
    /\ used' = used \union {c}
    /\ Publish(c, "created")
    /\ Silent
    /\ UNCHANGED <<assigned, relaying, sockets, room, announced>>
    /\ RecordAccess

DeleteCamera(c) ==
    /\ c \in exists
    /\ exists' = exists \ {c}
    /\ Publish(c, "deleted")
    /\ Silent
    /\ UNCHANGED <<used, assigned, relaying, sockets, room, announced, mayHear>>

\* An update of a camera, or a change of a watchlist or a target. Bound: only when no other event
\* is on its way.
OtherChange(c) ==
    /\ config = <<>>
    /\ c \in exists \union {NoCamera}
    /\ Publish(c, "updated")
    /\ Silent
    /\ UNCHANGED <<exists, used, assigned, relaying, sockets, room, announced, mayHear>>

\* Bound: an assignment of an admin, who sees every camera, is left out.
Assign(u, c) ==
    /\ RoleOf[u] # "admin"
    /\ c \in exists
    /\ <<u, c>> \notin assigned
    /\ assigned' = assigned \union {<<u, c>>}
    /\ Silent
    /\ UNCHANGED <<exists, used, config, relaying, sockets, room, announced>>
    /\ RecordAccess

Unassign(u, c) ==
    /\ <<u, c>> \in assigned
    /\ assigned' = assigned \ {<<u, c>>}
    /\ Silent
    /\ UNCHANGED <<exists, used, config, relaying, sockets, room, announced, mayHear>>

--------------------------------------------------------------------------------
(* The connection handler: joinAuthorizedCameras, then registerRoomHandlers. *)

Connect(s) ==
    /\ pc[s] = "new"
    /\ pc' = [pc EXCEPT ![s] = "connected"]
    /\ mayHear' = [mayHear EXCEPT ![s] = IF Role(s) = "admin" THEN {}
                                      ELSE {c \in exists : MayView(UserOf[s], c)}]
    /\ Silent
    /\ UNCHANGED <<outside, relaying, request, listed, registered, unlisted, left, room,
                   announced>>

JoinRole(s) ==
    /\ pc[s] = "connected"
    /\ pc' = [pc EXCEPT ![s] = "listing"]
    /\ request' = [request EXCEPT ![s] = Cameras]
    /\ Silent
    /\ UNCHANGED <<outside, relaying, listed, registered, unlisted, left, room, announced,
                   mayHear>>

\* listAccessibleCameras: Specter's cameras, and then the user's assignments unless an admin.
ListCameras(s) ==
    /\ pc[s] = "listing"
    /\ pc' = [pc EXCEPT ![s] = IF Role(s) = "admin" THEN "joining" ELSE "filtering"]
    /\ listed' = [listed EXCEPT ![s] = IF Role(s) = "admin" THEN exists \intersect request[s]
                                                            ELSE exists]
    /\ Silent
    /\ UNCHANGED <<outside, relaying, request, registered, unlisted, left, room, announced,
                   mayHear>>

Requested(s) == listed[s] \intersect request[s]
Authorized(s) == {c \in listed[s] \intersect request[s] : MayView(UserOf[s], c)}

ListAssignments(s) ==
    /\ pc[s] = "filtering"
    /\ pc' = [pc EXCEPT ![s] = "joining"]
    /\ listed' = [listed EXCEPT ![s] = Authorized(s)]
    /\ Silent
    /\ UNCHANGED <<outside, relaying, request, registered, unlisted, left, room, announced,
                   mayHear>>

\* The handler's end (socketServer.ts then registers the others), after a success or after the
\* error was reported to the client.
Finish(s) ==
    /\ pc' = [pc EXCEPT ![s] = "ready"]
    /\ registered' = registered \union {s}
    /\ request' = [request EXCEPT ![s] = {}]
    /\ listed' = [listed EXCEPT ![s] = {}]

RejectUnhandled(s) ==
    /\ pc' = [pc EXCEPT ![s] = "failed"]
    /\ UNCHANGED <<registered, request, listed>>

AfterError(s) == Finish(s)

ListingFails(s) ==
    /\ pc[s] \in {"listing", "filtering"}
    /\ AfterError(s)
    /\ unlisted' = IF s \in registered \/ Role(s) # "admin" THEN unlisted ELSE unlisted \union {s}
    /\ Silent
    /\ UNCHANGED <<outside, relaying, left, room, announced, mayHear>>

JoinCamera(s, c) ==
    /\ pc[s] = "joining"
    /\ c \in listed[s]
    /\ listed' = [listed EXCEPT ![s] = @ \ {c}]
    /\ room' = [room EXCEPT ![c] = @ \union {s}]
    /\ Silent
    /\ UNCHANGED <<outside, relaying, pc, request, registered, unlisted, left, announced,
                   mayHear>>

Subscribed(s) ==
    /\ pc[s] = "joining"
    /\ listed[s] = {}
    /\ Finish(s)
    /\ Silent
    /\ UNCHANGED <<outside, relaying, unlisted, left, room, announced, mayHear>>

\* Bound: a client has one subscribe:cameras request at a time; others are handled meanwhile.
Subscribe(s, cs) ==
    /\ pc[s] = "ready"
    /\ pc' = [pc EXCEPT ![s] = "listing"]
    /\ request' = [request EXCEPT ![s] = cs]
    /\ Silent
    /\ UNCHANGED <<outside, relaying, listed, registered, unlisted, left, room, announced,
                   mayHear>>

Unsubscribe(s, c) ==
    /\ Connected(s)
    /\ s \in registered
    /\ room' = [room EXCEPT ![c] = @ \ {s}]
    /\ left' = IF Role(s) = "admin" THEN [left EXCEPT ![s] = @ \union {c}] ELSE left
    /\ Silent
    /\ UNCHANGED <<outside, relaying, pc, request, listed, registered, unlisted, announced,
                   mayHear>>

\* A handler in flight goes on, but joining a room has no effect any more.
Disconnect(s) ==
    /\ Connected(s)
    /\ pc' = [pc EXCEPT ![s] = "gone"]
    /\ room' = [c \in Cameras |-> room[c] \ {s}]
    /\ request' = [request EXCEPT ![s] = {}]
    /\ listed' = [listed EXCEPT ![s] = {}]
    /\ Silent
    /\ UNCHANGED <<outside, relaying, registered, unlisted, left, announced, mayHear>>

--------------------------------------------------------------------------------
(* SpecterEventRelay.relay *)

\* match_confirmed, rule_triggered, camera_status_changed: first the catalog is awaited, for as
\* many events at a time as there are streams.
ReceiveAlert(c) ==
    /\ c \in used \ relaying
    /\ relaying' = relaying \union {c}
    /\ Silent
    /\ UNCHANGED <<outside, sockets, room, announced, mayHear>>

toCamera(c) == room[c]

SendAlert(c) ==
    /\ c \in relaying
    /\ emitted' = [kind |-> "alert", camera |-> c, to |-> toCamera(c)]
    /\ relaying' = relaying \ {c}
    /\ UNCHANGED <<outside, sockets, room, announced, mayHear>>

\* enrollment_status_changed goes to the rooms of two roles; the wait for the names before it
\* changes nothing here. Bound: only when no other event is on its way.
RelayEnrollment ==
    /\ config = <<>> /\ relaying = {}
    /\ emitted' = [kind |-> "enrollment", camera |-> NoCamera, to |-> RoleRoom(MANAGER_ROLES)]
    /\ UNCHANGED <<outside, relaying, sockets, room, announced, mayHear>>

NextEvent == config # <<>> /\ config' = Tail(config)

\* The event is missed: fa was not following the stream when it was published.
MissEvent ==
    /\ NextEvent
    /\ Silent
    /\ UNCHANGED <<exists, used, assigned, relaying, sockets, room, announced, mayHear>>

RelayOtherChange ==
    /\ NextEvent
    /\ Head(config).camera = NoCamera
    /\ emitted' = [kind |-> Head(config).change, camera |-> NoCamera,
                   to |-> RoleRoom(MANAGER_ROLES)]
    /\ UNCHANGED <<exists, used, assigned, relaying, sockets, room, announced, mayHear>>

\* The room with the admins of a camera that was created, for the code's joinCameraByRole.
Joined(c, change) == IF change = "created" THEN room[c] \union RoleRoom({"admin"}) ELSE room[c]

RoomAfterClosing(c, change) == IF change = "deleted" THEN {} ELSE Joined(c, change)
RoomBeforeClosing(c, change) == Joined(c, change)

toCameraAndRoles(c, change) == RoomBeforeClosing(c, change) \union RoleRoom(MANAGER_ROLES)

RelayCameraChange ==
    /\ NextEvent
    /\ LET c == Head(config).camera
           change == Head(config).change
       IN  /\ c \in Cameras
           /\ emitted' = [kind |-> change, camera |-> c, to |-> toCameraAndRoles(c, change)]
           /\ room' = [room EXCEPT ![c] = RoomAfterClosing(c, change)]
           /\ announced' = IF change = "created" THEN announced \union {c} ELSE announced
    /\ UNCHANGED <<exists, used, assigned, relaying, sockets, mayHear>>

--------------------------------------------------------------------------------
SocketStep(s) ==
    \/ JoinRole(s)
    \/ ListCameras(s)
    \/ ListAssignments(s)
    \/ ListingFails(s)
    \/ \E c \in Cameras : JoinCamera(s, c)
    \/ Subscribed(s)

Next ==
    \/ \E c \in Cameras : CreateCamera(c) \/ DeleteCamera(c) \/ ReceiveAlert(c) \/ SendAlert(c)
    \/ \E c \in Cameras \union {NoCamera} : OtherChange(c)
    \/ \E u \in Users, c \in Cameras : Assign(u, c) \/ Unassign(u, c)
    \/ \E s \in Sockets : Connect(s) \/ SocketStep(s) \/ Disconnect(s)
    \/ \E s \in Sockets, c \in Cameras : Unsubscribe(s, c)
    \/ \E s \in Sockets, cs \in SUBSET Cameras : Subscribe(s, cs)
    \/ RelayEnrollment
    \/ MissEvent
    \/ RelayOtherChange
    \/ RelayCameraChange

\* The requests that a connection waits for end by themselves, at the latest by their timeout.
Fairness == \A s \in Sockets : WF_vars(SocketStep(s))

Spec == Init /\ [][Next]_vars /\ Fairness

--------------------------------------------------------------------------------
\* Type correctness; a connection's handler always runs to its end, also after an error.
TypeOK ==
    /\ exists \subseteq used /\ used \subseteq Cameras
    /\ assigned \subseteq Users \X Cameras
    /\ config \in Seq([camera : Cameras \union {NoCamera}, change : Changes])
    /\ relaying \subseteq Cameras
    /\ pc \in [Sockets -> Steps]
    /\ request \in [Sockets -> SUBSET Cameras]
    /\ listed \in [Sockets -> SUBSET Cameras]
    /\ registered \subseteq Sockets
    /\ room \in [Cameras -> SUBSET Sockets]
    /\ emitted \in [kind : Kinds, camera : Cameras \union {NoCamera}, to : SUBSET Sockets]
    /\ announced \subseteq used
    /\ unlisted \subseteq Sockets
    /\ left \in [Sockets -> SUBSET Cameras]
    /\ mayHear \in [Sockets -> SUBSET Cameras]

\* An admin whose connection is set up follows every camera whose creation was announced,
\* however the announcement fell among the steps of the connection: it is in the room because it
\* was in the role's room, or because the camera was already listed.
AdminsFollowNewCameras ==
    \A s \in Sockets, c \in exists \intersect announced :
        pc[s] = "ready" /\ s \notin unlisted /\ Role(s) = "admin" /\ c \notin left[s]
            => s \in room[c]

\* Camera rooms never let an alert out to a user, other than an admin, who could not see the
\* camera at any time since the connection opened, whatever ids the client asks for
\* (cameraRoomManager.ts:93).
AlertsStayInside ==
    emitted.kind = "alert" =>
        \A s \in emitted.to : Role(s) = "admin" \/ emitted.camera \in mayHear[s]

\* The events on their way are of cameras that were created, and tell of a deletion only after it.
EventsAreTrue ==
    \A i \in 1..Len(config) :
        /\ config[i].camera \in used \union {NoCamera}
        /\ config[i].change = "deleted" => config[i].camera \notin exists

\* Of a user who is not an admin: mayHear has the cameras that they can see now, those of a listing
\* once it is filtered, and those whose rooms they are in.
HearsWhatItMay(s) ==
    /\ listed[s] \subseteq used
    /\ \A c \in Cameras : s \in room[c] => Connected(s) /\ c \in mayHear[s]
    /\ Connected(s) => \A c \in exists : MayView(UserOf[s], c) => c \in mayHear[s]
    /\ pc[s] = "filtering" => \A c \in listed[s] : MayView(UserOf[s], c) => c \in mayHear[s]
    /\ pc[s] = "joining" => listed[s] \subseteq mayHear[s]

\* Of an admin: a new connection asks for every camera, and will have joined the announced ones by
\* the time that its handlers are registered; from then on it stays in their rooms.
Follows(s, c) == s \in room[c] \/ s \in unlisted \/ c \in left[s]

FollowsNewCameras(s) ==
    /\ pc[s] # "filtering"
    /\ pc[s] \in {"new", "connected"} => s \notin registered
    /\ pc[s] = "ready" => s \in registered
    /\ pc[s] = "listing" /\ s \notin registered => request[s] = Cameras
    /\ \A c \in exists \intersect announced :
          /\ pc[s] = "joining" => c \in listed[s] \/ Follows(s, c)
          /\ s \in registered /\ pc[s] # "gone" => Follows(s, c)

\* The inductive invariant.
RoomInvariant ==
    /\ TypeOK
    /\ EventsAreTrue
    /\ \A s \in Sockets : IF Role(s) = "admin" THEN FollowsNewCameras(s) ELSE HearsWhatItMay(s)
    /\ AlertsStayInside

\* Viewers of a camera learn that it is gone before its room closes (specterEventRelay.ts:75):
\* nobody drops out of a room in silence, except by leaving it or by disconnecting.
NobodyDropsOutInSilence ==
    [][\A c \in Cameras : \A s \in room[c] \ room'[c] :
          \/ pc'[s] = "gone"
          \/ Unsubscribe(s, c)
          \/ emitted'.kind = "deleted" /\ emitted'.camera = c /\ s \in emitted'.to]_vars

\* A connection whose cameras cannot be listed still gets its handlers: its client can ask again.
ConnectionsBecomeUsable ==
    \A s \in Sockets : pc[s] = "connected" ~> s \in registered \/ pc[s] = "gone"

\* The relay "sends each one only to the users allowed to see it" (specterEventRelay.ts:4).
AlertsGoToAllowedUsers ==
    [][\A c \in relaying \ relaying' :
          \A s \in emitted'.to : MayView(UserOf[s], c)]_vars
================================================================================
