----------------------------- MODULE CameraRequests -----------------------------
(***************************************************************************)
(* The requests of fa's clients about cameras and alerts: cameraService,   *)
(* cameraSettingsService, alertService and their repositories.             *)
(*                                                                         *)
(* Cameras live in Specter, which keeps their creator in metadata that fa  *)
(* shares with other applications, and assignments live in Supabase. A     *)
(* request checks first and acts later, one call at a time, while other    *)
(* requests and other applications go on: every await ends an action. A    *)
(* call may fail, and an effect in Specter may come without its answer.    *)
(***************************************************************************)
EXTENDS CameraAccess, Naturals

CONSTANTS
    Users, Cameras, Requests,
    RoleOf,       \* the role in a user's access token
    Nobody,       \* the creator of a camera that another application created
    Tried,        \* the operations that the users try
    MaxRequests,  \* bound: the requests over all
    MaxChanges    \* bound: the changes by other applications

ASSUME CameraAssumption ==
    /\ RoleOf \in [Users -> Roles]
    /\ Nobody \notin Users
    /\ Tried \subseteq Operations
    /\ MaxRequests \in Nat /\ MaxChanges \in Nat

VARIABLES
    exists,       \* the cameras in Specter
    used,         \* the cameras that ever existed, which may have alerts: no id is used again
    metadata,     \* metadata[c]: fa's created_by, and the value of another application's key
    assigned,     \* camera_assignments: pairs of a user and a camera
    changes,      \* the changes by other applications so far
    begun,        \* the requests so far
    request,      \* request[r]: the state of a request
    existed,      \* history: the cameras that existed at a time since r began
    permitted,    \* history: the cameras that its user was permitted r's operation on since then
    overtaken,    \* history: the requests whose copy of the metadata a later write outdated
    orphaned      \* history: the cameras whose assignments nothing removes any more

outside == <<exists, used, metadata, assigned, changes>>
history == <<existed, permitted, overtaken, orphaned>>
vars == <<outside, begun, request, history>>

NoMetadata == [created_by |-> Nobody, others |-> 0]

\* pc: where it is; cameras: the camera it is about, or the cameras it asks for; listed: the
\* cameras it has listed; creator: what it has read of a camera; copy: the metadata it has read; to: the user it assigns;
\* told: the status of its answer; given: the cameras that the answer tells of; did: it had an
\* effect.
Unused == [pc |-> "unused", op |-> "getCameras", user |-> Nobody, cameras |-> {}, listed |-> {},
           creator |-> Nobody, copy |-> NoMetadata, to |-> Nobody, told |-> 0, given |-> {}, did |-> FALSE]

\* fa starts with the cameras and the assignments that there are.
\* Bound: an assignment of an admin, who sees every camera, is left out.
Assignees == {u \in Users : RoleOf[u] # "admin"}
Creators == {u \in Users : RoleOf[u] \in MANAGER_ROLES} \union {Nobody}

Init ==
    /\ exists \in SUBSET Cameras
    /\ used = exists
    /\ metadata \in [Cameras -> [created_by : Creators, others : {0}]]
    /\ \A c \in Cameras \ exists : metadata[c] = NoMetadata
    /\ assigned \in SUBSET (Assignees \X exists)
    /\ changes = 0 /\ begun = 0
    /\ request = [r \in Requests |-> Unused]
    /\ existed = [r \in Requests |-> {}]
    /\ permitted = [r \in Requests |-> {}]
    /\ overtaken = {} /\ orphaned = {}

Role(r) == RoleOf[request[r].user]
CameraOf(r) == CHOOSE c \in request[r].cameras : TRUE

\* A user's access in truth, now.
IsPermitted(op, u, c) == Permits(op, RoleOf[u], metadata[c].created_by = u, <<u, c>> \in assigned)
IsServed(r) == request[r].pc \notin {"unused", "ended"}
ExistingNow(r) == IF IsServed(r) THEN exists ELSE {}
PermittedNow(r) ==
    IF IsServed(r) THEN {c \in used : IsPermitted(request[r].op, request[r].user, c)} ELSE {}

\* Every step but a request's first keeps its history up to date, while it can matter.
ToldNothing(r) == request[r].pc = "ended" /\ request[r].given = {}
Observe ==
    /\ existed' = [r \in Requests |->
           IF ToldNothing(r)' THEN {} ELSE existed[r] \union ExistingNow(r)']
    /\ permitted' = [r \in Requests |->
           IF ToldNothing(r)' THEN {} ELSE permitted[r] \union PermittedNow(r)']

-------------------------------------------------------------------------------
(* Other applications that use Specter. *)

Elsewhere ==
    /\ changes < MaxChanges
    /\ changes' = changes + 1
    /\ UNCHANGED <<assigned, begun, request>>
    /\ Observe

\* The requests that are about to write back other metadata than c's is now.
Outdated(c) ==
    {r \in Requests : /\ request[r].pc = "patching" /\ c \in request[r].cameras
                      /\ request[r].copy # metadata'[c]}

CreateElsewhere(c) ==
    /\ c \notin used
    /\ exists' = exists \union {c}
    /\ used' = used \union {c}
    /\ UNCHANGED <<metadata, overtaken, orphaned>>
    /\ Elsewhere

DeleteElsewhere(c) ==
    /\ c \in exists
    /\ exists' = exists \ {c}
    /\ orphaned' = orphaned \union {c}
    /\ UNCHANGED <<used, metadata, overtaken>>
    /\ Elsewhere

ChangeElsewhere(c) ==
    /\ c \in exists
    /\ metadata' = [metadata EXCEPT ![c].others = @ + 1]
    /\ overtaken' = overtaken \union Outdated(c)
    /\ UNCHANGED <<exists, used, orphaned>>
    /\ Elsewhere

-------------------------------------------------------------------------------
(* The steps of a request. *)

Update(r, state) == request' = [request EXCEPT ![r] = state]
Goto(r, pc) == Update(r, [request[r] EXCEPT !.pc = pc])
End(r, status, cameras, effect) ==
    Update(r, [Unused EXCEPT !.pc = "ended", !.told = status, !.did = effect, !.given = cameras,
                             !.op = IF cameras = {} THEN @ ELSE request[r].op,
                             !.user = IF cameras = {} THEN @ ELSE request[r].user])
Refuse(r, status) == End(r, status, {}, FALSE)

Quietly == UNCHANGED <<outside, begun, overtaken, orphaned>> /\ Observe

\* authenticateToken, requireRole, and the call of the service. A list is of the cameras asked
\* for, or of all when none are.
FirstStep(op) ==
    CASE op \in OfCamera -> "finding"
      [] op \in OfAlert -> "finding alert"
      [] op \in OfLists -> "listing"
      [] OTHER -> "creating"

Begin(r, u, op, cs, to) ==
    /\ ~IsServed(r)
    /\ begun < MaxRequests
    /\ begun' = begun + 1
    /\ op \in {"getCameras", "createCamera"} => cs = {}
    /\ op \in OfCamera \union OfAlert => \E c \in Cameras : cs = {c}
    /\ (to # Nobody) <=> op \in {"assignCamera", "removeAssignment"}
    /\ IF RoleOf[u] \in RolesOf(op)
           THEN Update(r, [Unused EXCEPT !.pc = FirstStep(op), !.op = op, !.user = u,
                                         !.cameras = cs, !.to = to])
           ELSE Refuse(r, 403)
    /\ UNCHANGED <<outside, orphaned>>
    /\ existed' = [existed EXCEPT ![r] = ExistingNow(r)']
    /\ permitted' = [permitted EXCEPT ![r] = PermittedNow(r)']
    /\ overtaken' = overtaken \ {r}

\* Specter or Supabase does not answer, or refuses. Only deleteCamera goes on: the camera is gone.
Fail(r) ==
    /\ IsServed(r)
    /\ IF request[r].pc = "cleaning"
           THEN /\ End(r, 200, request[r].cameras, TRUE)
                /\ orphaned' = orphaned \union request[r].cameras
           ELSE Refuse(r, 500) /\ UNCHANGED orphaned
    /\ UNCHANGED <<outside, begun, overtaken>>
    /\ Observe

\* getAccessibleCamera: first the camera, and then whether the user was assigned, which is not
\* asked for an admin or the creator.
FindCamera(r) ==
    /\ request[r].pc = "finding"
    /\ IF CameraOf(r) \in exists
           THEN Update(r, [request[r] EXCEPT !.pc = "viewing",
                                             !.creator = metadata[CameraOf(r)].created_by])
           ELSE Refuse(r, 404)
    /\ Quietly

isAssignedAtAll(r) ==
    Role(r) # "admin" /\ \E u \in Users : <<u, CameraOf(r)>> \in assigned
isCreator(r) == request[r].creator = request[r].user
isAssigned(r) ==
    Role(r) # "admin" /\ ~isCreator(r) /\ <<request[r].user, CameraOf(r)>> \in assigned

DeletionReversed == <<"cleaning", "deleting">>
Deletion == <<"deleting", "cleaning">>

\* Where the operation goes on once the access is checked.
Act(r) ==
    CASE request[r].op = "deleteCamera" -> Goto(r, Deletion[1])
      [] request[r].op = "updateLocation" -> Goto(r, "reading")
      [] request[r].op \in {"getCameraById", "issueTicket"} ->
             End(r, 200, request[r].cameras, FALSE)
      [] OTHER -> Goto(r, "acting")

CheckView(r) ==
    /\ request[r].pc = "viewing"
    /\ IF ~canViewCamera(Role(r), isCreator(r), isAssigned(r)) THEN Refuse(r, 404)
       ELSE IF request[r].op \in Managing THEN Goto(r, "managing")
       ELSE IF request[r].op \in Assigning /\ ~canManageAssignments(Role(r), isCreator(r))
           THEN Refuse(r, 403)
       ELSE Act(r)
    /\ Quietly

\* getManageableCamera asks once more whether the user was assigned.
CheckManage(r) ==
    /\ request[r].pc = "managing"
    /\ IF canManageCamera(Role(r), isCreator(r), isAssigned(r)) THEN Act(r) ELSE Refuse(r, 403)
    /\ Quietly

\* splitSourceCredentials: the new source is no URL.
RefuseSource(r) ==
    /\ \/ request[r].pc = "acting" /\ request[r].op = "updateCamera"
       \/ request[r].pc = "creating"
    /\ Refuse(r, 400)
    /\ Quietly

\* Specter does what it is asked, if the camera still exists; then its answer comes, or is lost.
Answered(r, effect) ==
    End(r, 200, request[r].cameras, effect) \/ (effect /\ End(r, 500, {}, effect))

InSpecter == (Viewing \union Managing) \ {"deleteCamera", "updateLocation"}

CallSpecter(r) ==
    /\ request[r].pc = "acting"
    /\ request[r].op \in InSpecter
    /\ IF CameraOf(r) \in exists THEN Answered(r, request[r].op \in Managing) ELSE Refuse(r, 404)
    /\ Quietly

CreateCamera(r, c) ==
    /\ request[r].pc = "creating"
    /\ c \notin used
    /\ exists' = exists \union {c}
    /\ used' = used \union {c}
    /\ metadata' = [metadata EXCEPT ![c].created_by = request[r].user]
    /\ \/ End(r, 201, {c}, TRUE)
       \/ End(r, 500, {}, TRUE)
    /\ UNCHANGED <<assigned, changes, begun, overtaken, orphaned>>
    /\ Observe

\* SpecterCameraRepository.update with a location: the metadata is read, and written back whole.
ReadMetadata(r) ==
    /\ request[r].pc = "reading"
    /\ IF CameraOf(r) \in exists
           THEN Update(r, [request[r] EXCEPT !.pc = "patching", !.copy = metadata[CameraOf(r)]])
           ELSE Refuse(r, 404)
    /\ Quietly

OnlyLocation(copy) == [copy EXCEPT !.created_by = Nobody]
WithLocation(copy) == copy

PatchMetadata(r) ==
    /\ request[r].pc = "patching"
    /\ IF CameraOf(r) \in exists
           THEN /\ metadata' = [metadata EXCEPT ![CameraOf(r)] = WithLocation(request[r].copy)]
                /\ overtaken' = overtaken \union Outdated(CameraOf(r))
                /\ Answered(r, TRUE)
           ELSE Refuse(r, 404) /\ UNCHANGED <<metadata, overtaken>>
    /\ UNCHANGED <<exists, used, assigned, changes, begun, orphaned>>
    /\ Observe

\* The step of a deletion after this one, or its end.
DeletionGoesOn(r, step) ==
    IF Deletion[1] = step THEN Update(r, [request[r] EXCEPT !.pc = Deletion[2], !.did = TRUE])
    ELSE End(r, 200, request[r].cameras, TRUE)

DeleteCamera(r) ==
    /\ request[r].pc = "deleting"
    /\ IF CameraOf(r) \in exists
           THEN /\ exists' = exists \ request[r].cameras
                /\ \/ DeletionGoesOn(r, "deleting") /\ UNCHANGED orphaned
                   \/ End(r, 500, {}, TRUE) /\ orphaned' = orphaned \union request[r].cameras
           ELSE End(r, 404, {}, request[r].did) /\ UNCHANGED <<exists, orphaned>>
    /\ UNCHANGED <<used, metadata, assigned, changes, begun, overtaken>>
    /\ Observe

OwnRows(r) == {row \in assigned : row[1] = request[r].user /\ row[2] \in request[r].cameras}
RowsOfCamera(r) == {row \in assigned : row[2] \in request[r].cameras}

RemoveAllForCamera(r) ==
    /\ request[r].pc = "cleaning"
    /\ assigned' = assigned \ RowsOfCamera(r)
    /\ DeletionGoesOn(r, "cleaning")
    /\ UNCHANGED <<exists, used, metadata, changes, begun, overtaken, orphaned>>
    /\ Observe

\* The row is inserted whether or not the camera still exists; a second one is a duplicate key.
AssignCamera(r) ==
    /\ request[r].pc = "acting" /\ request[r].op = "assignCamera"
    /\ LET row == <<request[r].to, CameraOf(r)>> IN
           IF row \in assigned
               THEN Refuse(r, 409) /\ UNCHANGED <<assigned, orphaned>>
               ELSE /\ assigned' = assigned \union {row}
                    /\ orphaned' = IF CameraOf(r) \in exists THEN orphaned
                                   ELSE orphaned \union request[r].cameras
                    /\ Answered(r, TRUE)
    /\ UNCHANGED <<exists, used, metadata, changes, begun, overtaken>>
    /\ Observe

RemoveAssignment(r) ==
    /\ request[r].pc = "acting" /\ request[r].op = "removeAssignment"
    /\ assigned' = assigned \ {<<request[r].to, CameraOf(r)>>}
    /\ Answered(r, TRUE)
    /\ UNCHANGED <<exists, used, metadata, changes, begun, overtaken, orphaned>>
    /\ Observe

GetAssignments(r) ==
    /\ request[r].pc = "acting" /\ request[r].op = "getAssignments"
    /\ End(r, 200, request[r].cameras, FALSE)
    /\ Quietly

\* listAccessibleCameras and accessibleCameraIds: Specter's cameras, and then the user's
\* assignments unless an admin. Alerts ask nothing for an admin, who may see "all".
ListCameras(r) ==
    /\ request[r].pc = "listing"
    /\ IF Role(r) # "admin" THEN Update(r, [request[r] EXCEPT !.pc = "filtering", !.listed = exists])
       ELSE IF request[r].op = "getCameras" THEN End(r, 200, exists, FALSE)
       ELSE Goto(r, "querying")
    /\ Quietly

\* The creators are those of the listing: they never change (MetadataIsKept).
Accessible(r) ==
    {c \in request[r].listed : IsPermitted("getCameras", request[r].user, c)}

CameraStep(r) ==
    \/ Fail(r) \/ FindCamera(r) \/ CheckView(r) \/ CheckManage(r) \/ RefuseSource(r)
    \/ CallSpecter(r) \/ ReadMetadata(r) \/ PatchMetadata(r)
    \/ DeleteCamera(r) \/ RemoveAllForCamera(r)
    \/ AssignCamera(r) \/ RemoveAssignment(r) \/ GetAssignments(r)
    \/ \E c \in Cameras : CreateCamera(r, c)
    \/ ListCameras(r)

OthersStep == \E c \in Cameras : CreateElsewhere(c) \/ DeleteElsewhere(c) \/ ChangeElsewhere(c)
Arrival ==
    \E r \in Requests, u \in Users, op \in Tried, cs \in SUBSET Cameras, to \in Assignees \union {Nobody} :
        Begin(r, u, op, cs, to)

-------------------------------------------------------------------------------
Steps == {"unused", "finding", "viewing", "managing", "acting", "creating", "reading", "patching",
          "deleting", "cleaning", "finding alert", "listing", "filtering", "querying", "ended"}
Successes == {200, 201}
Statuses == {0, 400, 403, 404, 409, 500} \union Successes
Metadata == [created_by : Users \union {Nobody}, others : Nat]
RequestStates ==
    [pc : Steps, op : Operations, user : Users \union {Nobody}, cameras : SUBSET Cameras,
     listed : SUBSET Cameras, creator : Users \union {Nobody}, copy : Metadata,
     to : Users \union {Nobody}, told : Statuses, given : SUBSET Cameras, did : BOOLEAN]

\* Type correctness; assignments and answers are of cameras that were created, and only an ended
\* request has an answer.
TypeOK ==
    /\ exists \subseteq used /\ used \subseteq Cameras
    /\ metadata \in [Cameras -> Metadata]
    /\ assigned \subseteq Users \X used
    /\ changes \in 0..MaxChanges /\ begun \in 0..MaxRequests
    /\ request \in [Requests -> RequestStates]
    /\ \A r \in Requests :
          /\ request[r].listed \union request[r].given \subseteq used
          /\ request[r].told # 0 <=> request[r].pc = "ended"
    /\ existed \in [Requests -> SUBSET Cameras] /\ permitted \in [Requests -> SUBSET Cameras]
    /\ overtaken \subseteq Requests /\ orphaned \subseteq Cameras

Lawful(r, cameras) ==
    request[r].user # Nobody /\ Role(r) # "admin" => cameras \subseteq existed[r] \intersect permitted[r]

\* A check may be outdated when the request acts, but never older than the request: a camera that
\* anyone but an admin is answered about existed, and was theirs to see or to change, at some time
\* since they asked; assignments that a deleted camera left behind open nothing
\* (cameraService.ts:106,139). So it is with alerts and their counts, where Specter takes an empty
\* list of ids for every camera, and fa for none (alertRepository.ts:9).
AccessWasHeld ==
    \A r \in Requests : request[r].op # "createCamera" => Lawful(r, request[r].given)

\* Who is told that a request was refused (400, 403, 404, 409) had nothing changed by it, also
\* when the camera vanished between the check and the act, or halfway through a deletion.
RefusalsChangeNothing ==
    \A r \in Requests : request[r].told \in 400..499 => ~request[r].did

\* "Specter replaces metadata whole, so the other keys are read back first"
\* (specterCameraRepository.ts:82). No sequence of requests, however interleaved, takes a camera
\* from its creator, and fa undoes another application's change only when some write of the metadata
\* came between the reading and the writing of one request: the change itself, or a request that
\* had read it and writes it back after another one undid it.
MetadataIsKept ==
    [][\A c \in used :
          /\ metadata'[c].created_by = metadata[c].created_by
          /\ metadata'[c].others < metadata[c].others =>
                \E r \in overtaken : request[r].pc = "patching" /\ c \in request[r].cameras]_vars

\* Assignments of a camera that is gone are removed with it. They stay behind only when the
\* removal failed or the answer to the deletion was lost, when another application deleted the
\* camera, or when an assignment that was checked before the deletion came after it.
OrphansAreExplained ==
    \A row \in assigned :
        \/ row[2] \in exists \union orphaned
        \/ \E r \in Requests : request[r].pc = "cleaning" /\ row[2] \in request[r].cameras

-------------------------------------------------------------------------------
(* The inductive invariant: what a request knows at each of its steps.     *)

Changing == {"acting", "reading", "patching", "deleting", "cleaning"}
WithCamera == {"viewing", "managing"} \union Changing
AboutAlerts == {"finding alert", "listing", "filtering", "querying"}

\* The steps of an operation are its own, and those of one camera or alert have its camera.
FollowsItsWay(r) ==
    LET q == request[r] IN
    /\ IsServed(r) => q.user \in Users
    /\ q.pc \in {"finding"} \union WithCamera => q.op \in OfCamera
    /\ q.pc \in AboutAlerts => q.op \in OfAlert \union OfLists
    /\ q.pc \in {"finding", "finding alert"} \union WithCamera \union AboutAlerts
           /\ q.op \in OfCamera \union OfAlert => \E c \in Cameras : q.cameras = {c}
    /\ q.pc = "finding alert" => q.op \in OfAlert
    /\ q.pc = "filtering" => Role(r) # "admin"
    /\ q.pc = "managing" => q.op \in Managing
    /\ q.pc = "creating" => q.op = "createCamera"
    /\ q.pc \in {"finding"} \union WithCamera /\ q.op = "assignCamera" => q.to \in Users
    /\ q.pc \in WithCamera \/ (q.pc \in AboutAlerts \ {"finding alert"} /\ q.op \in OfAlert)
           => q.cameras \subseteq used

\* Nothing is done before the answer, but for the deletion whose rows are being removed.
DidNothingYet(r) == request[r].pc \notin {"cleaning", "ended"} => ~request[r].did

\* A creator never changes, so what was read of it stays true; the rest of a copy of the metadata
\* does until a later write outdates it.
ReadsTrueMetadata(r) ==
    LET q == request[r] IN
    /\ q.pc \in {"viewing", "managing"} => \A c \in q.cameras : q.creator = metadata[c].created_by
    /\ q.pc = "patching" =>
          \A c \in q.cameras : /\ q.copy.created_by = metadata[c].created_by
                               /\ r \in overtaken \/ q.copy = metadata[c]

\* Of a user who is not an admin: what exists and what is permitted now has been recorded, and the
\* cameras that the request has found, or is permitted, are among them.
HasAccess(r) ==
    LET q == request[r] IN
    IsServed(r) /\ Role(r) # "admin" =>
        /\ exists \subseteq existed[r] /\ PermittedNow(r) \subseteq permitted[r]
        /\ q.listed \subseteq existed[r]
        /\ q.pc \in WithCamera => q.cameras \subseteq existed[r]
        /\ q.pc \in Changing => q.cameras \subseteq permitted[r]
        /\ q.pc = "querying" => /\ q.cameras \subseteq existed[r] \intersect permitted[r]
                               /\ q.cameras # {}

CameraInvariant ==
    /\ TypeOK
    /\ AccessWasHeld
    /\ RefusalsChangeNothing
    /\ OrphansAreExplained
    /\ \A r \in Requests :
          FollowsItsWay(r) /\ DidNothingYet(r) /\ ReadsTrueMetadata(r) /\ HasAccess(r)
================================================================================
