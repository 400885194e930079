------------------------- MODULE CameraRequestsProofs --------------------------
(***************************************************************************)
(* Proofs about the requests of cameras and alerts, for any users, roles,  *)
(* cameras and overlapping requests: what a client is told of was theirs   *)
(* to see, a refusal changed nothing, the metadata of a camera is kept,    *)
(* and assignments outlive their camera only where the code lets them.     *)
(*                                                                         *)
(* The inductive invariant is CameraInvariant. A step is one request's, or *)
(* another application's: ChangeOfOneRequest leaves the request that takes *)
(* the step to be looked at.                                               *)
(***************************************************************************)
EXTENDS AlertRequests, TLAPS

USE CameraAssumption

\* What CameraInvariant says of one request.
RequestOK(r) ==
    /\ request[r].op # "createCamera" => Lawful(r, request[r].given)
    /\ request[r].told \in 400..499 => ~request[r].did
    /\ FollowsItsWay(r) /\ DidNothingYet(r) /\ ReadsTrueMetadata(r) /\ HasAccess(r)

\* The cameras of fa and of the others change as they may: ids and creators stay, and a copy of the
\* metadata that is not current any more is outdated.
CamerasEvolve ==
    /\ used \subseteq used'
    /\ \A c \in used : metadata'[c].created_by = metadata[c].created_by
    /\ \A r \in Requests : request[r].pc = "patching" =>
          \A c \in request[r].cameras :
              metadata'[c] = metadata[c] \/ request[r].copy = metadata'[c] \/ r \in overtaken'

\* What existed' and permitted' hold of r after a step.
Records(r) ==
    /\ IsServed(r)' /\ Role(r)' # "admin" =>
          exists' \subseteq existed'[r] /\ PermittedNow(r)' \subseteq permitted'[r]
    /\ ~ToldNothing(r)' => existed[r] \subseteq existed'[r] /\ permitted[r] \subseteq permitted'[r]

\* A request that a step leaves as it was.
Untouched(r) ==
    /\ request'[r] = request[r]
    /\ r \in overtaken => r \in overtaken'
    /\ Records(r)

\* Observe records what exists and what is permitted, and forgets nothing that matters.
LEMMA ObserveRecords ==
    ASSUME TypeOK, Observe, NEW r \in Requests
    PROVE  Records(r)
<1>1. /\ existed'[r] = IF ToldNothing(r)' THEN {} ELSE existed[r] \union ExistingNow(r)'
      /\ permitted'[r] = IF ToldNothing(r)' THEN {} ELSE permitted[r] \union PermittedNow(r)'
      BY DEF Observe
<1>2. IsServed(r)' => ~ToldNothing(r)' /\ ExistingNow(r)' = exists'
      BY DEF IsServed, ToldNothing, ExistingNow
<1>3. QED
      BY <1>1, <1>2 DEF Records

\* A request that a step leaves as it was is as sound as before.
LEMMA UntouchedIsSound ==
    ASSUME CameraInvariant, CamerasEvolve, NEW r \in Requests, Untouched(r)
    PROVE  RequestOK(r)'
<1>1. FollowsItsWay(r) /\ DidNothingYet(r) /\ ReadsTrueMetadata(r) /\ HasAccess(r)
      BY DEF CameraInvariant
<1>2. FollowsItsWay(r)'
      BY <1>1 DEF FollowsItsWay, IsServed, Untouched, CamerasEvolve, Role
<1>3. DidNothingYet(r)'
      BY <1>1 DEF DidNothingYet, Untouched
<1>4. ReadsTrueMetadata(r)'
      BY <1>1 DEF ReadsTrueMetadata, FollowsItsWay, Untouched, CamerasEvolve, WithCamera, Changing
<1>5. HasAccess(r)'
      BY <1>1 DEF HasAccess, Untouched, Records, IsServed, ToldNothing, Role
<1>6. (request[r].op # "createCamera" => Lawful(r, request[r].given))'
  <2>1. CASE request[r].given = {}
        BY <2>1 DEF Untouched, Lawful
  <2>2. CASE request[r].given # {}
        BY <2>2 DEF CameraInvariant, AccessWasHeld, Lawful, Untouched, Records, ToldNothing, Role
  <2>3. QED
        BY <2>1, <2>2
<1>7. QED
      BY <1>2, <1>3, <1>4, <1>5, <1>6 DEF CameraInvariant, RefusalsChangeNothing, RequestOK,
                                          Untouched

\* It is enough to look at the request that takes the step.
LEMMA ChangeOfOneRequest ==
    ASSUME CameraInvariant, CamerasEvolve, TypeOK', OrphansAreExplained',
           NEW r \in Requests, RequestOK(r)', \A q \in Requests : q # r => Untouched(q)
    PROVE  CameraInvariant'
<1>1. \A q \in Requests : RequestOK(q)'
      BY UntouchedIsSound
<1>2. QED
      BY <1>1 DEF CameraInvariant, RequestOK, AccessWasHeld, RefusalsChangeNothing

-------------------------------------------------------------------------------
\* The camera of a request about one.
LEMMA CameraOfIsTheCamera ==
    ASSUME NEW r, NEW c, request[r].cameras = {c}
    PROVE  CameraOf(r) = c
BY DEF CameraOf

\* The types of what Observe records.
LEMMA ObserveIsTyped ==
    ASSUME TypeOK, Observe, exists' \subseteq used', used' \subseteq Cameras
    PROVE  existed' \in [Requests -> SUBSET Cameras] /\ permitted' \in [Requests -> SUBSET Cameras]
<1>1. \A r \in Requests : ExistingNow(r)' \subseteq Cameras /\ PermittedNow(r)' \subseteq Cameras
      BY DEF ExistingNow, PermittedNow
<1>2. QED
      BY <1>1 DEF Observe, TypeOK

\* What TypeOK says of the requests.
RequestsTyped ==
    /\ request \in [Requests -> RequestStates]
    /\ \A r \in Requests :
          /\ request[r].listed \union request[r].given \subseteq used
          /\ request[r].told # 0 <=> request[r].pc = "ended"

\* A request that takes a step to a typed state leaves all of them typed.
LEMMA UpdateIsTyped ==
    ASSUME TypeOK, used \subseteq used', NEW r \in Requests, NEW s \in RequestStates, Update(r, s),
           s.listed \union s.given \subseteq used', s.told # 0 <=> s.pc = "ended"
    PROVE  RequestsTyped'
<1>1. request' \in [Requests -> RequestStates]
      BY DEF TypeOK, Update
<1>2. ASSUME NEW q \in Requests
      PROVE  /\ request'[q].listed \union request'[q].given \subseteq used'
             /\ request'[q].told # 0 <=> request'[q].pc = "ended"
  <2>1. CASE q = r
        BY <2>1 DEF TypeOK, Update
  <2>2. CASE q # r
        BY <1>2, <2>2 DEF TypeOK, Update
  <2>3. QED
        BY <2>1, <2>2
<1>3. QED
      BY <1>1, <1>2 DEF RequestsTyped

\* A request that ends: its state, and what it may say.
EndOf(r, status, cameras, effect) ==
    [Unused EXCEPT !.pc = "ended", !.told = status, !.did = effect, !.given = cameras,
                   !.op = IF cameras = {} THEN @ ELSE request[r].op,
                   !.user = IF cameras = {} THEN @ ELSE request[r].user]

\* The state of a request that has ended is typed.
LEMMA EndIsTyped ==
    ASSUME TypeOK, NEW r \in Requests, NEW status \in Statuses, NEW cameras \in SUBSET Cameras,
           NEW effect \in BOOLEAN
    PROVE  EndOf(r, status, cameras, effect) \in RequestStates
<1>1. PICK op \in Operations : op = IF cameras = {} THEN Unused.op ELSE request[r].op
      BY DEF TypeOK, RequestStates, Operations, OfLists, Unused
<1>2. PICK user \in Users \union {Nobody} :
          user = IF cameras = {} THEN Unused.user ELSE request[r].user
      BY DEF TypeOK, RequestStates, Unused
<1>3. EndOf(r, status, cameras, effect) =
          [Unused EXCEPT !.pc = "ended", !.told = status, !.did = effect, !.given = cameras,
                         !.op = op, !.user = user]
      BY <1>1, <1>2, Zenon DEF EndOf
<1>4. EndOf(r, status, cameras, effect) =
          [pc |-> "ended", op |-> op, user |-> user, cameras |-> {}, listed |-> {},
           creator |-> Nobody, copy |-> NoMetadata, to |-> Nobody, told |-> status,
           given |-> cameras, did |-> effect]
      BY <1>3 DEF Unused
<1>5. NoMetadata \in Metadata /\ "ended" \in Steps
      BY DEF NoMetadata, Metadata, Steps
<1>6. QED
      BY <1>1, <1>2, <1>4, <1>5 DEF RequestStates

MayTell(r, status, cameras, effect) ==
    /\ status \in 400..499 => ~effect
    /\ \/ cameras = {} \/ request[r].op = "createCamera" \/ Role(r) = "admin"
       \/ cameras \subseteq existed[r] \intersect permitted[r]

\* An answer with cameras that the request was permitted is lawful.
LEMMA EndIsSound ==
    ASSUME CameraInvariant, NEW r \in Requests, NEW status \in Statuses \ {0},
           NEW cameras \in SUBSET Cameras, NEW effect \in BOOLEAN,
           End(r, status, cameras, effect), Records(r), MayTell(r, status, cameras, effect)
    PROVE  RequestOK(r)'
<1>1. /\ request'[r].pc = "ended" /\ request'[r].told = status /\ request'[r].did = effect
      /\ request'[r].given = cameras
      /\ cameras # {} => request'[r].op = request[r].op /\ request'[r].user = request[r].user
      BY DEF CameraInvariant, TypeOK, End, Update, Unused
<1>2. FollowsItsWay(r)' /\ DidNothingYet(r)' /\ ReadsTrueMetadata(r)' /\ HasAccess(r)'
      BY <1>1 DEF FollowsItsWay, DidNothingYet, ReadsTrueMetadata, HasAccess, IsServed,
                  WithCamera, Changing, AboutAlerts
<1>3. (request[r].op # "createCamera" => Lawful(r, request[r].given))'
      BY <1>1 DEF MayTell, Lawful, Records, ToldNothing, Role
<1>4. QED
      BY <1>1, <1>2, <1>3 DEF RequestOK, MayTell

-------------------------------------------------------------------------------
\* A step of r leaves the others as they were, if it records what there is.
LEMMA OthersAreUntouched ==
    ASSUME TypeOK, NEW r \in Requests, NEW s, Update(r, s), Observe, overtaken \subseteq overtaken'
    PROVE  \A q \in Requests : q # r => Untouched(q)
<1>1. ASSUME NEW q \in Requests, q # r
      PROVE  request'[q] = request[q]
      BY <1>1 DEF TypeOK, Update
<1>2. QED
      BY <1>1, ObserveRecords DEF Untouched

\* A step that changes no camera and no assignment.
LEMMA QuietStep ==
    ASSUME CameraInvariant, NEW r \in Requests, request[r].pc # "cleaning",
           NEW s \in RequestStates, Update(r, s), s.listed \union s.given \subseteq used,
           s.told # 0 <=> s.pc = "ended", Quietly, RequestOK(r)'
    PROVE  CameraInvariant'
<1> USE DEF Quietly, outside
<1>1. TypeOK
      BY DEF CameraInvariant
<1>2. TypeOK'
  <2>1. RequestsTyped'
        BY <1>1, UpdateIsTyped
  <2>2. existed' \in [Requests -> SUBSET Cameras] /\ permitted' \in [Requests -> SUBSET Cameras]
        BY <1>1, ObserveIsTyped DEF TypeOK
  <2>3. QED
        BY <1>1, <2>1, <2>2 DEF TypeOK, RequestsTyped
<1>3. \A q \in Requests : q # r => Untouched(q)
      BY <1>1, OthersAreUntouched
<1>4. CamerasEvolve
      BY DEF CamerasEvolve
<1>5. OrphansAreExplained'
      BY <1>3 DEF CameraInvariant, OrphansAreExplained, Untouched
<1>6. QED
      BY <1>2, <1>3, <1>4, <1>5, ChangeOfOneRequest

\* A quiet step that ends its request.
LEMMA QuietEnd ==
    ASSUME CameraInvariant, NEW r \in Requests, request[r].pc # "cleaning", Quietly,
           NEW status \in Statuses \ {0}, NEW cameras \in SUBSET used, NEW effect \in BOOLEAN,
           End(r, status, cameras, effect), MayTell(r, status, cameras, effect)
    PROVE  CameraInvariant'
<1>1. TypeOK /\ cameras \in SUBSET Cameras
      BY DEF CameraInvariant, TypeOK
<1>2. PICK s \in RequestStates : s = EndOf(r, status, cameras, effect)
      BY <1>1, EndIsTyped
<1>3. Update(r, s)
      BY <1>2, Zenon DEF End, EndOf
<1>4. s.listed \union s.given \subseteq used /\ (s.told # 0 <=> s.pc = "ended")
      BY <1>2 DEF EndOf, Unused
<1>5. RequestOK(r)'
      BY <1>1, ObserveRecords, EndIsSound DEF Quietly
<1>6. QED
      BY <1>3, <1>4, <1>5, QuietStep

\* Refusals tell of no camera.
LEMMA QuietRefusal ==
    ASSUME CameraInvariant, NEW r \in Requests, request[r].pc # "cleaning", Quietly,
           NEW status \in Statuses \ {0}, Refuse(r, status)
    PROVE  CameraInvariant'
BY QuietEnd DEF Refuse, MayTell

\* A quiet step after which the request goes on.
LEMMA QuietUpdate ==
    ASSUME CameraInvariant, NEW r \in Requests, IsServed(r), request[r].pc # "cleaning", Quietly,
           NEW s \in RequestStates, Update(r, s), s.pc \notin {"unused", "ended", "cleaning"},
           s.op = request[r].op, s.user = request[r].user, s.given = request[r].given,
           s.told = request[r].told, s.did = request[r].did, s.listed \subseteq used,
           FollowsItsWay(r)', ReadsTrueMetadata(r)', HasAccess(r)'
    PROVE  CameraInvariant'
<1>1. TypeOK /\ request'[r] = s
      BY DEF CameraInvariant, TypeOK, Update
<1>2. s.listed \union s.given \subseteq used /\ (s.told # 0 <=> s.pc = "ended")
      BY <1>1 DEF TypeOK, IsServed
<1>3. DidNothingYet(r)'
      BY <1>1 DEF CameraInvariant, DidNothingYet, IsServed
<1>4. Records(r)
      BY <1>1, ObserveRecords DEF Quietly
<1>5. (request[r].op # "createCamera" => Lawful(r, request[r].given))'
      BY <1>1, <1>4 DEF CameraInvariant, AccessWasHeld, Lawful, Records, ToldNothing, Role
<1>6. request'[r].told \in 400..499 => ~request'[r].did
      BY <1>1, <1>2
<1>7. RequestOK(r)'
      BY <1>3, <1>5, <1>6 DEF RequestOK
<1>8. QED
      BY <1>2, <1>7, QuietStep

\* What the invariant says of a request that is being served.
LEMMA WhatIsKnown ==
    ASSUME CameraInvariant, NEW r \in Requests
    PROVE  /\ TypeOK /\ request[r] \in RequestStates
           /\ FollowsItsWay(r) /\ DidNothingYet(r) /\ ReadsTrueMetadata(r) /\ HasAccess(r)
BY DEF CameraInvariant, TypeOK

\* A step to another place in the code, after which nothing else is different.
LEMMA QuietGoto ==
    ASSUME CameraInvariant, NEW r \in Requests, IsServed(r), request[r].pc # "cleaning", Quietly,
           NEW step \in Steps, Goto(r, step), step \notin {"unused", "ended", "cleaning"},
           FollowsItsWay(r)', ReadsTrueMetadata(r)', HasAccess(r)'
    PROVE  CameraInvariant'
<1>1. PICK q \in RequestStates : q = request[r]
      BY WhatIsKnown
<1> DEFINE s == [q EXCEPT !.pc = step]
<1>2. s \in RequestStates
      BY <1>1 DEF RequestStates
<1>3. Update(r, s)
      BY <1>1 DEF Goto
<1>4. /\ s.pc = step /\ s.op = q.op /\ s.user = q.user /\ s.given = q.given
      /\ s.told = q.told /\ s.did = q.did /\ s.listed = q.listed
      BY <1>1 DEF RequestStates
<1>5. q.listed \subseteq used
      BY <1>1, WhatIsKnown DEF TypeOK
<1> HIDE DEF s
<1>6. QED
      BY <1>1, <1>2, <1>3, <1>4, <1>5, QuietUpdate

-------------------------------------------------------------------------------
\* The camera is read: it existed since the request began, and its creator stays.
LEMMA FindCameraIsSound ==
    ASSUME CameraInvariant, NEW r \in Requests, FindCamera(r)
    PROVE  CameraInvariant'
<1>1. PICK c \in Cameras : request[r].cameras = {c} /\ CameraOf(r) = c
      BY WhatIsKnown, CameraOfIsTheCamera DEF FindCamera, FollowsItsWay
<1>2. CASE c \in exists
  <2>1. PICK q \in RequestStates : q = request[r]
        BY WhatIsKnown
  <2> DEFINE s == [q EXCEPT !.pc = "viewing", !.creator = metadata[c].created_by]
  <2>2. metadata[c].created_by \in Users \union {Nobody}
        BY WhatIsKnown DEF TypeOK, Metadata
  <2>3. s \in RequestStates
        BY <2>1, <2>2 DEF RequestStates, Steps
  <2>4. Update(r, s)
        BY <1>1, <1>2, <2>1 DEF FindCamera
  <2>5. /\ s.pc = "viewing" /\ s.op = q.op /\ s.user = q.user /\ s.given = q.given
        /\ s.told = q.told /\ s.did = q.did /\ s.listed = q.listed /\ s.cameras = q.cameras
        /\ s.to = q.to /\ s.creator = metadata[c].created_by
        BY <2>1 DEF RequestStates
  <2> HIDE DEF s
  <2>6. request'[r] = s
        BY <2>4, WhatIsKnown DEF Update, TypeOK
  <2>7. FollowsItsWay(r)'
    <3>1. c \in used'
          BY <1>2, WhatIsKnown DEF TypeOK, FindCamera, Quietly, outside
    <3>2. q.op \in OfCamera /\ q.user \in Users /\ (q.op = "assignCamera" => q.to \in Users)
          BY <2>1, WhatIsKnown DEF FollowsItsWay, IsServed, FindCamera
    <3>3. QED
          BY <1>1, <2>1, <2>5, <2>6, <3>1, <3>2 DEF FollowsItsWay, IsServed, WithCamera, Changing,
                                                    AboutAlerts
  <2>8. ReadsTrueMetadata(r)'
        BY <1>1, <2>1, <2>5, <2>6 DEF ReadsTrueMetadata, FindCamera, Quietly, outside
  <2>9. HasAccess(r)'
        BY <1>1, <1>2, <2>1, <2>5, <2>6, WhatIsKnown, ObserveRecords
           DEF HasAccess, Records, IsServed, ToldNothing, Role, FindCamera, Quietly, outside,
               WithCamera, Changing
  <2>10. QED
        BY <2>1, <2>3, <2>4, <2>5, <2>7, <2>8, <2>9, WhatIsKnown, QuietUpdate
           DEF FindCamera, IsServed, TypeOK
<1>3. CASE c \notin exists
      BY <1>1, <1>3, QuietRefusal DEF FindCamera, Statuses
<1>4. QED
      BY <1>2, <1>3

\* What a check finds is so: the creator was read, and the assignment is looked up now.
LEMMA ChecksAreTrue ==
    ASSUME CameraInvariant, NEW r \in Requests, request[r].pc \in {"viewing", "managing"},
           NEW c \in Cameras, request[r].cameras = {c}, Role(r) # "admin",
           \/ /\ request[r].op \in Viewing
              /\ canViewCamera(Role(r), isCreator(r), isAssigned(r))
           \/ /\ request[r].op \in Managing
              /\ canManageCamera(Role(r), isCreator(r), isAssigned(r))
           \/ /\ request[r].op \in Assigning
              /\ canManageAssignments(Role(r), isCreator(r))
    PROVE  c \in permitted[r]
<1>1. CameraOf(r) = c
      BY CameraOfIsTheCamera
<1>2. isCreator(r) <=> metadata[c].created_by = request[r].user
      BY WhatIsKnown DEF ReadsTrueMetadata, isCreator
<1>3. isAssigned(r) => <<request[r].user, c>> \in assigned
      BY <1>1 DEF isAssigned
<1>4. IsPermitted(request[r].op, request[r].user, c)
      BY <1>2, <1>3 DEF IsPermitted, Permits, Role, canViewCamera, canManageCamera,
                        canManageAssignments, isOperatorOfCamera, Viewing, Managing, Assigning
<1>5. c \in used /\ IsServed(r)
      BY WhatIsKnown DEF FollowsItsWay, WithCamera, IsServed
<1>6. QED
      BY <1>4, <1>5, WhatIsKnown DEF HasAccess, PermittedNow

\* A request goes to the step where it acts, with a camera that it is permitted.
LEMMA GotoActIsSound ==
    ASSUME CameraInvariant, NEW r \in Requests, request[r].pc \in {"viewing", "managing"}, Quietly,
           NEW c \in Cameras, request[r].cameras = {c}, Role(r) = "admin" \/ c \in permitted[r],
           NEW step \in {"deleting", "reading", "acting"}, Goto(r, step)
    PROVE  CameraInvariant'
<1>1. /\ request'[r].pc = step /\ request'[r].op = request[r].op
      /\ request'[r].user = request[r].user /\ request'[r].cameras = {c}
      /\ request'[r].listed = request[r].listed /\ request'[r].to = request[r].to
  <2>1. PICK q \in RequestStates : q = request[r]
        BY WhatIsKnown
  <2>2. request'[r] = [q EXCEPT !.pc = step]
        BY <2>1, WhatIsKnown DEF Goto, Update, TypeOK
  <2>3. QED
        BY <2>1, <2>2 DEF RequestStates
<1>2. FollowsItsWay(r)'
      BY <1>1, WhatIsKnown DEF FollowsItsWay, IsServed, WithCamera, Changing, AboutAlerts,
                               Quietly, outside
<1>3. ReadsTrueMetadata(r)'
      BY <1>1 DEF ReadsTrueMetadata
<1>4. HasAccess(r)'
      BY <1>1, WhatIsKnown, ObserveRecords DEF HasAccess, Records, IsServed, ToldNothing, Role,
                                               Quietly, outside, WithCamera, Changing
<1>5. QED
      BY <1>2, <1>3, <1>4, QuietGoto DEF IsServed, Steps

\* A request answers, once it is checked, with the camera that it is permitted.
LEMMA AnsweredIsSound ==
    ASSUME CameraInvariant, NEW r \in Requests, Quietly,
           request[r].pc \in {"viewing", "managing", "acting", "querying"},
           request[r].cameras \subseteq used,
           Role(r) = "admin" \/ request[r].cameras \subseteq existed[r] \intersect permitted[r],
           NEW effect \in BOOLEAN,
           End(r, 200, request[r].cameras, effect) \/ Answered(r, effect)
    PROVE  CameraInvariant'
<1>1. CASE End(r, 200, request[r].cameras, effect)
      BY <1>1, QuietEnd DEF MayTell, Statuses, Successes
<1>2. CASE effect /\ End(r, 500, {}, effect)
  <2>1. 500 \in Statuses \ {0} /\ {} \in SUBSET used /\ MayTell(r, 500, {}, effect)
        BY DEF MayTell, Statuses
  <2>2. End(r, 500, {}, effect) /\ request[r].pc # "cleaning"
        BY <1>2
  <2>3. QED
        BY <2>1, <2>2, QuietEnd
<1>3. QED
      BY <1>1, <1>2 DEF Answered

\* What follows a check that was passed.
LEMMA ActIsSound ==
    ASSUME CameraInvariant, NEW r \in Requests, request[r].pc \in {"viewing", "managing"}, Quietly,
           NEW c \in Cameras, request[r].cameras = {c}, Role(r) = "admin" \/ c \in permitted[r],
           Act(r)
    PROVE  CameraInvariant'
<1>1. Deletion[1] = "deleting"
      BY DEF Deletion
<1>2. CASE Goto(r, "deleting") \/ Goto(r, "reading") \/ Goto(r, "acting")
      BY <1>2, GotoActIsSound
<1>3. CASE End(r, 200, request[r].cameras, FALSE)
  <2>1. request[r].cameras \subseteq used
        BY WhatIsKnown DEF FollowsItsWay, WithCamera
  <2>2. Role(r) = "admin" \/ request[r].cameras \subseteq existed[r] \intersect permitted[r]
        BY WhatIsKnown DEF HasAccess, WithCamera, IsServed
  <2>3. QED
        BY <1>3, <2>1, <2>2, AnsweredIsSound
<1>4. QED
      BY <1>1, <1>2, <1>3 DEF Act

\* canViewCamera lets through only who may see the camera, or is an admin.
LEMMA CheckViewIsSound ==
    ASSUME CameraInvariant, NEW r \in Requests, CheckView(r)
    PROVE  CameraInvariant'
<1>1. PICK c \in Cameras : request[r].cameras = {c}
      BY WhatIsKnown DEF CheckView, FollowsItsWay, WithCamera
<1>2. request[r].op \in OfCamera
      BY WhatIsKnown DEF CheckView, FollowsItsWay, WithCamera
<1>3. CASE Refuse(r, 404) \/ Refuse(r, 403)
      BY <1>3, QuietRefusal DEF CheckView, Statuses
<1>4. CASE request[r].op \in Managing /\ Goto(r, "managing")
  <2>1. /\ request'[r].pc = "managing" /\ request'[r].op = request[r].op
        /\ request'[r].user = request[r].user /\ request'[r].cameras = {c}
        /\ request'[r].creator = request[r].creator
        /\ request'[r].listed = request[r].listed /\ request'[r].to = request[r].to
    <3>1. PICK q \in RequestStates : q = request[r]
          BY WhatIsKnown
    <3>2. request'[r] = [q EXCEPT !.pc = "managing"]
          BY <1>4, <3>1, WhatIsKnown DEF Goto, Update, TypeOK
    <3>3. QED
          BY <1>1, <3>1, <3>2 DEF RequestStates
  <2>2. FollowsItsWay(r)'
        BY <1>1, <1>4, <2>1, WhatIsKnown DEF FollowsItsWay, IsServed, WithCamera, Changing,
                                             AboutAlerts, CheckView, Quietly, outside
  <2>3. ReadsTrueMetadata(r)'
        BY <1>1, <2>1, WhatIsKnown DEF ReadsTrueMetadata, CheckView, Quietly, outside
  <2>4. HasAccess(r)'
        BY <1>1, <2>1, WhatIsKnown, ObserveRecords DEF HasAccess, Records, IsServed, ToldNothing,
                                                       Role, CheckView, Quietly, outside,
                                                       WithCamera, Changing
  <2>5. QED
        BY <1>4, <2>2, <2>3, <2>4, QuietGoto DEF CheckView, IsServed, Steps
<1>5. CASE /\ canViewCamera(Role(r), isCreator(r), isAssigned(r))
           /\ request[r].op \notin Managing
           /\ request[r].op \in Assigning => canManageAssignments(Role(r), isCreator(r))
           /\ Act(r)
  <2>1. Role(r) = "admin" \/ c \in permitted[r]
        BY <1>1, <1>2, <1>5, ChecksAreTrue DEF CheckView, OfCamera
  <2>2. QED
        BY <1>1, <1>5, <2>1, ActIsSound DEF CheckView
<1>6. QED
      BY <1>3, <1>4, <1>5 DEF CheckView

\* canManageCamera lets through only who may change the camera.
LEMMA CheckManageIsSound ==
    ASSUME CameraInvariant, NEW r \in Requests, CheckManage(r)
    PROVE  CameraInvariant'
<1>1. PICK c \in Cameras : request[r].cameras = {c}
      BY WhatIsKnown DEF CheckManage, FollowsItsWay, WithCamera
<1>2. request[r].op \in Managing
      BY WhatIsKnown DEF CheckManage, FollowsItsWay
<1>3. CASE Refuse(r, 403)
      BY <1>3, QuietRefusal DEF CheckManage, Statuses
<1>4. CASE canManageCamera(Role(r), isCreator(r), isAssigned(r)) /\ Act(r)
  <2>1. Role(r) = "admin" \/ c \in permitted[r]
        BY <1>1, <1>2, <1>4, ChecksAreTrue DEF CheckManage
  <2>2. QED
        BY <1>1, <1>4, <2>1, ActIsSound DEF CheckManage
<1>5. QED
      BY <1>3, <1>4 DEF CheckManage

\* A request that acts has its camera, and was permitted it.
LEMMA WhatAnActorHas ==
    ASSUME CameraInvariant, NEW r \in Requests, request[r].pc \in Changing
    PROVE  /\ \E c \in used : request[r].cameras = {c} /\ CameraOf(r) = c
           /\ request[r].op \in OfCamera
           /\ Role(r) = "admin" \/ request[r].cameras \subseteq existed[r] \intersect permitted[r]
<1>1. PICK c \in Cameras : request[r].cameras = {c} /\ CameraOf(r) = c
      BY WhatIsKnown, CameraOfIsTheCamera DEF FollowsItsWay, WithCamera, Changing
<1>2. c \in used /\ request[r].op \in OfCamera
      BY <1>1, WhatIsKnown DEF FollowsItsWay, WithCamera, Changing
<1>3. Role(r) = "admin" \/ request[r].cameras \subseteq existed[r] \intersect permitted[r]
      BY WhatIsKnown DEF HasAccess, IsServed, WithCamera, Changing
<1>4. QED
      BY <1>1, <1>2, <1>3

\* A source that is no URL is refused before Specter is called.
LEMMA RefuseSourceIsSound ==
    ASSUME CameraInvariant, NEW r \in Requests, RefuseSource(r)
    PROVE  CameraInvariant'
BY QuietRefusal DEF RefuseSource, Statuses

\* Specter does what it is asked only for a camera that still exists, or refuses with no effect.
LEMMA CallSpecterIsSound ==
    ASSUME CameraInvariant, NEW r \in Requests, CallSpecter(r)
    PROVE  CameraInvariant'
<1>1. CASE Refuse(r, 404)
      BY <1>1, QuietRefusal DEF CallSpecter, Statuses
<1>2. CASE Answered(r, request[r].op \in Managing)
  <2> DEFINE effect == request[r].op \in Managing
  <2>1. effect \in BOOLEAN
        OBVIOUS
  <2>2. Answered(r, effect)
        BY <1>2
  <2> HIDE DEF effect
  <2>3. QED
        BY <2>1, <2>2, WhatAnActorHas, AnsweredIsSound DEF CallSpecter, Changing
<1>3. QED
      BY <1>1, <1>2 DEF CallSpecter

\* The assignments of a camera are told to who may assign it.
LEMMA GetAssignmentsIsSound ==
    ASSUME CameraInvariant, NEW r \in Requests, GetAssignments(r)
    PROVE  CameraInvariant'
BY WhatAnActorHas, AnsweredIsSound DEF GetAssignments, Changing

\* The metadata is read, and is the camera's until a later write.
LEMMA ReadMetadataIsSound ==
    ASSUME CameraInvariant, NEW r \in Requests, ReadMetadata(r)
    PROVE  CameraInvariant'
<1>1. PICK c \in used : request[r].cameras = {c} /\ CameraOf(r) = c
      BY WhatAnActorHas DEF ReadMetadata, Changing
<1>2. CASE c \in exists
  <2>1. PICK q \in RequestStates : q = request[r]
        BY WhatIsKnown
  <2> DEFINE s == [q EXCEPT !.pc = "patching", !.copy = metadata[c]]
  <2>2. metadata[c] \in Metadata
        BY WhatIsKnown DEF TypeOK
  <2>3. s \in RequestStates
        BY <2>1, <2>2 DEF RequestStates, Steps
  <2>4. Update(r, s)
        BY <1>1, <1>2, <2>1 DEF ReadMetadata
  <2>5. /\ s.pc = "patching" /\ s.op = q.op /\ s.user = q.user /\ s.given = q.given
        /\ s.told = q.told /\ s.did = q.did /\ s.listed = q.listed /\ s.cameras = q.cameras
        /\ s.to = q.to /\ s.copy = metadata[c]
        BY <2>1 DEF RequestStates
  <2> HIDE DEF s
  <2>6. request'[r] = s
        BY <2>4, WhatIsKnown DEF Update, TypeOK
  <2>7. q.op \in OfCamera /\ q.user \in Users /\ (q.op = "assignCamera" => q.to \in Users)
        BY <2>1, WhatIsKnown DEF FollowsItsWay, IsServed, ReadMetadata, WithCamera, Changing
  <2>8. FollowsItsWay(r)'
        BY <1>1, <2>1, <2>5, <2>6, <2>7, WhatIsKnown DEF FollowsItsWay, IsServed, WithCamera,
                                                         Changing, AboutAlerts, ReadMetadata,
                                                         Quietly, outside, TypeOK
  <2>9. ReadsTrueMetadata(r)'
        BY <1>1, <2>1, <2>5, <2>6 DEF ReadsTrueMetadata, ReadMetadata, Quietly, outside
  <2>10. HasAccess(r)'
        BY <1>1, <2>1, <2>5, <2>6, WhatIsKnown, ObserveRecords
           DEF HasAccess, Records, IsServed, ToldNothing, Role, ReadMetadata, Quietly, outside,
               WithCamera, Changing
  <2>11. QED
        BY <2>1, <2>3, <2>4, <2>5, <2>8, <2>9, <2>10, WhatIsKnown, QuietUpdate
           DEF ReadMetadata, IsServed, TypeOK
<1>3. CASE c \notin exists
      BY <1>1, <1>3, QuietRefusal DEF ReadMetadata, Statuses
<1>4. QED
      BY <1>2, <1>3

-------------------------------------------------------------------------------
\* A list or an alert is looked for in the cameras that exist when they are listed.
LEMMA ListCamerasIsSound ==
    ASSUME CameraInvariant, NEW r \in Requests, ListCameras(r)
    PROVE  CameraInvariant'
<1>1. PICK q \in RequestStates : q = request[r]
      BY WhatIsKnown
<1>2. /\ q.pc = "listing" /\ q.user \in Users /\ q.op \in OfAlert \union OfLists
      /\ q.op \in OfAlert => q.cameras \subseteq used
      /\ q.op \in OfCamera \union OfAlert => \E c \in Cameras : q.cameras = {c}
      BY <1>1, WhatIsKnown DEF ListCameras, FollowsItsWay, IsServed, AboutAlerts
<1>3. CASE Role(r) # "admin" /\ Update(r, [request[r] EXCEPT !.pc = "filtering", !.listed = exists])
  <2> DEFINE s == [q EXCEPT !.pc = "filtering", !.listed = exists]
  <2>1. exists \subseteq used /\ exists \in SUBSET Cameras
        BY WhatIsKnown DEF TypeOK
  <2>2. s \in RequestStates
        BY <1>1, <2>1 DEF RequestStates, Steps
  <2>3. Update(r, s)
        BY <1>1, <1>3
  <2>4. /\ s.pc = "filtering" /\ s.op = q.op /\ s.user = q.user /\ s.given = q.given
        /\ s.told = q.told /\ s.did = q.did /\ s.listed = exists /\ s.cameras = q.cameras
        BY <1>1 DEF RequestStates
  <2> HIDE DEF s
  <2>5. request'[r] = s
        BY <2>3, WhatIsKnown DEF Update, TypeOK
  <2>6. FollowsItsWay(r)'
        BY <1>1, <1>2, <1>3, <2>4, <2>5 DEF FollowsItsWay, IsServed, WithCamera, Changing,
                                            AboutAlerts, ListCameras, Quietly, outside, Role
  <2>7. ReadsTrueMetadata(r)'
        BY <2>4, <2>5 DEF ReadsTrueMetadata
  <2>8. HasAccess(r)'
        BY <1>1, <1>2, <2>4, <2>5, WhatIsKnown, ObserveRecords
           DEF HasAccess, Records, IsServed, ToldNothing, Role, ListCameras, Quietly, outside,
               WithCamera, Changing
  <2>9. QED
        BY <1>1, <1>2, <2>1, <2>2, <2>3, <2>4, <2>6, <2>7, <2>8, QuietUpdate
           DEF ListCameras, IsServed
<1>4. CASE Role(r) = "admin" /\ End(r, 200, exists, FALSE)
  <2>1. exists \in SUBSET used
        BY WhatIsKnown DEF TypeOK
  <2>2. MayTell(r, 200, exists, FALSE) /\ 200 \in Statuses \ {0}
        BY <1>4 DEF MayTell, Statuses, Successes
  <2>3. QED
        BY <1>1, <1>2, <1>4, <2>1, <2>2, QuietEnd DEF ListCameras
<1>5. CASE Role(r) = "admin" /\ Goto(r, "querying")
  <2>1. /\ request'[r].pc = "querying" /\ request'[r].op = q.op /\ request'[r].user = q.user
        /\ request'[r].cameras = q.cameras
    <3>1. request'[r] = [q EXCEPT !.pc = "querying"]
          BY <1>1, <1>5, WhatIsKnown DEF Goto, Update, TypeOK
    <3>2. QED
          BY <1>1, <3>1 DEF RequestStates
  <2>2. FollowsItsWay(r)'
        BY <1>2, <2>1 DEF FollowsItsWay, IsServed, WithCamera, Changing, AboutAlerts, ListCameras,
                          Quietly, outside
  <2>3. ReadsTrueMetadata(r)'
        BY <2>1 DEF ReadsTrueMetadata
  <2>4. HasAccess(r)'
        BY <1>1, <1>5, <2>1 DEF HasAccess, Role
  <2>5. QED
        BY <1>1, <1>2, <2>2, <2>3, <2>4, <1>5, QuietGoto DEF ListCameras, IsServed, Steps
<1>6. QED
      BY <1>3, <1>4, <1>5 DEF ListCameras

\* The alert is of a camera that existed at some time.
LEMMA FindAlertIsSound ==
    ASSUME CameraInvariant, NEW r \in Requests, FindAlert(r)
    PROVE  CameraInvariant'
<1>1. CASE Refuse(r, 404)
  <2>1. request[r].pc = "finding alert" /\ Quietly
        BY Zenon DEF FindAlert
  <2>2. request[r].pc # "cleaning"
        BY <2>1
  <2>3. 404 \in Statuses \ {0}
        BY DEF Statuses
  <2>4. QED
        BY <1>1, <2>1, <2>2, <2>3, QuietRefusal
<1>2. CASE CameraOf(r) \in used /\ Goto(r, IF Role(r) = "admin" THEN "querying" ELSE "listing")
  <2>1. PICK q \in RequestStates : q = request[r]
        BY WhatIsKnown
  <2>2. PICK step \in {"querying", "listing"} :
            step = IF Role(r) = "admin" THEN "querying" ELSE "listing"
        OBVIOUS
  <2>3. Goto(r, step)
        BY <1>2, <2>2, Zenon
  <2>4. /\ q.pc = "finding alert" /\ q.user \in Users /\ q.op \in OfAlert
        /\ \E c \in Cameras : q.cameras = {c} /\ c \in used
    <3>1. PICK c \in Cameras : q.cameras = {c}
          BY <2>1, WhatIsKnown DEF FindAlert, FollowsItsWay, AboutAlerts
    <3>2. CameraOf(r) = c
          BY <2>1, <3>1, CameraOfIsTheCamera
    <3>3. QED
          BY <1>2, <2>1, <3>1, <3>2, WhatIsKnown DEF FindAlert, FollowsItsWay, IsServed
  <2>5. /\ request'[r].pc = step /\ request'[r].op = q.op /\ request'[r].user = q.user
        /\ request'[r].cameras = q.cameras /\ request'[r].listed = q.listed
    <3>1. request'[r] = [q EXCEPT !.pc = step]
          BY <2>1, <2>3, WhatIsKnown DEF Goto, Update, TypeOK
    <3>2. QED
          BY <2>1, <3>1 DEF RequestStates
  <2>6. FollowsItsWay(r)'
        BY <2>4, <2>5 DEF FollowsItsWay, IsServed, WithCamera, Changing, AboutAlerts, FindAlert,
                          Quietly, outside
  <2>7. ReadsTrueMetadata(r)'
        BY <2>5 DEF ReadsTrueMetadata
  <2>8. HasAccess(r)'
        BY <2>1, <2>2, <2>4, <2>5, WhatIsKnown, ObserveRecords
           DEF HasAccess, Records, IsServed, ToldNothing, Role, FindAlert, Quietly, outside,
               WithCamera, Changing
  <2>9. QED
        BY <2>1, <2>3, <2>4, <2>6, <2>7, <2>8, QuietGoto DEF FindAlert, IsServed, Steps
<1>3. QED
      BY <1>1, <1>2 DEF FindAlert

\* What a user who is not an admin may see of the cameras listed is permitted, and existed.
LEMMA AccessibleIsPermitted ==
    ASSUME CameraInvariant, NEW r \in Requests, IsServed(r), Role(r) # "admin",
           request[r].op \in OfAlert \union OfLists
    PROVE  Accessible(r) \subseteq used \intersect existed[r] \intersect permitted[r]
<1>1. /\ request[r].listed \subseteq used \intersect existed[r]
      /\ PermittedNow(r) \subseteq permitted[r]
      BY WhatIsKnown DEF TypeOK, HasAccess
<1>2. ASSUME NEW c \in Accessible(r)
      PROVE  IsPermitted(request[r].op, request[r].user, c)
  <2>1. IsPermitted("getCameras", request[r].user, c)
        BY <1>2 DEF Accessible
  <2>2. QED
        BY <2>1 DEF IsPermitted, Permits, OfAlert, OfLists, Managing, Assigning
<1>3. QED
      BY <1>1, <1>2 DEF Accessible, PermittedNow

\* A request without cameras of its own is restricted to what its user may see.
LEMMA FilterCamerasIsSound ==
    ASSUME CameraInvariant, NEW r \in Requests, FilterCameras(r)
    PROVE  CameraInvariant'
<1>1. PICK q \in RequestStates : q = request[r]
      BY WhatIsKnown
<1>2. /\ q.pc = "filtering" /\ q.user \in Users /\ q.op \in OfAlert \union OfLists
      /\ q.op \in OfAlert => q.cameras \subseteq used
      /\ q.op \in OfCamera \union OfAlert => \E c \in Cameras : q.cameras = {c}
      BY <1>1, WhatIsKnown DEF FilterCameras, FollowsItsWay, IsServed, AboutAlerts
<1>3. /\ Role(r) # "admin"
      /\ Accessible(r) \subseteq used \intersect existed[r] \intersect permitted[r]
      BY <1>1, <1>2, WhatIsKnown, AccessibleIsPermitted DEF IsServed, FollowsItsWay
<1>4. CASE End(r, 200, Accessible(r), FALSE) \/ End(r, 200, {}, FALSE)
  <2>1. /\ MayTell(r, 200, Accessible(r), FALSE) /\ MayTell(r, 200, {}, FALSE)
        /\ 200 \in Statuses \ {0}
        BY <1>3 DEF MayTell, Statuses, Successes
  <2>2. Accessible(r) \in SUBSET used /\ {} \in SUBSET used
        BY <1>3
  <2>3. QED
        BY <1>1, <1>2, <1>4, <2>1, <2>2, QuietEnd DEF FilterCameras
<1>5. CASE Refuse(r, 404)
      BY <1>1, <1>2, <1>5, QuietRefusal DEF FilterCameras, Statuses
<1>6. CASE q.op \in OfAlert /\ CameraOf(r) \in Accessible(r) /\ Goto(r, "querying")
  <2>1. PICK c \in Cameras : q.cameras = {c} /\ c \in Accessible(r)
        BY <1>1, <1>2, <1>6, CameraOfIsTheCamera
  <2>2. /\ request'[r].pc = "querying" /\ request'[r].op = q.op /\ request'[r].user = q.user
        /\ request'[r].cameras = q.cameras /\ request'[r].listed = q.listed
    <3>1. request'[r] = [q EXCEPT !.pc = "querying"]
          BY <1>1, <1>6, WhatIsKnown DEF Goto, Update, TypeOK
    <3>2. QED
          BY <1>1, <3>1 DEF RequestStates
  <2>3. FollowsItsWay(r)'
        BY <1>2, <2>2 DEF FollowsItsWay, IsServed, WithCamera, Changing, AboutAlerts,
                          FilterCameras, Quietly, outside
  <2>4. ReadsTrueMetadata(r)'
        BY <2>2 DEF ReadsTrueMetadata
  <2>5. HasAccess(r)'
        BY <1>1, <1>2, <1>3, <2>1, <2>2, WhatIsKnown, ObserveRecords
           DEF HasAccess, Records, IsServed, ToldNothing, Role, FilterCameras, Quietly, outside,
               WithCamera, Changing
  <2>6. QED
        BY <1>1, <1>2, <1>6, <2>3, <2>4, <2>5, QuietGoto DEF FilterCameras, IsServed, Steps
<1>7. CASE /\ q.op \notin OfAlert /\ AsksSpecter(Restricted(r))
           /\ Update(r, [request[r] EXCEPT !.pc = "querying", !.cameras = Restricted(r),
                                            !.listed = {}])
  <2> DEFINE s == [q EXCEPT !.pc = "querying", !.cameras = Restricted(r), !.listed = {}]
  <2>1. Restricted(r) \subseteq Accessible(r) /\ Restricted(r) # {}
        BY <1>7 DEF Restricted, AsksSpecter
  <2>2. Restricted(r) \in SUBSET Cameras
        BY <1>3, <2>1, WhatIsKnown DEF TypeOK
  <2>3. s \in RequestStates
        BY <1>1, <2>2 DEF RequestStates, Steps
  <2>4. Update(r, s)
        BY <1>1, <1>7
  <2>5. /\ s.pc = "querying" /\ s.op = q.op /\ s.user = q.user /\ s.given = q.given
        /\ s.told = q.told /\ s.did = q.did /\ s.listed = {} /\ s.cameras = Restricted(r)
        BY <1>1 DEF RequestStates
  <2> HIDE DEF s
  <2>6. request'[r] = s
        BY <2>4, WhatIsKnown DEF Update, TypeOK
  <2>7. q.op \notin OfCamera \union OfAlert
        BY <1>2, <1>7 DEF OfCamera, OfLists, Viewing, Managing, Assigning
  <2>8. FollowsItsWay(r)'
        BY <1>2, <1>7, <2>5, <2>6, <2>7 DEF FollowsItsWay, IsServed, WithCamera, Changing,
                                            AboutAlerts
  <2>9. ReadsTrueMetadata(r)'
        BY <2>5, <2>6 DEF ReadsTrueMetadata
  <2>10. HasAccess(r)'
        BY <1>1, <1>2, <1>3, <2>1, <2>5, <2>6, WhatIsKnown, ObserveRecords
           DEF HasAccess, Records, IsServed, ToldNothing, Role, FilterCameras, Quietly, outside,
               WithCamera, Changing
  <2>11. QED
        BY <1>1, <1>2, <2>3, <2>4, <2>5, <2>8, <2>9, <2>10, QuietUpdate
           DEF FilterCameras, IsServed
<1>8. QED
      BY <1>1, <1>4, <1>5, <1>6, <1>7 DEF FilterCameras

\* The alerts asked for are of cameras that the user may see; only an admin asks for all.
LEMMA QueryIsSound ==
    ASSUME CameraInvariant, NEW r \in Requests, Query(r)
    PROVE  CameraInvariant'
<1>1. request[r].pc = "querying" /\ request[r].op \in OfAlert \union OfLists
      BY WhatIsKnown DEF Query, FollowsItsWay, AboutAlerts
<1>2. \/ Role(r) = "admin"
      \/ /\ request[r].cameras \subseteq existed[r] \intersect permitted[r]
         /\ request[r].cameras # {}
      BY <1>1, WhatIsKnown DEF HasAccess, IsServed
<1>3. CASE /\ request[r].op \in OfAlert
           /\ Answered(r, request[r].op \in {"acknowledgeAlert", "resolveAlert"})
  <2> DEFINE effect == request[r].op \in {"acknowledgeAlert", "resolveAlert"}
  <2>1. effect \in BOOLEAN
        OBVIOUS
  <2>2. Answered(r, effect)
        BY <1>3
  <2> HIDE DEF effect
  <2>3. request[r].cameras \subseteq used
        BY <1>1, <1>3, WhatIsKnown DEF FollowsItsWay, AboutAlerts
  <2>4. QED
        BY <1>1, <1>2, <2>1, <2>2, <2>3, AnsweredIsSound DEF Query
<1>4. CASE request[r].op \notin OfAlert
  <2> DEFINE given == IF request[r].cameras = {} THEN used ELSE request[r].cameras \intersect used
  <2>1. given \in SUBSET used /\ 200 \in Statuses \ {0} /\ MayTell(r, 200, given, FALSE)
        BY <1>2 DEF MayTell, Statuses, Successes
  <2>2. End(r, 200, given, FALSE) /\ Quietly
        BY <1>4 DEF Query
  <2> HIDE DEF given
  <2>3. QED
        BY <1>1, <2>1, <2>2, QuietEnd
<1>5. QED
      BY <1>3, <1>4 DEF Query

-------------------------------------------------------------------------------
\* What a step may do to the cameras and the assignments, and keep their types.
WellTyped ==
    /\ exists \subseteq used /\ used \subseteq Cameras
    /\ metadata \in [Cameras -> Metadata]
    /\ assigned \subseteq Users \X used
    /\ changes \in 0..MaxChanges /\ begun \in 0..MaxRequests
    /\ overtaken \subseteq Requests /\ orphaned \subseteq Cameras

\* A step of a request that changes cameras or assignments.
LEMMA ActiveStep ==
    ASSUME CameraInvariant, Observe, NEW r \in Requests, NEW s \in RequestStates, Update(r, s),
           s.listed \union s.given \subseteq used', s.told # 0 <=> s.pc = "ended", RequestOK(r)',
           WellTyped', CamerasEvolve, overtaken \subseteq overtaken', OrphansAreExplained'
    PROVE  CameraInvariant'
<1>1. TypeOK
      BY DEF CameraInvariant
<1>2. RequestsTyped'
      BY <1>1, UpdateIsTyped DEF CamerasEvolve
<1>3. existed' \in [Requests -> SUBSET Cameras] /\ permitted' \in [Requests -> SUBSET Cameras]
      BY <1>1, ObserveIsTyped DEF WellTyped
<1>4. TypeOK'
      BY <1>2, <1>3 DEF TypeOK, RequestsTyped, WellTyped
<1>5. \A q \in Requests : q # r => Untouched(q)
      BY <1>1, OthersAreUntouched
<1>6. QED
      BY <1>4, <1>5, ChangeOfOneRequest

\* A step that ends its request.
LEMMA ActiveEnd ==
    ASSUME CameraInvariant, Observe, NEW r \in Requests, NEW status \in Statuses \ {0},
           NEW cameras \in SUBSET used', NEW effect \in BOOLEAN,
           End(r, status, cameras, effect), MayTell(r, status, cameras, effect),
           WellTyped', CamerasEvolve, overtaken \subseteq overtaken', OrphansAreExplained'
    PROVE  CameraInvariant'
<1>1. TypeOK /\ cameras \in SUBSET Cameras
      BY DEF CameraInvariant, WellTyped
<1>2. PICK s \in RequestStates : s = EndOf(r, status, cameras, effect)
      BY <1>1, EndIsTyped
<1>3. Update(r, s)
      BY <1>2, Zenon DEF End, EndOf
<1>4. s.listed \union s.given \subseteq used' /\ (s.told # 0 <=> s.pc = "ended")
      BY <1>2 DEF EndOf, Unused
<1>5. RequestOK(r)'
      BY <1>1, ObserveRecords, EndIsSound
<1>6. QED
      BY <1>3, <1>4, <1>5, ActiveStep

\* A request's answer, with the camera that it acts on.
LEMMA ActiveAnswer ==
    ASSUME CameraInvariant, Observe, NEW r \in Requests, request[r].pc \in Changing,
           Answered(r, TRUE) \/ End(r, 200, request[r].cameras, TRUE) \/ End(r, 500, {}, TRUE),
           WellTyped', CamerasEvolve, overtaken \subseteq overtaken', OrphansAreExplained'
    PROVE  CameraInvariant'
<1>1. /\ request[r].cameras \subseteq used' /\ request[r].cameras \in SUBSET Cameras
      /\ MayTell(r, 200, request[r].cameras, TRUE)
  <2>1. request[r].cameras \subseteq used
        BY WhatAnActorHas
  <2>2. Role(r) = "admin" \/ request[r].cameras \subseteq existed[r] \intersect permitted[r]
        BY WhatAnActorHas
  <2>3. QED
        BY <2>1, <2>2, WhatIsKnown DEF CamerasEvolve, TypeOK, MayTell
<1>2. MayTell(r, 500, {}, TRUE) /\ 200 \in Statuses \ {0} /\ 500 \in Statuses \ {0}
      BY DEF MayTell, Statuses, Successes
<1>3. PICK status \in Statuses \ {0}, cameras \in SUBSET used', effect \in BOOLEAN :
          End(r, status, cameras, effect) /\ MayTell(r, status, cameras, effect)
  <2>1. CASE End(r, 200, request[r].cameras, TRUE)
    <3> 200 \in Statuses \ {0} /\ request[r].cameras \in SUBSET used' /\ TRUE \in BOOLEAN
        BY <1>1, <1>2
    <3>1. WITNESS 200 \in Statuses \ {0}, request[r].cameras \in SUBSET used', TRUE \in BOOLEAN
    <3>2. QED
          BY <1>1, <2>1
  <2>2. CASE End(r, 500, {}, TRUE)
        BY <1>2, <2>2
  <2>3. QED
        BY <2>1, <2>2 DEF Answered
<1>4. QED
      BY <1>3, ActiveEnd

\* The other requests stay where they are.
LEMMA OthersStay ==
    ASSUME CameraInvariant, NEW r \in Requests, NEW s, Update(r, s)
    PROVE  \A q \in Requests : q # r => request'[q] = request[q]
BY WhatIsKnown DEF TypeOK, Update

\* A refusal and the end of a deletion whose rows stay behind.
LEMMA FailIsSound ==
    ASSUME CameraInvariant, NEW r \in Requests, Fail(r)
    PROVE  CameraInvariant'
<1>1. CASE request[r].pc # "cleaning"
  <2>1. Refuse(r, 500) /\ Quietly
        BY <1>1 DEF Fail, Quietly
  <2>2. QED
        BY <1>1, <2>1, QuietRefusal DEF Statuses
<1>2. CASE request[r].pc = "cleaning"
  <2>1. End(r, 200, request[r].cameras, TRUE) /\ orphaned' = orphaned \union request[r].cameras
        BY <1>2 DEF Fail
  <2>2. WellTyped' /\ CamerasEvolve
        BY <2>1, WhatIsKnown DEF Fail, outside, TypeOK, WellTyped, CamerasEvolve, RequestStates
  <2>3. \A q \in Requests : q # r => request'[q] = request[q]
        BY <2>1, OthersStay DEF End
  <2>4. OrphansAreExplained'
        BY <2>1, <2>3 DEF CameraInvariant, OrphansAreExplained, Fail, outside
  <2>5. QED
        BY <1>2, <2>1, <2>2, <2>4, ActiveAnswer DEF Fail, Changing
<1>3. QED
      BY <1>1, <1>2

\* A camera that is created is new: it has no metadata that a request has read, and no rows.
LEMMA CreateCameraIsSound ==
    ASSUME CameraInvariant, NEW r \in Requests, NEW c \in Cameras, CreateCamera(r, c)
    PROVE  CameraInvariant'
<1>1. request[r].op = "createCamera" /\ request[r].user \in Users
      BY WhatIsKnown DEF CreateCamera, FollowsItsWay, IsServed
<1>2. metadata[c] \in Metadata
      BY WhatIsKnown DEF TypeOK
<1>3. [metadata[c] EXCEPT !.created_by = request[r].user] \in Metadata
      BY <1>1, <1>2 DEF Metadata
<1>4. metadata' \in [Cameras -> Metadata] /\ \A d \in Cameras : d # c => metadata'[d] = metadata[d]
      BY <1>3, WhatIsKnown DEF CreateCamera, TypeOK
<1>5. WellTyped'
      BY <1>4, WhatIsKnown DEF CreateCamera, TypeOK, WellTyped
<1>6. CamerasEvolve
  <2>1. used \subseteq Cameras /\ used' = used \union {c} /\ c \notin used
        BY WhatIsKnown DEF CreateCamera, TypeOK
  <2>2. \A q \in Requests : request[q].pc = "patching" => request[q].cameras \subseteq used
        BY WhatIsKnown DEF FollowsItsWay, WithCamera, Changing
  <2>3. QED
        BY <1>4, <2>1, <2>2 DEF CamerasEvolve
<1>7. PICK s : Update(r, s)
      BY DEF CreateCamera, End
<1>8. \A q \in Requests : q # r => request'[q] = request[q]
      BY <1>7, OthersStay
<1>9. OrphansAreExplained'
      BY <1>8 DEF CameraInvariant, OrphansAreExplained, CreateCamera
<1>10. CASE End(r, 201, {c}, TRUE)
  <2>1. {c} \subseteq used' /\ {c} \in SUBSET Cameras
        BY DEF CreateCamera
  <2>2. MayTell(r, 201, {c}, TRUE) /\ 201 \in Statuses \ {0}
        BY <1>1 DEF MayTell, Statuses, Successes
  <2>3. QED
        BY <1>5, <1>6, <1>9, <1>10, <2>1, <2>2, ActiveEnd DEF CreateCamera
<1>11. CASE End(r, 500, {}, TRUE)
  <2>1. {} \subseteq used' /\ {} \in SUBSET Cameras
        OBVIOUS
  <2>2. MayTell(r, 500, {}, TRUE) /\ 500 \in Statuses \ {0}
        BY DEF MayTell, Statuses
  <2>3. QED
        BY <1>5, <1>6, <1>9, <1>11, <2>1, <2>2, ActiveEnd DEF CreateCamera
<1>12. QED
      BY <1>10, <1>11 DEF CreateCamera

\* The metadata written back has its creator, whatever else is outdated in it; the copies of other
\* requests that differ from it are outdated now.
LEMMA PatchMetadataIsSound ==
    ASSUME CameraInvariant, NEW r \in Requests, PatchMetadata(r)
    PROVE  CameraInvariant'
<1>1. PICK c \in used : request[r].cameras = {c} /\ CameraOf(r) = c
      BY WhatAnActorHas DEF PatchMetadata, Changing
<1>2. CASE c \in exists
  <2>1. /\ metadata' = [metadata EXCEPT ![c] = request[r].copy]
        /\ overtaken' = overtaken \union Outdated(c)
        /\ Answered(r, TRUE)
        BY <1>1, <1>2 DEF PatchMetadata, WithLocation
  <2>2. request[r].copy \in Metadata /\ request[r].copy.created_by = metadata[c].created_by
        BY <1>1, WhatIsKnown DEF PatchMetadata, ReadsTrueMetadata, RequestStates
  <2>3. /\ metadata' \in [Cameras -> Metadata] /\ metadata'[c] = request[r].copy
        /\ \A d \in Cameras : d # c => metadata'[d] = metadata[d]
        BY <2>1, <2>2, WhatIsKnown DEF TypeOK
  <2>4. WellTyped'
        BY <2>1, <2>3, WhatIsKnown DEF PatchMetadata, TypeOK, WellTyped, Outdated
  <2>5. CamerasEvolve
        BY <2>1, <2>2, <2>3, WhatIsKnown DEF PatchMetadata, TypeOK, CamerasEvolve, Outdated,
                                             RequestStates
  <2>6. PICK s : Update(r, s)
        BY <2>1 DEF Answered, End
  <2>7. \A q \in Requests : q # r => request'[q] = request[q]
        BY <2>6, OthersStay
  <2>8. OrphansAreExplained'
        BY <2>7 DEF CameraInvariant, OrphansAreExplained, PatchMetadata
  <2>9. QED
        BY <2>1, <2>4, <2>5, <2>8, ActiveAnswer DEF PatchMetadata, Changing
<1>3. CASE c \notin exists
      BY <1>1, <1>3, QuietRefusal DEF PatchMetadata, Statuses, Quietly, outside
<1>4. QED
      BY <1>2, <1>3

\* A deletion: the rows of the camera are still to be removed, or are left behind.
LEMMA DeleteCameraIsSound ==
    ASSUME CameraInvariant, NEW r \in Requests, DeleteCamera(r)
    PROVE  CameraInvariant'
<1>1. PICK c \in used : request[r].cameras = {c} /\ CameraOf(r) = c
      BY WhatAnActorHas DEF DeleteCamera, Changing
<1>2. WellTyped' /\ CamerasEvolve
      BY WhatIsKnown DEF DeleteCamera, TypeOK, WellTyped, CamerasEvolve, RequestStates
<1>3. CASE c \in exists /\ DeletionGoesOn(r, "deleting") /\ UNCHANGED orphaned
  <2>1. PICK q \in RequestStates : q = request[r]
        BY WhatIsKnown
  <2> DEFINE s == [q EXCEPT !.pc = "cleaning", !.did = TRUE]
  <2>2. s \in RequestStates
        BY <2>1 DEF RequestStates, Steps
  <2>3. Update(r, s)
        BY <1>3, <2>1 DEF DeletionGoesOn, Deletion
  <2>4. /\ s.pc = "cleaning" /\ s.op = q.op /\ s.user = q.user /\ s.given = q.given
        /\ s.told = q.told /\ s.listed = q.listed /\ s.cameras = q.cameras /\ s.to = q.to
        BY <2>1 DEF RequestStates
  <2> HIDE DEF s
  <2>5. request'[r] = s
        BY <2>3, WhatIsKnown DEF Update, TypeOK
  <2>6. /\ q.pc = "deleting" /\ q.op \in OfCamera /\ q.user \in Users
        /\ q.op = "assignCamera" => q.to \in Users
        /\ q.listed \union q.given \subseteq used /\ q.told = 0
        BY <2>1, WhatIsKnown DEF FollowsItsWay, IsServed, DeleteCamera, WithCamera, Changing,
                                 TypeOK
  <2>7. FollowsItsWay(r)'
    <3>1. c \in used' /\ c \in Cameras
          BY <1>1, <1>2 DEF WellTyped, CamerasEvolve
    <3>2. QED
          BY <1>1, <2>1, <2>4, <2>5, <2>6, <3>1 DEF FollowsItsWay, IsServed, WithCamera, Changing,
                                                    AboutAlerts
  <2>8. DidNothingYet(r)' /\ ReadsTrueMetadata(r)'
        BY <2>4, <2>5 DEF DidNothingYet, ReadsTrueMetadata
  <2>9. HasAccess(r)'
        BY <2>1, <2>4, <2>5, <2>6, WhatIsKnown, ObserveRecords
           DEF HasAccess, Records, IsServed, ToldNothing, Role, DeleteCamera, WithCamera, Changing
  <2>10. (request[r].op # "createCamera" => Lawful(r, request[r].given))'
        BY <2>1, <2>4, <2>5, WhatIsKnown, ObserveRecords
           DEF CameraInvariant, AccessWasHeld, Lawful, Records, ToldNothing, Role, DeleteCamera
  <2>11. RequestOK(r)'
        BY <2>4, <2>5, <2>6, <2>7, <2>8, <2>9, <2>10 DEF RequestOK
  <2>12. \A p \in Requests : p # r => request'[p] = request[p]
        BY <2>3, OthersStay
  <2>13. OrphansAreExplained'
        BY <1>1, <1>3, <2>1, <2>4, <2>5, <2>12 DEF CameraInvariant, OrphansAreExplained,
                                                   DeleteCamera
  <2>14. s.listed \union s.given \subseteq used' /\ (s.told # 0 <=> s.pc = "ended")
        BY <2>4, <2>6 DEF DeleteCamera
  <2>15. QED
        BY <1>2, <2>2, <2>3, <2>11, <2>13, <2>14, ActiveStep DEF DeleteCamera
<1>4. CASE c \in exists /\ End(r, 500, {}, TRUE) /\ orphaned' = orphaned \union request[r].cameras
  <2>1. \A q \in Requests : q # r => request'[q] = request[q]
        BY <1>4, OthersStay DEF End
  <2>2. OrphansAreExplained'
        BY <1>1, <1>4, <2>1 DEF CameraInvariant, OrphansAreExplained, DeleteCamera
  <2>3. QED
        BY <1>2, <1>4, <2>2, ActiveAnswer DEF DeleteCamera, Changing
<1>5. CASE c \notin exists
  <2>1. Refuse(r, 404) /\ Quietly
    <3>1. End(r, 404, {}, request[r].did) /\ ~request[r].did
          BY <1>1, <1>5, WhatIsKnown DEF DeleteCamera, DidNothingYet
    <3>2. request[r].did = FALSE
          BY <3>1, WhatIsKnown DEF RequestStates
    <3>3. End(r, 404, {}, FALSE)
          BY <3>1, <3>2, Zenon
    <3>4. QED
          BY <1>1, <1>5, <3>3 DEF DeleteCamera, Refuse, Quietly, outside
  <2>2. QED
        BY <2>1, QuietRefusal DEF DeleteCamera, Statuses
<1>6. QED
      BY <1>1, <1>3, <1>4, <1>5 DEF DeleteCamera

\* The end of a deletion: no row of the camera is left.
LEMMA RemoveAllForCameraIsSound ==
    ASSUME CameraInvariant, NEW r \in Requests, RemoveAllForCamera(r)
    PROVE  CameraInvariant'
<1>1. End(r, 200, request[r].cameras, TRUE)
      BY DEF RemoveAllForCamera, DeletionGoesOn, Deletion
<1>2. WellTyped' /\ CamerasEvolve
      BY WhatIsKnown DEF RemoveAllForCamera, TypeOK, WellTyped, CamerasEvolve
<1>3. \A q \in Requests : q # r => request'[q] = request[q]
      BY <1>1, OthersStay DEF End
<1>4. OrphansAreExplained'
      BY <1>3 DEF CameraInvariant, OrphansAreExplained, RemoveAllForCamera, RowsOfCamera
<1>5. QED
      BY <1>1, <1>2, <1>4, ActiveAnswer DEF RemoveAllForCamera, Changing

\* An assignment of a camera that is gone by now is one that nothing removes.
LEMMA AssignCameraIsSound ==
    ASSUME CameraInvariant, NEW r \in Requests, AssignCamera(r)
    PROVE  CameraInvariant'
<1>1. PICK c \in used : request[r].cameras = {c} /\ CameraOf(r) = c
      BY WhatAnActorHas DEF AssignCamera, Changing
<1>2. CASE <<request[r].to, c>> \in assigned
      BY <1>1, <1>2, QuietRefusal DEF AssignCamera, Statuses, Quietly, outside
<1>3. CASE <<request[r].to, c>> \notin assigned
  <2>1. /\ assigned' = assigned \union {<<request[r].to, c>>}
        /\ orphaned' = IF c \in exists THEN orphaned ELSE orphaned \union {c}
        /\ Answered(r, TRUE)
        BY <1>1, <1>3 DEF AssignCamera
  <2>2. request[r].to \in Users
        BY WhatIsKnown DEF AssignCamera, FollowsItsWay, WithCamera, Changing
  <2>3. WellTyped' /\ CamerasEvolve
        BY <1>1, <2>1, <2>2, WhatIsKnown DEF AssignCamera, TypeOK, WellTyped, CamerasEvolve
  <2>4. PICK s : Update(r, s)
        BY <2>1 DEF Answered, End
  <2>5. \A q \in Requests : q # r => request'[q] = request[q]
        BY <2>4, OthersStay
  <2>6. OrphansAreExplained'
        BY <1>1, <2>1, <2>5 DEF CameraInvariant, OrphansAreExplained, AssignCamera
  <2>7. QED
        BY <2>1, <2>3, <2>6, ActiveAnswer DEF AssignCamera, Changing
<1>4. QED
      BY <1>2, <1>3

\* A row that is removed leaves no other one unexplained.
LEMMA RemoveAssignmentIsSound ==
    ASSUME CameraInvariant, NEW r \in Requests, RemoveAssignment(r)
    PROVE  CameraInvariant'
<1>1. WellTyped' /\ CamerasEvolve
      BY WhatIsKnown DEF RemoveAssignment, TypeOK, WellTyped, CamerasEvolve
<1>2. PICK s : Update(r, s)
      BY DEF RemoveAssignment, Answered, End
<1>3. \A q \in Requests : q # r => request'[q] = request[q]
      BY <1>2, OthersStay
<1>4. OrphansAreExplained'
      BY <1>3 DEF CameraInvariant, OrphansAreExplained, RemoveAssignment
<1>5. QED
      BY <1>1, <1>4, ActiveAnswer DEF RemoveAssignment, Changing

-------------------------------------------------------------------------------
\* A step of another application.
LEMMA StepElsewhere ==
    ASSUME CameraInvariant, Elsewhere, WellTyped', CamerasEvolve, overtaken \subseteq overtaken',
           OrphansAreExplained'
    PROVE  CameraInvariant'
<1>1. TypeOK /\ Observe /\ request' = request
      BY DEF CameraInvariant, Elsewhere
<1>2. \A r \in Requests : Untouched(r)
      BY <1>1, ObserveRecords DEF Untouched
<1>3. existed' \in [Requests -> SUBSET Cameras] /\ permitted' \in [Requests -> SUBSET Cameras]
      BY <1>1, ObserveIsTyped DEF WellTyped
<1>4. TypeOK'
      BY <1>1, <1>3 DEF TypeOK, WellTyped, CamerasEvolve
<1>5. \A r \in Requests : RequestOK(r)'
      BY <1>2, UntouchedIsSound
<1>6. QED
      BY <1>4, <1>5 DEF CameraInvariant, RequestOK, AccessWasHeld, RefusalsChangeNothing

\* Other applications create, delete and change cameras; no request is touched.
LEMMA OthersAreSound ==
    ASSUME CameraInvariant, OthersStep
    PROVE  CameraInvariant'
<1>1. TypeOK
      BY DEF CameraInvariant
<1>2. ASSUME NEW c \in Cameras, CreateElsewhere(c)
      PROVE  CameraInvariant'
  <2>1. WellTyped' /\ CamerasEvolve
        BY <1>1, <1>2 DEF CreateElsewhere, Elsewhere, TypeOK, WellTyped, CamerasEvolve
  <2>2. OrphansAreExplained'
        BY <1>2 DEF CameraInvariant, OrphansAreExplained, CreateElsewhere, Elsewhere
  <2>3. QED
        BY <1>2, <2>1, <2>2, StepElsewhere DEF CreateElsewhere
<1>3. ASSUME NEW c \in Cameras, DeleteElsewhere(c)
      PROVE  CameraInvariant'
  <2>1. WellTyped' /\ CamerasEvolve
        BY <1>1, <1>3 DEF DeleteElsewhere, Elsewhere, TypeOK, WellTyped, CamerasEvolve
  <2>2. OrphansAreExplained'
        BY <1>3 DEF CameraInvariant, OrphansAreExplained, DeleteElsewhere, Elsewhere
  <2>3. QED
        BY <1>3, <2>1, <2>2, StepElsewhere DEF DeleteElsewhere
<1>4. ASSUME NEW c \in Cameras, ChangeElsewhere(c)
      PROVE  CameraInvariant'
  <2>1. PICK m \in Metadata : m = metadata[c]
        BY <1>1, <1>4 DEF TypeOK
  <2>2. /\ [m EXCEPT !.others = @ + 1] \in Metadata
        /\ [m EXCEPT !.others = @ + 1].created_by = m.created_by
        BY <2>1 DEF Metadata
  <2>3. metadata' = [metadata EXCEPT ![c] = [m EXCEPT !.others = @ + 1]]
        BY <1>4, <2>1 DEF ChangeElsewhere
  <2>4. /\ metadata' \in [Cameras -> Metadata] /\ metadata'[c].created_by = metadata[c].created_by
        /\ \A d \in Cameras : d # c => metadata'[d] = metadata[d]
        BY <1>1, <1>4, <2>1, <2>2, <2>3 DEF TypeOK
  <2>5. WellTyped'
        BY <1>1, <1>4, <2>4 DEF ChangeElsewhere, Elsewhere, TypeOK, WellTyped, Outdated
  <2>6. CamerasEvolve
        BY <1>1, <1>4, <2>4 DEF ChangeElsewhere, TypeOK, CamerasEvolve, Outdated, RequestStates
  <2>7. OrphansAreExplained'
        BY <1>4 DEF CameraInvariant, OrphansAreExplained, ChangeElsewhere, Elsewhere
  <2>8. QED
        BY <1>4, <2>5, <2>6, <2>7, StepElsewhere DEF ChangeElsewhere
<1>5. QED
      BY <1>2, <1>3, <1>4 DEF OthersStep

\* The state of a request that has not begun is typed.
LEMMA UnusedIsTyped == Unused \in RequestStates
<1>1. NoMetadata \in Metadata
      BY DEF NoMetadata, Metadata
<1>2. "getCameras" \in Operations
      BY DEF Operations, OfLists
<1>3. QED
      BY <1>1, <1>2 DEF Unused, RequestStates, Steps, Statuses

\* A request that begins: it holds nothing yet, and its records begin.
LEMMA BeginIsSound ==
    ASSUME CameraInvariant, NEW r \in Requests, NEW u \in Users, NEW op \in Tried,
           NEW cs \in SUBSET Cameras, NEW to \in Assignees \union {Nobody}, Begin(r, u, op, cs, to)
    PROVE  CameraInvariant'
<1>1. TypeOK /\ op \in Operations /\ to \in Users \union {Nobody}
      BY DEF CameraInvariant, Assignees
<1>2. /\ existed' = [existed EXCEPT ![r] = ExistingNow(r)']
      /\ permitted' = [permitted EXCEPT ![r] = PermittedNow(r)']
      BY DEF Begin
<1>3. WellTyped' /\ CamerasEvolve
      BY <1>1 DEF Begin, outside, TypeOK, WellTyped, CamerasEvolve, IsServed
<1>4. ExistingNow(r)' \subseteq Cameras /\ PermittedNow(r)' \subseteq Cameras
      BY <1>3 DEF ExistingNow, PermittedNow, WellTyped
<1>5. existed' \in [Requests -> SUBSET Cameras] /\ permitted' \in [Requests -> SUBSET Cameras]
      BY <1>1, <1>2, <1>4 DEF TypeOK
<1>6. ASSUME NEW s \in RequestStates, Update(r, s), s.listed = {}, s.given = {},
             s.told # 0 <=> s.pc = "ended", RequestOK(r)'
      PROVE  CameraInvariant'
  <2>1. ASSUME NEW q \in Requests, q # r
        PROVE  Untouched(q)
    <3>1. request'[q] = request[q] /\ existed'[q] = existed[q] /\ permitted'[q] = permitted[q]
          BY <1>1, <1>2, <1>6, <2>1 DEF TypeOK, Update
    <3>2. q \in overtaken => q \in overtaken'
          BY <2>1 DEF Begin
    <3>3. exists' = exists /\ IsServed(q)' = IsServed(q) /\ Role(q)' = Role(q)
          BY <3>1 DEF Begin, outside, IsServed, Role
    <3>4. PermittedNow(q)' = PermittedNow(q)
          BY <3>1 DEF Begin, outside, PermittedNow, IsServed, IsPermitted
    <3>5. HasAccess(q)
          BY <2>1, WhatIsKnown
    <3>6. QED
          BY <3>1, <3>2, <3>3, <3>4, <3>5 DEF Untouched, Records, HasAccess
  <2>2. RequestsTyped'
        BY <1>1, <1>6, UpdateIsTyped DEF Begin, outside
  <2>3. TypeOK'
        BY <1>3, <1>5, <2>2 DEF TypeOK, RequestsTyped, WellTyped
  <2>4. OrphansAreExplained'
        BY <1>6, OthersStay DEF CameraInvariant, OrphansAreExplained, Begin, outside, IsServed
  <2>5. QED
        BY <1>3, <1>6, <2>1, <2>3, <2>4, ChangeOfOneRequest
<1>7. CASE Refuse(r, 403)
  <2>1. 403 \in Statuses \ {0} /\ {} \in SUBSET Cameras /\ MayTell(r, 403, {}, FALSE)
        BY DEF Statuses, MayTell
  <2>2. PICK s \in RequestStates : s = EndOf(r, 403, {}, FALSE)
        BY <1>1, <2>1, EndIsTyped
  <2>3. Update(r, s)
        BY <1>7, <2>2, Zenon DEF Refuse, End, EndOf
  <2>4. s.listed = {} /\ s.given = {} /\ s.told = 403 /\ s.pc = "ended"
        BY <2>2 DEF EndOf, Unused
  <2>5. request'[r] = s
        BY <1>1, <2>3 DEF TypeOK, Update
  <2>6. Records(r)
        BY <2>4, <2>5 DEF Records, IsServed, ToldNothing
  <2>7. RequestOK(r)'
        BY <1>7, <2>1, <2>6, EndIsSound DEF Refuse
  <2>8. QED
        BY <1>6, <2>3, <2>4, <2>7
<1>8. CASE Update(r, [Unused EXCEPT !.pc = FirstStep(op), !.op = op, !.user = u,
                                    !.cameras = cs, !.to = to])
  <2> DEFINE first == FirstStep(op)
  <2>1. Update(r, [Unused EXCEPT !.pc = first, !.op = op, !.user = u, !.cameras = cs, !.to = to])
        BY <1>8
  <2>2. /\ first = "finding" => op \in OfCamera
        /\ first = "finding alert" => op \in OfAlert
        /\ first = "listing" => op \in OfLists
        /\ first = "creating" => op = "createCamera"
        /\ first \in {"finding", "finding alert", "listing", "creating"}
        BY <1>1 DEF FirstStep, Operations
  <2>3. first \in Steps
        BY <2>2, Zenon DEF Steps
  <2>4. PICK q \in RequestStates : q = Unused
        BY UnusedIsTyped
  <2> HIDE DEF first
  <2> DEFINE s == [q EXCEPT !.pc = first, !.op = op, !.user = u, !.cameras = cs, !.to = to]
  <2>5. s \in RequestStates
        BY <1>1, <2>3, <2>4 DEF RequestStates
  <2>6. Update(r, s)
        BY <2>1, <2>4
  <2>7. /\ s.pc = first /\ s.op = op /\ s.user = u /\ s.cameras = cs /\ s.to = to
        /\ s.listed = q.listed /\ s.told = q.told /\ s.given = q.given /\ s.did = q.did
        BY <2>4 DEF RequestStates
  <2>8. q.listed = {} /\ q.told = 0 /\ q.given = {} /\ q.did = FALSE
        BY <2>4 DEF Unused
  <2> HIDE DEF s
  <2>9. request'[r] = s
        BY <1>1, <2>6 DEF TypeOK, Update
  <2>10. /\ op \in OfCamera \union OfAlert => \E c \in Cameras : cs = {c}
         /\ op = "assignCamera" => to \in Users
        BY <1>1 DEF Begin
  <2>11. op \in OfLists => op \notin OfAlert \union OfCamera
        BY DEF OfLists, OfAlert, OfCamera, Viewing, Managing, Assigning
  <2>12. FollowsItsWay(r)'
    <3>1. /\ request'[r].pc = first /\ request'[r].op = op /\ request'[r].user = u
          /\ request'[r].cameras = cs /\ request'[r].to = to
          BY <2>7, <2>9
    <3>2. CASE first = "finding"
      <4>1. op \in OfCamera /\ (op = "assignCamera" => to \in Users)
            BY <2>2, <2>10, <3>2
      <4>2. PICK c \in Cameras : request'[r].cameras = {c}
            BY <2>10, <3>1, <4>1
      <4>3. QED
            BY <3>1, <3>2, <4>1, <4>2
            DEF FollowsItsWay, IsServed, WithCamera, Changing, AboutAlerts
    <3>3. CASE first = "finding alert"
      <4>1. op \in OfAlert /\ (op = "assignCamera" => to \in Users)
            BY <2>2, <2>10, <3>3
      <4>2. PICK c \in Cameras : request'[r].cameras = {c}
            BY <2>10, <3>1, <4>1
      <4>3. QED
            BY <3>1, <3>3, <4>1, <4>2
            DEF FollowsItsWay, IsServed, WithCamera, Changing, AboutAlerts
    <3>4. CASE first = "listing"
          BY <2>2, <2>10, <2>11, <3>1, <3>4
          DEF FollowsItsWay, IsServed, WithCamera, Changing, AboutAlerts
    <3>5. CASE first = "creating"
          BY <2>2, <2>10, <2>11, <3>1, <3>5
          DEF FollowsItsWay, IsServed, WithCamera, Changing, AboutAlerts
    <3>6. QED
          BY <2>2, <3>2, <3>3, <3>4, <3>5
  <2>13. DidNothingYet(r)' /\ ReadsTrueMetadata(r)'
        BY <2>2, <2>7, <2>8, <2>9 DEF DidNothingYet, ReadsTrueMetadata
  <2>14. HasAccess(r)'
    <3>1. IsServed(r)'
          BY <2>2, <2>7, <2>8, <2>9 DEF IsServed
    <3>2. existed'[r] = exists' /\ permitted'[r] = PermittedNow(r)'
          BY <1>1, <1>2, <3>1 DEF TypeOK, ExistingNow
    <3>3. QED
          BY <2>2, <2>7, <2>8, <2>9, <3>2 DEF HasAccess, WithCamera, Changing
  <2>15. RequestOK(r)'
        BY <2>7, <2>8, <2>9, <2>12, <2>13, <2>14 DEF RequestOK, Lawful
  <2>16. s.told # 0 <=> s.pc = "ended"
        BY <2>2, <2>7, <2>8
  <2>17. QED
        BY <1>6, <2>5, <2>6, <2>7, <2>8, <2>15, <2>16
<1>9. QED
      BY <1>7, <1>8 DEF Begin

-------------------------------------------------------------------------------
\* The invariant holds when fa starts, with whatever cameras and assignments there are.
LEMMA CameraInit ==
    Init => CameraInvariant
<1> SUFFICES ASSUME Init
             PROVE  CameraInvariant
    OBVIOUS
<1> USE DEF Init
<1>1. \A r \in Requests : request[r] = Unused
      OBVIOUS
<1>2. Unused \in RequestStates
      BY UnusedIsTyped
<1>3. Creators \subseteq Users \union {Nobody} /\ Assignees \subseteq Users
      BY DEF Creators, Assignees
<1>4. [created_by : Creators, others : {0}] \subseteq Metadata
      BY <1>3 DEF Metadata
<1>5. TypeOK
      BY <1>1, <1>2, <1>3, <1>4 DEF TypeOK, Unused
<1>6. AccessWasHeld /\ RefusalsChangeNothing /\ OrphansAreExplained
      BY <1>1, <1>3 DEF AccessWasHeld, Lawful, RefusalsChangeNothing, OrphansAreExplained, Unused
<1>7. \A r \in Requests :
          FollowsItsWay(r) /\ DidNothingYet(r) /\ ReadsTrueMetadata(r) /\ HasAccess(r)
      BY <1>1 DEF FollowsItsWay, DidNothingYet, ReadsTrueMetadata, HasAccess, Unused, IsServed,
                  WithCamera, Changing, AboutAlerts
<1>8. QED
      BY <1>5, <1>6, <1>7 DEF CameraInvariant

\* The invariant is of the variables only.
LEMMA CameraStutter ==
    ASSUME CameraInvariant, UNCHANGED vars
    PROVE  CameraInvariant'
<1>1. /\ exists' = exists /\ used' = used /\ metadata' = metadata /\ assigned' = assigned
      /\ changes' = changes /\ begun' = begun /\ request' = request /\ existed' = existed
      /\ permitted' = permitted /\ overtaken' = overtaken /\ orphaned' = orphaned
      BY DEF vars, outside, history
<1>2. TypeOK' /\ OrphansAreExplained' /\ RefusalsChangeNothing'
      BY <1>1 DEF CameraInvariant, TypeOK, OrphansAreExplained, RefusalsChangeNothing
<1>3. ASSUME NEW r \in Requests
      PROVE  Untouched(r)
  <2>1. IsServed(r)' = IsServed(r) /\ Role(r)' = Role(r) /\ PermittedNow(r)' = PermittedNow(r)
        BY <1>1 DEF IsServed, Role, PermittedNow, IsPermitted
  <2>2. QED
        BY <1>1, <1>3, <2>1, WhatIsKnown DEF Untouched, Records, HasAccess
<1>4. CamerasEvolve
      BY <1>1 DEF CamerasEvolve
<1>5. \A r \in Requests : RequestOK(r)'
      BY <1>3, <1>4, UntouchedIsSound
<1>6. QED
      BY <1>2, <1>5 DEF CameraInvariant, RequestOK, AccessWasHeld

\* No step of the program, or of another application, takes away what holds of the requests.
LEMMA StepsKeepCameraInvariant ==
    CameraInvariant /\ [Next]_vars => CameraInvariant'
<1> SUFFICES ASSUME CameraInvariant, [Next]_vars
             PROVE  CameraInvariant'
    OBVIOUS
<1>1. CASE OthersStep
      BY <1>1, OthersAreSound
<1>2. CASE Arrival
      BY <1>2, BeginIsSound DEF Arrival
<1>3. ASSUME NEW r \in Requests, CameraStep(r)
      PROVE  CameraInvariant'
      BY <1>3, FailIsSound, FindCameraIsSound, CheckViewIsSound, CheckManageIsSound,
         RefuseSourceIsSound, CallSpecterIsSound, ReadMetadataIsSound, PatchMetadataIsSound,
         DeleteCameraIsSound, RemoveAllForCameraIsSound, AssignCameraIsSound,
         RemoveAssignmentIsSound, GetAssignmentsIsSound, CreateCameraIsSound, ListCamerasIsSound
         DEF CameraStep
<1>4. ASSUME NEW r \in Requests, FindAlert(r) \/ FilterCameras(r) \/ Query(r)
      PROVE  CameraInvariant'
      BY <1>4, FindAlertIsSound, FilterCamerasIsSound, QueryIsSound
<1>5. CASE UNCHANGED vars
      BY <1>5, CameraStutter
<1>6. QED
      BY <1>1, <1>2, <1>3, <1>4, <1>5 DEF Next, RequestStep

\* CameraInvariant, of every state of the requests about cameras and alerts.
THEOREM CameraInvariantHolds == Spec => []CameraInvariant
BY CameraInit, StepsKeepCameraInvariant, PTL DEF Spec

\* The types of what fa, Specter and Supabase keep of cameras, and of a request's state.
THEOREM CameraTypes == Spec => []TypeOK
<1>1. CameraInvariant => TypeOK
      BY DEF CameraInvariant
<1>2. QED
      BY <1>1, CameraInvariantHolds, PTL

\* Whoever is told of a camera or its alerts could see it, or was allowed to change it, at some
\* time since they asked (cameraService.ts:106,139; alertRepository.ts:9).
THEOREM AccessHeld == Spec => []AccessWasHeld
<1>1. CameraInvariant => AccessWasHeld
      BY DEF CameraInvariant
<1>2. QED
      BY <1>1, CameraInvariantHolds, PTL

\* A request that was refused changed nothing (cameraService.ts, cameraSettingsService.ts).
THEOREM RefusalsHarmless == Spec => []RefusalsChangeNothing
<1>1. CameraInvariant => RefusalsChangeNothing
      BY DEF CameraInvariant
<1>2. QED
      BY <1>1, CameraInvariantHolds, PTL

\* The assignments that outlive their camera are those that the code leaves behind.
THEOREM OrphansExplained == Spec => []OrphansAreExplained
<1>1. CameraInvariant => OrphansAreExplained
      BY DEF CameraInvariant
<1>2. QED
      BY <1>1, CameraInvariantHolds, PTL

-------------------------------------------------------------------------------
(* What a step does to the metadata.                                       *)

KeepsMetadata(c) ==
    /\ metadata'[c].created_by = metadata[c].created_by
    /\ metadata'[c].others < metadata[c].others =>
          \E r \in overtaken : request[r].pc = "patching" /\ c \in request[r].cameras

\* A step that leaves the metadata alone keeps it.
LEMMA MetadataInPlace ==
    ASSUME CameraInvariant, metadata' = metadata, NEW c \in used
    PROVE  KeepsMetadata(c)
<1>1. PICK m \in Metadata : m = metadata[c]
      BY WhatIsKnown DEF TypeOK, CameraInvariant
<1>2. QED
      BY <1>1 DEF KeepsMetadata, Metadata

\* Only a location that is written back can undo a change, and only when it is outdated.
LEMMA StepsKeepMetadata ==
    ASSUME CameraInvariant, [Next]_vars, NEW c \in used
    PROVE  KeepsMetadata(c)
<1>1. TypeOK /\ c \in Cameras
      BY DEF CameraInvariant, TypeOK
<1>2. PICK m \in Metadata : m = metadata[c]
      BY <1>1 DEF TypeOK
<1>3. CASE metadata' = metadata
      BY <1>3, MetadataInPlace
<1>4. ASSUME NEW d \in Cameras, ChangeElsewhere(d)
      PROVE  KeepsMetadata(c)
  <2>1. metadata'[c] = m \/ metadata'[c] = [m EXCEPT !.others = @ + 1]
        BY <1>1, <1>2, <1>4 DEF ChangeElsewhere, TypeOK
  <2>2. [m EXCEPT !.others = @ + 1].others = m.others + 1 /\ m.others \in Nat
        /\ [m EXCEPT !.others = @ + 1].created_by = m.created_by
        BY <1>2 DEF Metadata
  <2>3. metadata'[c].created_by = m.created_by /\ ~(metadata'[c].others < m.others)
    <3>1. CASE metadata'[c] = m
          BY <2>2, <3>1
    <3>2. CASE metadata'[c] = [m EXCEPT !.others = @ + 1]
          BY <2>2, <3>2
    <3>3. QED
          BY <2>1, <3>1, <3>2
  <2>4. QED
        BY <1>2, <2>3 DEF KeepsMetadata
<1>5. ASSUME NEW r \in Requests, NEW d \in Cameras, CreateCamera(r, d)
      PROVE  KeepsMetadata(c)
  <2>1. metadata'[c] = m
        BY <1>1, <1>2, <1>5 DEF CreateCamera, TypeOK
  <2>2. QED
        BY <1>2, <2>1 DEF KeepsMetadata, Metadata
<1>6. ASSUME NEW r \in Requests, PatchMetadata(r), metadata' # metadata
      PROVE  KeepsMetadata(c)
  <2>1. PICK d \in used : request[r].cameras = {d} /\ CameraOf(r) = d
        BY <1>6, WhatAnActorHas DEF PatchMetadata, Changing
  <2>2. metadata' = [metadata EXCEPT ![d] = request[r].copy]
        BY <1>6, <2>1 DEF PatchMetadata, WithLocation
  <2>3. CASE c # d
    <3>1. metadata'[c] = m
          BY <1>1, <1>2, <2>2, <2>3 DEF TypeOK
    <3>2. QED
          BY <1>2, <3>1 DEF KeepsMetadata, Metadata
  <2>4. CASE c = d
    <3>1. metadata'[c] = request[r].copy
          BY <1>1, <2>2, <2>4 DEF TypeOK
    <3>2. /\ request[r].pc = "patching" /\ request[r].copy.created_by = m.created_by
          /\ r \in overtaken \/ request[r].copy = m
          BY <1>2, <1>6, <2>1, <2>4, WhatIsKnown DEF PatchMetadata, ReadsTrueMetadata
    <3>3. QED
          BY <1>2, <2>1, <2>4, <3>1, <3>2 DEF KeepsMetadata, Metadata
  <2>5. QED
        BY <2>3, <2>4
<1>7. \/ metadata' = metadata
      \/ \E d \in Cameras : ChangeElsewhere(d)
      \/ \E r \in Requests, d \in Cameras : CreateCamera(r, d)
      \/ \E r \in Requests : PatchMetadata(r)
  <2>1. CASE OthersStep
        BY <2>1 DEF OthersStep, CreateElsewhere, DeleteElsewhere
  <2>2. CASE Arrival
        BY <2>2 DEF Arrival, Begin, outside
  <2>3. ASSUME NEW r \in Requests, CameraStep(r)
        PROVE  \/ metadata' = metadata
               \/ \E d \in Cameras : CreateCamera(r, d)
               \/ PatchMetadata(r)
        BY <2>3 DEF CameraStep, Fail, FindCamera, CheckView, CheckManage, RefuseSource,
                    CallSpecter, ReadMetadata, DeleteCamera, RemoveAllForCamera, AssignCamera,
                    RemoveAssignment, GetAssignments, ListCameras, Quietly, outside
  <2>4. ASSUME NEW r \in Requests, FindAlert(r) \/ FilterCameras(r) \/ Query(r)
        PROVE  metadata' = metadata
        BY <2>4 DEF FindAlert, FilterCameras, Query, Quietly, outside
  <2>5. CASE UNCHANGED vars
        BY <2>5 DEF vars, outside
  <2>6. QED
        BY <2>1, <2>2, <2>3, <2>4, <2>5 DEF Next, RequestStep
<1>8. QED
      BY <1>3, <1>4, <1>5, <1>6, <1>7

\* No step takes a camera from its creator, and fa undoes another application's change only with a
\* copy of the metadata that a later write had outdated (specterCameraRepository.ts:82).
THEOREM MetadataKept == Spec => MetadataIsKept
<1>1. CameraInvariant /\ [Next]_vars => [\A c \in used : KeepsMetadata(c)]_vars
      BY StepsKeepMetadata
<1>2. (\A c \in used : KeepsMetadata(c)) =>
          \A c \in used :
              /\ metadata'[c].created_by = metadata[c].created_by
              /\ metadata'[c].others < metadata[c].others =>
                    \E r \in overtaken : request[r].pc = "patching" /\ c \in request[r].cameras
      BY DEF KeepsMetadata
<1>3. QED
      BY <1>1, <1>2, CameraInvariantHolds, PTL DEF Spec, MetadataIsKept
================================================================================
