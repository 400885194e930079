----------------------------- MODULE AlertRequests -----------------------------
(***************************************************************************)
(* src/src/alerts/alertService.ts, together with the requests about        *)
(* cameras: Specter knows nothing of fa's users, so fa reads which cameras *)
(* a user may see, and asks Specter for the alerts of these only.          *)
(*                                                                         *)
(* An alert stands for any alert of its camera, which remains when the     *)
(* camera is deleted. SpecterCatalog models the names that alerts are      *)
(* served with.                                                            *)
(***************************************************************************)
EXTENDS CameraRequests

\* getAccessibleAlert: the alert, which may not be there yet right after its event, and then the
\* cameras of the user unless an admin.
FindAlert(r) ==
    /\ request[r].pc = "finding alert"
    /\ \/ Refuse(r, 404)
       \/ CameraOf(r) \in used /\ Goto(r, IF Role(r) = "admin" THEN "querying" ELSE "listing")
    /\ Quietly

\* restrictToAccessibleCameras: the cameras asked for, or all when none are.
Restricted(r) ==
    IF request[r].cameras = {} THEN Accessible(r) ELSE request[r].cameras \intersect Accessible(r)

AsksSpecter(ids) == ids # {}

FilterCameras(r) ==
    /\ request[r].pc = "filtering"
    /\ CASE request[r].op = "getCameras" -> End(r, 200, Accessible(r), FALSE)
         [] request[r].op \in OfAlert ->
                IF CameraOf(r) \in Accessible(r) THEN Goto(r, "querying") ELSE Refuse(r, 404)
         [] OTHER ->
                IF AsksSpecter(Restricted(r))
                    THEN Update(r, [request[r] EXCEPT !.pc = "querying", !.cameras = Restricted(r),
                                                       !.listed = {}])
                    ELSE End(r, 200, {}, FALSE)
    /\ Quietly

\* Specter reads, reviews or lists alerts. A list without camera ids is of every camera.
Query(r) ==
    /\ request[r].pc = "querying"
    /\ IF request[r].op \in OfAlert
           THEN Answered(r, request[r].op \in {"acknowledgeAlert", "resolveAlert"})
           ELSE End(r, 200, IF request[r].cameras = {} THEN used
                                                      ELSE request[r].cameras \intersect used, FALSE)
    /\ Quietly

RequestStep(r) == CameraStep(r) \/ FindAlert(r) \/ FilterCameras(r) \/ Query(r)

Next == OthersStep \/ Arrival \/ \E r \in Requests : RequestStep(r)

Spec == Init /\ [][Next]_vars
================================================================================
