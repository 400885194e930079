---------------------------- MODULE SpecterRequests ----------------------------
(***************************************************************************)
(* src/src/specter/specterHttpClient.ts: the client through which all of   *)
(* fa's requests reach Specter. It reads the service token from a file and *)
(* keeps it; a request whose token Specter rejects reads the file again,   *)
(* once. The token is shared by all requests, and by the live video relay, *)
(* whose handshakes read it but never reload it.                           *)
(*                                                                         *)
(* Every await ends an action: a read of the file takes its content in one *)
(* step and stores it in a later one, and a request, its answer and its    *)
(* timeout cross on the way.                                               *)
(***************************************************************************)
EXTENDS SpecterApi, FiniteSets

CONSTANTS
    Requests,     \* requests of fa's clients that are served at a time
    Calls,        \* Calls[r]: the operation that r calls
    Tokens,       \* service tokens
    Unreadable,   \* the file is missing, or its content has not been read
    NoToken,      \* null
    MaxChanges    \* bound: the changes of the file and of Specter's tokens

ASSUME RequestAssumption ==
    /\ Calls \in [Requests -> Operations]
    /\ Unreadable \notin Tokens /\ NoToken \notin Tokens
    /\ MaxChanges \in Nat

VARIABLES
    file,         \* the content of the token file
    accepted,     \* the tokens that Specter accepts
    changes,      \* the changes so far
    token,        \* this.token
    request,      \* request[r]: the state of a request
    performed,    \* performed[r]: how often Specter performed its operation
    told,         \* told[r]: the status that fa's client was given, or 0
    disturbed,    \* history: requests since whose start the token's rotation went on
    overwritten   \* history: requests since whose start a stale token became the shared one

tokenVars == <<file, accepted, changes, token>>
history == <<disturbed, overwritten>>
vars == <<tokenVars, request, performed, told, history>>

\* pc: where the request is; isRetry: it is the second attempt; content: what
\* the file held when it was read; with: the token it was sent with; answer: Specter's status.
Unused == [pc |-> "unused", isRetry |-> FALSE,
           content |-> Unreadable, with |-> NoToken, answer |-> 0]

Init ==
    /\ file \in Tokens
    /\ accepted \in {tokens \in SUBSET Tokens : file \in tokens}
    /\ changes = 0
    /\ token = NoToken
    /\ request = [r \in Requests |-> Unused]
    /\ performed = [r \in Requests |-> 0]
    /\ told = [r \in Requests |-> 0]
    /\ disturbed = {}
    /\ overwritten = {}

Statuses == {200, 201, 204, 400, 401, 404, 409, 422, 500, 503}

-------------------------------------------------------------------------------
(* The operators of Specter and fa rotate the token. *)

Rotation ==
    /\ changes < MaxChanges
    /\ changes' = changes + 1
    /\ UNCHANGED <<token, request, performed, told, overwritten>>

\* The file may be out of date, or missing, for a while.
ReplaceFile(content) ==
    /\ content # file
    /\ file' = content
    /\ disturbed' = IF content \in accepted THEN disturbed ELSE Requests
    /\ UNCHANGED accepted
    /\ Rotation

IssueToken(t) ==
    /\ t \notin accepted
    /\ accepted' = accepted \union {t}
    /\ UNCHANGED <<file, disturbed>>
    /\ Rotation

RevokeToken(t) ==
    /\ t \in accepted
    /\ accepted' = accepted \ {t}
    /\ disturbed' = Requests
    /\ UNCHANGED file
    /\ Rotation

-------------------------------------------------------------------------------
(* send(), sendWithToken() and readToken() *)

Update(r, state) == request' = [request EXCEPT ![r] = state]

\* The part of readToken() before its await: only a missing token, or a reload, reads the file.
Reloads(isReload) == token = NoToken \/ isReload

ReadOrSend(r, isReload) ==
    Update(r, [Unused EXCEPT !.pc = IF Reloads(isReload) THEN "reading" ELSE "sending",
                             !.isRetry = isReload,
                             !.with = IF Reloads(isReload) THEN NoToken ELSE token])

\* A reload that shares the read that another request has under way.
JoinOrSend(r, isReload) ==
    IF Reloads(isReload) /\ \E s \in Requests : request[s].pc = "read"
        THEN \E s \in Requests :
                 /\ request[s].pc = "read"
                 /\ Update(r, [request[s] EXCEPT !.isRetry = isReload])
        ELSE ReadOrSend(r, isReload)

ReadToken(r, isReload) == ReadOrSend(r, isReload)

Begin(r) ==
    /\ request[r].pc \in {"unused", "ended"}
    /\ ReadToken(r, FALSE)
    /\ performed' = [performed EXCEPT ![r] = 0]
    /\ told' = [told EXCEPT ![r] = 0]
    /\ disturbed' = IF file \in accepted THEN disturbed \ {r} ELSE disturbed \union {r}
    /\ overwritten' = overwritten \ {r}
    /\ UNCHANGED tokenVars

FileIsRead(r) ==
    /\ request[r].pc = "reading"
    /\ Update(r, [request[r] EXCEPT !.pc = "read", !.content = file])
    /\ UNCHANGED <<tokenVars, performed, told, history>>

\* A request that ends without an answer of Specter, or with one that fa does not retry.
End(r, status) ==
    /\ Update(r, [Unused EXCEPT !.pc = "ended", !.answer = request[r].answer])
    /\ told' = [told EXCEPT ![r] = status]

TokenIsRead(r) ==
    /\ request[r].pc = "read"
    /\ LET content == request[r].content IN
           IF content = Unreadable
               THEN End(r, 503) /\ UNCHANGED <<token, overwritten>>
               ELSE /\ token' = content
                    /\ Update(r, [request[r] EXCEPT !.pc = "sending", !.content = Unreadable,
                                                    !.with = content])
                    /\ overwritten' = IF content \in accepted THEN overwritten ELSE Requests
                    /\ UNCHANGED told
    /\ UNCHANGED <<file, accepted, changes, performed, disturbed>>

\* Specter answers a request: it rejects the token, or performs the operation, or refuses it;
\* an error of its own may come before or after the effect. Bound: one refusal for each status
\* that fa makes of it.
Refusals == {404, 422, 503}

Answer(r, status, effects) ==
    /\ performed' = [performed EXCEPT ![r] = @ + effects]
    /\ Update(r, IF request[r].pc = "sending"
                     THEN [request[r] EXCEPT !.pc = "answered", !.answer = status]
                     ELSE [Unused EXCEPT !.pc = "ended"])
    /\ UNCHANGED <<tokenVars, told, history>>

OnItsWay(r) == request[r].pc \in {"sending", "late"}

AnswerRejected(r) ==
    /\ OnItsWay(r)
    /\ request[r].with \notin accepted
    /\ Answer(r, 401, 0)

AnswerAccepted(r) ==
    /\ OnItsWay(r)
    /\ request[r].with \in accepted
    /\ \/ Answer(r, Contract[Calls[r]].success, 1)
       \/ \E status \in Refusals : Answer(r, status, 0)
       \/ \E effects \in 0..1 : Answer(r, 500, effects)

\* SpecterApiError.toClientStatus
toClientStatusOf4xx(status) ==
    CASE status \in {404, 409} -> status
      [] status = 503 -> 503
      [] OTHER -> 400
toClientStatus(status) ==
    CASE status \in {404, 409} -> status
      [] status \in {400, 422} -> 400
      [] status = 503 -> 503
      [] OTHER -> 502

IsOk(status) == status \in 200..299

\* The handler of fa's route then answers its client with a success.
ClientStatus(status) == IF IsOk(status) THEN 200 ELSE toClientStatus(status)

RetriesAnyFailure(r) == request[r].answer \in {401, 500} /\ ~request[r].isRetry
RetriesAgain(r) == request[r].answer = 401
Retries(r) == request[r].answer = 401 /\ ~request[r].isRetry

Retry(r) ==
    /\ request[r].pc = "answered"
    /\ Retries(r)
    /\ ReadToken(r, TRUE)
    /\ UNCHANGED <<tokenVars, performed, told, history>>

Receive(r) ==
    /\ request[r].pc = "answered"
    /\ ~Retries(r)
    /\ End(r, ClientStatus(request[r].answer))
    /\ UNCHANGED <<tokenVars, performed, history>>

\* The answer's body is cut off after its status: reading it as JSON fails, which is not a
\* SpecterApiError. A file is only streamed on.
BodyBreaks(r) ==
    /\ request[r].pc = "answered"
    /\ IsOk(request[r].answer)
    /\ Contract[Calls[r]].answer = "data"
    /\ End(r, 500)
    /\ UNCHANGED <<tokenVars, performed, history>>

\* fetch() rejects or is aborted: the request, or its answer, is lost or comes late.
Unreachable(r) ==
    /\ request[r].pc \in {"sending", "answered"}
    /\ \/ End(r, 503)
       \/ /\ request[r].pc = "sending"
          /\ Update(r, [request[r] EXCEPT !.pc = "late"])
          /\ told' = [told EXCEPT ![r] = 503]
    /\ UNCHANGED <<tokenVars, performed, history>>

\* liveVideoRelay.ts: a viewer who was given a ticket opens the WebSocket. The relay takes the
\* token as authorizationHeader() returns it, and Specter's answer is final.
Handshake(r) ==
    /\ request[r].pc = "ended" /\ told[r] = 200
    /\ Calls[r] = "read_camera"
    /\ token # NoToken
    /\ told' = [told EXCEPT ![r] = IF token \in accepted THEN 101 ELSE 401]
    /\ UNCHANGED <<tokenVars, request, performed, history>>

-------------------------------------------------------------------------------
RequestStep(r) ==
    \/ FileIsRead(r)
    \/ TokenIsRead(r)
    \/ Retry(r)
    \/ Receive(r)
    \/ BodyBreaks(r)
    \/ Unreachable(r)

Next ==
    \/ \E content \in Tokens \union {Unreadable} : ReplaceFile(content)
    \/ \E t \in Tokens : IssueToken(t) \/ RevokeToken(t)
    \/ \E r \in Requests :
           Begin(r) \/ RequestStep(r) \/ AnswerRejected(r) \/ AnswerAccepted(r) \/ Handshake(r)

\* Files are read, and every request is answered or aborted after its timeout.
Spec == Init /\ [][Next]_vars /\ \A r \in Requests : WF_vars(RequestStep(r))

-------------------------------------------------------------------------------
Steps == {"unused", "reading", "read", "sending", "late", "answered", "ended"}

\* Type correctness; a client is given a status exactly when its request is over for fa.
TypeOK ==
    /\ file \in Tokens \union {Unreadable}
    /\ accepted \subseteq Tokens
    /\ changes \in 0..MaxChanges
    /\ token \in Tokens \union {NoToken}
    /\ request \in [Requests -> [pc : Steps, isRetry : BOOLEAN,
                                 content : Tokens \union {Unreadable},
                                 with : Tokens \union {NoToken}, answer : Statuses \union {0}]]
    /\ performed \in [Requests -> Nat]
    /\ told \in [Requests -> {0, 101, 200, 400, 401, 404, 409, 500, 502, 503}]
    /\ disturbed \subseteq Requests /\ overwritten \subseteq Requests
    /\ \A r \in Requests : told[r] # 0 <=> request[r].pc \in {"late", "ended"}

\* Over both attempts Specter performs a request at most once: an upload is not enrolled twice,
\* whatever is lost or late (specterHttpClient.ts:106).
PerformedAtMostOnce == \A r \in Requests : performed[r] <= 1

\* A client who is told of a success had it performed, and one who is told that the request was
\* wrong had nothing performed; only the 5xx leave it open.
AnswersTellTheTruth ==
    \A r \in Requests :
        /\ told[r] = 200 => performed[r] = 1
        /\ told[r] \in 400..499 \ {401} => performed[r] = 0

\* "The token file may be replaced while fa runs" (specterHttpClient.ts:106): the token costs a
\* client its request only while the rotation goes on, that is, when after the request's start a
\* token was revoked, or the file held none that Specter accepts. What other requests store as the
\* shared token, and in what order, never costs it a request: the second attempt is sent with what
\* it has read itself. The relay's handshake does not reload the token, but the request for the
\* viewer's ticket has: it fails (401) only when the rotation went on meanwhile, or another
\* request, late with what it had read of the file, has stored a token that is accepted no longer.
RejectionsAreExplained ==
    \A r \in Requests :
        /\ told[r] = 502 /\ request[r].answer = 401 => r \in disturbed
        /\ told[r] = 401 => r \in disturbed \union overwritten

\* What connects a request with its effect: nothing is performed before an answer, and the answer,
\* as fa receives it or makes of it, says whether it was.
AnswersMatchEffects(r) ==
    /\ request[r].pc \in {"unused", "reading", "read", "sending", "late"} => performed[r] = 0
    /\ request[r].pc = "late" => told[r] = 503
    /\ request[r].pc = "answered" =>
           /\ request[r].answer \in {200, 201, 204, 401, 500} \union Refusals
           /\ IsOk(request[r].answer) => performed[r] = 1
           /\ request[r].answer \in {401} \union Refusals => performed[r] = 0

\* What a request that the rotation did not disturb knows of the tokens: the file holds one that
\* Specter accepts, and so does what the request has read of it since; a second attempt is sent
\* with such a token, and is not rejected.
Undisturbed(r) ==
    LET q == request[r] IN
    q.pc # "unused" =>
        /\ file \in accepted
        /\ q.pc = "read" => q.content \in accepted
        /\ q.pc \in {"sending", "answered"} /\ q.isRetry => q.with \in accepted
        /\ q.pc = "answered" /\ q.answer # 401 => q.with \in accepted
        /\ q.pc = "answered" /\ q.isRetry => q.answer # 401

\* What it knows of the shared token, when no other request has stored a stale one meanwhile: it
\* is an accepted one, or the stale one that the first attempt was sent with.
NotOverwritten(r) ==
    /\ request[r].pc \in {"sending", "answered"} => token \in accepted \union {request[r].with}
    /\ told[r] = 200 => token \in accepted

\* The inductive invariant.
RequestInvariant ==
    /\ TypeOK
    /\ PerformedAtMostOnce
    /\ AnswersTellTheTruth
    /\ RejectionsAreExplained
    /\ \A r \in Requests :
           /\ AnswersMatchEffects(r)
           /\ r \notin disturbed => Undisturbed(r)
           /\ r \notin disturbed \union overwritten => NotOverwritten(r)

\* Every request ends: nobody waits for the token or for Specter for ever.
RequestsEnd == \A r \in Requests : request[r].pc = "reading" ~> told[r] # 0
================================================================================
