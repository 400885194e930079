------------------------ MODULE SpecterRequestsProofs -------------------------
(***************************************************************************)
(* Proofs about the Specter HTTP client, for any number of overlapping     *)
(* requests and any rotation of the tokens: each operation is performed at *)
(* most once, the status that fa's client gets tells whether it was, and a *)
(* token costs a request only while it is being rotated.                   *)
(*                                                                         *)
(* The inductive invariant is RequestInvariant. Of the operations, the     *)
(* proofs only use that each succeeds with 200, 201 or 204                 *)
(* (SuccessesAre2xx).                                                      *)
(***************************************************************************)
EXTENDS SpecterRequests, TLAPS

USE RequestAssumption

\* The records that the handlers of a request store are well typed.
RequestStates ==
    [pc : Steps, isRetry : BOOLEAN, content : Tokens \union {Unreadable},
     with : Tokens \union {NoToken}, answer : Statuses \union {0}]

-------------------------------------------------------------------------------
\* Every operation of the contract succeeds with one of three statuses.
LEMMA SuccessesAre2xx == \A op \in Operations : Contract[op].success \in {200, 201, 204}
<1> USE DEF Operation, Reads, ReadsImage, Creates, Performs, Updates, Removes
<1>1. ASSUME NEW group \in ContractGroups, NEW op \in DOMAIN group
      PROVE  group[op].success \in {200, 201, 204}
  <2>1. CASE group = AlertList
    BY <1>1, <2>1 DEF AlertList
  <2>2. CASE group = AlertSummary
    BY <1>1, <2>2 DEF AlertSummary
  <2>3. CASE group = AlertOperations
    BY <1>1, <2>3 DEF AlertOperations
  <2>4. CASE group = CameraOperations
    BY <1>1, <2>4 DEF CameraOperations
  <2>5. CASE group = LiveFrame
    BY <1>1, <2>5 DEF LiveFrame
  <2>6. CASE group = RuleLists
    BY <1>1, <2>6 DEF RuleLists
  <2>7. CASE group = RuleOperations
    BY <1>1, <2>7 DEF RuleOperations
  <2>8. CASE group = StartAndStop
    BY <1>1, <2>8 DEF StartAndStop
  <2>9. CASE group = ZoneLists
    BY <1>1, <2>9 DEF ZoneLists
  <2>10. CASE group = ZoneOperations
    BY <1>1, <2>10 DEF ZoneOperations
  <2>11. CASE group = EnrollmentBatch
    BY <1>1, <2>11 DEF EnrollmentBatch
  <2>12. CASE group = WatchlistOperations
    BY <1>1, <2>12 DEF WatchlistOperations
  <2>13. CASE group = TargetOperations
    BY <1>1, <2>13 DEF TargetOperations
  <2>14. CASE group = ImageOperations
    BY <1>1, <2>14 DEF ImageOperations
  <2> QED
    BY <2>1, <2>2, <2>3, <2>4, <2>5, <2>6, <2>7, <2>8, <2>9, <2>10, <2>11, <2>12, <2>13, <2>14
    DEF ContractGroups
<1>2. ASSUME NEW op \in Operations
      PROVE  \E group \in ContractGroups : op \in DOMAIN group /\ Contract[op] = group[op]
  BY <1>2 DEF Operations, Contract, Merged
<1> QED
  BY <1>1, <1>2

\* The initial states satisfy the invariant.
LEMMA RequestInit == Init => RequestInvariant
BY DEF Init, RequestInvariant, TypeOK, Unused, Steps, Statuses, PerformedAtMostOnce,
       AnswersTellTheTruth, RejectionsAreExplained, AnswersMatchEffects, Undisturbed,
       NotOverwritten

\* Replacing the file, issuing and revoking tokens: a step after which the file's content is not
\* accepted, or that revokes a token, disturbs every request.
LEMMA RotationKeepsInvariant ==
    ASSUME RequestInvariant,
           \/ \E content \in Tokens \union {Unreadable} : ReplaceFile(content)
           \/ \E t \in Tokens : IssueToken(t) \/ RevokeToken(t)
    PROVE  RequestInvariant'
<1> USE DEF RequestInvariant, TypeOK, Rotation, PerformedAtMostOnce, AnswersTellTheTruth,
            RejectionsAreExplained, AnswersMatchEffects, Undisturbed, NotOverwritten
<1>1. ASSUME NEW content \in Tokens \union {Unreadable}, ReplaceFile(content)
      PROVE  RequestInvariant'
      BY <1>1 DEF ReplaceFile
<1>2. ASSUME NEW t \in Tokens, IssueToken(t)
      PROVE  RequestInvariant'
      BY <1>2 DEF IssueToken
<1>3. ASSUME NEW t \in Tokens, RevokeToken(t)
      PROVE  RequestInvariant'
      BY <1>3 DEF RevokeToken
<1>4. QED
      BY <1>1, <1>2, <1>3

\* What RequestInvariant says of one request.
RequestOK(r) ==
    /\ performed[r] <= 1
    /\ told[r] = 200 => performed[r] = 1
    /\ told[r] \in 400..499 \ {401} => performed[r] = 0
    /\ told[r] = 502 /\ request[r].answer = 401 => r \in disturbed
    /\ told[r] = 401 => r \in disturbed \union overwritten
    /\ AnswersMatchEffects(r)
    /\ r \notin disturbed => Undisturbed(r)
    /\ r \notin disturbed \union overwritten => NotOverwritten(r)

\* A step of r: it changes no other request and no rotation, and stores no token that is not an
\* accepted one without the history of all of them saying so.
ChangesOnly(r) ==
    /\ \A s \in Requests : s # r => /\ request'[s] = request[s]
                                   /\ performed'[s] = performed[s]
                                   /\ told'[s] = told[s]
    /\ disturbed' \ {r} = disturbed \ {r}
    /\ overwritten \ {r} \subseteq overwritten'
    /\ UNCHANGED <<file, accepted>>
    /\ token' = token \/ token' \in accepted \/ Requests \subseteq overwritten'

\* It is enough to look at the request that takes the step.
LEMMA ChangeOfOneRequest ==
    ASSUME RequestInvariant, NEW r \in Requests, TypeOK', ChangesOnly(r), RequestOK(r)'
    PROVE  RequestInvariant'
<1>1. ASSUME NEW s \in Requests, s # r
      PROVE  RequestOK(s)'
  <2>1. RequestOK(s)
        BY DEF RequestInvariant, RequestOK, PerformedAtMostOnce, AnswersTellTheTruth,
               RejectionsAreExplained
  <2>2. /\ request'[s] = request[s] /\ performed'[s] = performed[s] /\ told'[s] = told[s]
        /\ s \notin disturbed' => s \notin disturbed
        /\ s \in overwritten => s \in overwritten'
        BY <1>1, ChangesOnly(r) DEF ChangesOnly
  <2>3. AnswersMatchEffects(s)'
        BY <2>1, <2>2 DEF RequestOK, AnswersMatchEffects
  <2>4. s \notin disturbed' => Undisturbed(s)'
        BY <2>1, <2>2 DEF RequestOK, Undisturbed, ChangesOnly
  <2>5. s \notin disturbed' \union overwritten' => NotOverwritten(s)'
        BY <2>1, <2>2 DEF RequestOK, NotOverwritten, ChangesOnly
  <2>6. QED
        BY <2>1, <2>2, <2>3, <2>4, <2>5 DEF RequestOK
<1>2. \A s \in Requests : RequestOK(s)'
      BY <1>1
<1>3. QED
      BY <1>2 DEF RequestInvariant, RequestOK, PerformedAtMostOnce, AnswersTellTheTruth,
                  RejectionsAreExplained

\* What a handler of r reads is well typed.
LEMMA RequestIsTyped ==
    ASSUME RequestInvariant, NEW r \in Requests
    PROVE  /\ request[r] \in RequestStates
           /\ file \in Tokens \union {Unreadable}
           /\ token \in Tokens \union {NoToken}
BY DEF RequestInvariant, TypeOK, RequestStates

\* A new request, with the shared token or on its way to the file.
LEMMA BeginKeepsInvariant ==
    ASSUME RequestInvariant, NEW r \in Requests, Begin(r)
    PROVE  RequestInvariant'
<1> DEFINE q == [Unused EXCEPT !.pc = IF Reloads(FALSE) THEN "reading" ELSE "sending",
                        !.isRetry = FALSE,
                        !.with = IF Reloads(FALSE) THEN NoToken ELSE token]
<1>1. file \in Tokens \union {Unreadable} /\ token \in Tokens \union {NoToken}
      BY RequestIsTyped
<1>2. q \in RequestStates
      BY <1>1 DEF RequestStates, Unused, Steps
<1>3. Update(r, q)
      BY DEF Begin, ReadToken, ReadOrSend
<1>4. TypeOK'
      BY <1>2, <1>3 DEF RequestInvariant, TypeOK, RequestStates, Update, tokenVars, history,
                        Unused, Begin, ReadToken, ReadOrSend, Reloads
<1>5. ChangesOnly(r)
      BY <1>2, <1>3 DEF RequestInvariant, TypeOK, Update, tokenVars, history, ChangesOnly,
                        Begin, ReadToken, ReadOrSend, Reloads
<1>6. RequestOK(r)'
      BY <1>2, <1>3 DEF TypeOK, RequestStates, Update, tokenVars, history, Unused,
                        RequestInvariant, RequestOK, PerformedAtMostOnce, AnswersTellTheTruth,
                        RejectionsAreExplained, AnswersMatchEffects, Undisturbed,
                        NotOverwritten, Begin, ReadToken, ReadOrSend, Reloads
<1>7. QED
      BY <1>4, <1>5, <1>6, ChangeOfOneRequest

\* The file's content is read in one step and becomes the shared token in a later one: whatever the
\* others stored meanwhile, the request is sent with what it has read.
LEMMA TokenStepsKeepInvariant ==
    ASSUME RequestInvariant, NEW r \in Requests,
           FileIsRead(r) \/ TokenIsRead(r)
    PROVE  RequestInvariant'
<1>1. CASE FileIsRead(r)
  <2>1. PICK s \in RequestStates : s = request[r]
        BY RequestIsTyped
  <2> DEFINE q == [s EXCEPT !.pc = "read", !.content = file]
  <2>2. file \in Tokens \union {Unreadable} /\ token \in Tokens \union {NoToken}
        BY RequestIsTyped
  <2>3. q \in RequestStates
        BY <2>1, <2>2 DEF RequestStates, Unused, Steps
  <2>4. Update(r, q)
        BY <1>1, <2>1 DEF FileIsRead
  <2>5. TypeOK'
        BY <1>1, <2>1, <2>3, <2>4 DEF RequestInvariant, TypeOK, RequestStates, Update,
                                      tokenVars, history, Unused, FileIsRead
  <2>6. ChangesOnly(r)
        BY <1>1, <2>1, <2>3, <2>4 DEF RequestInvariant, TypeOK, Update, tokenVars, history,
                                      ChangesOnly, FileIsRead
  <2>7. RequestOK(r)'
        BY <1>1, <2>1, <2>3, <2>4 DEF TypeOK, RequestStates, Update, tokenVars, history, Unused,
                                      RequestInvariant, RequestOK, PerformedAtMostOnce,
                                      AnswersTellTheTruth, RejectionsAreExplained,
                                      AnswersMatchEffects, Undisturbed, NotOverwritten,
                                      FileIsRead
  <2>8. QED
        BY <2>5, <2>6, <2>7, ChangeOfOneRequest
<1>2. CASE TokenIsRead(r) /\ request[r].content = Unreadable
  <2>1. PICK s \in RequestStates : s = request[r]
        BY RequestIsTyped
  <2> DEFINE q == [Unused EXCEPT !.pc = "ended", !.answer = s.answer]
  <2>2. q \in RequestStates
        BY <2>1 DEF RequestStates, Unused, Steps
  <2>3. Update(r, q)
        BY <1>2, <2>1 DEF TokenIsRead, End
  <2>4. TypeOK'
        BY <1>2, <2>1, <2>2, <2>3 DEF RequestInvariant, TypeOK, RequestStates, Update,
                                      tokenVars, history, Unused, TokenIsRead, End
  <2>5. ChangesOnly(r)
        BY <1>2, <2>1, <2>2, <2>3 DEF RequestInvariant, TypeOK, Update, tokenVars, history,
                                      ChangesOnly, TokenIsRead, End
  <2>6. RequestOK(r)'
        BY <1>2, <2>1, <2>2, <2>3 DEF TypeOK, RequestStates, Update, tokenVars, history, Unused,
                                      RequestInvariant, RequestOK, PerformedAtMostOnce,
                                      AnswersTellTheTruth, RejectionsAreExplained,
                                      AnswersMatchEffects, Undisturbed, NotOverwritten,
                                      TokenIsRead, End
  <2>7. QED
        BY <2>4, <2>5, <2>6, ChangeOfOneRequest
<1>3. CASE TokenIsRead(r) /\ request[r].content # Unreadable
  <2>1. PICK s \in RequestStates : s = request[r]
        BY RequestIsTyped
  <2> DEFINE q == [s EXCEPT !.pc = "sending", !.content = Unreadable,
                              !.with = s.content]
  <2>2. q \in RequestStates
        BY <1>3, <2>1 DEF RequestStates, Steps
  <2>3. Update(r, q)
        BY <1>3, <2>1 DEF TokenIsRead
  <2>4. TypeOK'
        BY <1>3, <2>1, <2>2, <2>3 DEF RequestInvariant, TypeOK, RequestStates, Update,
                                      tokenVars, history, Unused, TokenIsRead
  <2>5. ChangesOnly(r)
        BY <1>3, <2>1, <2>2, <2>3 DEF RequestInvariant, TypeOK, Update, tokenVars, history,
                                      ChangesOnly, TokenIsRead
  <2>6. RequestOK(r)'
        BY <1>3, <2>1, <2>2, <2>3 DEF TypeOK, RequestStates, Update, tokenVars, history, Unused,
                                      RequestInvariant, RequestOK, PerformedAtMostOnce,
                                      AnswersTellTheTruth, RejectionsAreExplained,
                                      AnswersMatchEffects, Undisturbed, NotOverwritten,
                                      TokenIsRead
  <2>7. QED
        BY <2>4, <2>5, <2>6, ChangeOfOneRequest
<1>4. QED
      BY <1>1, <1>2, <1>3

\* An answer comes with an effect or says that there was none, and a 401 of a second attempt
\* only to a request that is disturbed.
LEMMA AnswerKeepsInvariant ==
    ASSUME RequestInvariant, NEW r \in Requests, NEW status, NEW effects \in 0..1,
           OnItsWay(r), Answer(r, status, effects),
           status \in {200, 201, 204, 401, 500} \union Refusals,
           IsOk(status) => effects = 1,
           status \in {401} \union Refusals => effects = 0,
           status = 401 <=> request[r].with \notin accepted
    PROVE  RequestInvariant'
<1>1. CASE request[r].pc = "sending"
  <2>1. PICK s \in RequestStates : s = request[r]
        BY RequestIsTyped
  <2> DEFINE q == [s EXCEPT !.pc = "answered", !.answer = status]
  <2>2. status \in Statuses
        BY DEF Statuses, Refusals
  <2>3. q \in RequestStates
        BY ONLY <2>1, <2>2 DEF RequestStates, Steps
  <2>4. Update(r, q)
        BY <1>1, <2>1 DEF Answer
  <2>5. TypeOK'
        BY <1>1, <2>1, <2>3, <2>4 DEF RequestInvariant, TypeOK, RequestStates, Update,
                                      tokenVars, history, Unused, Answer, OnItsWay
  <2>6. ChangesOnly(r)
        BY <1>1, <2>1, <2>3, <2>4 DEF RequestInvariant, TypeOK, Update, tokenVars, history,
                                      ChangesOnly, Answer, OnItsWay
  <2>7. RequestOK(r)'
        BY <1>1, <2>1, <2>3, <2>4 DEF TypeOK, RequestStates, Update, tokenVars, history, Unused,
                                      RequestInvariant, RequestOK, PerformedAtMostOnce,
                                      AnswersTellTheTruth, RejectionsAreExplained,
                                      AnswersMatchEffects, Undisturbed, NotOverwritten, Answer,
                                      OnItsWay, IsOk, Refusals
  <2>8. QED
        BY <2>5, <2>6, <2>7, ChangeOfOneRequest
<1>2. CASE request[r].pc = "late"
  <2> DEFINE q == [Unused EXCEPT !.pc = "ended"]
  <2>1. file \in Tokens \union {Unreadable} /\ token \in Tokens \union {NoToken}
        BY RequestIsTyped
  <2>2. q \in RequestStates
        BY <2>1 DEF RequestStates, Unused, Steps
  <2>3. Update(r, q)
        BY <1>2 DEF Answer
  <2>4. TypeOK'
        BY <1>2, <2>2, <2>3 DEF RequestInvariant, TypeOK, RequestStates, Update, tokenVars,
                                history, Unused, Answer, OnItsWay
  <2>5. ChangesOnly(r)
        BY <1>2, <2>2, <2>3 DEF RequestInvariant, TypeOK, Update, tokenVars, history,
                                ChangesOnly, Answer, OnItsWay
  <2>6. RequestOK(r)'
        BY <1>2, <2>2, <2>3 DEF TypeOK, RequestStates, Update, tokenVars, history, Unused,
                                RequestInvariant, RequestOK, PerformedAtMostOnce,
                                AnswersTellTheTruth, RejectionsAreExplained,
                                AnswersMatchEffects, Undisturbed, NotOverwritten, Answer,
                                OnItsWay, IsOk, Refusals
  <2>7. QED
        BY <2>4, <2>5, <2>6, ChangeOfOneRequest
<1>3. QED
      BY <1>1, <1>2 DEF OnItsWay

\* fa takes an answer, or gives up: the status it tells follows from the answer.
LEMMA OutcomeKeepsInvariant ==
    ASSUME RequestInvariant, NEW r \in Requests,
           Retry(r) \/ Receive(r) \/ BodyBreaks(r) \/ Unreachable(r) \/ Handshake(r)
    PROVE  RequestInvariant'
<1>1. CASE Retry(r)
  <2> DEFINE q == [Unused EXCEPT !.pc = IF Reloads(TRUE) THEN "reading" ELSE "sending",
                          !.isRetry = TRUE,
                          !.with = IF Reloads(TRUE) THEN NoToken ELSE token]
  <2>1. file \in Tokens \union {Unreadable} /\ token \in Tokens \union {NoToken}
        BY RequestIsTyped
  <2>2. q \in RequestStates
        BY <2>1 DEF RequestStates, Unused, Steps
  <2>3. Update(r, q)
        BY <1>1 DEF Retry, ReadToken, ReadOrSend
  <2>4. TypeOK'
        BY <1>1, <2>2, <2>3 DEF RequestInvariant, TypeOK, RequestStates, Update, tokenVars,
                                history, Unused, Retry, Retries, ReadToken, ReadOrSend, Reloads
  <2>5. ChangesOnly(r)
        BY <1>1, <2>2, <2>3 DEF RequestInvariant, TypeOK, Update, tokenVars, history,
                                ChangesOnly, Retry, Retries, ReadToken, ReadOrSend, Reloads
  <2>6. RequestOK(r)'
        BY <1>1, <2>2, <2>3 DEF TypeOK, RequestStates, Update, tokenVars, history, Unused,
                                RequestInvariant, RequestOK, PerformedAtMostOnce,
                                AnswersTellTheTruth, RejectionsAreExplained,
                                AnswersMatchEffects, Undisturbed, NotOverwritten, Retry,
                                Retries, ReadToken, ReadOrSend, Reloads, Refusals
  <2>7. QED
        BY <2>4, <2>5, <2>6, ChangeOfOneRequest
<1>2. CASE Receive(r)
  <2>1. PICK s \in RequestStates : s = request[r]
        BY RequestIsTyped
  <2> DEFINE q == [Unused EXCEPT !.pc = "ended", !.answer = s.answer]
  <2>2. q \in RequestStates
        BY <2>1 DEF RequestStates, Unused, Steps
  <2>3. Update(r, q)
        BY <1>2, <2>1 DEF Receive, End
  <2>4. TypeOK'
        BY <1>2, <2>1, <2>2, <2>3 DEF RequestInvariant, TypeOK, RequestStates, Update,
                                      tokenVars, history, Unused, Receive, Retries, End,
                                      ClientStatus, toClientStatus
  <2>5. ChangesOnly(r)
        BY <1>2, <2>1, <2>2, <2>3 DEF RequestInvariant, TypeOK, Update, tokenVars, history,
                                      ChangesOnly, Receive, Retries, End, ClientStatus,
                                      toClientStatus
  <2>6. RequestOK(r)'
        BY <1>2, <2>1, <2>2, <2>3 DEF TypeOK, RequestStates, Update, tokenVars, history, Unused,
                                      RequestInvariant, RequestOK, PerformedAtMostOnce,
                                      AnswersTellTheTruth, RejectionsAreExplained,
                                      AnswersMatchEffects, Undisturbed, NotOverwritten, Receive,
                                      Retries, End, ClientStatus, toClientStatus, IsOk, Refusals
  <2>7. QED
        BY <2>4, <2>5, <2>6, ChangeOfOneRequest
<1>3. CASE BodyBreaks(r)
  <2>1. PICK s \in RequestStates : s = request[r]
        BY RequestIsTyped
  <2> DEFINE q == [Unused EXCEPT !.pc = "ended", !.answer = s.answer]
  <2>2. q \in RequestStates
        BY <2>1 DEF RequestStates, Unused, Steps
  <2>3. Update(r, q)
        BY <1>3, <2>1 DEF BodyBreaks, End
  <2>4. TypeOK'
        BY <1>3, <2>1, <2>2, <2>3 DEF RequestInvariant, TypeOK, RequestStates, Update,
                                      tokenVars, history, Unused, BodyBreaks, End
  <2>5. ChangesOnly(r)
        BY <1>3, <2>1, <2>2, <2>3 DEF RequestInvariant, TypeOK, Update, tokenVars, history,
                                      ChangesOnly, BodyBreaks, End
  <2>6. RequestOK(r)'
        BY <1>3, <2>1, <2>2, <2>3 DEF TypeOK, RequestStates, Update, tokenVars, history, Unused,
                                      RequestInvariant, RequestOK, PerformedAtMostOnce,
                                      AnswersTellTheTruth, RejectionsAreExplained,
                                      AnswersMatchEffects, Undisturbed, NotOverwritten,
                                      BodyBreaks, End, IsOk, Refusals
  <2>7. QED
        BY <2>4, <2>5, <2>6, ChangeOfOneRequest
<1>4. CASE Unreachable(r) /\ End(r, 503)
  <2>1. PICK s \in RequestStates : s = request[r]
        BY RequestIsTyped
  <2> DEFINE q == [Unused EXCEPT !.pc = "ended", !.answer = s.answer]
  <2>2. q \in RequestStates
        BY <2>1 DEF RequestStates, Unused, Steps
  <2>3. Update(r, q)
        BY <1>4, <2>1 DEF Unreachable, End
  <2>4. TypeOK'
        BY <1>4, <2>1, <2>2, <2>3 DEF RequestInvariant, TypeOK, RequestStates, Update,
                                      tokenVars, history, Unused, Unreachable, End
  <2>5. ChangesOnly(r)
        BY <1>4, <2>1, <2>2, <2>3 DEF RequestInvariant, TypeOK, Update, tokenVars, history,
                                      ChangesOnly, Unreachable, End
  <2>6. RequestOK(r)'
        BY <1>4, <2>1, <2>2, <2>3 DEF TypeOK, RequestStates, Update, tokenVars, history, Unused,
                                      RequestInvariant, RequestOK, PerformedAtMostOnce,
                                      AnswersTellTheTruth, RejectionsAreExplained,
                                      AnswersMatchEffects, Undisturbed, NotOverwritten,
                                      Unreachable, End, IsOk, Refusals
  <2>7. QED
        BY <2>4, <2>5, <2>6, ChangeOfOneRequest
<1>5. CASE Unreachable(r) /\ ~End(r, 503)
  <2>1. PICK s \in RequestStates : s = request[r]
        BY RequestIsTyped
  <2> DEFINE q == [s EXCEPT !.pc = "late"]
  <2>2. q \in RequestStates
        BY <2>1 DEF RequestStates, Unused, Steps
  <2>3. Update(r, q)
        BY <1>5, <2>1 DEF Unreachable
  <2>4. TypeOK'
        BY <1>5, <2>1, <2>2, <2>3 DEF RequestInvariant, TypeOK, RequestStates, Update,
                                      tokenVars, history, Unused, Unreachable
  <2>5. ChangesOnly(r)
        BY <1>5, <2>1, <2>2, <2>3 DEF RequestInvariant, TypeOK, Update, tokenVars, history,
                                      ChangesOnly, Unreachable
  <2>6. RequestOK(r)'
        BY <1>5, <2>1, <2>2, <2>3 DEF TypeOK, RequestStates, Update, tokenVars, history, Unused,
                                      RequestInvariant, RequestOK, PerformedAtMostOnce,
                                      AnswersTellTheTruth, RejectionsAreExplained,
                                      AnswersMatchEffects, Undisturbed, NotOverwritten,
                                      Unreachable, IsOk, Refusals
  <2>7. QED
        BY <2>4, <2>5, <2>6, ChangeOfOneRequest
<1>6. CASE Handshake(r)
  <2>1. TypeOK'
        BY <1>6 DEF RequestInvariant, TypeOK, tokenVars, history, Handshake
  <2>2. ChangesOnly(r)
        BY <1>6 DEF RequestInvariant, TypeOK, tokenVars, history, ChangesOnly, Handshake
  <2>3. RequestOK(r)'
        BY <1>6 DEF TypeOK, tokenVars, history, RequestInvariant, RequestOK,
                    PerformedAtMostOnce, AnswersTellTheTruth, RejectionsAreExplained,
                    AnswersMatchEffects, Undisturbed, NotOverwritten, Handshake, Refusals
  <2>4. QED
        BY <2>1, <2>2, <2>3, ChangeOfOneRequest
<1>7. QED
      BY <1>1, <1>2, <1>3, <1>4, <1>5, <1>6


\* Every step keeps the invariant.
LEMMA RequestStepKeepsInvariant == RequestInvariant /\ [Next]_vars => RequestInvariant'
<1> SUFFICES ASSUME RequestInvariant, [Next]_vars
             PROVE  RequestInvariant'
    OBVIOUS
<1>1. CASE UNCHANGED vars
      BY <1>1 DEF vars, tokenVars, history, RequestInvariant, TypeOK, PerformedAtMostOnce,
                  AnswersTellTheTruth, RejectionsAreExplained, AnswersMatchEffects, Undisturbed,
                  NotOverwritten
<1>2. ASSUME NEW r \in Requests, AnswerRejected(r)
      PROVE  RequestInvariant'
      BY <1>2, AnswerKeepsInvariant DEF AnswerRejected, IsOk, Refusals
<1>3. ASSUME NEW r \in Requests, AnswerAccepted(r)
      PROVE  RequestInvariant'
  <2>1. Contract[Calls[r]].success \in {200, 201, 204}
        BY <1>3, SuccessesAre2xx
  <2>2. CASE Answer(r, Contract[Calls[r]].success, 1)
        BY <1>3, <2>1, <2>2, AnswerKeepsInvariant DEF AnswerAccepted, Refusals
  <2>3. ASSUME NEW status \in Refusals, Answer(r, status, 0)
        PROVE  RequestInvariant'
        BY <1>3, <2>3, AnswerKeepsInvariant DEF AnswerAccepted, IsOk, Refusals
  <2>4. ASSUME NEW effects \in 0..1, Answer(r, 500, effects)
        PROVE  RequestInvariant'
        BY <1>3, <2>4, AnswerKeepsInvariant DEF AnswerAccepted, IsOk, Refusals
  <2>5. QED
        BY <1>3, <2>2, <2>3, <2>4 DEF AnswerAccepted
<1>4. CASE Next
      BY <1>2, <1>3, <1>4, RotationKeepsInvariant, BeginKeepsInvariant, TokenStepsKeepInvariant,
         OutcomeKeepsInvariant
         DEF Next, RequestStep
<1>5. QED
      BY <1>1, <1>4

\* RequestInvariant holds in every state that fa and Specter reach.
THEOREM RequestInvariantHolds == Spec => []RequestInvariant
BY RequestInit, RequestStepKeepsInvariant, PTL DEF Spec

-------------------------------------------------------------------------------
\* Every reachable state is type correct, and a client is given a status exactly when its request
\* is over for fa.
THEOREM RequestTypes == Spec => []TypeOK
<1>1. RequestInvariant => TypeOK
      BY DEF RequestInvariant
<1>2. QED
      BY <1>1, RequestInvariantHolds, PTL

\* Over both attempts, and whatever is lost or late, Specter performs a request at most once: the
\* retry of specterHttpClient.ts:106 follows only a 401, which performs nothing.
THEOREM PerformedOnce == Spec => []PerformedAtMostOnce
<1>1. RequestInvariant => PerformedAtMostOnce
      BY DEF RequestInvariant
<1>2. QED
      BY <1>1, RequestInvariantHolds, PTL

\* A client who is told of a success had it performed, and one who is told that the request was
\* wrong had nothing performed.
THEOREM ToldTheTruth == Spec => []AnswersTellTheTruth
<1>1. RequestInvariant => AnswersTellTheTruth
      BY DEF RequestInvariant
<1>2. QED
      BY <1>1, RequestInvariantHolds, PTL

\* The token costs a request its answer only while the operators rotate it, whatever other requests
\* store of it and in whatever order their reads of the file end; a handshake, which is not tried
\* again, may also fail for what another request has stored.
THEOREM RejectionsExplained == Spec => []RejectionsAreExplained
<1>1. RequestInvariant => RejectionsAreExplained
      BY DEF RequestInvariant
<1>2. QED
      BY <1>1, RequestInvariantHolds, PTL
================================================================================
