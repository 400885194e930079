-------------------------------- MODULE Accounts --------------------------------
(***************************************************************************)
(* src/src/auth and src/src/users: how accounts come to be and change,     *)
(* how users sign in, and the codes that verify their email addresses.     *)
(*                                                                         *)
(* Accounts are rows of Supabase's table of users. Registration and the    *)
(* first sign-in with Google look for a row, and create one later when     *)
(* there was none; other requests come between. Pending verifications live *)
(* in fa's memory, one for each address. Every await ends an action.       *)
(***************************************************************************)
EXTENDS Integers, Sequences, FiniteSets

CONSTANTS
    Names,        \* usernames
    Emails,       \* email addresses, in lower case
    Addresses,    \* the same as Google may write them, with capitals or without
    LowerCase,    \* LowerCase[a]: the address a in lower case
    Requests,     \* registrations and sign-ins at a time
    None,         \* null
    TTL,          \* the life of a code, 15 minutes, in ticks of the clock
    MaxUsers,     \* bound: the rows that are ever inserted
    MaxUpdates,   \* bound: the changes of rows
    MaxCodes,     \* bound: the codes that are generated
    MaxTime       \* bound: the clock

Roles == {"admin", "operator", "viewer"}
Rows == [id : 1..MaxUsers, username : Names, email : Addresses, role : Roles,
         password : {"hash", "text"}]

\* What verificationStore keeps of an address.
Pendings == [code : Nat, expiresAt : Nat, user : Rows]

ASSUME AccountsAssumption ==
    /\ Emails \subseteq Addresses
    /\ LowerCase \in [Addresses -> Emails] /\ \A e \in Emails : LowerCase[e] = e
    /\ None \notin Names \union Addresses \union Rows \union Pendings
    /\ Requests \intersect (Addresses \union {None}) = {}
    /\ TTL \in Nat /\ MaxUsers \in Nat /\ MaxUpdates \in Nat /\ MaxCodes \in Nat /\ MaxTime \in Nat

VARIABLES
    users,        \* the rows of the table
    unique,       \* the columns that the table keeps unique, which this repository does not say
    inserted,     \* the rows inserted so far, which gives the next id
    updates,      \* the changes of rows so far
    verificationStore,  \* the pending verification of an address, or None
    now,          \* Date.now()
    request,      \* request[r]: the state of a registration or a sign-in
    answer,       \* the answer that the last step gave, if any
    codes,        \* history: the codes generated, with their address and their time
    spent,        \* history: the codes that have verified an address, or went with the process
    existed,      \* history: the rows that were in the table at any time
    seen,         \* history: the rows that were in the table at a time since r began
    missed        \* history: the requests for which, at a time since they began, the table did
                  \* not hold one row of the username or address that they look for

table == <<users, unique, inserted, updates>>
memory == <<verificationStore, codes, spent>>
history == <<existed, seen, missed>>
vars == <<table, memory, now, request, answer, history>>

Columns == {"username", "email"}

\* pc: where it is; kind: what it is; username, email: what the client sent, or Google says;
\* user: the row it has found or created.
Unused == [pc |-> "unused", kind |-> "login", username |-> None, email |-> None, user |-> None]

\* about: the request or the address it answers; code: the code that was tried; told: its status;
\* user: the account that it gives a token for.
Answer(about, code, told, user) == [about |-> about, code |-> code, told |-> told, user |-> user]
NoAnswer == Answer(None, 0, 0, None)

Init ==
    /\ users = {}
    /\ unique \in {{}, Columns}
    /\ inserted = 0 /\ updates = 0
    /\ verificationStore = [e \in Emails |-> None]
    /\ codes = <<>> /\ spent = {}
    /\ now = 0
    /\ request = [r \in Requests |-> Unused]
    /\ answer = NoAnswer
    /\ existed = {}
    /\ seen = [r \in Requests |-> {}]
    /\ missed = {}

-------------------------------------------------------------------------------
(* supabaseUserRepository.ts *)

\* findOne: single() answers the same error for no row and for several.
Matching(column, value) == {row \in users : row[column] = value}
findOne(column, value) ==
    IF Cardinality(Matching(column, value)) = 1
        THEN CHOOSE row \in Matching(column, value) : TRUE
        ELSE None

\* The database refuses a value that another row has in a unique column.
Fits(row, others) == \A column \in unique : \A other \in others : row[column] # other[column]

\* Passwords are hashed before they are inserted.
Row(username, email, role) ==
    [id |-> inserted + 1, username |-> username, email |-> email, role |-> role,
     password |-> "hash"]

InsertUnawaited(row) == inserted' = inserted + 1 /\ UNCHANGED <<users, unique, updates>>
Insert(row) ==
    /\ users' = users \union {row}
    /\ inserted' = inserted + 1
    /\ UNCHANGED <<unique, updates>>

\* What a request looks for: a username, or the address that Google says, which getUserByEmail puts
\* into lower case. createGoogleUser inserts it as it is.
Column(kind) == IF kind = "google" THEN "email" ELSE "username"
Key(r) == IF request[r].kind = "google" THEN LowerCase[request[r].email] ELSE request[r].username

IsServed(r) == request[r].pc # "unused"
SeenNow(r) == IF IsServed(r) THEN users ELSE {}
Looking(r) == request[r].pc \in {"finding", "creating"}
MissedNow == {r \in Requests : Looking(r) /\ findOne(Column(request[r].kind), Key(r)) = None}

\* Every step but a request's first keeps its history up to date.
Observe ==
    /\ existed' = existed \union users'
    /\ seen' = [r \in Requests |-> IF IsServed(r)' THEN seen[r] \union SeenNow(r)' ELSE {}]
    /\ missed' = {r \in missed : Looking(r)'} \union MissedNow'

Quietly == UNCHANGED <<table, memory, now>> /\ Observe

-------------------------------------------------------------------------------
(* userController.ts, behind the middlewares of userRoutes.ts: each is one call of the table,  *)
(* and what it checks is in the caller's token.                                                *)

ChangesTable == UNCHANGED <<memory, now, request>> /\ answer' = NoAnswer /\ Observe

requireCreationRole(caller, role) == caller = "admin" \/ (caller = "operator" /\ role = "viewer")

CreateUser(caller, username, email, role) ==
    /\ inserted < MaxUsers
    /\ requireCreationRole(caller, role)
    /\ Fits(Row(username, email, role), users)
    /\ Insert(Row(username, email, role))
    /\ ChangesTable

\* updateUser stores the fields as they are sent: an address in lower case, any of the roles, and
\* a password as its text. Bound: one field at a time.
Changed(row, field, value) == [row EXCEPT ![field] = value]
Updates == [username |-> Names, email |-> Emails, role |-> Roles, password |-> {"text"}]

canAccessUser(caller, callerId, id) == caller = "admin" \/ callerId = id

UpdateUser(caller, callerId, row, field, value) ==
    /\ updates < MaxUpdates
    /\ canAccessUser(caller, callerId, row.id)
    /\ Fits(Changed(row, field, value), users \ {row})
    /\ users' = (users \ {row}) \union {Changed(row, field, value)}
    /\ updates' = updates + 1
    /\ UNCHANGED <<unique, inserted>>
    /\ ChangesTable

DeleteUser(row) ==
    /\ updates < MaxUpdates
    /\ users' = users \ {row}
    /\ updates' = updates + 1
    /\ UNCHANGED <<unique, inserted>>
    /\ ChangesTable

UserChange ==
    \/ \E caller \in {"admin", "operator"}, role \in Roles, n \in Names, e \in Emails :
           CreateUser(caller, n, e, role)
    \/ \E row \in users :
           \/ DeleteUser(row)
           \/ \E caller \in Roles, callerId \in 1..MaxUsers, field \in DOMAIN Updates :
                 \E value \in Updates[field] \ {row[field]} :
                     UpdateUser(caller, callerId, row, field, value)

-------------------------------------------------------------------------------
(* registerUser, localStrategy.ts and googleStrategy.ts *)

Update(r, state) == request' = [request EXCEPT ![r] = state] /\ answer' = NoAnswer
End(r, told, user) ==
    request' = [request EXCEPT ![r] = Unused] /\ answer' = Answer(r, 0, told, user)

Begin(r, kind, username, email) ==
    /\ ~IsServed(r)
    /\ kind = "google" => username = None
    /\ kind = "login" => email = None
    /\ Update(r, [Unused EXCEPT !.pc = "finding", !.kind = kind, !.username = username,
                               !.email = email])
    /\ UNCHANGED <<table, memory, now, existed>>
    /\ seen' = [seen EXCEPT ![r] = users]
    /\ missed' = IF r \in MissedNow' THEN missed \union {r} ELSE missed \ {r}

\* Supabase, or Google, fails.
Fail(r) ==
    /\ IsServed(r)
    /\ End(r, 500, None)
    /\ Quietly

\* Google's token is not valid, or its address is not verified.
RejectGoogleToken(r) ==
    /\ request[r].pc = "finding" /\ request[r].kind = "google"
    /\ End(r, 401, None)
    /\ Quietly

FoundByName(r) == findOne("username", request[r].username)
Found(r) == findOne(Column(request[r].kind), Key(r))

Find(r) ==
    /\ request[r].pc = "finding"
    /\ IF Found(r) = None
           THEN IF request[r].kind = "login"
                    THEN End(r, 401, None)
                    ELSE Update(r, [request[r] EXCEPT !.pc = "creating"])
           ELSE CASE request[r].kind = "login" ->
                         Update(r, [request[r] EXCEPT !.pc = "comparing", !.user = Found(r)])
                  [] request[r].kind = "register" -> End(r, 409, None)
                  [] request[r].kind = "google" -> End(r, 200, Found(r))
    /\ Quietly

\* bcrypt.compare: a password that was stored as its text matches nothing.
Compare(r) ==
    /\ request[r].pc = "comparing"
    /\ \/ request[r].user.password = "hash" /\ End(r, 200, request[r].user)
       \/ End(r, 401, None)
    /\ Quietly

\* The password is hashed, which is awaited, and the row inserted. generateUsername makes up the
\* username of a Google user; it may be taken.
Create(r) ==
    /\ request[r].pc = "creating"
    /\ inserted < MaxUsers
    /\ \E n \in IF request[r].kind = "google" THEN Names ELSE {request[r].username} :
          LET row == Row(n, request[r].email, "viewer") IN
              IF Fits(row, users)
                  THEN /\ Insert(row)
                       /\ \/ Update(r, [request[r] EXCEPT !.pc = "created", !.user = row])
                          \/ End(r, 500, None)
                  ELSE End(r, 500, None) /\ UNCHANGED table
    /\ UNCHANGED <<memory, now>>
    /\ Observe

\* Code n = Len(codes) + 1, generated now for an address.
Generate(e) == codes' = Append(codes, [email |-> e, at |-> now])
Expiry == now + TTL

\* The row is created: the tokens are signed, and a registration waits for its verification, in
\* the place of an earlier one of that address. Mails are sent in the background.
FinishGoogle(r) ==
    /\ request[r].pc = "created" /\ request[r].kind = "google"
    /\ End(r, 200, request[r].user)
    /\ Quietly

FinishRegistration(r) ==
    /\ request[r].pc = "created" /\ request[r].kind = "register"
    /\ Len(codes) < MaxCodes
    /\ LET e == request[r].email IN
           /\ Generate(e)
           /\ verificationStore' = [verificationStore EXCEPT ![e] =
                  [code |-> Len(codes) + 1, expiresAt |-> Expiry, user |-> request[r].user]]
    /\ End(r, 201, request[r].user)
    /\ UNCHANGED <<table, spent, now>>
    /\ Observe

-------------------------------------------------------------------------------
(* verifyCode and resendVerificationCode, which run without an await up to their answer. *)

KeepPending(e) == verificationStore
Forget(e) == [verificationStore EXCEPT ![e] = None]

IsExpired(pending) == now > pending.expiresAt

Verify(e, n) ==
    /\ LET pending == verificationStore[e] IN
           IF pending = None \/ (~IsExpired(pending) /\ pending.code # n)
               THEN answer' = Answer(e, n, 400, None) /\ UNCHANGED <<verificationStore, spent>>
           ELSE IF IsExpired(pending)
               THEN /\ answer' = Answer(e, n, 400, None)
                    /\ verificationStore' = Forget(e)
                    /\ UNCHANGED spent
           ELSE /\ answer' = Answer(e, n, 200, pending.user)
                /\ verificationStore' = Forget(e)
                /\ spent' = spent \union {n}
    /\ UNCHANGED <<table, now, codes, request>>
    /\ Observe

KeepCode(pending) == [pending EXCEPT !.expiresAt = Expiry]
KeepExpiry(pending) == [pending EXCEPT !.code = Len(codes) + 1]
Renew(pending) == [pending EXCEPT !.code = Len(codes) + 1, !.expiresAt = Expiry]

\* A code is also renewed after it has expired. The mail may be late, or lost.
Resend(e) ==
    /\ verificationStore[e] # None
    /\ Len(codes) < MaxCodes
    /\ Generate(e)
    /\ verificationStore' = [verificationStore EXCEPT ![e] = Renew(@)]
    /\ UNCHANGED <<table, spent, now, request>>
    /\ answer' = NoAnswer
    /\ Observe

\* Bound: time only passes while a verification is pending.
Tick ==
    /\ now < MaxTime
    /\ \E e \in Emails : verificationStore[e] # None
    /\ now' = now + 1
    /\ UNCHANGED <<table, memory, request>>
    /\ answer' = NoAnswer
    /\ Observe

\* fa restarts: the pending verifications and the requests are lost, the rows stay.
Restart ==
    /\ verificationStore' = [e \in Emails |-> None]
    /\ spent' = spent \union DOMAIN codes
    /\ request' = [r \in Requests |-> Unused]
    /\ UNCHANGED <<table, now, codes>>
    /\ answer' = NoAnswer
    /\ Observe

-------------------------------------------------------------------------------
Next ==
    \/ UserChange
    \/ \E r \in Requests, n \in Names, e \in Emails, a \in Addresses :
           Begin(r, "login", n, None) \/ Begin(r, "register", n, e) \/ Begin(r, "google", None, a)
    \/ \E r \in Requests :
           \/ Fail(r) \/ RejectGoogleToken(r) \/ Find(r) \/ Compare(r) \/ Create(r)
           \/ FinishGoogle(r) \/ FinishRegistration(r)
    \/ \E e \in Emails : Resend(e)
    \/ \E e \in Emails, n \in DOMAIN codes : Verify(e, n)
    \/ Tick
    \/ Restart

Spec == Init /\ [][Next]_vars

-------------------------------------------------------------------------------
Steps == {"unused", "finding", "comparing", "creating", "created"}

IsLatest(e, n) ==
    /\ n \in DOMAIN codes /\ codes[n].email = e
    /\ \A later \in n + 1 .. Len(codes) : codes[later].email # e

\* Type correctness; rows differ in their ids and in the unique columns, and a pending
\* verification holds the last code of its address and a user who registered with it.
TypeOK ==
    /\ users \subseteq Rows
    /\ \A row, other \in users : row # other =>
          row.id # other.id /\ \A column \in unique : row[column] # other[column]
    /\ inserted \in 0..MaxUsers /\ updates \in 0..MaxUpdates /\ now \in 0..MaxTime
    /\ codes \in Seq([email : Emails, at : 0..MaxTime]) /\ Len(codes) <= MaxCodes
    /\ spent \subseteq DOMAIN codes
    /\ \A e \in Emails : verificationStore[e] # None =>
          LET pending == verificationStore[e] IN
              /\ pending.user \in Rows /\ pending.user.email = e
              /\ IsLatest(e, pending.code)
              /\ pending.expiresAt \in Nat
    /\ \A r \in Requests :
          /\ request[r].pc \in Steps /\ request[r].kind \in {"login", "register", "google"}
          /\ request[r].user \in Rows \union {None}
    /\ answer.told \in {0, 200, 201, 400, 401, 409, 500}
    /\ missed \subseteq Requests

\* A code verifies the address it was generated for, once, within its 15 minutes, and only until
\* the next one is generated, whatever registrations, mails and attempts cross.
CodesVerifyOnce ==
    [][answer'.code # 0 /\ answer'.user # None =>
          LET n == answer'.code IN
              /\ IsLatest(answer'.about, n) /\ n \notin spent
              /\ now <= codes[n].at + TTL
              /\ answer'.user.email = answer'.about]_vars

\* The other way round: the last code that a user was sent works for its 15 minutes, also when it
\* replaced one that had expired, unless it was used or fa has restarted.
LatestCodeWorks ==
    [][answer'.code # 0 =>
          LET n == answer'.code IN
              IsLatest(answer'.about, n) /\ n \notin spent /\ now <= codes[n].at + TTL
                  => answer'.user # None]_vars

\* Whoever gets a token has, or had, an account. Who registers or signs in gets the token of a row
\* as it was in the table, with its role, at a time since they asked, whoever changed its role, name
\* or address, deleted it or created it meanwhile. verifyCode gives the token of the registration:
\* its row, a viewer's, was in the table once, but may have been changed or deleted long since.
TokensNameTheirUsers ==
    [][answer'.user # None =>
          /\ answer'.user \in existed
          /\ answer'.about \in Requests => answer'.user \in seen[answer'.about]
          /\ answer'.about \in Emails => answer'.user.role = "viewer"]_vars

\* Check, then act: a row is only created when, at a time since the request began, the table did
\* not hold one row of the username or address that it is created with; so, where the table has no
\* unique columns, two rows of a name stay only when something came between. The address is one in
\* lower case: when Google writes it with capitals, there may be a row of it that way, which the
\* next sign-in does not find. "Username already exists" is only told when the name was taken then.
ChecksWereTrue ==
    [][/\ \A r \in Requests :
             request[r].pc = "creating" /\ inserted' > inserted /\ request'[r] # request[r]
                 => r \in missed
       /\ answer'.told = 409 =>
             \E row \in seen[answer'.about] : row.username = request[answer'.about].username]_vars

-------------------------------------------------------------------------------
(* The inductive invariant. *)

Kinds == {"register", "login", "google"}
Visits == [pc : Steps, kind : Kinds, username : Names \union {None},
           email : Addresses \union {None}, user : Rows \union {None}]

\* A request has what its next steps use: what the client sent, an account that it has seen, or
\* the fact that there was none.
FollowsItsWay(r) ==
    LET q == request[r] IN
        /\ q.pc # "unused" =>
              /\ users \subseteq seen[r]
              /\ q.kind # "google" => q.username \in Names
              /\ q.kind = "register" => q.email \in Emails
              /\ q.kind = "google" => q.email \in Addresses
        /\ q.pc = "creating" => r \in missed
        /\ q.pc \in {"creating", "created"} => q.kind # "login"
        /\ q.pc \in {"comparing", "created"} => q.user \in seen[r]
        /\ q.pc = "created" => q.user.email = q.email /\ q.user.role = "viewer"

\* A pending verification has the last code of its address, not used yet, with the time it was
\* generated at. Where there is none, that code was used or forgotten too late to be of use.
KnowsItsCode(e) ==
    LET pending == verificationStore[e] IN
        IF pending # None
            THEN /\ pending \in Pendings /\ pending.user.email = e
                 /\ IsLatest(e, pending.code) /\ pending.code \notin spent
                 /\ pending.expiresAt = codes[pending.code].at + TTL
            ELSE \A n \in DOMAIN codes : IsLatest(e, n) => n \in spent \/ now > codes[n].at + TTL

\* Its token is that of a row, a viewer's, which was in the table.
ComesFromItsRow(e) ==
    LET pending == verificationStore[e] IN
        pending # None => pending.user \in existed /\ pending.user.role = "viewer"

AccountsInvariant ==
    /\ TypeOK
    /\ unique \in {{}, Columns}
    /\ \A row \in users : row.id <= inserted
    /\ request \in [Requests -> Visits]
    /\ existed \subseteq Rows /\ users \subseteq existed
    /\ seen \in [Requests -> SUBSET existed]
    /\ DOMAIN verificationStore = Emails
    /\ \A r \in Requests : FollowsItsWay(r)
    /\ \A e \in Emails : KnowsItsCode(e) /\ ComesFromItsRow(e)
================================================================================
