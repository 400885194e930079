---------------------------- MODULE AccountsProofs ----------------------------
(***************************************************************************)
(* Proofs about Accounts, for any names, addresses and requests, any life  *)
(* of a code and any bounds, over restarts and changes of the table at any *)
(* time, and whether or not the table keeps its columns unique.            *)
(*                                                                         *)
(* The inductive invariant is AccountsInvariant, in parts that the steps   *)
(* disturb separately: the table, the pending verifications with their     *)
(* codes and their rows, and what each request carries from one await to   *)
(* the next.                                                               *)
(***************************************************************************)
EXTENDS Accounts, FiniteSetTheorems, SequenceTheorems, TLAPS

USE AccountsAssumption

TableInvariant ==
    /\ users \subseteq Rows
    /\ unique \in {{}, Columns}
    /\ \A row, other \in users : row # other =>
          row.id # other.id /\ \A column \in unique : row[column] # other[column]
    /\ \A row \in users : row.id <= inserted
    /\ inserted \in 0..MaxUsers /\ updates \in 0..MaxUpdates

MemoryInvariant ==
    /\ now \in 0..MaxTime
    /\ codes \in Seq([email : Emails, at : 0..MaxTime]) /\ Len(codes) <= MaxCodes
    /\ spent \subseteq DOMAIN codes
    /\ DOMAIN verificationStore = Emails
    /\ \A e \in Emails : KnowsItsCode(e)

RequestsInvariant ==
    /\ request \in [Requests -> Visits]
    /\ existed \subseteq Rows /\ users \subseteq existed
    /\ seen \in [Requests -> SUBSET existed]
    /\ missed \subseteq Requests
    /\ \A r \in Requests : FollowsItsWay(r)

PendingsInvariant == \A e \in Emails : ComesFromItsRow(e)

Statuses == {0, 200, 201, 400, 401, 409, 500}
AnswerInvariant == answer.told \in Statuses

\* The parts and the answer's status make up AccountsInvariant.
LEMMA PartsOfTheInvariant ==
    AccountsInvariant <=>
        /\ TableInvariant /\ MemoryInvariant /\ RequestsInvariant /\ PendingsInvariant
        /\ AnswerInvariant
<1>1. AccountsInvariant => TableInvariant
      BY DEF AccountsInvariant, TypeOK, TableInvariant
<1>2. AccountsInvariant => MemoryInvariant
      BY DEF AccountsInvariant, TypeOK, MemoryInvariant
<1>3. AccountsInvariant => RequestsInvariant /\ PendingsInvariant /\ AnswerInvariant
      BY DEF AccountsInvariant, TypeOK, RequestsInvariant, PendingsInvariant, AnswerInvariant,
             Statuses
<1>4. ASSUME MemoryInvariant, NEW e \in Emails, verificationStore[e] # None
      PROVE  LET pending == verificationStore[e] IN
                 /\ pending.user \in Rows /\ pending.user.email = e
                 /\ IsLatest(e, pending.code)
                 /\ pending.expiresAt \in Nat
      BY <1>4 DEF MemoryInvariant, KnowsItsCode, Pendings
<1>5. ASSUME RequestsInvariant, NEW r \in Requests
      PROVE  /\ request[r].pc \in Steps /\ request[r].kind \in {"login", "register", "google"}
             /\ request[r].user \in Rows \union {None}
  <2>1. request[r] \in Visits
        BY <1>5 DEF RequestsInvariant
  <2>2. QED
        BY <2>1 DEF Visits, Kinds
<1>6. TableInvariant /\ MemoryInvariant /\ RequestsInvariant /\ AnswerInvariant => TypeOK
      BY <1>4, <1>5 DEF TableInvariant, MemoryInvariant, RequestsInvariant, AnswerInvariant,
                        Statuses, TypeOK
<1>7. QED
      BY <1>1, <1>2, <1>3, <1>6 DEF TableInvariant, MemoryInvariant, RequestsInvariant,
                                    PendingsInvariant, AccountsInvariant

\* When fa starts nothing is pending and the table is empty.
LEMMA AccountsInit == Init => AccountsInvariant
<1> SUFFICES ASSUME Init PROVE AccountsInvariant
    OBVIOUS
<1>1. TableInvariant
      BY DEF Init, TableInvariant
<1>2. MemoryInvariant
  <2>1. codes \in Seq([email : Emails, at : 0..MaxTime]) /\ Len(codes) = 0 /\ DOMAIN codes = {}
        BY DEF Init
  <2>2. ASSUME NEW e \in Emails
        PROVE  KnowsItsCode(e)
        BY <2>1 DEF Init, KnowsItsCode
  <2>3. QED
        BY <2>1, <2>2 DEF Init, MemoryInvariant
<1>3. RequestsInvariant
  <2>1. Unused \in Visits /\ Unused.pc = "unused"
        BY DEF Unused, Visits, Steps, Kinds
  <2>2. ASSUME NEW r \in Requests
        PROVE  FollowsItsWay(r)
        BY <2>1 DEF Init, FollowsItsWay
  <2>3. QED
        BY <2>1, <2>2 DEF Init, RequestsInvariant
<1>4. AnswerInvariant
      BY DEF Init, NoAnswer, Answer, AnswerInvariant, Statuses
<1>5. PendingsInvariant
      BY DEF Init, PendingsInvariant, ComesFromItsRow
<1>6. QED
      BY <1>1, <1>2, <1>3, <1>4, <1>5, PartsOfTheInvariant

-------------------------------------------------------------------------------
(* The table. *)

\* findOne answers a row of the table that has the value, or None.
LEMMA FoundIsThere ==
    ASSUME NEW column, NEW value, findOne(column, value) # None
    PROVE  findOne(column, value) \in users /\ findOne(column, value)[column] = value
<1>1. Cardinality(Matching(column, value)) = 1
      BY DEF findOne
<1>2. Matching(column, value) # {}
      BY <1>1, FS_EmptySet
<1>3. findOne(column, value) \in Matching(column, value)
      BY <1>1, <1>2, Zenon DEF findOne
<1>4. QED
      BY <1>3 DEF Matching

\* A new row differs from the others in its id, and in the unique columns.
LEMMA InsertIsSound ==
    ASSUME TableInvariant, NEW u \in Names, NEW e \in Addresses, NEW role \in Roles,
           inserted < MaxUsers, Fits(Row(u, e, role), users), Insert(Row(u, e, role))
    PROVE  TableInvariant' /\ Row(u, e, role) \in Rows
<1> DEFINE new == Row(u, e, role)
<1>1. new \in Rows /\ new.id = inserted + 1
      BY DEF Row, Rows, TableInvariant
<1>2. \A row \in users : new.id # row.id /\ \A column \in unique : new[column] # row[column]
  <2>1. \A row \in users : new.id # row.id
        BY <1>1 DEF TableInvariant, Rows
  <2>2. QED
        BY <2>1 DEF Fits
<1>3. users' = users \union {new} /\ inserted' = inserted + 1 /\ unique' = unique
      /\ updates' = updates
      BY DEF Insert
<1> HIDE DEF new
<1>4. \A row, other \in users' : row # other =>
          row.id # other.id /\ \A column \in unique : row[column] # other[column]
      BY <1>2, <1>3 DEF TableInvariant
<1>5. \A row \in users' : row.id <= inserted'
      BY <1>1, <1>3 DEF TableInvariant, Rows
<1>6. QED
      BY <1>1, <1>3, <1>4, <1>5 DEF TableInvariant, new

\* A changed row keeps its id and still differs in the unique columns.
LEMMA UpdateIsSound ==
    ASSUME TableInvariant, NEW row \in users, NEW new \in Rows, new.id = row.id,
           Fits(new, users \ {row}), users' = (users \ {row}) \union {new},
           updates < MaxUpdates, updates' = updates + 1, UNCHANGED <<unique, inserted>>
    PROVE  TableInvariant'
<1>1. \A other \in users \ {row} :
          new.id # other.id /\ \A column \in unique : new[column] # other[column]
      BY DEF TableInvariant, Fits
<1>2. \A one, other \in users' : one # other =>
          one.id # other.id /\ \A column \in unique : one[column] # other[column]
      BY <1>1 DEF TableInvariant
<1>3. QED
      BY <1>2 DEF TableInvariant

\* Without a row the others still differ.
LEMMA DeleteIsSound ==
    ASSUME TableInvariant, NEW row \in users, DeleteUser(row)
    PROVE  TableInvariant'
BY DEF DeleteUser, TableInvariant

\* Whatever administrators, operators and the users themselves change, the table stays sound.
LEMMA UserChangeIsSound ==
    ASSUME TableInvariant, UserChange
    PROVE  TableInvariant'
<1>1. ASSUME NEW caller, NEW n \in Names, NEW e \in Emails, NEW role \in Roles,
             CreateUser(caller, n, e, role)
      PROVE  TableInvariant'
      BY <1>1, InsertIsSound DEF CreateUser
<1>2. ASSUME NEW row \in users, NEW caller, NEW callerId,
             NEW field \in DOMAIN Updates, NEW value \in Updates[field],
             UpdateUser(caller, callerId, row, field, value)
      PROVE  TableInvariant'
  <2>1. row \in Rows
        BY DEF TableInvariant
  <2>2. Changed(row, field, value) \in Rows /\ Changed(row, field, value).id = row.id
    <3>1. CASE field = "username"
          BY <2>1, <3>1, <1>2 DEF Changed, Rows, Updates
    <3>2. CASE field = "email"
          BY <2>1, <3>2, <1>2 DEF Changed, Rows, Updates
    <3>3. CASE field = "role"
          BY <2>1, <3>3, <1>2 DEF Changed, Rows, Updates
    <3>4. CASE field = "password"
          BY <2>1, <3>4, <1>2 DEF Changed, Rows, Updates
    <3>5. QED
          BY <1>2, <3>1, <3>2, <3>3, <3>4 DEF Updates
  <2>3. QED
        BY <1>2, <2>2, UpdateIsSound DEF UpdateUser
<1>3. QED
      BY <1>1, <1>2, DeleteIsSound DEF UserChange

-------------------------------------------------------------------------------
(* The pending verifications. *)

\* A code that was generated has an address and a time.
LEMMA CodesAreTyped ==
    ASSUME MemoryInvariant, NEW n \in DOMAIN codes
    PROVE  n \in Nat /\ codes[n].email \in Emails /\ codes[n].at \in 0..MaxTime
<1> DEFINE Codes == [email : Emails, at : 0..MaxTime]
<1>1. codes \in Seq(Codes)
      BY DEF MemoryInvariant
<1> HIDE DEF Codes
<1>2. n \in 1..Len(codes)
      BY <1>1
<1>3. codes[n] \in Codes
      BY <1>1, <1>2, ElementOfSeq
<1>4. QED
      BY <1>2, <1>3 DEF Codes

\* A new code is the last of its address, and the last codes of the others stay theirs.
LEMMA NewCodeIsLatest ==
    ASSUME MemoryInvariant, NEW e \in Emails, NEW n, n = Len(codes) + 1,
           Generate(e), Len(codes) < MaxCodes
    PROVE  /\ codes' \in Seq([email : Emails, at : 0..MaxTime]) /\ Len(codes') <= MaxCodes
           /\ DOMAIN codes' = DOMAIN codes \union {n}
           /\ n \in Nat /\ n \notin DOMAIN codes
           /\ \A m \in DOMAIN codes : codes'[m] = codes[m]
           /\ codes'[n].at = now
           /\ IsLatest(e, n)'
           /\ \A f \in Emails \ {e} : \A m : IsLatest(f, m)' <=> IsLatest(f, m)
<1> DEFINE new == [email |-> e, at |-> now]
           Codes == [email : Emails, at : 0..MaxTime]
<1>1. /\ codes \in Seq(Codes) /\ Len(codes) \in Nat /\ DOMAIN codes = 1..Len(codes)
      /\ new \in Codes /\ codes' = Append(codes, new)
      BY DEF MemoryInvariant, Generate
<1>2. /\ codes' \in Seq(Codes) /\ Len(codes') = n /\ DOMAIN codes' = 1..n
      /\ codes'[n] = new /\ \A m \in 1..Len(codes) : codes'[m] = codes[m]
      BY <1>1, AppendProperties
<1>3. IsLatest(e, n)'
  <2>1. n \in DOMAIN codes' /\ codes'[n].email = e
        BY <1>1, <1>2
  <2>2. n + 1 .. Len(codes') = {}
        BY <1>1, <1>2
  <2>3. QED
        BY <2>1, <2>2 DEF IsLatest
<1>4. ASSUME NEW f \in Emails \ {e}, NEW m
      PROVE  IsLatest(f, m)' <=> IsLatest(f, m)
  <2>1. CASE m = n
        BY <1>1, <1>2, <1>4, <2>1 DEF IsLatest
  <2>2. CASE m \in 1..Len(codes)
    <3>1. m + 1 .. n = (m + 1 .. Len(codes)) \union {n}
          BY <1>1, <2>2
    <3>2. QED
          BY <1>1, <1>2, <1>4, <2>2, <3>1 DEF IsLatest
  <2>3. CASE m \notin 1..n
        BY <1>1, <1>2, <2>3 DEF IsLatest
  <2>4. QED
        BY <1>1, <2>1, <2>2, <2>3
<1>5. QED
      BY <1>1, <1>2, <1>3, <1>4 DEF MemoryInvariant

\* An address has one last code.
LEMMA OneCodeIsLatest ==
    ASSUME MemoryInvariant, NEW e, NEW n, NEW m, IsLatest(e, n), IsLatest(e, m)
    PROVE  n = m
<1>1. Len(codes) \in Nat /\ n \in 1..Len(codes) /\ m \in 1..Len(codes)
      BY DEF MemoryInvariant, IsLatest
<1>2. ~(n < m) /\ ~(m < n)
      BY <1>1 DEF IsLatest
<1>3. QED
      BY <1>1, <1>2

\* The pending verification of an address gets a new code; those of the other addresses stay.
LEMMA GenerateIsSound ==
    ASSUME MemoryInvariant, NEW e \in Emails, NEW n, n = Len(codes) + 1,
           NEW pending \in Pendings, pending.user.email = e,
           pending.code = n, pending.expiresAt = now + TTL,
           Len(codes) < MaxCodes, Generate(e), now' = now, spent' = spent,
           verificationStore' = [verificationStore EXCEPT ![e] = pending]
    PROVE  MemoryInvariant'
<1>1. /\ DOMAIN verificationStore = Emails /\ spent \subseteq DOMAIN codes /\ now \in 0..MaxTime
      /\ codes'[n].at = now /\ IsLatest(e, n)' /\ n \in Nat /\ n \notin spent
  <2>1. DOMAIN verificationStore = Emails /\ spent \subseteq DOMAIN codes /\ now \in 0..MaxTime
        BY DEF MemoryInvariant
  <2>2. /\ codes'[n].at = now /\ IsLatest(e, n)'
        /\ n \in Nat /\ n \notin DOMAIN codes
        BY NewCodeIsLatest
  <2>3. QED
        BY <2>1, <2>2
<1>2. /\ codes' \in Seq([email : Emails, at : 0..MaxTime]) /\ Len(codes') <= MaxCodes
      /\ DOMAIN codes' = DOMAIN codes \union {n}
      BY NewCodeIsLatest
<1>3. KnowsItsCode(e)'
  <2>1. verificationStore'[e] = pending
        BY <1>1
  <2>2. QED
        BY <1>1, <2>1 DEF KnowsItsCode
<1>4. ASSUME NEW f \in Emails \ {e}
      PROVE  KnowsItsCode(f)'
  <2>1. /\ KnowsItsCode(f) /\ verificationStore'[f] = verificationStore[f]
        /\ \A m : IsLatest(f, m)' <=> IsLatest(f, m)
        /\ \A m \in DOMAIN codes : codes'[m] = codes[m]
        BY <1>1, <1>4, NewCodeIsLatest DEF MemoryInvariant
  <2>2. \A m : IsLatest(f, m) => m \in DOMAIN codes
        BY DEF IsLatest
  <2>3. QED
        BY <2>1, <2>2 DEF KnowsItsCode
<1>5. QED
      BY <1>1, <1>2, <1>3, <1>4 DEF MemoryInvariant

\* A code that is accepted is spent, one that has expired is forgotten, and others change nothing.
LEMMA VerifyIsSound ==
    ASSUME MemoryInvariant, NEW e \in Emails, NEW n \in DOMAIN codes, Verify(e, n)
    PROVE  MemoryInvariant'
<1> DEFINE pending == verificationStore[e]
<1>1. /\ codes' = codes /\ now' = now /\ now \in Int /\ DOMAIN verificationStore = Emails
      /\ spent \subseteq DOMAIN codes
      /\ \A f \in Emails : KnowsItsCode(f)
      BY DEF Verify, MemoryInvariant
<1>2. \A f, m : IsLatest(f, m)' <=> IsLatest(f, m)
      BY <1>1 DEF IsLatest
<1>3. CASE verificationStore' = verificationStore /\ spent' = spent
  <2>1. ASSUME NEW f \in Emails
        PROVE  KnowsItsCode(f)'
        BY <1>1, <1>2, <1>3 DEF KnowsItsCode
  <2>2. QED
        BY <1>1, <1>3, <2>1 DEF MemoryInvariant
<1>4. CASE /\ pending # None /\ verificationStore' = Forget(e)
           /\ \/ IsExpired(pending) /\ spent' = spent
              \/ pending.code = n /\ spent' = spent \union {n}
  <2>1. /\ IsLatest(e, pending.code) /\ pending.code \in DOMAIN codes
        /\ pending.expiresAt = codes[pending.code].at + TTL
        BY <1>1, <1>4 DEF KnowsItsCode, IsLatest
  <2>2. verificationStore'[e] = None
        BY <1>1, <1>4 DEF Forget
  <2>3. \A m \in DOMAIN codes :
            IsLatest(e, m) => m \in spent' \/ now > codes[m].at + TTL
        BY <1>4, <2>1, OneCodeIsLatest DEF IsExpired
  <2>4. KnowsItsCode(e)'
        BY <1>1, <1>2, <2>2, <2>3 DEF KnowsItsCode
  <2>5. ASSUME NEW f \in Emails \ {e}
        PROVE  KnowsItsCode(f)'
    <3>1. verificationStore'[f] = verificationStore[f] /\ KnowsItsCode(f)
          BY <1>1, <1>4 DEF Forget
    <3>2. \A m \in DOMAIN codes : IsLatest(f, m) => (m \in spent' <=> m \in spent)
          BY <1>4, <2>1, <2>5 DEF IsLatest
    <3>3. verificationStore[f] # None => verificationStore[f].code \in DOMAIN codes
          BY <3>1 DEF KnowsItsCode, IsLatest
    <3>4. QED
          BY <1>1, <1>2, <3>1, <3>2, <3>3 DEF KnowsItsCode
  <2>6. QED
        BY <1>1, <1>4, <2>4, <2>5 DEF MemoryInvariant, Forget
<1>5. QED
      BY <1>3, <1>4 DEF Verify

\* A renewed verification keeps its user.
LEMMA ResendIsSound ==
    ASSUME MemoryInvariant, NEW e \in Emails, Resend(e)
    PROVE  MemoryInvariant'
<1>1. PICK pending \in Pendings : pending = verificationStore[e] /\ pending.user.email = e
      BY DEF MemoryInvariant, KnowsItsCode, Resend
<1>2. PICK n : n = Len(codes) + 1
      OBVIOUS
<1>3. PICK expiry : expiry = now + TTL
      OBVIOUS
<1>4. n \in Nat /\ expiry \in Nat
      BY <1>2, <1>3 DEF MemoryInvariant
<1>5. PICK renewed : renewed = [pending EXCEPT !.code = n, !.expiresAt = expiry]
      OBVIOUS
<1>6. /\ renewed \in Pendings /\ renewed.user = pending.user
      /\ renewed.code = n /\ renewed.expiresAt = expiry
      BY <1>1, <1>4, <1>5 DEF Pendings
<1>7. verificationStore' = [verificationStore EXCEPT ![e] = renewed]
      BY <1>1, <1>2, <1>3, <1>5 DEF Resend, Renew, Expiry, MemoryInvariant
<1>8. QED
      BY <1>1, <1>2, <1>3, <1>6, <1>7, GenerateIsSound DEF Resend

\* As time passes codes only grow older.
LEMMA TickIsSound ==
    ASSUME MemoryInvariant, Tick
    PROVE  MemoryInvariant'
<1>1. /\ codes' = codes /\ spent' = spent /\ verificationStore' = verificationStore
      /\ now \in 0..MaxTime /\ now < MaxTime /\ now' = now + 1
      BY DEF Tick, memory, MemoryInvariant
<1>2. ASSUME NEW e \in Emails
      PROVE  KnowsItsCode(e)'
  <2>1. KnowsItsCode(e) /\ \A m : IsLatest(e, m)' <=> IsLatest(e, m)
        BY <1>1 DEF MemoryInvariant, IsLatest
  <2>2. \A m \in DOMAIN codes : codes[m].at \in Int
        BY CodesAreTyped
  <2>3. QED
        BY <1>1, <2>1, <2>2 DEF KnowsItsCode
<1>3. QED
      BY <1>1, <1>2 DEF MemoryInvariant

\* A restart spends every code.
LEMMA RestartForgets ==
    ASSUME MemoryInvariant, Restart
    PROVE  MemoryInvariant'
<1>1. ASSUME NEW e \in Emails
      PROVE  KnowsItsCode(e)'
      BY DEF Restart, KnowsItsCode, IsLatest
<1>2. QED
      BY <1>1 DEF Restart, MemoryInvariant

\* A registration that ends waits for its verification, with the address that it registered.
LEMMA FinishRegistrationIsSound ==
    ASSUME MemoryInvariant, RequestsInvariant, NEW r \in Requests, FinishRegistration(r)
    PROVE  MemoryInvariant'
<1>1. PICK q \in Visits : q = request[r]
      BY DEF RequestsInvariant
<1>2. q.pc = "created" /\ q.kind = "register"
      BY <1>1 DEF FinishRegistration
<1>3. q.email \in Emails /\ q.user \in Rows /\ q.user.email = q.email
      BY <1>1, <1>2 DEF RequestsInvariant, FollowsItsWay
<1>4. PICK n : n = Len(codes) + 1
      OBVIOUS
<1>5. PICK pending : pending = [code |-> n, expiresAt |-> now + TTL, user |-> q.user]
      OBVIOUS
<1>6. n \in Nat /\ now + TTL \in Nat
      BY <1>4 DEF MemoryInvariant
<1>7. /\ pending \in Pendings /\ pending.user.email = q.email
      /\ pending.code = n /\ pending.expiresAt = now + TTL
      BY <1>3, <1>5, <1>6 DEF Pendings
<1>8. /\ verificationStore' = [verificationStore EXCEPT ![q.email] = pending]
      /\ Generate(q.email) /\ Len(codes) < MaxCodes /\ now' = now /\ spent' = spent
      BY <1>1, <1>4, <1>5 DEF FinishRegistration, Expiry
<1>9. QED
      BY <1>3, <1>4, <1>7, <1>8, GenerateIsSound

\* The other steps leave the pending verifications alone.
LEMMA MemoryStepIsSound ==
    ASSUME MemoryInvariant, RequestsInvariant, [Next]_vars
    PROVE  MemoryInvariant'
<1>1. CASE UNCHANGED <<memory, now>>
  <2>1. ASSUME NEW e \in Emails
        PROVE  KnowsItsCode(e)'
        BY <1>1 DEF MemoryInvariant, KnowsItsCode, IsLatest, memory
  <2>2. QED
        BY <1>1, <2>1 DEF MemoryInvariant, memory
<1>2. \/ UNCHANGED <<memory, now>> \/ Tick \/ Restart
      \/ \E r \in Requests : FinishRegistration(r)
      \/ \E e \in Emails : Resend(e)
      \/ \E e \in Emails, n \in DOMAIN codes : Verify(e, n)
  <2>1. UserChange => UNCHANGED <<memory, now>>
        BY DEF UserChange, CreateUser, UpdateUser, DeleteUser, ChangesTable
  <2>2. ASSUME NEW r \in Requests,
               \/ \E kind, n, e : Begin(r, kind, n, e)
               \/ Fail(r) \/ RejectGoogleToken(r) \/ Find(r) \/ Compare(r) \/ Create(r)
               \/ FinishGoogle(r)
        PROVE  UNCHANGED <<memory, now>>
        BY <2>2 DEF Begin, Fail, RejectGoogleToken, Find, Compare, Create, FinishGoogle, Quietly
  <2>3. UNCHANGED vars => UNCHANGED <<memory, now>>
        BY DEF vars
  <2>4. QED
        BY <2>1, <2>2, <2>3 DEF Next
<1>3. QED
      BY <1>1, <1>2, TickIsSound, RestartForgets, FinishRegistrationIsSound, ResendIsSound,
         VerifyIsSound

-------------------------------------------------------------------------------
(* What a request carries from one await to the next. *)

\* What Observe records of a request.
LEMMA WhatIsObserved ==
    ASSUME Observe, NEW r \in Requests
    PROVE  /\ seen'[r] = IF request'[r].pc = "unused" THEN {} ELSE seen[r] \union users'
           /\ r \in missed /\ Looking(r)' => r \in missed'
BY DEF Observe, SeenNow, IsServed

\* What is observed are rows and requests.
LEMMA ObservationsAreTyped ==
    ASSUME Observe, RequestsInvariant, TableInvariant'
    PROVE  /\ existed' \subseteq Rows /\ users' \subseteq existed'
           /\ seen' \in [Requests -> SUBSET existed']
           /\ missed' \subseteq Requests
<1>1. missed' \subseteq Requests
      BY DEF Observe, MissedNow, RequestsInvariant
<1>2. seen' = [r \in Requests |-> IF IsServed(r)' THEN seen[r] \union SeenNow(r)' ELSE {}]
      BY DEF Observe
<1>3. existed' = existed \union users' /\ existed' \subseteq Rows
      BY DEF Observe, RequestsInvariant, TableInvariant
<1>4. ASSUME NEW r \in Requests
      PROVE  seen'[r] \subseteq existed'
  <2>1. seen[r] \subseteq existed
        BY DEF RequestsInvariant
  <2>2. QED
        BY <1>3, <2>1, WhatIsObserved
<1>5. QED
      BY <1>1, <1>2, <1>3, <1>4

\* A request that is left alone keeps what it has, whatever happens to the table.
LEMMA LeftAloneIsSound ==
    ASSUME RequestsInvariant, Observe, NEW r \in Requests, request'[r] = request[r]
    PROVE  FollowsItsWay(r)'
<1>1. FollowsItsWay(r)
      BY DEF RequestsInvariant
<1>2. Looking(r)' <=> request[r].pc \in {"finding", "creating"}
      BY DEF Looking
<1>3. PICK q : q = request[r] /\ q = request'[r]
      OBVIOUS
<1>4. q.pc # "unused" => seen[r] \subseteq seen'[r] /\ users' \subseteq seen'[r]
      BY <1>3, WhatIsObserved
<1>5. q.pc = "creating" => r \in missed'
      BY <1>1, <1>2, <1>3, WhatIsObserved DEF FollowsItsWay
<1>6. QED
      BY <1>1, <1>3, <1>4, <1>5 DEF FollowsItsWay

\* When one request moves, the others keep what they have.
LEMMA OneRequestMoves ==
    ASSUME RequestsInvariant, TableInvariant', Observe, NEW r \in Requests, NEW q \in Visits,
           request' = [request EXCEPT ![r] = q], FollowsItsWay(r)'
    PROVE  RequestsInvariant'
<1>1. request' \in [Requests -> Visits] /\ \A p \in Requests \ {r} : request'[p] = request[p]
      BY DEF RequestsInvariant
<1>2. ASSUME NEW p \in Requests
      PROVE  FollowsItsWay(p)'
      BY <1>1, LeftAloneIsSound
<1>3. QED
      BY <1>1, <1>2, ObservationsAreTyped DEF RequestsInvariant

\* The table may change under requests that do not move.
LEMMA NoRequestMoves ==
    ASSUME RequestsInvariant, TableInvariant', Observe, request' = request
    PROVE  RequestsInvariant'
<1>1. ASSUME NEW p \in Requests
      PROVE  FollowsItsWay(p)'
      BY LeftAloneIsSound
<1>2. QED
      BY <1>1, ObservationsAreTyped DEF RequestsInvariant

\* A request that ends carries nothing.
LEMMA EndIsSound ==
    ASSUME RequestsInvariant, TableInvariant', Observe, NEW r \in Requests, NEW told, NEW user,
           End(r, told, user)
    PROVE  RequestsInvariant'
<1>1. Unused \in Visits /\ Unused.pc = "unused"
      BY DEF Unused, Visits, Steps, Kinds
<1>2. request' = [request EXCEPT ![r] = Unused] /\ request'[r] = Unused
      BY DEF End, RequestsInvariant
<1>3. FollowsItsWay(r)'
      BY <1>1, <1>2 DEF FollowsItsWay
<1>4. QED
      BY <1>1, <1>2, <1>3, OneRequestMoves

\* A new request has seen the rows of now, and was missed if its own is not among them.
LEMMA BeginIsSound ==
    ASSUME RequestsInvariant, TableInvariant, NEW r \in Requests, NEW n \in Names,
           NEW e \in Emails, NEW a \in Addresses,
           Begin(r, "login", n, None) \/ Begin(r, "register", n, e) \/ Begin(r, "google", None, a)
    PROVE  RequestsInvariant'
<1>1. PICK kind \in Kinds, username \in Names \union {None}, email \in Addresses \union {None} :
          /\ Begin(r, kind, username, email)
          /\ kind # "google" => username \in Names
          /\ kind = "register" => email \in Emails
          /\ kind = "google" => email \in Addresses
      BY DEF Kinds
<1>2. PICK q : q = [Unused EXCEPT !.pc = "finding", !.kind = kind, !.username = username,
                                  !.email = email]
      OBVIOUS
<1>3. /\ q \in Visits
      /\ q.pc = "finding" /\ q.kind = kind /\ q.username = username /\ q.email = email
      BY <1>1, <1>2 DEF Unused, Visits, Steps
<1>4. /\ request' = [request EXCEPT ![r] = q] /\ users' = users /\ existed' = existed
      /\ seen' = [seen EXCEPT ![r] = users]
      /\ missed' = IF r \in MissedNow' THEN missed \union {r} ELSE missed \ {r}
      BY <1>1, <1>2 DEF Begin, Update, table
<1>5. FollowsItsWay(r)'
      BY <1>1, <1>3, <1>4 DEF FollowsItsWay, RequestsInvariant
<1>6. ASSUME NEW p \in Requests \ {r}
      PROVE  FollowsItsWay(p)'
      BY <1>4, <1>6 DEF FollowsItsWay, RequestsInvariant
<1>7. QED
      BY <1>3, <1>4, <1>5, <1>6 DEF RequestsInvariant, TableInvariant

\* What was found is a row that the request has seen; where nothing was, the request was missed.
LEMMA FindIsSound ==
    ASSUME RequestsInvariant, TableInvariant, TableInvariant', NEW r \in Requests, Find(r)
    PROVE  RequestsInvariant'
<1>1. PICK q \in Visits : q = request[r] /\ FollowsItsWay(r)
      BY DEF RequestsInvariant
<1>2. q.pc = "finding" /\ Observe /\ users' = users
      BY <1>1 DEF Find, Quietly, table
<1>3. PICK row : row = Found(r)
      OBVIOUS
<1>4. row # None => row \in users
      BY <1>3, FoundIsThere DEF Found
<1>5. CASE q.kind = "login" /\ row # None
           /\ Update(r, [request[r] EXCEPT !.pc = "comparing", !.user = Found(r)])
  <2>1. row \in Rows /\ row \in seen[r]
        BY <1>1, <1>2, <1>4, <1>5 DEF FollowsItsWay, TableInvariant
  <2>2. PICK next : next = [q EXCEPT !.pc = "comparing", !.user = row]
        OBVIOUS
  <2>3. /\ next \in Visits
        /\ next.pc = "comparing" /\ next.user = row
        /\ next.kind = q.kind /\ next.username = q.username /\ next.email = q.email
        BY <1>1, <2>1, <2>2 DEF Visits, Steps
  <2>4. request' = [request EXCEPT ![r] = next] /\ request'[r] = next
        BY <1>1, <1>3, <1>5, <2>2 DEF Update, RequestsInvariant
  <2>5. FollowsItsWay(r)'
        BY <1>1, <1>2, <1>5, <2>1, <2>3, <2>4, WhatIsObserved DEF FollowsItsWay
  <2>6. QED
        BY <1>2, <2>3, <2>4, <2>5, OneRequestMoves
<1>6. CASE q.kind # "login" /\ row = None /\ Update(r, [request[r] EXCEPT !.pc = "creating"])
  <2>1. PICK next : next = [q EXCEPT !.pc = "creating"]
        OBVIOUS
  <2>2. /\ next \in Visits
        /\ next.pc = "creating" /\ next.user = q.user
        /\ next.kind = q.kind /\ next.username = q.username /\ next.email = q.email
        BY <1>1, <2>1 DEF Visits, Steps
  <2>3. request' = [request EXCEPT ![r] = next] /\ request'[r] = next
        BY <1>1, <1>6, <2>1 DEF Update, RequestsInvariant
  <2>4. r \in missed'
    <3>1. Key(r)' = Key(r) /\ Column(request[r].kind)' = Column(request[r].kind)
          BY <1>1, <2>2, <2>3 DEF Key, Column
    <3>2. findOne(Column(request[r].kind), Key(r)) = None
          BY <1>3, <1>6 DEF Found
    <3>3. findOne(Column(request[r].kind), Key(r))' = findOne(Column(request[r].kind), Key(r))
      <4>1. PICK column, key : column = Column(request[r].kind) /\ key = Key(r)
            OBVIOUS
      <4>2. Matching(column, key)' = Matching(column, key)
            BY <1>2 DEF Matching
      <4>3. Column(request[r].kind)' = column /\ Key(r)' = key
            BY <3>1, <4>1
      <4>4. findOne(column, key)' = findOne(column, key)
            BY <4>2 DEF findOne
      <4>5. findOne(Column(request[r].kind), Key(r))' = findOne(column, key)'
            BY <4>3 DEF findOne, Matching
      <4>6. QED
            BY <4>1, <4>4, <4>5
    <3>4. Looking(r)'
          BY <2>3, <2>2 DEF Looking
    <3>5. r \in MissedNow'
          BY <3>2, <3>3, <3>4 DEF MissedNow
    <3>6. QED
          BY <1>2, <3>5 DEF Observe
  <2>5. FollowsItsWay(r)'
        BY <1>1, <1>2, <1>6, <2>2, <2>3, <2>4, WhatIsObserved DEF FollowsItsWay
  <2>6. QED
        BY <1>2, <2>2, <2>3, <2>5, OneRequestMoves
<1>7. CASE \E told, user : End(r, told, user)
      BY <1>2, <1>7, EndIsSound
<1>8. q.kind \in {"login", "register", "google"}
      BY <1>1 DEF Visits, Kinds
<1>9. \/ \E told, user : End(r, told, user)
      \/ /\ q.kind = "login" /\ row # None
         /\ Update(r, [request[r] EXCEPT !.pc = "comparing", !.user = Found(r)])
      \/ /\ q.kind # "login" /\ row = None
         /\ Update(r, [request[r] EXCEPT !.pc = "creating"])
  <2>1. CASE q.kind = "login"
        BY <1>1, <1>3, <2>1 DEF Find
  <2>2. CASE q.kind = "register"
        BY <1>1, <1>3, <2>2 DEF Find
  <2>3. CASE q.kind = "google"
        BY <1>1, <1>3, <2>3 DEF Find
  <2>4. QED
        BY <1>8, <2>1, <2>2, <2>3
<1>10. QED
      BY <1>5, <1>6, <1>7, <1>9

\* The row that a request creates is in the table, with the address that the request came with.
LEMMA CreateIsSound ==
    ASSUME RequestsInvariant, TableInvariant, NEW r \in Requests, Create(r)
    PROVE  TableInvariant' /\ RequestsInvariant'
<1>1. PICK q \in Visits : q = request[r] /\ FollowsItsWay(r)
      BY DEF RequestsInvariant
<1>2. /\ q.pc = "creating" /\ Observe /\ inserted < MaxUsers
      /\ q.kind # "login" /\ q.email \in Addresses
      /\ q.kind # "google" => q.username \in Names
      BY <1>1 DEF Create, FollowsItsWay, Visits, Kinds
<1>3. PICK n \in Names :
          LET row == Row(n, q.email, "viewer") IN
              IF Fits(row, users)
                  THEN /\ Insert(row)
                       /\ \/ Update(r, [q EXCEPT !.pc = "created", !.user = row])
                          \/ End(r, 500, None)
                  ELSE End(r, 500, None) /\ UNCHANGED table
      BY <1>1, <1>2 DEF Create
<1>4. PICK row : row = Row(n, q.email, "viewer")
      OBVIOUS
<1>5. row.email = q.email /\ row.role = "viewer"
      BY <1>4 DEF Row
<1>6. CASE Insert(row) /\ Fits(row, users)
  <2>1. TableInvariant' /\ row \in Rows
        BY <1>2, <1>4, <1>6, InsertIsSound DEF Roles
  <2>2. CASE Update(r, [q EXCEPT !.pc = "created", !.user = row])
    <3>1. PICK next : next = [q EXCEPT !.pc = "created", !.user = row]
          OBVIOUS
    <3>2. /\ next \in Visits
          /\ next.pc = "created" /\ next.user = row
          /\ next.kind = q.kind /\ next.username = q.username /\ next.email = q.email
          BY <1>1, <2>1, <3>1 DEF Visits, Steps
    <3>3. request' = [request EXCEPT ![r] = next] /\ request'[r] = next
          BY <2>2, <3>1 DEF Update, RequestsInvariant
    <3>4. row \in users'
          BY <1>6 DEF Insert
    <3>5. FollowsItsWay(r)'
          BY <1>1, <1>2, <1>5, <3>2, <3>3, <3>4, WhatIsObserved DEF FollowsItsWay
    <3>6. QED
          BY <1>2, <2>1, <3>2, <3>3, <3>5, OneRequestMoves
  <2>3. CASE End(r, 500, None)
        BY <1>2, <2>1, <2>3, EndIsSound
  <2>4. QED
        BY <1>3, <1>4, <1>6, <2>2, <2>3
<1>7. CASE End(r, 500, None) /\ UNCHANGED table
  <2>1. TableInvariant'
        BY <1>7 DEF TableInvariant, table
  <2>2. QED
        BY <1>2, <1>7, <2>1, EndIsSound
<1>8. QED
      BY <1>3, <1>4, <1>6, <1>7

\* Every step, by what it does with the requests.
LEMMA RequestsStepIsSound ==
    ASSUME AccountsInvariant, [Next]_vars
    PROVE  TableInvariant' /\ RequestsInvariant'
<1>1. TableInvariant /\ RequestsInvariant
      BY PartsOfTheInvariant
<1>2. ASSUME UNCHANGED table
      PROVE  TableInvariant'
      BY <1>1, <1>2 DEF TableInvariant, table
<1>3. CASE UserChange
  <2>1. Observe /\ request' = request
        BY <1>3 DEF UserChange, CreateUser, UpdateUser, DeleteUser, ChangesTable
  <2>2. QED
        BY <1>1, <1>3, <2>1, UserChangeIsSound, NoRequestMoves
<1>4. ASSUME NEW r \in Requests, Fail(r) \/ RejectGoogleToken(r) \/ Compare(r) \/ FinishGoogle(r)
      PROVE  TableInvariant' /\ RequestsInvariant'
  <2>1. UNCHANGED table /\ Observe /\ \E told, user : End(r, told, user)
        BY <1>4 DEF Fail, RejectGoogleToken, Compare, FinishGoogle, Quietly
  <2>2. QED
        BY <1>1, <1>2, <2>1, EndIsSound
<1>5. ASSUME NEW r \in Requests, FinishRegistration(r)
      PROVE  TableInvariant' /\ RequestsInvariant'
  <2>1. UNCHANGED table /\ Observe /\ \E told, user : End(r, told, user)
        BY <1>5 DEF FinishRegistration
  <2>2. QED
        BY <1>1, <1>2, <2>1, EndIsSound
<1>6. ASSUME NEW r \in Requests, Find(r)
      PROVE  TableInvariant' /\ RequestsInvariant'
  <2>1. UNCHANGED table
        BY <1>6 DEF Find, Quietly
  <2>2. QED
        BY <1>1, <1>2, <1>6, <2>1, FindIsSound
<1>7. ASSUME NEW r \in Requests, Create(r)
      PROVE  TableInvariant' /\ RequestsInvariant'
      BY <1>1, <1>7, CreateIsSound
<1>8. ASSUME NEW r \in Requests, NEW n \in Names, NEW e \in Emails, NEW a \in Addresses,
             Begin(r, "login", n, None) \/ Begin(r, "register", n, e) \/ Begin(r, "google", None, a)
      PROVE  TableInvariant' /\ RequestsInvariant'
  <2>1. UNCHANGED table
        BY <1>8 DEF Begin
  <2>2. QED
        BY <1>1, <1>2, <1>8, <2>1, BeginIsSound
<1>9. ASSUME Tick \/ (\E e \in Emails : Resend(e))
                  \/ (\E e \in Emails, n \in DOMAIN codes : Verify(e, n))
      PROVE  TableInvariant' /\ RequestsInvariant'
  <2>1. UNCHANGED table /\ Observe /\ request' = request
        BY <1>9 DEF Tick, Resend, Verify
  <2>2. QED
        BY <1>1, <1>2, <2>1, NoRequestMoves
<1>10. CASE Restart
  <2>1. UNCHANGED table /\ Observe /\ request' = [r \in Requests |-> Unused]
        BY <1>10 DEF Restart
  <2>2. Unused \in Visits /\ Unused.pc = "unused"
        BY DEF Unused, Visits, Steps, Kinds
  <2>3. ASSUME NEW r \in Requests
        PROVE  FollowsItsWay(r)'
        BY <2>1, <2>2 DEF FollowsItsWay
  <2>4. QED
        BY <1>1, <1>2, <2>1, <2>2, <2>3, ObservationsAreTyped DEF RequestsInvariant
<1>11. CASE UNCHANGED vars
  <2>1. ASSUME NEW r \in Requests
        PROVE  FollowsItsWay(r)'
        BY <1>1, <1>11 DEF FollowsItsWay, RequestsInvariant, vars, table, history
  <2>2. QED
        BY <1>1, <1>2, <1>11, <2>1 DEF RequestsInvariant, vars, table, history
<1>12. QED
      BY <1>3, <1>4, <1>5, <1>6, <1>7, <1>8, <1>9, <1>10, <1>11 DEF Next

\* What was in the table once stays in its history, and what a step creates joins it.
LEMMA HistoryGrows ==
    ASSUME [Next]_vars
    PROVE  existed \subseteq existed'
<1>1. ASSUME NEW r \in Requests, NEW kind, NEW n, NEW e, Begin(r, kind, n, e)
      PROVE  existed' = existed
      BY <1>1 DEF Begin
<1>2. CASE Observe
      BY <1>2 DEF Observe
<1>3. UserChange => Observe
      BY DEF UserChange, CreateUser, UpdateUser, DeleteUser, ChangesTable
<1>4. ASSUME NEW r \in Requests,
             \/ Fail(r) \/ RejectGoogleToken(r) \/ Find(r) \/ Compare(r) \/ Create(r)
             \/ FinishGoogle(r) \/ FinishRegistration(r)
      PROVE  Observe
      BY <1>4 DEF Fail, RejectGoogleToken, Find, Compare, Create, FinishGoogle,
                  FinishRegistration, Quietly
<1>5. \/ Tick \/ Restart \/ (\E e \in Emails : Resend(e))
      \/ (\E e \in Emails, n \in DOMAIN codes : Verify(e, n))
      => Observe
      BY DEF Tick, Restart, Resend, Verify
<1>6. CASE UNCHANGED vars
      BY <1>6 DEF vars, history
<1>7. QED
      BY <1>1, <1>2, <1>3, <1>4, <1>5, <1>6 DEF Next

\* A verification is pending only for a row that a registration has inserted.
LEMMA PendingsStepIsSound ==
    ASSUME AccountsInvariant, [Next]_vars
    PROVE  PendingsInvariant'
<1>1. /\ existed \subseteq existed' /\ DOMAIN verificationStore = Emails
      /\ \A e \in Emails : ComesFromItsRow(e)
      BY HistoryGrows, PartsOfTheInvariant DEF PendingsInvariant, MemoryInvariant
<1>2. ASSUME \A e \in Emails : \/ verificationStore'[e] = verificationStore[e]
                              \/ verificationStore'[e] = None
      PROVE  PendingsInvariant'
      BY <1>1, <1>2 DEF PendingsInvariant, ComesFromItsRow
<1>3. ASSUME NEW e \in Emails, Resend(e)
      PROVE  PendingsInvariant'
  <2>1. PICK pending \in Pendings : pending = verificationStore[e]
        BY <1>3, PartsOfTheInvariant DEF MemoryInvariant, KnowsItsCode, Resend
  <2>2. PICK renewed : renewed = Renew(pending)
        OBVIOUS
  <2>3. verificationStore' = [verificationStore EXCEPT ![e] = renewed]
        BY <1>3, <2>1, <2>2 DEF Resend
  <2>4. renewed.user = pending.user
        BY <2>1, <2>2 DEF Renew, Pendings
  <2>5. pending # None
        BY <1>3, <2>1 DEF Resend
  <2>6. QED
        BY <1>1, <2>1, <2>3, <2>4, <2>5 DEF PendingsInvariant, ComesFromItsRow
<1>4. ASSUME NEW r \in Requests, FinishRegistration(r)
      PROVE  PendingsInvariant'
  <2>1. PICK q \in Visits : q = request[r] /\ FollowsItsWay(r)
        BY PartsOfTheInvariant DEF RequestsInvariant
  <2>2. q.pc = "created" /\ q.kind = "register" /\ q.email \in Emails
        BY <1>4, <2>1 DEF FinishRegistration, FollowsItsWay
  <2>3. q.user \in existed /\ q.user.role = "viewer"
        BY <2>1, <2>2, PartsOfTheInvariant DEF FollowsItsWay, RequestsInvariant
  <2>4. PICK pending :
            pending = [code |-> Len(codes) + 1, expiresAt |-> Expiry, user |-> q.user]
        OBVIOUS
  <2>5. verificationStore' = [verificationStore EXCEPT ![q.email] = pending]
        BY <1>4, <2>1, <2>4 DEF FinishRegistration
  <2>6. pending.user = q.user
        BY <2>4
  <2>7. QED
        BY <1>1, <2>2, <2>3, <2>5, <2>6 DEF PendingsInvariant, ComesFromItsRow
<1>5. ASSUME NEW e \in Emails, NEW n \in DOMAIN codes, Verify(e, n)
      PROVE  PendingsInvariant'
      BY <1>1, <1>2, <1>5 DEF Verify, Forget
<1>6. CASE Restart
      BY <1>2, <1>6 DEF Restart
<1>7. CASE UNCHANGED verificationStore
      BY <1>2, <1>7
<1>8. \/ UNCHANGED verificationStore \/ Restart
      \/ \E r \in Requests : FinishRegistration(r)
      \/ \E e \in Emails : Resend(e)
      \/ \E e \in Emails, n \in DOMAIN codes : Verify(e, n)
  <2>1. UserChange => UNCHANGED verificationStore
        BY DEF UserChange, CreateUser, UpdateUser, DeleteUser, ChangesTable, memory
  <2>2. ASSUME NEW r \in Requests,
               \/ \E kind, n, e : Begin(r, kind, n, e)
               \/ Fail(r) \/ RejectGoogleToken(r) \/ Find(r) \/ Compare(r) \/ Create(r)
               \/ FinishGoogle(r)
        PROVE  UNCHANGED verificationStore
        BY <2>2 DEF Begin, Fail, RejectGoogleToken, Find, Compare, Create, FinishGoogle, Quietly,
                    memory
  <2>3. UNCHANGED vars \/ Tick => UNCHANGED verificationStore
        BY DEF vars, memory, Tick
  <2>4. QED
        BY <2>1, <2>2, <2>3 DEF Next
<1>9. QED
      BY <1>3, <1>4, <1>5, <1>6, <1>7, <1>8

-------------------------------------------------------------------------------
(* The answers. *)

\* A code is accepted exactly when it is the last of its address, unused and not too old.
LEMMA WhatVerifyAnswers ==
    ASSUME MemoryInvariant, NEW e \in Emails, NEW n \in DOMAIN codes, Verify(e, n)
    PROVE  /\ answer'.about = e /\ answer'.code = n /\ answer'.told \in {200, 400}
           /\ answer'.user # None =>
                 /\ IsLatest(e, n) /\ n \notin spent /\ now <= codes[n].at + TTL
                 /\ answer'.user.email = e
           /\ IsLatest(e, n) /\ n \notin spent /\ now <= codes[n].at + TTL => answer'.user # None
<1>1. PICK pending : pending = verificationStore[e]
      OBVIOUS
<1>2. KnowsItsCode(e) /\ now \in Int
      BY DEF MemoryInvariant
<1>3. codes[n].at \in Int /\ n \in Nat
      BY CodesAreTyped
<1>4. CASE pending = None
  <2>1. answer' = Answer(e, n, 400, None)
        BY <1>1, <1>4 DEF Verify
  <2>2. ~(IsLatest(e, n) /\ n \notin spent /\ now <= codes[n].at + TTL)
        BY <1>1, <1>2, <1>3, <1>4 DEF KnowsItsCode
  <2>3. QED
        BY <2>1, <2>2 DEF Answer
<1>5. CASE pending # None
  <2>1. /\ pending \in Pendings /\ pending.user.email = e
        /\ IsLatest(e, pending.code) /\ pending.code \notin spent
        /\ pending.expiresAt = codes[pending.code].at + TTL
        BY <1>1, <1>2, <1>5 DEF KnowsItsCode
  <2>2. pending.user \in Rows /\ pending.user # None /\ pending.expiresAt \in Nat
        BY <2>1 DEF Pendings
  <2>3. CASE now <= pending.expiresAt /\ pending.code = n
    <3>1. answer' = Answer(e, n, 200, pending.user)
          BY <1>1, <1>2, <1>5, <2>2, <2>3 DEF Verify, IsExpired
    <3>2. QED
          BY <2>1, <2>2, <2>3, <3>1 DEF Answer
  <2>4. CASE ~(now <= pending.expiresAt /\ pending.code = n)
    <3>1. answer' = Answer(e, n, 400, None)
          BY <1>1, <1>2, <1>5, <2>2, <2>4 DEF Verify, IsExpired
    <3>2. ~(IsLatest(e, n) /\ n \notin spent /\ now <= codes[n].at + TTL)
          BY <2>1, <2>4, OneCodeIsLatest
    <3>3. QED
          BY <3>1, <3>2 DEF Answer
  <2>5. QED
        BY <2>3, <2>4
<1>6. QED
      BY <1>4, <1>5

\* A step tries a code, answers a request, or answers nobody.
LEMMA WhoIsAnswered ==
    ASSUME AccountsInvariant, Next
    PROVE  \/ answer' = NoAnswer
           \/ \E e \in Emails, n \in DOMAIN codes : Verify(e, n)
           \/ \E r \in Requests, told \in {401, 500} : answer' = Answer(r, 0, told, None)
           \/ \E r \in Requests : \E row \in seen[r] :
                 answer' = Answer(r, 0, 409, None) /\ row.username = request[r].username
           \/ \E r \in Requests, told \in {200, 201} : \E user \in seen[r] :
                 answer' = Answer(r, 0, told, user)
<1>1. ASSUME NEW r \in Requests
      PROVE  /\ request[r] \in Visits /\ FollowsItsWay(r)
             /\ request[r].kind \in {"login", "register", "google"}
  <2>1. request[r] \in Visits /\ FollowsItsWay(r)
        BY PartsOfTheInvariant DEF RequestsInvariant
  <2>2. QED
        BY <2>1 DEF Visits, Kinds
<1>2. ASSUME NEW r \in Requests, NEW told \in {401, 500}, End(r, told, None)
      PROVE  answer' = Answer(r, 0, told, None)
      BY <1>2 DEF End
<1>3. ASSUME NEW r \in Requests, Fail(r) \/ RejectGoogleToken(r)
      PROVE  \E told \in {401, 500} : End(r, told, None)
      BY <1>3 DEF Fail, RejectGoogleToken
<1>4. ASSUME NEW r \in Requests, NEW told \in {200, 201}, End(r, told, request[r].user),
             request[r].pc \in {"comparing", "created"}
      PROVE  \E user \in seen[r] : answer' = Answer(r, 0, told, user)
      BY <1>1, <1>4 DEF End, FollowsItsWay
<1>5. ASSUME NEW r \in Requests, Compare(r) \/ FinishGoogle(r) \/ FinishRegistration(r)
      PROVE  \/ End(r, 401, None)
             \/ /\ request[r].pc \in {"comparing", "created"}
                /\ \E told \in {200, 201} : End(r, told, request[r].user)
      BY <1>5 DEF Compare, FinishGoogle, FinishRegistration
<1>6. ASSUME NEW r \in Requests, Create(r)
      PROVE  answer' = NoAnswer \/ End(r, 500, None)
      BY <1>6 DEF Create, Update
<1>7. ASSUME NEW r \in Requests, Find(r)
      PROVE  \/ answer' = NoAnswer
             \/ End(r, 401, None)
             \/ \E row \in seen[r] :
                   answer' = Answer(r, 0, 409, None) /\ row.username = request[r].username
             \/ \E told \in {200, 201} : \E user \in seen[r] : answer' = Answer(r, 0, told, user)
  <2>1. PICK row : row = Found(r)
        OBVIOUS
  <2>2. row # None => row \in seen[r] /\ row[Column(request[r].kind)] = Key(r)
        BY <1>1, <1>7, <2>1, FoundIsThere DEF Found, Find, FollowsItsWay
  <2>3. CASE request[r].kind = "login"
        BY <1>7, <2>3 DEF Find, Update
  <2>4. CASE request[r].kind = "register"
        BY <1>7, <2>1, <2>2, <2>4 DEF Find, Update, End, Column, Key
  <2>5. CASE request[r].kind = "google"
        BY <1>7, <2>1, <2>2, <2>5 DEF Find, Update, End
  <2>6. QED
        BY <1>1, <2>3, <2>4, <2>5
<1>8. ASSUME \/ UserChange \/ Tick \/ Restart \/ \E e \in Emails : Resend(e)
             \/ \E r \in Requests : \E kind, n, e : Begin(r, kind, n, e)
      PROVE  answer' = NoAnswer
      BY <1>8 DEF UserChange, CreateUser, UpdateUser, DeleteUser, ChangesTable, Tick, Restart,
                  Resend, Begin, Update
<1>9. ASSUME NEW r \in Requests,
             \/ Fail(r) \/ RejectGoogleToken(r) \/ Find(r) \/ Compare(r) \/ Create(r)
             \/ FinishGoogle(r) \/ FinishRegistration(r)
      PROVE  \/ answer' = NoAnswer
             \/ \E told \in {401, 500} : End(r, told, None)
             \/ \E row \in seen[r] :
                   answer' = Answer(r, 0, 409, None) /\ row.username = request[r].username
             \/ \E told \in {200, 201} : \E user \in seen[r] : answer' = Answer(r, 0, told, user)
      BY <1>3, <1>4, <1>5, <1>6, <1>7, <1>9
<1>10. QED
      BY <1>2, <1>8, <1>9 DEF Next

-------------------------------------------------------------------------------
\* Every step keeps the invariant.
LEMMA AccountsStepKeepsInvariant ==
    AccountsInvariant /\ [Next]_vars => AccountsInvariant'
<1> SUFFICES ASSUME AccountsInvariant, [Next]_vars
             PROVE  AccountsInvariant'
    OBVIOUS
<1>1. MemoryInvariant'
      BY PartsOfTheInvariant, MemoryStepIsSound
<1>2. TableInvariant' /\ RequestsInvariant'
      BY RequestsStepIsSound
<1>3. AnswerInvariant'
  <2>1. CASE UNCHANGED vars
        BY <2>1, PartsOfTheInvariant DEF vars, AnswerInvariant
  <2>2. CASE \E e \in Emails, n \in DOMAIN codes : Verify(e, n)
        BY <2>2, PartsOfTheInvariant, WhatVerifyAnswers DEF AnswerInvariant, Statuses
  <2>3. CASE Next /\ ~\E e \in Emails, n \in DOMAIN codes : Verify(e, n)
        BY <2>3, WhoIsAnswered DEF AnswerInvariant, Statuses, Answer, NoAnswer
  <2>4. QED
        BY <2>1, <2>2, <2>3
<1>4. PendingsInvariant'
      BY PendingsStepIsSound
<1>5. QED
      BY <1>1, <1>2, <1>3, <1>4, PartsOfTheInvariant, PTL

\* AccountsInvariant holds in every state of fa and its table of users.
THEOREM AccountsInvariantHolds == Spec => []AccountsInvariant
BY AccountsInit, AccountsStepKeepsInvariant, PTL DEF Spec

\* Every reachable state is type correct: the rows differ in their ids and in the columns that the
\* table keeps unique, and a pending verification holds the last code of its address and a user
\* who registered with that address.
THEOREM AccountTypes == Spec => []TypeOK
<1>1. AccountsInvariant => TypeOK
      BY DEF AccountsInvariant
<1>2. QED
      BY <1>1, AccountsInvariantHolds, PTL

\* A code verifies its own address, once, in time, and only until the next is generated
\* (authService.ts:155-185), whatever registrations, resends and restarts cross.
THEOREM CodesOnce == Spec => CodesVerifyOnce
<1>1. AccountsInvariant /\ [Next]_vars =>
          [answer'.code # 0 /\ answer'.user # None =>
              LET n == answer'.code IN
                  /\ IsLatest(answer'.about, n) /\ n \notin spent
                  /\ now <= codes[n].at + TTL
                  /\ answer'.user.email = answer'.about]_vars
  <2> SUFFICES ASSUME AccountsInvariant, Next, answer'.code # 0, answer'.user # None
               PROVE  LET n == answer'.code IN
                          /\ IsLatest(answer'.about, n) /\ n \notin spent
                          /\ now <= codes[n].at + TTL
                          /\ answer'.user.email = answer'.about
      OBVIOUS
  <2>1. PICK e \in Emails, n \in DOMAIN codes : Verify(e, n)
        BY WhoIsAnswered DEF Answer, NoAnswer
  <2>2. MemoryInvariant
        BY PartsOfTheInvariant
  <2>3. QED
        BY <2>1, <2>2, WhatVerifyAnswers
<1>2. QED
      BY <1>1, AccountsInvariantHolds, PTL DEF Spec, CodesVerifyOnce

\* The last code of an address works until it expires, is used or fa restarts: nothing else that
\* happens to the address or its codes loses it (authService.ts:187-203).
THEOREM LatestWorks == Spec => LatestCodeWorks
<1>1. AccountsInvariant /\ [Next]_vars =>
          [answer'.code # 0 =>
              LET n == answer'.code IN
                  IsLatest(answer'.about, n) /\ n \notin spent /\ now <= codes[n].at + TTL
                      => answer'.user # None]_vars
  <2> SUFFICES ASSUME AccountsInvariant, Next, answer'.code # 0
               PROVE  LET n == answer'.code IN
                          IsLatest(answer'.about, n) /\ n \notin spent /\ now <= codes[n].at + TTL
                              => answer'.user # None
      OBVIOUS
  <2>1. PICK e \in Emails, n \in DOMAIN codes : Verify(e, n)
        BY WhoIsAnswered DEF Answer, NoAnswer
  <2>2. MemoryInvariant
        BY PartsOfTheInvariant
  <2>3. QED
        BY <2>1, <2>2, WhatVerifyAnswers
<1>2. QED
      BY <1>1, AccountsInvariantHolds, PTL DEF Spec, LatestCodeWorks

\* verifyCode gives the token of the registration that is pending for the address.
LEMMA WhomVerifyNames ==
    ASSUME AccountsInvariant, NEW e \in Emails, NEW n \in DOMAIN codes, Verify(e, n),
           answer'.user # None
    PROVE  /\ answer'.about = e /\ e \notin Requests
           /\ answer'.user \in existed /\ answer'.user.role = "viewer"
<1>1. answer'.about = e /\ e \notin Requests
      BY PartsOfTheInvariant, WhatVerifyAnswers
<1>2. PICK pending : pending = verificationStore[e]
      OBVIOUS
<1>3. pending # None /\ answer' = Answer(e, n, 200, pending.user)
  <2>1. CASE answer' = Answer(e, n, 400, None)
        BY <2>1 DEF Answer
  <2>2. CASE pending # None /\ answer' = Answer(e, n, 200, pending.user)
        BY <2>2
  <2>3. QED
        BY <1>2, <2>1, <2>2 DEF Verify
<1>4. pending.user \in existed /\ pending.user.role = "viewer"
      BY <1>2, <1>3, PartsOfTheInvariant DEF PendingsInvariant, ComesFromItsRow
<1>5. QED
      BY <1>1, <1>3, <1>4 DEF Answer

\* A token is only given for a row as it was in the table, with the role that it had: at a time
\* since it was asked for, or, with a code, at some time, as a viewer's, whatever roles, names and
\* addresses were changed and whichever rows were deleted.
THEOREM TokensNameUsers == Spec => TokensNameTheirUsers
<1>1. AccountsInvariant /\ [Next]_vars =>
          [answer'.user # None =>
              /\ answer'.user \in existed
              /\ answer'.about \in Requests => answer'.user \in seen[answer'.about]
              /\ answer'.about \in Emails => answer'.user.role = "viewer"]_vars
  <2> SUFFICES ASSUME AccountsInvariant, Next, answer'.user # None
               PROVE  /\ answer'.user \in existed
                      /\ answer'.about \in Requests => answer'.user \in seen[answer'.about]
                      /\ answer'.about \in Emails => answer'.user.role = "viewer"
      OBVIOUS
  <2>1. CASE \E e \in Emails, n \in DOMAIN codes : Verify(e, n)
        BY <2>1, WhomVerifyNames
  <2>2. CASE ~\E e \in Emails, n \in DOMAIN codes : Verify(e, n)
    <3>1. PICK r \in Requests, told \in {200, 201} : \E user \in seen[r] :
              answer' = Answer(r, 0, told, user)
          BY <2>2, WhoIsAnswered DEF Answer, NoAnswer
    <3>2. answer'.about = r /\ answer'.user \in seen[r] /\ r \notin Emails
          BY <3>1 DEF Answer
    <3>3. seen[r] \subseteq existed
          BY PartsOfTheInvariant DEF RequestsInvariant
    <3>4. QED
          BY <3>2, <3>3
  <2>3. QED
        BY <2>1, <2>2
<1>2. QED
      BY <1>1, AccountsInvariantHolds, PTL DEF Spec, TokensNameTheirUsers

\* What a request decides on was true at a time since it began, although the row is created in
\* another await than the one that looked for it (authService.ts, googleStrategy.ts): the table did
\* not hold one row of the username, or of the address in lower case, that is inserted.
THEOREM ChecksTrue == Spec => ChecksWereTrue
<1>1. AccountsInvariant /\ [Next]_vars =>
          [/\ \A r \in Requests :
                 request[r].pc = "creating" /\ inserted' > inserted /\ request'[r] # request[r] =>
                     r \in missed
           /\ answer'.told = 409 =>
                 \E row \in seen[answer'.about] :
                    row.username = request[answer'.about].username]_vars
  <2> SUFFICES ASSUME AccountsInvariant, Next
               PROVE  /\ \A r \in Requests : request[r].pc = "creating" => r \in missed
                      /\ answer'.told = 409 =>
                            \E row \in seen[answer'.about] :
                               row.username = request[answer'.about].username
      OBVIOUS
  <2>1. ASSUME NEW r \in Requests, request[r].pc = "creating"
        PROVE  r \in missed
        BY <2>1, PartsOfTheInvariant DEF RequestsInvariant, FollowsItsWay
  <2>2. ASSUME answer'.told = 409
        PROVE  \E row \in seen[answer'.about] : row.username = request[answer'.about].username
    <3>1. ~\E e \in Emails, n \in DOMAIN codes : Verify(e, n)
          BY <2>2, PartsOfTheInvariant, WhatVerifyAnswers
    <3>2. PICK r \in Requests : \E row \in seen[r] :
              answer' = Answer(r, 0, 409, None) /\ row.username = request[r].username
          BY <2>2, <3>1, WhoIsAnswered DEF Answer, NoAnswer
    <3>3. answer'.about = r
          BY <3>2 DEF Answer
    <3>4. QED
          BY <3>2, <3>3
  <2>3. QED
        BY <2>1, <2>2
<1>2. QED
      BY <1>1, AccountsInvariantHolds, PTL DEF Spec, ChecksWereTrue
===============================================================================
