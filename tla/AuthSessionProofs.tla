-------------------------- MODULE AuthSessionProofs --------------------------
(***************************************************************************)
(* Proofs of the safety properties of AuthSession, for every number of     *)
(* requests, sessions, rotations and password changes.                     *)
(***************************************************************************)
EXTENDS AuthSession, TLAPS

LEMMA Bounds == MaxRotations \in Nat /\ MaxVersion \in Nat /\ MaxLost \in Nat
BY BoundsAssumption

\* Labels at which a request works on the session of a token it was given.
OnSession == {"loading", "checking", "rotating", "revoking", "touching", "granting", "granted"}

\* What is true of the local state q of a request when u is the user: it
\* has the session it works on; it knows no version or ban from the future;
\* once it passed its checks they hold of what was committed when it started.
Addressed(q) == q.pc \in OnSession \/ (q.pc = "answering" /\ q.kind # "logout")
                    => q.sid \in Sids /\ q.n \in Tokens
Renewed(q) == q.pc = "answering" /\ q.kind = "refresh"
Versioned(q) == q.pc \in {"rotating", "touching", "granting", "granted"} \/ Renewed(q)
                    => q.ver >= q.since
Unbanned(q) == q.pc \in {"rotating", "granted"} \/ Renewed(q) => ~q.late

Fine(q, u) ==
    /\ Addressed(q) /\ Versioned(q) /\ Unbanned(q)
    /\ q.pc = "creating" => q.kind = "login"
    /\ q.since <= u.version
    /\ q.late => u.banned

\* No token has a successor before it is the current one.
Chain == \A s \in Sids : \A n \in Tokens :
             /\ rotated[s][n] <= 1
             /\ n >= sess[s].cur => rotated[s][n] = 0

IInv == TypeOK /\ Chain /\ \A r \in Requests : Fine(req[r], user)
-----------------------------------------------------------------------------
(***************************************************************************)
(* Local states of requests.                                               *)
(***************************************************************************)

LEMMA IdleType == Idle \in Request /\ (TypeOK => Fine(Idle, user))
<1>1. Idle \in Request
  BY Bounds DEF Idle, Request, Labels, Kinds
<1>2. Idle.pc = "idle" /\ Idle.since = 0 /\ Idle.late = FALSE
  BY DEF Idle
<1>3. TypeOK => 0 <= user.version
  BY DEF TypeOK
<1> QED BY <1>1, <1>2, <1>3 DEF Fine, Addressed, OnSession, Versioned, Renewed, Unbanned

LEMMA StartsType ==
    ASSUME TypeOK, NEW r, NEW kind \in Kinds, NEW label \in Labels
    PROVE  /\ Starts(r, kind, label) \in Request
           /\ Starts(r, kind, label).pc = label
           /\ Starts(r, kind, label).kind = kind
           /\ Starts(r, kind, label).since = user.version
           /\ Starts(r, kind, label).late = user.banned
<1>1. user.version \in 0 .. MaxVersion /\ user.banned \in BOOLEAN
  BY DEF TypeOK
<1>2. Idle \in Request
  BY IdleType
<1> QED BY <1>1, <1>2 DEF Starts, Request

LEMMA PresentedType ==
    ASSUME TypeOK, cookie # None, NEW r, NEW kind \in Kinds, NEW label \in Labels
    PROVE  /\ Presented(r, kind, label) \in Request
           /\ Presented(r, kind, label).pc = label
           /\ Presented(r, kind, label).kind = kind
           /\ Presented(r, kind, label).since = user.version
           /\ Presented(r, kind, label).late = user.banned
           /\ Presented(r, kind, label).sid \in Sids
           /\ Presented(r, kind, label).n \in Tokens
<1> DEFINE q == Starts(r, kind, label)
<1>1. /\ q \in Request /\ q.pc = label /\ q.kind = kind
      /\ q.since = user.version /\ q.late = user.banned
  BY StartsType
<1>2. cookie.sid \in Sids /\ cookie.n \in Tokens
  BY DEF TypeOK, Cookie
<1>3. Presented(r, kind, label) = [q EXCEPT !.sid = cookie.sid, !.n = cookie.n]
  BY DEF Presented
<1> HIDE DEF q
<1> QED BY <1>1, <1>2, <1>3 DEF Request

\* One request moves to q, the others keep their local state.
RequestsFine == req' \in [Requests -> Request] /\ \A p \in Requests : Fine(req'[p], user')

LEMMA Moves ==
    ASSUME IInv, NEW r \in Requests, NEW q \in Request, Fine(q, user), user' = user,
           req' = [req EXCEPT ![r] = q]
    PROVE  RequestsFine
<1>1. req \in [Requests -> Request] /\ \A p \in Requests : Fine(req[p], user)
  BY DEF IInv, TypeOK
<1> QED BY <1>1 DEF RequestsFine

LEMMA FailsFine ==
    ASSUME IInv, NEW r \in Requests, Fails(r), user' = user
    PROVE  RequestsFine
BY Moves, IdleType DEF Fails, IInv

LEMMA GotoFine ==
    ASSUME IInv, NEW r \in Requests, NEW label \in Labels, Goto(r, label), user' = user,
           label \notin {"answering", "creating"},
           label \in OnSession => req[r].pc \in OnSession,
           label \in {"rotating", "touching", "granting", "granted"} => req[r].ver >= req[r].since,
           label \in {"rotating", "granted"} => ~req[r].late
    PROVE  RequestsFine
<1> DEFINE q == [req[r] EXCEPT !.pc = label]
<1>0. req[r] \in Request /\ req \in [Requests -> Request]
  BY DEF IInv, TypeOK
<1>1. req' = [req EXCEPT ![r] = q]
  BY <1>0 DEF Goto
<1>2. /\ q \in Request /\ q.pc = label /\ q.kind = req[r].kind
      /\ q.sid = req[r].sid /\ q.n = req[r].n /\ q.ver = req[r].ver
      /\ q.since = req[r].since /\ q.late = req[r].late
  BY <1>0 DEF Request
<1>3. Fine(req[r], user)
  BY DEF IInv
<1> HIDE DEF q
<1>4. Fine(q, user)
  BY <1>2, <1>3 DEF Fine, Addressed, Versioned, Renewed, Unbanned
<1> QED BY <1>1, <1>2, <1>4, Moves

LEMMA DeleteType ==
    ASSUME TypeOK, NEW ss \in SUBSET Sids, Delete(ss)
    PROVE  sess' \in [Sids -> Session]
BY DEF Delete, TypeOK, Session, Live

LEMMA DeleteChain ==
    ASSUME TypeOK, Chain, NEW ss \in SUBSET Sids, Delete(ss), UNCHANGED rotated
    PROVE  Chain'
BY DEF Delete, Chain, TypeOK, Session, Live

\* What remains of the invariant when a step only moves requests, touches
\* the index or deletes sessions.
Deletes == UNCHANGED sess \/ \E ss \in SUBSET Sids : Delete(ss)

LEMMA Remains ==
    ASSUME IInv, RequestsFine, Deletes, index' \subseteq Sids, cookie' \in Cookie,
           lost' \in 0 .. MaxLost, UNCHANGED <<user, rotated>>
    PROVE  IInv'
<1>1. sess' \in [Sids -> Session] /\ Chain'
  BY DeleteType, DeleteChain DEF Deletes, IInv, TypeOK, Chain
<1>2. TypeOK'
  BY <1>1 DEF IInv, TypeOK, RequestsFine
<1> QED BY <1>1, <1>2 DEF IInv, RequestsFine
-----------------------------------------------------------------------------
(***************************************************************************)
(* Every step preserves the invariant.                                     *)
(***************************************************************************)

\* A new request, its state filled by Starts or Presented.
LEMMA NewFine ==
    ASSUME IInv, NEW r \in Requests, NEW q \in Request, q.pc \in Labels,
           q.since = user.version, q.late = user.banned, user' = user,
           q.pc \in {"creating", "loading", "listing"} \/ (q.pc = "answering" /\ q.kind = "logout"),
           q.pc = "creating" => q.kind = "login",
           q.pc = "loading" => q.sid \in Sids /\ q.n \in Tokens,
           req' = [req EXCEPT ![r] = q]
    PROVE  RequestsFine
<1>1. user.version \in 0 .. MaxVersion
  BY DEF IInv, TypeOK
<1>2. Addressed(q) /\ Versioned(q) /\ Unbanned(q)
  BY DEF Addressed, OnSession, Versioned, Renewed, Unbanned
<1>3. q.since <= user.version
  BY <1>1, Bounds
<1>4. Fine(q, user)
  BY <1>2, <1>3 DEF Fine
<1> QED BY <1>4, Moves

LEMMA LoginStep == ASSUME IInv, NEW r \in Requests, Login(r) PROVE IInv'
<1> DEFINE s == Starts(r, "login", "creating")
           q == [s EXCEPT !.ver = user.version]
<1>1. s \in Request /\ s.pc = "creating" /\ s.kind = "login"
      /\ s.since = user.version /\ s.late = user.banned
  <2>1. TypeOK /\ "login" \in Kinds /\ "creating" \in Labels
    BY DEF IInv, Kinds, Labels
  <2> QED BY <2>1, StartsType
<1>2. user.version \in 0 .. MaxVersion
  BY DEF IInv, TypeOK
<1>3. req' = [req EXCEPT ![r] = q]
  BY DEF Login
<1> HIDE DEF s
<1>4. q \in Request /\ q.pc = "creating" /\ q.kind = "login"
      /\ q.since = user.version /\ q.late = user.banned
  BY <1>1, <1>2 DEF Request
<1> HIDE DEF q
<1>5. RequestsFine
  BY <1>3, <1>4, NewFine DEF Login, Labels
<1> QED BY <1>5, Remains DEF Login, Deletes, IInv, TypeOK

LEMMA PresentStep == ASSUME IInv, NEW r \in Requests, Refresh(r) \/ Access(r) PROVE IInv'
<1>1. PICK kind \in Kinds : req' = [req EXCEPT ![r] = Presented(r, kind, "loading")]
  BY DEF Refresh, Access, Kinds
<1> DEFINE q == Presented(r, kind, "loading")
<1>2. q \in Request /\ q.pc = "loading" /\ q.kind = kind /\ q.since = user.version
      /\ q.late = user.banned /\ q.sid \in Sids /\ q.n \in Tokens
  <2>1. TypeOK /\ "loading" \in Labels /\ cookie # None
    BY DEF IInv, Labels, Refresh, Access
  <2> QED BY <2>1, PresentedType
<1> HIDE DEF q
<1>3. RequestsFine
  BY <1>1, <1>2, NewFine DEF Refresh, Access, Labels, q
<1> QED BY <1>3, Remains DEF Refresh, Access, Deletes, IInv, TypeOK

LEMMA CreateSessionStep == ASSUME IInv, NEW r \in Requests, CreateSession(r) PROVE IInv'
<1>1. PICK s \in Sids :
         /\ sess[s].state = "unused"
         /\ sess' = [sess EXCEPT ![s] = Created(@, req[r].ver)]
         /\ index' = index \cup {s}
         /\ req' = [req EXCEPT ![r] = [@ EXCEPT !.pc = "answering", !.sid = s, !.n = 0]]
  BY DEF CreateSession
<1> DEFINE q == [req[r] EXCEPT !.pc = "answering", !.sid = s, !.n = 0]
<1>2. req[r] \in Request /\ Fine(req[r], user) /\ req \in [Requests -> Request]
  BY DEF IInv, TypeOK
<1>3. 0 \in Tokens
  BY Bounds DEF Tokens
<1>4. q \in Request /\ q.pc = "answering" /\ q.kind = "login" /\ q.sid = s /\ q.n = 0
      /\ q.since = req[r].since /\ q.late = req[r].late
  BY <1>2, <1>3 DEF Request, Labels, Fine, CreateSession, At
<1>5. req' = [req EXCEPT ![r] = q]
  BY <1>1, <1>2
<1> HIDE DEF q
<1>6. Fine(q, user)
  BY <1>2, <1>3, <1>4 DEF Fine, Addressed, OnSession, Versioned, Renewed, Unbanned
<1>7. RequestsFine
  BY <1>4, <1>5, <1>6, Moves DEF CreateSession
<1>8. sess' \in [Sids -> Session] /\ \A x \in Sids : sess'[x].cur = sess[x].cur
  <2> DEFINE c == Created(sess[s], req[r].ver)
  <2>1. sess \in [Sids -> Session] /\ sess[s] \in Session
    BY DEF IInv, TypeOK
  <2>2. req[r].ver \in 0 .. MaxVersion
    BY <1>2 DEF Request
  <2>3. c \in Session /\ c.cur = sess[s].cur
    BY <2>1, <2>2 DEF Session, Created
  <2>4. sess' = [sess EXCEPT ![s] = c]
    BY <1>1, <2>1
  <2> HIDE DEF c
  <2> QED BY <2>1, <2>3, <2>4
<1>9. Chain'
  BY <1>8 DEF IInv, Chain, CreateSession
<1>10. index' \subseteq Sids
  BY <1>1 DEF IInv, TypeOK
<1> QED BY <1>7, <1>8, <1>9, <1>10 DEF IInv, TypeOK, RequestsFine, CreateSession

LEMMA LoadStep == ASSUME IInv, NEW r \in Requests, Load(r) PROVE IInv'
<1>1. CASE Fails(r) /\ index' \subseteq index
  <2>1. RequestsFine
    BY <1>1, FailsFine DEF Load
  <2> QED BY <1>1, <2>1, Remains DEF Load, Deletes, IInv, TypeOK
<1>2. CASE /\ req' = [req EXCEPT ![r] = [@ EXCEPT !.pc = "checking", !.ver = sess[req[r].sid].ver]]
           /\ UNCHANGED index
  <2> DEFINE q == [req[r] EXCEPT !.pc = "checking", !.ver = sess[req[r].sid].ver]
  <2>1. req[r] \in Request /\ Fine(req[r], user) /\ req \in [Requests -> Request]
    BY DEF IInv, TypeOK
  <2>2. req[r].pc = "loading"
    BY DEF Load, At
  <2>3. req[r].sid \in Sids /\ req[r].n \in Tokens
    BY <2>1, <2>2 DEF Fine, Addressed, OnSession
  <2>4. sess[req[r].sid].ver \in 0 .. MaxVersion
    BY <2>3 DEF IInv, TypeOK, Session
  <2>5. /\ q \in Request /\ q.pc = "checking" /\ q.kind = req[r].kind
        /\ q.sid = req[r].sid /\ q.n = req[r].n
        /\ q.since = req[r].since /\ q.late = req[r].late
    BY <2>1, <2>4 DEF Request, Labels
  <2>6. req' = [req EXCEPT ![r] = q]
    BY <1>2, <2>1
  <2> HIDE DEF q
  <2>7. Fine(q, user)
    BY <2>1, <2>3, <2>5 DEF Fine, Addressed, OnSession, Versioned, Renewed, Unbanned
  <2>8. RequestsFine
    BY <2>5, <2>6, <2>7, Moves DEF Load
  <2> QED BY <1>2, <2>8, Remains DEF Load, Deletes, IInv, TypeOK
<1> QED BY <1>1, <1>2 DEF Load

LEMMA CheckUserStep == ASSUME IInv, NEW r \in Requests, CheckUser(r) PROVE IInv'
<1>1. req[r].pc = "checking" /\ req[r].pc \in OnSession
  BY DEF CheckUser, At, OnSession
<1>2. user' = user
  BY DEF CheckUser
<1>3. Fine(req[r], user)
  BY DEF IInv
<1>4. RequestsFine
  <2>1. CASE Goto(r, "revoking")
    BY <2>1, <1>1, <1>2, GotoFine DEF Labels
  <2>2. CASE Goto(r, "rotating") /\ req[r].ver = user.version /\ ~user.banned
    <3>1. req[r].ver >= req[r].since /\ ~req[r].late
      BY <1>3, <2>2 DEF Fine
    <3> QED BY <2>2, <3>1, <1>1, <1>2, GotoFine DEF Labels
  <2>3. CASE Goto(r, "touching") /\ req[r].ver = user.version
    <3>1. req[r].ver >= req[r].since
      BY <1>3, <2>3 DEF Fine
    <3> QED BY <2>3, <3>1, <1>1, <1>2, GotoFine DEF Labels
  <2> QED BY <2>1, <2>2, <2>3 DEF CheckUser, Outdated
<1> QED BY <1>4, Remains DEF CheckUser, Deletes, IInv, TypeOK

LEMMA RevokeStep == ASSUME IInv, NEW r \in Requests, Revoke(r) PROVE IInv'
<1>1. RequestsFine
  BY FailsFine DEF Revoke
<1>2. req[r].sid \in Sids
  BY DEF Revoke, At, IInv, Fine, Addressed, OnSession
<1>3. Deletes /\ index' \subseteq Sids
  BY <1>2 DEF Revoke, Deletes, IInv, TypeOK
<1> QED BY <1>1, <1>3, Remains DEF Revoke, IInv, TypeOK

LEMMA TouchStep == ASSUME IInv, NEW r \in Requests, Touch(r) PROVE IInv'
<1>1. RequestsFine
  <2>1. CASE Fails(r)
    BY <2>1, FailsFine DEF Touch
  <2>2. CASE Goto(r, "granting")
    <3>1. req[r].pc \in OnSession /\ req[r].ver >= req[r].since
      BY DEF Touch, At, IInv, Fine, Versioned, OnSession
    <3> QED BY <2>2, <3>1, GotoFine DEF Touch, Labels
  <2> QED BY <2>1, <2>2 DEF Touch
<1>2. index' \subseteq Sids
  BY DEF Touch, IInv, TypeOK
<1> QED BY <1>1, <1>2, Remains DEF Touch, Deletes, IInv, TypeOK

LEMMA GrantStep == ASSUME IInv, NEW r \in Requests, Grant(r) PROVE IInv'
<1>1. RequestsFine
  <2>1. CASE Fails(r)
    BY <2>1, FailsFine DEF Grant
  <2>2. CASE Goto(r, "granted") /\ ~user.banned
    <3>1. req[r].pc \in OnSession /\ req[r].ver >= req[r].since /\ ~req[r].late
      BY <2>2 DEF Grant, At, IInv, Fine, Versioned, OnSession
    <3> QED BY <2>2, <3>1, GotoFine DEF Grant, Labels
  <2> QED BY <2>1, <2>2 DEF Grant
<1> QED BY <1>1, Remains DEF Grant, Deletes, IInv, TypeOK

LEMMA ServedStep == ASSUME IInv, NEW r \in Requests, Served(r) PROVE IInv'
<1>1. RequestsFine
  BY FailsFine DEF Served
<1> QED BY <1>1, Remains DEF Served, Deletes, IInv, TypeOK

\* The rotation proper.  Only the current token gets here, and its successor
\* count is still 0.
LEMMA RotationStep ==
    ASSUME IInv, NEW r \in Requests, At(r, "rotating"), ~Missing(r), IsCurrent(r), Rotation(r),
           UNCHANGED <<user, cookie, lost>>
    PROVE  IInv'
<1> DEFINE s == req[r].sid
           n == req[r].n
           q == [req[r] EXCEPT !.pc = "answering", !.n = sess[s].cur + 1]
<1>1. req[r] \in Request /\ Fine(req[r], user) /\ req \in [Requests -> Request]
  BY DEF IInv, TypeOK
<1>2. s \in Sids /\ n \in Tokens /\ req[r].ver >= req[r].since /\ ~req[r].late
  BY <1>1 DEF Fine, Addressed, Versioned, Unbanned, OnSession, At
<1>3. sess \in [Sids -> Session] /\ sess[s] \in Session /\ sess[s].cur \in Tokens
  BY <1>2 DEF IInv, TypeOK, Session
<1>4. sess[s].cur < MaxRotations /\ sess[s].cur = n
  BY DEF Rotation, IsCurrent
<1>5. sess[s].cur + 1 \in Tokens
  BY <1>3, <1>4, Bounds DEF Tokens
<1>6. Rotated(sess[s]) \in Session /\ Rotated(sess[s]).cur = sess[s].cur + 1
  BY <1>3, <1>5 DEF Rotated, Session
<1>7. sess' = [sess EXCEPT ![s] = Rotated(sess[s])]
  BY DEF Rotation
<1>8. sess' \in [Sids -> Session] /\ index' \subseteq Sids
  BY <1>2, <1>3, <1>6, <1>7 DEF IInv, TypeOK, Rotation
<1>9. RequestsFine
  <2>1. /\ q \in Request /\ q.pc = "answering" /\ q.kind = req[r].kind /\ q.sid = s
        /\ q.n \in Tokens /\ q.ver = req[r].ver /\ q.since = req[r].since /\ q.late = req[r].late
    BY <1>1, <1>5 DEF Request, Labels
  <2>2. req' = [req EXCEPT ![r] = q]
    BY <1>1 DEF Rotation
  <2> HIDE DEF q
  <2>3. Fine(q, user)
    BY <1>1, <1>2, <2>1 DEF Fine, Addressed, OnSession, Versioned, Renewed, Unbanned
  <2> QED BY <2>1, <2>2, <2>3, Moves
<1>10. rotated[s][n] = 0
  BY <1>2, <1>3, <1>4 DEF IInv, Chain, Tokens
<1>11. rotated' = [rotated EXCEPT ![s] = [@ EXCEPT ![n] = 1]]
  <2>1. rotated' = [rotated EXCEPT ![s][n] = @ + 1]
    BY DEF Rotation
  <2>2. rotated \in [Sids -> [Tokens -> Nat]]
    BY DEF IInv, TypeOK
  <2> QED BY <2>1, <2>2, <1>2, <1>10
<1>12. rotated' \in [Sids -> [Tokens -> Nat]]
  BY <1>2, <1>11 DEF IInv, TypeOK
<1> HIDE DEF s, n
<1>13. Chain'
  <2> SUFFICES ASSUME NEW x \in Sids, NEW m \in Tokens
               PROVE  rotated'[x][m] <= 1 /\ (m >= sess'[x].cur => rotated'[x][m] = 0)
    BY DEF Chain
  <2>1. rotated \in [Sids -> [Tokens -> Nat]] /\ m \in Int /\ n \in Int /\ sess[s].cur \in Int
    BY <1>2, <1>3 DEF IInv, TypeOK, Tokens
  <2>2. rotated[x][m] <= 1 /\ (m >= sess[x].cur => rotated[x][m] = 0)
    BY DEF IInv, Chain
  <2>3. CASE x = s /\ m = n
    BY <2>1, <2>3, <1>2, <1>3, <1>4, <1>6, <1>7, <1>11
  <2>4. CASE x = s /\ m # n
    <3>1. rotated'[x][m] = rotated[x][m]
      BY <2>1, <2>4, <1>2, <1>11
    <3>2. sess'[x].cur = sess[x].cur + 1
      BY <2>4, <1>2, <1>3, <1>6, <1>7
    <3> QED BY <2>1, <2>2, <2>4, <3>1, <3>2
  <2>5. CASE x # s
    BY <2>1, <2>2, <2>5, <1>2, <1>3, <1>7, <1>11
  <2> QED BY <2>3, <2>4, <2>5
<1> QED BY <1>8, <1>9, <1>12, <1>13 DEF IInv, TypeOK, RequestsFine

LEMMA RotateStep == ASSUME IInv, NEW r \in Requests, Rotate(r) PROVE IInv'
<1>1. req[r].sid \in Sids
  BY DEF Rotate, At, IInv, Fine, Addressed, OnSession
<1>2. CASE /\ Fails(r) /\ Deletes /\ index' \subseteq Sids /\ UNCHANGED rotated
  <2>1. RequestsFine
    BY <1>2, FailsFine DEF Rotate
  <2> QED BY <1>2, <2>1, Remains DEF Rotate, IInv, TypeOK
<1>3. CASE ~Missing(r) /\ IsCurrent(r) /\ Rotation(r)
  BY <1>3, RotationStep DEF Rotate
<1>4. index \subseteq Sids
  BY DEF IInv, TypeOK
<1> QED BY <1>1, <1>2, <1>3, <1>4 DEF Rotate, Deletes

LEMMA LogoutStep == ASSUME IInv, NEW r \in Requests, Logout(r) PROVE IInv'
<1> DEFINE q == Starts(r, "logout", "answering")
<1>1. TypeOK /\ "logout" \in Kinds /\ "answering" \in Labels
  BY DEF IInv, Kinds, Labels
<1>2. q \in Request /\ q.pc = "answering" /\ q.kind = "logout"
      /\ q.since = user.version /\ q.late = user.banned
  BY <1>1, StartsType
<1>3. req' = [req EXCEPT ![r] = q]
  BY DEF Logout
<1> HIDE DEF q
<1>4. RequestsFine
  BY <1>1, <1>2, <1>3, NewFine DEF Logout
<1>5. cookie.sid \in Sids
  BY DEF Logout, IInv, TypeOK, Cookie
<1>6. Deletes /\ index' \subseteq Sids
  BY <1>5 DEF Logout, Deletes, IInv, TypeOK
<1> QED BY <1>4, <1>6, Remains DEF Logout, IInv, TypeOK

\* The user changes: what is true with the old one is true with the new one.
LEMMA ChangeUserStep ==
    ASSUME IInv, NEW r \in Requests, ChangePassword(r) \/ Ban(r)
    PROVE  IInv'
<1>1. PICK kind \in Kinds : req' = [req EXCEPT ![r] = Starts(r, kind, "listing")]
  BY DEF ChangePassword, Ban, Kinds
<1> DEFINE q == Starts(r, kind, "listing")
<1>2. TypeOK /\ "listing" \in Labels
  BY DEF IInv, Labels
<1>3. q \in Request /\ q.pc = "listing" /\ q.since = user.version /\ q.late = user.banned
  BY <1>2, StartsType
<1>4. req' = [req EXCEPT ![r] = q]
  BY <1>1
<1> HIDE DEF q
<1>5. user \in [version : 0 .. MaxVersion, banned : BOOLEAN]
  BY <1>2 DEF TypeOK
<1>6. /\ user' \in [version : 0 .. MaxVersion, banned : BOOLEAN]
      /\ user'.version >= user.version /\ (user.banned => user'.banned)
  <2>1. CASE ChangePassword(r)
    <3>1. user.version + 1 \in 0 .. MaxVersion /\ user.version + 1 >= user.version
      BY <1>5, <2>1, Bounds DEF ChangePassword
    <3>2. user' = [user EXCEPT !.version = user.version + 1]
      BY <2>1 DEF ChangePassword
    <3> QED BY <1>5, <3>1, <3>2
  <2>2. CASE Ban(r)
    <3>1. user' = [user EXCEPT !.banned = TRUE] /\ user.version >= user.version
      BY <1>5, <2>2, Bounds DEF Ban
    <3> QED BY <1>5, <3>1
  <2> QED BY <2>1, <2>2
<1>7. ASSUME NEW p \in Requests PROVE Fine(req'[p], user')
  <2>1. CASE p = r
    <3>1. req'[p] = q
      BY <1>2, <1>4, <2>1 DEF TypeOK
    <3>2. Addressed(q) /\ Versioned(q) /\ Unbanned(q)
      BY <1>3 DEF Addressed, OnSession, Versioned, Renewed, Unbanned
    <3>3. q.since <= user'.version /\ (q.late => user'.banned)
      BY <1>3, <1>6
    <3> QED BY <1>3, <3>1, <3>2, <3>3 DEF Fine
  <2>2. CASE p # r
    <3>1. req'[p] = req[p] /\ Fine(req[p], user) /\ req[p] \in Request
      BY <1>2, <1>4, <2>2 DEF TypeOK, IInv
    <3>2. req[p].since \in Int
      BY <3>1, Bounds DEF Request
    <3> QED BY <1>5, <1>6, <3>1, <3>2, Bounds DEF Fine
  <2> QED BY <2>1, <2>2
<1>8. TypeOK'
  BY <1>2, <1>3, <1>4, <1>6 DEF TypeOK, ChangePassword, Ban
<1>9. Chain'
  BY DEF IInv, Chain, ChangePassword, Ban
<1> QED BY <1>7, <1>8, <1>9 DEF IInv

LEMMA ListStep == ASSUME IInv, NEW r \in Requests, List(r) PROVE IInv'
<1> DEFINE q == [req[r] EXCEPT !.pc = "deleting", !.targets = index]
<1>1. req[r] \in Request /\ Fine(req[r], user) /\ req \in [Requests -> Request] /\ index \subseteq Sids
  BY DEF IInv, TypeOK
<1>2. q \in Request /\ q.pc = "deleting" /\ q.since = req[r].since /\ q.late = req[r].late
  BY <1>1 DEF Request, Labels
<1>3. req' = [req EXCEPT ![r] = q]
  BY <1>1 DEF List
<1> HIDE DEF q
<1>4. Fine(q, user)
  BY <1>1, <1>2 DEF Fine, Addressed, OnSession, Versioned, Renewed, Unbanned
<1>5. RequestsFine
  BY <1>2, <1>3, <1>4, Moves DEF List
<1> QED BY <1>5, Remains DEF List, Deletes, IInv, TypeOK

LEMMA DeleteListedStep == ASSUME IInv, NEW r \in Requests, DeleteListed(r) PROVE IInv'
<1>1. RequestsFine
  BY FailsFine DEF DeleteListed
<1>2. req[r].targets \in SUBSET Sids
  BY DEF IInv, TypeOK, Request
<1> QED BY <1>1, <1>2, Remains DEF DeleteListed, Deletes, IInv, TypeOK

LEMMA CleanupFailsStep == ASSUME IInv, NEW r \in Requests, CleanupFails(r) PROVE IInv'
<1>1. RequestsFine
  <2>1. CASE Fails(r)
    BY <2>1, FailsFine DEF CleanupFails
  <2>2. CASE Goto(r, "listing")
    <3>1. "listing" \in Labels /\ "listing" \notin OnSession
      BY DEF Labels, OnSession
    <3> QED BY <2>2, <3>1, GotoFine DEF CleanupFails
  <2> QED BY <2>1, <2>2 DEF CleanupFails
<1> QED BY <1>1, Remains DEF CleanupFails, Deletes, IInv, TypeOK

LEMMA AnswerStep ==
    ASSUME IInv, NEW r \in Requests, Answer(r) \/ AnswerIsLost(r)
    PROVE  IInv'
<1>1. RequestsFine
  BY FailsFine DEF Answer, AnswerIsLost
<1>2. cookie' \in Cookie
  <2>1. CASE Answer(r)
    <3>1. req[r].kind # "logout" => req[r].sid \in Sids /\ req[r].n \in Tokens
      BY <2>1 DEF Answer, At, IInv, Fine, Addressed
    <3> QED BY <2>1, <3>1 DEF Answer, Cookie
  <2>2. CASE AnswerIsLost(r)
    BY <2>2 DEF AnswerIsLost, IInv, TypeOK
  <2> QED BY <2>1, <2>2
<1>3. lost' \in 0 .. MaxLost
  BY Bounds DEF Answer, AnswerIsLost, IInv, TypeOK
<1>4. UNCHANGED <<sess, index, user, rotated>>
  BY DEF Answer, AnswerIsLost
<1>5. index' \subseteq Sids
  BY <1>4 DEF IInv, TypeOK
<1> QED BY <1>1, <1>2, <1>3, <1>4, <1>5, Remains DEF Deletes

LEMMA TimeStep == ASSUME IInv, NEW s \in Sids, Time(s) PROVE IInv'
<1>1. sess' \in [Sids -> Session] /\ Chain'
  <2>1. CASE GraceEnds(s)
    <3>1. sess \in [Sids -> Session] /\ rotated' = rotated /\ Chain
      BY <2>1 DEF GraceEnds, IInv, TypeOK
    <3>2. sess' = [sess EXCEPT ![s] = [sess[s] EXCEPT !.grace = FALSE]]
      BY <2>1 DEF GraceEnds
    <3>3. [sess[s] EXCEPT !.grace = FALSE] \in Session
          /\ [sess[s] EXCEPT !.grace = FALSE].cur = sess[s].cur
      BY <3>1 DEF Session
    <3>4. sess' \in [Sids -> Session] /\ \A t \in Sids : sess'[t].cur = sess[t].cur
      BY <3>1, <3>2, <3>3
    <3> QED BY <3>1, <3>4 DEF Chain
  <2>2. CASE Expire(s)
    <3>1. Delete({s}) /\ {s} \in SUBSET Sids /\ UNCHANGED rotated
      BY <2>2 DEF Expire
    <3> QED BY <3>1, DeleteType, DeleteChain DEF IInv
  <2> QED BY <2>1, <2>2 DEF Time
<1> QED BY <1>1 DEF Time, GraceEnds, Expire, IInv, TypeOK
-----------------------------------------------------------------------------
(***************************************************************************)
(* The theorems.                                                           *)
(***************************************************************************)

LEMMA InitInv == Init => IInv
<1> SUFFICES ASSUME Init PROVE IInv
  OBVIOUS
<1>1. 0 \in Tokens
  BY Bounds DEF Tokens
<1>2. TypeOK
  BY <1>1, IdleType, Bounds DEF Init, TypeOK, Session, Cookie
<1>3. \A r \in Requests : Fine(req[r], user)
  BY <1>2, IdleType DEF Init
<1>4. Chain
  BY DEF Init, Chain
<1> QED BY <1>2, <1>3, <1>4 DEF IInv

LEMMA NextInv == IInv /\ [Next]_vars => IInv'
<1> SUFFICES ASSUME IInv, [Next]_vars PROVE IInv'
  OBVIOUS
<1>1. ASSUME NEW r \in Requests, Handle(r) PROVE IInv'
  BY <1>1, LoginStep, CreateSessionStep, PresentStep, LoadStep, CheckUserStep, RotateStep,
     RevokeStep, TouchStep, GrantStep, ServedStep, LogoutStep, ChangeUserStep, ListStep,
     DeleteListedStep, CleanupFailsStep, AnswerStep DEF Handle
<1>2. ASSUME NEW s \in Sids, Time(s) PROVE IInv'
  BY <1>2, TimeStep
<1>3. CASE UNCHANGED vars
  BY <1>3 DEF vars, IInv, TypeOK, Chain
<1> QED BY <1>1, <1>2, <1>3 DEF Next

\* The inductive invariant: types, the chain of refresh tokens, and what each
\* request may rely on at each of its labels.
THEOREM Invariance == Spec => []IInv
BY InitInv, NextInv, PTL DEF Spec

\* Sessions, index, user and requests keep their types.
THEOREM TypeCorrect == Spec => []TypeOK
<1>1. IInv => TypeOK
  BY DEF IInv
<1> QED BY <1>1, Invariance, PTL

\* compareAndRotate gives a refresh token at most one successor, however many
\* requests present it at the same time.
THEOREM TokensAreAChain == Spec => []OneSuccessor
<1>1. IInv => OneSuccessor
  BY DEF IInv, Chain, OneSuccessor
<1> QED BY <1>1, Invariance, PTL

\* After a password change nothing that starts is served on an old session,
\* whatever happens to the cleanup of the sessions.
THEOREM OldSessionsRefused == Spec => []OldSessionsAreRefused
<1>1. IInv => OldSessionsAreRefused
  BY DEF IInv, Fine, Versioned, Renewed, OldSessionsAreRefused, Succeeds, At
<1> QED BY <1>1, Invariance, PTL

\* After a ban nothing that starts is served.
THEOREM BannedRefused == Spec => []BannedAreRefused
<1>1. IInv => BannedAreRefused
  BY DEF IInv, Fine, Unbanned, Renewed, BannedAreRefused, Succeeds, At
<1> QED BY <1>1, Invariance, PTL

\* No script, MULTI block or cleanup brings a deleted session back.
THEOREM NoRevival == Spec => RevokedStaysRevoked
<1> DEFINE Dead == \A s \in Sids : sess[s].state = "gone" => sess'[s].state = "gone"
<1>1. ASSUME IInv, [Next]_vars PROVE Dead
  <2> SUFFICES ASSUME NEW s \in Sids, sess[s].state = "gone" PROVE sess'[s].state = "gone"
    OBVIOUS
  <2>1. sess \in [Sids -> Session]
    BY <1>1 DEF IInv, TypeOK
  <2>2. ASSUME NEW ss, Delete(ss) PROVE sess'[s].state = "gone"
    BY <2>2 DEF Delete, Live
  <2>3. ASSUME NEW r \in Requests, CreateSession(r) PROVE sess'[s].state = "gone"
    BY <2>1, <2>3 DEF CreateSession
  <2>4. ASSUME NEW r \in Requests, Rotate(r) PROVE sess'[s].state = "gone"
    <3>1. CASE Rotation(r) /\ ~Missing(r)
      BY <2>1, <3>1 DEF Rotation, Missing, Live
    <3> QED BY <2>2, <2>4, <3>1 DEF Rotate
  <2>5. ASSUME NEW x \in Sids, Time(x) PROVE sess'[s].state = "gone"
    <3>1. CASE GraceEnds(x)
      BY <2>1, <3>1 DEF GraceEnds, Session
    <3> QED BY <2>2, <2>5, <3>1 DEF Time, Expire
  <2>6. ASSUME NEW r \in Requests, Revoke(r) \/ Logout(r) \/ DeleteListed(r)
        PROVE  sess'[s].state = "gone"
    BY <2>2, <2>6 DEF Revoke, Logout, DeleteListed
  <2>7. ASSUME NEW r \in Requests, Handle(r), UNCHANGED sess PROVE sess'[s].state = "gone"
    BY <2>7
  <2>8. ASSUME NEW r \in Requests, Handle(r) PROVE sess'[s].state = "gone"
    BY <2>3, <2>4, <2>6, <2>7, <2>8
       DEF Handle, Login, Refresh, Load, CheckUser, Access, Touch, Grant, Served,
           ChangePassword, Ban, List, CleanupFails, Answer, AnswerIsLost
  <2>9. CASE UNCHANGED vars
    BY <2>9 DEF vars
  <2> QED BY <1>1, <2>5, <2>8, <2>9 DEF Next
<1>2. Spec => [][Dead]_vars
  BY <1>1, Invariance, PTL DEF Spec
<1> QED BY <1>2 DEF RevokedStaysRevoked
-----------------------------------------------------------------------------
(***************************************************************************)
(* The cookie follows the session.                                         *)
(***************************************************************************)

\* A request has a token of its session, or brings one to the browser.
Delivers(q) == q.pc = "answering" /\ q.kind # "logout"
Has(q) == q.pc \in OnSession \/ Delivers(q)

\* A token in use is one the session has made.
Made(sid, n) == sess[sid].state # "unused" /\ n <= sess[sid].cur

Unused == \A s \in Sids : sess[s].state = "unused" => sess[s].cur = 0

\* A token on its way to the browser is the current one, and nobody has it yet.
Fresh(r) ==
    /\ Live(req[r].sid) => req[r].n = sess[req[r].sid].cur
    /\ cookie # None => cookie.sid # req[r].sid \/ cookie.n # req[r].n
    /\ \A p \in Requests \ {r} :
         Has(req[p]) => req[p].sid # req[r].sid \/ req[p].n # req[r].n

\* CookieFollows with an answer that does bring a token.
Follows ==
    lost = 0 /\ cookie # None =>
        \/ ~Live(cookie.sid)
        \/ sess[cookie.sid].cur = cookie.n
        \/ \E r \in Requests : Delivers(req[r]) /\ req[r].sid = cookie.sid
                                 /\ req[r].n = sess[cookie.sid].cur

Tracked ==
    /\ \A r \in Requests : Has(req[r]) => Made(req[r].sid, req[r].n)
    /\ \A r \in Requests : Delivers(req[r]) => Fresh(r)
    /\ cookie # None => Made(cookie.sid, cookie.n)
    /\ Follows /\ Unused

LEMMA Addresses ==
    ASSUME IInv
    PROVE  /\ \A r \in Requests : Has(req[r]) => req[r].sid \in Sids /\ req[r].n \in Tokens
           /\ cookie # None => cookie.sid \in Sids /\ cookie.n \in Tokens
           /\ \A s \in Sids : sess[s].cur \in Tokens
           /\ Tokens \subseteq Int
<1>1. \A r \in Requests : Has(req[r]) => req[r].sid \in Sids /\ req[r].n \in Tokens
  BY DEF IInv, Fine, Addressed, Has, Delivers
<1>2. cookie # None => cookie.sid \in Sids /\ cookie.n \in Tokens
  BY DEF IInv, TypeOK, Cookie
<1>3. \A s \in Sids : sess[s].cur \in Tokens
  BY DEF IInv, TypeOK, Session
<1> QED BY <1>1, <1>2, <1>3, Bounds DEF Tokens

\* Steps that give nobody a token and make none.
Calm(r) ==
    /\ \A p \in Requests \ {r} : req'[p] = req[p]
    /\ ~Delivers(req'[r])
    /\ Has(req'[r]) => Has(req[r]) /\ req'[r].sid = req[r].sid /\ req'[r].n = req[r].n
    /\ \A s \in Sids : /\ sess'[s].cur = sess[s].cur
                       /\ sess'[s].state = "live" => sess[s].state = "live"
                       /\ sess'[s].state = "unused" => sess[s].state = "unused"
    /\ cookie' = cookie
    /\ (lost' = lost /\ (lost = 0 => ~Delivers(req[r]))) \/ lost' # 0

LEMMA CalmStep ==
    ASSUME IInv, Tracked, NEW r \in Requests, Calm(r)
    PROVE  Tracked'
<1>1. \A p \in Requests : Has(req'[p]) => Has(req[p]) /\ req'[p].sid = req[p].sid /\ req'[p].n = req[p].n
  BY DEF Calm
<1>2. \A p \in Requests : Delivers(req'[p]) => p # r /\ req'[p] = req[p]
  BY DEF Calm
<1>3. \A sid \in Sids : \A n : Made(sid, n) => Made(sid, n)'
  BY DEF Made, Calm
<1>4. \A p \in Requests : Has(req'[p]) => Made(req[p].sid, req[p].n)'
  BY <1>1, <1>3, Addresses DEF Tracked
<1>5. ASSUME NEW p \in Requests, Delivers(req'[p]) PROVE Fresh(p)'
  BY <1>1, <1>2, <1>5, Addresses DEF Tracked, Fresh, Live, Calm, Has
<1>6. cookie' # None => Made(cookie.sid, cookie.n)'
  BY <1>3, Addresses DEF Tracked, Calm
<1>7. Follows'
  <2> SUFFICES ASSUME lost' = 0, cookie # None, sess'[cookie.sid].state = "live",
                      sess'[cookie.sid].cur # cookie.n
               PROVE  \E p \in Requests : Delivers(req'[p]) /\ req'[p].sid = cookie.sid
                                            /\ req'[p].n = sess'[cookie.sid].cur
    BY DEF Follows, Calm, Live
  <2>1. lost = 0 /\ ~Delivers(req[r]) /\ cookie.sid \in Sids
    BY Addresses DEF Calm
  <2>2. sess[cookie.sid].state = "live" /\ sess'[cookie.sid].cur = sess[cookie.sid].cur
    BY <2>1 DEF Calm
  <2>3. PICK p \in Requests : Delivers(req[p]) /\ req[p].sid = cookie.sid
                                /\ req[p].n = sess[cookie.sid].cur
    BY <2>1, <2>2 DEF Tracked, Follows, Live
  <2> QED BY <2>1, <2>2, <2>3 DEF Calm
<1>8. Unused'
  BY DEF Tracked, Unused, Calm
<1> QED BY <1>1, <1>4, <1>5, <1>6, <1>7, <1>8 DEF Tracked

LEMMA DeletesKeep ==
    ASSUME IInv, Deletes
    PROVE  \A s \in Sids : /\ sess'[s].cur = sess[s].cur
                           /\ sess'[s].state = "live" => sess[s].state = "live"
                           /\ sess'[s].state = "unused" => sess[s].state = "unused"
<1>1. sess \in [Sids -> Session]
  BY DEF IInv, TypeOK
<1>2. CASE UNCHANGED sess
  BY <1>2
<1>3. ASSUME NEW ss, Delete(ss) PROVE \A s \in Sids :
         /\ sess'[s].cur = sess[s].cur
         /\ sess'[s].state = "live" => sess[s].state = "live"
         /\ sess'[s].state = "unused" => sess[s].state = "unused"
  BY <1>1, <1>3 DEF Delete, Live, Session
<1> QED BY <1>2, <1>3 DEF Deletes

\* The label of request r changes to one that is not "answering", or it ends.
LEMMA MovesCalmly ==
    ASSUME IInv, Tracked, NEW r \in Requests,
           Fails(r) \/ \E q : /\ req' = [req EXCEPT ![r] = q] /\ ~Delivers(q)
                              /\ Has(q) => Has(req[r]) /\ q.sid = req[r].sid /\ q.n = req[r].n,
           \A s \in Sids : /\ sess'[s].cur = sess[s].cur
                           /\ sess'[s].state = "live" => sess[s].state = "live"
                           /\ sess'[s].state = "unused" => sess[s].state = "unused",
           UNCHANGED cookie,
           (lost' = lost /\ ~Delivers(req[r])) \/ lost' # 0
    PROVE  Tracked'
<1>1. req \in [Requests -> Request]
  BY DEF IInv, TypeOK
<1>2. ~Has(Idle) /\ ~Delivers(Idle)
  BY DEF Idle, Has, Delivers, OnSession
<1>3. PICK q : /\ req' = [req EXCEPT ![r] = q] /\ ~Delivers(q)
               /\ Has(q) => Has(req[r]) /\ q.sid = req[r].sid /\ q.n = req[r].n
  BY <1>2 DEF Fails
<1>4. req'[r] = q /\ \A p \in Requests \ {r} : req'[p] = req[p]
  BY <1>1, <1>3
<1>5. Calm(r)
  BY <1>3, <1>4 DEF Calm
<1> QED BY <1>5, CalmStep

LEMMA GotoCalmly ==
    ASSUME IInv, Tracked, NEW r \in Requests, NEW label, Goto(r, label), label # "answering",
           Has(req[r]) \/ label \notin OnSession, ~Delivers(req[r]), UNCHANGED <<sess, cookie, lost>>
    PROVE  Tracked'
<1> DEFINE q == [req[r] EXCEPT !.pc = label]
<1>1. req[r] \in Request /\ req \in [Requests -> Request]
  BY DEF IInv, TypeOK
<1>2. q.pc = label /\ q.sid = req[r].sid /\ q.n = req[r].n
  BY <1>1 DEF Request
<1>3. req' = [req EXCEPT ![r] = q]
  BY <1>1 DEF Goto
<1> HIDE DEF q
<1>4. ~Delivers(q) /\ (Has(q) => Has(req[r]))
  BY <1>2 DEF Delivers, Has
<1> QED BY <1>2, <1>3, <1>4, MovesCalmly

LEMMA PresentTracked ==
    ASSUME IInv, Tracked, NEW r \in Requests, Refresh(r) \/ Access(r)
    PROVE  Tracked'
<1>1. PICK kind \in Kinds : req' = [req EXCEPT ![r] = Presented(r, kind, "loading")]
  BY DEF Refresh, Access, Kinds
<1> DEFINE q == Presented(r, kind, "loading")
<1>2. q.pc = "loading" /\ q.sid = cookie.sid /\ q.n = cookie.n
  <2>1. TypeOK /\ "loading" \in Labels /\ cookie # None
    BY DEF IInv, Labels, Refresh, Access
  <2>2. q = [Starts(r, kind, "loading") EXCEPT !.sid = cookie.sid, !.n = cookie.n]
    BY DEF Presented
  <2>3. Starts(r, kind, "loading") \in Request /\ Starts(r, kind, "loading").pc = "loading"
    BY <2>1, StartsType
  <2> HIDE DEF q
  <2> QED BY <2>2, <2>3 DEF Request
<1>3. req'[r] = q /\ \A p \in Requests \ {r} : req'[p] = req[p]
  BY <1>1 DEF IInv, TypeOK
<1> HIDE DEF q
<1>4. UNCHANGED <<sess, cookie, lost>> /\ cookie # None /\ req[r].pc = "idle"
  BY DEF Refresh, Access, At
<1>5. ~Delivers(req'[r]) /\ ~Delivers(req[r])
  BY <1>2, <1>3, <1>4 DEF Delivers
<1>6. ASSUME NEW p \in Requests, Has(req'[p]) PROVE Made(req[p].sid, req[p].n)'
  <2>1. CASE p = r
    <3>1. sess[cookie.sid].state # "unused" /\ cookie.n <= sess[cookie.sid].cur
      BY <1>4 DEF Tracked, Made
    <3>2. req'[p].sid = cookie.sid /\ req'[p].n = cookie.n
      BY <1>2, <1>3, <2>1
    <3> QED BY <1>4, <3>1, <3>2 DEF Made
  <2>2. CASE p # r
    <3>1. req'[p] = req[p] /\ sess' = sess
      BY <1>3, <1>4, <2>2
    <3>2. sess[req[p].sid].state # "unused" /\ req[p].n <= sess[req[p].sid].cur
      BY <1>6, <3>1 DEF Tracked, Made
    <3> QED BY <3>1, <3>2 DEF Made
  <2> QED BY <2>1, <2>2
<1>7. ASSUME NEW p \in Requests, Delivers(req'[p]) PROVE Fresh(p)'
  <2>1. p # r /\ req'[p] = req[p] /\ Fresh(p)
    BY <1>3, <1>5, <1>7 DEF Tracked
  <2> QED BY <1>2, <1>3, <1>4, <2>1 DEF Fresh, Live
<1>8. Follows'
  BY <1>3, <1>4, <1>5 DEF Tracked, Follows, Live
<1>9. cookie' # None => Made(cookie.sid, cookie.n)'
  BY <1>4 DEF Tracked, Made
<1>10. Unused'
  BY <1>4 DEF Tracked, Unused
<1> QED BY <1>6, <1>7, <1>8, <1>9, <1>10 DEF Tracked

LEMMA CreateTracked ==
    ASSUME IInv, Tracked, NEW r \in Requests, CreateSession(r)
    PROVE  Tracked'
<1>1. PICK s \in Sids :
         /\ sess[s].state = "unused"
         /\ sess' = [sess EXCEPT ![s] = Created(@, req[r].ver)]
         /\ index' = index \cup {s}
         /\ req' = [req EXCEPT ![r] = [@ EXCEPT !.pc = "answering", !.sid = s, !.n = 0]]
  BY DEF CreateSession
<1>2. req[r].pc = "creating" /\ req[r].kind = "login" /\ UNCHANGED <<cookie, lost>>
  BY DEF CreateSession, At, IInv, Fine
<1>3. /\ req'[r].sid = s /\ req'[r].n = 0 /\ Delivers(req'[r]) /\ ~Has(req[r])
      /\ \A p \in Requests \ {r} : req'[p] = req[p]
  BY <1>1, <1>2 DEF IInv, TypeOK, Request, Delivers, Has, OnSession
<1>4. \A x \in Sids \ {s} : sess'[x] = sess[x]
  BY <1>1 DEF IInv, TypeOK
<1>5. sess'[s].state = "live" /\ sess'[s].cur = sess[s].cur
  <2>1. sess[s] \in Session
    BY DEF IInv, TypeOK
  <2>2. Created(sess[s], req[r].ver).state = "live" /\ Created(sess[s], req[r].ver).cur = sess[s].cur
    BY <2>1 DEF Created, Session
  <2> QED BY <1>1, <2>2 DEF IInv, TypeOK
<1>6. \A p \in Requests : Has(req[p]) => req[p].sid # s
  BY <1>1 DEF Tracked, Made
<1>7. cookie # None => cookie.sid # s
  BY <1>1 DEF Tracked, Made
<1>8. sess[s].cur = 0
  BY <1>1 DEF Tracked, Unused
<1>9. ASSUME NEW p \in Requests, Has(req'[p]) PROVE Made(req[p].sid, req[p].n)'
  <2>1. CASE p = r
    BY <1>3, <1>5, <1>8, <2>1 DEF Made
  <2>2. CASE p # r
    <3>1. req'[p] = req[p] /\ req[p].sid \in Sids \ {s}
      BY <1>3, <1>6, <1>9, <2>2, Addresses
    <3>2. sess[req[p].sid].state # "unused" /\ req[p].n <= sess[req[p].sid].cur
      BY <1>9, <3>1 DEF Tracked, Made
    <3> QED BY <1>4, <3>1, <3>2 DEF Made
  <2> QED BY <2>1, <2>2
<1>10. cookie' # None => Made(cookie.sid, cookie.n)'
  BY <1>2, <1>4, <1>7, Addresses DEF Tracked, Made
<1>11. ASSUME NEW p \in Requests, Delivers(req'[p]) PROVE Fresh(p)'
  <2>1. CASE p = r
    BY <1>2, <1>3, <1>5, <1>6, <1>7, <1>8, <2>1 DEF Fresh, Live
  <2>2. CASE p # r
    <3>1. req'[p] = req[p] /\ Fresh(p) /\ req[p].sid # s /\ req[p].sid \in Sids
      BY <1>3, <1>6, <1>11, <2>2, Addresses DEF Tracked, Has
    <3> QED BY <1>2, <1>3, <1>4, <3>1 DEF Fresh, Live
  <2> QED BY <2>1, <2>2
<1>12. Follows'
  <2> SUFFICES ASSUME lost = 0, cookie # None, sess'[cookie.sid].state = "live",
                      sess'[cookie.sid].cur # cookie.n
               PROVE  \E p \in Requests : Delivers(req'[p]) /\ req'[p].sid = cookie.sid
                                            /\ req'[p].n = sess'[cookie.sid].cur
    BY <1>2 DEF Follows, Live
  <2>1. cookie.sid \in Sids \ {s} /\ sess'[cookie.sid] = sess[cookie.sid]
    BY <1>4, <1>7, Addresses
  <2>2. PICK p \in Requests : Delivers(req[p]) /\ req[p].sid = cookie.sid
                                /\ req[p].n = sess[cookie.sid].cur
    BY <2>1 DEF Tracked, Follows, Live
  <2>3. p # r
    BY <1>3, <2>2 DEF Has
  <2> QED BY <1>3, <2>1, <2>2, <2>3
<1>13. Unused'
  BY <1>1, <1>4, <1>5 DEF Unused, Tracked
<1> QED BY <1>9, <1>10, <1>11, <1>12, <1>13 DEF Tracked

\* Steps of time: no request moves, and no session gets a token.
LEMMA StillTracked ==
    ASSUME IInv, Tracked, UNCHANGED <<req, cookie, lost>>,
           \A s \in Sids : /\ sess'[s].cur = sess[s].cur
                           /\ sess'[s].state = "live" => sess[s].state = "live"
                           /\ sess'[s].state = "unused" => sess[s].state = "unused"
    PROVE  Tracked'
<1>1. \A sid \in Sids : \A n : Made(sid, n) => Made(sid, n)'
  BY DEF Made
<1>2. \A p \in Requests : Has(req'[p]) => Made(req[p].sid, req[p].n)'
  BY <1>1, Addresses DEF Tracked
<1>3. ASSUME NEW p \in Requests, Delivers(req'[p]) PROVE Fresh(p)'
  <2>1. Fresh(p) /\ req[p].sid \in Sids /\ req' = req
    BY <1>3, Addresses DEF Tracked, Has
  <2> QED BY <2>1 DEF Fresh, Live
<1>4. cookie' # None => Made(cookie.sid, cookie.n)'
  BY <1>1, Addresses DEF Tracked
<1>5. Follows'
  BY Addresses DEF Tracked, Follows, Live
<1>6. Unused'
  BY DEF Tracked, Unused
<1> QED BY <1>2, <1>3, <1>4, <1>5, <1>6 DEF Tracked

LEMMA TimeTracked == ASSUME IInv, Tracked, NEW s \in Sids, Time(s) PROVE Tracked'
<1>1. sess \in [Sids -> Session]
  BY DEF IInv, TypeOK
<1>2. CASE GraceEnds(s)
  <2>1. \A x \in Sids : sess'[x].cur = sess[x].cur /\ sess'[x].state = sess[x].state
    BY <1>1, <1>2 DEF GraceEnds, Session
  <2> QED BY <1>2, <2>1, StillTracked DEF GraceEnds
<1>3. CASE Expire(s)
  BY <1>3, DeletesKeep, StillTracked DEF Expire, Deletes
<1> QED BY <1>2, <1>3 DEF Time

\* The rotation: the new token is on its way, and a token that was on its way
\* already was not one of this session, since its current one was presented.
LEMMA RotationTracked ==
    ASSUME IInv, Tracked, NEW r \in Requests, At(r, "rotating"), req[r].kind # "logout",
           ~Missing(r), IsCurrent(r), Rotation(r), UNCHANGED <<cookie, lost>>
    PROVE  Tracked'
<1> DEFINE s == req[r].sid
           n == req[r].n
           q == [req[r] EXCEPT !.pc = "answering", !.n = sess[s].cur + 1]
<1>1. Has(req[r]) /\ ~Delivers(req[r])
  BY DEF At, Has, Delivers, OnSession
<1>2. s \in Sids /\ n \in Int /\ sess[s].cur = n /\ sess[s].state = "live"
  BY <1>1, Addresses DEF IsCurrent, Missing, Live
<1>3. sess \in [Sids -> Session] /\ req \in [Requests -> Request] /\ req[r] \in Request
  BY DEF IInv, TypeOK
<1>4. q.pc = "answering" /\ q.kind = req[r].kind /\ q.sid = s /\ q.n = n + 1
  BY <1>2, <1>3 DEF Request
<1>5. req' = [req EXCEPT ![r] = q] /\ sess' = [sess EXCEPT ![s] = Rotated(sess[s])]
  BY <1>3 DEF Rotation
<1> HIDE DEF q
<1>6. /\ req'[r].sid = s /\ req'[r].n = n + 1 /\ Delivers(req'[r])
      /\ \A p \in Requests \ {r} : req'[p] = req[p]
  BY <1>3, <1>4, <1>5 DEF Delivers
<1>7. Rotated(sess[s]).state = "live" /\ Rotated(sess[s]).cur = n + 1
  BY <1>2, <1>3 DEF Rotated, Session
<1> HIDE DEF s, n
<1>8. /\ sess'[s].state = "live" /\ sess'[s].cur = n + 1
      /\ \A x \in Sids \ {s} : sess'[x] = sess[x]
  BY <1>2, <1>3, <1>5, <1>7
<1>9. \A x \in Sids : \A m \in Int : Made(x, m) => Made(x, m)'
  BY <1>2, <1>8 DEF Made
<1>10. ASSUME NEW p \in Requests, Has(req'[p]) PROVE Made(req[p].sid, req[p].n)'
  <2>1. CASE p = r
    BY <1>2, <1>6, <1>8, <2>1 DEF Made
  <2>2. CASE p # r
    <3>1. req'[p] = req[p] /\ req[p].sid \in Sids /\ req[p].n \in Int /\ Made(req[p].sid, req[p].n)
      BY <1>6, <1>10, <2>2, Addresses DEF Tracked
    <3>2. PICK x, m : x = req[p].sid /\ m = req[p].n
      OBVIOUS
    <3>3. Made(x, m)'
      BY <1>9, <3>1, <3>2
    <3> QED BY <3>1, <3>2, <3>3 DEF Made
  <2> QED BY <2>1, <2>2
<1>11. cookie' # None => Made(cookie.sid, cookie.n)'
  BY <1>9, Addresses DEF Tracked
<1>12. \A m \in Int : Made(s, m) => m # n + 1
  BY <1>2 DEF Made
<1>13. ASSUME NEW p \in Requests, Delivers(req'[p]) PROVE Fresh(p)'
  <2>1. CASE p = r
    <3>1. cookie # None => cookie.sid # s \/ cookie.n # n + 1
      BY <1>12, Addresses DEF Tracked
    <3>2. \A x \in Requests \ {r} : Has(req[x]) => req[x].sid # s \/ req[x].n # n + 1
      BY <1>12, Addresses DEF Tracked
    <3> QED BY <1>6, <1>8, <2>1, <3>1, <3>2 DEF Fresh, Live
  <2>2. CASE p # r
    <3>1. req'[p] = req[p] /\ Fresh(p) /\ req[p].sid \in Sids
      BY <1>6, <1>13, <2>2, Addresses DEF Tracked, Has
    <3>2. req[p].sid # s
      BY <1>1, <1>2, <2>2, <3>1 DEF Fresh, Live, s, n
    <3>3. sess'[req[p].sid] = sess[req[p].sid]
      BY <1>8, <3>1, <3>2
    <3> QED BY <1>6, <3>1, <3>2, <3>3 DEF Fresh, Live
  <2> QED BY <2>1, <2>2
<1>14. Follows'
  <2> SUFFICES ASSUME lost = 0, cookie # None, sess'[cookie.sid].state = "live",
                      sess'[cookie.sid].cur # cookie.n
               PROVE  \E p \in Requests : Delivers(req'[p]) /\ req'[p].sid = cookie.sid
                                            /\ req'[p].n = sess'[cookie.sid].cur
    BY DEF Follows, Live
  <2>1. CASE cookie.sid = s
    BY <1>6, <1>8, <2>1
  <2>2. CASE cookie.sid # s
    <3>1. sess'[cookie.sid] = sess[cookie.sid]
      BY <1>8, <2>2, Addresses
    <3>2. PICK p \in Requests : Delivers(req[p]) /\ req[p].sid = cookie.sid
                                  /\ req[p].n = sess[cookie.sid].cur
      BY <3>1 DEF Tracked, Follows, Live
    <3>3. p # r
      BY <1>1, <3>2
    <3> QED BY <1>6, <3>1, <3>2, <3>3
  <2> QED BY <2>1, <2>2
<1>15. Unused'
  BY <1>8 DEF Tracked, Unused
<1> QED BY <1>10, <1>11, <1>13, <1>14, <1>15 DEF Tracked

\* The answer arrives: what was on its way is the cookie now.
LEMMA AnswerTracked ==
    ASSUME IInv, Tracked, NEW r \in Requests, Answer(r)
    PROVE  Tracked'
<1>1. req[r].pc = "answering" /\ req' = [req EXCEPT ![r] = Idle] /\ UNCHANGED <<sess, lost>>
  BY DEF Answer, At, Fails
<1>2. req'[r] = Idle /\ \A p \in Requests \ {r} : req'[p] = req[p]
  BY <1>1 DEF IInv, TypeOK
<1>3. ~Has(req'[r]) /\ ~Delivers(req'[r])
  BY <1>2 DEF Idle, Has, Delivers, OnSession
<1>4. \A p \in Requests : Has(req'[p]) => Made(req[p].sid, req[p].n)'
  BY <1>1, <1>2, <1>3 DEF Tracked, Made
<1>5. Unused'
  BY <1>1 DEF Tracked, Unused
<1>6. CASE req[r].kind = "logout"
  <2>1. cookie' = None
    BY <1>6 DEF Answer
  <2>2. ASSUME NEW p \in Requests, Delivers(req'[p]) PROVE Fresh(p)'
    <3>1. p # r /\ req'[p] = req[p] /\ Fresh(p)
      BY <1>2, <1>3, <2>2 DEF Tracked
    <3> QED BY <1>1, <1>2, <1>3, <2>1, <3>1 DEF Fresh, Live
  <2> QED BY <1>4, <1>5, <2>1, <2>2 DEF Tracked, Follows
<1>7. CASE req[r].kind # "logout"
  <2>1. cookie' = [sid |-> req[r].sid, n |-> req[r].n]
    BY <1>7 DEF Answer
  <2>2. cookie'.sid = req[r].sid /\ cookie'.n = req[r].n
    BY <2>1
  <2>3. Delivers(req[r]) /\ Has(req[r])
    BY <1>1, <1>7 DEF Delivers, Has
  <2>4. Fresh(r) /\ Made(req[r].sid, req[r].n)
    BY <2>3 DEF Tracked
  <2>5. ASSUME NEW p \in Requests, Delivers(req'[p]) PROVE Fresh(p)'
    <3>1. p # r /\ req'[p] = req[p] /\ Fresh(p)
      BY <1>2, <1>3, <2>5 DEF Tracked
    <3>2. req[r].sid # req[p].sid \/ req[r].n # req[p].n
      BY <2>3, <3>1 DEF Fresh
    <3> QED BY <1>1, <1>2, <1>3, <2>2, <3>1, <3>2 DEF Fresh, Live
  <2>6. Follows'
    BY <1>1, <2>2, <2>4 DEF Follows, Fresh, Live
  <2>7. Made(cookie.sid, cookie.n)'
    BY <1>1, <2>2, <2>4 DEF Made
  <2> QED BY <1>4, <1>5, <2>5, <2>6, <2>7 DEF Tracked
<1> QED BY <1>6, <1>7

\* The steps that bring no token to the browser and make none.
LEMMA CalmTracked ==
    ASSUME IInv, Tracked, NEW r \in Requests,
           \/ Login(r) \/ Load(r) \/ CheckUser(r) \/ Revoke(r) \/ Touch(r) \/ Grant(r)
           \/ Served(r) \/ Logout(r) \/ ChangePassword(r) \/ Ban(r) \/ List(r)
           \/ DeleteListed(r) \/ CleanupFails(r) \/ AnswerIsLost(r)
    PROVE  Tracked'
<1>1. TypeOK /\ req \in [Requests -> Request] /\ req[r] \in Request /\ lost \in Nat
  BY Bounds DEF IInv, TypeOK
<1>2. ~Has(Idle) /\ ~Delivers(Idle)
  BY DEF Idle, Has, Delivers, OnSession
<1>3. UNCHANGED sess => Deletes
  BY DEF Deletes
<1>4. ASSUME NEW q, req' = [req EXCEPT ![r] = q], ~Delivers(q), ~Delivers(req[r]),
             Has(q) => Has(req[r]) /\ q.sid = req[r].sid /\ q.n = req[r].n,
             Deletes, UNCHANGED <<cookie, lost>>
      PROVE  Tracked'
  BY <1>4, DeletesKeep, MovesCalmly
<1>5. ASSUME Fails(r), ~Delivers(req[r]), Deletes, UNCHANGED <<cookie, lost>> PROVE Tracked'
  BY <1>2, <1>4, <1>5 DEF Fails
<1>6. CASE Login(r)
  <2> DEFINE q == [Starts(r, "login", "creating") EXCEPT !.ver = user.version]
  <2>1. Starts(r, "login", "creating") \in Request /\ Starts(r, "login", "creating").pc = "creating"
    BY <1>1, StartsType DEF Kinds, Labels
  <2>2. q.pc = "creating" /\ req' = [req EXCEPT ![r] = q]
    BY <1>6, <2>1 DEF Login, Request
  <2> HIDE DEF q
  <2>3. ~Delivers(q) /\ ~Has(q) /\ ~Delivers(req[r])
    BY <1>6, <2>2 DEF Delivers, Has, OnSession, Login, At
  <2> QED BY <1>3, <1>4, <1>6, <2>2, <2>3 DEF Login
<1>7. CASE Load(r)
  <2>1. Has(req[r]) /\ ~Delivers(req[r])
    BY <1>7 DEF Load, At, Has, Delivers, OnSession
  <2> DEFINE q == [req[r] EXCEPT !.pc = "checking", !.ver = sess[req[r].sid].ver]
  <2>2. q.pc = "checking" /\ q.sid = req[r].sid /\ q.n = req[r].n
    BY <1>1 DEF Request
  <2>3. Fails(r) \/ req' = [req EXCEPT ![r] = q]
    BY <1>1, <1>7 DEF Load
  <2> HIDE DEF q
  <2>4. ~Delivers(q)
    BY <2>2 DEF Delivers
  <2> QED BY <1>3, <1>4, <1>5, <1>7, <2>1, <2>2, <2>3, <2>4 DEF Load
<1>8. CASE CheckUser(r)
  <2>1. Has(req[r]) /\ ~Delivers(req[r])
    BY <1>8 DEF CheckUser, At, Has, Delivers, OnSession
  <2>2. PICK label \in {"revoking", "rotating", "touching"} : Goto(r, label)
    BY <1>8 DEF CheckUser
  <2> QED BY <1>8, <2>1, <2>2, GotoCalmly DEF CheckUser
<1>9. CASE Revoke(r)
  <2>1. ~Delivers(req[r]) /\ Has(req[r])
    BY <1>9 DEF Revoke, At, Has, Delivers, OnSession
  <2>2. Deletes
    BY <1>9, <2>1, Addresses DEF Revoke, Deletes
  <2> QED BY <1>5, <1>9, <2>1, <2>2 DEF Revoke
<1>10. CASE Touch(r)
  <2>1. Has(req[r]) /\ ~Delivers(req[r])
    BY <1>10 DEF Touch, At, Has, Delivers, OnSession
  <2>2. Goto(r, "granting") \/ Fails(r)
    BY <1>10 DEF Touch
  <2> QED BY <1>3, <1>5, <1>10, <2>1, <2>2, GotoCalmly DEF Touch
<1>11. CASE Grant(r)
  <2>1. Has(req[r]) /\ ~Delivers(req[r])
    BY <1>11 DEF Grant, At, Has, Delivers, OnSession
  <2>2. Goto(r, "granted") \/ Fails(r)
    BY <1>11 DEF Grant
  <2> QED BY <1>3, <1>5, <1>11, <2>1, <2>2, GotoCalmly DEF Grant
<1>12. CASE Served(r)
  <2>1. ~Delivers(req[r])
    BY <1>12 DEF Served, At, Delivers
  <2> QED BY <1>3, <1>5, <1>12, <2>1 DEF Served
<1>13. CASE Logout(r)
  <2> DEFINE q == Starts(r, "logout", "answering")
  <2>1. q.pc = "answering" /\ q.kind = "logout"
    BY <1>1, StartsType DEF Kinds, Labels
  <2>2. req' = [req EXCEPT ![r] = q]
    BY <1>13 DEF Logout
  <2> HIDE DEF q
  <2>3. ~Delivers(q) /\ ~Has(q) /\ ~Delivers(req[r])
    BY <1>13, <2>1 DEF Delivers, Has, OnSession, Logout, At
  <2>4. Deletes
    BY <1>13, Addresses DEF Logout, Deletes
  <2> QED BY <1>4, <1>13, <2>2, <2>3, <2>4 DEF Logout
<1>14. CASE ChangePassword(r) \/ Ban(r)
  <2>1. PICK kind \in Kinds : req' = [req EXCEPT ![r] = Starts(r, kind, "listing")]
    BY <1>14 DEF ChangePassword, Ban, Kinds
  <2> DEFINE q == Starts(r, kind, "listing")
  <2>2. q.pc = "listing"
    BY <1>1, StartsType DEF Labels
  <2>3. req' = [req EXCEPT ![r] = q]
    BY <2>1
  <2> HIDE DEF q
  <2>4. ~Delivers(q) /\ ~Has(q) /\ ~Delivers(req[r])
    BY <1>14, <2>2 DEF Delivers, Has, OnSession, ChangePassword, Ban, At
  <2> QED BY <1>3, <1>4, <1>14, <2>3, <2>4 DEF ChangePassword, Ban
<1>15. CASE List(r)
  <2> DEFINE q == [req[r] EXCEPT !.pc = "deleting", !.targets = index]
  <2>1. q.pc = "deleting" /\ req' = [req EXCEPT ![r] = q]
    BY <1>1, <1>15 DEF List, Request
  <2> HIDE DEF q
  <2>2. ~Delivers(q) /\ ~Has(q) /\ ~Delivers(req[r])
    BY <1>15, <2>1 DEF Delivers, Has, OnSession, List, At
  <2> QED BY <1>3, <1>4, <1>15, <2>1, <2>2 DEF List
<1>16. CASE DeleteListed(r)
  <2>1. ~Delivers(req[r]) /\ req[r].targets \in SUBSET Sids
    BY <1>1, <1>16 DEF DeleteListed, At, Delivers, Request
  <2>2. Deletes
    BY <1>16, <2>1 DEF DeleteListed, Deletes
  <2> QED BY <1>5, <1>16, <2>1, <2>2 DEF DeleteListed
<1>17. CASE CleanupFails(r)
  <2>1. ~Delivers(req[r])
    BY <1>17 DEF CleanupFails, Delivers
  <2>2. Goto(r, "listing") \/ Fails(r)
    BY <1>17 DEF CleanupFails
  <2>3. "listing" \notin OnSession
    BY DEF OnSession
  <2> QED BY <1>3, <1>5, <1>17, <2>1, <2>2, <2>3, GotoCalmly DEF CleanupFails
<1>18. CASE AnswerIsLost(r)
  <2>1. lost' # 0 /\ Fails(r) /\ UNCHANGED <<sess, cookie>>
    BY <1>1, <1>18 DEF AnswerIsLost
  <2> QED BY <1>3, <2>1, DeletesKeep, MovesCalmly
<1> QED BY <1>6, <1>7, <1>8, <1>9, <1>10, <1>11, <1>12, <1>13, <1>14, <1>15, <1>16, <1>17, <1>18

\* A request that works on a session is not a logout.
NoLogout == \A r \in Requests : req[r].pc \in OnSession => req[r].kind # "logout"

LEMMA NoLogoutStep ==
    ASSUME IInv, NoLogout, [Next]_vars
    PROVE  NoLogout'
<1>1. TypeOK /\ req \in [Requests -> Request]
  BY DEF IInv, TypeOK
<1>2. ASSUME NEW r \in Requests, NEW q, req' = [req EXCEPT ![r] = q],
             q.pc \in OnSession => q.kind # "logout"
      PROVE  NoLogout'
  BY <1>1, <1>2 DEF NoLogout
<1>3. ASSUME NEW r \in Requests, NEW label, Goto(r, label), req[r].pc \in OnSession PROVE NoLogout'
  <2> DEFINE q == [req[r] EXCEPT !.pc = label]
  <2>1. q.kind = req[r].kind /\ req' = [req EXCEPT ![r] = q]
    BY <1>1, <1>3 DEF Goto, Request
  <2> HIDE DEF q
  <2> QED BY <1>2, <1>3, <2>1 DEF NoLogout
<1>4. ASSUME NEW r \in Requests, Fails(r) PROVE NoLogout'
  <2>1. Idle.pc \notin OnSession
    BY DEF Idle, OnSession
  <2> QED BY <1>2, <1>4, <2>1 DEF Fails
<1>5. ASSUME NEW r \in Requests, CleanupFails(r) PROVE NoLogout'
  <2>1. CASE Goto(r, "listing")
    <3> DEFINE q == [req[r] EXCEPT !.pc = "listing"]
    <3>1. q.pc = "listing" /\ req' = [req EXCEPT ![r] = q]
      BY <1>1, <2>1 DEF Goto, Request
    <3> HIDE DEF q
    <3> QED BY <1>2, <3>1 DEF OnSession
  <2> QED BY <1>4, <1>5, <2>1 DEF CleanupFails
<1>6. ASSUME NEW r \in Requests, NEW kind \in Kinds, NEW label \in Labels,
             label \in OnSession => kind # "logout",
             req' = [req EXCEPT ![r] = Starts(r, kind, label)]
      PROVE  NoLogout'
  <2> DEFINE q == Starts(r, kind, label)
  <2>1. q.pc = label /\ q.kind = kind /\ req' = [req EXCEPT ![r] = q]
    BY <1>1, <1>6, StartsType
  <2> HIDE DEF q
  <2> QED BY <1>2, <1>6, <2>1
<1>7. ASSUME NEW r \in Requests, Login(r) PROVE NoLogout'
  <2> DEFINE q == [Starts(r, "login", "creating") EXCEPT !.ver = user.version]
  <2>1. Starts(r, "login", "creating") \in Request /\ Starts(r, "login", "creating").kind = "login"
    BY <1>1, StartsType DEF Kinds, Labels
  <2>2. q.kind = "login" /\ req' = [req EXCEPT ![r] = q]
    BY <1>7, <2>1 DEF Login, Request
  <2> HIDE DEF q
  <2> QED BY <1>2, <2>2
<1>8. ASSUME NEW r \in Requests, Refresh(r) \/ Access(r) PROVE NoLogout'
  <2>1. PICK kind \in {"refresh", "access"} : req' = [req EXCEPT ![r] = Presented(r, kind, "loading")]
    BY <1>8 DEF Refresh, Access
  <2> DEFINE q == Presented(r, kind, "loading")
  <2>2. q.kind = kind
    <3>1. cookie # None /\ kind \in Kinds /\ "loading" \in Labels
      BY <1>8 DEF Refresh, Access, Kinds, Labels
    <3> QED BY <1>1, <3>1, PresentedType
  <2>3. req' = [req EXCEPT ![r] = q]
    BY <2>1
  <2> HIDE DEF q
  <2> QED BY <1>2, <2>2, <2>3
<1>9. ASSUME NEW r \in Requests, CreateSession(r) PROVE NoLogout'
  <2>1. PICK s \in Sids :
           req' = [req EXCEPT ![r] = [req[r] EXCEPT !.pc = "answering", !.sid = s, !.n = 0]]
    BY <1>1, <1>9 DEF CreateSession
  <2> DEFINE q == [req[r] EXCEPT !.pc = "answering", !.sid = s, !.n = 0]
  <2>2. q.pc = "answering" /\ req' = [req EXCEPT ![r] = q]
    BY <1>1, <2>1 DEF Request
  <2> HIDE DEF q
  <2> QED BY <1>2, <2>2 DEF OnSession
<1>10. ASSUME NEW r \in Requests, Load(r) PROVE NoLogout'
  <2> DEFINE q == [req[r] EXCEPT !.pc = "checking", !.ver = sess[req[r].sid].ver]
  <2>1. q.kind = req[r].kind /\ req[r].pc \in OnSession
    BY <1>1, <1>10 DEF Load, At, OnSession, Request
  <2>2. Fails(r) \/ req' = [req EXCEPT ![r] = q]
    BY <1>1, <1>10 DEF Load
  <2> HIDE DEF q
  <2> QED BY <1>2, <1>4, <2>1, <2>2 DEF NoLogout
<1>11. ASSUME NEW r \in Requests, Rotate(r) PROVE NoLogout'
  <2> DEFINE q == [req[r] EXCEPT !.pc = "answering", !.n = sess[req[r].sid].cur + 1]
  <2>1. q.pc = "answering"
    BY <1>1 DEF Request
  <2>2. Fails(r) \/ req' = [req EXCEPT ![r] = q]
    BY <1>1, <1>11 DEF Rotate, Rotation
  <2> HIDE DEF q
  <2> QED BY <1>2, <1>4, <2>1, <2>2 DEF OnSession
<1>12. ASSUME NEW r \in Requests, List(r) PROVE NoLogout'
  <2> DEFINE q == [req[r] EXCEPT !.pc = "deleting", !.targets = index]
  <2>1. q.pc = "deleting" /\ req' = [req EXCEPT ![r] = q]
    BY <1>1, <1>12 DEF List, Request
  <2> HIDE DEF q
  <2> QED BY <1>2, <2>1 DEF OnSession
<1>13. ASSUME NEW r \in Requests, CheckUser(r) \/ Touch(r) \/ Grant(r) PROVE NoLogout'
  <2>1. req[r].pc \in OnSession
    BY <1>13 DEF CheckUser, Touch, Grant, At, OnSession
  <2>2. Fails(r) \/ \E label : Goto(r, label)
    BY <1>13 DEF CheckUser, Touch, Grant
  <2> QED BY <1>3, <1>4, <2>1, <2>2
<1>14. ASSUME NEW r \in Requests,
              Revoke(r) \/ Served(r) \/ DeleteListed(r) \/ Answer(r) \/ AnswerIsLost(r)
       PROVE  NoLogout'
  BY <1>4, <1>14 DEF Revoke, Served, DeleteListed, Answer, AnswerIsLost
<1>15. ASSUME NEW r \in Requests, Logout(r) \/ ChangePassword(r) \/ Ban(r) PROVE NoLogout'
  <2>1. PICK kind \in Kinds, label \in {"answering", "listing"} :
           req' = [req EXCEPT ![r] = Starts(r, kind, label)]
    BY <1>15 DEF Logout, ChangePassword, Ban, Kinds
  <2> QED BY <1>6, <2>1 DEF OnSession, Labels
<1>16. ASSUME NEW r \in Requests, Handle(r) PROVE NoLogout'
  BY <1>5, <1>7, <1>8, <1>9, <1>10, <1>11, <1>12, <1>13, <1>14, <1>15, <1>16 DEF Handle
<1>17. CASE UNCHANGED req
  BY <1>17 DEF NoLogout
<1> QED BY <1>16, <1>17 DEF Next, Time, GraceEnds, Expire, vars

LEMMA RotateTracked == ASSUME IInv, Tracked, NoLogout, NEW r \in Requests, Rotate(r) PROVE Tracked'
<1>1. At(r, "rotating") /\ Has(req[r]) /\ ~Delivers(req[r]) /\ req[r].kind # "logout"
  BY DEF Rotate, At, Has, Delivers, OnSession, NoLogout
<1>2. req[r].sid \in Sids /\ UNCHANGED <<cookie, lost>>
  BY <1>1, Addresses DEF Rotate
<1>3. CASE Fails(r) /\ Deletes
  BY <1>1, <1>2, <1>3, DeletesKeep, MovesCalmly
<1>4. CASE ~Missing(r) /\ IsCurrent(r) /\ Rotation(r)
  BY <1>1, <1>2, <1>4, RotationTracked
<1> QED BY <1>2, <1>3, <1>4 DEF Rotate, Deletes

LEMMA TrackedStep == ASSUME IInv, Tracked, NoLogout, [Next]_vars PROVE Tracked'
<1>1. ASSUME NEW r \in Requests, Handle(r) PROVE Tracked'
  BY <1>1, PresentTracked, CreateTracked, RotateTracked, AnswerTracked, CalmTracked DEF Handle
<1>2. ASSUME NEW s \in Sids, Time(s) PROVE Tracked'
  BY <1>2, TimeTracked
<1>3. CASE UNCHANGED vars
  BY <1>3, StillTracked DEF vars
<1> QED BY <1>1, <1>2, <1>3 DEF Next

LEMMA InitTracked == Init => Tracked /\ NoLogout
<1> SUFFICES ASSUME Init PROVE Tracked /\ NoLogout
  OBVIOUS
<1>1. Idle.pc = "idle"
  BY DEF Idle
<1>2. \A r \in Requests : req[r].pc = "idle"
  BY <1>1 DEF Init
<1>3. \A r \in Requests : ~Has(req[r]) /\ ~Delivers(req[r])
  BY <1>2 DEF Has, Delivers, OnSession
<1>4. cookie = None /\ Unused
  BY DEF Init, Unused
<1> QED BY <1>2, <1>3, <1>4 DEF Tracked, NoLogout, Follows, OnSession

\* As long as no response is lost the browser has the current token of its
\* session, or the response with that token is on its way: an old token is
\* never delivered after a newer one.
THEOREM CookieIsCurrent == Spec => []CookieFollows
<1>1. Tracked => CookieFollows
  BY DEF Tracked, Follows, CookieFollows, Delivers, At
<1>2. IInv /\ Tracked /\ NoLogout /\ [Next]_vars => Tracked' /\ NoLogout'
  BY TrackedStep, NoLogoutStep
<1> QED BY <1>1, <1>2, InitTracked, Invariance, PTL DEF Spec
=============================================================================
