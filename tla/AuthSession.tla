----------------------------- MODULE AuthSession -----------------------------
(***************************************************************************)
(* The sessions of one account: the records and the membership set in      *)
(* Redis (services/redis/redis-session.module.ts), the requests that work  *)
(* on them (services/auth-session.service.ts, services/auth.service.ts,    *)
(* the handlers that change a password or ban the account), and the cookie *)
(* of the browser they come from.                                          *)
(*                                                                         *)
(* A Lua script and a MULTI block are one step of Redis.  Everything else  *)
(* a request reads may be out of date when it uses it.  Refresh token n of *)
(* a session is the one its n-th rotation made.                            *)
(***************************************************************************)
EXTENDS Integers, FiniteSets

CONSTANTS
    Requests,       \* requests in flight at the same time
    Sids,           \* session ids
    None,           \* stands for no session, no token, no cookie
    MaxRotations,   \* bound: rotations of one session
    MaxVersion,     \* bound: password changes
    MaxLost         \* bound: responses that never reach the browser

ASSUME BoundsAssumption == {MaxRotations, MaxVersion, MaxLost} \subseteq Nat

VARIABLES
    sess,       \* sess[s]: the record session:<s>
    index,      \* the set user:sessions:<publicId>
    user,       \* authVersion and isBanned in MongoDB
    cookie,     \* the refresh token in the browser
    req,        \* req[r]: the local state of request r
    lost,       \* responses lost so far
    rotated     \* history: rotated[s][n], successful rotations of token n

vars == <<sess, index, user, cookie, req, lost, rotated>>

Tokens == 0 .. MaxRotations

Session == [state : {"unused", "live", "gone"}, cur : Tokens, prev : Tokens \cup {None},
            grace : BOOLEAN, ver : 0 .. MaxVersion]
Cookie == [sid : Sids, n : Tokens] \cup {None}

Labels == {"idle", "creating", "loading", "checking", "rotating", "touching",
           "granting", "granted", "revoking", "listing", "deleting", "answering"}
Kinds == {"login", "refresh", "access", "logout", "password", "ban"}
Request == [pc : Labels, kind : Kinds, sid : Sids \cup {None}, n : Tokens \cup {None},
            ver : 0 .. MaxVersion, since : 0 .. MaxVersion, late : BOOLEAN,
            targets : SUBSET Sids]
Idle == [pc |-> "idle", kind |-> "login", sid |-> None, n |-> None, ver |-> 0, since |-> 0,
         late |-> FALSE, targets |-> {}]

Init ==
    /\ sess = [s \in Sids |-> [state |-> "unused", cur |-> 0, prev |-> None,
                               grace |-> FALSE, ver |-> 0]]
    /\ index = {}
    /\ user = [version |-> 0, banned |-> FALSE]
    /\ cookie = None
    /\ req = [r \in Requests |-> Idle]
    /\ lost = 0
    /\ rotated = [s \in Sids |-> [n \in Tokens |-> 0]]

\* A record as it is written first, and after a rotation.
Created(x, version) == [x EXCEPT !.state = "live", !.ver = version]
Rotated(x) == [x EXCEPT !.prev = x.cur, !.cur = x.cur + 1, !.grace = TRUE]

At(r, label) == req[r].pc = label
Goto(r, label) == req' = [req EXCEPT ![r].pc = label]
Fails(r) == req' = [req EXCEPT ![r] = Idle]
Live(s) == sess[s].state = "live"

\* A request remembers, as history, what was committed before it started.
Starts(r, kind, label) ==
    [Idle EXCEPT !.pc = label, !.kind = kind, !.since = user.version, !.late = user.banned]

Presented(r, kind, label) ==
    [Starts(r, kind, label) EXCEPT !.sid = cookie.sid, !.n = cookie.n]
-----------------------------------------------------------------------------
(***************************************************************************)
(* Login.                                                                  *)
(***************************************************************************)

\* AuthService.login: the user it read decides, whatever happens to it next.
Login(r) ==
    /\ At(r, "idle")
    /\ ~user.banned
    /\ req' = [req EXCEPT ![r] = [Starts(r, "login", "creating") EXCEPT !.ver = user.version]]
    /\ UNCHANGED <<sess, index, user, cookie, lost, rotated>>

\* createSession under a new session id.
CreateSession(r) ==
    /\ At(r, "creating")
    /\ \E s \in Sids :
         /\ sess[s].state = "unused"
         /\ sess' = [sess EXCEPT ![s] = Created(@, req[r].ver)]
         /\ index' = index \cup {s}
         /\ req' = [req EXCEPT ![r] = [@ EXCEPT !.pc = "answering", !.sid = s, !.n = 0]]
    /\ UNCHANGED <<user, cookie, lost, rotated>>
-----------------------------------------------------------------------------
(***************************************************************************)
(* Refresh.                                                                *)
(***************************************************************************)

Refresh(r) ==
    /\ At(r, "idle") /\ cookie # None
    /\ req' = [req EXCEPT ![r] = Presented(r, "refresh", "loading")]
    /\ UNCHANGED <<sess, index, user, cookie, lost, rotated>>

\* getRefreshSession, and the first read of assertAccessSession, which also
\* clears the membership of a session that is not there.
Load(r) ==
    /\ At(r, "loading")
    /\ IF Live(req[r].sid)
       THEN /\ req' = [req EXCEPT ![r] = [@ EXCEPT !.pc = "checking", !.ver = sess[req[r].sid].ver]]
            /\ UNCHANGED index
       ELSE /\ Fails(r)
            /\ index' = IF req[r].kind = "access" THEN index \ {req[r].sid} ELSE index
    /\ UNCHANGED <<sess, user, cookie, lost, rotated>>

\* Mutant: the version of the session is not compared.
CheckUserUnversioned(r) ==
    /\ At(r, "checking")
    /\ Goto(r, IF req[r].kind = "access" THEN "touching"
               ELSE IF user.banned THEN "revoking" ELSE "rotating")
    /\ UNCHANGED <<sess, index, user, cookie, lost, rotated>>

\* refreshSession compares ban and version; assertCurrentAuthVersion only the
\* version.  A session that fails the comparison is revoked.
Outdated(r) == req[r].ver # user.version \/ (req[r].kind = "refresh" /\ user.banned)

CheckUser(r) ==
    /\ At(r, "checking")
    /\ \/ Outdated(r) /\ Goto(r, "revoking")
       \/ ~Outdated(r) /\ Goto(r, IF req[r].kind = "refresh" THEN "rotating" ELSE "touching")
    /\ UNCHANGED <<sess, index, user, cookie, lost, rotated>>

\* DEL of some session records.
Delete(ss) == sess' = [s \in Sids |-> IF s \in ss /\ Live(s)
                                      THEN [sess[s] EXCEPT !.state = "gone"] ELSE sess[s]]

\* Next record of a session and answer of a rotation that succeeds.
Rotation(r) ==
    LET s == req[r].sid IN
    /\ sess[s].cur < MaxRotations
    /\ sess' = [sess EXCEPT ![s] = Rotated(@)]
    /\ index' = index \cup {s}
    /\ rotated' = [rotated EXCEPT ![s][req[r].n] = @ + 1]
    /\ req' = [req EXCEPT ![r] = [@ EXCEPT !.pc = "answering", !.n = sess[s].cur + 1]]

\* The outcomes of the script that leave the session alone, and the one that
\* takes it for reuse.
Missing(r) == ~Live(req[r].sid)
StalePrevious(r) == sess[req[r].sid].prev = req[r].n /\ sess[req[r].sid].grace
IsCurrent(r) == sess[req[r].sid].prev # req[r].n /\ sess[req[r].sid].cur = req[r].n

\* Mutants: the previous token rotates as well within its grace period; the
\* record is written back without looking whether it still exists.
RotateWithPrevious(r) ==
    /\ At(r, "rotating")
    /\ Live(req[r].sid) /\ (IsCurrent(r) \/ StalePrevious(r))
    /\ Rotation(r)
    /\ UNCHANGED <<user, cookie, lost>>
RotateBlindly(r) ==
    /\ At(r, "rotating")
    /\ sess[req[r].sid].cur < MaxRotations
    /\ sess' = [sess EXCEPT ![req[r].sid] = [Rotated(@) EXCEPT !.state = "live"]]
    /\ req' = [req EXCEPT ![r] = [@ EXCEPT !.pc = "answering", !.n = sess[req[r].sid].cur + 1]]
    /\ UNCHANGED <<index, user, cookie, lost, rotated>>

\* compareAndRotate.  Its version_conflict cannot happen: refreshVersion is
\* the number of the current token, which was cur already when r loaded it.
Rotate(r) ==
    /\ At(r, "rotating")
    /\ \/ /\ Missing(r)
          /\ Fails(r) /\ index' = index \ {req[r].sid}
          /\ UNCHANGED <<sess, rotated>>
       \/ /\ ~Missing(r) /\ StalePrevious(r)
          /\ Fails(r)
          /\ UNCHANGED <<sess, index, rotated>>
       \/ /\ ~Missing(r) /\ ~StalePrevious(r) /\ ~IsCurrent(r)
          /\ Fails(r) /\ Delete({req[r].sid}) /\ index' = index \ {req[r].sid}
          /\ UNCHANGED rotated
       \/ ~Missing(r) /\ IsCurrent(r) /\ Rotation(r)
    /\ UNCHANGED <<user, cookie, lost>>

\* revokeSession, after the check of the user: it may fail, the request does anyway.
Revoke(r) ==
    /\ At(r, "revoking")
    /\ Fails(r)
    /\ \/ Delete({req[r].sid}) /\ index' = index \ {req[r].sid}
       \/ UNCHANGED <<sess, index>>
    /\ UNCHANGED <<user, cookie, lost, rotated>>
-----------------------------------------------------------------------------
(***************************************************************************)
(* Access with the access token that came with the refresh token.          *)
(***************************************************************************)

Access(r) ==
    /\ At(r, "idle") /\ cookie # None
    /\ req' = [req EXCEPT ![r] = Presented(r, "access", "loading")]
    /\ UNCHANGED <<sess, index, user, cookie, lost, rotated>>

\* touchSessionOnAccess: nothing if the last touch is recent.
Touch(r) ==
    /\ At(r, "touching")
    /\ \/ Goto(r, "granting") /\ UNCHANGED index
       \/ Missing(r) /\ Fails(r) /\ index' = index \ {req[r].sid}
    /\ UNCHANGED <<sess, user, cookie, lost, rotated>>

\* Mutant: the middleware does not ask again for the user.
GrantAnyUser(r) ==
    /\ At(r, "granting")
    /\ Goto(r, "granted")
    /\ UNCHANGED <<sess, index, user, cookie, lost, rotated>>

\* enforceActiveUser of the authentication middleware.
Grant(r) ==
    /\ At(r, "granting")
    /\ IF user.banned THEN Fails(r) ELSE Goto(r, "granted")
    /\ UNCHANGED <<sess, index, user, cookie, lost, rotated>>

Served(r) == At(r, "granted") /\ Fails(r) /\ UNCHANGED <<sess, index, user, cookie, lost, rotated>>
-----------------------------------------------------------------------------
(***************************************************************************)
(* Logout, password change and ban.                                        *)
(***************************************************************************)

\* Both revocations of the logout end the session of the cookie; when they
\* fail, the browser is told to forget its cookies all the same.
Logout(r) ==
    /\ At(r, "idle") /\ cookie # None
    /\ \/ Delete({cookie.sid}) /\ index' = index \ {cookie.sid}
       \/ UNCHANGED <<sess, index>>
    /\ req' = [req EXCEPT ![r] = Starts(r, "logout", "answering")]
    /\ UNCHANGED <<user, cookie, lost, rotated>>

\* The transaction of changePassword or resetPassword, and then the cleanup.
ChangePassword(r) ==
    /\ At(r, "idle") /\ user.version < MaxVersion
    /\ user' = [user EXCEPT !.version = @ + 1]
    /\ req' = [req EXCEPT ![r] = Starts(r, "password", "listing")]
    /\ UNCHANGED <<sess, index, cookie, lost, rotated>>

Ban(r) ==
    /\ At(r, "idle") /\ ~user.banned
    /\ user' = [user EXCEPT !.banned = TRUE]
    /\ req' = [req EXCEPT ![r] = Starts(r, "ban", "listing")]
    /\ UNCHANGED <<sess, index, cookie, lost, rotated>>

\* revokeAllSessionsForUser: SMEMBERS, then DEL of what it answered.
List(r) ==
    /\ At(r, "listing")
    /\ req' = [req EXCEPT ![r] = [@ EXCEPT !.pc = "deleting", !.targets = index]]
    /\ UNCHANGED <<sess, index, user, cookie, lost, rotated>>

DeleteListed(r) ==
    /\ At(r, "deleting")
    /\ Delete(req[r].targets)
    /\ index' = {}
    /\ Fails(r)
    /\ UNCHANGED <<user, cookie, lost, rotated>>

\* Redis fails: a password change lists again, a few times, before it gives
\* up; a ban gives up at once.
CleanupFails(r) ==
    /\ req[r].pc \in {"listing", "deleting"}
    /\ (req[r].kind = "password" /\ Goto(r, "listing")) \/ Fails(r)
    /\ UNCHANGED <<sess, index, user, cookie, lost, rotated>>
-----------------------------------------------------------------------------
(***************************************************************************)
(* The browser, and time.                                                  *)
(***************************************************************************)

\* The cookies of a response replace those of the browser, in the order the
\* responses arrive.
Answer(r) ==
    /\ At(r, "answering")
    /\ cookie' = IF req[r].kind = "logout" THEN None ELSE [sid |-> req[r].sid, n |-> req[r].n]
    /\ Fails(r)
    /\ UNCHANGED <<sess, index, user, lost, rotated>>

AnswerIsLost(r) ==
    /\ At(r, "answering")
    /\ lost < MaxLost /\ lost' = lost + 1
    /\ Fails(r)
    /\ UNCHANGED <<sess, index, user, cookie, rotated>>

\* previousRefreshTokenGraceUntil passes; a record reaches its TTL.
GraceEnds(s) ==
    /\ sess[s].grace
    /\ sess' = [sess EXCEPT ![s].grace = FALSE]
    /\ UNCHANGED <<index, user, cookie, req, lost, rotated>>

Expire(s) ==
    /\ Live(s)
    /\ Delete({s})
    /\ UNCHANGED <<index, user, cookie, req, lost, rotated>>
-----------------------------------------------------------------------------
Handle(r) ==
    \/ Login(r) \/ CreateSession(r)
    \/ Refresh(r) \/ Load(r) \/ CheckUser(r) \/ Rotate(r) \/ Revoke(r)
    \/ Access(r) \/ Touch(r) \/ Grant(r) \/ Served(r)
    \/ Logout(r) \/ ChangePassword(r) \/ Ban(r)
    \/ List(r) \/ DeleteListed(r) \/ CleanupFails(r)
    \/ Answer(r) \/ AnswerIsLost(r)

Time(s) == GraceEnds(s) \/ Expire(s)

Next == (\E r \in Requests : Handle(r)) \/ (\E s \in Sids : Time(s))

Spec == Init /\ [][Next]_vars
-----------------------------------------------------------------------------
(***************************************************************************)
(* Properties.                                                             *)
(***************************************************************************)

TypeOK ==
    /\ sess \in [Sids -> Session]
    /\ index \subseteq Sids
    /\ user \in [version : 0 .. MaxVersion, banned : BOOLEAN]
    /\ cookie \in Cookie
    /\ req \in [Requests -> Request]
    /\ lost \in 0 .. MaxLost
    /\ rotated \in [Sids -> [Tokens -> Nat]]

\* Of all requests that present the same refresh token, from however many
\* tabs, one at most gets a successor: the tokens of a session are a chain.
OneSuccessor == \A s \in Sids : \A n \in Tokens : rotated[s][n] <= 1

\* No late rotation, touch or cleanup brings a session back.
RevokedStaysRevoked == [][\A s \in Sids : sess[s].state = "gone" => sess'[s].state = "gone"]_vars

\* A request that starts after a password change is not served on a session
\* from before it, though the cleanup deletes only what it listed, may fail,
\* and races with logins that still saw the old password.
Succeeds(r) == At(r, "granted") \/ (At(r, "answering") /\ req[r].kind = "refresh")
OldSessionsAreRefused ==
    \A r \in Requests : Succeeds(r) => req[r].ver >= req[r].since

\* A request that starts after the ban is not served, on any session.
BannedAreRefused == \A r \in Requests : Succeeds(r) => ~req[r].late

\* Whoever revokes all sessions of the user finds all of them: SMEMBERS lists
\* every session that is live.
RevokeAllSeesAll ==
    [][\A r \in Requests : List(r) => \A s \in Sids : Live(s) => s \in index]_vars

\* As long as no response is lost, the browser does not fall behind: a cookie
\* of a live session is its current token, unless the answer to the rotation
\* is on its way.
CookieFollows ==
    lost = 0 /\ cookie # None =>
        \/ ~Live(cookie.sid)
        \/ sess[cookie.sid].cur = cookie.n
        \/ \E r \in Requests : At(r, "answering") /\ req[r].sid = cookie.sid
                                 /\ req[r].n = sess[cookie.sid].cur
=============================================================================
