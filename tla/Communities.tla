---------------------------- MODULE Communities ----------------------------
(***************************************************************************)
(* Communities, their members and the list of newest communities each      *)
(* account carries.  That list is cut after ten entries, more than there   *)
(* are communities in any instance checked here.                           *)
(***************************************************************************)
EXTENDS Publishing

Joined(s, u, k) ==
    IF Exists(s, User(u)) THEN [s EXCEPT ![User(u)].joined = @ \cup {k}] ELSE s

\* Communities are pulled from the lists of us.
Unlisted(s, us, ks) ==
    Replace(s, [d \in {User(u) : u \in {v \in us : Exists(s, User(v))}} |->
                    [s[d] EXCEPT !.joined = @ \ ks]])

CreateCommunity(p, u, k) ==
    LET s == snap[p]
        created == [s EXCEPT
            ![Community(k)] = [creator |-> u, members |-> 1, posts |-> 0],
            ![Member(u, k)] = "admin"] IN
    /\ s # None
    /\ WasFound(s, User(u))
    /\ s[Community(k)] = Unborn
    /\ Commit(p, Joined(created, u, k), {})

Added(s, u, k) ==
    Increment(Joined([s EXCEPT ![Member(u, k)] = "member"], u, k),
              Community(k), "members", 1)

\* Community and membership were looked up before; the unique index of the
\* memberships refuses a second one.
JoinCommunity(p, u, k) ==
    LET s == snap[p] IN
    /\ s # None
    /\ WasFound(s, User(u))
    /\ WasFound(s, Community(k))
    /\ s[Member(u, k)] = "none"
    /\ Commit(p, Added(s, u, k), {})

\* Wrong: the member counter is forgotten.
Uncounted(s, u, k) == Unlisted([s EXCEPT ![Member(u, k)] = "none"], {u}, {k})

\* A membership is removed, by its holder or by a kick.
Dismissed(s, u, k) ==
    Increment(Unlisted([s EXCEPT ![Member(u, k)] = "none"], {u}, {k}),
              Community(k), "members", -1)

\* Wrong: the last admin is not held back.
MayGo(s, u, k) == s[Member(u, k)] # "none"

\* The last admin has to delete the community instead.
MayLeave(s, u, k) ==
    /\ s[Member(u, k)] # "none"
    /\ s[Member(u, k)] = "admin" => Cardinality(AdminsOf(s, k)) > 1

LeaveCommunity(p, u, k) ==
    LET s == snap[p] IN
    /\ s # None
    /\ WasFound(s, Community(k))
    /\ MayLeave(s, u, k)
    /\ Commit(p, Dismissed(s, u, k), {})

\* By an admin; every guard is evaluated inside the transaction.
KickMember(p, u, k) ==
    LET s == snap[p] IN
    /\ s # None
    /\ WasFound(s, Community(k))
    /\ s[Member(u, k)] = "member"
    /\ AdminsOf(s, k) # {}
    /\ Commit(p, Dismissed(s, u, k), {})

\* Communities go with their posts, their members and their list entries.
WithoutCommunities(s, ks) ==
    LET posts == deletePostGraph(s, PostsThat(s, LAMBDA x : x.community \in ks))
        members == Replace(posts, [d \in {Member(u, k) : u \in Users, k \in ks} |-> "none"])
        gone == Replace(members, [d \in {Community(k) : k \in ks} |-> Gone]) IN
    Unlisted(gone, Users, ks)

\* That the caller was its admin was read before the transaction; the role is
\* lost only with the account.
MayDeleteCommunity(s, u, k) ==
    /\ WasFound(s, User(u))
    /\ Exists(s, User(u)) /\ ~s[User(u)].isBanned => s[Member(u, k)] = "admin"

DeleteCommunity(p, k) ==
    LET s == snap[p] IN
    /\ s # None
    /\ Exists(s, Community(k))
    /\ {u \in Users : MayDeleteCommunity(s, u, k)} # {}
    /\ Commit(p, WithoutCommunities(s, {k}), {})

CommunityStep(p) ==
    \E k \in Communities :
        \/ \E u \in Users :
             \/ CreateCommunity(p, u, k)
             \/ JoinCommunity(p, u, k)
             \/ LeaveCommunity(p, u, k)
             \/ KickMember(p, u, k)
        \/ DeleteCommunity(p, k)

-----------------------------------------------------------------------------
(* What must be true of a community.                                       *)

\* memberCount is the number of membership documents.
MembersAreCounted(s) ==
    \A k \in Communities : Exists(s, Community(k)) =>
        s[Community(k)].members = Cardinality(MembersOf(s, k))

\* Nobody but the creator of a community is its admin, and nobody is an admin
\* of one that does not exist.
AdminIsCreator(s) ==
    \A u \in Users, k \in Communities :
        s[Member(u, k)] = "admin" <=>
            Exists(s, Community(k)) /\ s[Community(k)].creator = u

\* The creator, whom a removal of the account passes on, is a member and an
\* admin: otherwise nobody could delete the community or kick anybody.
CommunityIsLed ==
    \A k \in Communities : Exists(db, Community(k)) =>
        db[Member(db[Community(k)].creator, k)] = "admin"
=============================================================================
