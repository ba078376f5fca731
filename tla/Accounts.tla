------------------------------ MODULE Accounts ------------------------------
(***************************************************************************)
(* The end of an account: a ban keeps an empty shell of it, a deletion     *)
(* removes it.  Both purge, in one transaction and in this order, the      *)
(* content, the relationships, the communities and the record of the       *)
(* account (AccountLifecycleService); Messaging models what they do to     *)
(* conversations, AuthSession what happens to sessions afterwards.         *)
(***************************************************************************)
EXTENDS Communities

-----------------------------------------------------------------------------
(* Participants of the purge.                                              *)

\* Comments of u, also those that became tombstones with an earlier ban.
AuthoredBy(s, u) == CommentsThat(s, LAMBDA c : u \in {c.author, c.departed})

\* Likes of u on comments, and all likes on comments of u, are withdrawn; the
\* comments stay as tombstones.
tombstoneComments(s, u) ==
    LET own == AuthoredBy(s, u)
        liked == {c \in Comments : s[CommentLike(u, c)]}
        bare == Replace(WithoutCommentLikes(s, own),
                        [d \in {CommentLike(u, c) : c \in Comments} |-> FALSE])
        counted == recomputeCommentLikeCounts(bare, own \cup liked) IN
    Replace(counted, [d \in {Comment(c) : c \in own} |->
                          [Tombstone(counted[d]) EXCEPT !.departed = u]])

\* Likes and views of u on posts; the views stay in the counters.
removePostInteractions(s, u) ==
    LET liked == {x \in Posts : s[Like(u, x)]}
        bare == Replace(s, [d \in {Like(u, x) : x \in Posts}
                                    \cup {View(u, x) : x \in Posts} |-> FALSE]) IN
    recomputePostLikeCounts(bare, liked)

\* Content: posts, comments, likes and views.
WithoutContent(s, u) ==
    removePostInteractions(
        tombstoneComments(deletePostGraph(s, PostsThat(s, LAMBDA x : x.author = u)), u), u)

Unfollowed(s, u) ==
    Replace(s, [d \in {Follow(u, v) : v \in Users \ {u}}
                          \cup {Follow(v, u) : v \in Users \ {u}} |-> FALSE])

\* Wrong: only those who followed u are counted again.
FollowersRecounted(s, u) ==
    LET affected == {User(v) : v \in FollowersOf(s, u)}
        bare == Unfollowed(s, u)
        followers == Recount(bare, affected, "followers",
                             LAMBDA v : Cardinality(FollowersOf(bare, v))) IN
    Recount(followers, affected, "following",
            LAMBDA v : Cardinality(FollowedBy(bare, v)))

\* Follows of u and of others who follow u; both counters of everybody who
\* was on the other end.
WithoutRelationships(s, u) ==
    LET affected == {User(v) : v \in FollowersOf(s, u) \cup FollowedBy(s, u)}
        bare == Unfollowed(s, u)
        followers == Recount(bare, affected, "followers",
                             LAMBDA v : Cardinality(FollowersOf(bare, v))) IN
    Recount(followers, affected, "following",
            LAMBDA v : Cardinality(FollowedBy(bare, v)))

\* Who may inherit a community of u: a member of the best role there is.  Of
\* several the one who joined first; that order is left open.
Successors(s, u, k) ==
    LET others == MembersOf(s, k) \ {u} IN
    IF others \cap AdminsOf(s, k) # {} THEN others \cap AdminsOf(s, k) ELSE others

\* heir[k] inherits k from u.
IsHeritage(s, u, heir) ==
    \A k \in Communities :
        IF Exists(s, Community(k)) /\ s[Community(k)].creator = u /\ Successors(s, u, k) # {}
        THEN heir[k] \in Successors(s, u, k)
        ELSE heir[k] = None

\* Wrong: the heir becomes the creator and keeps the role of a member.
PassedOn(s, u, heir) ==
    LET ks == {k \in Communities : heir[k] # None} IN
    Replace(s, [d \in {Community(k) : k \in ks} |-> [s[d] EXCEPT !.creator = heir[d[2]]]])

\* The heir becomes the creator and an admin.
Inherited(s, u, heir) ==
    LET ks == {k \in Communities : heir[k] # None}
        passed == Replace(s, [d \in {Community(k) : k \in ks} |->
                                  [s[d] EXCEPT !.creator = heir[d[2]]]]) IN
    Replace(passed, [d \in {Member(heir[k], k) : k \in ks} |-> "admin"])

\* Communities of u without anybody else end, the others are inherited; u
\* leaves all of them and their members are counted again.
WithoutCommunitiesOf(s, u, heir) ==
    LET led == {k \in Communities : Exists(s, Community(k)) /\ s[Community(k)].creator = u}
        closed == {k \in led : heir[k] = None}
        left == WithoutCommunities(Inherited(s, u, heir), closed)
        bare == Replace(left, [d \in {Member(u, k) : k \in Communities} |-> "none"])
        affected == ({k \in Communities : s[Member(u, k)] # "none"} \cup led) \ closed IN
    Recount(bare, {Community(k) : k \in affected}, "members",
            LAMBDA k : Cardinality(MembersOf(bare, k)))

\* The record: a shell or nothing.
Finalized(s, u, action) ==
    [s EXCEPT ![User(u)] =
        IF action = "ban"
        THEN [@ EXCEPT !.isBanned = TRUE, !.followers = 0, !.following = 0,
                       !.posts = 0, !.joined = {}]
        ELSE Gone]

purgeUser(s, u, action, heir) ==
    Finalized(WithoutCommunitiesOf(WithoutRelationships(WithoutContent(s, u), u), u, heir),
              u, action)

-----------------------------------------------------------------------------
(* Administrators.                                                         *)

IsActiveAdmin(s, u) ==
    Exists(s, User(u)) /\ s[User(u)].isAdmin /\ ~s[User(u)].isBanned

ActiveAdmins(s) == {u \in Users : IsActiveAdmin(s, u)}

\* Who was let in as an administrator when the request came, and has not been
\* demoted since.
Administrators(s) ==
    {a \in Users : WasFound(s, User(a)) /\ (Exists(s, User(a)) => s[User(a)].isAdmin)}

\* Wrong: the administrators are counted without the guard.
Unguarded == {}

\* touch: every removal of an active administrator writes the same document.
touch == {Guard}

\* The account u may end, as far as the administrators are concerned.
LeavesAnAdmin(s, u) == IsActiveAdmin(s, u) => Cardinality(ActiveAdmins(s)) > 1

\* The purge of u by transaction p; the record of u is always written.
Purge(p, u, action) ==
    LET s == snap[p] IN
    /\ Exists(s, User(u))
    /\ LeavesAnAdmin(s, u)
    /\ \E heir \in [Communities -> Users \cup {None}] :
         /\ IsHeritage(s, u, heir)
         /\ Commit(p, purgeUser(s, u, action, heir),
                   {User(u)} \cup (IF IsActiveAdmin(s, u) THEN touch ELSE {}))

\* Nobody bans or demotes himself.
BanUser(p, u) ==
    /\ snap[p] # None
    /\ Administrators(snap[p]) \ {u} # {}
    /\ Purge(p, u, "ban")

\* By an administrator, or by the owner of the account.
DeleteUser(p, u) == snap[p] # None /\ Purge(p, u, "delete")

DemoteFromAdmin(p, u) ==
    LET s == snap[p] IN
    /\ s # None
    /\ Administrators(s) \ {u} # {}
    /\ Exists(s, User(u))
    /\ s[User(u)].isAdmin
    /\ LeavesAnAdmin(s, u)
    /\ Commit(p, [s EXCEPT ![User(u)].isAdmin = FALSE], touch)

\* Promotion and the end of a ban are single updates outside of transactions.
PromoteToAdmin(u) ==
    /\ Exists(db, User(u))
    /\ ~db[User(u)].isAdmin
    /\ ActiveAdmins(db) # {}
    /\ WriteAlone(User(u), [db[User(u)] EXCEPT !.isAdmin = TRUE])

UnbanUser(u) ==
    /\ Exists(db, User(u))
    /\ db[User(u)].isBanned
    /\ ActiveAdmins(db) # {}
    /\ WriteAlone(User(u), [db[User(u)] EXCEPT !.isBanned = FALSE])

AccountStep(p) == \E u \in Users : BanUser(p, u) \/ DeleteUser(p, u) \/ DemoteFromAdmin(p, u)

SingleUpdate(u) == PromoteToAdmin(u) \/ UnbanUser(u)

-----------------------------------------------------------------------------
(* What must survive.                                                      *)

\* Some administrator is left to undo what the others do.
AdminRemains == ActiveAdmins(db) # {}

\* Nothing of an account outlives its ban that the ban would have removed.
LeavesNothing(s, u) ==
    /\ PostsThat(s, LAMBDA x : x.author = u) = {}
    /\ CommentsThat(s, LAMBDA c : c.author = u) = {}
    /\ \A x \in Posts : ~s[Like(u, x)]
    /\ \A c \in Comments : ~s[CommentLike(u, c)]
=============================================================================
