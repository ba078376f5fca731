----------------------------- MODULE Publishing -----------------------------
(***************************************************************************)
(* Posts and reposts.  A post is made by two transactions with the upload  *)
(* of its image between them: the first one stores it as pending, the      *)
(* second one activates it; a request that fails in between marks it as    *)
(* failed, one that crashes leaves it pending.  Whatever deletes posts     *)
(* deletes the graph of their reposts and recounts what survives.          *)
(***************************************************************************)
EXTENDS Engagement

\* The key of the unique index on user, repostOf and type.
RepostKey(u, x) == <<"repost", u, x>>

NewPost(u, x, k, status) ==
    [author |-> u, of |-> x, community |-> k, status |-> status,
     likes |-> 0, comments |-> 0, reposts |-> 0, views |-> 0]

\* The membership was looked up before the transaction.
CreatePendingPost(p, u, y, k) ==
    LET s == snap[p] IN
    /\ s # None
    /\ WasFound(s, User(u))
    /\ k # None => WasFound(s, Community(k))
    /\ s[Post(y)] = Unborn
    /\ Commit(p, [s EXCEPT ![Post(y)] = NewPost(u, None, k, "pending")], {})

\* Posts of a community count for it, all others for their author.
Activated(s, y) ==
    LET post == s[Post(y)]
        active == [s EXCEPT ![Post(y)].status = "active"] IN
    IF post.community = None THEN Increment(active, User(post.author), "posts", 1)
    ELSE Increment(active, Community(post.community), "posts", 1)

\* Wrong: the filter of the update has lost the status.
IsWaiting(s, y) == Exists(s, Post(y)) /\ s[Post(y)].of = None

\* activatePendingPost finds only a pending post.
IsPending(s, y) == Exists(s, Post(y)) /\ s[Post(y)].status = "pending"

ActivatePendingPost(p, y) ==
    LET s == snap[p] IN
    /\ s # None
    /\ IsPending(s, y)
    /\ Commit(p, Activated(s, y), {})

\* Only a request whose post did not become active marks it as failed.  The
\* update (updatePostStatus) looks at the id alone: that the post is still
\* pending, unless it was purged, is what the answer of the transaction that
\* would have activated it says (OutcomeIsTrue of UnitOfWork).
MarkPendingPostFailed(p, y) ==
    LET s == snap[p] IN
    /\ s # None
    /\ IsPending(s, y)
    /\ Commit(p, [s EXCEPT ![Post(y)].status = "failed"], {})

\* Target and duplicates were looked up before; the unique index decides.
RepostPost(p, u, y, x) ==
    LET s == snap[p]
        created == [s EXCEPT ![Post(y)] = NewPost(u, x, None, "active")] IN
    /\ s # None
    /\ x # y
    /\ WasFound(s, User(u))
    /\ WasFound(s, Post(x))
    /\ s[Post(y)] = Unborn
    /\ PostsThat(s, LAMBDA z : z.author = u /\ z.of = x) = {}
    /\ Commit(p, Increment(Increment(created, Post(x), "reposts", 1), User(u), "posts", 1),
              {RepostKey(u, x)})

-----------------------------------------------------------------------------
(* Deleting.                                                               *)

\* collectPostGraph: the roots, their reposts, the reposts of those, ...
PostGraph(s, roots) ==
    LET Reposting(xs) == PostsThat(s, LAMBDA y : y.of \in xs)
        reach[n \in 0 .. Cardinality(Posts)] ==
            IF n = 0 THEN roots ELSE reach[n - 1] \cup Reposting(reach[n - 1]) IN
    {x \in Posts : x \in reach[Cardinality(Posts)] /\ Exists(s, Post(x))}

\* Posts with everything that hangs on them.
Removed(s, xs) ==
    LET cs == CommentsThat(s, LAMBDA c : c.post \in xs)
        gone == {Post(x) : x \in xs} \cup {Comment(c) : c \in cs}
        relations == {Like(u, x) : u \in Users, x \in xs}
                         \cup {View(u, x) : u \in Users, x \in xs}
                         \cup {CommentLike(u, c) : u \in Users, c \in cs} IN
    Replace(s, [d \in gone \cup relations |-> IF d \in gone THEN Gone ELSE FALSE])

recomputeRepostCounts(s, xs) ==
    Recount(s, {Post(x) : x \in xs}, "reposts", LAMBDA x : Cardinality(RepostsOf(s, x)))

recomputeUserPostCounts(s, us) ==
    Recount(s, {User(u) : u \in us}, "posts", LAMBDA u : Cardinality(PostsBy(s, u)))

recomputeCommunityPostCounts(s, ks) ==
    Recount(s, {Community(k) : k \in ks}, "posts", LAMBDA k : Cardinality(PostsIn(s, k)))

deletePostGraph(s, roots) ==
    LET xs == PostGraph(s, roots)
        reposted == {s[Post(x)].of : x \in xs} \ {None}
        reposts == recomputeRepostCounts(Removed(s, xs), reposted)
        users == recomputeUserPostCounts(reposts, {s[Post(x)].author : x \in xs}) IN
    recomputeCommunityPostCounts(users, {s[Post(x)].community : x \in xs} \ {None})

\* The repost of the caller was found before the transaction.
UnrepostPost(p, y) ==
    LET s == snap[p] IN
    /\ s # None
    /\ Exists(s, Post(y))
    /\ s[Post(y)].of # None
    /\ Commit(p, deletePostGraph(s, {y}), {})

\* The owner, an administrator, or an admin of the community of the post.
MayDeletePost(s, u, x) ==
    /\ Exists(s, User(u))
    /\ \/ s[Post(x)].author = u
       \/ s[User(u)].isAdmin
       \/ s[Post(x)].community # None /\ s[Member(u, s[Post(x)].community)] = "admin"

DeletePost(p, x) ==
    LET s == snap[p] IN
    /\ s # None
    /\ Exists(s, Post(x))
    /\ {u \in Users : MayDeletePost(s, u, x)} # {}
    /\ Commit(p, deletePostGraph(s, {x}), {})

\* The second half of a request that created a post.
RequestEnds(p) == \E y \in Posts : ActivatePendingPost(p, y) \/ MarkPendingPostFailed(p, y)

PublishingStep(p) ==
    \/ \E u \in Users, y \in Posts, k \in Communities \cup {None} :
         CreatePendingPost(p, u, y, k)
    \/ \E u \in Users, y \in Posts, x \in Posts : RepostPost(p, u, y, x)
    \/ \E y \in Posts : UnrepostPost(p, y) \/ DeletePost(p, y)
    \/ RequestEnds(p)

-----------------------------------------------------------------------------
(* What the counters count.                                                *)

RepostsAreCounted(s) ==
    \A x \in Posts : Exists(s, Post(x)) =>
        s[Post(x)].reposts = Cardinality(RepostsOf(s, x))

CommunityPostsAreCounted(s) ==
    \A k \in Communities : Exists(s, Community(k)) =>
        s[Community(k)].posts = Cardinality(PostsIn(s, k))

\* A repost is active from the start, only posts wait; the community of a
\* post was there.
PostsAreSound(s) ==
    \A x \in Posts : Exists(s, Post(x)) =>
        LET post == s[Post(x)] IN
        /\ post.of # None => post.status = "active"
        /\ post.community # None => WasFound(s, Community(post.community))
=============================================================================
