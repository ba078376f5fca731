------------------------------- MODULE Social -------------------------------
(***************************************************************************)
(* The social network: engagement, publishing, communities, accounts and   *)
(* views on one database, with the queue that views hand their cache       *)
(* updates to.  The handlers interleave as transactions do; a start is any *)
(* database an earlier history of such steps has left.                     *)
(***************************************************************************)
EXTENDS Accounts, TransactionQueue

CONSTANT Starts     \* databases to start from

\* Nothing is about an id that nobody used yet.
NothingUnborn(s) ==
    /\ \A x \in Posts : s[Post(x)] = Unborn =>
         LikesOf(s, x) = {} /\ CommentsOf(s, x) = {} /\ RepostsOf(s, x) = {}
    /\ \A c \in Comments : s[Comment(c)] = Unborn =>
         CommentLikesOf(s, c) = {} /\ RepliesTo(s, c) = {}
    /\ \A u \in Users : s[User(u)] = Unborn =>
         FollowersOf(s, u) = {} /\ FollowedBy(s, u) = {}
    /\ \A k \in Communities : s[Community(k)] = Unborn =>
         PostsIn(s, k) = {} /\ MembersOf(s, k) = {}

\* Counters of likes, comments, replies, follows, reposts, and of posts and
\* members of a community are the numbers of the documents they stand for.
CountersFit(s) ==
    /\ LikesAreCounted(s)
    /\ ThreadsAreCounted(s)
    /\ FollowsAreCounted(s)
    /\ RepostsAreCounted(s)
    /\ CommunityPostsAreCounted(s)
    /\ MembersAreCounted(s)

ASSUME StartsAssumption ==
    \A s \in Starts :
        /\ IsDatabase(s)
        /\ ActiveAdmins(s) # {}
        /\ CountersFit(s)
        /\ NothingUnborn(s)
        /\ AnswersStayInPost(s)
        /\ PostsAreSound(s)
        /\ AdminIsCreator(s)

\* One job for every view that may be counted.
ASSUME JobsAssumption == Jobs = Users \X Posts

vars == <<db, snap, missed, calls, starts, mode, loops, waiting, hand, pushed, ended, calm>>

-----------------------------------------------------------------------------
(* Views.                                                                  *)

\* Wrong: the counter goes up whether the view was new or not.
SeenAgain(s, u, x) ==
    Increment([s EXCEPT ![View(u, x)] = TRUE], Post(x), "views", 1)

\* The upsert of a view, and the counter if that created it.
Seen(s, u, x) ==
    IF s[View(u, x)] THEN s
    ELSE Increment([s EXCEPT ![View(u, x)] = TRUE], Post(x), "views", 1)

\* A request of server w records that u saw x.  The Bloom filter in front may
\* say that it was seen before, or fail: its answer is left open.  A view that
\* was recorded meanwhile is no error.  A new one asks for an update of the feed.
\* (A view that a ban removed may be recorded again; a second job for it is
\* left out, so that a job has one name.)
RecordPostView(p, w, u, x) ==
    LET s == snap[p] IN
    /\ s # None
    /\ WasFound(s, User(u))
    /\ WasFound(s, Post(x))
    /\ Exists(s, Post(x)) => s[Post(x)].author # u
    /\ Commit(p, Seen(s, u, x), {})
    /\ IF s[View(u, x)] \/ Known(<<u, x>>) THEN UNCHANGED calls
                                           ELSE Call(w, <<u, x>>)
    /\ UNCHANGED <<starts, mode, loops, waiting, hand, pushed, ended, calm>>

-----------------------------------------------------------------------------
Init ==
    /\ db \in Starts
    /\ snap = [p \in Txns |-> None]
    /\ missed = [p \in Txns |-> {}]
    /\ QueueInit

\* What a transaction without a view does.
TransactionStep(p) ==
    \/ Begin(p)
    \/ Abort(p)
    \/ EngagementStep(p)
    \/ PublishingStep(p)
    \/ CommunityStep(p)
    \/ AccountStep(p)

ViewStep(p) == \E w \in Servers, u \in Users, x \in Posts : RecordPostView(p, w, u, x)

Next ==
    \/ \E p \in Txns : TransactionStep(p) /\ UNCHANGED queue
    \/ \E u \in Users : SingleUpdate(u) /\ UNCHANGED queue
    \/ \E p \in Txns : ViewStep(p)
    \/ \E w \in Servers : QueueStep(w) /\ UNCHANGED stores

Spec == Init /\ [][Next]_vars

-----------------------------------------------------------------------------
(* Properties.                                                             *)

\* Names a transaction can miss: documents and the keys of reposts.
Keys == Docs \cup {RepostKey(u, x) : u \in Users, x \in Posts}

TypeOK ==
    /\ IsDatabase(db)
    /\ \A p \in Txns : snap[p] # None => IsDatabase(snap[p])
    /\ missed \in [Txns -> SUBSET Keys]
    /\ QueueTypeOK

\* Whatever handlers overlap, no counter drifts from what it counts.
CountersAreTrue == CountersFit(db)

\* The views of a post grow by exactly the view documents that appear.
NewViews(x) == {u \in Users : ~db[View(u, x)] /\ db'[View(u, x)]}
ViewsAreCountedOnce ==
    [][\A x \in Posts : Exists(db, Post(x)) /\ Exists(db', Post(x)) =>
         db'[Post(x)].views - db[Post(x)].views = Cardinality(NewViews(x))]_vars

\* What a transaction that began before the ban of an account commits after it
\* adds nothing to the account.
BannedStaysEmpty ==
    [][\A u \in Users :
         /\ Exists(db, User(u)) /\ Exists(db', User(u))
         /\ db[User(u)].isBanned /\ db'[User(u)].isBanned
         /\ LeavesNothing(db, u)
         => LeavesNothing(db', u)]_vars
=============================================================================
