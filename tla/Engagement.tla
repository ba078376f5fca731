----------------------------- MODULE Engagement -----------------------------
(***************************************************************************)
(* Likes, follows and comments.  The handlers look the user and the post   *)
(* or comment up before the transaction and trust what they found; inside  *)
(* it they write the relation and the counters next to it.                 *)
(***************************************************************************)
EXTENDS Documents

\* handleLike and handleUnlike of a post.
Toggled(s, u, x) ==
    Increment([s EXCEPT ![Like(u, x)] = ~@], Post(x), "likes",
              IF s[Like(u, x)] THEN -1 ELSE 1)

LikePost(p, u, x) ==
    LET s == snap[p] IN
    /\ s # None
    /\ WasFound(s, User(u))
    /\ WasFound(s, Post(x))
    /\ Commit(p, Toggled(s, u, x), {})

LikeComment(p, u, c) ==
    LET s == snap[p] IN
    /\ s # None
    /\ WasFound(s, User(u))
    /\ WasFound(s, Comment(c))
    /\ Commit(p, Increment([s EXCEPT ![CommentLike(u, c)] = ~@], Comment(c), "likes",
                           IF s[CommentLike(u, c)] THEN -1 ELSE 1), {})

-----------------------------------------------------------------------------
(* Follows.                                                                *)

Followed(s, u, v, n) ==
    Increment(Increment([s EXCEPT ![Follow(u, v)] = n > 0], User(u), "following", n),
              User(v), "followers", n)

\* Whether u follows v was read before, but addFollow and removeFollow fail
\* inside the transaction if it is so already.
SetFollowState(p, u, v, shouldFollow) ==
    LET s == snap[p] IN
    /\ s # None
    /\ u # v
    /\ WasFound(s, User(u))
    /\ WasFound(s, User(v))
    /\ s[Follow(u, v)] # shouldFollow
    /\ Commit(p, Followed(s, u, v, IF shouldFollow THEN 1 ELSE -1), {})

-----------------------------------------------------------------------------
(* Comments.                                                               *)

NewComment(u, x, b) ==
    [post |-> x, parent |-> b, author |-> u, departed |-> None,
     isDeleted |-> FALSE, likes |-> 0, replies |-> 0]

\* A comment c of u on x, below b unless that is None.
Commented(s, u, c, x, b) ==
    LET created == Increment([s EXCEPT ![Comment(c)] = NewComment(u, x, b)],
                             Post(x), "comments", 1) IN
    IF b = None THEN created ELSE Increment(created, Comment(b), "replies", 1)

\* The post and the comment that is answered were read before; that comment
\* belongs to the post, a tombstone may be answered too.
CreateComment(p, u, c, x, b) ==
    LET s == snap[p] IN
    /\ s # None
    /\ s[Comment(c)] = Unborn
    /\ WasFound(s, User(u))
    /\ WasFound(s, Post(x))
    /\ b # None => /\ WasFound(s, Comment(b))
                   /\ Exists(s, Comment(b)) => s[Comment(b)].post = x
    /\ Commit(p, Commented(s, u, c, x, b), {})

\* removeCommentInteractions.
WithoutCommentLikes(s, cs) ==
    Replace(s, [d \in {CommentLike(u, c) : u \in Users, c \in cs} |-> FALSE])

\* softDeleteComment.
Tombstone(comment) ==
    [comment EXCEPT !.author = None, !.isDeleted = TRUE, !.likes = 0]

recomputeCommentLikeCounts(s, cs) ==
    Recount(s, {Comment(c) : c \in cs}, "likes",
            LAMBDA c : Cardinality(CommentLikesOf(s, c)))

recomputePostLikeCounts(s, xs) ==
    Recount(s, {Post(x) : x \in xs}, "likes", LAMBDA x : Cardinality(LikesOf(s, x)))

recomputePostCommentCounts(s, xs) ==
    Recount(s, {Post(x) : x \in xs}, "comments",
            LAMBDA x : Cardinality(CommentsOf(s, x)))

recomputeCommentReplyCounts(s, cs) ==
    Recount(s, {Comment(c) : c \in cs}, "replies",
            LAMBDA c : Cardinality(RepliesTo(s, c)))

\* A comment with replies becomes a tombstone, one without is removed and the
\* post and the comment it answered are counted again.
WithoutComment(s, c) ==
    LET comment == s[Comment(c)]
        bare == WithoutCommentLikes(s, {c})
        removed == recomputePostCommentCounts([bare EXCEPT ![Comment(c)] = Gone],
                                              {comment.post}) IN
    IF RepliesTo(s, c) # {} THEN [bare EXCEPT ![Comment(c)] = Tombstone(comment)]
    ELSE recomputeCommentReplyCounts(removed, {comment.parent} \ {None})

\* Who may delete c: its author, the author of its post, an administrator.
\* That, and that c was no tombstone yet, was decided before the transaction;
\* the author of a tombstone is not known any more.
MayDeleteComment(s, u, c) ==
    LET comment == s[Comment(c)] IN
    /\ WasFound(s, User(u))
    /\ \/ comment.isDeleted
       \/ comment.author = u
       \/ Exists(s, Post(comment.post)) => s[Post(comment.post)].author = u
       \/ Exists(s, User(u)) => s[User(u)].isAdmin

DeleteComment(p, c) ==
    LET s == snap[p] IN
    /\ s # None
    /\ Exists(s, Comment(c))
    /\ {u \in Users : MayDeleteComment(s, u, c)} # {}
    /\ Commit(p, WithoutComment(s, c), {})

EngagementStep(p) ==
    \/ \E u \in Users, x \in Posts : LikePost(p, u, x)
    \/ \E u \in Users, c \in Comments : LikeComment(p, u, c)
    \/ \E u, v \in Users, should \in BOOLEAN : SetFollowState(p, u, v, should)
    \/ \E c \in Comments, x \in Posts, b \in Comments \cup {None}, u \in Users :
         CreateComment(p, u, c, x, b)
    \/ \E c \in Comments : DeleteComment(p, c)

-----------------------------------------------------------------------------
(* What the counters count.                                                *)

LikesAreCounted(s) ==
    /\ \A x \in Posts : Exists(s, Post(x)) =>
         s[Post(x)].likes = Cardinality(LikesOf(s, x))
    /\ \A c \in Comments : Exists(s, Comment(c)) =>
         s[Comment(c)].likes = Cardinality(CommentLikesOf(s, c))

ThreadsAreCounted(s) ==
    /\ \A x \in Posts : Exists(s, Post(x)) =>
         s[Post(x)].comments = Cardinality(CommentsOf(s, x))
    /\ \A c \in Comments : Exists(s, Comment(c)) =>
         s[Comment(c)].replies = Cardinality(RepliesTo(s, c))

FollowsAreCounted(s) ==
    \A u \in Users : Exists(s, User(u)) =>
        /\ s[User(u)].followers = Cardinality(FollowersOf(s, u))
        /\ s[User(u)].following = Cardinality(FollowedBy(s, u))

\* A comment answers one of the same post.
AnswersStayInPost(s) ==
    \A c, b \in Comments :
        Exists(s, Comment(c)) /\ Exists(s, Comment(b)) /\ s[Comment(c)].parent = b
            => s[Comment(b)].post = s[Comment(c)].post
=============================================================================
