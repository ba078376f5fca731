---------------------------- MODULE SocialProofs ----------------------------
(***************************************************************************)
(* Proofs about Social for any number of accounts, posts, communities,     *)
(* servers and overlapping transactions: snapshots miss nothing but what   *)
(* is known to be missed, an administrator remains, views are counted      *)
(* once, every counter is the number of documents it stands for, a         *)
(* community keeps the admin who leads it, and the transaction queue holds *)
(* no job twice, drops none unseen and leaves none waiting without a loop. *)
(***************************************************************************)
EXTENDS Social, FiniteSetTheorems, SequenceTheorems, TLAPS

-----------------------------------------------------------------------------
(* Names.  Documents of different collections have different names.        *)

LEMMA NamesDiffer ==
    /\ \A u : User(u)[1] = "user" /\ User(u)[2] = u
    /\ \A x : Post(x)[1] = "post" /\ Post(x)[2] = x
    /\ \A c : Comment(c)[1] = "comment" /\ Comment(c)[2] = c
    /\ \A k : Community(k)[1] = "community"
    /\ \A u, v : Follow(u, v)[1] = "follow"
    /\ \A u, x : Like(u, x)[1] = "like"
    /\ \A u, x : View(u, x)[1] = "view" /\ View(u, x)[2] = u /\ View(u, x)[3] = x
    /\ \A u, c : CommentLike(u, c)[1] = "commentlike"
    /\ \A u, k : Member(u, k)[1] = "member"
    /\ Guard[1] = "guard"
BY DEF User, Post, Comment, Community, Follow, Like, View, CommentLike, Member, Guard

LEMMA NamesInDocs ==
    /\ \A u \in Users : User(u) \in Docs
    /\ \A x \in Posts : Post(x) \in Docs
    /\ \A u \in Users, x \in Posts : View(u, x) \in Docs
BY DEF Docs, UserDocs, PostDocs, Relations

-----------------------------------------------------------------------------
(* What no handler but the few that are meant to changes: the flags of an  *)
(* account and the views of a post.                                        *)

Typed(s) ==
    /\ DOMAIN s = Docs
    /\ \A u \in Users : s[User(u)] \in Account \cup {Unborn, Gone}
    /\ \A x \in Posts : s[Post(x)] \in PostRecord \cup {Unborn, Gone}

SameFlags(r, q) ==
    \/ q = r
    \/ r \in Account /\ q \in Account /\ q.isAdmin = r.isAdmin /\ q.isBanned = r.isBanned

\* A post keeps its views, or is made, or goes.
SameViews(r, q) ==
    \/ q = r
    \/ q = Gone
    \/ r \in PostRecord /\ q \in PostRecord /\ q.views = r.views
    \/ r = Unborn /\ q \in PostRecord

\* No view appears.
Kept(s, t) ==
    /\ DOMAIN t = DOMAIN s
    /\ \A u \in Users : SameFlags(s[User(u)], t[User(u)])
    /\ \A x \in Posts : SameViews(s[Post(x)], t[Post(x)])
    /\ \A u \in Users, x \in Posts : t[View(u, x)] \in {s[View(u, x)], FALSE}

ViewDocs == {View(u, x) : u \in Users, x \in Posts}
Watched == UserDocs \cup PostDocs \cup ViewDocs

LEMMA KeptIsTyped ==
    ASSUME NEW s, NEW t, Typed(s), Kept(s, t)
    PROVE  Typed(t)
BY DEF Typed, Kept, SameFlags, SameViews

LEMMA KeptNothing ==
    ASSUME NEW s
    PROVE  Kept(s, s)
BY DEF Kept, SameFlags, SameViews

LEMMA KeptTwice ==
    ASSUME NEW s, NEW t, NEW w, Kept(s, t), Kept(t, w)
    PROVE  Kept(s, w)
<1>1. DOMAIN w = DOMAIN s
  BY DEF Kept
<1>2. ASSUME NEW u \in Users PROVE SameFlags(s[User(u)], w[User(u)])
  <2>1. SameFlags(s[User(u)], t[User(u)]) /\ SameFlags(t[User(u)], w[User(u)])
    BY DEF Kept
  <2> QED BY <2>1 DEF SameFlags
<1>3. ASSUME NEW x \in Posts PROVE SameViews(s[Post(x)], w[Post(x)])
  <2>1. SameViews(s[Post(x)], t[Post(x)]) /\ SameViews(t[Post(x)], w[Post(x)])
    BY DEF Kept
  <2> QED BY <2>1, MissingAssumption DEF SameViews
<1>4. ASSUME NEW u \in Users, NEW x \in Posts
      PROVE  w[View(u, x)] \in {s[View(u, x)], FALSE}
  BY DEF Kept
<1> QED BY <1>1, <1>2, <1>3, <1>4 DEF Kept

LEMMA Unchanged ==
    \A r : SameFlags(r, r) /\ SameViews(r, r)
BY DEF SameFlags, SameViews

\* An update of one document.
LEMMA UpdateKept ==
    ASSUME NEW s, NEW d, NEW v, Typed(s),
           \A u \in Users : d = User(u) => SameFlags(s[d], v),
           \A x \in Posts : d = Post(x) => SameViews(s[d], v),
           \A u \in Users, x \in Posts : d = View(u, x) => v = FALSE
    PROVE  Kept(s, [s EXCEPT ![d] = v])
<1> DEFINE t == [s EXCEPT ![d] = v]
<1>1. DOMAIN t = DOMAIN s /\ \A e \in Docs : t[e] = IF e = d THEN v ELSE s[e]
  BY DEF Typed
<1> HIDE DEF t
<1>2. Kept(s, t)
  BY <1>1, NamesInDocs, Unchanged DEF Kept
<1> QED BY <1>2 DEF t

LEMMA OtherKept ==
    ASSUME NEW s, NEW d, NEW v, Typed(s), d \notin Watched
    PROVE  Kept(s, [s EXCEPT ![d] = v])
<1>1. /\ \A u \in Users : User(u) # d
      /\ \A x \in Posts : Post(x) # d
      /\ \A u \in Users, x \in Posts : View(u, x) # d
  BY DEF Watched, UserDocs, PostDocs, ViewDocs
<1> QED BY <1>1, UpdateKept

LEMMA AccountKept ==
    ASSUME NEW s, NEW u \in Users, NEW v, Typed(s), SameFlags(s[User(u)], v)
    PROVE  Kept(s, [s EXCEPT ![User(u)] = v])
<1>1. /\ \A x \in Posts : Post(x) # User(u)
      /\ \A w \in Users, x \in Posts : View(w, x) # User(u)
  BY NamesDiffer
<1> QED BY <1>1, UpdateKept

LEMMA PostKept ==
    ASSUME NEW s, NEW x \in Posts, NEW v, Typed(s), SameViews(s[Post(x)], v)
    PROVE  Kept(s, [s EXCEPT ![Post(x)] = v])
<1>1. /\ \A w \in Users : User(w) # Post(x)
      /\ \A w \in Users, y \in Posts : View(w, y) # Post(x)
  BY NamesDiffer
<1> QED BY <1>1, UpdateKept

\* Many updates at once.
LEMMA ReplaceKept ==
    ASSUME NEW s, NEW f, Typed(s),
           \A u \in Users : User(u) \in DOMAIN f => SameFlags(s[User(u)], f[User(u)]),
           \A x \in Posts : Post(x) \in DOMAIN f => SameViews(s[Post(x)], f[Post(x)]),
           \A u \in Users, x \in Posts : View(u, x) \in DOMAIN f => f[View(u, x)] = FALSE
    PROVE  Kept(s, Replace(s, f))
<1> DEFINE t == [d \in DOMAIN s |-> IF d \in DOMAIN f THEN f[d] ELSE s[d]]
<1>1. Kept(s, t)
  BY NamesInDocs DEF Typed, Kept, SameFlags, SameViews
<1> HIDE DEF t
<1>2. Replace(s, f) = IF t = s THEN s ELSE t
  BY DEF Replace, t
<1> QED BY <1>1, <1>2, KeptNothing

-----------------------------------------------------------------------------
(* Counters.                                                               *)

UserCounters == {"followers", "following", "posts"}
PostCounters == {"likes", "comments", "reposts"}

LEMMA UserCountersKept ==
    ASSUME NEW r \in Account, NEW n \in Int, NEW field \in UserCounters
    PROVE  r[field] \in Int /\ SameFlags(r, [r EXCEPT ![field] = n])
<1>1. CASE field = "followers"
  BY <1>1 DEF SameFlags, Account
<1>2. CASE field = "following"
  BY <1>2 DEF SameFlags, Account
<1>3. CASE field = "posts"
  BY <1>3 DEF SameFlags, Account
<1> QED BY <1>1, <1>2, <1>3 DEF UserCounters

LEMMA PostCountersKept ==
    ASSUME NEW r \in PostRecord, NEW n \in Int, NEW field \in PostCounters
    PROVE  r[field] \in Int /\ SameViews(r, [r EXCEPT ![field] = n])
<1>1. CASE field = "likes"
  BY <1>1 DEF SameViews, PostRecord
<1>2. CASE field = "comments"
  BY <1>2 DEF SameViews, PostRecord
<1>3. CASE field = "reposts"
  BY <1>3 DEF SameViews, PostRecord
<1> QED BY <1>1, <1>2, <1>3 DEF PostCounters

LEMMA IncrementKept ==
    ASSUME NEW s, Typed(s), NEW n \in Int
    PROVE  /\ \A u \in Users, field \in UserCounters :
                 Kept(s, Increment(s, User(u), field, n))
           /\ \A x \in Posts, field \in PostCounters :
                 Kept(s, Increment(s, Post(x), field, n))
           /\ \A d, field : d \notin Watched => Kept(s, Increment(s, d, field, n))
<1>1. ASSUME NEW u \in Users, NEW field \in UserCounters
      PROVE  Kept(s, Increment(s, User(u), field, n))
  <2>1. CASE Exists(s, User(u))
    <3>1. s[User(u)] \in Account
      BY <2>1 DEF Typed, Exists
    <3>2. SameFlags(s[User(u)], [s[User(u)] EXCEPT ![field] = s[User(u)][field] + n])
      <4>2. s[User(u)][field] \in Int
        BY <3>1, UserCountersKept
      <4>1. s[User(u)][field] + n \in Int
        BY <4>2
      <4> QED BY <3>1, <4>1, UserCountersKept
    <3> QED BY <2>1, <3>2, AccountKept DEF Increment
  <2>2. CASE ~Exists(s, User(u))
    BY <2>2, KeptNothing DEF Increment
  <2> QED BY <2>1, <2>2
<1>2. ASSUME NEW x \in Posts, NEW field \in PostCounters
      PROVE  Kept(s, Increment(s, Post(x), field, n))
  <2>1. CASE Exists(s, Post(x))
    <3>1. s[Post(x)] \in PostRecord
      BY <2>1 DEF Typed, Exists
    <3>2. SameViews(s[Post(x)], [s[Post(x)] EXCEPT ![field] = s[Post(x)][field] + n])
      <4>2. s[Post(x)][field] \in Int
        BY <3>1, PostCountersKept
      <4>1. s[Post(x)][field] + n \in Int
        BY <4>2
      <4> QED BY <3>1, <4>1, PostCountersKept
    <3> QED BY <2>1, <3>2, PostKept DEF Increment
  <2>2. CASE ~Exists(s, Post(x))
    BY <2>2, KeptNothing DEF Increment
  <2> QED BY <2>1, <2>2
<1>3. ASSUME NEW d, NEW field, d \notin Watched
      PROVE  Kept(s, Increment(s, d, field, n))
  BY <1>3, OtherKept, KeptNothing DEF Increment
<1> QED BY <1>1, <1>2, <1>3

LEMMA CardinalitiesAreNumbers ==
    /\ \A S \in SUBSET Users : Cardinality(S) \in Int
    /\ \A S \in SUBSET Posts : Cardinality(S) \in Int
    /\ \A S \in SUBSET Comments : Cardinality(S) \in Int
<1>1. ASSUME NEW T, IsFiniteSet(T), NEW S \in SUBSET T PROVE Cardinality(S) \in Int
  <2>1. IsFiniteSet(S)
    BY <1>1, FS_Subset
  <2>2. Cardinality(S) \in Nat
    BY <2>1, FS_CardinalityType
  <2> QED BY <2>2
<1> QED BY <1>1, FiniteAssumption

\* A recount of fields of posts, of users, of other documents.
LEMMA PostsKept ==
    ASSUME NEW s, NEW f, NEW field \in PostCounters, Typed(s),
           \A e \in DOMAIN f : e[1] = "post",
           \A x \in Posts : Post(x) \in DOMAIN f =>
               /\ Exists(s, Post(x))
               /\ \E n \in Int : f[Post(x)] = [s[Post(x)] EXCEPT ![field] = n]
    PROVE  Kept(s, Replace(s, f))
<1>1. \A u \in Users : User(u) \notin DOMAIN f
  BY NamesDiffer
<1>2. \A u \in Users, x \in Posts : View(u, x) \notin DOMAIN f
  BY NamesDiffer
<1>3. ASSUME NEW x \in Posts, Post(x) \in DOMAIN f
      PROVE  SameViews(s[Post(x)], f[Post(x)])
  <2>1. s[Post(x)] \in PostRecord
    BY <1>3 DEF Exists, Typed
  <2> QED BY <1>3, <2>1, PostCountersKept
<1> QED BY <1>1, <1>2, <1>3, ReplaceKept

LEMMA UsersKept ==
    ASSUME NEW s, NEW f, NEW field \in UserCounters, Typed(s),
           \A e \in DOMAIN f : e[1] = "user",
           \A u \in Users : User(u) \in DOMAIN f =>
               /\ Exists(s, User(u))
               /\ \E n \in Int : f[User(u)] = [s[User(u)] EXCEPT ![field] = n]
    PROVE  Kept(s, Replace(s, f))
<1>1. \A x \in Posts : Post(x) \notin DOMAIN f
  BY NamesDiffer
<1>2. \A u \in Users, x \in Posts : View(u, x) \notin DOMAIN f
  BY NamesDiffer
<1>3. ASSUME NEW u \in Users, User(u) \in DOMAIN f
      PROVE  SameFlags(s[User(u)], f[User(u)])
  <2>1. s[User(u)] \in Account
    BY <1>3 DEF Exists, Typed
  <2> QED BY <1>3, <2>1, UserCountersKept
<1> QED BY <1>1, <1>2, <1>3, ReplaceKept

LEMMA OthersKept ==
    ASSUME NEW s, NEW f, Typed(s), \A e \in DOMAIN f : e[1] \notin {"user", "post", "view"}
    PROVE  Kept(s, Replace(s, f))
<1>1. /\ \A u \in Users : User(u) \notin DOMAIN f
      /\ \A x \in Posts : Post(x) \notin DOMAIN f
      /\ \A u \in Users, x \in Posts : View(u, x) \notin DOMAIN f
  BY NamesDiffer
<1> QED BY <1>1, ReplaceKept

LEMMA PostLikesKept ==
    ASSUME NEW s, NEW xs, Typed(s)
    PROVE  Kept(s, recomputePostLikeCounts(s, xs))
<1> DEFINE docs == {e \in {Post(x) : x \in xs} : Exists(s, e)}
           f == [d \in docs |-> [s[d] EXCEPT !["likes"] = Cardinality(LikesOf(s, d[2]))]]
<1>1. recomputePostLikeCounts(s, xs) = Replace(s, f)
  BY DEF recomputePostLikeCounts, Recount
<1>2. \A e \in DOMAIN f : e[1] = "post" /\ Exists(s, e)
  BY NamesDiffer
<1>3. \A y : Cardinality(LikesOf(s, y)) \in Int
  BY CardinalitiesAreNumbers DEF LikesOf
<1>4. \A e \in DOMAIN f : \E n \in Int : f[e] = [s[e] EXCEPT !["likes"] = n]
  BY <1>3
<1> HIDE DEF f
<1> QED BY <1>1, <1>2, <1>4, PostsKept DEF PostCounters

LEMMA PostCommentsKept ==
    ASSUME NEW s, NEW xs, Typed(s)
    PROVE  Kept(s, recomputePostCommentCounts(s, xs))
<1> DEFINE docs == {e \in {Post(x) : x \in xs} : Exists(s, e)}
           f == [d \in docs |-> [s[d] EXCEPT !["comments"] = Cardinality(CommentsOf(s, d[2]))]]
<1>1. recomputePostCommentCounts(s, xs) = Replace(s, f)
  BY DEF recomputePostCommentCounts, Recount
<1>2. \A e \in DOMAIN f : e[1] = "post" /\ Exists(s, e)
  BY NamesDiffer
<1>3. \A y : Cardinality(CommentsOf(s, y)) \in Int
  BY CardinalitiesAreNumbers DEF CommentsOf, CommentsThat
<1>4. \A e \in DOMAIN f : \E n \in Int : f[e] = [s[e] EXCEPT !["comments"] = n]
  BY <1>3
<1> HIDE DEF f
<1> QED BY <1>1, <1>2, <1>4, PostsKept DEF PostCounters

LEMMA RepostsKept ==
    ASSUME NEW s, NEW xs, Typed(s)
    PROVE  Kept(s, recomputeRepostCounts(s, xs))
<1> DEFINE docs == {e \in {Post(x) : x \in xs} : Exists(s, e)}
           f == [d \in docs |-> [s[d] EXCEPT !["reposts"] = Cardinality(RepostsOf(s, d[2]))]]
<1>1. recomputeRepostCounts(s, xs) = Replace(s, f)
  BY DEF recomputeRepostCounts, Recount
<1>2. \A e \in DOMAIN f : e[1] = "post" /\ Exists(s, e)
  BY NamesDiffer
<1>3. \A y : Cardinality(RepostsOf(s, y)) \in Int
  BY CardinalitiesAreNumbers DEF RepostsOf, PostsThat
<1>4. \A e \in DOMAIN f : \E n \in Int : f[e] = [s[e] EXCEPT !["reposts"] = n]
  BY <1>3
<1> HIDE DEF f
<1> QED BY <1>1, <1>2, <1>4, PostsKept DEF PostCounters

LEMMA UserPostsKept ==
    ASSUME NEW s, NEW us, Typed(s)
    PROVE  Kept(s, recomputeUserPostCounts(s, us))
<1> DEFINE docs == {e \in {User(x) : x \in us} : Exists(s, e)}
           f == [d \in docs |-> [s[d] EXCEPT !["posts"] = Cardinality(PostsBy(s, d[2]))]]
<1>1. recomputeUserPostCounts(s, us) = Replace(s, f)
  BY DEF recomputeUserPostCounts, Recount
<1>2. \A e \in DOMAIN f : e[1] = "user" /\ Exists(s, e)
  BY NamesDiffer
<1>3. \A y : Cardinality(PostsBy(s, y)) \in Int
  BY CardinalitiesAreNumbers DEF PostsBy, PostsThat
<1>4. \A e \in DOMAIN f : \E n \in Int : f[e] = [s[e] EXCEPT !["posts"] = n]
  BY <1>3
<1> HIDE DEF f
<1> QED BY <1>1, <1>2, <1>4, UsersKept DEF UserCounters

LEMMA CommentLikesKept ==
    ASSUME NEW s, NEW cs, Typed(s)
    PROVE  Kept(s, recomputeCommentLikeCounts(s, cs))
<1> DEFINE docs == {e \in {Comment(x) : x \in cs} : Exists(s, e)}
           f == [d \in docs |-> [s[d] EXCEPT !["likes"] = Cardinality(CommentLikesOf(s, d[2]))]]
<1>1. recomputeCommentLikeCounts(s, cs) = Replace(s, f)
  BY DEF recomputeCommentLikeCounts, Recount
<1>2. \A e \in DOMAIN f : e[1] = "comment" /\ Exists(s, e)
  BY NamesDiffer
<1> HIDE DEF f
<1> QED BY <1>1, <1>2, OthersKept

LEMMA RepliesKept ==
    ASSUME NEW s, NEW cs, Typed(s)
    PROVE  Kept(s, recomputeCommentReplyCounts(s, cs))
<1> DEFINE docs == {e \in {Comment(x) : x \in cs} : Exists(s, e)}
           f == [d \in docs |-> [s[d] EXCEPT !["replies"] = Cardinality(RepliesTo(s, d[2]))]]
<1>1. recomputeCommentReplyCounts(s, cs) = Replace(s, f)
  BY DEF recomputeCommentReplyCounts, Recount
<1>2. \A e \in DOMAIN f : e[1] = "comment" /\ Exists(s, e)
  BY NamesDiffer
<1> HIDE DEF f
<1> QED BY <1>1, <1>2, OthersKept

LEMMA CommunityPostsKept ==
    ASSUME NEW s, NEW ks, Typed(s)
    PROVE  Kept(s, recomputeCommunityPostCounts(s, ks))
<1> DEFINE docs == {e \in {Community(x) : x \in ks} : Exists(s, e)}
           f == [d \in docs |-> [s[d] EXCEPT !["posts"] = Cardinality(PostsIn(s, d[2]))]]
<1>1. recomputeCommunityPostCounts(s, ks) = Replace(s, f)
  BY DEF recomputeCommunityPostCounts, Recount
<1>2. \A e \in DOMAIN f : e[1] = "community" /\ Exists(s, e)
  BY NamesDiffer
<1> HIDE DEF f
<1> QED BY <1>1, <1>2, OthersKept

-----------------------------------------------------------------------------
(* Engagement.                                                             *)

LEMMA NotWatched ==
    /\ \A c : Comment(c) \notin Watched
    /\ \A k : Community(k) \notin Watched
    /\ \A u, v : Follow(u, v) \notin Watched
    /\ \A u, x : Like(u, x) \notin Watched
    /\ \A u, c : CommentLike(u, c) \notin Watched
    /\ \A u, k : Member(u, k) \notin Watched
<1>1. \A e \in Watched : e[1] \in {"user", "post", "view"}
  BY NamesDiffer DEF Watched, UserDocs, PostDocs, ViewDocs
<1> QED BY <1>1, NamesDiffer

LEMMA ToggledKept ==
    ASSUME NEW s, NEW u, NEW x \in Posts, Typed(s)
    PROVE  Kept(s, Toggled(s, u, x))
<1> DEFINE t == [s EXCEPT ![Like(u, x)] = ~@]
           n == IF s[Like(u, x)] THEN -1 ELSE 1
<1>1. Kept(s, t)
  BY NotWatched, OtherKept
<1>2. Typed(t)
  BY <1>1, KeptIsTyped
<1>3. n \in Int
  OBVIOUS
<1>4. Toggled(s, u, x) = Increment(t, Post(x), "likes", n)
  BY DEF Toggled
<1> HIDE DEF t, n
<1>5. Kept(t, Increment(t, Post(x), "likes", n))
  BY <1>2, <1>3, IncrementKept DEF PostCounters
<1> QED BY <1>1, <1>4, <1>5, KeptTwice

LEMMA CommentLikedKept ==
    ASSUME NEW s, NEW u, NEW c, NEW n \in Int, Typed(s)
    PROVE  Kept(s, Increment([s EXCEPT ![CommentLike(u, c)] = ~@], Comment(c), "likes", n))
<1> DEFINE t == [s EXCEPT ![CommentLike(u, c)] = ~@]
<1>1. Kept(s, t)
  BY NotWatched, OtherKept
<1>2. Typed(t)
  BY <1>1, KeptIsTyped
<1> HIDE DEF t
<1>3. Kept(t, Increment(t, Comment(c), "likes", n))
  BY <1>2, NotWatched, IncrementKept
<1>4. Kept(s, Increment(t, Comment(c), "likes", n))
  BY <1>1, <1>3, KeptTwice
<1> QED BY <1>4 DEF t

LEMMA FollowedKept ==
    ASSUME NEW s, NEW u \in Users, NEW v \in Users, NEW n \in Int, Typed(s)
    PROVE  Kept(s, Followed(s, u, v, n))
<1> DEFINE t == [s EXCEPT ![Follow(u, v)] = n > 0]
           w == Increment(t, User(u), "following", n)
<1>1. Kept(s, t)
  BY NotWatched, OtherKept
<1>2. Typed(t)
  BY <1>1, KeptIsTyped
<1>3. Followed(s, u, v, n) = Increment(w, User(v), "followers", n)
  BY DEF Followed
<1> HIDE DEF t
<1>4. Kept(t, w)
  BY <1>2, IncrementKept DEF UserCounters
<1>5. Typed(w)
  BY <1>2, <1>4, KeptIsTyped
<1> HIDE DEF w
<1>6. Kept(w, Increment(w, User(v), "followers", n))
  BY <1>5, IncrementKept DEF UserCounters
<1>7. Kept(s, w)
  BY <1>1, <1>4, KeptTwice
<1> QED BY <1>3, <1>6, <1>7, KeptTwice

LEMMA CommentedKept ==
    ASSUME NEW s, NEW u, NEW c, NEW x \in Posts, NEW b, Typed(s)
    PROVE  Kept(s, Commented(s, u, c, x, b))
<1> DEFINE t == [s EXCEPT ![Comment(c)] = NewComment(u, x, b)]
           w == Increment(t, Post(x), "comments", 1)
<1>1. Kept(s, t)
  BY NotWatched, OtherKept
<1>2. Typed(t)
  BY <1>1, KeptIsTyped
<1>3. Commented(s, u, c, x, b) = IF b = None THEN w ELSE Increment(w, Comment(b), "replies", 1)
  BY DEF Commented
<1> HIDE DEF t
<1>4. Kept(t, w)
  BY <1>2, IncrementKept DEF PostCounters
<1>5. Typed(w)
  BY <1>2, <1>4, KeptIsTyped
<1> HIDE DEF w
<1>6. Kept(w, Increment(w, Comment(b), "replies", 1))
  BY <1>5, NotWatched, IncrementKept
<1>7. Kept(s, w)
  BY <1>1, <1>4, KeptTwice
<1>8. Kept(s, Increment(w, Comment(b), "replies", 1))
  BY <1>6, <1>7, KeptTwice
<1> QED BY <1>3, <1>7, <1>8

LEMMA WithoutCommentLikesKept ==
    ASSUME NEW s, NEW cs, Typed(s)
    PROVE  Kept(s, WithoutCommentLikes(s, cs))
<1> DEFINE f == [d \in {CommentLike(u, c) : u \in Users, c \in cs} |-> FALSE]
<1>1. \A e \in DOMAIN f : e[1] = "commentlike"
  BY NamesDiffer
<1>2. WithoutCommentLikes(s, cs) = Replace(s, f)
  BY DEF WithoutCommentLikes
<1> HIDE DEF f
<1> QED BY <1>1, <1>2, OthersKept

LEMMA WithoutCommentKept ==
    ASSUME NEW s, NEW c, Typed(s)
    PROVE  Kept(s, WithoutComment(s, c))
<1> DEFINE comment == s[Comment(c)]
           bare == WithoutCommentLikes(s, {c})
           tomb == [bare EXCEPT ![Comment(c)] = Tombstone(comment)]
           lost == [bare EXCEPT ![Comment(c)] = Gone]
           removed == recomputePostCommentCounts(lost, {comment.post})
           counted == recomputeCommentReplyCounts(removed, {comment.parent} \ {None})
<1>1. WithoutComment(s, c) = IF RepliesTo(s, c) # {} THEN tomb ELSE counted
  BY DEF WithoutComment
<1>2. Kept(s, bare) /\ Typed(bare)
  BY WithoutCommentLikesKept, KeptIsTyped
<1> HIDE DEF bare, comment
<1>3. Kept(bare, tomb) /\ Kept(bare, lost)
  BY <1>2, NotWatched, OtherKept
<1>4. Typed(lost)
  BY <1>2, <1>3, KeptIsTyped
<1> HIDE DEF tomb, lost
<1>5. Kept(lost, removed)
  BY <1>4, PostCommentsKept
<1>6. Typed(removed)
  BY <1>4, <1>5, KeptIsTyped
<1> HIDE DEF removed
<1>7. Kept(removed, counted)
  BY <1>6, RepliesKept
<1> HIDE DEF counted
<1>8. Kept(s, tomb) /\ Kept(s, lost)
  BY <1>2, <1>3, KeptTwice
<1>9. Kept(s, removed)
  BY <1>8, <1>5, KeptTwice
<1>10. Kept(s, counted)
  BY <1>9, <1>7, KeptTwice
<1> QED BY <1>1, <1>8, <1>10

-----------------------------------------------------------------------------
(* Publishing.                                                             *)

LEMMA ActivatedKept ==
    ASSUME NEW s, NEW y \in Posts, Typed(s), Exists(s, Post(y))
    PROVE  Kept(s, Activated(s, y))
<1> DEFINE post == s[Post(y)]
           t == [s EXCEPT ![Post(y)] = [post EXCEPT !.status = "active"]]
<1>1. post \in PostRecord
  BY DEF Typed, Exists
<1>2. post.author \in Users
  BY <1>1 DEF PostRecord
<1>3. SameViews(post, [post EXCEPT !.status = "active"])
  BY <1>1 DEF SameViews, PostRecord
<1>4. Kept(s, t)
  BY <1>3, PostKept
<1>5. Typed(t)
  BY <1>4, KeptIsTyped
<1>6. Activated(s, y) = IF post.community = None
                        THEN Increment(t, User(post.author), "posts", 1)
                        ELSE Increment(t, Community(post.community), "posts", 1)
  BY DEF Activated
<1> HIDE DEF post, t
<1>7. Kept(t, Increment(t, User(post.author), "posts", 1))
  BY <1>2, <1>5, IncrementKept DEF UserCounters
<1>8. Kept(t, Increment(t, Community(post.community), "posts", 1))
  BY <1>5, NotWatched, IncrementKept
<1> QED BY <1>4, <1>6, <1>7, <1>8, KeptTwice

LEMMA CreatedKept ==
    ASSUME NEW s, NEW u \in Users, NEW y \in Posts, NEW x \in Posts \cup {None},
           NEW k \in Communities \cup {None}, NEW status \in {"pending", "active"},
           Typed(s), s[Post(y)] = Unborn
    PROVE  Kept(s, [s EXCEPT ![Post(y)] = NewPost(u, x, k, status)])
<1>1. NewPost(u, x, k, status) \in PostRecord
  BY DEF NewPost, PostRecord
<1>2. SameViews(s[Post(y)], NewPost(u, x, k, status))
  BY <1>1 DEF SameViews
<1> QED BY <1>2, PostKept

LEMMA FailedKept ==
    ASSUME NEW s, NEW y \in Posts, Typed(s), Exists(s, Post(y))
    PROVE  Kept(s, [s EXCEPT ![Post(y)].status = "failed"])
<1>1. s[Post(y)] \in PostRecord
  BY DEF Typed, Exists
<1>2. SameViews(s[Post(y)], [s[Post(y)] EXCEPT !.status = "failed"])
  BY <1>1 DEF SameViews, PostRecord
<1> QED BY <1>2, PostKept

LEMMA RepostedKept ==
    ASSUME NEW s, NEW u \in Users, NEW y \in Posts, NEW x \in Posts,
           Typed(s), s[Post(y)] = Unborn
    PROVE  LET created == [s EXCEPT ![Post(y)] = NewPost(u, x, None, "active")] IN
           Kept(s, Increment(Increment(created, Post(x), "reposts", 1), User(u), "posts", 1))
<1> DEFINE t == [s EXCEPT ![Post(y)] = NewPost(u, x, None, "active")]
           w == Increment(t, Post(x), "reposts", 1)
           end == Increment(w, User(u), "posts", 1)
<1>1. Kept(s, t)
  BY CreatedKept
<1>2. Typed(t)
  BY <1>1, KeptIsTyped
<1> HIDE DEF t
<1>3. Kept(t, w)
  BY <1>2, IncrementKept DEF PostCounters
<1>4. Typed(w)
  BY <1>2, <1>3, KeptIsTyped
<1> HIDE DEF w
<1>5. Kept(w, end)
  BY <1>4, IncrementKept DEF UserCounters
<1>6. Kept(s, w)
  BY <1>1, <1>3, KeptTwice
<1>7. Kept(s, end)
  BY <1>5, <1>6, KeptTwice
<1> QED BY <1>7 DEF end, w, t

LEMMA RemovedKept ==
    ASSUME NEW s, NEW xs, Typed(s)
    PROVE  Kept(s, Removed(s, xs))
<1> DEFINE cs == CommentsThat(s, LAMBDA c : c.post \in xs)
           gone == {Post(x) : x \in xs} \cup {Comment(c) : c \in cs}
           relations == {Like(u, x) : u \in Users, x \in xs}
                            \cup {View(u, x) : u \in Users, x \in xs}
                            \cup {CommentLike(u, c) : u \in Users, c \in cs}
           f == [d \in gone \cup relations |-> IF d \in gone THEN Gone ELSE FALSE]
<1>1. Removed(s, xs) = Replace(s, f)
  BY DEF Removed
<1> HIDE DEF cs
<1>2. \A e \in gone : e[1] \in {"post", "comment"}
  BY NamesDiffer
<1>3. \A e \in relations : e[1] \in {"like", "view", "commentlike"}
  BY NamesDiffer
<1> HIDE DEF gone, relations
<1>4. DOMAIN f = gone \cup relations /\ \A e \in DOMAIN f : f[e] = IF e \in gone THEN Gone ELSE FALSE
  OBVIOUS
<1> HIDE DEF f
<1>5. \A u \in Users : User(u) \notin DOMAIN f
  BY <1>2, <1>3, <1>4, NamesDiffer
<1>6. \A u \in Users, x \in Posts : View(u, x) \in DOMAIN f => f[View(u, x)] = FALSE
  BY <1>2, <1>4, NamesDiffer
<1>7. \A x \in Posts : Post(x) \notin relations
  BY <1>3, NamesDiffer
<1>8. \A x \in Posts : Post(x) \in DOMAIN f => SameViews(s[Post(x)], f[Post(x)])
  BY <1>4, <1>7 DEF SameViews
<1> QED BY <1>1, <1>5, <1>6, <1>8, ReplaceKept

LEMMA deletePostGraphKept ==
    ASSUME NEW s, NEW roots, Typed(s)
    PROVE  Kept(s, deletePostGraph(s, roots))
<1> DEFINE xs == PostGraph(s, roots)
           reposted == {s[Post(x)].of : x \in xs} \ {None}
           authors == {s[Post(x)].author : x \in xs}
           ks == {s[Post(x)].community : x \in xs} \ {None}
           bare == Removed(s, xs)
           reposts == recomputeRepostCounts(bare, reposted)
           users == recomputeUserPostCounts(reposts, authors)
           end == recomputeCommunityPostCounts(users, ks)
<1>1. deletePostGraph(s, roots) = end
  BY DEF deletePostGraph
<1> HIDE DEF xs, reposted, authors, ks
<1>2. Kept(s, bare) /\ Typed(bare)
  BY RemovedKept, KeptIsTyped
<1> HIDE DEF bare
<1>3. Kept(bare, reposts)
  BY <1>2, RepostsKept
<1>4. Kept(s, reposts) /\ Typed(reposts)
  BY <1>2, <1>3, KeptTwice, KeptIsTyped
<1> HIDE DEF reposts
<1>5. Kept(reposts, users)
  BY <1>4, UserPostsKept
<1>6. Kept(s, users) /\ Typed(users)
  BY <1>4, <1>5, KeptTwice, KeptIsTyped
<1> HIDE DEF users
<1>7. Kept(users, end)
  BY <1>6, CommunityPostsKept
<1> QED BY <1>1, <1>6, <1>7, KeptTwice

-----------------------------------------------------------------------------
(* Communities.                                                            *)

LEMMA JoinedKept ==
    ASSUME NEW s, NEW u \in Users, NEW k \in Communities, Typed(s)
    PROVE  Kept(s, Joined(s, u, k))
<1>1. CASE Exists(s, User(u))
  <2> DEFINE v == [s[User(u)] EXCEPT !.joined = s[User(u)].joined \cup {k}]
  <2>1. s[User(u)] \in Account
    BY <1>1 DEF Typed, Exists
  <2>2. SameFlags(s[User(u)], v)
    BY <2>1 DEF SameFlags, Account
  <2>3. Joined(s, u, k) = [s EXCEPT ![User(u)] = v]
    BY <1>1 DEF Joined
  <2> HIDE DEF v
  <2>4. Kept(s, [s EXCEPT ![User(u)] = v])
    BY <2>2, AccountKept
  <2> QED BY <2>3, <2>4
<1>2. CASE ~Exists(s, User(u))
  BY <1>2, KeptNothing DEF Joined
<1> QED BY <1>1, <1>2

LEMMA UnlistedKept ==
    ASSUME NEW s, NEW us, NEW ks, Typed(s)
    PROVE  Kept(s, Unlisted(s, us, ks))
<1> DEFINE f == [d \in {User(u) : u \in {v \in us : Exists(s, User(v))}} |->
                    [s[d] EXCEPT !.joined = s[d].joined \ ks]]
<1>1. Unlisted(s, us, ks) = Replace(s, f)
  BY DEF Unlisted
<1>2. \A e \in DOMAIN f : e[1] = "user" /\ Exists(s, e)
  BY NamesDiffer
<1>3. \A e \in DOMAIN f : f[e] = [s[e] EXCEPT !.joined = s[e].joined \ ks]
  OBVIOUS
<1> HIDE DEF f
<1>4. ASSUME NEW u \in Users, User(u) \in DOMAIN f
      PROVE  SameFlags(s[User(u)], f[User(u)])
  <2>1. s[User(u)] \in Account
    BY <1>2, <1>4 DEF Typed, Exists
  <2>2. SameFlags(s[User(u)], [s[User(u)] EXCEPT !.joined = s[User(u)].joined \ ks])
    BY <2>1 DEF SameFlags, Account
  <2> QED BY <1>3, <1>4, <2>2
<1>5. /\ \A x \in Posts : Post(x) \notin DOMAIN f
      /\ \A u \in Users, x \in Posts : View(u, x) \notin DOMAIN f
  BY <1>2, NamesDiffer
<1> QED BY <1>1, <1>4, <1>5, ReplaceKept

LEMMA CommunityCreatedKept ==
    ASSUME NEW s, NEW u \in Users, NEW k \in Communities, NEW v, Typed(s)
    PROVE  Kept(s, Joined([s EXCEPT ![Community(k)] = v, ![Member(u, k)] = "admin"], u, k))
<1> DEFINE t == [s EXCEPT ![Community(k)] = v]
           w == [t EXCEPT ![Member(u, k)] = "admin"]
<1>1. [s EXCEPT ![Community(k)] = v, ![Member(u, k)] = "admin"] = w
  OBVIOUS
<1>2. Kept(s, t) /\ Typed(t)
  BY NotWatched, OtherKept, KeptIsTyped
<1> HIDE DEF t
<1>3. Kept(t, w)
  BY <1>2, NotWatched, OtherKept
<1>4. Kept(s, w) /\ Typed(w)
  BY <1>2, <1>3, KeptTwice, KeptIsTyped
<1> HIDE DEF w
<1>5. Kept(w, Joined(w, u, k))
  BY <1>4, JoinedKept
<1>6. Kept(s, Joined(w, u, k))
  BY <1>4, <1>5, KeptTwice
<1> QED BY <1>1, <1>6

LEMMA AddedKept ==
    ASSUME NEW s, NEW u \in Users, NEW k \in Communities, Typed(s)
    PROVE  Kept(s, Added(s, u, k))
<1> DEFINE t == [s EXCEPT ![Member(u, k)] = "member"]
           w == Joined(t, u, k)
           end == Increment(w, Community(k), "members", 1)
<1>1. Added(s, u, k) = end
  BY DEF Added
<1>2. Kept(s, t) /\ Typed(t)
  BY NotWatched, OtherKept, KeptIsTyped
<1> HIDE DEF t
<1>3. Kept(t, w)
  BY <1>2, JoinedKept
<1>4. Kept(s, w) /\ Typed(w)
  BY <1>2, <1>3, KeptTwice, KeptIsTyped
<1> HIDE DEF w
<1>5. Kept(w, end)
  BY <1>4, NotWatched, IncrementKept
<1> QED BY <1>1, <1>4, <1>5, KeptTwice

LEMMA DismissedKept ==
    ASSUME NEW s, NEW u, NEW k, Typed(s)
    PROVE  Kept(s, Dismissed(s, u, k))
<1> DEFINE t == [s EXCEPT ![Member(u, k)] = "none"]
           w == Unlisted(t, {u}, {k})
           end == Increment(w, Community(k), "members", -1)
<1>1. Dismissed(s, u, k) = end
  BY DEF Dismissed
<1>2. Kept(s, t) /\ Typed(t)
  BY NotWatched, OtherKept, KeptIsTyped
<1> HIDE DEF t
<1>3. Kept(t, w)
  BY <1>2, UnlistedKept
<1>4. Kept(s, w) /\ Typed(w)
  BY <1>2, <1>3, KeptTwice, KeptIsTyped
<1> HIDE DEF w
<1>5. Kept(w, end)
  BY <1>4, NotWatched, IncrementKept
<1> QED BY <1>1, <1>4, <1>5, KeptTwice

LEMMA WithoutCommunitiesKept ==
    ASSUME NEW s, NEW ks, Typed(s)
    PROVE  Kept(s, WithoutCommunities(s, ks))
<1> DEFINE roots == PostsThat(s, LAMBDA x : x.community \in ks)
           posts == deletePostGraph(s, roots)
           g == [d \in {Member(u, k) : u \in Users, k \in ks} |-> "none"]
           members == Replace(posts, g)
           f == [d \in {Community(k) : k \in ks} |-> Gone]
           gone == Replace(members, f)
           end == Unlisted(gone, Users, ks)
<1>1. WithoutCommunities(s, ks) = end
  BY DEF WithoutCommunities
<1> HIDE DEF roots
<1>2. Kept(s, posts) /\ Typed(posts)
  BY deletePostGraphKept, KeptIsTyped
<1>9. \A e \in DOMAIN g : e[1] = "member"
  BY NamesDiffer
<1> HIDE DEF posts, g
<1>3. Kept(posts, members)
  BY <1>2, <1>9, OthersKept
<1>4. Kept(s, members) /\ Typed(members)
  BY <1>2, <1>3, KeptTwice, KeptIsTyped
<1>5. \A e \in DOMAIN f : e[1] = "community"
  BY NamesDiffer
<1> HIDE DEF members, f
<1>6. Kept(members, gone)
  BY <1>4, <1>5, OthersKept
<1>7. Kept(s, gone) /\ Typed(gone)
  BY <1>4, <1>6, KeptTwice, KeptIsTyped
<1> HIDE DEF gone
<1>8. Kept(gone, end)
  BY <1>7, UnlistedKept
<1> QED BY <1>1, <1>7, <1>8, KeptTwice

-----------------------------------------------------------------------------
(* Accounts: all parts of a purge but the record itself.                   *)

LEMMA tombstoneCommentsKept ==
    ASSUME NEW s, NEW u, Typed(s)
    PROVE  Kept(s, tombstoneComments(s, u))
<1> DEFINE own == AuthoredBy(s, u)
           liked == {c \in Comments : s[CommentLike(u, c)]}
           first == WithoutCommentLikes(s, own)
           f == [d \in {CommentLike(u, c) : c \in Comments} |-> FALSE]
           bare == Replace(first, f)
           counted == recomputeCommentLikeCounts(bare, own \cup liked)
           g == [d \in {Comment(c) : c \in own} |->
                     [Tombstone(counted[d]) EXCEPT !.departed = u]]
           end == Replace(counted, g)
<1>1. tombstoneComments(s, u) = end
  BY DEF tombstoneComments
<1> HIDE DEF own, liked
<1>2. Kept(s, first) /\ Typed(first)
  BY WithoutCommentLikesKept, KeptIsTyped
<1>3. \A e \in DOMAIN f : e[1] = "commentlike"
  BY NamesDiffer
<1> HIDE DEF first, f
<1>4. Kept(first, bare)
  BY <1>2, <1>3, OthersKept
<1>5. Kept(s, bare) /\ Typed(bare)
  BY <1>2, <1>4, KeptTwice, KeptIsTyped
<1> HIDE DEF bare
<1>6. Kept(bare, counted)
  BY <1>5, CommentLikesKept
<1>7. Kept(s, counted) /\ Typed(counted)
  BY <1>5, <1>6, KeptTwice, KeptIsTyped
<1> HIDE DEF counted
<1>8. \A e \in DOMAIN g : e[1] = "comment"
  BY NamesDiffer
<1> HIDE DEF g
<1>9. Kept(counted, end)
  BY <1>7, <1>8, OthersKept
<1> QED BY <1>1, <1>7, <1>9, KeptTwice

LEMMA removePostInteractionsKept ==
    ASSUME NEW s, NEW u, Typed(s)
    PROVE  Kept(s, removePostInteractions(s, u))
<1> DEFINE liked == {x \in Posts : s[Like(u, x)]}
           f == [d \in {Like(u, x) : x \in Posts} \cup {View(u, x) : x \in Posts} |-> FALSE]
           bare == Replace(s, f)
           end == recomputePostLikeCounts(bare, liked)
<1>1. removePostInteractions(s, u) = end
  BY DEF removePostInteractions
<1> HIDE DEF liked
<1>2. \A e \in DOMAIN f : e[1] \in {"like", "view"} /\ f[e] = FALSE
  BY NamesDiffer
<1> HIDE DEF f
<1>3. /\ \A v \in Users : User(v) \notin DOMAIN f
      /\ \A x \in Posts : Post(x) \notin DOMAIN f
  BY <1>2, NamesDiffer
<1>4. Kept(s, bare)
  BY <1>2, <1>3, ReplaceKept
<1>5. Typed(bare)
  BY <1>4, KeptIsTyped
<1> HIDE DEF bare
<1>6. Kept(bare, end)
  BY <1>5, PostLikesKept
<1> QED BY <1>1, <1>4, <1>6, KeptTwice

LEMMA WithoutContentKept ==
    ASSUME NEW s, NEW u, Typed(s)
    PROVE  Kept(s, WithoutContent(s, u))
<1> DEFINE roots == PostsThat(s, LAMBDA x : x.author = u)
           posts == deletePostGraph(s, roots)
           comments == tombstoneComments(posts, u)
<1>1. WithoutContent(s, u) = removePostInteractions(comments, u)
  BY DEF WithoutContent
<1> HIDE DEF roots
<1>2. Kept(s, posts) /\ Typed(posts)
  BY deletePostGraphKept, KeptIsTyped
<1> HIDE DEF posts
<1>3. Kept(posts, comments)
  BY <1>2, tombstoneCommentsKept
<1>4. Kept(s, comments) /\ Typed(comments)
  BY <1>2, <1>3, KeptTwice, KeptIsTyped
<1> HIDE DEF comments
<1>5. Kept(comments, removePostInteractions(comments, u))
  BY <1>4, removePostInteractionsKept
<1> QED BY <1>1, <1>4, <1>5, KeptTwice

LEMMA UnfollowedKept ==
    ASSUME NEW s, NEW u, Typed(s)
    PROVE  Kept(s, Unfollowed(s, u))
<1> DEFINE f == [d \in {Follow(u, v) : v \in Users \ {u}}
                           \cup {Follow(v, u) : v \in Users \ {u}} |-> FALSE]
<1>1. Unfollowed(s, u) = Replace(s, f)
  BY DEF Unfollowed
<1>2. \A e \in DOMAIN f : e[1] = "follow"
  BY NamesDiffer
<1> HIDE DEF f
<1> QED BY <1>1, <1>2, OthersKept

LEMMA WithoutRelationshipsKept ==
    ASSUME NEW s, NEW u, Typed(s)
    PROVE  Kept(s, WithoutRelationships(s, u))
<1> DEFINE affected == {User(v) : v \in FollowersOf(s, u) \cup FollowedBy(s, u)}
           bare == Unfollowed(s, u)
           f == [d \in {e \in affected : Exists(bare, e)} |->
                     [bare[d] EXCEPT !["followers"] = Cardinality(FollowersOf(bare, d[2]))]]
           followers == Replace(bare, f)
           g == [d \in {e \in affected : Exists(followers, e)} |->
                     [followers[d] EXCEPT !["following"] = Cardinality(FollowedBy(bare, d[2]))]]
           end == Replace(followers, g)
<1>1. WithoutRelationships(s, u) = end
  BY DEF WithoutRelationships, Recount
<1>2. \A e \in affected : e[1] = "user"
  BY NamesDiffer
<1> HIDE DEF affected
<1>3. Kept(s, bare) /\ Typed(bare)
  BY UnfollowedKept, KeptIsTyped
<1> HIDE DEF bare
<1>4. \A v : /\ Cardinality(FollowersOf(bare, v)) \in Int
             /\ Cardinality(FollowedBy(bare, v)) \in Int
  BY CardinalitiesAreNumbers DEF FollowersOf, FollowedBy
<1>5. Kept(bare, followers)
  <2>1. \A e \in DOMAIN f : e[1] = "user" /\ Exists(bare, e)
    BY <1>2
  <2>2. \A e \in DOMAIN f : \E n \in Int : f[e] = [bare[e] EXCEPT !["followers"] = n]
    BY <1>4
  <2> HIDE DEF f
  <2> QED BY <1>3, <2>1, <2>2, UsersKept DEF UserCounters
<1>6. Kept(s, followers) /\ Typed(followers)
  <2> HIDE DEF followers
  <2> QED BY <1>3, <1>5, KeptTwice, KeptIsTyped
<1> HIDE DEF followers
<1>7. Kept(followers, end)
  <2>1. \A e \in DOMAIN g : e[1] = "user" /\ Exists(followers, e)
    BY <1>2
  <2>2. \A e \in DOMAIN g : \E n \in Int : g[e] = [followers[e] EXCEPT !["following"] = n]
    BY <1>4
  <2> HIDE DEF g
  <2> QED BY <1>6, <2>1, <2>2, UsersKept DEF UserCounters
<1> HIDE DEF end
<1> QED BY <1>1, <1>6, <1>7, KeptTwice

LEMMA InheritedKept ==
    ASSUME NEW s, NEW u, NEW heir, Typed(s)
    PROVE  Kept(s, Inherited(s, u, heir))
<1> DEFINE ks == {k \in Communities : heir[k] # None}
           f == [d \in {Community(k) : k \in ks} |-> [s[d] EXCEPT !.creator = heir[d[2]]]]
           passed == Replace(s, f)
           g == [d \in {Member(heir[k], k) : k \in ks} |-> "admin"]
           end == Replace(passed, g)
<1>1. Inherited(s, u, heir) = end
  BY DEF Inherited
<1>2. \A e \in DOMAIN f : e[1] = "community"
  BY NamesDiffer
<1>3. \A e \in DOMAIN g : e[1] = "member"
  BY NamesDiffer
<1> HIDE DEF f, g
<1>4. Kept(s, passed)
  BY <1>2, OthersKept
<1>5. Typed(passed)
  BY <1>4, KeptIsTyped
<1> HIDE DEF passed
<1>6. Kept(passed, end)
  BY <1>3, <1>5, OthersKept
<1> QED BY <1>1, <1>4, <1>6, KeptTwice

LEMMA WithoutCommunitiesOfKept ==
    ASSUME NEW s, NEW u, NEW heir, Typed(s)
    PROVE  Kept(s, WithoutCommunitiesOf(s, u, heir))
<1> DEFINE led == {k \in Communities : Exists(s, Community(k)) /\ s[Community(k)].creator = u}
           closed == {k \in led : heir[k] = None}
           passed == Inherited(s, u, heir)
           left == WithoutCommunities(passed, closed)
           f == [d \in {Member(u, k) : k \in Communities} |-> "none"]
           bare == Replace(left, f)
           affected == ({k \in Communities : s[Member(u, k)] # "none"} \cup led) \ closed
           docs == {e \in {Community(k) : k \in affected} : Exists(bare, e)}
           g == [d \in docs |-> [bare[d] EXCEPT !["members"] = Cardinality(MembersOf(bare, d[2]))]]
           end == Replace(bare, g)
<1>1. WithoutCommunitiesOf(s, u, heir) = end
  BY DEF WithoutCommunitiesOf, Recount
<1> HIDE DEF closed, affected
<1>2. Kept(s, passed) /\ Typed(passed)
  BY InheritedKept, KeptIsTyped
<1> HIDE DEF passed
<1>3. Kept(passed, left)
  BY <1>2, WithoutCommunitiesKept
<1>4. Kept(s, left) /\ Typed(left)
  BY <1>2, <1>3, KeptTwice, KeptIsTyped
<1>5. \A e \in DOMAIN f : e[1] = "member"
  BY NamesDiffer
<1> HIDE DEF left, f
<1>6. Kept(left, bare)
  BY <1>4, <1>5, OthersKept
<1>7. Kept(s, bare) /\ Typed(bare)
  BY <1>4, <1>6, KeptTwice, KeptIsTyped
<1> HIDE DEF bare
<1>8. \A e \in DOMAIN g : e[1] = "community"
  BY NamesDiffer
<1> HIDE DEF g
<1>9. Kept(bare, end)
  BY <1>7, <1>8, OthersKept
<1> QED BY <1>1, <1>7, <1>9, KeptTwice

\* What a purge does before it comes to the record of the account.
Emptied(s, u, heir) ==
    WithoutCommunitiesOf(WithoutRelationships(WithoutContent(s, u), u), u, heir)

LEMMA EmptiedKept ==
    ASSUME NEW s, NEW u, NEW heir, Typed(s)
    PROVE  Kept(s, Emptied(s, u, heir))
<1> DEFINE content == WithoutContent(s, u)
           alone == WithoutRelationships(content, u)
<1>1. Emptied(s, u, heir) = WithoutCommunitiesOf(alone, u, heir)
  BY DEF Emptied
<1>2. Kept(s, content) /\ Typed(content)
  BY WithoutContentKept, KeptIsTyped
<1> HIDE DEF content
<1>3. Kept(content, alone)
  BY <1>2, WithoutRelationshipsKept
<1>4. Kept(s, alone) /\ Typed(alone)
  BY <1>2, <1>3, KeptTwice, KeptIsTyped
<1> HIDE DEF alone
<1>5. Kept(alone, WithoutCommunitiesOf(alone, u, heir))
  BY <1>4, WithoutCommunitiesOfKept
<1> QED BY <1>1, <1>4, <1>5, KeptTwice

-----------------------------------------------------------------------------
(* Every transaction either leaves flags and views alone, or ends an       *)
(* account or its administration as well, or records a view.               *)

Ordinary(p) == \E t, touched : Commit(p, t, touched) /\ Kept(snap[p], t)

\* The account u becomes v, after everything else.
Ending(p, u, t, v, touched) ==
    /\ Kept(snap[p], t)
    /\ v \in Account \cup {Gone}
    /\ LeavesAnAdmin(snap[p], u)
    /\ IsActiveAdmin(snap[p], u) => Guard \in touched
    /\ User(u) \in Changed(snap[p], [t EXCEPT ![User(u)] = v]) \cup touched
    /\ Commit(p, [t EXCEPT ![User(u)] = v], touched)

LEMMA EngagementIsOrdinary ==
    ASSUME NEW p, Typed(snap[p]), EngagementStep(p)
    PROVE  Ordinary(p)
<1>1. ASSUME NEW u \in Users, NEW x \in Posts, LikePost(p, u, x) PROVE Ordinary(p)
  BY <1>1, ToggledKept DEF LikePost, Ordinary
<1>2. ASSUME NEW u \in Users, NEW c \in Comments, LikeComment(p, u, c) PROVE Ordinary(p)
  <2> DEFINE n == IF snap[p][CommentLike(u, c)] THEN -1 ELSE 1
             t == Increment([snap[p] EXCEPT ![CommentLike(u, c)] = ~@], Comment(c), "likes", n)
  <2>1. Commit(p, t, {})
    BY <1>2 DEF LikeComment
  <2>2. n \in Int
    OBVIOUS
  <2> HIDE DEF n
  <2>3. Kept(snap[p], t)
    BY <2>2, CommentLikedKept
  <2> HIDE DEF t
  <2> QED BY <2>1, <2>3 DEF Ordinary
<1>3. ASSUME NEW u \in Users, NEW v \in Users, NEW should \in BOOLEAN,
             SetFollowState(p, u, v, should)
      PROVE  Ordinary(p)
  <2> DEFINE n == IF should THEN 1 ELSE -1
  <2>1. Commit(p, Followed(snap[p], u, v, n), {})
    BY <1>3 DEF SetFollowState
  <2>2. n \in Int
    OBVIOUS
  <2> HIDE DEF n
  <2>3. Kept(snap[p], Followed(snap[p], u, v, n))
    BY <2>2, FollowedKept
  <2> QED BY <2>1, <2>3 DEF Ordinary
<1>4. ASSUME NEW c \in Comments, NEW x \in Posts, NEW b \in Comments \cup {None},
             NEW u \in Users, CreateComment(p, u, c, x, b)
      PROVE  Ordinary(p)
  BY <1>4, CommentedKept DEF CreateComment, Ordinary
<1>5. ASSUME NEW c \in Comments, DeleteComment(p, c) PROVE Ordinary(p)
  BY <1>5, WithoutCommentKept DEF DeleteComment, Ordinary
<1> QED BY <1>1, <1>2, <1>3, <1>4, <1>5 DEF EngagementStep

LEMMA PublishingIsOrdinary ==
    ASSUME NEW p, Typed(snap[p]), PublishingStep(p)
    PROVE  Ordinary(p)
<1>1. ASSUME NEW u \in Users, NEW y \in Posts, NEW k \in Communities \cup {None},
             CreatePendingPost(p, u, y, k)
      PROVE  Ordinary(p)
  BY <1>1, CreatedKept DEF CreatePendingPost, Ordinary
<1>2. ASSUME NEW u \in Users, NEW y \in Posts, NEW x \in Posts, RepostPost(p, u, y, x)
      PROVE  Ordinary(p)
  BY <1>2, RepostedKept DEF RepostPost, Ordinary
<1>3. ASSUME NEW y \in Posts, UnrepostPost(p, y) \/ DeletePost(p, y) PROVE Ordinary(p)
  BY <1>3, deletePostGraphKept DEF UnrepostPost, DeletePost, Ordinary
<1>4. ASSUME NEW y \in Posts, ActivatePendingPost(p, y) PROVE Ordinary(p)
  BY <1>4, ActivatedKept DEF ActivatePendingPost, IsPending, Ordinary
<1>5. ASSUME NEW y \in Posts, MarkPendingPostFailed(p, y) PROVE Ordinary(p)
  BY <1>5, FailedKept DEF MarkPendingPostFailed, IsPending, Ordinary
<1> QED BY <1>1, <1>2, <1>3, <1>4, <1>5 DEF PublishingStep, RequestEnds

LEMMA CommunityIsOrdinary ==
    ASSUME NEW p, Typed(snap[p]), CommunityStep(p)
    PROVE  Ordinary(p)
<1>1. ASSUME NEW u \in Users, NEW k \in Communities, CreateCommunity(p, u, k)
      PROVE  Ordinary(p)
  BY <1>1, CommunityCreatedKept DEF CreateCommunity, Ordinary
<1>2. ASSUME NEW u \in Users, NEW k \in Communities, JoinCommunity(p, u, k)
      PROVE  Ordinary(p)
  BY <1>2, AddedKept DEF JoinCommunity, Ordinary
<1>3. ASSUME NEW u \in Users, NEW k \in Communities, LeaveCommunity(p, u, k)
      PROVE  Ordinary(p)
  BY <1>3, DismissedKept DEF LeaveCommunity, Ordinary
<1>4. ASSUME NEW u \in Users, NEW k \in Communities, KickMember(p, u, k)
      PROVE  Ordinary(p)
  BY <1>4, DismissedKept DEF KickMember, Ordinary
<1>5. ASSUME NEW k \in Communities, DeleteCommunity(p, k) PROVE Ordinary(p)
  BY <1>5, WithoutCommunitiesKept DEF DeleteCommunity, Ordinary
<1> QED BY <1>1, <1>2, <1>3, <1>4, <1>5 DEF CommunityStep

LEMMA ShellIsAccount ==
    ASSUME NEW r \in Account
    PROVE  [r EXCEPT !.isBanned = TRUE, !.followers = 0, !.following = 0,
                     !.posts = 0, !.joined = {}] \in Account
<1> DEFINE r1 == [r EXCEPT !.isBanned = TRUE]
           r2 == [r1 EXCEPT !.followers = 0]
           r3 == [r2 EXCEPT !.following = 0]
           r4 == [r3 EXCEPT !.posts = 0]
           r5 == [r4 EXCEPT !.joined = {}]
<1>1. [r EXCEPT !.isBanned = TRUE, !.followers = 0, !.following = 0,
                !.posts = 0, !.joined = {}] = r5
  OBVIOUS
<1>2. r1 \in Account
  BY DEF Account
<1> HIDE DEF r1
<1>3. r2 \in Account
  BY <1>2 DEF Account
<1> HIDE DEF r2
<1>4. r3 \in Account
  BY <1>3 DEF Account
<1> HIDE DEF r3
<1>5. r4 \in Account
  BY <1>4 DEF Account
<1> HIDE DEF r4
<1>6. r5 \in Account
  BY <1>5 DEF Account
<1> QED BY <1>1, <1>6 DEF r1, r2, r3, r4

LEMMA PurgeIsEnding ==
    ASSUME NEW p, NEW u \in Users, NEW action, Typed(snap[p]), Purge(p, u, action)
    PROVE  \E t, v, touched : Ending(p, u, t, v, touched)
<1> DEFINE touched == {User(u)} \cup (IF IsActiveAdmin(snap[p], u) THEN touch ELSE {})
<1>1. PICK heir : Commit(p, purgeUser(snap[p], u, action, heir), touched)
  BY DEF Purge
<1> DEFINE t == Emptied(snap[p], u, heir)
           shell == [t[User(u)] EXCEPT !.isBanned = TRUE, !.followers = 0, !.following = 0,
                                       !.posts = 0, !.joined = {}]
           v == IF action = "ban" THEN shell ELSE Gone
<1>2. purgeUser(snap[p], u, action, heir) = [t EXCEPT ![User(u)] = v]
  BY DEF purgeUser, Finalized, Emptied
<1>3. Exists(snap[p], User(u)) /\ LeavesAnAdmin(snap[p], u)
  BY DEF Purge
<1>4. snap[p][User(u)] \in Account
  BY <1>3 DEF Typed, Exists
<1>5. Kept(snap[p], t)
  BY EmptiedKept
<1>6. t[User(u)] \in Account
  BY <1>4, <1>5 DEF Kept, SameFlags
<1> HIDE DEF t
<1>7. v \in Account \cup {Gone}
  <2>1. shell \in Account
    BY <1>6, ShellIsAccount
  <2> HIDE DEF shell
  <2> QED BY <2>1
<1> HIDE DEF v
<1>8. User(u) \in touched /\ (IsActiveAdmin(snap[p], u) => Guard \in touched)
  BY DEF touch
<1> HIDE DEF touched
<1>9. Ending(p, u, t, v, touched)
  BY <1>1, <1>2, <1>3, <1>5, <1>7, <1>8 DEF Ending
<1> QED BY <1>9

LEMMA DemotionIsEnding ==
    ASSUME NEW p, NEW u \in Users, Typed(snap[p]), DemoteFromAdmin(p, u)
    PROVE  \E t, v, touched : Ending(p, u, t, v, touched)
<1> DEFINE s == snap[p]
           v == [s[User(u)] EXCEPT !.isAdmin = FALSE]
<1>1. /\ Exists(s, User(u))
      /\ s[User(u)].isAdmin
      /\ LeavesAnAdmin(s, u)
      /\ Commit(p, [s EXCEPT ![User(u)] = v], touch)
  BY DEF DemoteFromAdmin
<1>2. s[User(u)] \in Account
  BY <1>1 DEF Typed, Exists
<1>3. v \in Account /\ v # s[User(u)]
  BY <1>1, <1>2 DEF Account
<1> HIDE DEF v
<1>4. User(u) \in Changed(s, [s EXCEPT ![User(u)] = v])
  BY <1>3, NamesInDocs DEF Changed, Typed
<1>5. Kept(s, s)
  BY KeptNothing
<1>6. Ending(p, u, s, v, touch)
  BY <1>1, <1>3, <1>4, <1>5 DEF Ending, touch
<1> QED BY <1>6

LEMMA AccountStepIsEnding ==
    ASSUME NEW p, Typed(snap[p]), AccountStep(p)
    PROVE  \E u \in Users : \E t, v, touched : Ending(p, u, t, v, touched)
BY PurgeIsEnding, DemotionIsEnding DEF AccountStep, BanUser, DeleteUser

-----------------------------------------------------------------------------
(* What a commit does to the database.                                     *)

TypedStores ==
    /\ Typed(db)
    /\ DOMAIN snap = Txns
    /\ \A p \in Txns : snap[p] # None => Typed(snap[p])

\* The parts of a commit, document by document.
LEMMA CommitIsExact ==
    ASSUME TypedStores, SnapshotsAreExact,
           NEW p \in Txns, NEW t, NEW touched, Typed(t), Commit(p, t, touched)
    PROVE  /\ snap[p] # None
           /\ DOMAIN db' = Docs
           /\ \A d \in Docs : snap[p][d] # t[d] => db[d] = snap[p][d] /\ db'[d] = t[d]
           /\ \A d \in Docs : snap[p][d] = t[d] => db'[d] = db[d]
           /\ \A d \in Docs \cap touched : db[d] = snap[p][d]
           /\ touched \cap missed[p] = {}
<1> DEFINE changed == Changed(snap[p], t)
<1>1. snap[p] # None /\ (changed \cup touched) \cap missed[p] = {}
  BY DEF Commit
<1>2. db' = [d \in DOMAIN db |-> IF d \in changed THEN t[d] ELSE db[d]]
  BY DEF Commit
<1>3. DOMAIN db = Docs /\ DOMAIN snap[p] = Docs
  BY <1>1 DEF TypedStores, Typed
<1>4. \A d \in Docs : d \in changed <=> snap[p][d] # t[d]
  BY <1>3 DEF Changed
<1>5. \A d \in Docs : d \notin missed[p] => snap[p][d] = db[d]
  BY <1>1, <1>3 DEF SnapshotsAreExact
<1> HIDE DEF changed
<1> QED BY <1>1, <1>2, <1>3, <1>4, <1>5

\* Who else is open afterwards and what he misses.
LEMMA CommitIsMissed ==
    ASSUME TypedStores, SnapshotsAreExact,
           NEW p \in Txns, NEW t, NEW touched, Typed(t), Commit(p, t, touched),
           NEW q \in Txns, snap'[q] # None
    PROVE  /\ q # p
           /\ snap'[q] = snap[q]
           /\ \A d \in Docs : snap[p][d] # t[d] => d \in missed'[q]
           /\ missed[q] \cup touched \subseteq missed'[q]
<1>1. snap' = [snap EXCEPT ![p] = None]
  BY DEF Commit
<1>2. q # p /\ snap'[q] = snap[q]
  BY <1>1 DEF TypedStores
<1>3. missed'[q] = missed[q] \cup (Changed(snap[p], t) \cup touched)
  BY <1>2 DEF Commit, Misses
<1>4. snap[p] # None
  BY DEF Commit
<1>5. \A d \in Docs : snap[p][d] # t[d] => d \in Changed(snap[p], t)
  BY <1>4 DEF Changed, TypedStores, Typed
<1> QED BY <1>2, <1>3, <1>5

LEMMA CommitKeepsStores ==
    ASSUME TypedStores, SnapshotsAreExact,
           NEW p \in Txns, NEW t, NEW touched, Typed(t), Commit(p, t, touched)
    PROVE  TypedStores' /\ SnapshotsAreExact'
<1>1. /\ DOMAIN db' = Docs
      /\ \A d \in Docs : db'[d] \in {t[d], db[d]}
      /\ \A d \in Docs : snap[p][d] = t[d] => db'[d] = db[d]
  BY CommitIsExact
<1>2. Typed(db')
  BY <1>1, NamesInDocs DEF TypedStores, Typed
<1>3. snap' = [snap EXCEPT ![p] = None]
  BY DEF Commit
<1>4. DOMAIN snap' = Txns
  BY <1>3 DEF TypedStores
<1>5. ASSUME NEW q \in Txns, snap'[q] # None
      PROVE  Typed(snap'[q]) /\ \A d \in Docs \ missed'[q] : snap'[q][d] = db'[d]
  <2>1. /\ snap'[q] = snap[q]
        /\ \A d \in Docs : snap[p][d] # t[d] => d \in missed'[q]
        /\ missed[q] \subseteq missed'[q]
    BY <1>5, CommitIsMissed
  <2>2. \A d \in Docs \ missed[q] : snap[q][d] = db[d]
    BY <1>5, <2>1 DEF SnapshotsAreExact, TypedStores, Typed
  <2>3. Typed(snap[q])
    BY <1>5, <2>1 DEF TypedStores
  <2> QED BY <1>1, <2>1, <2>2, <2>3
<1> QED BY <1>1, <1>2, <1>4, <1>5 DEF TypedStores, SnapshotsAreExact

LEMMA EndingIsTyped ==
    ASSUME NEW p, NEW u \in Users, NEW t, NEW v, NEW touched,
           Typed(snap[p]), Ending(p, u, t, v, touched)
    PROVE  Typed([t EXCEPT ![User(u)] = v])
<1> DEFINE w == [t EXCEPT ![User(u)] = v]
<1>1. Typed(t) /\ v \in Account \cup {Gone}
  BY KeptIsTyped DEF Ending
<1>2. DOMAIN w = Docs /\ \A e \in Docs : w[e] = IF e = User(u) THEN v ELSE t[e]
  BY <1>1 DEF Typed
<1>3. \A x \in Posts : Post(x) # User(u)
  BY NamesDiffer
<1> HIDE DEF w
<1>4. Typed(w)
  BY <1>1, <1>2, <1>3, NamesInDocs DEF Typed
<1> QED BY <1>4 DEF w

\* The record of a view and the counter of its post.
LEMMA SeenIs ==
    ASSUME NEW s, NEW u \in Users, NEW x \in Posts, Typed(s), ~s[View(u, x)]
    PROVE  LET t == Seen(s, u, x) IN
           /\ Typed(t)
           /\ t[View(u, x)] = TRUE
           /\ \A d \in Docs \ {View(u, x), Post(x)} : t[d] = s[d]
           /\ Exists(s, Post(x)) => /\ t[Post(x)] \in PostRecord
                                    /\ t[Post(x)].views = s[Post(x)].views + 1
           /\ ~Exists(s, Post(x)) => t[Post(x)] = s[Post(x)]
<1> DEFINE w == [s EXCEPT ![View(u, x)] = TRUE]
           r == s[Post(x)]
           q == [r EXCEPT !["views"] = r["views"] + 1]
           t == IF Exists(w, Post(x)) THEN [w EXCEPT ![Post(x)] = q] ELSE w
<1>1. /\ \A v \in Users : View(u, x) # User(v) /\ Post(x) # User(v)
      /\ \A y \in Posts : View(u, x) # Post(y)
  BY NamesDiffer
<1>2. DOMAIN w = Docs /\ \A d \in Docs : w[d] = IF d = View(u, x) THEN TRUE ELSE s[d]
  BY DEF Typed
<1>3. w[Post(x)] = r
  BY <1>1, <1>2, NamesInDocs
<1>4. Seen(s, u, x) = t
  BY <1>3 DEF Seen, Increment
<1>5. Exists(w, Post(x)) <=> Exists(s, Post(x))
  BY <1>3 DEF Exists
<1>6. Exists(s, Post(x)) => q \in PostRecord /\ q.views = r.views + 1
  <2> SUFFICES ASSUME Exists(s, Post(x)) PROVE q \in PostRecord /\ q.views = r.views + 1
    OBVIOUS
  <2>1. r \in PostRecord
    BY DEF Typed, Exists
  <2> HIDE DEF r
  <2> QED BY <2>1 DEF PostRecord
<1> HIDE DEF w, q
<1>7. /\ DOMAIN t = Docs
      /\ \A d \in Docs : t[d] = IF d = Post(x) /\ Exists(s, Post(x)) THEN q ELSE w[d]
  BY <1>2, <1>5
<1> HIDE DEF t
<1>8. Typed(t)
  BY <1>1, <1>2, <1>6, <1>7, NamesInDocs DEF Typed
<1> QED BY <1>1, <1>2, <1>4, <1>6, <1>7, <1>8, NamesInDocs

-----------------------------------------------------------------------------
(* The inductive invariant.  A transaction that did not miss the guard     *)
(* counted no administrator who has gone since: whoever removes an active  *)
(* one writes the guard, so all others miss it.  A deleted post stays so.  *)

AdminsAreKept ==
    \A p \in Txns : snap[p] # None /\ Guard \notin missed[p] =>
        ActiveAdmins(snap[p]) \subseteq ActiveAdmins(db)

GoneIsGone ==
    \A p \in Txns : snap[p] # None =>
        \A x \in Posts : snap[p][Post(x)] = Gone => db[Post(x)] = Gone

SocialInv ==
    /\ TypedStores
    /\ SnapshotsAreExact
    /\ AdminRemains
    /\ AdminsAreKept
    /\ GoneIsGone

LEMMA FlagsDecide ==
    ASSUME NEW s, NEW t, NEW u, SameFlags(s[User(u)], t[User(u)])
    PROVE  IsActiveAdmin(s, u) <=> IsActiveAdmin(t, u)
<1>1. CASE s[User(u)] = t[User(u)]
  BY <1>1 DEF IsActiveAdmin, Exists
<1>2. CASE s[User(u)] # t[User(u)]
  BY <1>2, MissingAssumption DEF SameFlags, IsActiveAdmin, Exists
<1> QED BY <1>1, <1>2

LEMMA CommitKeepsFlags ==
    ASSUME TypedStores, SnapshotsAreExact,
           NEW p \in Txns, NEW t, NEW touched, Typed(t), Commit(p, t, touched),
           NEW u \in Users, SameFlags(snap[p][User(u)], t[User(u)])
    PROVE  IsActiveAdmin(db, u) <=> IsActiveAdmin(db', u)
<1>1. SameFlags(db[User(u)], db'[User(u)])
  BY CommitIsExact, NamesInDocs, Unchanged
<1> QED BY <1>1, FlagsDecide

\* No transaction but the ends of accounts changes who is an administrator.
LEMMA CommitKeepsAdmins ==
    ASSUME SocialInv,
           NEW p \in Txns, NEW t, NEW touched, Typed(t), Commit(p, t, touched),
           \A u \in Users : SameFlags(snap[p][User(u)], t[User(u)])
    PROVE  AdminRemains' /\ AdminsAreKept'
<1>1. ActiveAdmins(db') = ActiveAdmins(db)
  BY CommitKeepsFlags DEF ActiveAdmins, SocialInv
<1>2. AdminRemains'
  BY <1>1 DEF SocialInv, AdminRemains
<1>3. ASSUME NEW q \in Txns, snap'[q] # None, Guard \notin missed'[q]
      PROVE  ActiveAdmins(snap'[q]) \subseteq ActiveAdmins(db')
  <2>1. snap'[q] = snap[q] /\ missed[q] \subseteq missed'[q]
    BY <1>3, CommitIsMissed DEF SocialInv
  <2> QED BY <1>1, <1>3, <2>1 DEF SocialInv, AdminsAreKept
<1> QED BY <1>2, <1>3 DEF AdminsAreKept

\* The end of an account.
LEMMA EndingKeepsAdmins ==
    ASSUME SocialInv,
           NEW p \in Txns, NEW u \in Users, NEW t, NEW v, NEW touched,
           Ending(p, u, t, v, touched)
    PROVE  AdminRemains' /\ AdminsAreKept'
<1> DEFINE w == [t EXCEPT ![User(u)] = v]
<1>1. /\ Commit(p, w, touched)
      /\ Kept(snap[p], t)
      /\ LeavesAnAdmin(snap[p], u)
      /\ IsActiveAdmin(snap[p], u) => Guard \in touched
      /\ User(u) \in Changed(snap[p], w) \cup touched
  BY DEF Ending
<1>2. snap[p] # None /\ Typed(snap[p])
  BY <1>1 DEF Commit, SocialInv, TypedStores
<1>3. Typed(w)
  BY <1>2, EndingIsTyped
<1>4. \A y \in Users \ {u} : SameFlags(snap[p][User(y)], w[User(y)])
  <2>1. \A y \in Users \ {u} : User(y) # User(u)
    BY NamesDiffer
  <2>2. DOMAIN t = Docs
    BY <1>1, <1>2 DEF Kept, Typed
  <2>3. \A y \in Users \ {u} : w[User(y)] = t[User(y)]
    BY <2>1, <2>2, NamesInDocs
  <2> QED BY <1>1, <2>3 DEF Kept
<1> HIDE DEF w
<1>5. \A y \in Users \ {u} : IsActiveAdmin(db, y) <=> IsActiveAdmin(db', y)
  BY <1>1, <1>3, <1>4, CommitKeepsFlags DEF SocialInv
<1>6. CASE IsActiveAdmin(snap[p], u)
  <2>1. Guard \in touched /\ Cardinality(ActiveAdmins(snap[p])) > 1
    BY <1>1, <1>6 DEF LeavesAnAdmin
  <2>2. Guard \notin missed[p]
    BY <1>1, <1>3, <2>1, CommitIsExact DEF SocialInv
  <2>3. ActiveAdmins(snap[p]) \subseteq ActiveAdmins(db)
    BY <1>2, <2>2 DEF SocialInv, AdminsAreKept
  <2>4. PICK y \in ActiveAdmins(snap[p]) : y # u
    <3>1. ActiveAdmins(snap[p]) # {u}
      <4>1. Cardinality({u}) = 1
        BY FS_Singleton
      <4> QED BY <2>1, <4>1
    <3>2. ActiveAdmins(snap[p]) # {}
      <4>1. Cardinality({}) = 0
        BY FS_EmptySet
      <4> QED BY <2>1, <4>1
    <3> QED BY <3>1, <3>2
  <2>5. y \in ActiveAdmins(db')
    BY <1>5, <2>3, <2>4 DEF ActiveAdmins
  <2>6. \A q \in Txns : snap'[q] # None => Guard \in missed'[q]
    BY <1>1, <1>3, <2>1, CommitIsMissed DEF SocialInv
  <2> QED BY <2>5, <2>6 DEF AdminRemains, AdminsAreKept
<1>7. CASE ~IsActiveAdmin(snap[p], u)
  <2>1. db[User(u)] = snap[p][User(u)]
    <3>1. CASE User(u) \in touched
      BY <1>1, <1>3, <3>1, CommitIsExact, NamesInDocs DEF SocialInv
    <3>2. CASE User(u) \in Changed(snap[p], w)
      <4>1. snap[p][User(u)] # w[User(u)]
        BY <3>2 DEF Changed
      <4> QED BY <1>1, <1>3, <4>1, CommitIsExact, NamesInDocs DEF SocialInv
    <3> QED BY <1>1, <3>1, <3>2
  <2>2. ~IsActiveAdmin(db, u)
    BY <1>7, <2>1 DEF IsActiveAdmin, Exists
  <2>3. ActiveAdmins(db) \subseteq ActiveAdmins(db')
    BY <1>5, <2>2 DEF ActiveAdmins
  <2>4. AdminRemains'
    BY <2>3 DEF SocialInv, AdminRemains
  <2>5. ASSUME NEW q \in Txns, snap'[q] # None, Guard \notin missed'[q]
        PROVE  ActiveAdmins(snap'[q]) \subseteq ActiveAdmins(db')
    <3>1. snap'[q] = snap[q] /\ missed[q] \subseteq missed'[q]
      BY <1>1, <1>3, <2>5, CommitIsMissed DEF SocialInv
    <3>2. ActiveAdmins(snap[q]) \subseteq ActiveAdmins(db)
      BY <2>5, <3>1 DEF SocialInv, AdminsAreKept
    <3> QED BY <2>3, <3>1, <3>2
  <2> QED BY <2>4, <2>5 DEF AdminsAreKept
<1> QED BY <1>6, <1>7

LEMMA CommitKeepsGone ==
    ASSUME SocialInv,
           NEW p \in Txns, NEW t, NEW touched, Typed(t), Commit(p, t, touched),
           \A x \in Posts : snap[p][Post(x)] = Gone => t[Post(x)] = Gone
    PROVE  GoneIsGone'
<1>1. \A x \in Posts : db[Post(x)] = Gone => db'[Post(x)] = Gone
  BY CommitIsExact, NamesInDocs DEF SocialInv
<1>2. \A q \in Txns : snap'[q] # None => snap'[q] = snap[q]
  BY CommitIsMissed DEF SocialInv
<1> QED BY <1>1, <1>2 DEF SocialInv, GoneIsGone

LEMMA KeptStaysGone ==
    ASSUME NEW s, NEW t, Kept(s, t), NEW x \in Posts, s[Post(x)] = Gone
    PROVE  t[Post(x)] = Gone
BY MissingAssumption DEF Kept, SameViews

-----------------------------------------------------------------------------
(* Every step keeps it.                                                    *)

LEMMA OrdinaryKeeps ==
    ASSUME SocialInv, NEW p \in Txns, Ordinary(p)
    PROVE  SocialInv'
<1>1. PICK t, touched : Commit(p, t, touched) /\ Kept(snap[p], t)
  BY DEF Ordinary
<1>2. snap[p] # None /\ Typed(snap[p])
  BY <1>1 DEF Commit, SocialInv, TypedStores
<1>3. Typed(t)
  BY <1>1, <1>2, KeptIsTyped
<1>4. TypedStores' /\ SnapshotsAreExact'
  BY <1>1, <1>3, CommitKeepsStores DEF SocialInv
<1>5. AdminRemains' /\ AdminsAreKept'
  BY <1>1, <1>3, CommitKeepsAdmins DEF Kept
<1>6. GoneIsGone'
  BY <1>1, <1>3, KeptStaysGone, CommitKeepsGone
<1> QED BY <1>4, <1>5, <1>6 DEF SocialInv

LEMMA EndingKeeps ==
    ASSUME SocialInv, NEW p \in Txns, NEW u \in Users, NEW t, NEW v, NEW touched,
           Ending(p, u, t, v, touched)
    PROVE  SocialInv'
<1> DEFINE w == [t EXCEPT ![User(u)] = v]
<1>1. Commit(p, w, touched) /\ Kept(snap[p], t)
  BY DEF Ending
<1>2. snap[p] # None /\ Typed(snap[p])
  BY <1>1 DEF Commit, SocialInv, TypedStores
<1>3. Typed(w)
  BY <1>2, EndingIsTyped
<1>4. TypedStores' /\ SnapshotsAreExact'
  BY <1>1, <1>3, CommitKeepsStores DEF SocialInv
<1>5. AdminRemains' /\ AdminsAreKept'
  BY EndingKeepsAdmins
<1>6. \A x \in Posts : w[Post(x)] = t[Post(x)]
  <2>1. \A x \in Posts : Post(x) # User(u)
    BY NamesDiffer
  <2>2. DOMAIN t = Docs
    BY <1>1, <1>2 DEF Kept, Typed
  <2> QED BY <2>1, <2>2, NamesInDocs
<1> HIDE DEF w
<1>7. GoneIsGone'
  BY <1>1, <1>3, <1>6, KeptStaysGone, CommitKeepsGone
<1> QED BY <1>4, <1>5, <1>7 DEF SocialInv

LEMMA SeenKeeps ==
    ASSUME SocialInv, NEW p \in Txns, ViewStep(p)
    PROVE  SocialInv'
<1>1. PICK u \in Users, x \in Posts : Commit(p, Seen(snap[p], u, x), {})
  BY DEF ViewStep, RecordPostView
<1> DEFINE t == Seen(snap[p], u, x)
<1>2. snap[p] # None /\ Typed(snap[p])
  BY <1>1 DEF Commit, SocialInv, TypedStores
<1>3. CASE snap[p][View(u, x)]
  <2>1. t = snap[p]
    BY <1>3 DEF Seen
  <2> QED BY <1>1, <2>1, KeptNothing, OrdinaryKeeps DEF Ordinary
<1>4. CASE ~snap[p][View(u, x)]
  <2>1. /\ Typed(t)
        /\ \A d \in Docs \ {View(u, x), Post(x)} : t[d] = snap[p][d]
        /\ ~Exists(snap[p], Post(x)) => t[Post(x)] = snap[p][Post(x)]
    BY <1>2, <1>4, SeenIs
  <2> HIDE DEF t
  <2>2. TypedStores' /\ SnapshotsAreExact'
    BY <1>1, <2>1, CommitKeepsStores DEF SocialInv, t
  <2>3. \A y \in Users : t[User(y)] = snap[p][User(y)]
    BY <2>1, NamesDiffer, NamesInDocs
  <2>4. AdminRemains' /\ AdminsAreKept'
    BY <1>1, <2>1, <2>3, Unchanged, CommitKeepsAdmins DEF t
  <2>5. \A y \in Posts : snap[p][Post(y)] = Gone => t[Post(y)] = Gone
    BY <2>1, NamesDiffer, NamesInDocs DEF Exists
  <2>6. GoneIsGone'
    BY <1>1, <2>1, <2>5, CommitKeepsGone DEF t
  <2> QED BY <2>2, <2>4, <2>6 DEF SocialInv
<1> QED BY <1>3, <1>4

LEMMA BeginKeeps ==
    ASSUME SocialInv, NEW p \in Txns, Begin(p)
    PROVE  SocialInv'
<1>1. /\ db' = db
      /\ snap' = [snap EXCEPT ![p] = db]
      /\ missed' = [missed EXCEPT ![p] = {}]
  BY DEF Begin
<1>2. DOMAIN snap' = Txns /\ \A q \in Txns : snap'[q] = IF q = p THEN db ELSE snap[q]
  BY <1>1 DEF SocialInv, TypedStores
<1>3. \A q \in Txns \ {p} : missed'[q] = missed[q]
  BY <1>1
<1>4. TypedStores'
  BY <1>1, <1>2 DEF SocialInv, TypedStores
<1>5. SnapshotsAreExact'
  BY <1>1, <1>2, <1>3 DEF SocialInv, SnapshotsAreExact
<1>6. AdminRemains'
  BY <1>1 DEF SocialInv, AdminRemains, ActiveAdmins, IsActiveAdmin, Exists
<1>7. ActiveAdmins(db') = ActiveAdmins(db)
  BY <1>1
<1>8. AdminsAreKept'
  BY <1>1, <1>2, <1>3, <1>7 DEF SocialInv, AdminsAreKept
<1>9. GoneIsGone'
  BY <1>1, <1>2 DEF SocialInv, GoneIsGone
<1> QED BY <1>4, <1>5, <1>6, <1>8, <1>9 DEF SocialInv

LEMMA AbortKeeps ==
    ASSUME SocialInv, NEW p \in Txns, Abort(p)
    PROVE  SocialInv'
<1>1. /\ db' = db
      /\ snap' = [snap EXCEPT ![p] = None]
      /\ missed' = [missed EXCEPT ![p] = {}]
  BY DEF Abort
<1>2. DOMAIN snap' = Txns /\ \A q \in Txns : snap'[q] = IF q = p THEN None ELSE snap[q]
  BY <1>1 DEF SocialInv, TypedStores
<1>3. \A q \in Txns \ {p} : missed'[q] = missed[q]
  BY <1>1
<1>4. TypedStores' /\ SnapshotsAreExact'
  BY <1>1, <1>2, <1>3 DEF SocialInv, TypedStores, SnapshotsAreExact
<1>5. ActiveAdmins(db') = ActiveAdmins(db)
  BY <1>1
<1>6. AdminRemains' /\ AdminsAreKept'
  BY <1>1, <1>2, <1>3, <1>5 DEF SocialInv, AdminRemains, AdminsAreKept
<1>7. GoneIsGone'
  BY <1>1, <1>2 DEF SocialInv, GoneIsGone
<1> QED BY <1>4, <1>6, <1>7 DEF SocialInv

\* Promotion and the end of a ban only make administrators.
LEMMA SingleUpdateIs ==
    ASSUME SocialInv, NEW u \in Users, SingleUpdate(u)
    PROVE  \E v \in Account : WriteAlone(User(u), v) /\ ~IsActiveAdmin(db, u)
<1>1. Exists(db, User(u))
  BY DEF SingleUpdate, PromoteToAdmin, UnbanUser
<1>2. db[User(u)] \in Account
  BY <1>1 DEF SocialInv, TypedStores, Typed, Exists
<1>3. CASE PromoteToAdmin(u)
  <2> DEFINE v == [db[User(u)] EXCEPT !.isAdmin = TRUE]
  <2>1. v \in Account
    BY <1>2 DEF Account
  <2>2. WriteAlone(User(u), v) /\ ~IsActiveAdmin(db, u)
    BY <1>3 DEF PromoteToAdmin, IsActiveAdmin
  <2> HIDE DEF v
  <2> QED BY <2>1, <2>2
<1>4. CASE UnbanUser(u)
  <2> DEFINE v == [db[User(u)] EXCEPT !.isBanned = FALSE]
  <2>1. v \in Account
    BY <1>2 DEF Account
  <2>2. WriteAlone(User(u), v) /\ ~IsActiveAdmin(db, u)
    BY <1>4 DEF UnbanUser, IsActiveAdmin
  <2> HIDE DEF v
  <2> QED BY <2>1, <2>2
<1> QED BY <1>3, <1>4 DEF SingleUpdate

LEMMA SingleUpdateKeeps ==
    ASSUME SocialInv, NEW u \in Users, SingleUpdate(u)
    PROVE  SocialInv'
<1>1. PICK v \in Account : WriteAlone(User(u), v) /\ ~IsActiveAdmin(db, u)
  BY SingleUpdateIs
<1>2. /\ db' = [db EXCEPT ![User(u)] = v]
      /\ missed' = [q \in Txns |-> IF snap[q] = None THEN {} ELSE missed[q] \cup {User(u)}]
      /\ snap' = snap
  BY <1>1 DEF WriteAlone
<1>3. DOMAIN db' = Docs /\ \A d \in Docs : db'[d] = IF d = User(u) THEN v ELSE db[d]
  BY <1>2 DEF SocialInv, TypedStores, Typed
<1>4. \A x \in Posts : Post(x) # User(u)
  BY NamesDiffer
<1>5. Typed(db')
  BY <1>3, <1>4, NamesInDocs DEF SocialInv, TypedStores, Typed
<1>6. TypedStores'
  BY <1>2, <1>5 DEF SocialInv, TypedStores
<1>7. ASSUME NEW q \in Txns, snap'[q] # None
      PROVE  snap[q] # None /\ missed'[q] = missed[q] \cup {User(u)}
  BY <1>2, <1>7
<1>8. SnapshotsAreExact'
  <2>1. ASSUME NEW q \in Txns, snap'[q] # None, NEW d \in Docs \ missed'[q]
        PROVE  snap'[q][d] = db'[d]
    <3>1. snap[q][d] = db[d] /\ d # User(u)
      BY <1>7, <2>1 DEF SocialInv, SnapshotsAreExact, TypedStores, Typed
    <3> QED BY <1>2, <1>3, <3>1
  <2> QED BY <1>3, <2>1 DEF SnapshotsAreExact
<1>9. ActiveAdmins(db) \subseteq ActiveAdmins(db')
  <2>1. ASSUME NEW y \in ActiveAdmins(db) PROVE y \in ActiveAdmins(db')
    <3>1. y \in Users /\ IsActiveAdmin(db, y) /\ y # u
      BY <1>1 DEF ActiveAdmins
    <3>2. User(y) # User(u)
      BY <3>1, NamesDiffer
    <3>3. db'[User(y)] = db[User(y)]
      BY <1>3, <3>1, <3>2, NamesInDocs
    <3>4. IsActiveAdmin(db', y)
      BY <3>1, <3>3 DEF IsActiveAdmin, Exists
    <3> QED BY <3>1, <3>4 DEF ActiveAdmins
  <2> QED BY <2>1
<1>10. AdminRemains' /\ AdminsAreKept'
  <2>1. AdminRemains'
    BY <1>9 DEF SocialInv, AdminRemains
  <2>2. AdminsAreKept'
    BY <1>2, <1>7, <1>9 DEF SocialInv, AdminsAreKept
  <2> QED BY <2>1, <2>2
<1>11. GoneIsGone'
  BY <1>2, <1>3, <1>4, NamesInDocs DEF SocialInv, GoneIsGone
<1> QED BY <1>6, <1>8, <1>10, <1>11 DEF SocialInv

LEMMA StoresUnchanged ==
    ASSUME SocialInv, UNCHANGED stores
    PROVE  SocialInv'
<1>1. db' = db /\ snap' = snap /\ missed' = missed
  BY DEF stores
<1>2. ActiveAdmins(db') = ActiveAdmins(db)
  BY <1>1
<1> QED BY <1>1, <1>2 DEF SocialInv, TypedStores, SnapshotsAreExact, AdminRemains,
                          AdminsAreKept, GoneIsGone

LEMMA InitHolds == Init => SocialInv
<1> SUFFICES ASSUME Init PROVE SocialInv
  OBVIOUS
<1>1. /\ IsDatabase(db)
      /\ ActiveAdmins(db) # {}
      /\ snap = [p \in Txns |-> None]
  BY StartsAssumption DEF Init
<1>2. /\ \A d \in UserDocs : d[1] = "user"
      /\ \A d \in PostDocs : d[1] = "post"
      /\ \A d \in CommentDocs : d[1] = "comment"
      /\ \A d \in CommunityDocs : d[1] = "community"
      /\ \A d \in MemberDocs : d[1] = "member"
  BY NamesDiffer DEF UserDocs, PostDocs, CommentDocs, CommunityDocs, MemberDocs
<1>3. \A u \in Users : TypeOfDoc(User(u)) = Account \cup {Unborn, Gone}
  <2>1. ASSUME NEW d \in UserDocs PROVE TypeOfDoc(d) = Account \cup {Unborn, Gone}
    <3>1. d \notin PostDocs /\ d \notin CommentDocs /\ d \notin CommunityDocs /\ d \notin MemberDocs
      BY <1>2
    <3> QED BY <3>1 DEF TypeOfDoc
  <2> QED BY <2>1 DEF UserDocs
<1>5. \A x \in Posts : TypeOfDoc(Post(x)) = PostRecord \cup {Unborn, Gone}
  <2>1. ASSUME NEW d \in PostDocs PROVE TypeOfDoc(d) = PostRecord \cup {Unborn, Gone}
    <3>1. d \notin UserDocs /\ d \notin CommentDocs /\ d \notin CommunityDocs /\ d \notin MemberDocs
      BY <1>2
    <3> QED BY <3>1 DEF TypeOfDoc
  <2> QED BY <2>1 DEF PostDocs
<1>4. Typed(db)
  BY <1>1, <1>3, <1>5, NamesInDocs DEF IsDatabase, Typed
<1> QED BY <1>1, <1>4 DEF SocialInv, TypedStores, SnapshotsAreExact, AdminRemains,
                          AdminsAreKept, GoneIsGone

\* A step is one of these.
LEMMA StepsAre ==
    ASSUME SocialInv, Next
    PROVE  \/ \E p \in Txns : Begin(p) \/ Abort(p) \/ Ordinary(p) \/ ViewStep(p)
           \/ \E p \in Txns, u \in Users : \E t, v, touched : Ending(p, u, t, v, touched)
           \/ \E u \in Users : SingleUpdate(u)
           \/ UNCHANGED stores
<1>1. ASSUME NEW p \in Txns, TransactionStep(p)
      PROVE  \/ Begin(p) \/ Abort(p) \/ Ordinary(p)
             \/ \E u \in Users : \E t, v, touched : Ending(p, u, t, v, touched)
  <2>1. CASE snap[p] = None
    <3>1. ~EngagementStep(p)
      BY <2>1 DEF EngagementStep, LikePost, LikeComment, SetFollowState, CreateComment,
                  DeleteComment
    <3>2. ~PublishingStep(p)
      BY <2>1 DEF PublishingStep, RequestEnds, CreatePendingPost, ActivatePendingPost,
                  MarkPendingPostFailed, RepostPost, UnrepostPost, DeletePost
    <3>3. ~CommunityStep(p)
      BY <2>1 DEF CommunityStep, CreateCommunity, JoinCommunity, LeaveCommunity,
                  KickMember, DeleteCommunity
    <3>4. ~AccountStep(p)
      BY <2>1 DEF AccountStep, BanUser, DeleteUser, DemoteFromAdmin
    <3> QED BY <1>1, <3>1, <3>2, <3>3, <3>4 DEF TransactionStep
  <2>2. CASE snap[p] # None
    <3>1. Typed(snap[p])
      BY <2>2 DEF SocialInv, TypedStores
    <3> QED BY <1>1, <3>1, EngagementIsOrdinary, PublishingIsOrdinary, CommunityIsOrdinary,
               AccountStepIsEnding DEF TransactionStep
  <2> QED BY <2>1, <2>2
<1> QED BY <1>1 DEF Next

LEMMA NextKeeps ==
    ASSUME SocialInv, [Next]_vars
    PROVE  SocialInv'
<1>1. CASE Next
  BY <1>1, StepsAre, BeginKeeps, AbortKeeps, OrdinaryKeeps, SeenKeeps, EndingKeeps,
     SingleUpdateKeeps, StoresUnchanged
<1>2. CASE UNCHANGED vars
  BY <1>2, StoresUnchanged DEF vars, stores
<1> QED BY <1>1, <1>2

THEOREM InvariantHolds == Spec => []SocialInv
<1>1. Init => SocialInv
  BY InitHolds
<1>2. SocialInv /\ [Next]_vars => SocialInv'
  BY NextKeeps
<1> QED BY <1>1, <1>2, PTL DEF Spec

-----------------------------------------------------------------------------
(* Theorems.                                                               *)

\* An open transaction reads the database as it is but for the documents the
\* model says it missed, so a commit that is let through has read what it
\* replaces: what every transaction of the repositories relies on.
THEOREM SnapshotsExact == Spec => []SnapshotsAreExact
<1>1. SocialInv => SnapshotsAreExact
  BY DEF SocialInv
<1> QED BY <1>1, InvariantHolds, PTL

\* Whatever bans, deletions and demotions overlap, an active administrator
\* remains (AdminRemovalGuard).
THEOREM SomeAdminRemains == Spec => []AdminRemains
<1>1. SocialInv => AdminRemains
  BY DEF SocialInv
<1> QED BY <1>1, InvariantHolds, PTL


-----------------------------------------------------------------------------
(* Views.                                                                  *)

ViewsAreCounted(x) ==
    Exists(db, Post(x)) /\ Exists(db', Post(x)) =>
        db'[Post(x)].views - db[Post(x)].views = Cardinality(NewViews(x))

LEMMA QuietViews ==
    ASSUME NEW x \in Posts, Typed(db), SameViews(db[Post(x)], db'[Post(x)]),
           \A u \in Users : db'[View(u, x)] \in {db[View(u, x)], FALSE}
    PROVE  ViewsAreCounted(x)
<1> SUFFICES ASSUME Exists(db, Post(x)), Exists(db', Post(x))
             PROVE  db'[Post(x)].views - db[Post(x)].views = Cardinality(NewViews(x))
  BY DEF ViewsAreCounted
<1>1. NewViews(x) = {}
  BY DEF NewViews
<1>2. Cardinality(NewViews(x)) = 0
  BY <1>1, FS_EmptySet
<1>3. db[Post(x)] \in PostRecord
  BY DEF Typed, Exists
<1>4. db'[Post(x)].views = db[Post(x)].views
  BY <1>3 DEF SameViews, Exists
<1>5. db[Post(x)].views \in Int
  BY <1>3 DEF PostRecord
<1> QED BY <1>2, <1>4, <1>5

\* A commit that leaves the views of a post alone.
LEMMA QuietCommit ==
    ASSUME SocialInv,
           NEW p \in Txns, NEW t, NEW touched, Typed(t), Commit(p, t, touched),
           NEW x \in Posts, SameViews(snap[p][Post(x)], t[Post(x)]),
           \A u \in Users : t[View(u, x)] \in {snap[p][View(u, x)], FALSE}
    PROVE  ViewsAreCounted(x)
<1>1. SameViews(db[Post(x)], db'[Post(x)])
  BY CommitIsExact, NamesInDocs, Unchanged DEF SocialInv
<1>2. ASSUME NEW u \in Users PROVE db'[View(u, x)] \in {db[View(u, x)], FALSE}
  <2>1. View(u, x) \in Docs
    BY NamesInDocs
  <2>2. CASE snap[p][View(u, x)] = t[View(u, x)]
    BY <2>1, <2>2, CommitIsExact DEF SocialInv
  <2>3. CASE snap[p][View(u, x)] # t[View(u, x)]
    <3>1. db'[View(u, x)] = t[View(u, x)]
      BY <2>1, <2>3, CommitIsExact DEF SocialInv
    <3>2. t[View(u, x)] = FALSE
      BY <2>3
    <3> QED BY <3>1, <3>2
  <2> QED BY <2>2, <2>3
<1>3. Typed(db)
  BY DEF SocialInv, TypedStores
<1> QED BY <1>1, <1>2, <1>3, QuietViews

LEMMA OrdinaryIsQuiet ==
    ASSUME SocialInv, NEW p \in Txns, Ordinary(p), NEW x \in Posts
    PROVE  ViewsAreCounted(x)
<1>1. PICK t, touched : Commit(p, t, touched) /\ Kept(snap[p], t)
  BY DEF Ordinary
<1>2. Typed(snap[p])
  BY <1>1 DEF Commit, SocialInv, TypedStores
<1>3. Typed(t)
  BY <1>1, <1>2, KeptIsTyped
<1> QED BY <1>1, <1>3, QuietCommit DEF Kept

LEMMA EndingIsQuiet ==
    ASSUME SocialInv, NEW p \in Txns, NEW u \in Users, NEW t, NEW v, NEW touched,
           Ending(p, u, t, v, touched), NEW x \in Posts
    PROVE  ViewsAreCounted(x)
<1> DEFINE w == [t EXCEPT ![User(u)] = v]
<1>1. Commit(p, w, touched) /\ Kept(snap[p], t)
  BY DEF Ending
<1>2. Typed(snap[p])
  BY <1>1 DEF Commit, SocialInv, TypedStores
<1>3. Typed(w)
  BY <1>2, EndingIsTyped
<1>4. w[Post(x)] = t[Post(x)] /\ \A y \in Users : w[View(y, x)] = t[View(y, x)]
  <2>1. Post(x) # User(u) /\ \A y \in Users : View(y, x) # User(u)
    BY NamesDiffer
  <2>2. DOMAIN t = Docs
    BY <1>1, <1>2 DEF Kept, Typed
  <2> QED BY <2>1, <2>2, NamesInDocs
<1> HIDE DEF w
<1>5. SameViews(snap[p][Post(x)], w[Post(x)])
  BY <1>1, <1>4 DEF Kept
<1>6. \A y \in Users : w[View(y, x)] \in {snap[p][View(y, x)], FALSE}
  BY <1>1, <1>4 DEF Kept
<1> QED BY <1>1, <1>3, <1>5, <1>6, QuietCommit

LEMMA ViewIsCounted ==
    ASSUME SocialInv, NEW p \in Txns, ViewStep(p), NEW y \in Posts
    PROVE  ViewsAreCounted(y)
<1>1. PICK u \in Users, x \in Posts :
          Commit(p, Seen(snap[p], u, x), {}) /\ WasFound(snap[p], Post(x))
  BY DEF ViewStep, RecordPostView
<1> DEFINE s == snap[p]
           t == Seen(s, u, x)
<1>2. s # None /\ Typed(s) /\ Typed(db)
  BY <1>1 DEF Commit, SocialInv, TypedStores
<1>3. CASE s[View(u, x)]
  <2>1. t = s
    BY <1>3 DEF Seen
  <2> QED BY <1>1, <2>1, KeptNothing, OrdinaryIsQuiet DEF Ordinary
<1>4. CASE ~s[View(u, x)]
  <2>1. /\ Typed(t)
        /\ t[View(u, x)] = TRUE
        /\ \A d \in Docs \ {View(u, x), Post(x)} : t[d] = s[d]
        /\ Exists(s, Post(x)) => /\ t[Post(x)] \in PostRecord
                                 /\ t[Post(x)].views = s[Post(x)].views + 1
        /\ ~Exists(s, Post(x)) => t[Post(x)] = s[Post(x)]
    BY <1>2, <1>4, SeenIs
  <2>2. Commit(p, t, {})
    BY <1>1
  <2> HIDE DEF t
  <2>3. CASE y # x
    <3>1. Post(y) # Post(x) /\ \A v \in Users : View(v, y) # View(u, x)
      BY <2>3, NamesDiffer
    <3>2. Post(y) # View(u, x) /\ \A v \in Users : View(v, y) # Post(x)
      BY NamesDiffer
    <3>3. t[Post(y)] = s[Post(y)] /\ \A v \in Users : t[View(v, y)] = s[View(v, y)]
      BY <2>1, <3>1, <3>2, NamesInDocs
    <3>4. SameViews(s[Post(y)], t[Post(y)])
      BY <3>3, Unchanged
    <3>5. \A v \in Users : t[View(v, y)] \in {s[View(v, y)], FALSE}
      BY <3>3
    <3> QED BY <2>1, <2>2, <3>4, <3>5, QuietCommit
  <2>4. CASE y = x
    <3> SUFFICES ASSUME Exists(db, Post(x)), Exists(db', Post(x))
                 PROVE  db'[Post(x)].views - db[Post(x)].views = Cardinality(NewViews(x))
      BY <2>4 DEF ViewsAreCounted
    <3>1. ~db[View(u, x)] /\ db'[View(u, x)] = TRUE
      BY <1>4, <2>1, <2>2, CommitIsExact, NamesInDocs DEF SocialInv
    <3>2. \A v \in Users \ {u} : db'[View(v, x)] = db[View(v, x)]
      <4>1. \A v \in Users \ {u} : View(v, x) # View(u, x) /\ View(v, x) # Post(x)
        BY NamesDiffer
      <4>2. \A v \in Users \ {u} : t[View(v, x)] = s[View(v, x)]
        BY <2>1, <4>1, NamesInDocs
      <4> QED BY <2>1, <2>2, <4>2, CommitIsExact, NamesInDocs DEF SocialInv
    <3>3. NewViews(x) = {u}
      BY <3>1, <3>2 DEF NewViews
    <3>4. Cardinality(NewViews(x)) = 1
      BY <3>3, FS_Singleton
    <3>5. Exists(s, Post(x))
      <4>1. s[Post(x)] # Unborn
        BY <1>1 DEF WasFound
      <4>2. s[Post(x)] # Gone
        BY <1>2 DEF SocialInv, GoneIsGone, Exists
      <4> QED BY <4>1, <4>2 DEF Exists
    <3>6. s[Post(x)] \in PostRecord
      BY <1>2, <3>5 DEF Typed, Exists
    <3>7. s[Post(x)].views \in Int
      BY <3>6 DEF PostRecord
    <3>8. t[Post(x)] # s[Post(x)]
      BY <2>1, <3>5, <3>7
    <3>9. db[Post(x)] = s[Post(x)] /\ db'[Post(x)] = t[Post(x)]
      BY <2>1, <2>2, <3>8, CommitIsExact, NamesInDocs DEF SocialInv
    <3>10. db'[Post(x)].views = db[Post(x)].views + 1 /\ db[Post(x)].views \in Int
      BY <2>1, <3>5, <3>7, <3>9
    <3> QED BY <3>4, <3>10
  <2> QED BY <2>3, <2>4
<1> QED BY <1>3, <1>4

LEMMA StepCountsViews ==
    ASSUME SocialInv, Next, NEW x \in Posts
    PROVE  ViewsAreCounted(x)
<1>1. CASE db' = db
  <2>1. SameViews(db[Post(x)], db'[Post(x)])
    BY <1>1, Unchanged
  <2> QED BY <1>1, <2>1, QuietViews DEF SocialInv, TypedStores
<1>2. ASSUME NEW u \in Users, SingleUpdate(u) PROVE ViewsAreCounted(x)
  <2>1. PICK v \in Account : WriteAlone(User(u), v)
    BY <1>2, SingleUpdateIs
  <2>2. db' = [db EXCEPT ![User(u)] = v]
    BY <2>1 DEF WriteAlone
  <2>3. Post(x) # User(u) /\ \A y \in Users : View(y, x) # User(u)
    BY NamesDiffer
  <2>4. Typed(db)
    BY DEF SocialInv, TypedStores
  <2>5. db'[Post(x)] = db[Post(x)] /\ \A y \in Users : db'[View(y, x)] = db[View(y, x)]
    BY <2>2, <2>3, <2>4, NamesInDocs DEF Typed
  <2> QED BY <2>4, <2>5, Unchanged, QuietViews
<1>3. ASSUME NEW p \in Txns, Begin(p) \/ Abort(p) PROVE db' = db
  BY <1>3 DEF Begin, Abort
<1>4. UNCHANGED stores => db' = db
  BY DEF stores
<1> QED BY <1>1, <1>2, <1>3, <1>4, StepsAre, OrdinaryIsQuiet, EndingIsQuiet, ViewIsCounted

\* Two requests of one user for one post, a transaction that runs again and a
\* filter that was wrong count one view: the counter grows by exactly the
\* view documents that appear (RecordPostViewCommandHandler).
THEOREM ViewsCountedOnce == Spec => ViewsAreCountedOnce
<1>1. SocialInv /\ [Next]_vars =>
          [\A x \in Posts : Exists(db, Post(x)) /\ Exists(db', Post(x)) =>
             db'[Post(x)].views - db[Post(x)].views = Cardinality(NewViews(x))]_vars
  BY StepCountsViews DEF ViewsAreCounted
<1> QED BY <1>1, InvariantHolds, PTL DEF Spec, ViewsAreCountedOnce

-----------------------------------------------------------------------------
(* Counters.  A tally is a counter together with what it counts: the field *)
(* of one document, its owner, and a set of things, each of which is       *)
(* counted or not for what one document, its source, says.                 *)

PostTallies == {"likes", "comments", "reposts"} \X Posts
CommentTallies == {"commentlikes", "replies"} \X Comments
UserTallies == {"followers", "following"} \X Users
CommunityTallies == {"posts", "members"} \X Communities
Tallies == PostTallies \cup CommentTallies \cup UserTallies \cup CommunityTallies

Owner(t) ==
    CASE t[1] \in {"likes", "comments", "reposts"} -> Post(t[2])
      [] t[1] \in {"commentlikes", "replies"} -> Comment(t[2])
      [] t[1] \in {"followers", "following"} -> User(t[2])
      [] OTHER -> Community(t[2])

Field(t) == IF t[1] = "commentlikes" THEN "likes" ELSE t[1]

Things(t) ==
    CASE t[1] \in {"likes", "commentlikes", "members"} -> Users
      [] t[1] \in {"followers", "following"} -> Users \ {t[2]}
      [] t[1] \in {"comments", "replies"} -> Comments
      [] OTHER -> Posts

Source(t, i) ==
    CASE t[1] = "likes" -> Like(i, t[2])
      [] t[1] = "commentlikes" -> CommentLike(i, t[2])
      [] t[1] = "followers" -> Follow(i, t[2])
      [] t[1] = "following" -> Follow(t[2], i)
      [] t[1] = "members" -> Member(i, t[2])
      [] t[1] \in {"comments", "replies"} -> Comment(i)
      [] OTHER -> Post(i)

\* A source that says r is counted for t.
Counts(t, r) ==
    CASE t[1] \in {"likes", "commentlikes", "followers", "following"} -> r = TRUE
      [] t[1] = "members" -> r # "none"
      [] t[1] = "comments" -> r \notin {Unborn, Gone} /\ r.post = t[2]
      [] t[1] = "replies" -> r \notin {Unborn, Gone} /\ r.parent = t[2]
      [] t[1] = "reposts" ->
           r \notin {Unborn, Gone} /\ r.of = t[2] /\ r.status = "active"
      [] OTHER ->
           r \notin {Unborn, Gone} /\ r.community = t[2] /\ r.status = "active"

Counted(s, t) == {i \in Things(t) : Counts(t, s[Source(t, i)])}

\* The counter is right; nothing is counted for an unborn owner.
IsRight(s, t) ==
    Exists(s, Owner(t)) => s[Owner(t)][Field(t)] = Cardinality(Counted(s, t))
IsUnused(s, t) == s[Owner(t)] = Unborn => Counted(s, t) = {}

\* What every database must be for the counters to stay right.
Consistent(s) ==
    /\ IsDatabase(s)
    /\ \A t \in Tallies : IsRight(s, t) /\ IsUnused(s, t)
    /\ AnswersStayInPost(s)
    /\ PostsAreSound(s)
    /\ AdminIsCreator(s)

\* The nine kinds of tallies.
LEMMA PostLikesTally ==
    ASSUME NEW x \in Posts, NEW t, t = <<"likes", x>>
    PROVE  /\ t \in Tallies
           /\ Owner(t) = Post(x)
           /\ Field(t) = "likes"
           /\ Things(t) = Users
           /\ \A i : Source(t, i) = Like(i, x)
           /\ \A r : Counts(t, r) <=> r = TRUE
           /\ \A s : Counted(s, t) = LikesOf(s, x)
<1>1. t[1] = "likes" /\ t[2] = x
  OBVIOUS
<1>2. t \in PostTallies
  BY DEF PostTallies
<1>3. /\ Owner(t) = Post(x)
      /\ Field(t) = "likes"
      /\ Things(t) = Users
      /\ \A i : Source(t, i) = Like(i, x)
  BY <1>1 DEF Owner, Field, Things, Source
<1>4. \A r : Counts(t, r) <=> r = TRUE
  BY <1>1 DEF Counts
<1>5. ASSUME NEW s PROVE Counted(s, t) = LikesOf(s, x)
  BY <1>3, <1>4 DEF Counted, LikesOf
<1> QED BY <1>2, <1>3, <1>4, <1>5 DEF Tallies

LEMMA PostCommentsTally ==
    ASSUME NEW x \in Posts, NEW t, t = <<"comments", x>>
    PROVE  /\ t \in Tallies
           /\ Owner(t) = Post(x)
           /\ Field(t) = "comments"
           /\ Things(t) = Comments
           /\ \A i : Source(t, i) = Comment(i)
           /\ \A r : Counts(t, r) <=> r \notin {Unborn, Gone} /\ r.post = x
           /\ \A s : Counted(s, t) = CommentsOf(s, x)
<1>1. t[1] = "comments" /\ t[2] = x
  OBVIOUS
<1>2. t \in PostTallies
  BY DEF PostTallies
<1>3. /\ Owner(t) = Post(x)
      /\ Field(t) = "comments"
      /\ Things(t) = Comments
      /\ \A i : Source(t, i) = Comment(i)
  BY <1>1 DEF Owner, Field, Things, Source
<1>4. \A r : Counts(t, r) <=> r \notin {Unborn, Gone} /\ r.post = x
  BY <1>1 DEF Counts
<1>5. ASSUME NEW s PROVE Counted(s, t) = CommentsOf(s, x)
  BY <1>3, <1>4 DEF Counted, CommentsOf, CommentsThat, Exists
<1> QED BY <1>2, <1>3, <1>4, <1>5 DEF Tallies

LEMMA RepostsTally ==
    ASSUME NEW x \in Posts, NEW t, t = <<"reposts", x>>
    PROVE  /\ t \in Tallies
           /\ Owner(t) = Post(x)
           /\ Field(t) = "reposts"
           /\ Things(t) = Posts
           /\ \A i : Source(t, i) = Post(i)
           /\ \A r : Counts(t, r) <=>
               r \notin {Unborn, Gone} /\ r.of = x /\ r.status = "active"
           /\ \A s : Counted(s, t) = RepostsOf(s, x)
<1>1. t[1] = "reposts" /\ t[2] = x
  OBVIOUS
<1>2. t \in PostTallies
  BY DEF PostTallies
<1>3. /\ Owner(t) = Post(x)
      /\ Field(t) = "reposts"
      /\ Things(t) = Posts
      /\ \A i : Source(t, i) = Post(i)
  BY <1>1 DEF Owner, Field, Things, Source
<1>4. \A r : Counts(t, r) <=>
               r \notin {Unborn, Gone} /\ r.of = x /\ r.status = "active"
  BY <1>1 DEF Counts
<1>5. ASSUME NEW s PROVE Counted(s, t) = RepostsOf(s, x)
  BY <1>3, <1>4 DEF Counted, RepostsOf, PostsThat, Exists
<1> QED BY <1>2, <1>3, <1>4, <1>5 DEF Tallies

LEMMA CommentLikesTally ==
    ASSUME NEW c \in Comments, NEW t, t = <<"commentlikes", c>>
    PROVE  /\ t \in Tallies
           /\ Owner(t) = Comment(c)
           /\ Field(t) = "likes"
           /\ Things(t) = Users
           /\ \A i : Source(t, i) = CommentLike(i, c)
           /\ \A r : Counts(t, r) <=> r = TRUE
           /\ \A s : Counted(s, t) = CommentLikesOf(s, c)
<1>1. t[1] = "commentlikes" /\ t[2] = c
  OBVIOUS
<1>2. t \in CommentTallies
  BY DEF CommentTallies
<1>3. /\ Owner(t) = Comment(c)
      /\ Field(t) = "likes"
      /\ Things(t) = Users
      /\ \A i : Source(t, i) = CommentLike(i, c)
  BY <1>1 DEF Owner, Field, Things, Source
<1>4. \A r : Counts(t, r) <=> r = TRUE
  BY <1>1 DEF Counts
<1>5. ASSUME NEW s PROVE Counted(s, t) = CommentLikesOf(s, c)
  BY <1>3, <1>4 DEF Counted, CommentLikesOf
<1> QED BY <1>2, <1>3, <1>4, <1>5 DEF Tallies

LEMMA RepliesTally ==
    ASSUME NEW c \in Comments, NEW t, t = <<"replies", c>>
    PROVE  /\ t \in Tallies
           /\ Owner(t) = Comment(c)
           /\ Field(t) = "replies"
           /\ Things(t) = Comments
           /\ \A i : Source(t, i) = Comment(i)
           /\ \A r : Counts(t, r) <=> r \notin {Unborn, Gone} /\ r.parent = c
           /\ \A s : Counted(s, t) = RepliesTo(s, c)
<1>1. t[1] = "replies" /\ t[2] = c
  OBVIOUS
<1>2. t \in CommentTallies
  BY DEF CommentTallies
<1>3. /\ Owner(t) = Comment(c)
      /\ Field(t) = "replies"
      /\ Things(t) = Comments
      /\ \A i : Source(t, i) = Comment(i)
  BY <1>1 DEF Owner, Field, Things, Source
<1>4. \A r : Counts(t, r) <=> r \notin {Unborn, Gone} /\ r.parent = c
  BY <1>1 DEF Counts
<1>5. ASSUME NEW s PROVE Counted(s, t) = RepliesTo(s, c)
  BY <1>3, <1>4 DEF Counted, RepliesTo, CommentsThat, Exists
<1> QED BY <1>2, <1>3, <1>4, <1>5 DEF Tallies

LEMMA FollowersTally ==
    ASSUME NEW u \in Users, NEW t, t = <<"followers", u>>
    PROVE  /\ t \in Tallies
           /\ Owner(t) = User(u)
           /\ Field(t) = "followers"
           /\ Things(t) = Users \ {u}
           /\ \A i : Source(t, i) = Follow(i, u)
           /\ \A r : Counts(t, r) <=> r = TRUE
           /\ \A s : Counted(s, t) = FollowersOf(s, u)
<1>1. t[1] = "followers" /\ t[2] = u
  OBVIOUS
<1>2. t \in UserTallies
  BY DEF UserTallies
<1>3. /\ Owner(t) = User(u)
      /\ Field(t) = "followers"
      /\ Things(t) = Users \ {u}
      /\ \A i : Source(t, i) = Follow(i, u)
  BY <1>1 DEF Owner, Field, Things, Source
<1>4. \A r : Counts(t, r) <=> r = TRUE
  BY <1>1 DEF Counts
<1>5. ASSUME NEW s PROVE Counted(s, t) = FollowersOf(s, u)
  BY <1>3, <1>4 DEF Counted, FollowersOf
<1> QED BY <1>2, <1>3, <1>4, <1>5 DEF Tallies

LEMMA FollowingTally ==
    ASSUME NEW u \in Users, NEW t, t = <<"following", u>>
    PROVE  /\ t \in Tallies
           /\ Owner(t) = User(u)
           /\ Field(t) = "following"
           /\ Things(t) = Users \ {u}
           /\ \A i : Source(t, i) = Follow(u, i)
           /\ \A r : Counts(t, r) <=> r = TRUE
           /\ \A s : Counted(s, t) = FollowedBy(s, u)
<1>1. t[1] = "following" /\ t[2] = u
  OBVIOUS
<1>2. t \in UserTallies
  BY DEF UserTallies
<1>3. /\ Owner(t) = User(u)
      /\ Field(t) = "following"
      /\ Things(t) = Users \ {u}
      /\ \A i : Source(t, i) = Follow(u, i)
  BY <1>1 DEF Owner, Field, Things, Source
<1>4. \A r : Counts(t, r) <=> r = TRUE
  BY <1>1 DEF Counts
<1>5. ASSUME NEW s PROVE Counted(s, t) = FollowedBy(s, u)
  BY <1>3, <1>4 DEF Counted, FollowedBy
<1> QED BY <1>2, <1>3, <1>4, <1>5 DEF Tallies

LEMMA CommunityPostsTally ==
    ASSUME NEW k \in Communities, NEW t, t = <<"posts", k>>
    PROVE  /\ t \in Tallies
           /\ Owner(t) = Community(k)
           /\ Field(t) = "posts"
           /\ Things(t) = Posts
           /\ \A i : Source(t, i) = Post(i)
           /\ \A r : Counts(t, r) <=>
               r \notin {Unborn, Gone} /\ r.community = k /\ r.status = "active"
           /\ \A s : Counted(s, t) = PostsIn(s, k)
<1>1. t[1] = "posts" /\ t[2] = k
  OBVIOUS
<1>2. t \in CommunityTallies
  BY DEF CommunityTallies
<1>3. /\ Owner(t) = Community(k)
      /\ Field(t) = "posts"
      /\ Things(t) = Posts
      /\ \A i : Source(t, i) = Post(i)
  BY <1>1 DEF Owner, Field, Things, Source
<1>4. \A r : Counts(t, r) <=>
               r \notin {Unborn, Gone} /\ r.community = k /\ r.status = "active"
  BY <1>1 DEF Counts
<1>5. ASSUME NEW s PROVE Counted(s, t) = PostsIn(s, k)
  BY <1>3, <1>4 DEF Counted, PostsIn, PostsThat, Exists
<1> QED BY <1>2, <1>3, <1>4, <1>5 DEF Tallies

LEMMA MembersTally ==
    ASSUME NEW k \in Communities, NEW t, t = <<"members", k>>
    PROVE  /\ t \in Tallies
           /\ Owner(t) = Community(k)
           /\ Field(t) = "members"
           /\ Things(t) = Users
           /\ \A i : Source(t, i) = Member(i, k)
           /\ \A r : Counts(t, r) <=> r # "none"
           /\ \A s : Counted(s, t) = MembersOf(s, k)
<1>1. t[1] = "members" /\ t[2] = k
  OBVIOUS
<1>2. t \in CommunityTallies
  BY DEF CommunityTallies
<1>3. /\ Owner(t) = Community(k)
      /\ Field(t) = "members"
      /\ Things(t) = Users
      /\ \A i : Source(t, i) = Member(i, k)
  BY <1>1 DEF Owner, Field, Things, Source
<1>4. \A r : Counts(t, r) <=> r # "none"
  BY <1>1 DEF Counts
<1>5. ASSUME NEW s PROVE Counted(s, t) = MembersOf(s, k)
  BY <1>3, <1>4 DEF Counted, MembersOf
<1> QED BY <1>2, <1>3, <1>4, <1>5 DEF Tallies

\* Every tally is one of nine kinds.
LEMMA EveryTally ==
    ASSUME NEW t \in Tallies
    PROVE  \/ \E x \in Posts : \/ t = <<"likes", x>>
                               \/ t = <<"comments", x>>
                               \/ t = <<"reposts", x>>
           \/ \E c \in Comments : t = <<"commentlikes", c>> \/ t = <<"replies", c>>
           \/ \E u \in Users : t = <<"followers", u>> \/ t = <<"following", u>>
           \/ \E k \in Communities : t = <<"posts", k>> \/ t = <<"members", k>>
<1>1. ASSUME t \in PostTallies PROVE \E x \in Posts : \/ t = <<"likes", x>>
                                                      \/ t = <<"comments", x>>
                                                      \/ t = <<"reposts", x>>
  BY <1>1 DEF PostTallies
<1>2. ASSUME t \in CommentTallies
      PROVE  \E c \in Comments : t = <<"commentlikes", c>> \/ t = <<"replies", c>>
  BY <1>2 DEF CommentTallies
<1>3. ASSUME t \in UserTallies
      PROVE  \E u \in Users : t = <<"followers", u>> \/ t = <<"following", u>>
  BY <1>3 DEF UserTallies
<1>4. ASSUME t \in CommunityTallies
      PROVE  \E k \in Communities : t = <<"posts", k>> \/ t = <<"members", k>>
  BY <1>4 DEF CommunityTallies
<1> QED BY <1>1, <1>2, <1>3, <1>4 DEF Tallies

OwnerDocs == UserDocs \cup PostDocs \cup CommentDocs \cup CommunityDocs

LEMMA TalliesAreAbout ==
    ASSUME NEW t \in Tallies
    PROVE  /\ Owner(t) \in OwnerDocs /\ Owner(t) \in Docs
           /\ \A i \in Things(t) : Source(t, i) \in Docs
           /\ IsFiniteSet(Things(t))
<1> DEFINE About == /\ Owner(t) \in OwnerDocs
                    /\ \A i \in Things(t) : Source(t, i) \in Docs
                    /\ IsFiniteSet(Things(t))
<1>1. ASSUME NEW x \in Posts, t = <<"likes", x>> PROVE About
  <2>1. Owner(t) = Post(x) /\ Things(t) = Users /\ \A i : Source(t, i) = Like(i, x)
    BY <1>1, PostLikesTally
  <2> QED BY <2>1, FiniteAssumption DEF OwnerDocs, Docs, PostDocs, Relations
<1>2. ASSUME NEW x \in Posts, t = <<"comments", x>> PROVE About
  <2>1. Owner(t) = Post(x) /\ Things(t) = Comments /\ \A i : Source(t, i) = Comment(i)
    BY <1>2, PostCommentsTally
  <2> QED BY <2>1, FiniteAssumption DEF OwnerDocs, Docs, PostDocs, CommentDocs
<1>3. ASSUME NEW x \in Posts, t = <<"reposts", x>> PROVE About
  <2>1. Owner(t) = Post(x) /\ Things(t) = Posts /\ \A i : Source(t, i) = Post(i)
    BY <1>3, RepostsTally
  <2> QED BY <2>1, FiniteAssumption DEF OwnerDocs, Docs, PostDocs
<1>4. ASSUME NEW c \in Comments, t = <<"commentlikes", c>> PROVE About
  <2>1. Owner(t) = Comment(c) /\ Things(t) = Users /\ \A i : Source(t, i) = CommentLike(i, c)
    BY <1>4, CommentLikesTally
  <2> QED BY <2>1, FiniteAssumption DEF OwnerDocs, Docs, CommentDocs, Relations
<1>5. ASSUME NEW c \in Comments, t = <<"replies", c>> PROVE About
  <2>1. Owner(t) = Comment(c) /\ Things(t) = Comments /\ \A i : Source(t, i) = Comment(i)
    BY <1>5, RepliesTally
  <2> QED BY <2>1, FiniteAssumption DEF OwnerDocs, Docs, CommentDocs
<1>6. ASSUME NEW u \in Users, t = <<"followers", u>> PROVE About
  <2>1. Owner(t) = User(u) /\ Things(t) = Users \ {u} /\ \A i : Source(t, i) = Follow(i, u)
    BY <1>6, FollowersTally
  <2>2. IsFiniteSet(Things(t))
    BY <2>1, FiniteAssumption, FS_Difference
  <2>3. ASSUME NEW i \in Users \ {u} PROVE Follow(i, u) \in Relations
    <3>1. <<i, u>> \in {e \in Users \X Users : e[1] # e[2]}
      BY <2>3
    <3> QED BY <3>1 DEF Relations
  <2>4. Owner(t) \in OwnerDocs
    BY <2>1 DEF OwnerDocs, UserDocs
  <2>5. \A i \in Things(t) : Source(t, i) \in Docs
    BY <2>1, <2>3 DEF Docs
  <2> QED BY <2>2, <2>4, <2>5
<1>7. ASSUME NEW u \in Users, t = <<"following", u>> PROVE About
  <2>1. Owner(t) = User(u) /\ Things(t) = Users \ {u} /\ \A i : Source(t, i) = Follow(u, i)
    BY <1>7, FollowingTally
  <2>2. IsFiniteSet(Things(t))
    BY <2>1, FiniteAssumption, FS_Difference
  <2>3. ASSUME NEW i \in Users \ {u} PROVE Follow(u, i) \in Relations
    <3>1. <<u, i>> \in {e \in Users \X Users : e[1] # e[2]}
      BY <2>3
    <3> QED BY <3>1 DEF Relations
  <2>4. Owner(t) \in OwnerDocs
    BY <2>1 DEF OwnerDocs, UserDocs
  <2>5. \A i \in Things(t) : Source(t, i) \in Docs
    BY <2>1, <2>3 DEF Docs
  <2> QED BY <2>2, <2>4, <2>5
<1>8. ASSUME NEW k \in Communities, t = <<"posts", k>> PROVE About
  <2>1. Owner(t) = Community(k) /\ Things(t) = Posts /\ \A i : Source(t, i) = Post(i)
    BY <1>8, CommunityPostsTally
  <2> QED BY <2>1, FiniteAssumption DEF OwnerDocs, Docs, CommunityDocs, PostDocs
<1>9. ASSUME NEW k \in Communities, t = <<"members", k>> PROVE About
  <2>1. Owner(t) = Community(k) /\ Things(t) = Users /\ \A i : Source(t, i) = Member(i, k)
    BY <1>9, MembersTally
  <2> QED BY <2>1, FiniteAssumption DEF OwnerDocs, Docs, CommunityDocs, MemberDocs
<1>10. About
  BY <1>1, <1>2, <1>3, <1>4, <1>5, <1>6, <1>7, <1>8, <1>9, EveryTally
<1> QED BY <1>10 DEF OwnerDocs, Docs

\* A database is consistent if the properties of the modules hold of it.
LEMMA WhatConsistentIs ==
    ASSUME NEW s
    PROVE  Consistent(s) <=> /\ IsDatabase(s)
                             /\ CountersFit(s)
                             /\ NothingUnborn(s)
                             /\ AnswersStayInPost(s)
                             /\ PostsAreSound(s)
                             /\ AdminIsCreator(s)
<1> DEFINE Fine(t) == t \in Tallies /\ IsRight(s, t) /\ IsUnused(s, t)
<1>1. ASSUME NEW x \in Posts
      PROVE  Fine(<<"likes", x>>) <=>
                 /\ Exists(s, Post(x)) => s[Post(x)].likes = Cardinality(LikesOf(s, x))
                 /\ s[Post(x)] = Unborn => LikesOf(s, x) = {}
  <2> DEFINE t == <<"likes", x>>
  <2>1. /\ t \in Tallies /\ Owner(t) = Post(x) /\ Field(t) = "likes"
        /\ Counted(s, t) = LikesOf(s, x)
    BY <1>1, PostLikesTally
  <2> HIDE DEF t
  <2>2. Fine(t) <=> /\ Exists(s, Post(x)) => s[Post(x)].likes = Cardinality(LikesOf(s, x))
                    /\ s[Post(x)] = Unborn => LikesOf(s, x) = {}
    BY <2>1 DEF IsRight, IsUnused
  <2> QED BY <2>2 DEF t
<1>2. ASSUME NEW x \in Posts
      PROVE  Fine(<<"comments", x>>) <=>
                 /\ Exists(s, Post(x)) => s[Post(x)].comments = Cardinality(CommentsOf(s, x))
                 /\ s[Post(x)] = Unborn => CommentsOf(s, x) = {}
  <2> DEFINE t == <<"comments", x>>
  <2>1. /\ t \in Tallies /\ Owner(t) = Post(x) /\ Field(t) = "comments"
        /\ Counted(s, t) = CommentsOf(s, x)
    BY <1>2, PostCommentsTally
  <2> HIDE DEF t
  <2>2. Fine(t) <=> /\ Exists(s, Post(x)) => s[Post(x)].comments = Cardinality(CommentsOf(s, x))
                    /\ s[Post(x)] = Unborn => CommentsOf(s, x) = {}
    BY <2>1 DEF IsRight, IsUnused
  <2> QED BY <2>2 DEF t
<1>3. ASSUME NEW x \in Posts
      PROVE  Fine(<<"reposts", x>>) <=>
                 /\ Exists(s, Post(x)) => s[Post(x)].reposts = Cardinality(RepostsOf(s, x))
                 /\ s[Post(x)] = Unborn => RepostsOf(s, x) = {}
  <2> DEFINE t == <<"reposts", x>>
  <2>1. /\ t \in Tallies /\ Owner(t) = Post(x) /\ Field(t) = "reposts"
        /\ Counted(s, t) = RepostsOf(s, x)
    BY <1>3, RepostsTally
  <2> HIDE DEF t
  <2>2. Fine(t) <=> /\ Exists(s, Post(x)) => s[Post(x)].reposts = Cardinality(RepostsOf(s, x))
                    /\ s[Post(x)] = Unborn => RepostsOf(s, x) = {}
    BY <2>1 DEF IsRight, IsUnused
  <2> QED BY <2>2 DEF t
<1>4. ASSUME NEW c \in Comments
      PROVE  Fine(<<"commentlikes", c>>) <=>
                 /\ Exists(s, Comment(c)) => s[Comment(c)].likes = Cardinality(CommentLikesOf(s, c))
                 /\ s[Comment(c)] = Unborn => CommentLikesOf(s, c) = {}
  <2> DEFINE t == <<"commentlikes", c>>
  <2>1. /\ t \in Tallies /\ Owner(t) = Comment(c) /\ Field(t) = "likes"
        /\ Counted(s, t) = CommentLikesOf(s, c)
    BY <1>4, CommentLikesTally
  <2> HIDE DEF t
  <2>2. Fine(t) <=> /\ Exists(s, Comment(c)) => s[Comment(c)].likes = Cardinality(CommentLikesOf(s, c))
                    /\ s[Comment(c)] = Unborn => CommentLikesOf(s, c) = {}
    BY <2>1 DEF IsRight, IsUnused
  <2> QED BY <2>2 DEF t
<1>5. ASSUME NEW c \in Comments
      PROVE  Fine(<<"replies", c>>) <=>
                 /\ Exists(s, Comment(c)) => s[Comment(c)].replies = Cardinality(RepliesTo(s, c))
                 /\ s[Comment(c)] = Unborn => RepliesTo(s, c) = {}
  <2> DEFINE t == <<"replies", c>>
  <2>1. /\ t \in Tallies /\ Owner(t) = Comment(c) /\ Field(t) = "replies"
        /\ Counted(s, t) = RepliesTo(s, c)
    BY <1>5, RepliesTally
  <2> HIDE DEF t
  <2>2. Fine(t) <=> /\ Exists(s, Comment(c)) => s[Comment(c)].replies = Cardinality(RepliesTo(s, c))
                    /\ s[Comment(c)] = Unborn => RepliesTo(s, c) = {}
    BY <2>1 DEF IsRight, IsUnused
  <2> QED BY <2>2 DEF t
<1>6. ASSUME NEW u \in Users
      PROVE  Fine(<<"followers", u>>) <=>
                 /\ Exists(s, User(u)) => s[User(u)].followers = Cardinality(FollowersOf(s, u))
                 /\ s[User(u)] = Unborn => FollowersOf(s, u) = {}
  <2> DEFINE t == <<"followers", u>>
  <2>1. /\ t \in Tallies /\ Owner(t) = User(u) /\ Field(t) = "followers"
        /\ Counted(s, t) = FollowersOf(s, u)
    BY <1>6, FollowersTally
  <2> HIDE DEF t
  <2>2. Fine(t) <=> /\ Exists(s, User(u)) => s[User(u)].followers = Cardinality(FollowersOf(s, u))
                    /\ s[User(u)] = Unborn => FollowersOf(s, u) = {}
    BY <2>1 DEF IsRight, IsUnused
  <2> QED BY <2>2 DEF t
<1>7. ASSUME NEW u \in Users
      PROVE  Fine(<<"following", u>>) <=>
                 /\ Exists(s, User(u)) => s[User(u)].following = Cardinality(FollowedBy(s, u))
                 /\ s[User(u)] = Unborn => FollowedBy(s, u) = {}
  <2> DEFINE t == <<"following", u>>
  <2>1. /\ t \in Tallies /\ Owner(t) = User(u) /\ Field(t) = "following"
        /\ Counted(s, t) = FollowedBy(s, u)
    BY <1>7, FollowingTally
  <2> HIDE DEF t
  <2>2. Fine(t) <=> /\ Exists(s, User(u)) => s[User(u)].following = Cardinality(FollowedBy(s, u))
                    /\ s[User(u)] = Unborn => FollowedBy(s, u) = {}
    BY <2>1 DEF IsRight, IsUnused
  <2> QED BY <2>2 DEF t
<1>8. ASSUME NEW k \in Communities
      PROVE  Fine(<<"posts", k>>) <=>
                 /\ Exists(s, Community(k)) => s[Community(k)].posts = Cardinality(PostsIn(s, k))
                 /\ s[Community(k)] = Unborn => PostsIn(s, k) = {}
  <2> DEFINE t == <<"posts", k>>
  <2>1. /\ t \in Tallies /\ Owner(t) = Community(k) /\ Field(t) = "posts"
        /\ Counted(s, t) = PostsIn(s, k)
    BY <1>8, CommunityPostsTally
  <2> HIDE DEF t
  <2>2. Fine(t) <=> /\ Exists(s, Community(k)) => s[Community(k)].posts = Cardinality(PostsIn(s, k))
                    /\ s[Community(k)] = Unborn => PostsIn(s, k) = {}
    BY <2>1 DEF IsRight, IsUnused
  <2> QED BY <2>2 DEF t
<1>9. ASSUME NEW k \in Communities
      PROVE  Fine(<<"members", k>>) <=>
                 /\ Exists(s, Community(k)) => s[Community(k)].members = Cardinality(MembersOf(s, k))
                 /\ s[Community(k)] = Unborn => MembersOf(s, k) = {}
  <2> DEFINE t == <<"members", k>>
  <2>1. /\ t \in Tallies /\ Owner(t) = Community(k) /\ Field(t) = "members"
        /\ Counted(s, t) = MembersOf(s, k)
    BY <1>9, MembersTally
  <2> HIDE DEF t
  <2>2. Fine(t) <=> /\ Exists(s, Community(k)) => s[Community(k)].members = Cardinality(MembersOf(s, k))
                    /\ s[Community(k)] = Unborn => MembersOf(s, k) = {}
    BY <2>1 DEF IsRight, IsUnused
  <2> QED BY <2>2 DEF t
<1> HIDE DEF Fine
<1>10. ASSUME \A t \in Tallies : Fine(t)
       PROVE  CountersFit(s) /\ NothingUnborn(s)
  <2>1. \A x \in Posts :
          /\ Exists(s, Post(x)) => s[Post(x)].likes = Cardinality(LikesOf(s, x))
          /\ s[Post(x)] = Unborn => LikesOf(s, x) = {}
    <3>1. \A x \in Posts : Fine(<<"likes", x>>)
      BY <1>10, PostLikesTally
    <3> QED BY <1>1, <3>1
  <2>2. \A x \in Posts :
          /\ Exists(s, Post(x)) => s[Post(x)].comments = Cardinality(CommentsOf(s, x))
          /\ s[Post(x)] = Unborn => CommentsOf(s, x) = {}
    <3>1. \A x \in Posts : Fine(<<"comments", x>>)
      BY <1>10, PostCommentsTally
    <3> QED BY <1>2, <3>1
  <2>3. \A x \in Posts :
          /\ Exists(s, Post(x)) => s[Post(x)].reposts = Cardinality(RepostsOf(s, x))
          /\ s[Post(x)] = Unborn => RepostsOf(s, x) = {}
    <3>1. \A x \in Posts : Fine(<<"reposts", x>>)
      BY <1>10, RepostsTally
    <3> QED BY <1>3, <3>1
  <2>4. \A c \in Comments :
          /\ Exists(s, Comment(c)) => s[Comment(c)].likes = Cardinality(CommentLikesOf(s, c))
          /\ s[Comment(c)] = Unborn => CommentLikesOf(s, c) = {}
    <3>1. \A c \in Comments : Fine(<<"commentlikes", c>>)
      BY <1>10, CommentLikesTally
    <3> QED BY <1>4, <3>1
  <2>5. \A c \in Comments :
          /\ Exists(s, Comment(c)) => s[Comment(c)].replies = Cardinality(RepliesTo(s, c))
          /\ s[Comment(c)] = Unborn => RepliesTo(s, c) = {}
    <3>1. \A c \in Comments : Fine(<<"replies", c>>)
      BY <1>10, RepliesTally
    <3> QED BY <1>5, <3>1
  <2>6. \A u \in Users :
          /\ Exists(s, User(u)) => s[User(u)].followers = Cardinality(FollowersOf(s, u))
          /\ s[User(u)] = Unborn => FollowersOf(s, u) = {}
    <3>1. \A u \in Users : Fine(<<"followers", u>>)
      BY <1>10, FollowersTally
    <3> QED BY <1>6, <3>1
  <2>7. \A u \in Users :
          /\ Exists(s, User(u)) => s[User(u)].following = Cardinality(FollowedBy(s, u))
          /\ s[User(u)] = Unborn => FollowedBy(s, u) = {}
    <3>1. \A u \in Users : Fine(<<"following", u>>)
      BY <1>10, FollowingTally
    <3> QED BY <1>7, <3>1
  <2>8. \A k \in Communities :
          /\ Exists(s, Community(k)) => s[Community(k)].posts = Cardinality(PostsIn(s, k))
          /\ s[Community(k)] = Unborn => PostsIn(s, k) = {}
    <3>1. \A k \in Communities : Fine(<<"posts", k>>)
      BY <1>10, CommunityPostsTally
    <3> QED BY <1>8, <3>1
  <2>9. \A k \in Communities :
          /\ Exists(s, Community(k)) => s[Community(k)].members = Cardinality(MembersOf(s, k))
          /\ s[Community(k)] = Unborn => MembersOf(s, k) = {}
    <3>1. \A k \in Communities : Fine(<<"members", k>>)
      BY <1>10, MembersTally
    <3> QED BY <1>9, <3>1
  <2>10. CountersFit(s)
    BY <2>1, <2>2, <2>3, <2>4, <2>5, <2>6, <2>7, <2>8, <2>9 DEF CountersFit, LikesAreCounted, ThreadsAreCounted, FollowsAreCounted,
       RepostsAreCounted, CommunityPostsAreCounted, MembersAreCounted
  <2>11. NothingUnborn(s)
    BY <2>1, <2>2, <2>3, <2>4, <2>5, <2>6, <2>7, <2>8, <2>9 DEF NothingUnborn
  <2> QED BY <2>10, <2>11
<1>11. ASSUME CountersFit(s), NothingUnborn(s), NEW t \in Tallies
       PROVE  Fine(t)
  <2>1. ASSUME NEW x \in Posts PROVE Fine(<<"likes", x>>)
    BY <1>1, <1>11 DEF CountersFit, NothingUnborn, LikesAreCounted
  <2>2. ASSUME NEW x \in Posts PROVE Fine(<<"comments", x>>)
    BY <1>2, <1>11 DEF CountersFit, NothingUnborn, ThreadsAreCounted
  <2>3. ASSUME NEW x \in Posts PROVE Fine(<<"reposts", x>>)
    BY <1>3, <1>11 DEF CountersFit, NothingUnborn, RepostsAreCounted
  <2>4. ASSUME NEW c \in Comments PROVE Fine(<<"commentlikes", c>>)
    BY <1>4, <1>11 DEF CountersFit, NothingUnborn, LikesAreCounted
  <2>5. ASSUME NEW c \in Comments PROVE Fine(<<"replies", c>>)
    BY <1>5, <1>11 DEF CountersFit, NothingUnborn, ThreadsAreCounted
  <2>6. ASSUME NEW u \in Users PROVE Fine(<<"followers", u>>)
    BY <1>6, <1>11 DEF CountersFit, NothingUnborn, FollowsAreCounted
  <2>7. ASSUME NEW u \in Users PROVE Fine(<<"following", u>>)
    BY <1>7, <1>11 DEF CountersFit, NothingUnborn, FollowsAreCounted
  <2>8. ASSUME NEW k \in Communities PROVE Fine(<<"posts", k>>)
    BY <1>8, <1>11 DEF CountersFit, NothingUnborn, CommunityPostsAreCounted
  <2>9. ASSUME NEW k \in Communities PROVE Fine(<<"members", k>>)
    BY <1>9, <1>11 DEF CountersFit, NothingUnborn, MembersAreCounted
  <2> QED BY <2>1, <2>2, <2>3, <2>4, <2>5, <2>6, <2>7, <2>8, <2>9, EveryTally
<1>12. (\A t \in Tallies : Fine(t)) <=> CountersFit(s) /\ NothingUnborn(s)
  BY <1>10, <1>11
<1> QED BY <1>12 DEF Consistent, Fine

-----------------------------------------------------------------------------
(* Types of all documents.                                                 *)

LEMMA CollectionsDiffer ==
    /\ \A d \in UserDocs : d[1] = "user"
    /\ \A d \in PostDocs : d[1] = "post"
    /\ \A d \in CommentDocs : d[1] = "comment"
    /\ \A d \in CommunityDocs : d[1] = "community"
    /\ \A d \in MemberDocs : d[1] = "member"
    /\ \A d \in Relations : d[1] \in {"follow", "like", "view", "commentlike"}
BY NamesDiffer DEF UserDocs, PostDocs, CommentDocs, CommunityDocs, MemberDocs, Relations

LEMMA TypesAre ==
    /\ \A d \in UserDocs : TypeOfDoc(d) = Account \cup {Unborn, Gone}
    /\ \A d \in PostDocs : TypeOfDoc(d) = PostRecord \cup {Unborn, Gone}
    /\ \A d \in CommentDocs : TypeOfDoc(d) = CommentRecord \cup {Unborn, Gone}
    /\ \A d \in CommunityDocs : TypeOfDoc(d) = CommunityRecord \cup {Unborn, Gone}
    /\ \A d \in MemberDocs : TypeOfDoc(d) = Roles
    /\ \A d \in Relations \cup {Guard} : TypeOfDoc(d) = BOOLEAN
<1>1. ASSUME NEW d \in UserDocs PROVE TypeOfDoc(d) = Account \cup {Unborn, Gone}
  <2>1. d \notin PostDocs \cup CommentDocs \cup CommunityDocs \cup MemberDocs
    BY CollectionsDiffer
  <2> QED BY <2>1 DEF TypeOfDoc
<1>2. ASSUME NEW d \in PostDocs PROVE TypeOfDoc(d) = PostRecord \cup {Unborn, Gone}
  <2>1. d \notin UserDocs \cup CommentDocs \cup CommunityDocs \cup MemberDocs
    BY CollectionsDiffer
  <2> QED BY <2>1 DEF TypeOfDoc
<1>3. ASSUME NEW d \in CommentDocs PROVE TypeOfDoc(d) = CommentRecord \cup {Unborn, Gone}
  <2>1. d \notin UserDocs \cup PostDocs \cup CommunityDocs \cup MemberDocs
    BY CollectionsDiffer
  <2> QED BY <2>1 DEF TypeOfDoc
<1>4. ASSUME NEW d \in CommunityDocs PROVE TypeOfDoc(d) = CommunityRecord \cup {Unborn, Gone}
  <2>1. d \notin UserDocs \cup PostDocs \cup CommentDocs \cup MemberDocs
    BY CollectionsDiffer
  <2> QED BY <2>1 DEF TypeOfDoc
<1>5. ASSUME NEW d \in MemberDocs PROVE TypeOfDoc(d) = Roles
  <2>1. d \notin UserDocs \cup PostDocs \cup CommentDocs \cup CommunityDocs
    BY CollectionsDiffer
  <2> QED BY <2>1 DEF TypeOfDoc
<1>6. ASSUME NEW d \in Relations \cup {Guard} PROVE TypeOfDoc(d) = BOOLEAN
  <2>1. d \notin UserDocs \cup PostDocs \cup CommentDocs \cup CommunityDocs \cup MemberDocs
    BY CollectionsDiffer, NamesDiffer
  <2> QED BY <2>1 DEF TypeOfDoc
<1> QED BY <1>1, <1>2, <1>3, <1>4, <1>5, <1>6

LEMMA DatabaseIs ==
    ASSUME NEW s
    PROVE  IsDatabase(s) <=>
             /\ DOMAIN s = Docs
             /\ \A u \in Users : s[User(u)] \in Account \cup {Unborn, Gone}
             /\ \A x \in Posts : s[Post(x)] \in PostRecord \cup {Unborn, Gone}
             /\ \A c \in Comments : s[Comment(c)] \in CommentRecord \cup {Unborn, Gone}
             /\ \A k \in Communities : s[Community(k)] \in CommunityRecord \cup {Unborn, Gone}
             /\ \A u \in Users, k \in Communities : s[Member(u, k)] \in Roles
             /\ \A d \in Relations \cup {Guard} : s[d] \in BOOLEAN
<1>1. \A d \in Docs : \/ d \in UserDocs \/ d \in PostDocs \/ d \in CommentDocs
                      \/ d \in CommunityDocs \/ d \in MemberDocs \/ d \in Relations \cup {Guard}
  BY DEF Docs
<1>2. /\ UserDocs \subseteq Docs /\ PostDocs \subseteq Docs /\ CommentDocs \subseteq Docs
      /\ CommunityDocs \subseteq Docs /\ MemberDocs \subseteq Docs
      /\ Relations \cup {Guard} \subseteq Docs
  BY DEF Docs
<1>3. (\A d \in Docs : s[d] \in TypeOfDoc(d)) <=>
          /\ \A d \in UserDocs : s[d] \in Account \cup {Unborn, Gone}
          /\ \A d \in PostDocs : s[d] \in PostRecord \cup {Unborn, Gone}
          /\ \A d \in CommentDocs : s[d] \in CommentRecord \cup {Unborn, Gone}
          /\ \A d \in CommunityDocs : s[d] \in CommunityRecord \cup {Unborn, Gone}
          /\ \A d \in MemberDocs : s[d] \in Roles
          /\ \A d \in Relations \cup {Guard} : s[d] \in BOOLEAN
  BY <1>1, <1>2, TypesAre
<1>4. /\ (\A d \in UserDocs : s[d] \in Account \cup {Unborn, Gone}) <=>
             \A u \in Users : s[User(u)] \in Account \cup {Unborn, Gone}
      /\ (\A d \in PostDocs : s[d] \in PostRecord \cup {Unborn, Gone}) <=>
             \A x \in Posts : s[Post(x)] \in PostRecord \cup {Unborn, Gone}
      /\ (\A d \in CommentDocs : s[d] \in CommentRecord \cup {Unborn, Gone}) <=>
             \A c \in Comments : s[Comment(c)] \in CommentRecord \cup {Unborn, Gone}
      /\ (\A d \in CommunityDocs : s[d] \in CommunityRecord \cup {Unborn, Gone}) <=>
             \A k \in Communities : s[Community(k)] \in CommunityRecord \cup {Unborn, Gone}
      /\ (\A d \in MemberDocs : s[d] \in Roles) <=>
             \A u \in Users, k \in Communities : s[Member(u, k)] \in Roles
  BY DEF UserDocs, PostDocs, CommentDocs, CommunityDocs, MemberDocs
<1> QED BY <1>3, <1>4 DEF IsDatabase

LEMMA AllNamesInDocs ==
    /\ \A u \in Users : User(u) \in Docs /\ User(u) \in OwnerDocs
    /\ \A x \in Posts : Post(x) \in Docs /\ Post(x) \in OwnerDocs
    /\ \A c \in Comments : Comment(c) \in Docs /\ Comment(c) \in OwnerDocs
    /\ \A k \in Communities : Community(k) \in Docs /\ Community(k) \in OwnerDocs
    /\ \A u \in Users, k \in Communities : Member(u, k) \in Docs
    /\ OwnerDocs \subseteq Docs
BY DEF Docs, OwnerDocs, UserDocs, PostDocs, CommentDocs, CommunityDocs, MemberDocs

-----------------------------------------------------------------------------
(* What transactions do to the counters.                                   *)

\* A document that is born is not unborn again, a deleted one does not come
\* back, and a comment stays where it is.
Later(s, w) ==
    /\ \A d \in OwnerDocs :
         /\ s[d] = Gone => w[d] = Gone
         /\ w[d] = Unborn => s[d] = Unborn
    /\ \A c \in Comments : Exists(s, Comment(c)) /\ Exists(w, Comment(c)) =>
         /\ w[Comment(c)].post = s[Comment(c)].post
         /\ w[Comment(c)].parent = s[Comment(c)].parent

LEMMA LaterTwice ==
    ASSUME NEW s, NEW t, NEW w, Later(s, t), Later(t, w)
    PROVE  Later(s, w)
<1>1. \A d \in OwnerDocs : /\ s[d] = Gone => w[d] = Gone
                           /\ w[d] = Unborn => s[d] = Unborn
  BY DEF Later
<1>2. ASSUME NEW c \in Comments, Exists(s, Comment(c)), Exists(w, Comment(c))
      PROVE  /\ w[Comment(c)].post = s[Comment(c)].post
             /\ w[Comment(c)].parent = s[Comment(c)].parent
  <2>1. Comment(c) \in OwnerDocs
    BY AllNamesInDocs
  <2>2. Exists(t, Comment(c))
    BY <1>2, <2>1 DEF Later, Exists
  <2> QED BY <1>2, <2>2 DEF Later
<1> QED BY <1>1, <1>2 DEF Later

\* What is counted only grows or only shrinks.
OneWay(s, w) ==
    \A t \in Tallies : Exists(s, Owner(t)) =>
        Counted(s, t) \subseteq Counted(w, t) \/ Counted(w, t) \subseteq Counted(s, t)

\* What every transaction turns its snapshot into.
Fits(s, w) == Consistent(w) /\ Later(s, w) /\ OneWay(s, w)

\* A transaction that has not missed the owner has missed nothing it counts.
SameCounts(p) ==
    \A t \in Tallies : Exists(db, Owner(t)) /\ Owner(t) \notin missed[p] =>
        Counted(snap[p], t) = Counted(db, t)

CountersInv ==
    /\ Consistent(db)
    /\ DOMAIN missed = Txns
    /\ \A p \in Txns : snap[p] # None =>
         /\ Consistent(snap[p])
         /\ Later(snap[p], db)
         /\ SameCounts(p)

\* Two sets of the same size, one in the other.
LEMMA SameSize ==
    ASSUME NEW S, NEW T, IsFiniteSet(S), IsFiniteSet(T), Cardinality(S) = Cardinality(T),
           S \subseteq T \/ T \subseteq S
    PROVE  S = T
<1>1. CASE S \subseteq T
  BY <1>1, FS_Subset
<1>2. CASE T \subseteq S
  BY <1>2, FS_Subset
<1> QED BY <1>1, <1>2

LEMMA CountedFinite ==
    ASSUME NEW s, NEW t \in Tallies
    PROVE  IsFiniteSet(Counted(s, t)) /\ Cardinality(Counted(s, t)) \in Nat
<1>1. Counted(s, t) \subseteq Things(t) /\ IsFiniteSet(Things(t))
  BY TalliesAreAbout DEF Counted
<1> QED BY <1>1, FS_Subset, FS_CardinalityType

-----------------------------------------------------------------------------
(* A commit of a transaction that fits keeps the database consistent.      *)

\* s is what the transaction read, w what it made of it, b and a the
\* database before and after the commit.
Lands(s, w, b, a) ==
    /\ DOMAIN a = Docs
    /\ \A d \in Docs : s[d] # w[d] => b[d] = s[d] /\ a[d] = w[d]
    /\ \A d \in Docs : s[d] = w[d] => a[d] = b[d]

LEMMA LandsCounted ==
    ASSUME NEW s, NEW w, NEW b, NEW a, Lands(s, w, b, a), NEW t \in Tallies
    PROVE  /\ Counted(s, t) = Counted(b, t) => Counted(a, t) = Counted(w, t)
           /\ Counted(s, t) = Counted(w, t) => Counted(a, t) = Counted(b, t)
<1>1. ASSUME NEW i \in Things(t)
      PROVE  /\ \/ (i \in Counted(b, t) <=> i \in Counted(s, t)) /\
                   (i \in Counted(a, t) <=> i \in Counted(w, t))
                \/ (i \in Counted(s, t) <=> i \in Counted(w, t)) /\
                   (i \in Counted(a, t) <=> i \in Counted(b, t))
  <2>1. Source(t, i) \in Docs
    BY TalliesAreAbout
  <2>2. \/ b[Source(t, i)] = s[Source(t, i)] /\ a[Source(t, i)] = w[Source(t, i)]
        \/ s[Source(t, i)] = w[Source(t, i)] /\ a[Source(t, i)] = b[Source(t, i)]
    BY <2>1 DEF Lands
  <2> QED BY <2>2 DEF Counted
<1>2. /\ Counted(s, t) \subseteq Things(t) /\ Counted(w, t) \subseteq Things(t)
      /\ Counted(b, t) \subseteq Things(t) /\ Counted(a, t) \subseteq Things(t)
  BY DEF Counted
<1> QED BY <1>1, <1>2

\* An owner that the transaction leaves alone keeps what it counts.
LEMMA LandsApart ==
    ASSUME NEW s, NEW w, NEW b, NEW a, Lands(s, w, b, a), NEW t \in Tallies,
           Consistent(s), Fits(s, w), Later(s, b), Exists(b, Owner(t)),
           s[Owner(t)] = w[Owner(t)]
    PROVE  Counted(a, t) = Counted(b, t)
<1>1. Owner(t) \in OwnerDocs
  BY TalliesAreAbout
<1>2. s[Owner(t)] # Gone
  BY <1>1 DEF Later, Exists
<1>3. CASE s[Owner(t)] = Unborn
  <2>1. Counted(s, t) = {} /\ Counted(w, t) = {}
    BY <1>3 DEF Consistent, Fits, IsUnused
  <2> QED BY <2>1, LandsCounted
<1>4. CASE Exists(s, Owner(t))
  <2>1. Cardinality(Counted(s, t)) = Cardinality(Counted(w, t))
    BY <1>4 DEF Consistent, Fits, IsRight, Exists
  <2>2. Counted(s, t) \subseteq Counted(w, t) \/ Counted(w, t) \subseteq Counted(s, t)
    BY <1>4 DEF Fits, OneWay
  <2>3. Counted(s, t) = Counted(w, t)
    BY <2>1, <2>2, CountedFinite, SameSize
  <2> QED BY <2>3, LandsCounted
<1> QED BY <1>2, <1>3, <1>4 DEF Exists

LEMMA LandsLater ==
    ASSUME NEW s, NEW w, NEW b, NEW a, Lands(s, w, b, a), Fits(s, w)
    PROVE  Later(b, a)
<1>1. Later(s, w)
  BY DEF Fits
<1>2. ASSUME NEW d \in OwnerDocs
      PROVE  /\ b[d] = Gone => a[d] = Gone
             /\ a[d] = Unborn => b[d] = Unborn
  <2>1. d \in Docs
    BY AllNamesInDocs
  <2>2. CASE s[d] # w[d]
    BY <1>1, <2>1, <2>2 DEF Lands, Later
  <2>3. CASE s[d] = w[d]
    BY <2>1, <2>3 DEF Lands
  <2> QED BY <2>2, <2>3
<1>3. ASSUME NEW c \in Comments, Exists(b, Comment(c)), Exists(a, Comment(c))
      PROVE  /\ a[Comment(c)].post = b[Comment(c)].post
             /\ a[Comment(c)].parent = b[Comment(c)].parent
  <2>1. Comment(c) \in Docs
    BY AllNamesInDocs
  <2>2. CASE s[Comment(c)] # w[Comment(c)]
    <3>1. b[Comment(c)] = s[Comment(c)] /\ a[Comment(c)] = w[Comment(c)]
      BY <2>1, <2>2 DEF Lands
    <3> QED BY <1>1, <1>3, <3>1 DEF Later, Exists
  <2>3. CASE s[Comment(c)] = w[Comment(c)]
    BY <2>1, <2>3 DEF Lands
  <2> QED BY <2>2, <2>3
<1> QED BY <1>2, <1>3 DEF Later

LEMMA LandsRight ==
    ASSUME NEW s, NEW w, NEW b, NEW a, Lands(s, w, b, a), NEW t \in Tallies,
           Consistent(s), Consistent(b), Fits(s, w), Later(s, b),
           s[Owner(t)] # w[Owner(t)] /\ Exists(b, Owner(t)) => Counted(s, t) = Counted(b, t)
    PROVE  IsRight(a, t) /\ IsUnused(a, t)
<1>1. Owner(t) \in OwnerDocs /\ Owner(t) \in Docs
  BY TalliesAreAbout
<1>2. Later(s, w) /\ Consistent(w)
  BY DEF Fits
<1>3. CASE s[Owner(t)] # w[Owner(t)]
  <2>1. b[Owner(t)] = s[Owner(t)] /\ a[Owner(t)] = w[Owner(t)]
    BY <1>1, <1>3 DEF Lands
  <2>2. w[Owner(t)] # Unborn
    BY <1>1, <1>2, <1>3 DEF Later
  <2>3. ASSUME Exists(w, Owner(t)) PROVE Counted(a, t) = Counted(w, t)
    <3>1. s[Owner(t)] # Gone
      BY <1>1, <1>2, <2>3 DEF Later, Exists
    <3>2. CASE s[Owner(t)] = Unborn
      <4>1. Counted(s, t) = {} /\ Counted(b, t) = {}
        BY <2>1, <3>2 DEF Consistent, IsUnused
      <4> QED BY <4>1, LandsCounted
    <3>3. CASE Exists(s, Owner(t))
      <4>1. Exists(b, Owner(t))
        BY <2>1, <3>3 DEF Exists
      <4> QED BY <1>3, <4>1, LandsCounted
    <3> QED BY <3>1, <3>2, <3>3 DEF Exists
  <2>4. IsRight(a, t)
    BY <1>2, <2>1, <2>3 DEF Consistent, IsRight, Exists
  <2> QED BY <2>1, <2>2, <2>4 DEF IsUnused
<1>4. CASE s[Owner(t)] = w[Owner(t)]
  <2>1. a[Owner(t)] = b[Owner(t)]
    BY <1>1, <1>4 DEF Lands
  <2>2. ASSUME Exists(b, Owner(t)) PROVE Counted(a, t) = Counted(b, t)
    BY <1>4, <2>2, LandsApart
  <2>3. IsRight(a, t)
    BY <2>1, <2>2 DEF Consistent, IsRight, Exists
  <2>4. ASSUME b[Owner(t)] = Unborn PROVE Counted(a, t) = {}
    <3>1. s[Owner(t)] = Unborn
      BY <1>1, <2>4 DEF Later
    <3>2. Counted(s, t) = {} /\ Counted(w, t) = {} /\ Counted(b, t) = {}
      BY <1>2, <1>4, <2>4, <3>1 DEF Consistent, IsUnused
    <3> QED BY <3>2, LandsCounted
  <2> QED BY <2>1, <2>3, <2>4 DEF IsUnused
<1> QED BY <1>3, <1>4

\* A reply counts for the comment it answers.
LEMMA AnswersAreCounted ==
    ASSUME NEW s, Consistent(s), NEW c \in Comments, NEW b \in Comments,
           Exists(s, Comment(c)), s[Comment(c)].parent = b
    PROVE  s[Comment(b)] # Unborn
<1> DEFINE t == <<"replies", b>>
<1>1. /\ t \in Tallies /\ Owner(t) = Comment(b) /\ Things(t) = Comments
      /\ \A i : Source(t, i) = Comment(i)
      /\ \A r : Counts(t, r) <=> r \notin {Unborn, Gone} /\ r.parent = b
  BY RepliesTally
<1> HIDE DEF t
<1>2. c \in Counted(s, t)
  BY <1>1 DEF Counted, Exists
<1> QED BY <1>1, <1>2 DEF Consistent, IsUnused

LEMMA LandsAnswers ==
    ASSUME NEW s, NEW w, NEW b, NEW a, Lands(s, w, b, a),
           Consistent(b), Fits(s, w), Later(s, b)
    PROVE  AnswersStayInPost(a)
<1> SUFFICES ASSUME NEW c \in Comments, NEW e \in Comments,
                    Exists(a, Comment(c)), Exists(a, Comment(e)), a[Comment(c)].parent = e
             PROVE  a[Comment(e)].post = a[Comment(c)].post
  BY DEF AnswersStayInPost
<1>1. /\ Comment(c) \in OwnerDocs /\ Comment(c) \in Docs
      /\ Comment(e) \in OwnerDocs /\ Comment(e) \in Docs
  BY AllNamesInDocs
<1>2. Later(b, a) /\ Later(s, w) /\ Consistent(w)
  BY LandsLater DEF Fits
<1>3. CASE s[Comment(c)] = w[Comment(c)]
  <2>1. a[Comment(c)] = b[Comment(c)]
    BY <1>1, <1>3 DEF Lands
  <2>2. Exists(b, Comment(c)) /\ b[Comment(c)].parent = e
    BY <2>1 DEF Exists
  <2>3. b[Comment(e)] # Unborn
    BY <2>2, AnswersAreCounted
  <2>4. Exists(b, Comment(e))
    BY <1>1, <1>2, <2>3 DEF Later, Exists
  <2>5. b[Comment(e)].post = b[Comment(c)].post
    BY <2>2, <2>4 DEF Consistent, AnswersStayInPost
  <2> QED BY <1>2, <2>1, <2>4, <2>5 DEF Later
<1>4. CASE s[Comment(c)] # w[Comment(c)]
  <2>1. a[Comment(c)] = w[Comment(c)]
    BY <1>1, <1>4 DEF Lands
  <2>2. Exists(w, Comment(c)) /\ w[Comment(c)].parent = e
    BY <2>1 DEF Exists
  <2>3. w[Comment(e)] # Unborn
    BY <1>2, <2>2, AnswersAreCounted
  <2>4. CASE s[Comment(e)] # w[Comment(e)]
    <3>1. a[Comment(e)] = w[Comment(e)]
      BY <1>1, <2>4 DEF Lands
    <3>2. Exists(w, Comment(e))
      BY <3>1 DEF Exists
    <3> QED BY <1>2, <2>1, <2>2, <3>1, <3>2 DEF Consistent, AnswersStayInPost
  <2>5. CASE s[Comment(e)] = w[Comment(e)]
    <3>1. a[Comment(e)] = b[Comment(e)]
      BY <1>1, <2>5 DEF Lands
    <3>2. s[Comment(e)] # Gone
      BY <1>1, <3>1 DEF Later, Exists
    <3>3. Exists(s, Comment(e)) /\ Exists(w, Comment(e)) /\ Exists(b, Comment(e))
      BY <2>3, <2>5, <3>1, <3>2 DEF Exists
    <3>4. b[Comment(e)].post = s[Comment(e)].post
      BY <3>3 DEF Later
    <3>5. w[Comment(e)].post = w[Comment(c)].post
      BY <1>2, <2>2, <3>3 DEF Consistent, AnswersStayInPost
    <3> QED BY <2>1, <2>5, <3>1, <3>4, <3>5
  <2> QED BY <2>4, <2>5
<1> QED BY <1>3, <1>4

LEMMA LandsAdmins ==
    ASSUME NEW s, NEW w, NEW b, NEW a, Lands(s, w, b, a),
           AdminIsCreator(s), AdminIsCreator(w), AdminIsCreator(b)
    PROVE  AdminIsCreator(a)
<1> SUFFICES ASSUME NEW u \in Users, NEW k \in Communities
             PROVE  a[Member(u, k)] = "admin" <=>
                        Exists(a, Community(k)) /\ a[Community(k)].creator = u
  BY DEF AdminIsCreator
<1>1. Member(u, k) \in Docs /\ Community(k) \in Docs
  BY AllNamesInDocs
<1> DEFINE Lead(x) == Exists(x, Community(k)) /\ x[Community(k)].creator = u
<1>2. /\ s[Member(u, k)] = "admin" <=> Lead(s)
      /\ w[Member(u, k)] = "admin" <=> Lead(w)
      /\ b[Member(u, k)] = "admin" <=> Lead(b)
  BY DEF AdminIsCreator
<1>3. /\ s[Member(u, k)] # w[Member(u, k)] =>
            b[Member(u, k)] = s[Member(u, k)] /\ a[Member(u, k)] = w[Member(u, k)]
      /\ s[Member(u, k)] = w[Member(u, k)] => a[Member(u, k)] = b[Member(u, k)]
  BY <1>1 DEF Lands
<1>4. CASE s[Community(k)] = w[Community(k)]
  <2>1. (Lead(s) <=> Lead(w)) /\ (Lead(a) <=> Lead(b))
    BY <1>1, <1>4 DEF Lands, Exists
  <2> HIDE DEF Lead
  <2>2. a[Member(u, k)] = "admin" <=> Lead(a)
    BY <1>2, <1>3, <2>1
  <2> QED BY <2>2 DEF Lead
<1>5. CASE s[Community(k)] # w[Community(k)]
  <2>1. (Lead(s) <=> Lead(b)) /\ (Lead(a) <=> Lead(w))
    BY <1>1, <1>5 DEF Lands, Exists
  <2> HIDE DEF Lead
  <2>2. a[Member(u, k)] = "admin" <=> Lead(a)
    BY <1>2, <1>3, <2>1
  <2> QED BY <2>2 DEF Lead
<1> QED BY <1>4, <1>5

LEMMA LandsConsistent ==
    ASSUME NEW s, NEW w, NEW b, NEW a, Lands(s, w, b, a),
           Consistent(s), Consistent(b), Fits(s, w), Later(s, b),
           \A t \in Tallies : s[Owner(t)] # w[Owner(t)] /\ Exists(b, Owner(t)) =>
               Counted(s, t) = Counted(b, t)
    PROVE  Consistent(a)
<1>1. Consistent(w)
  BY DEF Fits
<1>2. IsDatabase(a)
  BY <1>1 DEF Lands, Consistent, IsDatabase
<1>3. \A t \in Tallies : IsRight(a, t) /\ IsUnused(a, t)
  BY LandsRight
<1>4. AnswersStayInPost(a)
  BY LandsAnswers
<1>5. AdminIsCreator(a)
  BY <1>1, LandsAdmins DEF Consistent
<1>6. PostsAreSound(a)
  <2>1. \A x \in Posts : a[Post(x)] \in {w[Post(x)], b[Post(x)]}
    BY AllNamesInDocs DEF Lands
  <2>3. ASSUME NEW k \in Communities PROVE WasFound(w, Community(k)) \/ WasFound(b, Community(k)) => WasFound(a, Community(k))
    <3>1. Later(b, a)
      BY LandsLater
    <3>2. w[Community(k)] = s[Community(k)] \/ w[Community(k)] = a[Community(k)]
      BY AllNamesInDocs DEF Lands
    <3>3. WasFound(s, Community(k)) => WasFound(b, Community(k))
      BY AllNamesInDocs DEF Later, WasFound
    <3>4. WasFound(b, Community(k)) => WasFound(a, Community(k))
      BY <3>1, AllNamesInDocs DEF Later, WasFound
    <3> QED BY <3>2, <3>3, <3>4 DEF WasFound
  <2>4. ASSUME NEW x \in Posts, NEW v \in {w, b}, a[Post(x)] = v[Post(x)], Exists(a, Post(x))
        PROVE  /\ a[Post(x)].of # None => a[Post(x)].status = "active"
               /\ a[Post(x)].community # None => WasFound(a, Community(a[Post(x)].community))
    <3>1. PostsAreSound(v) /\ Exists(v, Post(x))
      BY <1>1, <2>4 DEF Consistent, Exists
    <3>2. /\ v[Post(x)].of # None => v[Post(x)].status = "active"
          /\ v[Post(x)].community # None => WasFound(v, Community(v[Post(x)].community))
      BY <3>1 DEF PostsAreSound
    <3>3. a[Post(x)].community \in Communities \cup {None}
      BY <1>2, <2>4, DatabaseIs DEF Exists, PostRecord
    <3> QED BY <2>3, <2>4, <3>2, <3>3
  <2>5. ASSUME NEW x \in Posts, Exists(a, Post(x))
        PROVE  /\ a[Post(x)].of # None => a[Post(x)].status = "active"
               /\ a[Post(x)].community # None => WasFound(a, Community(a[Post(x)].community))
    BY <2>1, <2>4, <2>5
  <2> QED BY <2>5 DEF PostsAreSound
<1> QED BY <1>2, <1>3, <1>4, <1>5, <1>6 DEF Consistent

LEMMA ConsistentIsTyped ==
    ASSUME NEW s, IsDatabase(s)
    PROVE  Typed(s)
BY DatabaseIs DEF Typed

LEMMA CommitFits ==
    ASSUME SocialInv, CountersInv, NEW p \in Txns, NEW w, NEW touched,
           Commit(p, w, touched), Fits(snap[p], w)
    PROVE  CountersInv'
<1> DEFINE s == snap[p]
<1>1. Consistent(w) /\ Typed(w)
  BY ConsistentIsTyped DEF Fits, Consistent
<1>2. s # None /\ Lands(s, w, db, db')
  BY <1>1, CommitIsExact DEF SocialInv, Lands
<1>3. Consistent(s) /\ Later(s, db) /\ SameCounts(p)
  BY <1>2 DEF CountersInv
<1>4. \A d \in Docs : s[d] # w[d] => d \notin missed[p]
  <2>1. DOMAIN s = Docs
    BY <1>3 DEF Consistent, IsDatabase
  <2> QED BY <2>1 DEF Commit, Changed
<1>5. ASSUME NEW t \in Tallies, s[Owner(t)] # w[Owner(t)], Exists(db, Owner(t))
      PROVE  Counted(s, t) = Counted(db, t)
  <2>1. Owner(t) \notin missed[p]
    BY <1>4, <1>5, TalliesAreAbout
  <2> QED BY <1>3, <1>5, <2>1 DEF SameCounts
<1>6. Consistent(db)
  BY DEF CountersInv
<1>7. Consistent(db')
  BY <1>2, <1>3, <1>5, <1>6, LandsConsistent
<1>9. DOMAIN missed' = Txns
  BY DEF Commit, Misses
<1>8. ASSUME NEW q \in Txns, snap'[q] # None
      PROVE  Consistent(snap'[q]) /\ Later(snap'[q], db') /\ SameCounts(q)'
  <2>1. /\ snap'[q] = snap[q]
        /\ \A d \in Docs : s[d] # w[d] => d \in missed'[q]
        /\ missed[q] \subseteq missed'[q]
    BY <1>1, <1>8, CommitIsMissed DEF SocialInv
  <2>2. Consistent(snap[q]) /\ Later(snap[q], db) /\ SameCounts(q)
    BY <1>8, <2>1 DEF CountersInv
  <2>3. Later(db, db')
    BY <1>2, LandsLater
  <2>4. ASSUME NEW t \in Tallies, Exists(db', Owner(t)), Owner(t) \notin missed'[q]
        PROVE  Counted(snap'[q], t) = Counted(db', t)
    <3>1. Owner(t) \in Docs
      BY TalliesAreAbout
    <3>2. s[Owner(t)] = w[Owner(t)] /\ Owner(t) \notin missed[q]
      BY <2>1, <2>4, <3>1
    <3>3. Exists(db, Owner(t))
      BY <1>2, <2>4, <3>1, <3>2 DEF Lands, Exists
    <3>4. Counted(db', t) = Counted(db, t)
      BY <1>2, <1>3, <3>2, <3>3, LandsApart
    <3> QED BY <2>1, <2>2, <3>2, <3>3, <3>4 DEF SameCounts
  <2>5. SameCounts(q)'
    BY <2>4 DEF SameCounts
  <2> QED BY <2>1, <2>2, <2>3, <2>5, LaterTwice
<1> QED BY <1>7, <1>8, <1>9 DEF CountersInv

-----------------------------------------------------------------------------
(* Kinds of documents, by the first component of their names.              *)

SourceKind(t) ==
    CASE t[1] = "likes" -> "like"
      [] t[1] = "commentlikes" -> "commentlike"
      [] t[1] \in {"followers", "following"} -> "follow"
      [] t[1] = "members" -> "member"
      [] t[1] \in {"comments", "replies"} -> "comment"
      [] OTHER -> "post"

OwnerKind(t) ==
    CASE t[1] \in {"likes", "comments", "reposts"} -> "post"
      [] t[1] \in {"commentlikes", "replies"} -> "comment"
      [] t[1] \in {"followers", "following"} -> "user"
      [] OTHER -> "community"

LEMMA KindsAre ==
    ASSUME NEW t \in Tallies
    PROVE  /\ \A i \in Things(t) : Source(t, i)[1] = SourceKind(t)
           /\ Owner(t)[1] = OwnerKind(t) /\ Owner(t)[2] = t[2]
<1> DEFINE Are == /\ \A i \in Things(t) : Source(t, i)[1] = SourceKind(t)
                  /\ Owner(t)[1] = OwnerKind(t) /\ Owner(t)[2] = t[2]
<1>1. ASSUME NEW x \in Posts, t = <<"likes", x>> PROVE Are
  <2>1. Owner(t) = Post(x) /\ \A i : Source(t, i) = Like(i, x)
    BY <1>1, PostLikesTally
  <2>2. t[1] = "likes" /\ t[2] = x
    BY <1>1
  <2>3. SourceKind(t) = "like" /\ OwnerKind(t) = "post"
    BY <2>2 DEF SourceKind, OwnerKind
  <2> QED BY <2>1, <2>2, <2>3, NamesDiffer DEF Community
<1>2. ASSUME NEW x \in Posts, t = <<"comments", x>> PROVE Are
  <2>1. Owner(t) = Post(x) /\ \A i : Source(t, i) = Comment(i)
    BY <1>2, PostCommentsTally
  <2>2. t[1] = "comments" /\ t[2] = x
    BY <1>2
  <2>3. SourceKind(t) = "comment" /\ OwnerKind(t) = "post"
    BY <2>2 DEF SourceKind, OwnerKind
  <2> QED BY <2>1, <2>2, <2>3, NamesDiffer DEF Community
<1>3. ASSUME NEW x \in Posts, t = <<"reposts", x>> PROVE Are
  <2>1. Owner(t) = Post(x) /\ \A i : Source(t, i) = Post(i)
    BY <1>3, RepostsTally
  <2>2. t[1] = "reposts" /\ t[2] = x
    BY <1>3
  <2>3. SourceKind(t) = "post" /\ OwnerKind(t) = "post"
    BY <2>2 DEF SourceKind, OwnerKind
  <2> QED BY <2>1, <2>2, <2>3, NamesDiffer DEF Community
<1>4. ASSUME NEW c \in Comments, t = <<"commentlikes", c>> PROVE Are
  <2>1. Owner(t) = Comment(c) /\ \A i : Source(t, i) = CommentLike(i, c)
    BY <1>4, CommentLikesTally
  <2>2. t[1] = "commentlikes" /\ t[2] = c
    BY <1>4
  <2>3. SourceKind(t) = "commentlike" /\ OwnerKind(t) = "comment"
    BY <2>2 DEF SourceKind, OwnerKind
  <2> QED BY <2>1, <2>2, <2>3, NamesDiffer DEF Community
<1>5. ASSUME NEW c \in Comments, t = <<"replies", c>> PROVE Are
  <2>1. Owner(t) = Comment(c) /\ \A i : Source(t, i) = Comment(i)
    BY <1>5, RepliesTally
  <2>2. t[1] = "replies" /\ t[2] = c
    BY <1>5
  <2>3. SourceKind(t) = "comment" /\ OwnerKind(t) = "comment"
    BY <2>2 DEF SourceKind, OwnerKind
  <2> QED BY <2>1, <2>2, <2>3, NamesDiffer DEF Community
<1>6. ASSUME NEW u \in Users, t = <<"followers", u>> PROVE Are
  <2>1. Owner(t) = User(u) /\ \A i : Source(t, i) = Follow(i, u)
    BY <1>6, FollowersTally
  <2>2. t[1] = "followers" /\ t[2] = u
    BY <1>6
  <2>3. SourceKind(t) = "follow" /\ OwnerKind(t) = "user"
    BY <2>2 DEF SourceKind, OwnerKind
  <2> QED BY <2>1, <2>2, <2>3, NamesDiffer DEF Community
<1>7. ASSUME NEW u \in Users, t = <<"following", u>> PROVE Are
  <2>1. Owner(t) = User(u) /\ \A i : Source(t, i) = Follow(u, i)
    BY <1>7, FollowingTally
  <2>2. t[1] = "following" /\ t[2] = u
    BY <1>7
  <2>3. SourceKind(t) = "follow" /\ OwnerKind(t) = "user"
    BY <2>2 DEF SourceKind, OwnerKind
  <2> QED BY <2>1, <2>2, <2>3, NamesDiffer DEF Community
<1>8. ASSUME NEW k \in Communities, t = <<"posts", k>> PROVE Are
  <2>1. Owner(t) = Community(k) /\ \A i : Source(t, i) = Post(i)
    BY <1>8, CommunityPostsTally
  <2>2. t[1] = "posts" /\ t[2] = k
    BY <1>8
  <2>3. SourceKind(t) = "post" /\ OwnerKind(t) = "community"
    BY <2>2 DEF SourceKind, OwnerKind
  <2> QED BY <2>1, <2>2, <2>3, NamesDiffer DEF Community
<1>9. ASSUME NEW k \in Communities, t = <<"members", k>> PROVE Are
  <2>1. Owner(t) = Community(k) /\ \A i : Source(t, i) = Member(i, k)
    BY <1>9, MembersTally
  <2>2. t[1] = "members" /\ t[2] = k
    BY <1>9
  <2>3. SourceKind(t) = "member" /\ OwnerKind(t) = "community"
    BY <2>2 DEF SourceKind, OwnerKind
  <2> QED BY <2>1, <2>2, <2>3, NamesDiffer DEF Community
<1>10. Are
  BY <1>1, <1>2, <1>3, <1>4, <1>5, <1>6, <1>7, <1>8, <1>9, EveryTally
<1> QED BY <1>10

\* A tally is known by its owner and its field.
LEMMA TallyIsField ==
    ASSUME NEW t \in Tallies, NEW q \in Tallies, Owner(t) = Owner(q), Field(t) = Field(q)
    PROVE  t = q
<1>1. t[2] = q[2] /\ OwnerKind(t) = OwnerKind(q)
  BY KindsAre
<1>2. ASSUME NEW r \in Tallies
      PROVE  /\ r = <<r[1], r[2]>>
             /\ r[1] \in {"likes", "comments", "reposts", "commentlikes", "replies", "followers",
                          "following", "posts", "members"}
  BY DEF Tallies, PostTallies, CommentTallies, UserTallies, CommunityTallies
<1>3. t[1] = q[1]
  BY <1>1, <1>2 DEF OwnerKind, Field
<1> QED BY <1>1, <1>2, <1>3

-----------------------------------------------------------------------------
(* Steps that change nothing that is counted, only what counts it.         *)

SameAccount(r, q) ==
    \/ q = r
    \/ r \in Account /\ q \in Account
SamePost(r, q) ==
    \/ q = r
    \/ /\ r \in PostRecord /\ q \in PostRecord
       /\ q.author = r.author /\ q.of = r.of /\ q.community = r.community /\ q.status = r.status
SameComment(r, q) ==
    \/ q = r
    \/ /\ r \in CommentRecord /\ q \in CommentRecord
       /\ q.post = r.post /\ q.parent = r.parent
SameCommunity(r, q) ==
    \/ q = r
    \/ r \in CommunityRecord /\ q \in CommunityRecord /\ q.creator = r.creator

Steady(s, w) ==
    /\ IsDatabase(w)
    /\ \A u \in Users : SameAccount(s[User(u)], w[User(u)])
    /\ \A x \in Posts : SamePost(s[Post(x)], w[Post(x)])
    /\ \A c \in Comments : SameComment(s[Comment(c)], w[Comment(c)])
    /\ \A k \in Communities : SameCommunity(s[Community(k)], w[Community(k)])
    /\ \A u \in Users, k \in Communities : w[Member(u, k)] = s[Member(u, k)]
    /\ \A d \in Relations : d[1] # "view" => w[d] = s[d]

\* The counter of t keeps its value.
SameField(s, w, t) == Exists(s, Owner(t)) => w[Owner(t)][Field(t)] = s[Owner(t)][Field(t)]

LEMMA SameItself ==
    \A r : SameAccount(r, r) /\ SamePost(r, r) /\ SameComment(r, r) /\ SameCommunity(r, r)
BY DEF SameAccount, SamePost, SameComment, SameCommunity

LEMMA SameTwice ==
    ASSUME NEW r, NEW q, NEW z
    PROVE  /\ SameAccount(r, q) /\ SameAccount(q, z) => SameAccount(r, z)
           /\ SamePost(r, q) /\ SamePost(q, z) => SamePost(r, z)
           /\ SameComment(r, q) /\ SameComment(q, z) => SameComment(r, z)
           /\ SameCommunity(r, q) /\ SameCommunity(q, z) => SameCommunity(r, z)
<1>1. SameAccount(r, q) /\ SameAccount(q, z) => SameAccount(r, z)
  BY DEF SameAccount
<1>2. SamePost(r, q) /\ SamePost(q, z) => SamePost(r, z)
  BY DEF SamePost
<1>3. SameComment(r, q) /\ SameComment(q, z) => SameComment(r, z)
  BY DEF SameComment
<1>4. SameCommunity(r, q) /\ SameCommunity(q, z) => SameCommunity(r, z)
  BY DEF SameCommunity
<1> QED BY <1>1, <1>2, <1>3, <1>4

LEMMA SteadyNothing ==
    ASSUME NEW s, IsDatabase(s)
    PROVE  Steady(s, s)
BY SameItself DEF Steady

LEMMA SteadyTwice ==
    ASSUME NEW s, NEW w, NEW v, Steady(s, w), Steady(w, v)
    PROVE  Steady(s, v)
BY SameTwice DEF Steady

LEMMA SteadyOwners ==
    ASSUME NEW s, NEW w, Steady(s, w), NEW d \in OwnerDocs
    PROVE  /\ w[d] = Gone <=> s[d] = Gone
           /\ w[d] = Unborn <=> s[d] = Unborn
           /\ Exists(w, d) <=> Exists(s, d)
<1>1. \/ w[d] = s[d]
      \/ s[d] \in Account /\ w[d] \in Account
      \/ s[d] \in PostRecord /\ w[d] \in PostRecord
      \/ s[d] \in CommentRecord /\ w[d] \in CommentRecord
      \/ s[d] \in CommunityRecord /\ w[d] \in CommunityRecord
  BY DEF Steady, OwnerDocs, UserDocs, PostDocs, CommentDocs, CommunityDocs,
         SameAccount, SamePost, SameComment, SameCommunity
<1> QED BY <1>1, MissingAssumption DEF Exists

LEMMA SteadyCounted ==
    ASSUME NEW s, NEW w, Steady(s, w), NEW t \in Tallies
    PROVE  Counted(w, t) = Counted(s, t)
<1> DEFINE Same == Counted(w, t) = Counted(s, t)
<1>0. \A i \in Things(t) : Source(t, i) \in Docs
  BY TalliesAreAbout
<1>1. ASSUME NEW x \in Posts, t = <<"likes", x>> PROVE Same
  <2>1. \A i : Source(t, i) = Like(i, x)
    BY <1>1, PostLikesTally
  <2>2. \A i \in Things(t) : Source(t, i) \in Relations /\ Source(t, i)[1] # "view"
    BY <1>0, <2>1, CollectionsDiffer, NamesDiffer DEF Docs
  <2> QED BY <2>2 DEF Counted, Steady
<1>2. ASSUME NEW x \in Posts, t = <<"comments", x>> PROVE Same
  <2>1. Things(t) = Comments /\ \A i : Source(t, i) = Comment(i)
    BY <1>2, PostCommentsTally
  <2>2. \A r : Counts(t, r) <=> r \notin {Unborn, Gone} /\ r.post = x
    BY <1>2, PostCommentsTally
  <2>3. \A i \in Things(t) : Counts(t, w[Source(t, i)]) <=> Counts(t, s[Source(t, i)])
    BY <2>1, <2>2, MissingAssumption DEF Steady, SamePost, SameComment
  <2> QED BY <2>3 DEF Counted
<1>3. ASSUME NEW x \in Posts, t = <<"reposts", x>> PROVE Same
  <2>1. Things(t) = Posts /\ \A i : Source(t, i) = Post(i)
    BY <1>3, RepostsTally
  <2>2. \A r : Counts(t, r) <=>
               r \notin {Unborn, Gone} /\ r.of = x /\ r.status = "active"
    BY <1>3, RepostsTally
  <2>3. \A i \in Things(t) : Counts(t, w[Source(t, i)]) <=> Counts(t, s[Source(t, i)])
    BY <2>1, <2>2, MissingAssumption DEF Steady, SamePost, SameComment
  <2> QED BY <2>3 DEF Counted
<1>4. ASSUME NEW c \in Comments, t = <<"commentlikes", c>> PROVE Same
  <2>1. \A i : Source(t, i) = CommentLike(i, c)
    BY <1>4, CommentLikesTally
  <2>2. \A i \in Things(t) : Source(t, i) \in Relations /\ Source(t, i)[1] # "view"
    BY <1>0, <2>1, CollectionsDiffer, NamesDiffer DEF Docs
  <2> QED BY <2>2 DEF Counted, Steady
<1>5. ASSUME NEW c \in Comments, t = <<"replies", c>> PROVE Same
  <2>1. Things(t) = Comments /\ \A i : Source(t, i) = Comment(i)
    BY <1>5, RepliesTally
  <2>2. \A r : Counts(t, r) <=> r \notin {Unborn, Gone} /\ r.parent = c
    BY <1>5, RepliesTally
  <2>3. \A i \in Things(t) : Counts(t, w[Source(t, i)]) <=> Counts(t, s[Source(t, i)])
    BY <2>1, <2>2, MissingAssumption DEF Steady, SamePost, SameComment
  <2> QED BY <2>3 DEF Counted
<1>6. ASSUME NEW u \in Users, t = <<"followers", u>> PROVE Same
  <2>1. \A i : Source(t, i) = Follow(i, u)
    BY <1>6, FollowersTally
  <2>2. \A i \in Things(t) : Source(t, i) \in Relations /\ Source(t, i)[1] # "view"
    BY <1>0, <2>1, CollectionsDiffer, NamesDiffer DEF Docs
  <2> QED BY <2>2 DEF Counted, Steady
<1>7. ASSUME NEW u \in Users, t = <<"following", u>> PROVE Same
  <2>1. \A i : Source(t, i) = Follow(u, i)
    BY <1>7, FollowingTally
  <2>2. \A i \in Things(t) : Source(t, i) \in Relations /\ Source(t, i)[1] # "view"
    BY <1>0, <2>1, CollectionsDiffer, NamesDiffer DEF Docs
  <2> QED BY <2>2 DEF Counted, Steady
<1>8. ASSUME NEW k \in Communities, t = <<"posts", k>> PROVE Same
  <2>1. Things(t) = Posts /\ \A i : Source(t, i) = Post(i)
    BY <1>8, CommunityPostsTally
  <2>2. \A r : Counts(t, r) <=>
               r \notin {Unborn, Gone} /\ r.community = k /\ r.status = "active"
    BY <1>8, CommunityPostsTally
  <2>3. \A i \in Things(t) : Counts(t, w[Source(t, i)]) <=> Counts(t, s[Source(t, i)])
    BY <2>1, <2>2, MissingAssumption DEF Steady, SamePost, SameComment
  <2> QED BY <2>3 DEF Counted
<1>9. ASSUME NEW k \in Communities, t = <<"members", k>> PROVE Same
  <2>1. Things(t) = Users /\ \A i : Source(t, i) = Member(i, k)
    BY <1>9, MembersTally
  <2> QED BY <2>1 DEF Counted, Steady
<1>10. Same
  BY <1>1, <1>2, <1>3, <1>4, <1>5, <1>6, <1>7, <1>8, <1>9, EveryTally
<1> QED BY <1>10

-----------------------------------------------------------------------------
(* Counters that are incremented or counted again.                         *)

\* f is a counter of document d.
Countable(d, f) ==
    \/ d \in UserDocs /\ f \in {"followers", "following", "posts"}
    \/ d \in PostDocs /\ f \in {"likes", "comments", "reposts", "views"}
    \/ d \in CommentDocs /\ f \in {"likes", "replies"}
    \/ d \in CommunityDocs /\ f \in {"members", "posts"}

LEMMA TalliesAreCountable ==
    ASSUME NEW t \in Tallies
    PROVE  Countable(Owner(t), Field(t))
<1>1. ASSUME NEW x \in Posts, t = <<"likes", x>> PROVE Countable(Owner(t), Field(t))
  BY <1>1, PostLikesTally DEF Countable, PostDocs
<1>2. ASSUME NEW x \in Posts, t = <<"comments", x>> PROVE Countable(Owner(t), Field(t))
  BY <1>2, PostCommentsTally DEF Countable, PostDocs
<1>3. ASSUME NEW x \in Posts, t = <<"reposts", x>> PROVE Countable(Owner(t), Field(t))
  BY <1>3, RepostsTally DEF Countable, PostDocs
<1>4. ASSUME NEW c \in Comments, t = <<"commentlikes", c>> PROVE Countable(Owner(t), Field(t))
  BY <1>4, CommentLikesTally DEF Countable, CommentDocs
<1>5. ASSUME NEW c \in Comments, t = <<"replies", c>> PROVE Countable(Owner(t), Field(t))
  BY <1>5, RepliesTally DEF Countable, CommentDocs
<1>6. ASSUME NEW u \in Users, t = <<"followers", u>> PROVE Countable(Owner(t), Field(t))
  BY <1>6, FollowersTally DEF Countable, UserDocs
<1>7. ASSUME NEW u \in Users, t = <<"following", u>> PROVE Countable(Owner(t), Field(t))
  BY <1>7, FollowingTally DEF Countable, UserDocs
<1>8. ASSUME NEW k \in Communities, t = <<"posts", k>> PROVE Countable(Owner(t), Field(t))
  BY <1>8, CommunityPostsTally DEF Countable, CommunityDocs
<1>9. ASSUME NEW k \in Communities, t = <<"members", k>> PROVE Countable(Owner(t), Field(t))
  BY <1>9, MembersTally DEF Countable, CommunityDocs
<1> QED BY <1>1, <1>2, <1>3, <1>4, <1>5, <1>6, <1>7, <1>8, <1>9, EveryTally

\* Other fields than the counter keep their values.
SameBut(r, q, d, f) == \A g : Countable(d, g) /\ g # f => q[g] = r[g]

LEMMA AccountCounter ==
    ASSUME NEW r \in Account, NEW n \in Int, NEW f \in {"followers", "following", "posts"},
           NEW q, q = [r EXCEPT ![f] = n]
    PROVE  /\ SameAccount(r, q) /\ q \in Account /\ q[f] = n /\ r[f] \in Int
           /\ \A g \in {"followers", "following", "posts"} : g # f => q[g] = r[g]
<1>1. CASE f = "followers"
  BY <1>1 DEF SameAccount, Account
<1>2. CASE f = "following"
  BY <1>2 DEF SameAccount, Account
<1>3. CASE f = "posts"
  BY <1>3 DEF SameAccount, Account
<1> QED BY <1>1, <1>2, <1>3

LEMMA PostCounter ==
    ASSUME NEW r \in PostRecord, NEW n \in Int, NEW f \in {"likes", "comments", "reposts", "views"},
           NEW q, q = [r EXCEPT ![f] = n]
    PROVE  /\ SamePost(r, q) /\ q \in PostRecord /\ q[f] = n /\ r[f] \in Int
           /\ \A g \in {"likes", "comments", "reposts", "views"} : g # f => q[g] = r[g]
<1>1. CASE f = "likes"
  BY <1>1 DEF SamePost, PostRecord
<1>2. CASE f = "comments"
  BY <1>2 DEF SamePost, PostRecord
<1>3. CASE f = "reposts"
  BY <1>3 DEF SamePost, PostRecord
<1>4. CASE f = "views"
  BY <1>4 DEF SamePost, PostRecord
<1> QED BY <1>1, <1>2, <1>3, <1>4

LEMMA CommentCounter ==
    ASSUME NEW r \in CommentRecord, NEW n \in Int, NEW f \in {"likes", "replies"},
           NEW q, q = [r EXCEPT ![f] = n]
    PROVE  /\ SameComment(r, q) /\ q \in CommentRecord /\ q[f] = n /\ r[f] \in Int
           /\ \A g \in {"likes", "replies"} : g # f => q[g] = r[g]
<1>1. CASE f = "likes"
  BY <1>1 DEF SameComment, CommentRecord
<1>2. CASE f = "replies"
  BY <1>2 DEF SameComment, CommentRecord
<1> QED BY <1>1, <1>2

LEMMA CommunityCounter ==
    ASSUME NEW r \in CommunityRecord, NEW n \in Int, NEW f \in {"members", "posts"},
           NEW q, q = [r EXCEPT ![f] = n]
    PROVE  /\ SameCommunity(r, q) /\ q \in CommunityRecord /\ q[f] = n /\ r[f] \in Int
           /\ \A g \in {"members", "posts"} : g # f => q[g] = r[g]
<1>1. CASE f = "members"
  BY <1>1 DEF SameCommunity, CommunityRecord
<1>2. CASE f = "posts"
  BY <1>2 DEF SameCommunity, CommunityRecord
<1> QED BY <1>1, <1>2

\* One counter of document d becomes n.
LEMMA CounterIs ==
    ASSUME NEW s, IsDatabase(s), NEW d, NEW f, Countable(d, f), Exists(s, d), NEW n \in Int,
           NEW r, r = [s[d] EXCEPT ![f] = n]
    PROVE  /\ r[f] = n /\ s[d][f] \in Int
           /\ SameBut(s[d], r, d, f)
           /\ d \in UserDocs => SameAccount(s[d], r) /\ r \in Account
           /\ d \in PostDocs => SamePost(s[d], r) /\ r \in PostRecord
           /\ d \in CommentDocs => SameComment(s[d], r) /\ r \in CommentRecord
           /\ d \in CommunityDocs => SameCommunity(s[d], r) /\ r \in CommunityRecord
<1>1. CASE d \in UserDocs
  <2>1. d \notin PostDocs /\ d \notin CommentDocs /\ d \notin CommunityDocs
    BY <1>1, CollectionsDiffer
  <2>5. ASSUME NEW g PROVE Countable(d, g) <=> g \in {"followers", "following", "posts"}
    BY <1>1, <2>1 DEF Countable
  <2>2. f \in {"followers", "following", "posts"}
    BY <2>5
  <2>3. s[d] \in Account
    BY <1>1, DatabaseIs DEF UserDocs, Exists
  <2> DEFINE o == s[d]
  <2>6. o \in Account /\ r = [o EXCEPT ![f] = n]
    BY <2>3
  <2> HIDE DEF o
  <2>7. /\ SameAccount(o, r) /\ r \in Account /\ r[f] = n /\ o[f] \in Int
        /\ \A g \in {"followers", "following", "posts"} : g # f => r[g] = o[g]
    BY <2>2, <2>6, AccountCounter
  <2>4. /\ SameAccount(s[d], r) /\ r \in Account /\ r[f] = n /\ s[d][f] \in Int
        /\ \A g \in {"followers", "following", "posts"} : g # f => r[g] = s[d][g]
    BY <2>7 DEF o
  <2> QED BY <1>1, <2>1, <2>4, <2>5 DEF SameBut
<1>2. CASE d \in PostDocs
  <2>1. d \notin UserDocs /\ d \notin CommentDocs /\ d \notin CommunityDocs
    BY <1>2, CollectionsDiffer
  <2>5. ASSUME NEW g PROVE Countable(d, g) <=> g \in {"likes", "comments", "reposts", "views"}
    BY <1>2, <2>1 DEF Countable
  <2>2. f \in {"likes", "comments", "reposts", "views"}
    BY <2>5
  <2>3. s[d] \in PostRecord
    BY <1>2, DatabaseIs DEF PostDocs, Exists
  <2> DEFINE o == s[d]
  <2>6. o \in PostRecord /\ r = [o EXCEPT ![f] = n]
    BY <2>3
  <2> HIDE DEF o
  <2>7. /\ SamePost(o, r) /\ r \in PostRecord /\ r[f] = n /\ o[f] \in Int
        /\ \A g \in {"likes", "comments", "reposts", "views"} : g # f => r[g] = o[g]
    BY <2>2, <2>6, PostCounter
  <2>4. /\ SamePost(s[d], r) /\ r \in PostRecord /\ r[f] = n /\ s[d][f] \in Int
        /\ \A g \in {"likes", "comments", "reposts", "views"} : g # f => r[g] = s[d][g]
    BY <2>7 DEF o
  <2> QED BY <1>2, <2>1, <2>4, <2>5 DEF SameBut
<1>3. CASE d \in CommentDocs
  <2>1. d \notin UserDocs /\ d \notin PostDocs /\ d \notin CommunityDocs
    BY <1>3, CollectionsDiffer
  <2>5. ASSUME NEW g PROVE Countable(d, g) <=> g \in {"likes", "replies"}
    BY <1>3, <2>1 DEF Countable
  <2>2. f \in {"likes", "replies"}
    BY <2>5
  <2>3. s[d] \in CommentRecord
    BY <1>3, DatabaseIs DEF CommentDocs, Exists
  <2> DEFINE o == s[d]
  <2>6. o \in CommentRecord /\ r = [o EXCEPT ![f] = n]
    BY <2>3
  <2> HIDE DEF o
  <2>7. /\ SameComment(o, r) /\ r \in CommentRecord /\ r[f] = n /\ o[f] \in Int
        /\ \A g \in {"likes", "replies"} : g # f => r[g] = o[g]
    BY <2>2, <2>6, CommentCounter
  <2>4. /\ SameComment(s[d], r) /\ r \in CommentRecord /\ r[f] = n /\ s[d][f] \in Int
        /\ \A g \in {"likes", "replies"} : g # f => r[g] = s[d][g]
    BY <2>7 DEF o
  <2> QED BY <1>3, <2>1, <2>4, <2>5 DEF SameBut
<1>4. CASE d \in CommunityDocs
  <2>1. d \notin UserDocs /\ d \notin PostDocs /\ d \notin CommentDocs
    BY <1>4, CollectionsDiffer
  <2>5. ASSUME NEW g PROVE Countable(d, g) <=> g \in {"members", "posts"}
    BY <1>4, <2>1 DEF Countable
  <2>2. f \in {"members", "posts"}
    BY <2>5
  <2>3. s[d] \in CommunityRecord
    BY <1>4, DatabaseIs DEF CommunityDocs, Exists
  <2> DEFINE o == s[d]
  <2>6. o \in CommunityRecord /\ r = [o EXCEPT ![f] = n]
    BY <2>3
  <2> HIDE DEF o
  <2>7. /\ SameCommunity(o, r) /\ r \in CommunityRecord /\ r[f] = n /\ o[f] \in Int
        /\ \A g \in {"members", "posts"} : g # f => r[g] = o[g]
    BY <2>2, <2>6, CommunityCounter
  <2>4. /\ SameCommunity(s[d], r) /\ r \in CommunityRecord /\ r[f] = n /\ s[d][f] \in Int
        /\ \A g \in {"members", "posts"} : g # f => r[g] = s[d][g]
    BY <2>7 DEF o
  <2> QED BY <1>4, <2>1, <2>4, <2>5 DEF SameBut
<1> QED BY <1>1, <1>2, <1>3, <1>4 DEF Countable

\* From s to w the counter f of some documents of D changes.
Ticks(s, w, D, f) ==
    /\ DOMAIN w = Docs
    /\ \A d \in Docs : w[d] # s[d] =>
         /\ d \in D /\ Exists(s, d)
         /\ \E n \in Int : w[d] = [s[d] EXCEPT ![f] = n]

LEMMA TicksAreSteady ==
    ASSUME NEW s, NEW w, NEW D, NEW f, IsDatabase(s), Ticks(s, w, D, f),
           \A d \in D : Countable(d, f)
    PROVE  /\ Steady(s, w)
           /\ \A t \in Tallies : Owner(t) \notin D \/ Field(t) # f => SameField(s, w, t)
<1>1. ASSUME NEW d \in Docs, w[d] # s[d]
      PROVE  /\ d \in OwnerDocs /\ SameBut(s[d], w[d], d, f)
             /\ d \in UserDocs => SameAccount(s[d], w[d]) /\ w[d] \in Account
             /\ d \in PostDocs => SamePost(s[d], w[d]) /\ w[d] \in PostRecord
             /\ d \in CommentDocs => SameComment(s[d], w[d]) /\ w[d] \in CommentRecord
             /\ d \in CommunityDocs => SameCommunity(s[d], w[d]) /\ w[d] \in CommunityRecord
  <2>1. /\ d \in D /\ Exists(s, d) /\ Countable(d, f)
        /\ \E n \in Int : w[d] = [s[d] EXCEPT ![f] = n]
    BY <1>1 DEF Ticks
  <2>2. d \in OwnerDocs
    BY <2>1 DEF Countable, OwnerDocs
  <2> QED BY <2>1, <2>2, CounterIs
<1>2. \A d \in Docs : d \notin OwnerDocs => w[d] = s[d]
  BY <1>1
<1>3. \A d \in MemberDocs \cup Relations \cup {Guard} : d \in Docs /\ d \notin OwnerDocs
  BY CollectionsDiffer, NamesDiffer DEF OwnerDocs, Docs
<1>4. /\ \A u \in Users : User(u) \in Docs /\ User(u) \in UserDocs
      /\ \A x \in Posts : Post(x) \in Docs /\ Post(x) \in PostDocs
      /\ \A c \in Comments : Comment(c) \in Docs /\ Comment(c) \in CommentDocs
      /\ \A k \in Communities : Community(k) \in Docs /\ Community(k) \in CommunityDocs
      /\ \A u \in Users, k \in Communities : Member(u, k) \in MemberDocs
  BY DEF Docs, UserDocs, PostDocs, CommentDocs, CommunityDocs, MemberDocs
<1>5. /\ \A u \in Users : SameAccount(s[User(u)], w[User(u)])
      /\ \A x \in Posts : SamePost(s[Post(x)], w[Post(x)])
      /\ \A c \in Comments : SameComment(s[Comment(c)], w[Comment(c)])
      /\ \A k \in Communities : SameCommunity(s[Community(k)], w[Community(k)])
  BY <1>1, <1>4, SameItself
<1>6. /\ \A u \in Users, k \in Communities : w[Member(u, k)] = s[Member(u, k)]
      /\ \A d \in Relations \cup {Guard} : w[d] = s[d]
  BY <1>2, <1>3, <1>4
<1>7. IsDatabase(w)
  <2>1. DOMAIN w = Docs
    BY DEF Ticks
  <2>2. /\ \A u \in Users : w[User(u)] \in Account \cup {Unborn, Gone}
        /\ \A x \in Posts : w[Post(x)] \in PostRecord \cup {Unborn, Gone}
        /\ \A c \in Comments : w[Comment(c)] \in CommentRecord \cup {Unborn, Gone}
        /\ \A k \in Communities : w[Community(k)] \in CommunityRecord \cup {Unborn, Gone}
    <3>1. /\ \A u \in Users : s[User(u)] \in Account \cup {Unborn, Gone}
          /\ \A x \in Posts : s[Post(x)] \in PostRecord \cup {Unborn, Gone}
          /\ \A c \in Comments : s[Comment(c)] \in CommentRecord \cup {Unborn, Gone}
          /\ \A k \in Communities : s[Community(k)] \in CommunityRecord \cup {Unborn, Gone}
      BY DatabaseIs
    <3> QED BY <1>1, <1>4, <3>1
  <2>3. /\ \A u \in Users, k \in Communities : w[Member(u, k)] \in Roles
        /\ \A d \in Relations \cup {Guard} : w[d] \in BOOLEAN
    BY <1>6, DatabaseIs
  <2> QED BY <2>1, <2>2, <2>3, DatabaseIs
<1>8. Steady(s, w)
  BY <1>5, <1>6, <1>7 DEF Steady
<1>9. ASSUME NEW t \in Tallies, Owner(t) \notin D \/ Field(t) # f
      PROVE  SameField(s, w, t)
  <2>1. Owner(t) \in Docs
    BY TalliesAreAbout
  <2>2. CASE w[Owner(t)] = s[Owner(t)]
    BY <2>2 DEF SameField
  <2>3. CASE w[Owner(t)] # s[Owner(t)]
    <3>1. Field(t) # f
      BY <1>9, <2>1, <2>3 DEF Ticks
    <3> QED BY <1>1, <2>1, <2>3, <3>1, TalliesAreCountable DEF SameBut, SameField
  <2> QED BY <2>2, <2>3
<1> QED BY <1>8, <1>9

LEMMA ReplaceIs ==
    ASSUME NEW s, NEW f
    PROVE  Replace(s, f) = [d \in DOMAIN s |-> IF d \in DOMAIN f THEN f[d] ELSE s[d]]
BY DEF Replace

\* What an increment does, and a recount.
LEMMA IncrementIs ==
    ASSUME NEW s, IsDatabase(s), NEW d \in Docs, NEW f, Countable(d, f), NEW n \in Int,
           NEW w, w = Increment(s, d, f, n)
    PROVE  /\ Steady(s, w)
           /\ \A t \in Tallies :
                IF Owner(t) = d /\ Field(t) = f
                THEN Exists(s, d) => w[d][f] = s[d][f] + n
                ELSE SameField(s, w, t)
           /\ \A e \in Docs \ {d} : w[e] = s[e]
<1>1. CASE ~Exists(s, d)
  <2>1. w = s
    BY <1>1 DEF Increment
  <2> QED BY <1>1, <2>1, SteadyNothing DEF SameField
<1>2. CASE Exists(s, d)
  <2> DEFINE r == [s[d] EXCEPT ![f] = s[d][f] + n]
  <2>1. s[d][f] \in Int
    BY <1>2, CounterIs
  <2>2. s[d][f] + n \in Int
    BY <2>1
  <2>3. r[f] = s[d][f] + n
    <3>1. PICK m \in Int : m = s[d][f] + n
      BY <2>2
    <3>2. r = [s[d] EXCEPT ![f] = m]
      BY <3>1
    <3> HIDE DEF r
    <3>3. r[f] = m
      BY <1>2, <3>2, CounterIs
    <3> QED BY <3>1, <3>3
  <2>4. w = [s EXCEPT ![d] = r]
    BY <1>2 DEF Increment
  <2>5. \E m \in Int : r = [s[d] EXCEPT ![f] = m]
    BY <2>2
  <2> HIDE DEF r
  <2>6. DOMAIN w = Docs /\ \A e \in Docs : w[e] = IF e = d THEN r ELSE s[e]
    BY <2>4 DEF IsDatabase
  <2>7. Ticks(s, w, {d}, f)
    BY <1>2, <2>5, <2>6 DEF Ticks
  <2>8. Steady(s, w) /\ \A t \in Tallies : Owner(t) # d \/ Field(t) # f => SameField(s, w, t)
    BY <2>7, TicksAreSteady
  <2> QED BY <2>3, <2>6, <2>8
<1> QED BY <1>1, <1>2

Family(D, f) == {t \in Tallies : Owner(t) \in D /\ Field(t) = f}

\* The counters of K become right, the others keep their values.
Recounted(s, w, K) ==
    /\ Steady(s, w)
    /\ \A t \in Tallies : IF t \in K THEN IsRight(w, t) ELSE SameField(s, w, t)

LEMMA SteadyRight ==
    ASSUME NEW s, NEW w, Steady(s, w), NEW t \in Tallies, SameField(s, w, t), IsRight(s, t)
    PROVE  IsRight(w, t)
<1>1. Counted(w, t) = Counted(s, t) /\ (Exists(w, Owner(t)) <=> Exists(s, Owner(t)))
  BY SteadyCounted, SteadyOwners, TalliesAreAbout
<1> QED BY <1>1 DEF IsRight, SameField

\* h[d] is what the documents of D count.
LEMMA RecountIs ==
    ASSUME NEW s, IsDatabase(s), NEW D, NEW f, NEW h, NEW w,
           \A d \in D : d \in Docs /\ Countable(d, f) /\ h[d] \in Int,
           \A t \in Family(D, f) : h[Owner(t)] = Cardinality(Counted(s, t)),
           w = Replace(s, [d \in {e \in D : Exists(s, e)} |-> [s[d] EXCEPT ![f] = h[d]]])
    PROVE  Recounted(s, w, Family(D, f)) /\ \A e \in Docs \ D : w[e] = s[e]
<1> DEFINE g == [d \in {e \in D : Exists(s, e)} |-> [s[d] EXCEPT ![f] = h[d]]]
<1>1. DOMAIN w = Docs /\ \A d \in Docs : w[d] = IF d \in DOMAIN g THEN g[d] ELSE s[d]
  BY ReplaceIs DEF IsDatabase
<1>2. DOMAIN g = {e \in D : Exists(s, e)}
  OBVIOUS
<1>3. ASSUME NEW d \in DOMAIN g
      PROVE  g[d] = [s[d] EXCEPT ![f] = h[d]] /\ h[d] \in Int /\ g[d][f] = h[d]
  <2>1. Exists(s, d) /\ Countable(d, f) /\ h[d] \in Int
    BY <1>2, <1>3
  <2>2. g[d] = [s[d] EXCEPT ![f] = h[d]]
    BY <1>3
  <2> HIDE DEF g
  <2>3. g[d][f] = h[d]
    BY <2>1, <2>2, CounterIs
  <2> QED BY <2>1, <2>2, <2>3
<1> HIDE DEF g
<1>4. Ticks(s, w, D, f)
  <2>1. ASSUME NEW d \in Docs, w[d] # s[d]
        PROVE  /\ d \in D /\ Exists(s, d)
               /\ \E n \in Int : w[d] = [s[d] EXCEPT ![f] = n]
    <3>1. d \in DOMAIN g /\ w[d] = g[d]
      BY <1>1, <2>1
    <3>2. g[d] = [s[d] EXCEPT ![f] = h[d]] /\ h[d] \in Int
      BY <1>3, <3>1
    <3>3. \E n \in Int : g[d] = [s[d] EXCEPT ![f] = n]
      BY <3>2
    <3> QED BY <1>2, <3>1, <3>3
  <2> QED BY <1>1, <2>1 DEF Ticks
<1>5. Steady(s, w) /\ \A t \in Tallies : Owner(t) \notin D \/ Field(t) # f => SameField(s, w, t)
  BY <1>4, TicksAreSteady
<1>6. ASSUME NEW t \in Family(D, f) PROVE IsRight(w, t)
  <2>1. t \in Tallies /\ Owner(t) \in D /\ Field(t) = f /\ Owner(t) \in Docs
    BY <1>6, TalliesAreAbout DEF Family
  <2>2. Counted(w, t) = Counted(s, t) /\ (Exists(w, Owner(t)) <=> Exists(s, Owner(t)))
    BY <1>5, <2>1, SteadyCounted, SteadyOwners, TalliesAreAbout
  <2>3. Exists(s, Owner(t)) => w[Owner(t)][f] = h[Owner(t)]
    BY <1>1, <1>2, <1>3, <2>1
  <2> QED BY <1>6, <2>1, <2>2, <2>3 DEF IsRight
<1> QED BY <1>1, <1>2, <1>5, <1>6 DEF Recounted, Family

\* D owns the tallies of K, whose field is f, and h counts them.
IsOwned(s, K, D, f, h) ==
    /\ K \subseteq Tallies
    /\ \A d \in D : \E t \in K : d = Owner(t)
    /\ \A t \in K : Owner(t) \in D /\ Field(t) = f /\ h[Owner(t)] = Cardinality(Counted(s, t))

LEMMA FamilyIs ==
    ASSUME NEW s, NEW K, NEW D, NEW f, NEW h, IsOwned(s, K, D, f, h)
    PROVE  /\ Family(D, f) = K
           /\ \A d \in D : d \in Docs /\ Countable(d, f) /\ h[d] \in Int
<1>1. Family(D, f) = K
  BY TallyIsField DEF Family, IsOwned
<1>2. ASSUME NEW d \in D PROVE d \in Docs /\ Countable(d, f) /\ h[d] \in Int
  <2>1. PICK t \in K : d = Owner(t)
    BY DEF IsOwned
  <2>2. Cardinality(Counted(s, t)) \in Nat
    BY TalliesAreAbout, FS_Subset, FS_CardinalityType DEF Counted, IsOwned
  <2> QED BY <2>1, <2>2, TalliesAreAbout, TalliesAreCountable DEF IsOwned
<1> QED BY <1>1, <1>2

LEMMA PostLikesAreRecounted ==
    ASSUME NEW s, IsDatabase(s), NEW xs \in SUBSET Posts, NEW w,
           w = recomputePostLikeCounts(s, xs)
    PROVE  /\ Recounted(s, w, {<<"likes", x>> : x \in xs})
           /\ \A e \in Docs : e[1] # "post" => w[e] = s[e]
<1> DEFINE K == {<<"likes", x>> : x \in xs}
           D == {Post(x) : x \in xs}
           h == [d \in D |-> Cardinality(LikesOf(s, d[2]))]
<1>1. ASSUME NEW x \in xs, NEW t, t = <<"likes", x>>
      PROVE  /\ t \in Tallies /\ Owner(t) = Post(x) /\ Field(t) = "likes"
             /\ h[Owner(t)] = Cardinality(Counted(s, t))
  <2>1. t \in Tallies /\ Owner(t) = Post(x) /\ Field(t) = "likes" /\ Counted(s, t) = LikesOf(s, x)
    BY <1>1, PostLikesTally
  <2>2. h[Post(x)] = Cardinality(LikesOf(s, x))
    BY DEF Post
  <2> QED BY <2>1, <2>2
<1>2. IsOwned(s, K, D, "likes", h)
  <2>1. K \subseteq Tallies
    BY <1>1
  <2>2. \A d \in D : \E t \in K : d = Owner(t)
    BY <1>1
  <2>3. \A t \in K : Owner(t) \in D /\ Field(t) = "likes" /\ h[Owner(t)] = Cardinality(Counted(s, t))
    BY <1>1
  <2> HIDE DEF K, D, h
  <2> QED BY <2>1, <2>2, <2>3 DEF IsOwned
<1>3. w = Replace(s, [d \in {e \in D : Exists(s, e)} |-> [s[d] EXCEPT !["likes"] = h[d]]])
  BY DEF recomputePostLikeCounts, Recount
<1>4. \A e \in D : e[1] = "post"
  BY DEF Post
<1> HIDE DEF K, D, h
<1>5. /\ Family(D, "likes") = K
      /\ \A d \in D : d \in Docs /\ Countable(d, "likes") /\ h[d] \in Int
  BY <1>2, FamilyIs
<1>6. Recounted(s, w, Family(D, "likes")) /\ \A e \in Docs \ D : w[e] = s[e]
  BY <1>2, <1>3, <1>5, RecountIs DEF IsOwned
<1> QED BY <1>4, <1>5, <1>6 DEF K

LEMMA PostCommentsAreRecounted ==
    ASSUME NEW s, IsDatabase(s), NEW xs \in SUBSET Posts, NEW w,
           w = recomputePostCommentCounts(s, xs)
    PROVE  /\ Recounted(s, w, {<<"comments", x>> : x \in xs})
           /\ \A e \in Docs : e[1] # "post" => w[e] = s[e]
<1> DEFINE K == {<<"comments", x>> : x \in xs}
           D == {Post(x) : x \in xs}
           h == [d \in D |-> Cardinality(CommentsOf(s, d[2]))]
<1>1. ASSUME NEW x \in xs, NEW t, t = <<"comments", x>>
      PROVE  /\ t \in Tallies /\ Owner(t) = Post(x) /\ Field(t) = "comments"
             /\ h[Owner(t)] = Cardinality(Counted(s, t))
  <2>1. t \in Tallies /\ Owner(t) = Post(x) /\ Field(t) = "comments" /\ Counted(s, t) = CommentsOf(s, x)
    BY <1>1, PostCommentsTally
  <2>2. h[Post(x)] = Cardinality(CommentsOf(s, x))
    BY DEF Post
  <2> QED BY <2>1, <2>2
<1>2. IsOwned(s, K, D, "comments", h)
  <2>1. K \subseteq Tallies
    BY <1>1
  <2>2. \A d \in D : \E t \in K : d = Owner(t)
    BY <1>1
  <2>3. \A t \in K : Owner(t) \in D /\ Field(t) = "comments" /\ h[Owner(t)] = Cardinality(Counted(s, t))
    BY <1>1
  <2> HIDE DEF K, D, h
  <2> QED BY <2>1, <2>2, <2>3 DEF IsOwned
<1>3. w = Replace(s, [d \in {e \in D : Exists(s, e)} |-> [s[d] EXCEPT !["comments"] = h[d]]])
  BY DEF recomputePostCommentCounts, Recount
<1>4. \A e \in D : e[1] = "post"
  BY DEF Post
<1> HIDE DEF K, D, h
<1>5. /\ Family(D, "comments") = K
      /\ \A d \in D : d \in Docs /\ Countable(d, "comments") /\ h[d] \in Int
  BY <1>2, FamilyIs
<1>6. Recounted(s, w, Family(D, "comments")) /\ \A e \in Docs \ D : w[e] = s[e]
  BY <1>2, <1>3, <1>5, RecountIs DEF IsOwned
<1> QED BY <1>4, <1>5, <1>6 DEF K

LEMMA RepostsAreRecounted ==
    ASSUME NEW s, IsDatabase(s), NEW xs \in SUBSET Posts, NEW w,
           w = recomputeRepostCounts(s, xs)
    PROVE  /\ Recounted(s, w, {<<"reposts", x>> : x \in xs})
           /\ \A e \in Docs : e[1] # "post" => w[e] = s[e]
<1> DEFINE K == {<<"reposts", x>> : x \in xs}
           D == {Post(x) : x \in xs}
           h == [d \in D |-> Cardinality(RepostsOf(s, d[2]))]
<1>1. ASSUME NEW x \in xs, NEW t, t = <<"reposts", x>>
      PROVE  /\ t \in Tallies /\ Owner(t) = Post(x) /\ Field(t) = "reposts"
             /\ h[Owner(t)] = Cardinality(Counted(s, t))
  <2>1. t \in Tallies /\ Owner(t) = Post(x) /\ Field(t) = "reposts" /\ Counted(s, t) = RepostsOf(s, x)
    BY <1>1, RepostsTally
  <2>2. h[Post(x)] = Cardinality(RepostsOf(s, x))
    BY DEF Post
  <2> QED BY <2>1, <2>2
<1>2. IsOwned(s, K, D, "reposts", h)
  <2>1. K \subseteq Tallies
    BY <1>1
  <2>2. \A d \in D : \E t \in K : d = Owner(t)
    BY <1>1
  <2>3. \A t \in K : Owner(t) \in D /\ Field(t) = "reposts" /\ h[Owner(t)] = Cardinality(Counted(s, t))
    BY <1>1
  <2> HIDE DEF K, D, h
  <2> QED BY <2>1, <2>2, <2>3 DEF IsOwned
<1>3. w = Replace(s, [d \in {e \in D : Exists(s, e)} |-> [s[d] EXCEPT !["reposts"] = h[d]]])
  BY DEF recomputeRepostCounts, Recount
<1>4. \A e \in D : e[1] = "post"
  BY DEF Post
<1> HIDE DEF K, D, h
<1>5. /\ Family(D, "reposts") = K
      /\ \A d \in D : d \in Docs /\ Countable(d, "reposts") /\ h[d] \in Int
  BY <1>2, FamilyIs
<1>6. Recounted(s, w, Family(D, "reposts")) /\ \A e \in Docs \ D : w[e] = s[e]
  BY <1>2, <1>3, <1>5, RecountIs DEF IsOwned
<1> QED BY <1>4, <1>5, <1>6 DEF K

LEMMA CommentLikesAreRecounted ==
    ASSUME NEW s, IsDatabase(s), NEW cs \in SUBSET Comments, NEW w,
           w = recomputeCommentLikeCounts(s, cs)
    PROVE  /\ Recounted(s, w, {<<"commentlikes", c>> : c \in cs})
           /\ \A e \in Docs : e[1] # "comment" => w[e] = s[e]
<1> DEFINE K == {<<"commentlikes", c>> : c \in cs}
           D == {Comment(c) : c \in cs}
           h == [d \in D |-> Cardinality(CommentLikesOf(s, d[2]))]
<1>1. ASSUME NEW c \in cs, NEW t, t = <<"commentlikes", c>>
      PROVE  /\ t \in Tallies /\ Owner(t) = Comment(c) /\ Field(t) = "likes"
             /\ h[Owner(t)] = Cardinality(Counted(s, t))
  <2>1. t \in Tallies /\ Owner(t) = Comment(c) /\ Field(t) = "likes" /\ Counted(s, t) = CommentLikesOf(s, c)
    BY <1>1, CommentLikesTally
  <2>2. h[Comment(c)] = Cardinality(CommentLikesOf(s, c))
    BY DEF Comment
  <2> QED BY <2>1, <2>2
<1>2. IsOwned(s, K, D, "likes", h)
  <2>1. K \subseteq Tallies
    BY <1>1
  <2>2. \A d \in D : \E t \in K : d = Owner(t)
    BY <1>1
  <2>3. \A t \in K : Owner(t) \in D /\ Field(t) = "likes" /\ h[Owner(t)] = Cardinality(Counted(s, t))
    BY <1>1
  <2> HIDE DEF K, D, h
  <2> QED BY <2>1, <2>2, <2>3 DEF IsOwned
<1>3. w = Replace(s, [d \in {e \in D : Exists(s, e)} |-> [s[d] EXCEPT !["likes"] = h[d]]])
  BY DEF recomputeCommentLikeCounts, Recount
<1>4. \A e \in D : e[1] = "comment"
  BY DEF Comment
<1> HIDE DEF K, D, h
<1>5. /\ Family(D, "likes") = K
      /\ \A d \in D : d \in Docs /\ Countable(d, "likes") /\ h[d] \in Int
  BY <1>2, FamilyIs
<1>6. Recounted(s, w, Family(D, "likes")) /\ \A e \in Docs \ D : w[e] = s[e]
  BY <1>2, <1>3, <1>5, RecountIs DEF IsOwned
<1> QED BY <1>4, <1>5, <1>6 DEF K

LEMMA RepliesAreRecounted ==
    ASSUME NEW s, IsDatabase(s), NEW cs \in SUBSET Comments, NEW w,
           w = recomputeCommentReplyCounts(s, cs)
    PROVE  /\ Recounted(s, w, {<<"replies", c>> : c \in cs})
           /\ \A e \in Docs : e[1] # "comment" => w[e] = s[e]
<1> DEFINE K == {<<"replies", c>> : c \in cs}
           D == {Comment(c) : c \in cs}
           h == [d \in D |-> Cardinality(RepliesTo(s, d[2]))]
<1>1. ASSUME NEW c \in cs, NEW t, t = <<"replies", c>>
      PROVE  /\ t \in Tallies /\ Owner(t) = Comment(c) /\ Field(t) = "replies"
             /\ h[Owner(t)] = Cardinality(Counted(s, t))
  <2>1. t \in Tallies /\ Owner(t) = Comment(c) /\ Field(t) = "replies" /\ Counted(s, t) = RepliesTo(s, c)
    BY <1>1, RepliesTally
  <2>2. h[Comment(c)] = Cardinality(RepliesTo(s, c))
    BY DEF Comment
  <2> QED BY <2>1, <2>2
<1>2. IsOwned(s, K, D, "replies", h)
  <2>1. K \subseteq Tallies
    BY <1>1
  <2>2. \A d \in D : \E t \in K : d = Owner(t)
    BY <1>1
  <2>3. \A t \in K : Owner(t) \in D /\ Field(t) = "replies" /\ h[Owner(t)] = Cardinality(Counted(s, t))
    BY <1>1
  <2> HIDE DEF K, D, h
  <2> QED BY <2>1, <2>2, <2>3 DEF IsOwned
<1>3. w = Replace(s, [d \in {e \in D : Exists(s, e)} |-> [s[d] EXCEPT !["replies"] = h[d]]])
  BY DEF recomputeCommentReplyCounts, Recount
<1>4. \A e \in D : e[1] = "comment"
  BY DEF Comment
<1> HIDE DEF K, D, h
<1>5. /\ Family(D, "replies") = K
      /\ \A d \in D : d \in Docs /\ Countable(d, "replies") /\ h[d] \in Int
  BY <1>2, FamilyIs
<1>6. Recounted(s, w, Family(D, "replies")) /\ \A e \in Docs \ D : w[e] = s[e]
  BY <1>2, <1>3, <1>5, RecountIs DEF IsOwned
<1> QED BY <1>4, <1>5, <1>6 DEF K

LEMMA CommunityPostsAreRecounted ==
    ASSUME NEW s, IsDatabase(s), NEW ks \in SUBSET Communities, NEW w,
           w = recomputeCommunityPostCounts(s, ks)
    PROVE  /\ Recounted(s, w, {<<"posts", k>> : k \in ks})
           /\ \A e \in Docs : e[1] # "community" => w[e] = s[e]
<1> DEFINE K == {<<"posts", k>> : k \in ks}
           D == {Community(k) : k \in ks}
           h == [d \in D |-> Cardinality(PostsIn(s, d[2]))]
<1>1. ASSUME NEW k \in ks, NEW t, t = <<"posts", k>>
      PROVE  /\ t \in Tallies /\ Owner(t) = Community(k) /\ Field(t) = "posts"
             /\ h[Owner(t)] = Cardinality(Counted(s, t))
  <2>1. t \in Tallies /\ Owner(t) = Community(k) /\ Field(t) = "posts" /\ Counted(s, t) = PostsIn(s, k)
    BY <1>1, CommunityPostsTally
  <2>2. h[Community(k)] = Cardinality(PostsIn(s, k))
    BY DEF Community
  <2> QED BY <2>1, <2>2
<1>2. IsOwned(s, K, D, "posts", h)
  <2>1. K \subseteq Tallies
    BY <1>1
  <2>2. \A d \in D : \E t \in K : d = Owner(t)
    BY <1>1
  <2>3. \A t \in K : Owner(t) \in D /\ Field(t) = "posts" /\ h[Owner(t)] = Cardinality(Counted(s, t))
    BY <1>1
  <2> HIDE DEF K, D, h
  <2> QED BY <2>1, <2>2, <2>3 DEF IsOwned
<1>3. w = Replace(s, [d \in {e \in D : Exists(s, e)} |-> [s[d] EXCEPT !["posts"] = h[d]]])
  BY DEF recomputeCommunityPostCounts, Recount
<1>4. \A e \in D : e[1] = "community"
  BY DEF Community
<1> HIDE DEF K, D, h
<1>5. /\ Family(D, "posts") = K
      /\ \A d \in D : d \in Docs /\ Countable(d, "posts") /\ h[d] \in Int
  BY <1>2, FamilyIs
<1>6. Recounted(s, w, Family(D, "posts")) /\ \A e \in Docs \ D : w[e] = s[e]
  BY <1>2, <1>3, <1>5, RecountIs DEF IsOwned
<1> QED BY <1>4, <1>5, <1>6 DEF K

recountFollowers(s, b, us) ==
    Recount(s, {User(u) : u \in us}, "followers", LAMBDA u : Cardinality(FollowersOf(b, u)))

LEMMA FollowersAreRecounted ==
    ASSUME NEW s, IsDatabase(s), NEW us \in SUBSET Users, NEW w,
           NEW b, w = recountFollowers(s, b, us), \A u \in us : FollowersOf(b, u) = FollowersOf(s, u)
    PROVE  /\ Recounted(s, w, {<<"followers", u>> : u \in us})
           /\ \A e \in Docs : e[1] # "user" => w[e] = s[e]
<1> DEFINE K == {<<"followers", u>> : u \in us}
           D == {User(u) : u \in us}
           h == [d \in D |-> Cardinality(FollowersOf(b, d[2]))]
<1>1. ASSUME NEW u \in us, NEW t, t = <<"followers", u>>
      PROVE  /\ t \in Tallies /\ Owner(t) = User(u) /\ Field(t) = "followers"
             /\ h[Owner(t)] = Cardinality(Counted(s, t))
  <2>1. t \in Tallies /\ Owner(t) = User(u) /\ Field(t) = "followers" /\ Counted(s, t) = FollowersOf(s, u)
    BY <1>1, FollowersTally
  <2>2. h[User(u)] = Cardinality(FollowersOf(b, u))
    BY DEF User
  <2> QED BY <2>1, <2>2
<1>2. IsOwned(s, K, D, "followers", h)
  <2>1. K \subseteq Tallies
    BY <1>1
  <2>2. \A d \in D : \E t \in K : d = Owner(t)
    BY <1>1
  <2>3. \A t \in K : Owner(t) \in D /\ Field(t) = "followers" /\ h[Owner(t)] = Cardinality(Counted(s, t))
    BY <1>1
  <2> HIDE DEF K, D, h
  <2> QED BY <2>1, <2>2, <2>3 DEF IsOwned
<1>3. w = Replace(s, [d \in {e \in D : Exists(s, e)} |-> [s[d] EXCEPT !["followers"] = h[d]]])
  BY DEF recountFollowers, Recount
<1>4. \A e \in D : e[1] = "user"
  BY DEF User
<1> HIDE DEF K, D, h
<1>5. /\ Family(D, "followers") = K
      /\ \A d \in D : d \in Docs /\ Countable(d, "followers") /\ h[d] \in Int
  BY <1>2, FamilyIs
<1>6. Recounted(s, w, Family(D, "followers")) /\ \A e \in Docs \ D : w[e] = s[e]
  BY <1>2, <1>3, <1>5, RecountIs DEF IsOwned
<1> QED BY <1>4, <1>5, <1>6 DEF K

recountFollowing(s, b, us) ==
    Recount(s, {User(u) : u \in us}, "following", LAMBDA u : Cardinality(FollowedBy(b, u)))

LEMMA FollowingAreRecounted ==
    ASSUME NEW s, IsDatabase(s), NEW us \in SUBSET Users, NEW w,
           NEW b, w = recountFollowing(s, b, us), \A u \in us : FollowedBy(b, u) = FollowedBy(s, u)
    PROVE  /\ Recounted(s, w, {<<"following", u>> : u \in us})
           /\ \A e \in Docs : e[1] # "user" => w[e] = s[e]
<1> DEFINE K == {<<"following", u>> : u \in us}
           D == {User(u) : u \in us}
           h == [d \in D |-> Cardinality(FollowedBy(b, d[2]))]
<1>1. ASSUME NEW u \in us, NEW t, t = <<"following", u>>
      PROVE  /\ t \in Tallies /\ Owner(t) = User(u) /\ Field(t) = "following"
             /\ h[Owner(t)] = Cardinality(Counted(s, t))
  <2>1. t \in Tallies /\ Owner(t) = User(u) /\ Field(t) = "following" /\ Counted(s, t) = FollowedBy(s, u)
    BY <1>1, FollowingTally
  <2>2. h[User(u)] = Cardinality(FollowedBy(b, u))
    BY DEF User
  <2> QED BY <2>1, <2>2
<1>2. IsOwned(s, K, D, "following", h)
  <2>1. K \subseteq Tallies
    BY <1>1
  <2>2. \A d \in D : \E t \in K : d = Owner(t)
    BY <1>1
  <2>3. \A t \in K : Owner(t) \in D /\ Field(t) = "following" /\ h[Owner(t)] = Cardinality(Counted(s, t))
    BY <1>1
  <2> HIDE DEF K, D, h
  <2> QED BY <2>1, <2>2, <2>3 DEF IsOwned
<1>3. w = Replace(s, [d \in {e \in D : Exists(s, e)} |-> [s[d] EXCEPT !["following"] = h[d]]])
  BY DEF recountFollowing, Recount
<1>4. \A e \in D : e[1] = "user"
  BY DEF User
<1> HIDE DEF K, D, h
<1>5. /\ Family(D, "following") = K
      /\ \A d \in D : d \in Docs /\ Countable(d, "following") /\ h[d] \in Int
  BY <1>2, FamilyIs
<1>6. Recounted(s, w, Family(D, "following")) /\ \A e \in Docs \ D : w[e] = s[e]
  BY <1>2, <1>3, <1>5, RecountIs DEF IsOwned
<1> QED BY <1>4, <1>5, <1>6 DEF K

recountMembers(s, b, ks) ==
    Recount(s, {Community(k) : k \in ks}, "members", LAMBDA k : Cardinality(MembersOf(b, k)))

LEMMA MembersAreRecounted ==
    ASSUME NEW s, IsDatabase(s), NEW ks \in SUBSET Communities, NEW w,
           NEW b, w = recountMembers(s, b, ks), \A k \in ks : MembersOf(b, k) = MembersOf(s, k)
    PROVE  /\ Recounted(s, w, {<<"members", k>> : k \in ks})
           /\ \A e \in Docs : e[1] # "community" => w[e] = s[e]
<1> DEFINE K == {<<"members", k>> : k \in ks}
           D == {Community(k) : k \in ks}
           h == [d \in D |-> Cardinality(MembersOf(b, d[2]))]
<1>1. ASSUME NEW k \in ks, NEW t, t = <<"members", k>>
      PROVE  /\ t \in Tallies /\ Owner(t) = Community(k) /\ Field(t) = "members"
             /\ h[Owner(t)] = Cardinality(Counted(s, t))
  <2>1. t \in Tallies /\ Owner(t) = Community(k) /\ Field(t) = "members" /\ Counted(s, t) = MembersOf(s, k)
    BY <1>1, MembersTally
  <2>2. h[Community(k)] = Cardinality(MembersOf(b, k))
    BY DEF Community
  <2> QED BY <2>1, <2>2
<1>2. IsOwned(s, K, D, "members", h)
  <2>1. K \subseteq Tallies
    BY <1>1
  <2>2. \A d \in D : \E t \in K : d = Owner(t)
    BY <1>1
  <2>3. \A t \in K : Owner(t) \in D /\ Field(t) = "members" /\ h[Owner(t)] = Cardinality(Counted(s, t))
    BY <1>1
  <2> HIDE DEF K, D, h
  <2> QED BY <2>1, <2>2, <2>3 DEF IsOwned
<1>3. w = Replace(s, [d \in {e \in D : Exists(s, e)} |-> [s[d] EXCEPT !["members"] = h[d]]])
  BY DEF recountMembers, Recount
<1>4. \A e \in D : e[1] = "community"
  BY DEF Community
<1> HIDE DEF K, D, h
<1>5. /\ Family(D, "members") = K
      /\ \A d \in D : d \in Docs /\ Countable(d, "members") /\ h[d] \in Int
  BY <1>2, FamilyIs
<1>6. Recounted(s, w, Family(D, "members")) /\ \A e \in Docs \ D : w[e] = s[e]
  BY <1>2, <1>3, <1>5, RecountIs DEF IsOwned
<1> QED BY <1>4, <1>5, <1>6 DEF K

\* Nobody counts the posts of an account; a community counts its own.
LEMMA UserPostsAreRecounted ==
    ASSUME NEW s, IsDatabase(s), NEW us \in SUBSET Users, NEW w,
           w = recomputeUserPostCounts(s, us)
    PROVE  /\ Recounted(s, w, {})
           /\ \A e \in Docs : e[1] # "user" => w[e] = s[e]
<1> DEFINE D == {User(u) : u \in us}
           h == [d \in D |-> Cardinality(PostsBy(s, d[2]))]
           g == [d \in {e \in D : Exists(s, e)} |-> [s[d] EXCEPT !["posts"] = h[d]]]
<1>1. w = Replace(s, [d \in {e \in D : Exists(s, e)} |->
                          [s[d] EXCEPT !["posts"] = Cardinality(PostsBy(s, d[2]))]])
  BY DEF recomputeUserPostCounts, Recount
<1>2. w = Replace(s, g)
  <2>1. \A d \in D : h[d] = Cardinality(PostsBy(s, d[2]))
    OBVIOUS
  <2> HIDE DEF h
  <2>2. g = [d \in {e \in D : Exists(s, e)} |->
                [s[d] EXCEPT !["posts"] = Cardinality(PostsBy(s, d[2]))]]
    BY <2>1
  <2> QED BY <1>1, <2>2
<1>3. ASSUME NEW d \in D PROVE d \in Docs /\ Countable(d, "posts") /\ h[d] \in Int
  <2>1. \A y : PostsBy(s, y) \subseteq Posts
    BY DEF PostsBy, PostsThat
  <2>2. h[d] \in Int
    BY <2>1, CardinalitiesAreNumbers
  <2>3. d \in UserDocs
    BY DEF UserDocs
  <2> QED BY <2>2, <2>3 DEF Docs, Countable
<1>4. \A e \in D : e[1] = "user"
  BY DEF User
<1>5. ASSUME NEW t \in Tallies, Owner(t) \in D PROVE Field(t) # "posts"
  <2>1. OwnerKind(t) = "user"
    BY <1>4, <1>5, KindsAre
  <2>2. t[1] \in {"followers", "following"}
    BY <2>1 DEF OwnerKind
  <2> QED BY <2>2 DEF Field
<1>6. Family(D, "posts") = {}
  BY <1>5 DEF Family
<1> HIDE DEF D, h, g
<1>7. w = Replace(s, [d \in {e \in D : Exists(s, e)} |-> [s[d] EXCEPT !["posts"] = h[d]]])
  BY <1>2 DEF g
<1>8. Recounted(s, w, Family(D, "posts")) /\ \A e \in Docs \ D : w[e] = s[e]
  <2>1. \A t \in Family(D, "posts") : h[Owner(t)] = Cardinality(Counted(s, t))
    BY <1>6
  <2> QED BY <1>3, <1>7, <2>1, RecountIs
<1> QED BY <1>4, <1>6, <1>8

-----------------------------------------------------------------------------
(* How a tally may move.                                                   *)

Shrinks(s, w, t) ==
    /\ Counted(w, t) \subseteq Counted(s, t)
    /\ IsRight(s, t) => IsRight(w, t)
Grows(s, w, t) ==
    /\ w[Owner(t)] # Unborn
    /\ Counted(s, t) \subseteq Counted(w, t)
    /\ IsRight(s, t) => IsRight(w, t)

\* No post or comment appears, and those that stay keep what they are about.
Thins(s, w) ==
    /\ IsDatabase(w)
    /\ Later(s, w)
    /\ \A u \in Users : Exists(s, User(u)) => Exists(w, User(u))
    /\ \A x \in Posts : Exists(w, Post(x)) =>
         /\ Exists(s, Post(x))
         /\ w[Post(x)].of = s[Post(x)].of
         /\ w[Post(x)].status = s[Post(x)].status
         /\ w[Post(x)].community = s[Post(x)].community
    /\ \A c \in Comments : Exists(w, Comment(c)) => Exists(s, Comment(c))

\* The creator of a community that exists.
Lead(s, k) == IF Exists(s, Community(k)) THEN s[Community(k)].creator ELSE None

SameRoles(s, w) ==
    \A k \in Communities :
        /\ Lead(w, k) = Lead(s, k)
        /\ \A u \in Users : w[Member(u, k)] = s[Member(u, k)]

LEMMA FitsIs ==
    ASSUME NEW s, Consistent(s), NEW w, IsDatabase(w), Later(s, w),
           AnswersStayInPost(w), PostsAreSound(w), AdminIsCreator(w),
           \A t \in Tallies : Shrinks(s, w, t) \/ Grows(s, w, t)
    PROVE  Fits(s, w)
<1>1. ASSUME NEW t \in Tallies PROVE IsRight(w, t) /\ IsUnused(w, t)
  <2>1. IsRight(s, t) /\ IsUnused(s, t)
    BY DEF Consistent
  <2>2. IsRight(w, t)
    BY <2>1 DEF Shrinks, Grows
  <2>3. IsUnused(w, t)
    <3> SUFFICES ASSUME w[Owner(t)] = Unborn PROVE Counted(w, t) = {}
      BY DEF IsUnused
    <3>1. s[Owner(t)] = Unborn
      BY TalliesAreAbout DEF Later
    <3>2. Counted(s, t) = {}
      BY <2>1, <3>1 DEF IsUnused
    <3> QED BY <3>2 DEF Shrinks, Grows
  <2> QED BY <2>2, <2>3
<1>2. OneWay(s, w)
  BY DEF OneWay, Shrinks, Grows
<1> QED BY <1>1, <1>2 DEF Fits, Consistent

LEMMA ThinsKeeps ==
    ASSUME NEW s, NEW w, Thins(s, w)
    PROVE  /\ AnswersStayInPost(s) => AnswersStayInPost(w)
           /\ PostsAreSound(s) => PostsAreSound(w)
<1>1. AnswersStayInPost(s) => AnswersStayInPost(w)
  <2> SUFFICES ASSUME AnswersStayInPost(s), NEW c \in Comments, NEW b \in Comments,
                      Exists(w, Comment(c)), Exists(w, Comment(b)), w[Comment(c)].parent = b
               PROVE  w[Comment(b)].post = w[Comment(c)].post
    BY DEF AnswersStayInPost
  <2>1. Exists(s, Comment(c)) /\ Exists(s, Comment(b))
    BY DEF Thins
  <2>2. /\ w[Comment(c)].parent = s[Comment(c)].parent
        /\ w[Comment(c)].post = s[Comment(c)].post
        /\ w[Comment(b)].post = s[Comment(b)].post
    BY <2>1 DEF Thins, Later
  <2>3. s[Comment(b)].post = s[Comment(c)].post
    BY <2>1, <2>2 DEF AnswersStayInPost
  <2> QED BY <2>2, <2>3
<1>2. PostsAreSound(s) => PostsAreSound(w)
  <2> SUFFICES ASSUME PostsAreSound(s), NEW x \in Posts, Exists(w, Post(x))
               PROVE  /\ w[Post(x)].of # None => w[Post(x)].status = "active"
                      /\ w[Post(x)].community # None =>
                           WasFound(w, Community(w[Post(x)].community))
    BY DEF PostsAreSound
  <2>1. /\ Exists(s, Post(x))
        /\ w[Post(x)].of = s[Post(x)].of
        /\ w[Post(x)].status = s[Post(x)].status
        /\ w[Post(x)].community = s[Post(x)].community
    BY DEF Thins
  <2>2. /\ s[Post(x)].of # None => s[Post(x)].status = "active"
        /\ s[Post(x)].community # None => WasFound(s, Community(s[Post(x)].community))
    BY <2>1 DEF PostsAreSound
  <2>3. w[Post(x)].community \in Communities \cup {None}
    BY DatabaseIs DEF Thins, Exists, PostRecord
  <2>4. \A k \in Communities : WasFound(s, Community(k)) => WasFound(w, Community(k))
    BY AllNamesInDocs DEF Thins, Later, WasFound
  <2> QED BY <2>1, <2>2, <2>3, <2>4
<1> QED BY <1>1, <1>2

LEMMA ThinsTwice ==
    ASSUME NEW s, NEW w, NEW v, Thins(s, w), Thins(w, v)
    PROVE  Thins(s, v)
<1>1. Later(s, v)
  BY LaterTwice DEF Thins
<1> QED BY <1>1 DEF Thins

LEMMA LeadsAre ==
    ASSUME NEW s
    PROVE  AdminIsCreator(s) <=>
               \A u \in Users, k \in Communities : s[Member(u, k)] = "admin" <=> Lead(s, k) = u
<1>1. \A u \in Users : u # None
  BY NoneAssumption
<1>2. \A u \in Users, k \in Communities :
         Lead(s, k) = u <=> Exists(s, Community(k)) /\ s[Community(k)].creator = u
  BY <1>1 DEF Lead
<1> QED BY <1>2 DEF AdminIsCreator

LEMMA SameRolesKeep ==
    ASSUME NEW s, NEW w, SameRoles(s, w), AdminIsCreator(s)
    PROVE  AdminIsCreator(w)
BY LeadsAre DEF SameRoles

LEMMA SameRolesTwice ==
    ASSUME NEW s, NEW w, NEW v, SameRoles(s, w), SameRoles(w, v)
    PROVE  SameRoles(s, v)
BY DEF SameRoles

LEMMA SteadyThins ==
    ASSUME NEW s, NEW w, Steady(s, w)
    PROVE  Thins(s, w) /\ SameRoles(s, w)
<1>1. \A d \in OwnerDocs : /\ w[d] = Gone <=> s[d] = Gone
                           /\ w[d] = Unborn <=> s[d] = Unborn
                           /\ Exists(w, d) <=> Exists(s, d)
  BY SteadyOwners
<1>2. ASSUME NEW c \in Comments, Exists(s, Comment(c))
      PROVE  /\ w[Comment(c)].post = s[Comment(c)].post
             /\ w[Comment(c)].parent = s[Comment(c)].parent
  BY DEF Steady, SameComment
<1>3. Later(s, w)
  BY <1>1, <1>2 DEF Later
<1>4. ASSUME NEW x \in Posts
      PROVE  /\ w[Post(x)].of = s[Post(x)].of /\ w[Post(x)].status = s[Post(x)].status
             /\ w[Post(x)].community = s[Post(x)].community
  BY DEF Steady, SamePost
<1>5. ASSUME NEW k \in Communities PROVE Lead(w, k) = Lead(s, k)
  <2>1. Exists(w, Community(k)) <=> Exists(s, Community(k))
    BY <1>1, AllNamesInDocs
  <2>2. w[Community(k)].creator = s[Community(k)].creator
    BY DEF Steady, SameCommunity
  <2> QED BY <2>1, <2>2 DEF Lead
<1>6. Thins(s, w)
  BY <1>1, <1>3, <1>4, AllNamesInDocs DEF Thins, Steady
<1>7. SameRoles(s, w)
  BY <1>5 DEF SameRoles, Steady
<1> QED BY <1>6, <1>7

LEMMA RecountedShrinks ==
    ASSUME NEW s, NEW w, NEW K, Recounted(s, w, K), NEW t \in Tallies
    PROVE  /\ Shrinks(s, w, t)
           /\ Counted(w, t) = Counted(s, t)
           /\ t \in K => IsRight(w, t)
<1>1. Counted(w, t) = Counted(s, t)
  BY SteadyCounted DEF Recounted
<1>2. IsRight(s, t) => IsRight(w, t)
  BY SteadyRight DEF Recounted
<1> QED BY <1>1, <1>2 DEF Shrinks, Recounted

\* The counter follows what it counts.
LEMMA NoneMore ==
    ASSUME NEW s, NEW w, NEW t \in Tallies, Counted(w, t) = Counted(s, t),
           Exists(w, Owner(t)) =>
               Exists(s, Owner(t)) /\ w[Owner(t)][Field(t)] = s[Owner(t)][Field(t)]
    PROVE  Shrinks(s, w, t)
BY DEF Shrinks, IsRight

LEMMA FieldIsNumber ==
    ASSUME NEW s, IsDatabase(s), NEW t \in Tallies, Exists(s, Owner(t))
    PROVE  s[Owner(t)][Field(t)] \in Int
<1> DEFINE r == [s[Owner(t)] EXCEPT ![Field(t)] = 0]
<1>1. r = [s[Owner(t)] EXCEPT ![Field(t)] = 0]
  OBVIOUS
<1> HIDE DEF r
<1> QED BY <1>1, TalliesAreCountable, CounterIs

LEMMA OneMore ==
    ASSUME NEW s, NEW w, NEW t \in Tallies, NEW i, i \notin Counted(s, t),
           Counted(w, t) = Counted(s, t) \cup {i}, w[Owner(t)] # Unborn,
           Exists(w, Owner(t)) =>
               Exists(s, Owner(t)) /\ w[Owner(t)][Field(t)] = s[Owner(t)][Field(t)] + 1
    PROVE  Grows(s, w, t)
<1>1. Cardinality(Counted(w, t)) = Cardinality(Counted(s, t)) + 1
  BY CountedFinite, FS_AddElement
<1> QED BY <1>1 DEF Grows, IsRight

LEMMA OneLess ==
    ASSUME NEW s, IsDatabase(s), NEW w, NEW t \in Tallies, NEW i \in Counted(s, t),
           Counted(w, t) = Counted(s, t) \ {i},
           Exists(w, Owner(t)) =>
               Exists(s, Owner(t)) /\ w[Owner(t)][Field(t)] = s[Owner(t)][Field(t)] + (-1)
    PROVE  Shrinks(s, w, t)
<1>1. Cardinality(Counted(w, t)) = Cardinality(Counted(s, t)) - 1
  BY CountedFinite, FS_RemoveElement
<1>2. \A m \in Int : m + (-1) = m - 1
  OBVIOUS
<1>3. Exists(s, Owner(t)) => s[Owner(t)][Field(t)] + (-1) = s[Owner(t)][Field(t)] - 1
  BY <1>2, FieldIsNumber
<1> QED BY <1>1, <1>3 DEF Shrinks, IsRight

LEMMA FirstOwner ==
    ASSUME NEW s, NEW w, NEW t \in Tallies, s[Owner(t)] = Unborn, IsUnused(s, t),
           w[Owner(t)] # Unborn,
           w[Owner(t)][Field(t)] = Cardinality(Counted(w, t))
    PROVE  Grows(s, w, t)
<1>1. Counted(s, t) = {}
  BY DEF IsUnused
<1> QED BY <1>1 DEF Grows, IsRight

LEMMA KindTallies ==
    ASSUME NEW t \in Tallies
    PROVE  /\ SourceKind(t) = "like" => \E x \in Posts : t = <<"likes", x>>
           /\ SourceKind(t) = "commentlike" => \E c \in Comments : t = <<"commentlikes", c>>
           /\ SourceKind(t) = "follow" =>
                \E u \in Users : t = <<"followers", u>> \/ t = <<"following", u>>
           /\ SourceKind(t) = "member" => \E k \in Communities : t = <<"members", k>>
           /\ SourceKind(t) = "comment" => \/ \E x \in Posts : t = <<"comments", x>>
                                           \/ \E c \in Comments : t = <<"replies", c>>
           /\ SourceKind(t) = "post" => \/ \E x \in Posts : t = <<"reposts", x>>
                                        \/ \E k \in Communities : t = <<"posts", k>>
<1>1. ASSUME NEW x \in Posts, t = <<"likes", x>> PROVE SourceKind(t) = "like"
  BY <1>1 DEF SourceKind
<1>2. ASSUME NEW x \in Posts, t = <<"comments", x>> PROVE SourceKind(t) = "comment"
  BY <1>2 DEF SourceKind
<1>3. ASSUME NEW x \in Posts, t = <<"reposts", x>> PROVE SourceKind(t) = "post"
  BY <1>3 DEF SourceKind
<1>4. ASSUME NEW c \in Comments, t = <<"commentlikes", c>> PROVE SourceKind(t) = "commentlike"
  BY <1>4 DEF SourceKind
<1>5. ASSUME NEW c \in Comments, t = <<"replies", c>> PROVE SourceKind(t) = "comment"
  BY <1>5 DEF SourceKind
<1>6. ASSUME NEW u \in Users, t = <<"followers", u>> \/ t = <<"following", u>>
      PROVE  SourceKind(t) = "follow"
  BY <1>6 DEF SourceKind
<1>7. ASSUME NEW k \in Communities, t = <<"posts", k>> PROVE SourceKind(t) = "post"
  BY <1>7 DEF SourceKind
<1>8. ASSUME NEW k \in Communities, t = <<"members", k>> PROVE SourceKind(t) = "member"
  BY <1>8 DEF SourceKind
<1> QED BY EveryTally, <1>1, <1>2, <1>3, <1>4, <1>5, <1>6, <1>7, <1>8

LEMMA OtherKind ==
    ASSUME NEW s, NEW w, NEW kind, \A d \in Docs : d[1] # kind => w[d] = s[d],
           NEW t \in Tallies, SourceKind(t) # kind
    PROVE  Counted(w, t) = Counted(s, t)
<1>1. \A i \in Things(t) : w[Source(t, i)] = s[Source(t, i)]
  BY KindsAre, TalliesAreAbout
<1> QED BY <1>1 DEF Counted

\* One document is written.
Written(s, r, d, v) == DOMAIN r = Docs /\ \A e \in Docs : r[e] = IF e = d THEN v ELSE s[e]

LEMMA WrittenIs ==
    ASSUME NEW s, IsDatabase(s), NEW d, NEW v
    PROVE  Written(s, [s EXCEPT ![d] = v], d, v)
BY DEF Written, IsDatabase

\* A relation of two documents appears or disappears.
LEMMA RelationIs ==
    ASSUME NEW s, IsDatabase(s), NEW d \in Relations, NEW b, b \in BOOLEAN,
           NEW r, Written(s, r, d, b)
    PROVE  /\ Thins(s, r) /\ SameRoles(s, r) /\ IsDatabase(r)
           /\ \A e \in OwnerDocs : r[e] = s[e]
<1>1. DOMAIN r = Docs /\ \A e \in Docs : r[e] = IF e = d THEN b ELSE s[e]
  BY DEF Written
<1>2. d \in Docs /\ TypeOfDoc(d) = BOOLEAN
  BY TypesAre DEF Docs
<1>3. IsDatabase(r)
  BY <1>1, <1>2 DEF IsDatabase
<1>4. d \notin OwnerDocs /\ d \notin MemberDocs
  BY CollectionsDiffer DEF OwnerDocs
<1>5. /\ \A e \in OwnerDocs : r[e] = s[e]
      /\ \A u \in Users, k \in Communities : r[Member(u, k)] = s[Member(u, k)]
  BY <1>1, <1>4, AllNamesInDocs DEF MemberDocs
<1>6. Thins(s, r) /\ SameRoles(s, r)
  BY <1>3, <1>5, AllNamesInDocs DEF Thins, SameRoles, Later, Lead, Exists
<1> QED BY <1>1, <1>3, <1>5, <1>6

LEMMA SteadyAfter ==
    ASSUME NEW s, NEW r, NEW w, Thins(s, r), SameRoles(s, r), Steady(r, w)
    PROVE  /\ Thins(s, w) /\ SameRoles(s, w)
           /\ \A t \in Tallies : /\ Counted(w, t) = Counted(r, t)
                                 /\ w[Owner(t)] = Unborn <=> r[Owner(t)] = Unborn
                                 /\ Exists(w, Owner(t)) <=> Exists(r, Owner(t))
<1>1. Thins(s, w) /\ SameRoles(s, w)
  BY SteadyThins, ThinsTwice, SameRolesTwice
<1> QED BY <1>1, SteadyCounted, SteadyOwners, TalliesAreAbout

LEMMA ThinsFits ==
    ASSUME NEW s, Consistent(s), NEW w, Thins(s, w), SameRoles(s, w),
           \A t \in Tallies : Shrinks(s, w, t) \/ Grows(s, w, t)
    PROVE  Fits(s, w)
<1>1. AnswersStayInPost(w) /\ PostsAreSound(w) /\ AdminIsCreator(w)
  BY ThinsKeeps, SameRolesKeep DEF Consistent
<1> QED BY <1>1, FitsIs DEF Thins

\* What is steady for s and leaves the counters alone fits.
LEMMA SteadyFits ==
    ASSUME NEW s, Consistent(s), NEW w, Steady(s, w), \A t \in Tallies : SameField(s, w, t)
    PROVE  Fits(s, w)
<1>1. Recounted(s, w, {})
  BY DEF Recounted
<1> QED BY <1>1, RecountedShrinks, SteadyThins, ThinsFits

-----------------------------------------------------------------------------
(* One relation appears or disappears.                                     *)

\* Relation d is no source of t; or it is one, and the counter follows by n.
Unmoved(r, w, d, t) == (\A i \in Things(t) : Source(t, i) # d) /\ SameField(r, w, t)
Moved(s, r, w, d, n, t) ==
    /\ s[Owner(t)] # Unborn
    /\ \E i \in Things(t) : \A j \in Things(t) : Source(t, j) = d <=> j = i
    /\ \A z : Counts(t, z) <=> z = TRUE
    /\ Exists(r, Owner(t)) => w[Owner(t)][Field(t)] = r[Owner(t)][Field(t)] + n

\* A relation appears or disappears, and the counters of its two ends follow.
LEMMA RelationFits ==
    ASSUME NEW s, Consistent(s), NEW d \in Relations, NEW b, b \in BOOLEAN, s[d] = TRUE <=> ~b,
           NEW r, Written(s, r, d, b), NEW w, Steady(r, w),
           NEW n, n = IF b THEN 1 ELSE -1,
           \A t \in Tallies : Unmoved(r, w, d, t) \/ Moved(s, r, w, d, n, t)
    PROVE  Fits(s, w)
<1>1. IsDatabase(s)
  BY DEF Consistent
<1>2. /\ Thins(s, r) /\ SameRoles(s, r) /\ IsDatabase(r)
      /\ \A e \in OwnerDocs : r[e] = s[e]
  BY <1>1, RelationIs
<1>3. /\ Thins(s, w) /\ SameRoles(s, w)
      /\ \A t \in Tallies : /\ Counted(w, t) = Counted(r, t)
                            /\ w[Owner(t)] = Unborn <=> r[Owner(t)] = Unborn
                            /\ Exists(w, Owner(t)) <=> Exists(r, Owner(t))
  <2>1. Thins(s, r) /\ SameRoles(s, r)
    BY <1>2
  <2> QED BY <2>1, SteadyAfter
<1>4. ASSUME NEW t \in Tallies PROVE Shrinks(s, w, t) \/ Grows(s, w, t)
  <2>1. r[Owner(t)] = s[Owner(t)]
    BY <1>2, TalliesAreAbout
  <2>2. Exists(w, Owner(t)) => Exists(s, Owner(t))
    BY <1>3, <2>1 DEF Exists
  <2>3. \A i \in Things(t) :
           i \in Counted(w, t) <=> IF Source(t, i) = d THEN Counts(t, b) ELSE i \in Counted(s, t)
    BY <1>3, TalliesAreAbout DEF Counted, Written
  <2>4. /\ Counted(s, t) \subseteq Things(t) /\ Counted(w, t) \subseteq Things(t)
        /\ \A i \in Things(t) : i \in Counted(s, t) <=> Counts(t, s[Source(t, i)])
    BY DEF Counted
  <2>5. CASE Unmoved(r, w, d, t)
    <3>1. Counted(w, t) = Counted(s, t)
      BY <2>3, <2>4, <2>5 DEF Unmoved
    <3>2. Exists(w, Owner(t)) => w[Owner(t)][Field(t)] = s[Owner(t)][Field(t)]
      BY <2>1, <2>2, <2>5 DEF Unmoved, SameField, Exists
    <3> QED BY <2>2, <3>1, <3>2, NoneMore
  <2>6. ASSUME s[Owner(t)] # Unborn, NEW i \in Things(t),
               \A j \in Things(t) : Source(t, j) = d <=> j = i,
               \A z : Counts(t, z) <=> z = TRUE,
               Exists(r, Owner(t)) => w[Owner(t)][Field(t)] = r[Owner(t)][Field(t)] + n
        PROVE  Shrinks(s, w, t) \/ Grows(s, w, t)
    <3>1. w[Owner(t)] # Unborn
      BY <1>3, <2>1, <2>6
    <3>2. Exists(w, Owner(t)) => w[Owner(t)][Field(t)] = s[Owner(t)][Field(t)] + n
      BY <2>1, <2>2, <2>6 DEF Exists
    <3>3. Source(t, i) = d /\ (i \in Counted(s, t) <=> s[d] = TRUE)
      BY <2>4, <2>6
    <3>4. i \in Counted(w, t) <=> b
      BY <2>3, <2>6, <3>3
    <3>5. \A j \in Things(t) \ {i} : j \in Counted(w, t) <=> j \in Counted(s, t)
      BY <2>3, <2>6
    <3>6. CASE b
      <4>1. i \notin Counted(s, t) /\ n = 1
        BY <3>3, <3>6
      <4>2. Counted(w, t) = Counted(s, t) \cup {i}
        BY <2>4, <3>4, <3>5, <3>6
      <4> QED BY <2>2, <3>1, <3>2, <4>1, <4>2, OneMore
    <3>7. CASE ~b
      <4>1. i \in Counted(s, t) /\ n = -1
        BY <3>3, <3>7
      <4>2. Counted(w, t) = Counted(s, t) \ {i}
        BY <2>4, <3>4, <3>5, <3>7
      <4> QED BY <1>1, <2>2, <3>2, <4>1, <4>2, OneLess
    <3> QED BY <3>6, <3>7
  <2> QED BY <2>5, <2>6 DEF Moved
<1> QED BY <1>3, <1>4, ThinsFits

\* Which tallies a relation is a source of.
LEMMA LikeSources ==
    ASSUME NEW u \in Users, NEW x \in Posts, NEW t \in Tallies
    PROVE  IF t = <<"likes", x>>
           THEN \A j \in Things(t) : Source(t, j) = Like(u, x) <=> j = u
           ELSE \A j \in Things(t) : Source(t, j) # Like(u, x)
<1>1. CASE SourceKind(t) # "like"
  <2>1. \A j \in Things(t) : Source(t, j) # Like(u, x)
    BY <1>1, KindsAre, NamesDiffer
  <2>2. t # <<"likes", x>>
    BY <1>1 DEF SourceKind
  <2> QED BY <2>1, <2>2
<1>2. CASE SourceKind(t) = "like"
  <2>1. PICK y \in Posts : t = <<"likes", y>>
    BY <1>2, KindTallies
  <2>2. \A j : Source(t, j) = Like(j, y)
    BY <2>1, PostLikesTally
  <2>3. \A j : Like(j, y) = Like(u, x) <=> j = u /\ y = x
    BY DEF Like
  <2> QED BY <2>1, <2>2, <2>3
<1> QED BY <1>1, <1>2

LEMMA CommentLikeSources ==
    ASSUME NEW u \in Users, NEW c \in Comments, NEW t \in Tallies
    PROVE  IF t = <<"commentlikes", c>>
           THEN \A j \in Things(t) : Source(t, j) = CommentLike(u, c) <=> j = u
           ELSE \A j \in Things(t) : Source(t, j) # CommentLike(u, c)
<1>1. CASE SourceKind(t) # "commentlike"
  <2>1. \A j \in Things(t) : Source(t, j) # CommentLike(u, c)
    BY <1>1, KindsAre, NamesDiffer
  <2>2. t # <<"commentlikes", c>>
    BY <1>1 DEF SourceKind
  <2> QED BY <2>1, <2>2
<1>2. CASE SourceKind(t) = "commentlike"
  <2>1. PICK b \in Comments : t = <<"commentlikes", b>>
    BY <1>2, KindTallies
  <2>2. \A j : Source(t, j) = CommentLike(j, b)
    BY <2>1, CommentLikesTally
  <2>3. \A j : CommentLike(j, b) = CommentLike(u, c) <=> j = u /\ b = c
    BY DEF CommentLike
  <2> QED BY <2>1, <2>2, <2>3
<1> QED BY <1>1, <1>2

LEMMA FollowSources ==
    ASSUME NEW u \in Users, NEW v \in Users, NEW t \in Tallies
    PROVE  /\ t = <<"following", u>> =>
                \A j \in Things(t) : Source(t, j) = Follow(u, v) <=> j = v
           /\ t = <<"followers", v>> =>
                \A j \in Things(t) : Source(t, j) = Follow(u, v) <=> j = u
           /\ t # <<"following", u>> /\ t # <<"followers", v>> =>
                \A j \in Things(t) : Source(t, j) # Follow(u, v)
<1>1. CASE SourceKind(t) # "follow"
  <2>1. \A j \in Things(t) : Source(t, j) # Follow(u, v)
    BY <1>1, KindsAre, NamesDiffer
  <2>2. t # <<"following", u>> /\ t # <<"followers", v>>
    BY <1>1 DEF SourceKind
  <2> QED BY <2>1, <2>2
<1>2. CASE SourceKind(t) = "follow"
  <2>1. PICK a \in Users : t = <<"followers", a>> \/ t = <<"following", a>>
    BY <1>2, KindTallies
  <2>2. \A i, j, k, l : Follow(i, j) = Follow(k, l) <=> i = k /\ j = l
    BY DEF Follow
  <2>3. CASE t = <<"followers", a>>
    <3>1. \A j : Source(t, j) = Follow(j, a)
      BY <2>3, FollowersTally
    <3> QED BY <2>2, <2>3, <3>1
  <2>4. CASE t = <<"following", a>>
    <3>1. \A j : Source(t, j) = Follow(a, j)
      BY <2>4, FollowingTally
    <3> QED BY <2>2, <2>4, <3>1
  <2> QED BY <2>1, <2>3, <2>4
<1> QED BY <1>1, <1>2

-----------------------------------------------------------------------------
(* Engagement keeps the counters right.                                    *)

LEMMA ToggledFits ==
    ASSUME NEW s, Consistent(s), NEW u \in Users, NEW x \in Posts, s[Post(x)] # Unborn
    PROVE  Fits(s, Toggled(s, u, x))
<1> DEFINE d == Like(u, x)
           b == ~s[d]
           r == [s EXCEPT ![d] = b]
           n == IF b THEN 1 ELSE -1
           w == Toggled(s, u, x)
           q == <<"likes", x>>
<1>1. IsDatabase(s) /\ d \in Relations /\ Post(x) \in Docs /\ Countable(Post(x), "likes")
  BY AllNamesInDocs DEF Consistent, Relations, Countable, PostDocs
<1>2. s[d] \in BOOLEAN
  BY <1>1, DatabaseIs
<1>3. b \in BOOLEAN /\ (s[d] = TRUE <=> ~b)
  BY <1>2
<1>4. n = (IF b THEN 1 ELSE -1) /\ n \in Int
  OBVIOUS
<1>5. w = Increment(r, Post(x), "likes", n)
  BY <1>2 DEF Toggled
<1>6. Written(s, r, d, b)
  BY <1>1, WrittenIs
<1>7. q \in Tallies /\ Owner(q) = Post(x) /\ Field(q) = "likes" /\ \A z : Counts(q, z) <=> z = TRUE
  BY PostLikesTally
<1>8. \A t \in Tallies : IF t = q THEN \A j \in Things(t) : Source(t, j) = d <=> j = u
                         ELSE \A j \in Things(t) : Source(t, j) # d
  BY LikeSources
<1>9. u \in Things(q)
  BY PostLikesTally
<1> HIDE DEF d, b, r, n, w, q
<1>10. IsDatabase(r) /\ \A e \in OwnerDocs : r[e] = s[e]
  BY <1>1, <1>3, <1>6, RelationIs
<1>11. /\ Steady(r, w)
       /\ \A t \in Tallies :
            IF Owner(t) = Post(x) /\ Field(t) = "likes"
            THEN Exists(r, Post(x)) => w[Post(x)]["likes"] = r[Post(x)]["likes"] + n
            ELSE SameField(r, w, t)
  BY <1>1, <1>4, <1>5, <1>10, IncrementIs
<1>12. ASSUME NEW t \in Tallies, t # q PROVE Unmoved(r, w, d, t)
  <2>1. Owner(t) # Post(x) \/ Field(t) # "likes"
    BY <1>7, <1>12, TallyIsField
  <2> QED BY <1>8, <1>11, <1>12, <2>1 DEF Unmoved
<1>13. Moved(s, r, w, d, n, q)
  BY <1>7, <1>8, <1>9, <1>11 DEF Moved
<1>14. Fits(s, w)
  BY <1>1, <1>3, <1>4, <1>6, <1>11, <1>12, <1>13, RelationFits
<1> QED BY <1>14 DEF w

LEMMA CommentLikedFits ==
    ASSUME NEW s, Consistent(s), NEW u \in Users, NEW c \in Comments, s[Comment(c)] # Unborn
    PROVE  Fits(s, Increment([s EXCEPT ![CommentLike(u, c)] = ~@], Comment(c), "likes",
                           IF s[CommentLike(u, c)] THEN -1 ELSE 1))
<1> DEFINE d == CommentLike(u, c)
           b == ~s[d]
           r == [s EXCEPT ![d] = b]
           n == IF b THEN 1 ELSE -1
           w == Increment([s EXCEPT ![CommentLike(u, c)] = ~@], Comment(c), "likes",
                           IF s[CommentLike(u, c)] THEN -1 ELSE 1)
           q == <<"commentlikes", c>>
<1>1. IsDatabase(s) /\ d \in Relations /\ Comment(c) \in Docs /\ Countable(Comment(c), "likes")
  BY AllNamesInDocs DEF Consistent, Relations, Countable, CommentDocs
<1>2. s[d] \in BOOLEAN
  BY <1>1, DatabaseIs
<1>3. b \in BOOLEAN /\ (s[d] = TRUE <=> ~b)
  BY <1>2
<1>4. n = (IF b THEN 1 ELSE -1) /\ n \in Int
  OBVIOUS
<1>5. w = Increment(r, Comment(c), "likes", n)
  BY <1>2
<1>6. Written(s, r, d, b)
  BY <1>1, WrittenIs
<1>7. q \in Tallies /\ Owner(q) = Comment(c) /\ Field(q) = "likes" /\ \A z : Counts(q, z) <=> z = TRUE
  BY CommentLikesTally
<1>8. \A t \in Tallies : IF t = q THEN \A j \in Things(t) : Source(t, j) = d <=> j = u
                         ELSE \A j \in Things(t) : Source(t, j) # d
  BY CommentLikeSources
<1>9. u \in Things(q)
  BY CommentLikesTally
<1> HIDE DEF d, b, r, n, w, q
<1>10. IsDatabase(r) /\ \A e \in OwnerDocs : r[e] = s[e]
  BY <1>1, <1>3, <1>6, RelationIs
<1>11. /\ Steady(r, w)
       /\ \A t \in Tallies :
            IF Owner(t) = Comment(c) /\ Field(t) = "likes"
            THEN Exists(r, Comment(c)) => w[Comment(c)]["likes"] = r[Comment(c)]["likes"] + n
            ELSE SameField(r, w, t)
  BY <1>1, <1>4, <1>5, <1>10, IncrementIs
<1>12. ASSUME NEW t \in Tallies, t # q PROVE Unmoved(r, w, d, t)
  <2>1. Owner(t) # Comment(c) \/ Field(t) # "likes"
    BY <1>7, <1>12, TallyIsField
  <2> QED BY <1>8, <1>11, <1>12, <2>1 DEF Unmoved
<1>13. Moved(s, r, w, d, n, q)
  BY <1>7, <1>8, <1>9, <1>11 DEF Moved
<1>14. Fits(s, w)
  BY <1>1, <1>3, <1>4, <1>6, <1>11, <1>12, <1>13, RelationFits
<1> QED BY <1>14 DEF w

LEMMA FollowedFits ==
    ASSUME NEW s, Consistent(s), NEW u \in Users, NEW v \in Users, u # v,
           s[User(u)] # Unborn, s[User(v)] # Unborn,
           NEW should \in BOOLEAN, s[Follow(u, v)] # should
    PROVE  Fits(s, Followed(s, u, v, IF should THEN 1 ELSE -1))
<1> DEFINE d == Follow(u, v)
           n == IF should THEN 1 ELSE -1
           b == n > 0
           r == [s EXCEPT ![d] = b]
           y == Increment(r, User(u), "following", n)
           w == Increment(y, User(v), "followers", n)
           q == <<"following", u>>
           a == <<"followers", v>>
<1>1. /\ IsDatabase(s) /\ d \in Relations
      /\ User(u) \in Docs /\ User(v) \in Docs
      /\ Countable(User(u), "following") /\ Countable(User(v), "followers")
  <2>1. <<u, v>> \in {f \in Users \X Users : f[1] # f[2]} /\ d = Follow(<<u, v>>[1], <<u, v>>[2])
    OBVIOUS
  <2>2. d \in Relations
    BY <2>1 DEF Relations
  <2> QED BY <2>2, AllNamesInDocs DEF Consistent, Countable, UserDocs
<1>2. s[d] \in BOOLEAN
  BY <1>1, DatabaseIs
<1>3. b <=> should
  OBVIOUS
<1>4. b \in BOOLEAN /\ (s[d] = TRUE <=> ~b)
  BY <1>2, <1>3
<1>5. n = (IF b THEN 1 ELSE -1) /\ n \in Int
  BY <1>3
<1>6. Followed(s, u, v, IF should THEN 1 ELSE -1) = w
  BY DEF Followed
<1>7. Written(s, r, d, b)
  BY <1>1, WrittenIs
<1>8. q \in Tallies /\ Owner(q) = User(u) /\ Field(q) = "following" /\ \A z : Counts(q, z) <=> z = TRUE
  BY FollowingTally
<1>9. a \in Tallies /\ Owner(a) = User(v) /\ Field(a) = "followers" /\ \A z : Counts(a, z) <=> z = TRUE
  BY FollowersTally
<1>10. /\ \A j \in Things(q) : Source(q, j) = d <=> j = v
       /\ \A j \in Things(a) : Source(a, j) = d <=> j = u
       /\ \A t \in Tallies : t # q /\ t # a => \A j \in Things(t) : Source(t, j) # d
  BY <1>8, <1>9, FollowSources
<1>11. v \in Things(q) /\ u \in Things(a)
  BY FollowingTally, FollowersTally
<1>12. y = Increment(r, User(u), "following", n) /\ w = Increment(y, User(v), "followers", n)
  OBVIOUS
<1> HIDE DEF d, n, b, r, y, w, q, a
<1>13. IsDatabase(r) /\ \A e \in OwnerDocs : r[e] = s[e]
  BY <1>1, <1>4, <1>7, RelationIs
<1>14. /\ Steady(r, y)
       /\ \A t \in Tallies :
            IF Owner(t) = User(u) /\ Field(t) = "following"
            THEN Exists(r, User(u)) => y[User(u)]["following"] = r[User(u)]["following"] + n
            ELSE SameField(r, y, t)
  BY <1>1, <1>5, <1>12, <1>13, IncrementIs
<1>15. IsDatabase(y)
  BY <1>14 DEF Steady
<1>16. /\ Steady(y, w)
       /\ \A t \in Tallies :
            IF Owner(t) = User(v) /\ Field(t) = "followers"
            THEN Exists(y, User(v)) => w[User(v)]["followers"] = y[User(v)]["followers"] + n
            ELSE SameField(y, w, t)
  BY <1>1, <1>5, <1>12, <1>15, IncrementIs
<1>17. Steady(r, w)
  BY <1>14, <1>16, SteadyTwice
<1>18. ASSUME NEW t \in Tallies PROVE Exists(y, Owner(t)) <=> Exists(r, Owner(t))
  BY <1>14, SteadyOwners, TalliesAreAbout
<1>19. ASSUME NEW t \in Tallies, t # q, t # a PROVE Unmoved(r, w, d, t)
  <2>1. Owner(t) # User(u) \/ Field(t) # "following"
    BY <1>8, <1>19, TallyIsField
  <2>2. Owner(t) # User(v) \/ Field(t) # "followers"
    BY <1>9, <1>19, TallyIsField
  <2>3. SameField(r, y, t) /\ SameField(y, w, t)
    BY <1>14, <1>16, <2>1, <2>2
  <2>4. SameField(r, w, t)
    BY <1>18, <2>3 DEF SameField
  <2> QED BY <1>10, <1>19, <2>4 DEF Unmoved
<1>20. Moved(s, r, w, d, n, q)
  <2>1. SameField(y, w, q)
    BY <1>8, <1>16
  <2>2. Exists(r, Owner(q)) => w[Owner(q)][Field(q)] = r[Owner(q)][Field(q)] + n
    BY <1>8, <1>14, <1>18, <2>1 DEF SameField
  <2> QED BY <1>8, <1>10, <1>11, <2>2 DEF Moved
<1>21. Moved(s, r, w, d, n, a)
  <2>1. SameField(r, y, a)
    BY <1>9, <1>14
  <2>2. Exists(r, Owner(a)) => w[Owner(a)][Field(a)] = r[Owner(a)][Field(a)] + n
    BY <1>9, <1>16, <1>18, <2>1 DEF SameField
  <2> QED BY <1>9, <1>10, <1>11, <2>2 DEF Moved
<1>22. Fits(s, w)
  BY <1>1, <1>4, <1>5, <1>7, <1>17, <1>19, <1>20, <1>21, RelationFits
<1> QED BY <1>6, <1>22

\* Other fields of accounts than their two counters are written.
LEMMA AccountsSteady ==
    ASSUME NEW s, IsDatabase(s), NEW w, DOMAIN w = Docs,
           \A d \in Docs : \/ w[d] = s[d]
                           \/ /\ d \in UserDocs /\ s[d] \in Account /\ w[d] \in Account
                              /\ w[d].followers = s[d].followers
                              /\ w[d].following = s[d].following
    PROVE  /\ Steady(s, w)
           /\ \A t \in Tallies : SameField(s, w, t)
<1>1. \A d \in Docs : d \notin UserDocs => w[d] = s[d]
  OBVIOUS
<1>2. /\ \A u \in Users : User(u) \in UserDocs /\ User(u) \in Docs
      /\ \A x \in Posts : Post(x) \notin UserDocs /\ Post(x) \in Docs
      /\ \A c \in Comments : Comment(c) \notin UserDocs /\ Comment(c) \in Docs
      /\ \A k \in Communities : Community(k) \notin UserDocs /\ Community(k) \in Docs
      /\ \A u \in Users, k \in Communities : Member(u, k) \notin UserDocs /\ Member(u, k) \in Docs
      /\ \A d \in Relations \cup {Guard} : d \notin UserDocs /\ d \in Docs
  BY AllNamesInDocs, CollectionsDiffer, NamesDiffer DEF UserDocs, Docs
<1>3. \A u \in Users : SameAccount(s[User(u)], w[User(u)])
  BY <1>2 DEF SameAccount
<1>4. \A u \in Users : w[User(u)] \in Account \cup {Unborn, Gone}
  BY <1>2, DatabaseIs
<1>5. IsDatabase(w)
  BY <1>1, <1>2, <1>4, DatabaseIs
<1>6. Steady(s, w)
  BY <1>1, <1>2, <1>3, <1>5, SameItself DEF Steady
<1>7. ASSUME NEW t \in Tallies PROVE SameField(s, w, t)
  <2>1. CASE w[Owner(t)] = s[Owner(t)]
    BY <2>1 DEF SameField
  <2>2. CASE w[Owner(t)] # s[Owner(t)]
    <3>1. /\ Owner(t) \in UserDocs
          /\ w[Owner(t)].followers = s[Owner(t)].followers
          /\ w[Owner(t)].following = s[Owner(t)].following
      BY <2>2, TalliesAreAbout
    <3>2. OwnerKind(t) = "user"
      BY <3>1, KindsAre, CollectionsDiffer
    <3>3. t[1] \in {"followers", "following"}
      BY <3>2 DEF OwnerKind
    <3>4. Field(t) = "followers" \/ Field(t) = "following"
      BY <3>3 DEF Field
    <3> QED BY <3>1, <3>4 DEF SameField
  <2> QED BY <2>1, <2>2
<1> QED BY <1>6, <1>7

LEMMA FlagsFit ==
    ASSUME NEW s, Consistent(s), NEW u \in Users, NEW v, NEW w, Written(s, w, User(u), v),
           s[User(u)] \in Account, v \in Account,
           v.followers = s[User(u)].followers, v.following = s[User(u)].following
    PROVE  Fits(s, w)
<1>1. User(u) \in UserDocs
  BY DEF UserDocs
<1>2. /\ IsDatabase(s) /\ DOMAIN w = Docs
      /\ \A d \in Docs : \/ w[d] = s[d]
                         \/ /\ d \in UserDocs /\ s[d] \in Account /\ w[d] \in Account
                            /\ w[d].followers = s[d].followers
                            /\ w[d].following = s[d].following
  BY <1>1 DEF Consistent, Written
<1>3. Steady(s, w) /\ \A t \in Tallies : SameField(s, w, t)
  BY <1>2, AccountsSteady
<1> QED BY <1>3, SteadyFits

LEMMA SeenFits ==
    ASSUME NEW s, Consistent(s), NEW u \in Users, NEW x \in Posts
    PROVE  Fits(s, Seen(s, u, x))
<1>1. IsDatabase(s)
  BY DEF Consistent
<1>2. CASE s[View(u, x)]
  <2>1. Steady(s, s) /\ \A t \in Tallies : SameField(s, s, t)
    BY <1>1, SteadyNothing DEF SameField
  <2>2. Fits(s, s)
    BY <2>1, SteadyFits
  <2> QED BY <1>2, <2>2 DEF Seen
<1>3. CASE ~s[View(u, x)]
  <2> DEFINE d == View(u, x)
             r == [s EXCEPT ![d] = TRUE]
             w == Increment(r, Post(x), "views", 1)
  <2>1. Written(s, r, d, TRUE)
    BY <1>1, WrittenIs
  <2>2. d \in Relations /\ d[1] = "view"
    BY NamesDiffer DEF Relations
  <2>3. Seen(s, u, x) = w
    BY <1>3 DEF Seen
  <2>4. w = Increment(r, Post(x), "views", 1)
    OBVIOUS
  <2> HIDE DEF d, r, w
  <2>5. IsDatabase(r) /\ \A e \in OwnerDocs : r[e] = s[e]
    BY <1>1, <2>1, <2>2, RelationIs
  <2>6. \A e \in Docs : e # d => r[e] = s[e]
    BY <2>1 DEF Written
  <2>7. \A v \in Users, k \in Communities : Member(v, k) # d /\ Member(v, k) \in Docs
    BY <2>2, AllNamesInDocs, NamesDiffer
  <2>8. \A e \in Relations : e[1] # "view" => e # d /\ e \in Docs
    BY <2>2 DEF Docs
  <2>9. Steady(s, r)
    BY <2>5, <2>6, <2>7, <2>8, AllNamesInDocs, SameItself DEF Steady
  <2>10. Post(x) \in Docs /\ Countable(Post(x), "views")
    BY AllNamesInDocs DEF Countable, PostDocs
  <2>11. \A t \in Tallies : Field(t) # "views"
    BY DEF Tallies, PostTallies, CommentTallies, UserTallies, CommunityTallies, Field
  <2>12. Steady(r, w) /\ \A t \in Tallies : SameField(r, w, t)
    BY <2>4, <2>5, <2>10, <2>11, IncrementIs
  <2>13. Steady(s, w)
    BY <2>9, <2>12, SteadyTwice
  <2>14. ASSUME NEW t \in Tallies PROVE SameField(s, w, t)
    <3>1. r[Owner(t)] = s[Owner(t)]
      BY <2>5, TalliesAreAbout
    <3> QED BY <2>12, <3>1 DEF SameField, Exists
  <2>15. Fits(s, w)
    BY <2>13, <2>14, SteadyFits
  <2> QED BY <2>3, <2>15
<1> QED BY <1>2, <1>3

LEMMA AfterSteady ==
    ASSUME NEW s, NEW r, NEW w, Later(s, r), Steady(r, w),
           AnswersStayInPost(r), PostsAreSound(r), AdminIsCreator(r)
    PROVE  /\ IsDatabase(w) /\ Later(s, w)
           /\ AnswersStayInPost(w) /\ PostsAreSound(w) /\ AdminIsCreator(w)
<1>1. Thins(r, w) /\ SameRoles(r, w)
  BY SteadyThins
<1>2. Later(s, w)
  BY <1>1, LaterTwice DEF Thins
<1> QED BY <1>1, <1>2, ThinsKeeps, SameRolesKeep DEF Steady

\* One counter goes up.
LEMMA IncrementOne ==
    ASSUME NEW r, IsDatabase(r), NEW q \in Tallies, NEW w,
           w = Increment(r, Owner(q), Field(q), 1)
    PROVE  /\ Steady(r, w)
           /\ Exists(r, Owner(q)) => w[Owner(q)][Field(q)] = r[Owner(q)][Field(q)] + 1
           /\ \A t \in Tallies \ {q} : SameField(r, w, t)
<1>1. Owner(q) \in Docs /\ Countable(Owner(q), Field(q))
  BY TalliesAreAbout, TalliesAreCountable
<1>2. /\ Steady(r, w)
      /\ \A t \in Tallies :
           IF Owner(t) = Owner(q) /\ Field(t) = Field(q)
           THEN Exists(r, Owner(q)) => w[Owner(q)][Field(q)] = r[Owner(q)][Field(q)] + 1
           ELSE SameField(r, w, t)
  BY <1>1, IncrementIs
<1> QED BY <1>2, TallyIsField

LEMMA CommentIncremented ==
    ASSUME NEW r, IsDatabase(r), NEW x \in Posts, NEW b \in Comments \cup {None}, NEW w,
           w = LET y == Increment(r, Post(x), "comments", 1) IN
               IF b = None THEN y ELSE Increment(y, Comment(b), "replies", 1),
           NEW q, q = <<"comments", x>>, NEW a, a = <<"replies", b>>
    PROVE  /\ Steady(r, w)
           /\ \A t \in Tallies :
                IF t = q \/ t = a
                THEN Exists(r, Owner(t)) => w[Owner(t)][Field(t)] = r[Owner(t)][Field(t)] + 1
                ELSE SameField(r, w, t)
<1> DEFINE y == Increment(r, Post(x), "comments", 1)
<1>1. q \in Tallies /\ Owner(q) = Post(x) /\ Field(q) = "comments"
  BY PostCommentsTally
<1>2. q[1] = "comments" /\ a[1] = "replies"
  OBVIOUS
<1>3. y = Increment(r, Owner(q), Field(q), 1)
  BY <1>1
<1>4. w = IF b = None THEN y ELSE Increment(y, Comment(b), "replies", 1)
  OBVIOUS
<1> HIDE DEF y
<1>5. /\ Steady(r, y)
      /\ Exists(r, Owner(q)) => y[Owner(q)][Field(q)] = r[Owner(q)][Field(q)] + 1
      /\ \A t \in Tallies \ {q} : SameField(r, y, t)
  BY <1>1, <1>3, IncrementOne
<1>6. CASE b = None
  <2>1. a \notin Tallies
    <3>1. a[2] = None
      BY <1>6
    <3>2. None \notin Posts \cup Comments \cup Users \cup Communities
      BY NoneAssumption
    <3> QED BY <3>1, <3>2 DEF Tallies, PostTallies, CommentTallies, UserTallies, CommunityTallies
  <2>2. w = y
    BY <1>4, <1>6
  <2> QED BY <1>5, <2>1, <2>2
<1>7. CASE b # None
  <2>1. a \in Tallies /\ Owner(a) = Comment(b) /\ Field(a) = "replies"
    BY <1>7, RepliesTally
  <2>2. w = Increment(y, Owner(a), Field(a), 1) /\ IsDatabase(y)
    BY <1>4, <1>5, <1>7, <2>1 DEF Steady
  <2>3. /\ Steady(y, w)
        /\ Exists(y, Owner(a)) => w[Owner(a)][Field(a)] = y[Owner(a)][Field(a)] + 1
        /\ \A t \in Tallies \ {a} : SameField(y, w, t)
    BY <2>1, <2>2, IncrementOne
  <2>4. Steady(r, w)
    BY <1>5, <2>3, SteadyTwice
  <2>5. \A t \in Tallies : Exists(y, Owner(t)) <=> Exists(r, Owner(t))
    BY <1>5, SteadyOwners, TalliesAreAbout
  <2>6. q # a
    BY <1>2
  <2>7. Exists(r, Owner(q)) => w[Owner(q)][Field(q)] = r[Owner(q)][Field(q)] + 1
    BY <1>1, <1>5, <2>3, <2>5, <2>6 DEF SameField
  <2>8. Exists(r, Owner(a)) => w[Owner(a)][Field(a)] = r[Owner(a)][Field(a)] + 1
    BY <1>5, <2>1, <2>3, <2>5, <2>6 DEF SameField
  <2>9. ASSUME NEW t \in Tallies, t # q, t # a PROVE SameField(r, w, t)
    BY <1>5, <2>3, <2>5, <2>9 DEF SameField
  <2> QED BY <2>4, <2>7, <2>8, <2>9
<1> QED BY <1>6, <1>7

\* A new comment is counted by its post and the comment it answers.
LEMMA CommentBorn ==
    ASSUME NEW s, Consistent(s), NEW u \in Users, NEW c \in Comments, NEW x \in Posts,
           NEW b \in Comments \cup {None}, s[Comment(c)] = Unborn,
           b # None => /\ s[Comment(b)] # Unborn
                       /\ Exists(s, Comment(b)) => s[Comment(b)].post = x,
           NEW v, v = NewComment(u, x, b), NEW r, Written(s, r, Comment(c), v)
    PROVE  /\ IsDatabase(r) /\ Later(s, r)
           /\ AnswersStayInPost(r) /\ PostsAreSound(r) /\ AdminIsCreator(r)
           /\ \A e \in OwnerDocs : e # Comment(c) => r[e] = s[e]
           /\ \A t \in Tallies :
                IF t = <<"comments", x>> \/ t = <<"replies", b>>
                THEN c \notin Counted(s, t) /\ Counted(r, t) = Counted(s, t) \cup {c}
                ELSE Counted(r, t) = Counted(s, t)
<1>1. v \in CommentRecord /\ v.post = x /\ v.parent = b
  BY NoneAssumption DEF NewComment, CommentRecord
<1>2. v \notin {Unborn, Gone}
  BY <1>1, MissingAssumption
<1> HIDE DEF NewComment
<1>3. IsDatabase(s)
  BY DEF Consistent
<1>4. DOMAIN r = Docs /\ \A e \in Docs : r[e] = IF e = Comment(c) THEN v ELSE s[e]
  BY DEF Written
<1>5. Comment(c) \in Docs /\ Comment(c) \in CommentDocs /\ Comment(c) \in OwnerDocs
  BY AllNamesInDocs DEF CommentDocs
<1>6. /\ \A e \in OwnerDocs : e # Comment(c) => r[e] = s[e]
      /\ r[Comment(c)] = v
      /\ \A e \in Docs : e # Comment(c) => r[e] = s[e]
  BY <1>4, <1>5, AllNamesInDocs
<1>7. /\ \A e \in Comments : e # c => Comment(e) # Comment(c)
      /\ \A y \in Posts : Post(y) # Comment(c)
      /\ \A k \in Communities : Community(k) # Comment(c)
      /\ \A y \in Users, k \in Communities : Member(y, k) # Comment(c)
  BY NamesDiffer DEF Community
<1>8. IsDatabase(r)
  BY <1>1, <1>3, <1>4, <1>5, TypesAre DEF IsDatabase
<1>9. Later(s, r)
  <2>1. s[Comment(c)] # Gone /\ ~Exists(s, Comment(c))
    BY MissingAssumption DEF Exists
  <2> QED BY <1>2, <1>6, <1>7, <2>1, AllNamesInDocs DEF Later
<1>10. AnswersStayInPost(r)
  <2> SUFFICES ASSUME NEW e \in Comments, NEW f \in Comments,
                      Exists(r, Comment(e)), Exists(r, Comment(f)), r[Comment(e)].parent = f
               PROVE  r[Comment(f)].post = r[Comment(e)].post
    BY DEF AnswersStayInPost
  <2>1. CASE e = c
    <3>1. f = b /\ b # None /\ b # c
      BY <1>1, <1>6, <2>1, NoneAssumption
    <3>2. r[Comment(f)] = s[Comment(f)] /\ Exists(s, Comment(b))
      BY <1>6, <1>7, <3>1, AllNamesInDocs DEF Exists
    <3> QED BY <1>1, <1>6, <2>1, <3>1, <3>2
  <2>2. CASE e # c
    <3>1. r[Comment(e)] = s[Comment(e)]
      BY <1>6, <1>7, <2>2, AllNamesInDocs
    <3>2. Exists(s, Comment(e)) /\ s[Comment(e)].parent = f
      BY <3>1 DEF Exists
    <3>3. f # c
      BY <3>2, AnswersAreCounted
    <3>4. r[Comment(f)] = s[Comment(f)]
      BY <1>6, <1>7, <3>3, AllNamesInDocs
    <3> QED BY <3>1, <3>2, <3>4 DEF Exists, Consistent, AnswersStayInPost
  <2> QED BY <2>1, <2>2
<1>11. PostsAreSound(r)
  <2>1. \A y \in Posts : r[Post(y)] = s[Post(y)]
    BY <1>6, <1>7, AllNamesInDocs
  <2>2. ASSUME NEW k \in Communities PROVE r[Community(k)] = s[Community(k)]
    BY <1>6, <1>7, AllNamesInDocs
  <2>3. ASSUME NEW y \in Posts, Exists(r, Post(y))
        PROVE  /\ r[Post(y)].of # None => r[Post(y)].status = "active"
               /\ r[Post(y)].community # None => WasFound(r, Community(r[Post(y)].community))
    <3>1. Exists(s, Post(y)) /\ r[Post(y)] = s[Post(y)]
      BY <2>1, <2>3 DEF Exists
    <3>2. /\ s[Post(y)].of # None => s[Post(y)].status = "active"
          /\ s[Post(y)].community # None => WasFound(s, Community(s[Post(y)].community))
      BY <3>1 DEF Consistent, PostsAreSound
    <3>3. s[Post(y)].community \in Communities \cup {None}
      BY <1>3, <3>1, DatabaseIs DEF Exists, PostRecord
    <3> QED BY <2>2, <3>1, <3>2, <3>3 DEF WasFound
  <2> QED BY <2>3 DEF PostsAreSound
<1>12. AdminIsCreator(r)
  <2>1. /\ \A k \in Communities : r[Community(k)] = s[Community(k)]
        /\ \A y \in Users, k \in Communities : r[Member(y, k)] = s[Member(y, k)]
    BY <1>6, <1>7, AllNamesInDocs
  <2> QED BY <2>1 DEF Consistent, AdminIsCreator, Exists
<1>13. ASSUME NEW t \in Tallies
       PROVE  IF t = <<"comments", x>> \/ t = <<"replies", b>>
              THEN c \notin Counted(s, t) /\ Counted(r, t) = Counted(s, t) \cup {c}
              ELSE Counted(r, t) = Counted(s, t)
  <2>1. CASE SourceKind(t) # "comment"
    <3>1. \A d \in Docs : d[1] # "comment" => r[d] = s[d]
      BY <1>6, NamesDiffer
    <3>2. Counted(r, t) = Counted(s, t)
      BY <2>1, <3>1, OtherKind
    <3>3. t # <<"comments", x>> /\ t # <<"replies", b>>
      BY <2>1 DEF SourceKind
    <3> QED BY <3>2, <3>3
  <2>3. ASSUME NEW e \in Comments, e # c PROVE r[Comment(e)] = s[Comment(e)]
    BY <1>6, <1>7, <2>3, AllNamesInDocs
  <2>4. ASSUME NEW y \in Posts, t = <<"comments", y>>
        PROVE  IF y = x
               THEN c \notin Counted(s, t) /\ Counted(r, t) = Counted(s, t) \cup {c}
               ELSE Counted(r, t) = Counted(s, t)
    <3>1. \A z : Counted(z, t) = {e \in Comments : Exists(z, Comment(e)) /\ z[Comment(e)].post = y}
      BY <2>4, PostCommentsTally DEF CommentsOf, CommentsThat
    <3>2. c \notin Counted(s, t)
      BY <3>1 DEF Exists
    <3>3. c \in Counted(r, t) <=> y = x
      BY <1>1, <1>2, <1>6, <3>1 DEF Exists
    <3>4. \A e \in Comments : e # c => (e \in Counted(r, t) <=> e \in Counted(s, t))
      BY <2>3, <3>1 DEF Exists
    <3>5. Counted(s, t) \subseteq Comments /\ Counted(r, t) \subseteq Comments
      BY <3>1
    <3> QED BY <3>2, <3>3, <3>4, <3>5
  <2>5. ASSUME NEW f \in Comments, t = <<"replies", f>>
        PROVE  IF f = b
               THEN c \notin Counted(s, t) /\ Counted(r, t) = Counted(s, t) \cup {c}
               ELSE Counted(r, t) = Counted(s, t)
    <3>1. \A z : Counted(z, t) = {e \in Comments : Exists(z, Comment(e)) /\ z[Comment(e)].parent = f}
      BY <2>5, RepliesTally DEF RepliesTo, CommentsThat
    <3>2. c \notin Counted(s, t)
      BY <3>1 DEF Exists
    <3>3. c \in Counted(r, t) <=> f = b
      BY <1>1, <1>2, <1>6, <3>1 DEF Exists
    <3>4. \A e \in Comments : e # c => (e \in Counted(r, t) <=> e \in Counted(s, t))
      BY <2>3, <3>1 DEF Exists
    <3>5. Counted(s, t) \subseteq Comments /\ Counted(r, t) \subseteq Comments
      BY <3>1
    <3> QED BY <3>2, <3>3, <3>4, <3>5
  <2>6. CASE SourceKind(t) = "comment"
    <3>1. CASE \E y \in Posts : t = <<"comments", y>>
      <4>1. PICK y \in Posts : t = <<"comments", y>>
        BY <3>1
      <4>2. (t = <<"comments", x>> <=> y = x) /\ t # <<"replies", b>>
        BY <4>1
      <4> QED BY <2>4, <4>1, <4>2
    <3>2. CASE \E f \in Comments : t = <<"replies", f>>
      <4>1. PICK f \in Comments : t = <<"replies", f>>
        BY <3>2
      <4>2. (t = <<"replies", b>> <=> f = b) /\ t # <<"comments", x>>
        BY <4>1
      <4> QED BY <2>5, <4>1, <4>2
    <3> QED BY <2>6, <3>1, <3>2, KindTallies
  <2> QED BY <2>1, <2>6
<1> QED BY <1>6, <1>8, <1>9, <1>10, <1>11, <1>12, <1>13

LEMMA CommentedFits ==
    ASSUME NEW s, Consistent(s), NEW u \in Users, NEW c \in Comments, NEW x \in Posts,
           NEW b \in Comments \cup {None}, s[Comment(c)] = Unborn, s[Post(x)] # Unborn,
           b # None => /\ s[Comment(b)] # Unborn
                       /\ Exists(s, Comment(b)) => s[Comment(b)].post = x
    PROVE  Fits(s, Commented(s, u, c, x, b))
<1> DEFINE v == NewComment(u, x, b)
           r == [s EXCEPT ![Comment(c)] = v]
           w == Commented(s, u, c, x, b)
           q == <<"comments", x>>
           a == <<"replies", b>>
<1>1. IsDatabase(s)
  BY DEF Consistent
<1>2. Written(s, r, Comment(c), v)
  BY <1>1, WrittenIs
<1>3. w = LET y == Increment(r, Post(x), "comments", 1) IN
          IF b = None THEN y ELSE Increment(y, Comment(b), "replies", 1)
  BY DEF Commented
<1>4. v = NewComment(u, x, b) /\ q = <<"comments", x>> /\ a = <<"replies", b>>
  OBVIOUS
<1>5. v.likes = 0 /\ v.replies = 0
  BY DEF NewComment
<1> HIDE DEF v, r, w, q, a
<1>6. /\ IsDatabase(r) /\ Later(s, r)
      /\ AnswersStayInPost(r) /\ PostsAreSound(r) /\ AdminIsCreator(r)
      /\ \A e \in OwnerDocs : e # Comment(c) => r[e] = s[e]
      /\ \A t \in Tallies :
           IF t = q \/ t = a
           THEN c \notin Counted(s, t) /\ Counted(r, t) = Counted(s, t) \cup {c}
           ELSE Counted(r, t) = Counted(s, t)
  BY <1>2, <1>4, CommentBorn
<1>7. /\ Steady(r, w)
      /\ \A t \in Tallies :
           IF t = q \/ t = a
           THEN Exists(r, Owner(t)) => w[Owner(t)][Field(t)] = r[Owner(t)][Field(t)] + 1
           ELSE SameField(r, w, t)
  BY <1>3, <1>4, <1>6, CommentIncremented
<1>8. /\ IsDatabase(w) /\ Later(s, w)
      /\ AnswersStayInPost(w) /\ PostsAreSound(w) /\ AdminIsCreator(w)
  BY <1>6, <1>7, AfterSteady
<1>9. ASSUME NEW t \in Tallies
      PROVE  /\ Counted(w, t) = Counted(r, t)
             /\ w[Owner(t)] = Unborn <=> r[Owner(t)] = Unborn
             /\ Exists(w, Owner(t)) <=> Exists(r, Owner(t))
  BY <1>7, SteadyCounted, SteadyOwners, TalliesAreAbout
<1>10. r[Comment(c)] = v /\ v \notin {Unborn, Gone}
  <2>1. Comment(c) \in Docs /\ v \in CommentRecord
    BY <1>4, AllNamesInDocs, NoneAssumption DEF NewComment, CommentRecord
  <2> QED BY <1>2, <2>1, MissingAssumption DEF Written
<1>11. /\ q \in Tallies /\ Owner(q) = Post(x) /\ Post(x) # Comment(c)
       /\ b # None => a \in Tallies /\ Owner(a) = Comment(b) /\ Comment(b) # Comment(c)
  <2>1. b # None => b # c
    OBVIOUS
  <2> QED BY <1>4, <2>1, PostCommentsTally, RepliesTally, NamesDiffer
<1>12. a \in Tallies => b # None
  <2>1. a[2] = b
    BY <1>4
  <2> QED BY <2>1, NoneAssumption DEF Tallies, PostTallies, CommentTallies, UserTallies, CommunityTallies
<1>13. ASSUME NEW t \in Tallies, t = q \/ t = a PROVE Grows(s, w, t)
  <2>1. s[Owner(t)] # Unborn /\ r[Owner(t)] = s[Owner(t)]
    BY <1>6, <1>11, <1>12, <1>13, TalliesAreAbout
  <2> QED BY <1>6, <1>7, <1>9, <1>13, <2>1, OneMore DEF Exists
<1>14. ASSUME NEW t \in Tallies, t # q, t # a, Owner(t) # Comment(c) PROVE Shrinks(s, w, t)
  <2>1. r[Owner(t)] = s[Owner(t)]
    BY <1>6, <1>14, TalliesAreAbout
  <2> QED BY <1>6, <1>7, <1>9, <1>14, <2>1, NoneMore DEF SameField, Exists
<1>15. ASSUME NEW t \in Tallies, t # q, t # a, Owner(t) = Comment(c) PROVE Grows(s, w, t)
  <2>1. IsUnused(s, t) /\ Counted(s, t) = {} /\ Counted(w, t) = {}
    BY <1>6, <1>9, <1>15 DEF Consistent, IsUnused
  <2>2. OwnerKind(t) = "comment"
    BY <1>15, KindsAre, NamesDiffer
  <2>3. t[1] \in {"commentlikes", "replies"}
    BY <2>2 DEF OwnerKind
  <2>4. Field(t) = "likes" \/ Field(t) = "replies"
    BY <2>3 DEF Field
  <2>5. r[Owner(t)][Field(t)] = 0
    BY <1>5, <1>10, <1>15, <2>4
  <2>6. w[Owner(t)][Field(t)] = 0 /\ w[Owner(t)] # Unborn
    BY <1>7, <1>9, <1>10, <1>15, <2>5 DEF SameField, Exists
  <2> QED BY <1>15, <2>1, <2>6, FirstOwner, FS_EmptySet
<1>16. Fits(s, w)
  BY <1>8, <1>13, <1>14, <1>15, FitsIs
<1> QED BY <1>16 DEF w

-----------------------------------------------------------------------------
(* Removals: what is counted becomes less, and the counters outside of K   *)
(* are still right.                                                        *)

Purges(s, w, K) ==
    /\ Thins(s, w)
    /\ \A t \in Tallies : /\ Counted(w, t) \subseteq Counted(s, t)
                          /\ t \in K \/ (IsRight(s, t) => IsRight(w, t))

LEMMA PurgesTwice ==
    ASSUME NEW s, NEW w, NEW v, NEW K, NEW L, Purges(s, w, K), Purges(w, v, L)
    PROVE  Purges(s, v, K \cup L)
BY ThinsTwice DEF Purges

LEMMA PurgesRecounted ==
    ASSUME NEW s, NEW w, NEW v, NEW K, NEW L, Purges(s, w, K), Recounted(w, v, L)
    PROVE  Purges(s, v, K \ L) /\ SameRoles(w, v)
<1>1. Thins(w, v) /\ SameRoles(w, v)
  BY SteadyThins DEF Recounted
<1>2. Thins(s, v)
  BY <1>1, ThinsTwice DEF Purges
<1>3. ASSUME NEW t \in Tallies
      PROVE  /\ Counted(v, t) \subseteq Counted(s, t)
             /\ t \in K \ L \/ (IsRight(s, t) => IsRight(v, t))
  <2>1. /\ Shrinks(w, v, t)
        /\ Counted(v, t) = Counted(w, t)
        /\ t \in L => IsRight(v, t)
    BY RecountedShrinks
  <2> QED BY <2>1 DEF Purges, Shrinks
<1> QED BY <1>1, <1>2, <1>3 DEF Purges

LEMMA PurgesFits ==
    ASSUME NEW s, Consistent(s), NEW w, Purges(s, w, {}), AdminIsCreator(w)
    PROVE  Fits(s, w)
<1>1. IsDatabase(w) /\ Later(s, w) /\ Thins(s, w)
  BY DEF Purges, Thins
<1>2. AnswersStayInPost(w) /\ PostsAreSound(w)
  BY <1>1, ThinsKeeps DEF Consistent
<1>3. \A t \in Tallies : Shrinks(s, w, t)
  BY DEF Purges, Shrinks
<1> QED BY <1>1, <1>2, <1>3, FitsIs

\* Relations are counted when they are there.
LEMMA RelationCounts ==
    ASSUME NEW t \in Tallies, NEW i \in Things(t), Source(t, i) \in Relations
    PROVE  \A r : Counts(t, r) <=> r = TRUE
<1>1. SourceKind(t) \in {"follow", "like", "view", "commentlike"}
  BY KindsAre, CollectionsDiffer
<1>2. SourceKind(t) \in {"like", "commentlike", "follow", "member", "comment", "post"}
  BY DEF SourceKind
<1>3. CASE SourceKind(t) = "like"
  <2>1. PICK x \in Posts : t = <<"likes", x>>
    BY <1>3, KindTallies
  <2> QED BY <2>1, PostLikesTally
<1>4. CASE SourceKind(t) = "commentlike"
  <2>1. PICK c \in Comments : t = <<"commentlikes", c>>
    BY <1>4, KindTallies
  <2> QED BY <2>1, CommentLikesTally
<1>5. CASE SourceKind(t) = "follow"
  <2>1. PICK u \in Users : t = <<"followers", u>> \/ t = <<"following", u>>
    BY <1>5, KindTallies
  <2> QED BY <2>1, FollowersTally, FollowingTally
<1> QED BY <1>1, <1>2, <1>3, <1>4, <1>5

\* A post or comment that is gone is not counted.
LEMMA GoneCounts ==
    ASSUME NEW t \in Tallies, NEW i \in Things(t), Source(t, i) \in PostDocs \cup CommentDocs
    PROVE  ~Counts(t, Gone)
<1>1. SourceKind(t) \in {"post", "comment"}
  BY KindsAre, CollectionsDiffer
<1>2. CASE SourceKind(t) = "comment"
  <2>1. CASE \E x \in Posts : t = <<"comments", x>>
    BY <2>1, PostCommentsTally
  <2>2. CASE \E c \in Comments : t = <<"replies", c>>
    BY <2>2, RepliesTally
  <2> QED BY <1>2, <2>1, <2>2, KindTallies
<1>3. CASE SourceKind(t) = "post"
  <2>1. CASE \E x \in Posts : t = <<"reposts", x>>
    BY <2>1, RepostsTally
  <2>2. CASE \E k \in Communities : t = <<"posts", k>>
    BY <2>2, CommunityPostsTally
  <2> QED BY <1>3, <2>1, <2>2, KindTallies
<1> QED BY <1>1, <1>2, <1>3

\* The posts and comments of G go, and the relations of R.
Cleared(s, w, G, R) ==
    /\ DOMAIN w = Docs
    /\ \A d \in Docs : w[d] = IF d \in G THEN Gone ELSE IF d \in R THEN FALSE ELSE s[d]

LEMMA ClearedIs ==
    ASSUME NEW s, IsDatabase(s), NEW w, NEW G \in SUBSET (PostDocs \cup CommentDocs),
           NEW R \in SUBSET Relations, Cleared(s, w, G, R)
    PROVE  /\ Thins(s, w) /\ SameRoles(s, w) /\ IsDatabase(w)
           /\ \A e \in OwnerDocs : w[e] = IF e \in G THEN Gone ELSE s[e]
           /\ \A t \in Tallies :
                Counted(w, t) = {i \in Counted(s, t) : Source(t, i) \notin G \cup R}
<1>1. /\ G \subseteq Docs /\ R \subseteq Docs /\ G \subseteq OwnerDocs
      /\ \A d \in R : d \notin OwnerDocs /\ d \notin MemberDocs
      /\ \A d \in G : d \notin UserDocs /\ d \notin CommunityDocs /\ d \notin MemberDocs
      /\ Guard \notin G
  BY CollectionsDiffer, NamesDiffer DEF Docs, OwnerDocs
<1>2. \A e \in OwnerDocs : w[e] = IF e \in G THEN Gone ELSE s[e]
  BY <1>1, AllNamesInDocs DEF Cleared
<1>3. /\ \A u \in Users : w[User(u)] = s[User(u)]
      /\ \A k \in Communities : w[Community(k)] = s[Community(k)]
      /\ \A u \in Users, k \in Communities : w[Member(u, k)] = s[Member(u, k)]
  <2>1. /\ \A u \in Users : User(u) \in UserDocs
        /\ \A k \in Communities : Community(k) \in CommunityDocs
        /\ \A u \in Users, k \in Communities : Member(u, k) \in MemberDocs
    BY DEF UserDocs, CommunityDocs, MemberDocs
  <2>2. /\ \A u \in Users : User(u) \notin G
        /\ \A k \in Communities : Community(k) \notin G
        /\ \A u \in Users, k \in Communities : Member(u, k) \notin G \cup R
    BY <1>1, <2>1
  <2> QED BY <1>2, <2>2, AllNamesInDocs DEF Cleared
<1>4. IsDatabase(w)
  <2>1. \A d \in Relations \cup {Guard} : d \in Docs /\ d \notin G
    BY CollectionsDiffer, NamesDiffer DEF Docs
  <2>2. \A d \in Relations \cup {Guard} : w[d] = FALSE \/ w[d] = s[d]
    BY <2>1 DEF Cleared
  <2>3. /\ \A x \in Posts : w[Post(x)] = Gone \/ w[Post(x)] = s[Post(x)]
        /\ \A c \in Comments : w[Comment(c)] = Gone \/ w[Comment(c)] = s[Comment(c)]
    BY <1>2, AllNamesInDocs
  <2> QED BY <1>3, <2>2, <2>3, DatabaseIs DEF Cleared
<1>5. Thins(s, w)
  BY <1>2, <1>3, <1>4, AllNamesInDocs, MissingAssumption DEF Thins, Later, Exists
<1>6. SameRoles(s, w)
  BY <1>3 DEF SameRoles, Lead, Exists
<1>7. ASSUME NEW t \in Tallies
      PROVE  Counted(w, t) = {i \in Counted(s, t) : Source(t, i) \notin G \cup R}
  <2>1. ASSUME NEW i \in Things(t)
        PROVE  i \in Counted(w, t) <=> i \in Counted(s, t) /\ Source(t, i) \notin G \cup R
    <3>1. Source(t, i) \in Docs
      BY TalliesAreAbout
    <3>2. CASE Source(t, i) \in G
      BY <3>1, <3>2, GoneCounts DEF Cleared, Counted
    <3>3. CASE Source(t, i) \notin G /\ Source(t, i) \in R
      <4>1. ~Counts(t, FALSE)
        BY <3>3, RelationCounts
      <4> QED BY <3>1, <3>3, <4>1 DEF Cleared, Counted
    <3>4. CASE Source(t, i) \notin G /\ Source(t, i) \notin R
      BY <3>1, <3>4 DEF Cleared, Counted
    <3> QED BY <3>2, <3>3, <3>4
  <2>2. Counted(w, t) \subseteq Things(t) /\ Counted(s, t) \subseteq Things(t)
    BY DEF Counted
  <2> QED BY <2>1, <2>2
<1> QED BY <1>2, <1>4, <1>5, <1>6, <1>7

\* K has all tallies that lose something and whose owner is there and stays.
Covers(s, K, G, R) ==
    \A t \in Tallies : \/ t \in K
                       \/ Owner(t) \in G
                       \/ ~Exists(s, Owner(t))
                       \/ \A i \in Counted(s, t) : Source(t, i) \notin G \cup R

LEMMA ClearedPurges ==
    ASSUME NEW s, IsDatabase(s), NEW w, NEW G \in SUBSET (PostDocs \cup CommentDocs),
           NEW R \in SUBSET Relations, Cleared(s, w, G, R), NEW K, Covers(s, K, G, R)
    PROVE  Purges(s, w, K)
<1>1. Thins(s, w)
  BY ClearedIs
<1>2. \A e \in OwnerDocs : w[e] = IF e \in G THEN Gone ELSE s[e]
  BY ClearedIs
<1>3. \A t \in Tallies : Counted(w, t) = {i \in Counted(s, t) : Source(t, i) \notin G \cup R}
  BY ClearedIs
<1>4. ASSUME NEW t \in Tallies
      PROVE  /\ Counted(w, t) \subseteq Counted(s, t)
             /\ t \in K \/ (IsRight(s, t) => IsRight(w, t))
  <2>1. Owner(t) \in OwnerDocs
    BY TalliesAreAbout
  <2>2. CASE t \in K
    BY <1>3, <2>2
  <2>3. CASE Owner(t) \in G
    BY <1>2, <1>3, <2>1, <2>3 DEF IsRight, Exists
  <2>4. CASE Owner(t) \notin G /\ ~Exists(s, Owner(t))
    BY <1>2, <1>3, <2>1, <2>4 DEF IsRight, Exists
  <2>5. CASE Owner(t) \notin G /\ \A i \in Counted(s, t) : Source(t, i) \notin G \cup R
    <3>1. Counted(w, t) = Counted(s, t)
      BY <1>3, <2>5
    <3> QED BY <1>2, <1>3, <2>1, <2>5, <3>1 DEF IsRight, Exists
  <2> QED BY <2>2, <2>3, <2>4, <2>5 DEF Covers
<1> QED BY <1>1, <1>4 DEF Purges

\* Comments become tombstones, without likes.
Buried(s, w, D) ==
    /\ DOMAIN w = Docs
    /\ \A d \in Docs :
         IF d \in D
         THEN /\ s[d] \in CommentRecord /\ w[d] \in CommentRecord
              /\ w[d].post = s[d].post /\ w[d].parent = s[d].parent
              /\ w[d].replies = s[d].replies /\ w[d].likes = 0
         ELSE w[d] = s[d]

LEMMA BuriedIs ==
    ASSUME NEW s, IsDatabase(s), NEW w, NEW D \in SUBSET CommentDocs, Buried(s, w, D),
           \A c \in Comments : Comment(c) \in D => CommentLikesOf(s, c) = {}
    PROVE  /\ Purges(s, w, {}) /\ SameRoles(s, w)
           /\ \A t \in Tallies : SourceKind(t) = "commentlike" /\ Owner(t) \in D => IsRight(w, t)
<1>1. /\ \A u \in Users : User(u) \notin D /\ User(u) \in Docs
      /\ \A x \in Posts : Post(x) \notin D /\ Post(x) \in Docs
      /\ \A k \in Communities : Community(k) \notin D /\ Community(k) \in Docs
      /\ \A u \in Users, k \in Communities : Member(u, k) \notin D /\ Member(u, k) \in Docs
      /\ \A d \in Relations \cup {Guard} : d \notin D /\ d \in Docs
  BY AllNamesInDocs, CollectionsDiffer, NamesDiffer DEF Docs
<1>2. /\ \A u \in Users : w[User(u)] = s[User(u)]
      /\ \A x \in Posts : w[Post(x)] = s[Post(x)]
      /\ \A k \in Communities : w[Community(k)] = s[Community(k)]
      /\ \A u \in Users, k \in Communities : w[Member(u, k)] = s[Member(u, k)]
      /\ \A d \in Relations \cup {Guard} : w[d] = s[d]
  BY <1>1 DEF Buried
<1>3. \A c \in Comments : SameComment(s[Comment(c)], w[Comment(c)])
  BY AllNamesInDocs DEF Buried, SameComment
<1>4. \A c \in Comments : w[Comment(c)] \in CommentRecord \cup {Unborn, Gone}
  BY AllNamesInDocs, DatabaseIs DEF Buried
<1>5. IsDatabase(w)
  BY <1>2, <1>4, DatabaseIs DEF Buried
<1>6. Steady(s, w)
  BY <1>2, <1>3, <1>5, SameItself DEF Steady
<1>7. ASSUME NEW t \in Tallies PROVE Counted(w, t) = Counted(s, t)
  BY <1>6, SteadyCounted
<1>8. ASSUME NEW t \in Tallies, SourceKind(t) = "commentlike", Owner(t) \in D
      PROVE  IsRight(w, t)
  <2>1. Owner(t) \in CommentDocs /\ Owner(t) \in Docs
    BY <1>8, TalliesAreAbout
  <2>2. w[Owner(t)].likes = 0
    BY <1>8, <2>1 DEF Buried
  <2>3. PICK c \in Comments : t = <<"commentlikes", c>>
    BY <1>8, KindTallies
  <2>4. /\ Owner(t) = Comment(c) /\ Field(t) = "likes"
        /\ Counted(s, t) = CommentLikesOf(s, c)
    BY <2>3, CommentLikesTally
  <2>5. Counted(w, t) = {}
    BY <1>7, <1>8, <2>4
  <2> QED BY <2>2, <2>4, <2>5, FS_EmptySet DEF IsRight
<1>9. ASSUME NEW t \in Tallies, IsRight(s, t) PROVE IsRight(w, t)
  <2>1. CASE Owner(t) \notin D
    <3>1. w[Owner(t)] = s[Owner(t)]
      BY <2>1, TalliesAreAbout DEF Buried
    <3> QED BY <1>7, <1>9, <3>1 DEF IsRight, Exists
  <2>2. CASE Owner(t) \in D
    <3>1. Owner(t) \in CommentDocs /\ Owner(t) \in Docs
      BY <2>2, TalliesAreAbout
    <3>2. /\ s[Owner(t)] \in CommentRecord /\ w[Owner(t)].likes = 0
          /\ w[Owner(t)].replies = s[Owner(t)].replies
      BY <2>2, <3>1 DEF Buried
    <3>3. OwnerKind(t) = "comment"
      BY <3>1, KindsAre, CollectionsDiffer
    <3>4. t[1] \in {"commentlikes", "replies"}
      BY <3>3 DEF OwnerKind
    <3>5. CASE t[1] = "replies"
      <4>1. Field(t) = "replies"
        BY <3>5 DEF Field
      <4>2. Exists(s, Owner(t))
        BY <3>2, MissingAssumption DEF Exists
      <4> QED BY <1>7, <1>9, <3>2, <4>1, <4>2 DEF IsRight
    <3>6. CASE t[1] = "commentlikes"
      BY <1>8, <2>2, <3>6 DEF SourceKind
    <3> QED BY <3>4, <3>5, <3>6
  <2> QED BY <2>1, <2>2
<1> QED BY <1>6, <1>7, <1>8, <1>9, SteadyThins DEF Purges

LEMMA WithoutCommentLikesIs ==
    ASSUME NEW s, IsDatabase(s), NEW cs \in SUBSET Comments, NEW w, w = WithoutCommentLikes(s, cs)
    PROVE  Cleared(s, w, {}, {CommentLike(u, c) : u \in Users, c \in cs})
<1> DEFINE R == {CommentLike(u, c) : u \in Users, c \in cs}
           f == [d \in R |-> FALSE]
<1>1. w = Replace(s, f)
  BY DEF WithoutCommentLikes
<1>2. DOMAIN f = R /\ \A d \in R : f[d] = FALSE
  OBVIOUS
<1> HIDE DEF R, f
<1>3. DOMAIN w = Docs /\ \A d \in Docs : w[d] = IF d \in DOMAIN f THEN f[d] ELSE s[d]
  BY <1>1, ReplaceIs DEF IsDatabase
<1>4. Cleared(s, w, {}, R)
  BY <1>2, <1>3 DEF Cleared
<1> QED BY <1>4 DEF R

\* Only relations go; K has all tallies that lose something.
LEMMA RelationsCleared ==
    ASSUME NEW s, IsDatabase(s), NEW w, NEW R \in SUBSET Relations, Cleared(s, w, {}, R)
    PROVE  /\ SameRoles(s, w) /\ IsDatabase(w)
           /\ \A e \in OwnerDocs : w[e] = s[e]
<1> DEFINE G == {}
<1>1. G \in SUBSET (PostDocs \cup CommentDocs) /\ \A e : e \notin G
  OBVIOUS
<1>2. Cleared(s, w, G, R)
  OBVIOUS
<1> HIDE DEF G
<1>3. /\ SameRoles(s, w) /\ IsDatabase(w)
      /\ \A e \in OwnerDocs : w[e] = IF e \in G THEN Gone ELSE s[e]
  BY <1>1, <1>2, ClearedIs
<1> QED BY <1>1, <1>3

LEMMA RelationsPurged ==
    ASSUME NEW s, IsDatabase(s), NEW w, NEW R \in SUBSET Relations, Cleared(s, w, {}, R), NEW K,
           \A t \in Tallies : t \in K \/ \A i \in Counted(s, t) : Source(t, i) \notin R
    PROVE  Purges(s, w, K)
<1> DEFINE G == {}
<1>1. G \in SUBSET (PostDocs \cup CommentDocs) /\ \A e : e \notin G
  OBVIOUS
<1>2. Cleared(s, w, G, R)
  OBVIOUS
<1>3. Covers(s, K, G, R)
  BY DEF Covers
<1> HIDE DEF G
<1> QED BY <1>1, <1>2, <1>3, ClearedPurges

LEMMA TombstoneIs ==
    ASSUME NEW r \in CommentRecord, NEW v, v = Tombstone(r)
    PROVE  /\ v \in CommentRecord /\ v.post = r.post /\ v.parent = r.parent
           /\ v.replies = r.replies /\ v.likes = 0
           /\ v.departed = r.departed
<1> DEFINE a == [r EXCEPT !.author = None]
           b == [a EXCEPT !.isDeleted = TRUE]
<1>1. a \in CommentRecord /\ a.post = r.post /\ a.parent = r.parent
      /\ a.replies = r.replies /\ a.departed = r.departed
  BY DEF CommentRecord
<1>2. v = [b EXCEPT !.likes = 0]
  BY DEF Tombstone
<1> HIDE DEF a
<1>3. b \in CommentRecord /\ b.post = a.post /\ b.parent = a.parent
      /\ b.replies = a.replies /\ b.departed = a.departed
  BY <1>1 DEF CommentRecord
<1> HIDE DEF b
<1>4. v \in CommentRecord /\ v.post = b.post /\ v.parent = b.parent
      /\ v.replies = b.replies /\ v.departed = b.departed /\ v.likes = 0
  BY <1>2, <1>3 DEF CommentRecord
<1> QED BY <1>1, <1>3, <1>4

\* Without its likes, c is a tombstone.
LEMMA CommentBuried ==
    ASSUME NEW s, Consistent(s), NEW c \in Comments, Exists(s, Comment(c)),
           NEW bare, bare = WithoutCommentLikes(s, {c}),
           NEW w, Written(bare, w, Comment(c), Tombstone(s[Comment(c)]))
    PROVE  Fits(s, w)
<1> DEFINE R == {CommentLike(u, b) : u \in Users, b \in {c}}
           q == <<"commentlikes", c>>
           o == s[Comment(c)]
           v == Tombstone(o)
<1>0. s[Comment(c)] \in CommentRecord
  BY DatabaseIs DEF Exists, Consistent
<1>1. IsDatabase(s) /\ Comment(c) \in Docs /\ Comment(c) \in CommentDocs /\ Comment(c) \in OwnerDocs
  BY AllNamesInDocs DEF Consistent, CommentDocs
<1>2. Cleared(s, bare, {}, R)
  BY <1>1, WithoutCommentLikesIs
<1>3. R \in SUBSET Relations
  BY DEF Relations
<1>4. q \in Tallies /\ Owner(q) = Comment(c) /\ SourceKind(q) = "commentlike"
      /\ \A z : Counted(z, q) = CommentLikesOf(z, c)
  <2>1. q[1] = "commentlikes"
    OBVIOUS
  <2> QED BY <2>1, CommentLikesTally DEF SourceKind
<1>5. o \in CommentRecord
  BY <1>0
<1>6. v \in CommentRecord /\ v.post = o.post /\ v.parent = o.parent /\ v.replies = o.replies /\ v.likes = 0
  BY <1>5, TombstoneIs
<1>7. \A t \in Tallies : t # q => \A i \in Things(t) : Source(t, i) \notin R
  BY CommentLikeSources
<1>8. \A u \in Users : CommentLike(u, c) \in R /\ CommentLike(u, c) \in Docs
  BY <1>3 DEF Docs
<1>9. Written(bare, w, Comment(c), v) /\ s[Comment(c)] = o
  OBVIOUS
<1> HIDE DEF R, q, o, v
<1>10. Purges(s, bare, {q})
  <2>1. \A t \in Tallies : t \in {q} \/ \A i \in Counted(s, t) : Source(t, i) \notin R
    BY <1>7 DEF Counted
  <2> QED BY <1>1, <1>2, <1>3, <2>1, RelationsPurged
<1>11. /\ SameRoles(s, bare) /\ IsDatabase(bare)
       /\ \A e \in OwnerDocs : bare[e] = s[e]
  BY <1>1, <1>2, <1>3, RelationsCleared
<1>12. CommentLikesOf(bare, c) = {}
  <2>1. \A u \in Users : bare[CommentLike(u, c)] = FALSE
    BY <1>2, <1>8 DEF Cleared
  <2> QED BY <2>1 DEF CommentLikesOf
<1>13. Buried(bare, w, {Comment(c)})
  <2>1. bare[Comment(c)] = o
    BY <1>1, <1>9, <1>11
  <2> QED BY <1>1, <1>5, <1>6, <1>9, <2>1 DEF Buried, Written
<1>14. \A b \in Comments : Comment(b) \in {Comment(c)} => CommentLikesOf(bare, b) = {}
  <2>1. \A b \in Comments : Comment(b) = Comment(c) => b = c
    BY NamesDiffer
  <2> QED BY <1>12, <2>1
<1>15. Purges(bare, w, {}) /\ SameRoles(bare, w) /\ IsRight(w, q)
  <2>1. {Comment(c)} \in SUBSET CommentDocs
    BY <1>1
  <2>2. /\ Purges(bare, w, {}) /\ SameRoles(bare, w)
        /\ \A t \in Tallies : SourceKind(t) = "commentlike" /\ Owner(t) \in {Comment(c)} => IsRight(w, t)
    BY <1>11, <1>13, <1>14, <2>1, BuriedIs
  <2> QED BY <1>4, <2>2
<1>16. Purges(s, w, {q} \cup {})
  BY <1>10, <1>15, PurgesTwice
<1>17. Purges(s, w, {})
  BY <1>15, <1>16 DEF Purges
<1>18. AdminIsCreator(w)
  BY <1>11, <1>15, SameRolesTwice, SameRolesKeep DEF Consistent
<1> QED BY <1>17, <1>18, PurgesFits

\* No tally is about None.
LEMMA NoTallyOfNone ==
    ASSUME NEW t \in Tallies
    PROVE  t[2] # None
BY NoneAssumption DEF Tallies, PostTallies, CommentTallies, UserTallies, CommunityTallies

\* Relations go first, then one document.
LEMMA ClearedWritten ==
    ASSUME NEW s, NEW r, NEW w, NEW R, NEW d, d \notin R,
           Cleared(s, r, {}, R), Written(r, w, d, Gone)
    PROVE  Cleared(s, w, {d}, R)
BY DEF Cleared, Written

\* Without replies, c is removed; its post and the comment it answered count again.
LEMMA CommentRemoved ==
    ASSUME NEW s, Consistent(s), NEW c \in Comments, Exists(s, Comment(c)),
           NEW bare, bare = WithoutCommentLikes(s, {c}),
           NEW r, Written(bare, r, Comment(c), Gone)
    PROVE  LET K == {<<"comments", s[Comment(c)].post>>, <<"replies", s[Comment(c)].parent>>} IN
           /\ Purges(s, r, K) /\ SameRoles(s, r)
           /\ s[Comment(c)].post \in Posts
           /\ s[Comment(c)].parent \in Comments \cup {None}
<1> DEFINE R == {CommentLike(u, b) : u \in Users, b \in {c}}
           G == {Comment(c)}
           x == s[Comment(c)].post
           b == s[Comment(c)].parent
           K == {<<"comments", x>>, <<"replies", b>>}
<1>1. IsDatabase(s) /\ Comment(c) \in Docs
  BY AllNamesInDocs DEF Consistent
<1>2. s[Comment(c)] \in CommentRecord
  BY DatabaseIs DEF Exists, Consistent
<1>3. x \in Posts /\ b \in Comments \cup {None}
  BY <1>2 DEF CommentRecord
<1>4. Cleared(s, bare, {}, R)
  BY <1>1, WithoutCommentLikesIs
<1>5. R \in SUBSET Relations /\ Comment(c) \notin R
  BY NamesDiffer DEF Relations
<1>6. G \in SUBSET (PostDocs \cup CommentDocs)
  BY DEF CommentDocs
<1>7. Cleared(s, r, G, R)
  <2>1. Written(bare, r, Comment(c), Gone)
    OBVIOUS
  <2> HIDE DEF R
  <2> QED BY <1>4, <1>5, <2>1, ClearedWritten
<1>8. ASSUME NEW t \in Tallies, Owner(t) # Comment(c), t \notin K,
             NEW i \in Counted(s, t)
      PROVE  Source(t, i) \notin G \cup R
  <2>1. i \in Things(t) /\ Counts(t, s[Source(t, i)])
    BY DEF Counted
  <2>2. Source(t, i) \notin R
    <3>1. t # <<"commentlikes", c>>
      BY <1>8, CommentLikesTally
    <3>2. \A u \in Users : Source(t, i) # CommentLike(u, c)
      BY <2>1, <3>1, CommentLikeSources
    <3> QED BY <3>2
  <2>3. ASSUME Source(t, i) = Comment(c) PROVE FALSE
    <3>1. SourceKind(t) = "comment"
      BY <2>1, <2>3, KindsAre, NamesDiffer
    <3>2. CASE \E y \in Posts : t = <<"comments", y>>
      <4>1. PICK y \in Posts : t = <<"comments", y>>
        BY <3>2
      <4>2. s[Comment(c)].post = y
        BY <2>1, <2>3, <4>1, PostCommentsTally
      <4> QED BY <1>8, <4>1, <4>2
    <3>3. CASE \E y \in Comments : t = <<"replies", y>>
      <4>1. PICK y \in Comments : t = <<"replies", y>>
        BY <3>3
      <4>2. s[Comment(c)].parent = y
        BY <2>1, <2>3, <4>1, RepliesTally
      <4> QED BY <1>8, <4>1, <4>2
    <3> QED BY <3>1, <3>2, <3>3, KindTallies
  <2> QED BY <2>2, <2>3
<1> HIDE DEF R, K, x, b
<1>9. SameRoles(s, r)
  BY <1>1, <1>5, <1>6, <1>7, ClearedIs
<1>10. Purges(s, r, K)
  <2>1. Covers(s, K, G, R)
    BY <1>8 DEF Covers
  <2> HIDE DEF G
  <2> QED BY <1>1, <1>5, <1>6, <1>7, <2>1, ClearedPurges
<1> QED BY <1>3, <1>9, <1>10 DEF K, x, b

LEMMA ThreadRecounted ==
    ASSUME NEW s, Consistent(s), NEW x \in Posts, NEW b \in Comments \cup {None},
           NEW r, SameRoles(s, r), Purges(s, r, {<<"comments", x>>, <<"replies", b>>}),
           NEW m, m = recomputePostCommentCounts(r, {x}),
           NEW w, w = recomputeCommentReplyCounts(m, {b} \ {None})
    PROVE  Fits(s, w)
<1> DEFINE K == {<<"comments", x>>, <<"replies", b>>}
           L == {<<"comments", y>> : y \in {x}}
           M == {<<"replies", y>> : y \in {b} \ {None}}
<1>1. Purges(s, r, K) /\ IsDatabase(r)
  BY DEF Purges, Thins
<1>2. {x} \in SUBSET Posts /\ {b} \ {None} \in SUBSET Comments
  OBVIOUS
<1>3. (K \ L) \ M \subseteq {<<"replies", None>>}
  OBVIOUS
<1>4. \A t \in Tallies : t # <<"replies", None>>
  BY NoTallyOfNone
<1> HIDE DEF K, L, M
<1>5. Recounted(r, m, L)
  BY <1>1, <1>2, PostCommentsAreRecounted DEF L
<1>6. Purges(s, m, K \ L) /\ SameRoles(r, m)
  BY <1>1, <1>5, PurgesRecounted
<1>7. IsDatabase(m)
  BY <1>6 DEF Purges, Thins
<1>8. Recounted(m, w, M)
  BY <1>2, <1>7, RepliesAreRecounted DEF M
<1>9. Purges(s, w, (K \ L) \ M) /\ SameRoles(m, w)
  BY <1>6, <1>8, PurgesRecounted
<1>10. Purges(s, w, {})
  BY <1>3, <1>4, <1>9 DEF Purges
<1>11. AdminIsCreator(w)
  BY <1>6, <1>9, SameRolesTwice, SameRolesKeep DEF Consistent
<1> QED BY <1>10, <1>11, PurgesFits

LEMMA WithoutCommentFits ==
    ASSUME NEW s, Consistent(s), NEW c \in Comments, Exists(s, Comment(c))
    PROVE  Fits(s, WithoutComment(s, c))
<1> DEFINE bare == WithoutCommentLikes(s, {c})
           x == s[Comment(c)].post
           b == s[Comment(c)].parent
           tomb == [bare EXCEPT ![Comment(c)] = Tombstone(s[Comment(c)])]
           r == [bare EXCEPT ![Comment(c)] = Gone]
           m == recomputePostCommentCounts(r, {x})
           w == recomputeCommentReplyCounts(m, {b} \ {None})
<1>1. WithoutComment(s, c) = IF RepliesTo(s, c) # {} THEN tomb ELSE w
  BY DEF WithoutComment
<1>2. IsDatabase(bare)
  <2>1. Cleared(s, bare, {}, {CommentLike(u, e) : u \in Users, e \in {c}}) /\ IsDatabase(s)
    BY WithoutCommentLikesIs DEF Consistent
  <2>2. {CommentLike(u, e) : u \in Users, e \in {c}} \in SUBSET Relations
    BY DEF Relations
  <2> HIDE DEF bare
  <2> QED BY <2>1, <2>2, RelationsCleared
<1>3. bare = WithoutCommentLikes(s, {c})
  OBVIOUS
<1> HIDE DEF bare
<1>4. Written(bare, tomb, Comment(c), Tombstone(s[Comment(c)]))
  BY <1>2, WrittenIs
<1>5. Written(bare, r, Comment(c), Gone)
  BY <1>2, WrittenIs
<1> HIDE DEF tomb, r
<1>6. Fits(s, tomb)
  BY <1>3, <1>4, CommentBuried
<1>7. /\ Purges(s, r, {<<"comments", x>>, <<"replies", b>>}) /\ SameRoles(s, r)
      /\ x \in Posts /\ b \in Comments \cup {None}
  BY <1>3, <1>5, CommentRemoved
<1>8. m = recomputePostCommentCounts(r, {x}) /\ w = recomputeCommentReplyCounts(m, {b} \ {None})
  OBVIOUS
<1> HIDE DEF m, w, x, b
<1>9. Fits(s, w)
  BY <1>7, <1>8, ThreadRecounted
<1> QED BY <1>1, <1>6, <1>9

-----------------------------------------------------------------------------
(* Publishing keeps the counters right.                                    *)

\* Post y is made, or what waited is no longer waiting.
PostWritten(s, r, y, v) ==
    /\ Written(s, r, Post(y), v)
    /\ v \in PostRecord
    /\ v.of # None => v.status = "active"
    /\ v.community # None => WasFound(s, Community(v.community))
    /\ \/ s[Post(y)] = Unborn
       \/ s[Post(y)] \in PostRecord /\ s[Post(y)].status # "active"

\* The tallies that count y from now on.
Gains(v, t) ==
    v.status = "active" /\ (t = <<"reposts", v.of>> \/ t = <<"posts", v.community>>)

LEMMA PostIsWritten ==
    ASSUME NEW s, Consistent(s), NEW y \in Posts, NEW v, NEW r, PostWritten(s, r, y, v)
    PROVE  /\ IsDatabase(r) /\ Later(s, r)
           /\ AnswersStayInPost(r) /\ PostsAreSound(r) /\ AdminIsCreator(r)
           /\ r[Post(y)] = v /\ Exists(r, Post(y))
           /\ \A e \in OwnerDocs : e # Post(y) => r[e] = s[e]
<1>1. /\ Written(s, r, Post(y), v)
      /\ v \in PostRecord
      /\ v.of # None => v.status = "active"
      /\ v.community # None => WasFound(s, Community(v.community))
      /\ s[Post(y)] = Unborn \/ s[Post(y)] \in PostRecord
  BY DEF PostWritten
<1>2. v \notin {Unborn, Gone} /\ s[Post(y)] # Gone
  BY <1>1, MissingAssumption
<1>3. IsDatabase(s)
  BY DEF Consistent
<1>4. DOMAIN r = Docs /\ \A e \in Docs : r[e] = IF e = Post(y) THEN v ELSE s[e]
  BY <1>1 DEF Written
<1>5. Post(y) \in Docs /\ Post(y) \in PostDocs /\ Post(y) \in OwnerDocs
  BY AllNamesInDocs DEF PostDocs
<1>6. /\ \A e \in OwnerDocs : e # Post(y) => r[e] = s[e]
      /\ r[Post(y)] = v
      /\ \A e \in Docs : e # Post(y) => r[e] = s[e]
  BY <1>4, <1>5, AllNamesInDocs
<1>7. /\ \A e \in Comments : Comment(e) # Post(y)
      /\ \A e \in Posts : e # y => Post(e) # Post(y)
      /\ \A k \in Communities : Community(k) # Post(y)
      /\ \A u \in Users, k \in Communities : Member(u, k) # Post(y)
  BY NamesDiffer
<1>8. IsDatabase(r)
  BY <1>1, <1>3, <1>4, <1>5, TypesAre DEF IsDatabase
<1>9. /\ \A e \in Comments : r[Comment(e)] = s[Comment(e)]
      /\ \A k \in Communities : r[Community(k)] = s[Community(k)]
      /\ \A u \in Users, k \in Communities : r[Member(u, k)] = s[Member(u, k)]
  BY <1>6, <1>7, AllNamesInDocs
<1>10. Later(s, r)
  BY <1>2, <1>6, <1>9, AllNamesInDocs DEF Later
<1>11. AnswersStayInPost(r)
  BY <1>9 DEF Consistent, AnswersStayInPost, Exists
<1>12. AdminIsCreator(r)
  BY <1>9 DEF Consistent, AdminIsCreator, Exists
<1>13. ASSUME NEW x \in Posts, Exists(r, Post(x))
       PROVE  /\ r[Post(x)].of # None => r[Post(x)].status = "active"
              /\ r[Post(x)].community # None => WasFound(r, Community(r[Post(x)].community))
  <2>1. r[Post(x)].community \in Communities \cup {None}
    BY <1>8, <1>13, DatabaseIs DEF Exists, PostRecord
  <2>2. CASE x = y
    BY <1>1, <1>6, <1>9, <2>1, <2>2 DEF WasFound
  <2>3. CASE x # y
    <3>1. r[Post(x)] = s[Post(x)] /\ Exists(s, Post(x))
      BY <1>6, <1>7, <1>13, <2>3, AllNamesInDocs DEF Exists
    <3>2. /\ s[Post(x)].of # None => s[Post(x)].status = "active"
          /\ s[Post(x)].community # None => WasFound(s, Community(s[Post(x)].community))
      BY <3>1 DEF Consistent, PostsAreSound
    <3> QED BY <1>9, <2>1, <3>1, <3>2 DEF WasFound
  <2> QED BY <2>2, <2>3
<1>14. PostsAreSound(r)
  BY <1>13 DEF PostsAreSound
<1> QED BY <1>2, <1>6, <1>8, <1>10, <1>11, <1>12, <1>14 DEF Exists

LEMMA PostIsCounted ==
    ASSUME NEW s, Consistent(s), NEW y \in Posts, NEW v, NEW r, PostWritten(s, r, y, v),
           NEW t \in Tallies
    PROVE  IF Gains(v, t)
           THEN y \notin Counted(s, t) /\ Counted(r, t) = Counted(s, t) \cup {y}
           ELSE Counted(r, t) = Counted(s, t)
<1>1. /\ v \in PostRecord
      /\ \/ s[Post(y)] = Unborn
         \/ s[Post(y)] \in PostRecord /\ s[Post(y)].status # "active"
  BY DEF PostWritten
<1>2. v \notin {Unborn, Gone} /\ r[Post(y)] = v
  BY <1>1, MissingAssumption, PostIsWritten
<1>3. ASSUME NEW x \in Posts, x # y PROVE r[Post(x)] = s[Post(x)]
  <2>1. Post(x) # Post(y) /\ Post(x) \in OwnerDocs
    BY <1>3, NamesDiffer, AllNamesInDocs
  <2> QED BY <2>1, PostIsWritten
<1>4. CASE SourceKind(t) # "post"
  <2>1. \A d \in Docs : d[1] # "post" => r[d] = s[d]
    <3>1. \A e \in Docs : e # Post(y) => r[e] = s[e]
      BY DEF PostWritten, Written
    <3> QED BY <3>1, NamesDiffer
  <2>2. Counted(r, t) = Counted(s, t)
    BY <1>4, <2>1, OtherKind
  <2>3. ~Gains(v, t)
    BY <1>4 DEF SourceKind, Gains
  <2> QED BY <2>2, <2>3
<1>5. ASSUME NEW x \in Posts, t = <<"reposts", x>>
      PROVE  IF v.status = "active" /\ v.of = x
             THEN y \notin Counted(s, t) /\ Counted(r, t) = Counted(s, t) \cup {y}
             ELSE Counted(r, t) = Counted(s, t)
  <2>1. \A z : Counted(z, t) = {e \in Posts : /\ Exists(z, Post(e)) /\ z[Post(e)].of = x
                                              /\ z[Post(e)].status = "active"}
    BY <1>5, RepostsTally DEF RepostsOf, PostsThat
  <2>2. y \notin Counted(s, t)
    BY <1>1, <2>1 DEF Exists
  <2>3. y \in Counted(r, t) <=> v.status = "active" /\ v.of = x
    BY <1>2, <2>1 DEF Exists
  <2>4. \A e \in Posts : e # y => (e \in Counted(r, t) <=> e \in Counted(s, t))
    BY <1>3, <2>1 DEF Exists
  <2>5. Counted(s, t) \subseteq Posts /\ Counted(r, t) \subseteq Posts
    BY <2>1
  <2> QED BY <2>2, <2>3, <2>4, <2>5
<1>6. ASSUME NEW k \in Communities, t = <<"posts", k>>
      PROVE  IF v.status = "active" /\ v.community = k
             THEN y \notin Counted(s, t) /\ Counted(r, t) = Counted(s, t) \cup {y}
             ELSE Counted(r, t) = Counted(s, t)
  <2>1. \A z : Counted(z, t) = {e \in Posts : /\ Exists(z, Post(e)) /\ z[Post(e)].community = k
                                              /\ z[Post(e)].status = "active"}
    BY <1>6, CommunityPostsTally DEF PostsIn, PostsThat
  <2>2. y \notin Counted(s, t)
    BY <1>1, <2>1 DEF Exists
  <2>3. y \in Counted(r, t) <=> v.status = "active" /\ v.community = k
    BY <1>2, <2>1 DEF Exists
  <2>4. \A e \in Posts : e # y => (e \in Counted(r, t) <=> e \in Counted(s, t))
    BY <1>3, <2>1 DEF Exists
  <2>5. Counted(s, t) \subseteq Posts /\ Counted(r, t) \subseteq Posts
    BY <2>1
  <2> QED BY <2>2, <2>3, <2>4, <2>5
<1>7. CASE \E x \in Posts : t = <<"reposts", x>>
  <2>1. PICK x \in Posts : t = <<"reposts", x>>
    BY <1>7
  <2>2. Gains(v, t) <=> v.status = "active" /\ v.of = x
    BY <2>1 DEF Gains
  <2> QED BY <1>5, <2>1, <2>2
<1>8. CASE \E k \in Communities : t = <<"posts", k>>
  <2>1. PICK k \in Communities : t = <<"posts", k>>
    BY <1>8
  <2>2. Gains(v, t) <=> v.status = "active" /\ v.community = k
    BY <2>1 DEF Gains
  <2> QED BY <1>6, <2>1, <2>2
<1> QED BY <1>4, <1>7, <1>8, KindTallies

\* The counters of y and of what counts y follow.
Follows(s, r, w, y, v) ==
    /\ Steady(r, w)
    /\ s[Post(y)] = Unborn => v.likes = 0 /\ v.comments = 0 /\ v.reposts = 0
    /\ s[Post(y)] # Unborn => /\ v.likes = s[Post(y)].likes
                              /\ v.comments = s[Post(y)].comments
                              /\ v.reposts = s[Post(y)].reposts
    /\ \A t \in Tallies :
         IF Gains(v, t)
         THEN /\ s[Owner(t)] # Unborn /\ Owner(t) # Post(y)
              /\ Exists(r, Owner(t)) => w[Owner(t)][Field(t)] = r[Owner(t)][Field(t)] + 1
         ELSE SameField(r, w, t)

LEMMA PostFits ==
    ASSUME NEW s, Consistent(s), NEW y \in Posts, NEW v, NEW r, PostWritten(s, r, y, v),
           NEW w, Follows(s, r, w, y, v)
    PROVE  Fits(s, w)
<1>1. /\ IsDatabase(r) /\ Later(s, r)
      /\ AnswersStayInPost(r) /\ PostsAreSound(r) /\ AdminIsCreator(r)
      /\ r[Post(y)] = v /\ Exists(r, Post(y))
      /\ \A e \in OwnerDocs : e # Post(y) => r[e] = s[e]
  BY PostIsWritten
<1>2. Steady(r, w)
  BY DEF Follows
<1>3. /\ IsDatabase(w) /\ Later(s, w)
      /\ AnswersStayInPost(w) /\ PostsAreSound(w) /\ AdminIsCreator(w)
  BY <1>1, <1>2, AfterSteady
<1>4. ASSUME NEW t \in Tallies
      PROVE  /\ Counted(w, t) = Counted(r, t)
             /\ w[Owner(t)] = Unborn <=> r[Owner(t)] = Unborn
             /\ Exists(w, Owner(t)) <=> Exists(r, Owner(t))
  BY <1>2, SteadyCounted, SteadyOwners, TalliesAreAbout
<1>5. ASSUME NEW t \in Tallies, Gains(v, t) PROVE Grows(s, w, t)
  <2>1. /\ s[Owner(t)] # Unborn /\ Owner(t) # Post(y)
        /\ Exists(r, Owner(t)) => w[Owner(t)][Field(t)] = r[Owner(t)][Field(t)] + 1
    BY <1>5 DEF Follows
  <2>2. r[Owner(t)] = s[Owner(t)]
    BY <1>1, <2>1, TalliesAreAbout
  <2>3. y \notin Counted(s, t) /\ Counted(w, t) = Counted(s, t) \cup {y}
    BY <1>4, <1>5, PostIsCounted
  <2> QED BY <1>4, <2>1, <2>2, <2>3, OneMore DEF Exists
<1>6. ASSUME NEW t \in Tallies, ~Gains(v, t), Owner(t) # Post(y) PROVE Shrinks(s, w, t)
  <2>1. SameField(r, w, t) /\ r[Owner(t)] = s[Owner(t)]
    BY <1>1, <1>6, TalliesAreAbout DEF Follows
  <2>2. Counted(w, t) = Counted(s, t)
    BY <1>4, <1>6, PostIsCounted
  <2> QED BY <1>4, <2>1, <2>2, NoneMore DEF SameField, Exists
<1>7. ASSUME NEW t \in Tallies, ~Gains(v, t), Owner(t) = Post(y)
      PROVE  Shrinks(s, w, t) \/ Grows(s, w, t)
  <2>1. SameField(r, w, t)
    BY <1>7 DEF Follows
  <2>2. Counted(w, t) = Counted(s, t)
    BY <1>4, <1>7, PostIsCounted
  <2>3. OwnerKind(t) = "post"
    BY <1>7, KindsAre, NamesDiffer
  <2>4. t[1] \in {"likes", "comments", "reposts"}
    BY <2>3 DEF OwnerKind
  <2>5. Field(t) \in {"likes", "comments", "reposts"}
    BY <2>4 DEF Field
  <2>6. w[Owner(t)][Field(t)] = v[Field(t)]
    BY <1>1, <1>7, <2>1 DEF SameField
  <2>7. CASE s[Post(y)] = Unborn
    <3>1. w[Owner(t)][Field(t)] = 0
      BY <2>5, <2>6, <2>7 DEF Follows
    <3>2. IsUnused(s, t)
      BY DEF Consistent
    <3>3. Counted(w, t) = {}
      BY <1>7, <2>2, <2>7, <3>2 DEF IsUnused
    <3>4. w[Owner(t)] # Unborn
      BY <1>1, <1>4, <1>7 DEF Exists
    <3>5. Grows(s, w, t)
      BY <1>7, <2>7, <3>1, <3>2, <3>3, <3>4, FirstOwner, FS_EmptySet
    <3> QED BY <3>5
  <2>8. CASE s[Post(y)] # Unborn
    <3>1. w[Owner(t)][Field(t)] = s[Owner(t)][Field(t)]
      BY <1>7, <2>5, <2>6, <2>8 DEF Follows
    <3>2. Exists(s, Owner(t))
      BY <1>7, <2>8, MissingAssumption DEF PostWritten, Exists
    <3> QED BY <2>2, <3>1, <3>2, NoneMore
  <2> QED BY <2>7, <2>8
<1>8. \A t \in Tallies : Shrinks(s, w, t) \/ Grows(s, w, t)
  BY <1>5, <1>6, <1>7
<1> QED BY <1>3, <1>8, FitsIs

LEMMA NewPostIs ==
    ASSUME NEW u \in Users, NEW x \in Posts \cup {None}, NEW k \in Communities \cup {None},
           NEW status \in {"pending", "active"}, NEW v, v = NewPost(u, x, k, status)
    PROVE  /\ v \in PostRecord
           /\ v.of = x /\ v.community = k /\ v.status = status
           /\ v.likes = 0 /\ v.comments = 0 /\ v.reposts = 0
BY DEF NewPost, PostRecord

LEMMA StatusIs ==
    ASSUME NEW r \in PostRecord, NEW status \in {"active", "failed"},
           NEW v, v = [r EXCEPT !.status = status]
    PROVE  /\ v \in PostRecord
           /\ v.of = r.of /\ v.community = r.community /\ v.status = status
           /\ v.likes = r.likes /\ v.comments = r.comments /\ v.reposts = r.reposts
BY DEF PostRecord

\* A post that waits counts nowhere, one that failed neither.
LEMMA QuietPostFits ==
    ASSUME NEW s, Consistent(s), NEW y \in Posts, NEW v, NEW r, PostWritten(s, r, y, v),
           v.status # "active",
           s[Post(y)] = Unborn => v.likes = 0 /\ v.comments = 0 /\ v.reposts = 0,
           s[Post(y)] # Unborn => /\ v.likes = s[Post(y)].likes
                                  /\ v.comments = s[Post(y)].comments
                                  /\ v.reposts = s[Post(y)].reposts
    PROVE  Fits(s, r)
<1>1. Steady(r, r)
  BY PostIsWritten, SteadyNothing
<1>2. \A t \in Tallies : ~Gains(v, t) /\ SameField(r, r, t)
  BY DEF Gains, SameField
<1>3. Follows(s, r, r, y, v)
  BY <1>1, <1>2 DEF Follows
<1> QED BY <1>3, PostFits

LEMMA CreatedFits ==
    ASSUME NEW s, Consistent(s), NEW u \in Users, NEW y \in Posts,
           NEW k \in Communities \cup {None}, k # None => WasFound(s, Community(k)),
           s[Post(y)] = Unborn
    PROVE  Fits(s, [s EXCEPT ![Post(y)] = NewPost(u, None, k, "pending")])
<1> DEFINE v == NewPost(u, None, k, "pending")
           r == [s EXCEPT ![Post(y)] = v]
<1>1. Written(s, r, Post(y), v)
  BY WrittenIs DEF Consistent
<1>2. /\ v \in PostRecord
      /\ v.of = None /\ v.community = k /\ v.status = "pending"
      /\ v.likes = 0 /\ v.comments = 0 /\ v.reposts = 0
  BY NewPostIs
<1> HIDE DEF r, v
<1>3. PostWritten(s, r, y, v)
  BY <1>1, <1>2 DEF PostWritten
<1>4. Fits(s, r)
  BY <1>2, <1>3, QuietPostFits
<1> QED BY <1>4 DEF r, v

\* What is known of a post that waits.
LEMMA Waiting ==
    ASSUME NEW s, Consistent(s), NEW y \in Posts, IsPending(s, y)
    PROVE  /\ s[Post(y)] \in PostRecord /\ s[Post(y)].status = "pending"
           /\ s[Post(y)] # Unborn
           /\ s[Post(y)].of = None
           /\ s[Post(y)].community # None => WasFound(s, Community(s[Post(y)].community))
<1>1. s[Post(y)] \in PostRecord /\ s[Post(y)].status = "pending" /\ Exists(s, Post(y))
  BY DatabaseIs DEF Consistent, IsPending, Exists
<1> QED BY <1>1 DEF Consistent, PostsAreSound, Exists

LEMMA FailedFits ==
    ASSUME NEW s, Consistent(s), NEW y \in Posts, IsPending(s, y)
    PROVE  Fits(s, [s EXCEPT ![Post(y)].status = "failed"])
<1> DEFINE o == s[Post(y)]
           v == [o EXCEPT !.status = "failed"]
           r == [s EXCEPT ![Post(y)] = v]
<1>1. Written(s, r, Post(y), v)
  BY WrittenIs DEF Consistent
<1>2. /\ o \in PostRecord /\ o.status = "pending" /\ o # Unborn
      /\ o.of = None
      /\ o.community # None => WasFound(s, Community(o.community))
  BY Waiting
<1>3. o = s[Post(y)] /\ v = [o EXCEPT !.status = "failed"]
  OBVIOUS
<1>4. [s EXCEPT ![Post(y)].status = "failed"] = r
  OBVIOUS
<1> HIDE DEF r, v, o
<1>5. /\ v \in PostRecord
      /\ v.of = o.of /\ v.community = o.community /\ v.status = "failed"
      /\ v.likes = o.likes /\ v.comments = o.comments /\ v.reposts = o.reposts
  BY <1>2, <1>3, StatusIs
<1>6. PostWritten(s, r, y, v)
  BY <1>1, <1>2, <1>3, <1>5 DEF PostWritten
<1>7. Fits(s, r)
  BY <1>2, <1>3, <1>5, <1>6, QuietPostFits
<1> QED BY <1>4, <1>7

\* Nobody counts the posts of an account.
LEMMA UserIncremented ==
    ASSUME NEW r, IsDatabase(r), NEW u \in Users, NEW w, w = Increment(r, User(u), "posts", 1)
    PROVE  Steady(r, w) /\ \A t \in Tallies : SameField(r, w, t)
<1>1. User(u) \in Docs /\ User(u) \in UserDocs
  BY AllNamesInDocs DEF UserDocs
<1>2. Countable(User(u), "posts")
  BY <1>1 DEF Countable
<1>3. /\ Steady(r, w)
      /\ \A t \in Tallies : ~(Owner(t) = User(u) /\ Field(t) = "posts") => SameField(r, w, t)
  BY <1>1, <1>2, IncrementIs
<1>4. ASSUME NEW t \in Tallies, Owner(t) = User(u) PROVE Field(t) # "posts"
  <2>1. OwnerKind(t) = "user"
    BY <1>4, KindsAre, NamesDiffer
  <2>2. t[1] \in {"followers", "following"}
    BY <2>1 DEF OwnerKind
  <2> QED BY <2>2 DEF Field
<1> QED BY <1>3, <1>4

\* The counter of the community, or the one of the author, that nobody counts.
LEMMA ActivatedCounts ==
    ASSUME NEW s, Consistent(s), NEW y \in Posts, NEW v, NEW r, PostWritten(s, r, y, v),
           v.of = None, v.status = "active", v.author \in Users, NEW w,
           w = IF v.community = None THEN Increment(r, User(v.author), "posts", 1)
               ELSE Increment(r, Community(v.community), "posts", 1)
    PROVE  /\ Steady(r, w)
           /\ \A t \in Tallies :
                IF Gains(v, t)
                THEN /\ s[Owner(t)] # Unborn /\ Owner(t) # Post(y)
                     /\ Exists(r, Owner(t)) => w[Owner(t)][Field(t)] = r[Owner(t)][Field(t)] + 1
                ELSE SameField(r, w, t)
<1>1. IsDatabase(r)
  BY PostIsWritten
<1>2. /\ v.community \in Communities \cup {None}
      /\ v.community # None => s[Community(v.community)] # Unborn
  BY DEF PostWritten, PostRecord, WasFound
<1>3. \A t \in Tallies : Gains(v, t) <=> t = <<"posts", v.community>>
  <2>1. \A t \in Tallies : t # <<"reposts", None>>
    BY NoTallyOfNone
  <2> QED BY <2>1 DEF Gains
<1>4. CASE v.community = None
  <2>1. \A t \in Tallies : ~Gains(v, t)
    BY <1>3, <1>4, NoTallyOfNone
  <2>2. Steady(r, w) /\ \A t \in Tallies : SameField(r, w, t)
    BY <1>1, <1>4, UserIncremented
  <2> QED BY <2>1, <2>2
<1>5. CASE v.community # None
  <2> DEFINE k == v.community
             q == <<"posts", k>>
  <2>1. k \in Communities /\ q = <<"posts", k>>
    BY <1>2, <1>5
  <2>2. w = Increment(r, Community(k), "posts", 1) /\ s[Community(k)] # Unborn
    BY <1>2, <1>5
  <2>3. \A t \in Tallies : Gains(v, t) <=> t = q
    BY <1>3
  <2> HIDE DEF k, q
  <2>4. q \in Tallies /\ Owner(q) = Community(k) /\ Field(q) = "posts"
    BY <2>1, CommunityPostsTally
  <2>5. /\ Steady(r, w)
        /\ Exists(r, Owner(q)) => w[Owner(q)][Field(q)] = r[Owner(q)][Field(q)] + 1
        /\ \A t \in Tallies \ {q} : SameField(r, w, t)
    BY <1>1, <2>2, <2>4, IncrementOne
  <2>6. Community(k) # Post(y)
    BY NamesDiffer
  <2> QED BY <2>2, <2>3, <2>4, <2>5, <2>6
<1> QED BY <1>4, <1>5

LEMMA ActivatedFits ==
    ASSUME NEW s, Consistent(s), NEW y \in Posts, IsPending(s, y)
    PROVE  Fits(s, Activated(s, y))
<1> DEFINE o == s[Post(y)]
           v == [o EXCEPT !.status = "active"]
           r == [s EXCEPT ![Post(y)] = v]
           w == IF v.community = None THEN Increment(r, User(v.author), "posts", 1)
                ELSE Increment(r, Community(v.community), "posts", 1)
<1>1. Written(s, r, Post(y), v)
  BY WrittenIs DEF Consistent
<1>2. /\ o \in PostRecord /\ o.status = "pending" /\ o # Unborn
      /\ o.of = None
      /\ o.community # None => WasFound(s, Community(o.community))
  BY Waiting
<1>3. o = s[Post(y)] /\ v = [o EXCEPT !.status = "active"]
  OBVIOUS
<1>4. v.community = o.community /\ v.author = o.author /\ o.author \in Users
  BY <1>2 DEF PostRecord
<1>5. [s EXCEPT ![Post(y)].status = "active"] = r
  OBVIOUS
<1> HIDE DEF r, v, o
<1>6. Activated(s, y) = w
  BY <1>3, <1>4, <1>5 DEF Activated
<1>7. w = IF v.community = None THEN Increment(r, User(v.author), "posts", 1)
          ELSE Increment(r, Community(v.community), "posts", 1)
  OBVIOUS
<1> HIDE DEF w
<1>8. /\ v \in PostRecord
      /\ v.of = o.of /\ v.community = o.community /\ v.status = "active"
      /\ v.likes = o.likes /\ v.comments = o.comments /\ v.reposts = o.reposts
  BY <1>2, <1>3, StatusIs
<1>9. PostWritten(s, r, y, v)
  BY <1>1, <1>2, <1>3, <1>8 DEF PostWritten
<1>10. /\ Steady(r, w)
       /\ \A t \in Tallies :
            IF Gains(v, t)
            THEN /\ s[Owner(t)] # Unborn /\ Owner(t) # Post(y)
                 /\ Exists(r, Owner(t)) => w[Owner(t)][Field(t)] = r[Owner(t)][Field(t)] + 1
            ELSE SameField(r, w, t)
  BY <1>2, <1>4, <1>7, <1>8, <1>9, ActivatedCounts
<1>11. Follows(s, r, w, y, v)
  BY <1>2, <1>3, <1>8, <1>10 DEF Follows
<1>12. Fits(s, w)
  BY <1>9, <1>11, PostFits
<1> QED BY <1>6, <1>12

LEMMA RepostCounts ==
    ASSUME NEW s, NEW x \in Posts, NEW y \in Posts, x # y, s[Post(x)] # Unborn,
           NEW u \in Users, NEW v, v.of = x, v.community = None, v.status = "active",
           NEW r, IsDatabase(r), NEW a, a = Increment(r, Post(x), "reposts", 1),
           NEW w, w = Increment(a, User(u), "posts", 1)
    PROVE  /\ Steady(r, w)
           /\ \A t \in Tallies :
                IF Gains(v, t)
                THEN /\ s[Owner(t)] # Unborn /\ Owner(t) # Post(y)
                     /\ Exists(r, Owner(t)) => w[Owner(t)][Field(t)] = r[Owner(t)][Field(t)] + 1
                ELSE SameField(r, w, t)
<1> DEFINE q == <<"reposts", x>>
<1>1. q \in Tallies /\ Owner(q) = Post(x) /\ Field(q) = "reposts"
  BY RepostsTally
<1>2. \A t \in Tallies : Gains(v, t) <=> t = q
  <2>1. \A t \in Tallies : t # <<"posts", None>>
    BY NoTallyOfNone
  <2> QED BY <2>1 DEF Gains
<1> HIDE DEF q
<1>3. /\ Steady(r, a)
      /\ Exists(r, Owner(q)) => a[Owner(q)][Field(q)] = r[Owner(q)][Field(q)] + 1
      /\ \A t \in Tallies \ {q} : SameField(r, a, t)
  BY <1>1, IncrementOne
<1>4. Steady(a, w) /\ \A t \in Tallies : SameField(a, w, t)
  BY <1>3, UserIncremented DEF Steady
<1>5. Steady(r, w)
  BY <1>3, <1>4, SteadyTwice
<1>6. \A t \in Tallies : Exists(a, Owner(t)) <=> Exists(r, Owner(t))
  BY <1>3, SteadyOwners, TalliesAreAbout
<1>7. Post(x) # Post(y)
  BY NamesDiffer
<1> QED BY <1>1, <1>2, <1>3, <1>4, <1>5, <1>6, <1>7 DEF SameField

LEMMA RepostedFits ==
    ASSUME NEW s, Consistent(s), NEW u \in Users, NEW y \in Posts, NEW x \in Posts, x # y,
           WasFound(s, Post(x)), s[Post(y)] = Unborn
    PROVE  LET created == [s EXCEPT ![Post(y)] = NewPost(u, x, None, "active")] IN
           Fits(s, Increment(Increment(created, Post(x), "reposts", 1), User(u), "posts", 1))
<1> DEFINE v == NewPost(u, x, None, "active")
           r == [s EXCEPT ![Post(y)] = v]
           a == Increment(r, Post(x), "reposts", 1)
           w == Increment(a, User(u), "posts", 1)
<1>1. Written(s, r, Post(y), v)
  BY WrittenIs DEF Consistent
<1>2. /\ v \in PostRecord
      /\ v.of = x /\ v.community = None /\ v.status = "active"
      /\ v.likes = 0 /\ v.comments = 0 /\ v.reposts = 0
  BY NewPostIs
<1>3. a = Increment(r, Post(x), "reposts", 1) /\ w = Increment(a, User(u), "posts", 1)
  OBVIOUS
<1> HIDE DEF r, v, a, w
<1>4. PostWritten(s, r, y, v)
  BY <1>1, <1>2 DEF PostWritten
<1>5. IsDatabase(r)
  BY <1>4, PostIsWritten
<1>6. /\ Steady(r, w)
      /\ \A t \in Tallies :
           IF Gains(v, t)
           THEN /\ s[Owner(t)] # Unborn /\ Owner(t) # Post(y)
                /\ Exists(r, Owner(t)) => w[Owner(t)][Field(t)] = r[Owner(t)][Field(t)] + 1
           ELSE SameField(r, w, t)
  BY <1>2, <1>3, <1>5, RepostCounts DEF WasFound
<1>7. Follows(s, r, w, y, v)
  BY <1>2, <1>6 DEF Follows
<1>8. Fits(s, w)
  BY <1>4, <1>7, PostFits
<1> QED BY <1>8 DEF r, v, a, w

-----------------------------------------------------------------------------
(* Posts go with their graph, and what counted them counts again.          *)

RemovedComments(s, xs) == CommentsThat(s, LAMBDA c : c.post \in xs)
RemovedDocs(s, xs) ==
    {Post(x) : x \in xs} \cup {Comment(c) : c \in RemovedComments(s, xs)}
RemovedRelations(s, xs) ==
    {Like(u, x) : u \in Users, x \in xs}
        \cup {View(u, x) : u \in Users, x \in xs}
        \cup {CommentLike(u, c) : u \in Users, c \in RemovedComments(s, xs)}

LEMMA RemovedIs ==
    ASSUME NEW s, IsDatabase(s), NEW xs \in SUBSET Posts, NEW w, w = Removed(s, xs)
    PROVE  /\ Cleared(s, w, RemovedDocs(s, xs), RemovedRelations(s, xs))
           /\ RemovedDocs(s, xs) \in SUBSET (PostDocs \cup CommentDocs)
           /\ RemovedRelations(s, xs) \in SUBSET Relations
<1> DEFINE cs == RemovedComments(s, xs)
           G == RemovedDocs(s, xs)
           R == RemovedRelations(s, xs)
           f == [d \in G \cup R |-> IF d \in G THEN Gone ELSE FALSE]
<1>1. w = Replace(s, f)
  BY DEF Removed, RemovedDocs, RemovedRelations, RemovedComments
<1>2. DOMAIN f = G \cup R /\ \A d \in G \cup R : f[d] = IF d \in G THEN Gone ELSE FALSE
  OBVIOUS
<1>3. cs \in SUBSET Comments
  BY DEF RemovedComments, CommentsThat
<1>4. G \in SUBSET (PostDocs \cup CommentDocs)
  BY <1>3 DEF RemovedDocs, PostDocs, CommentDocs
<1>5. R \in SUBSET Relations
  BY <1>3 DEF RemovedRelations, Relations
<1> HIDE DEF G, R, f, cs
<1>6. DOMAIN w = Docs /\ \A d \in Docs : w[d] = IF d \in DOMAIN f THEN f[d] ELSE s[d]
  BY <1>1, ReplaceIs DEF IsDatabase
<1>7. Cleared(s, w, G, R)
  BY <1>2, <1>6 DEF Cleared
<1> QED BY <1>4, <1>5, <1>7 DEF G, R

\* What counted a document that is removed goes too, or is not there, or is a
\* surviving post or community.
LEMMA RemovedSources ==
    ASSUME NEW s, AnswersStayInPost(s), NEW xs \in SUBSET Posts,
           NEW t \in Tallies, NEW i \in Counted(s, t), Exists(s, Owner(t)),
           Source(t, i) \in RemovedDocs(s, xs) \cup RemovedRelations(s, xs)
    PROVE  \/ Owner(t) \in RemovedDocs(s, xs)
           \/ i \in xs /\ t = <<"reposts", s[Post(i)].of>> /\ s[Post(i)].of \in Posts
           \/ i \in xs /\ t = <<"posts", s[Post(i)].community>> /\ s[Post(i)].community \in Communities
<1> DEFINE cs == RemovedComments(s, xs)
<1>1. i \in Things(t) /\ Counts(t, s[Source(t, i)]) /\ Source(t, i)[1] = SourceKind(t)
  BY KindsAre DEF Counted
<1>2. \A c \in cs : c \in Comments /\ Exists(s, Comment(c)) /\ s[Comment(c)].post \in xs
  BY DEF RemovedComments, CommentsThat
<1>3. \A c \in Comments : Exists(s, Comment(c)) /\ s[Comment(c)].post \in xs => c \in cs
  BY DEF RemovedComments, CommentsThat
<1>4. \/ \E x \in xs : Source(t, i) = Post(x)
      \/ \E c \in cs : Source(t, i) = Comment(c)
      \/ \E u \in Users, x \in xs : Source(t, i) = Like(u, x)
      \/ \E u \in Users, x \in xs : Source(t, i) = View(u, x)
      \/ \E u \in Users, c \in cs : Source(t, i) = CommentLike(u, c)
  BY DEF RemovedDocs, RemovedRelations
<1>5. /\ \A x \in xs : Post(x) \in RemovedDocs(s, xs)
      /\ \A c \in cs : Comment(c) \in RemovedDocs(s, xs)
  BY DEF RemovedDocs
<1> HIDE DEF cs
<1>6. SourceKind(t) \in {"like", "commentlike", "follow", "member", "comment", "post"}
  BY DEF SourceKind
<1>7. ASSUME NEW x \in xs, Source(t, i) = Post(x)
      PROVE  \/ i \in xs /\ t = <<"reposts", s[Post(i)].of>> /\ s[Post(i)].of \in Posts
             \/ i \in xs /\ t = <<"posts", s[Post(i)].community>>
                /\ s[Post(i)].community \in Communities
  <2>1. SourceKind(t) = "post"
    BY <1>1, <1>7, NamesDiffer
  <2>2. CASE \E y \in Posts : t = <<"reposts", y>>
    <3>1. PICK y \in Posts : t = <<"reposts", y>>
      BY <2>2
    <3>2. Source(t, i) = Post(i) /\ s[Post(i)].of = y
      BY <1>1, <3>1, RepostsTally
    <3>3. i = x
      <4>1. Post(i) = Post(x)
        BY <1>7, <3>2
      <4>2. Post(i)[2] = i /\ Post(x)[2] = x
        BY NamesDiffer
      <4> QED BY <4>1, <4>2
    <3> QED BY <3>1, <3>2, <3>3
  <2>3. CASE \E k \in Communities : t = <<"posts", k>>
    <3>1. PICK k \in Communities : t = <<"posts", k>>
      BY <2>3
    <3>2. Source(t, i) = Post(i) /\ s[Post(i)].community = k
      BY <1>1, <3>1, CommunityPostsTally
    <3>3. i = x
      <4>1. Post(i) = Post(x)
        BY <1>7, <3>2
      <4>2. Post(i)[2] = i /\ Post(x)[2] = x
        BY NamesDiffer
      <4> QED BY <4>1, <4>2
    <3> QED BY <3>1, <3>2, <3>3
  <2> QED BY <2>1, <2>2, <2>3, KindTallies
<1>8. ASSUME NEW c \in cs, Source(t, i) = Comment(c) PROVE Owner(t) \in RemovedDocs(s, xs)
  <2>1. SourceKind(t) = "comment"
    BY <1>1, <1>8, NamesDiffer
  <2>2. CASE \E y \in Posts : t = <<"comments", y>>
    <3>1. PICK y \in Posts : t = <<"comments", y>>
      BY <2>2
    <3>2. Owner(t) = Post(y) /\ s[Comment(c)].post = y
      BY <1>1, <1>8, <3>1, PostCommentsTally
    <3> QED BY <1>2, <1>5, <3>2
  <2>3. CASE \E b \in Comments : t = <<"replies", b>>
    <3>1. PICK b \in Comments : t = <<"replies", b>>
      BY <2>3
    <3>2. Owner(t) = Comment(b) /\ s[Comment(c)].parent = b
      BY <1>1, <1>8, <3>1, RepliesTally
    <3>3. s[Comment(b)].post = s[Comment(c)].post /\ Exists(s, Comment(b))
      BY <1>2, <3>2 DEF AnswersStayInPost
    <3>4. b \in cs
      BY <1>2, <1>3, <3>3
    <3> QED BY <1>5, <3>2, <3>4
  <2> QED BY <2>1, <2>2, <2>3, KindTallies
<1>9. ASSUME NEW u \in Users, NEW x \in xs, Source(t, i) = Like(u, x)
      PROVE  Owner(t) \in RemovedDocs(s, xs)
  <2>1. t = <<"likes", x>>
    BY <1>1, <1>9, LikeSources
  <2>2. Owner(t) = Post(x)
    BY <2>1, PostLikesTally
  <2> QED BY <1>5, <2>2
<1>10. ASSUME NEW u \in Users, NEW x \in xs, Source(t, i) = View(u, x) PROVE FALSE
  BY <1>1, <1>6, <1>10, NamesDiffer
<1>11. ASSUME NEW u \in Users, NEW c \in cs, Source(t, i) = CommentLike(u, c)
       PROVE  Owner(t) \in RemovedDocs(s, xs)
  <2>1. t = <<"commentlikes", c>>
    BY <1>1, <1>2, <1>11, CommentLikeSources
  <2>2. Owner(t) = Comment(c)
    BY <1>2, <2>1, CommentLikesTally
  <2> QED BY <1>5, <2>2
<1> QED BY <1>4, <1>7, <1>8, <1>9, <1>10, <1>11

\* What is counted again after the posts xs are removed.
Reposted(s, xs) == {s[Post(x)].of : x \in xs} \ {None}
PostedTo(s, xs) == {s[Post(x)].community : x \in xs} \ {None}

LEMMA RemovedPurges ==
    ASSUME NEW s, IsDatabase(s), AnswersStayInPost(s), NEW xs \in SUBSET Posts,
           NEW w, w = Removed(s, xs)
    PROVE  /\ Purges(s, w, {<<"reposts", x>> : x \in Reposted(s, xs)}
                                \cup {<<"posts", k>> : k \in PostedTo(s, xs)})
           /\ SameRoles(s, w)
<1> DEFINE G == RemovedDocs(s, xs)
           R == RemovedRelations(s, xs)
           K == {<<"reposts", x>> : x \in Reposted(s, xs)}
                    \cup {<<"posts", k>> : k \in PostedTo(s, xs)}
<1>1. /\ Cleared(s, w, G, R)
      /\ G \in SUBSET (PostDocs \cup CommentDocs)
      /\ R \in SUBSET Relations
  BY RemovedIs
<1>2. ASSUME NEW t \in Tallies, t \notin K, Owner(t) \notin G, Exists(s, Owner(t)),
             NEW i \in Counted(s, t)
      PROVE  Source(t, i) \notin G \cup R
  <2>1. SUFFICES ASSUME Source(t, i) \in G \cup R PROVE FALSE
    OBVIOUS
  <2>2. \/ i \in xs /\ t = <<"reposts", s[Post(i)].of>> /\ s[Post(i)].of \in Posts
        \/ i \in xs /\ t = <<"posts", s[Post(i)].community>> /\ s[Post(i)].community \in Communities
    BY <1>2, <2>1, RemovedSources
  <2> QED BY <1>2, <2>2, NoneAssumption DEF Reposted, PostedTo
<1>3. Covers(s, K, G, R)
  BY <1>2 DEF Covers
<1> HIDE DEF G, R, K
<1>4. Purges(s, w, K)
  BY <1>1, <1>3, ClearedPurges
<1>5. SameRoles(s, w)
  BY <1>1, ClearedIs
<1> QED BY <1>4, <1>5 DEF K

LEMMA PostsRecounted ==
    ASSUME NEW s, NEW r, SameRoles(s, r), NEW xs \in SUBSET Posts, NEW ks \in SUBSET Communities,
           Purges(s, r, {<<"reposts", x>> : x \in xs} \cup {<<"posts", k>> : k \in ks}),
           NEW us \in SUBSET Users,
           NEW m, m = recomputeRepostCounts(r, xs),
           NEW n, n = recomputeUserPostCounts(m, us),
           NEW w, w = recomputeCommunityPostCounts(n, ks)
    PROVE  Purges(s, w, {}) /\ SameRoles(s, w)
<1> DEFINE L == {<<"reposts", x>> : x \in xs}
           M == {<<"posts", k>> : k \in ks}
<1>1. Purges(s, r, L \cup M) /\ IsDatabase(r)
  BY DEF Purges, Thins
<1> HIDE DEF L, M
<1>2. Recounted(r, m, L)
  BY <1>1, RepostsAreRecounted DEF L
<1>3. Purges(s, m, (L \cup M) \ L) /\ SameRoles(r, m)
  BY <1>1, <1>2, PurgesRecounted
<1>4. IsDatabase(m)
  BY <1>3 DEF Purges, Thins
<1>5. Recounted(m, n, {})
  BY <1>4, UserPostsAreRecounted
<1>6. Purges(s, n, ((L \cup M) \ L) \ {}) /\ SameRoles(m, n)
  BY <1>3, <1>5, PurgesRecounted
<1>7. IsDatabase(n)
  BY <1>6 DEF Purges, Thins
<1>8. Recounted(n, w, M)
  BY <1>7, CommunityPostsAreRecounted DEF M
<1>9. Purges(s, w, (((L \cup M) \ L) \ {}) \ M) /\ SameRoles(n, w)
  BY <1>6, <1>8, PurgesRecounted
<1>10. (((L \cup M) \ L) \ {}) \ M = {}
  OBVIOUS
<1> QED BY <1>3, <1>6, <1>9, <1>10, SameRolesTwice

LEMMA deletePostGraphPurges ==
    ASSUME NEW s, IsDatabase(s), AnswersStayInPost(s), NEW roots,
           NEW w, w = deletePostGraph(s, roots)
    PROVE  Purges(s, w, {}) /\ SameRoles(s, w)
<1> DEFINE xs == PostGraph(s, roots)
           r == Removed(s, xs)
           m == recomputeRepostCounts(r, Reposted(s, xs))
           us == {s[Post(x)].author : x \in xs}
           n == recomputeUserPostCounts(m, us)
<1>1. w = recomputeCommunityPostCounts(n, PostedTo(s, xs))
  BY DEF deletePostGraph, Reposted, PostedTo
<1>2. xs \in SUBSET Posts /\ \A x \in xs : Exists(s, Post(x))
  BY DEF PostGraph
<1>3. \A x \in xs : s[Post(x)] \in PostRecord
  BY <1>2, DatabaseIs DEF Exists
<1>4. us \in SUBSET Users /\ Reposted(s, xs) \in SUBSET Posts /\ PostedTo(s, xs) \in SUBSET Communities
  BY <1>3 DEF PostRecord, Reposted, PostedTo
<1>5. r = Removed(s, xs) /\ m = recomputeRepostCounts(r, Reposted(s, xs))
      /\ n = recomputeUserPostCounts(m, us)
  OBVIOUS
<1> HIDE DEF xs, r, m, us, n
<1>6. /\ Purges(s, r, {<<"reposts", x>> : x \in Reposted(s, xs)}
                          \cup {<<"posts", k>> : k \in PostedTo(s, xs)})
      /\ SameRoles(s, r)
  BY <1>2, <1>5, RemovedPurges
<1> QED BY <1>1, <1>4, <1>5, <1>6, PostsRecounted

LEMMA deletePostGraphFits ==
    ASSUME NEW s, Consistent(s), NEW roots
    PROVE  Fits(s, deletePostGraph(s, roots))
<1>1. Purges(s, deletePostGraph(s, roots), {}) /\ SameRoles(s, deletePostGraph(s, roots))
  BY deletePostGraphPurges DEF Consistent
<1> QED BY <1>1, SameRolesKeep, PurgesFits DEF Consistent

-----------------------------------------------------------------------------
(* Communities keep the counters right.                                    *)

LEMMA JoinedIs ==
    ASSUME NEW s, IsDatabase(s), NEW u \in Users, NEW k \in Communities,
           NEW w, w = Joined(s, u, k)
    PROVE  Steady(s, w) /\ \A t \in Tallies : SameField(s, w, t)
<1>1. CASE ~Exists(s, User(u))
  BY <1>1, SteadyNothing DEF Joined, SameField
<1>2. CASE Exists(s, User(u))
  <2> DEFINE v == [s[User(u)] EXCEPT !.joined = @ \cup {k}]
             n == [s EXCEPT ![User(u)] = v]
  <2>1. s[User(u)] \in Account
    BY <1>2, DatabaseIs DEF Exists
  <2>2. v \in Account /\ v.followers = s[User(u)].followers /\ v.following = s[User(u)].following
    BY <2>1 DEF Account
  <2>3. w = n
    BY <1>2 DEF Joined
  <2> HIDE DEF v
  <2>4. Written(s, n, User(u), v)
    BY WrittenIs
  <2>5. User(u) \in UserDocs
    BY DEF UserDocs
  <2> HIDE DEF n
  <2>6. \A d \in Docs : \/ n[d] = s[d]
                        \/ /\ d \in UserDocs /\ s[d] \in Account /\ n[d] \in Account
                           /\ n[d].followers = s[d].followers
                           /\ n[d].following = s[d].following
    BY <2>1, <2>2, <2>4, <2>5 DEF Written
  <2>7. DOMAIN n = Docs
    BY <2>4 DEF Written
  <2> QED BY <2>3, <2>6, <2>7, AccountsSteady
<1> QED BY <1>1, <1>2

LEMMA UnlistedIs ==
    ASSUME NEW s, IsDatabase(s), NEW us \in SUBSET Users, NEW ks,
           NEW w, w = Unlisted(s, us, ks)
    PROVE  /\ Steady(s, w) /\ \A t \in Tallies : SameField(s, w, t)
           /\ \A d \in Docs : d \notin UserDocs => w[d] = s[d]
<1> DEFINE D == {User(u) : u \in {v \in us : Exists(s, User(v))}}
           f == [d \in D |-> [s[d] EXCEPT !.joined = @ \ ks]]
<1>1. w = Replace(s, f)
  BY DEF Unlisted
<1>2. \A d \in D : d \in UserDocs /\ s[d] \in Account
  BY DatabaseIs DEF Exists, UserDocs
<1>3. DOMAIN f = D /\ \A d \in D : f[d] = [s[d] EXCEPT !.joined = @ \ ks]
  OBVIOUS
<1>4. ASSUME NEW d \in D
      PROVE  f[d] \in Account /\ f[d].followers = s[d].followers /\ f[d].following = s[d].following
  <2> DEFINE r == s[d]
             v == [r EXCEPT !.joined = @ \ ks]
  <2>1. r \in Account /\ f[d] = v
    BY <1>2, <1>3
  <2> HIDE DEF r, f, D
  <2>2. v \in Account /\ v.followers = r.followers /\ v.following = r.following
    BY <2>1 DEF Account
  <2> QED BY <2>1, <2>2 DEF r
<1> HIDE DEF f, D
<1>5. DOMAIN w = Docs /\ \A d \in Docs : w[d] = IF d \in D THEN f[d] ELSE s[d]
  BY <1>1, <1>3, ReplaceIs DEF IsDatabase
<1>6. \A d \in Docs : \/ w[d] = s[d]
                      \/ /\ d \in UserDocs /\ s[d] \in Account /\ w[d] \in Account
                         /\ w[d].followers = s[d].followers
                         /\ w[d].following = s[d].following
  BY <1>2, <1>4, <1>5
<1>7. \A d \in Docs : d \notin UserDocs => w[d] = s[d]
  BY <1>2, <1>5
<1> QED BY <1>5, <1>6, <1>7, AccountsSteady

\* A membership starts or ends.
LEMMA MemberSources ==
    ASSUME NEW u \in Users, NEW k \in Communities, NEW t \in Tallies
    PROVE  IF t = <<"members", k>>
           THEN \A j \in Things(t) : Source(t, j) = Member(u, k) <=> j = u
           ELSE \A j \in Things(t) : Source(t, j) # Member(u, k)
<1>1. \A j, h, l : Member(j, h) = Member(u, l) <=> j = u /\ h = l
  BY DEF Member
<1>2. CASE SourceKind(t) # "member"
  <2>1. t # <<"members", k>>
    BY <1>2 DEF SourceKind
  <2>2. \A j \in Things(t) : Source(t, j) # Member(u, k)
    BY <1>2, KindsAre, NamesDiffer
  <2> QED BY <2>1, <2>2
<1>3. CASE SourceKind(t) = "member"
  <2>1. PICK h \in Communities : t = <<"members", h>>
    BY <1>3, KindTallies
  <2>2. \A j : Source(t, j) = Member(j, h)
    BY <2>1, MembersTally
  <2>3. t = <<"members", k>> <=> h = k
    BY <2>1
  <2> QED BY <1>1, <2>2, <2>3
<1> QED BY <1>2, <1>3

MemberChanged(s, r, q, u, v) ==
    /\ Thins(s, r) /\ IsDatabase(r) /\ AdminIsCreator(r)
    /\ \A e \in OwnerDocs : r[e] = s[e]
    /\ \A t \in Tallies \ {q} : Counted(r, t) = Counted(s, t)
    /\ Counted(r, q) = IF v = "member" THEN Counted(s, q) \cup {u} ELSE Counted(s, q) \ {u}

LEMMA MemberWritten ==
    ASSUME NEW s, IsDatabase(s), AdminIsCreator(s), NEW u \in Users, NEW k \in Communities,
           s[Member(u, k)] # "admin", NEW v \in {"none", "member"},
           NEW r, Written(s, r, Member(u, k), v), NEW q, q = <<"members", k>>
    PROVE  MemberChanged(s, r, q, u, v)
<1> DEFINE d == Member(u, k)
<1>1. DOMAIN r = Docs /\ \A e \in Docs : r[e] = IF e = d THEN v ELSE s[e]
  BY DEF Written
<1>2. d \in Docs /\ d \in MemberDocs
  BY AllNamesInDocs DEF MemberDocs
<1>3. IsDatabase(r)
  BY <1>1, <1>2, TypesAre DEF IsDatabase, Roles
<1>4. \A e \in OwnerDocs : e # d
  BY <1>2, CollectionsDiffer DEF OwnerDocs
<1>5. \A e \in OwnerDocs : r[e] = s[e]
  BY <1>1, <1>4, AllNamesInDocs
<1>6. Thins(s, r)
  BY <1>3, <1>5, AllNamesInDocs DEF Thins, Later, Exists
<1>7. \A h \in Communities, x \in Users :
        /\ r[Community(h)] = s[Community(h)]
        /\ r[Member(x, h)] = IF Member(x, h) = d THEN v ELSE s[Member(x, h)]
  BY <1>1, <1>5, AllNamesInDocs
<1>8. AdminIsCreator(r)
  BY <1>7 DEF AdminIsCreator, Exists
<1>9. \A t \in Tallies : \A i : Source(t, i) \in Docs => r[Source(t, i)] = IF Source(t, i) = d THEN v ELSE s[Source(t, i)]
  BY <1>1
<1> HIDE DEF d
<1>10. ASSUME NEW t \in Tallies \ {q} PROVE Counted(r, t) = Counted(s, t)
  <2>1. \A i \in Things(t) : Source(t, i) # d /\ Source(t, i) \in Docs
    BY <1>10, MemberSources, TalliesAreAbout DEF d
  <2> QED BY <1>1, <2>1 DEF Counted
<1>11. \A z : Counted(z, q) = {x \in Users : z[Member(x, k)] # "none"}
  BY MembersTally DEF MembersOf
<1>12. \A x \in Users : Member(x, k) = d <=> x = u
  BY DEF Member, d
<1>13. Counted(r, q) = IF v = "member" THEN Counted(s, q) \cup {u} ELSE Counted(s, q) \ {u}
  <2>1. \A x \in Users : x # u => (x \in Counted(r, q) <=> x \in Counted(s, q))
    BY <1>7, <1>11, <1>12
  <2>2. u \in Counted(r, q) <=> v = "member"
    BY <1>7, <1>11, <1>12
  <2>3. Counted(r, q) \subseteq Users /\ Counted(s, q) \subseteq Users
    BY <1>11
  <2> QED BY <2>1, <2>2, <2>3
<1> QED BY <1>3, <1>5, <1>6, <1>8, <1>10, <1>13 DEF MemberChanged

\* The lists of accounts and then the counter of the community follow.
LEMMA MembersIncremented ==
    ASSUME NEW n, IsDatabase(n), NEW k \in Communities, NEW i \in Int,
           NEW w, w = Increment(n, Community(k), "members", i), NEW q, q = <<"members", k>>
    PROVE  /\ Steady(n, w)
           /\ Exists(n, Owner(q)) => w[Owner(q)][Field(q)] = n[Owner(q)][Field(q)] + i
           /\ \A t \in Tallies \ {q} : SameField(n, w, t)
<1>1. q \in Tallies /\ Owner(q) = Community(k) /\ Field(q) = "members"
  BY MembersTally
<1>2. Owner(q) \in Docs /\ Countable(Owner(q), Field(q))
  BY <1>1, TalliesAreAbout, TalliesAreCountable
<1>3. /\ Steady(n, w)
      /\ \A t \in Tallies :
           IF Owner(t) = Owner(q) /\ Field(t) = Field(q)
           THEN Exists(n, Owner(q)) => w[Owner(q)][Field(q)] = n[Owner(q)][Field(q)] + i
           ELSE SameField(n, w, t)
  BY <1>1, <1>2, IncrementIs
<1> QED BY <1>1, <1>3, TallyIsField

LEMMA MembershipFits ==
    ASSUME NEW s, Consistent(s), NEW u \in Users, NEW k \in Communities,
           s[Community(k)] # Unborn, NEW v, NEW r, Written(s, r, Member(u, k), v),
           NEW j, j = IF v = "member" THEN 1 ELSE -1,
           \/ s[Member(u, k)] = "none" /\ v = "member"
           \/ s[Member(u, k)] = "member" /\ v = "none",
           NEW n, Steady(r, n), \A t \in Tallies : SameField(r, n, t),
           NEW w, w = Increment(n, Community(k), "members", j)
    PROVE  Fits(s, w)
<1> DEFINE q == <<"members", k>>
<1>1. IsDatabase(s) /\ AdminIsCreator(s) /\ v \in {"none", "member"} /\ s[Member(u, k)] # "admin"
  BY DEF Consistent
<1>2. /\ q \in Tallies /\ Owner(q) = Community(k)
      /\ \A z : Counted(z, q) = {x \in Users : z[Member(x, k)] # "none"}
  BY MembersTally DEF MembersOf
<1>3. q = <<"members", k>> /\ j \in Int
  OBVIOUS
<1> HIDE DEF q
<1>4. /\ Thins(s, r) /\ AdminIsCreator(r)
      /\ \A e \in OwnerDocs : r[e] = s[e]
      /\ \A t \in Tallies \ {q} : Counted(r, t) = Counted(s, t)
      /\ Counted(r, q) = IF v = "member" THEN Counted(s, q) \cup {u} ELSE Counted(s, q) \ {u}
  <2>1. MemberChanged(s, r, q, u, v)
    BY <1>1, <1>3, MemberWritten
  <2> QED BY <2>1 DEF MemberChanged
<1>5. IsDatabase(n)
  BY DEF Steady
<1>6. /\ Steady(n, w)
      /\ Exists(n, Owner(q)) => w[Owner(q)][Field(q)] = n[Owner(q)][Field(q)] + j
      /\ \A t \in Tallies \ {q} : SameField(n, w, t)
  BY <1>3, <1>5, MembersIncremented
<1>7. Steady(r, w)
  BY <1>6, SteadyTwice
<1>8. Thins(s, w) /\ AdminIsCreator(w)
  BY <1>4, <1>7, SteadyThins, ThinsTwice, SameRolesKeep
<1>9. ASSUME NEW t \in Tallies
      PROVE  /\ Counted(w, t) = Counted(r, t)
             /\ r[Owner(t)] = s[Owner(t)]
             /\ w[Owner(t)] = Unborn <=> s[Owner(t)] = Unborn
             /\ Exists(w, Owner(t)) <=> Exists(s, Owner(t))
             /\ Exists(n, Owner(t)) <=> Exists(s, Owner(t))
             /\ SameField(r, n, t)
  <2>1. r[Owner(t)] = s[Owner(t)]
    BY <1>4, TalliesAreAbout
  <2>2. /\ w[Owner(t)] = Unborn <=> r[Owner(t)] = Unborn
        /\ Exists(w, Owner(t)) <=> Exists(r, Owner(t))
        /\ Exists(n, Owner(t)) <=> Exists(r, Owner(t))
    BY <1>7, SteadyOwners, TalliesAreAbout
  <2>3. Counted(w, t) = Counted(r, t)
    BY <1>7, SteadyCounted
  <2> QED BY <2>1, <2>2, <2>3 DEF Exists
<1>10. ASSUME NEW t \in Tallies, t # q PROVE Shrinks(s, w, t)
  <2>1. Counted(w, t) = Counted(s, t)
    BY <1>4, <1>9, <1>10
  <2>2. SameField(r, n, t) /\ SameField(n, w, t)
    BY <1>6, <1>9, <1>10
  <2>3. Exists(s, Owner(t)) => w[Owner(t)][Field(t)] = s[Owner(t)][Field(t)]
    BY <1>9, <2>2 DEF SameField, Exists
  <2> QED BY <1>9, <2>1, <2>3, NoneMore
<1>11. Exists(s, Owner(q)) => w[Owner(q)][Field(q)] = s[Owner(q)][Field(q)] + j
  BY <1>2, <1>6, <1>9 DEF SameField, Exists
<1>12. CASE v = "member"
  <2>1. u \notin Counted(s, q) /\ Counted(w, q) = Counted(s, q) \cup {u}
    BY <1>2, <1>4, <1>9, <1>12
  <2>2. w[Owner(q)] # Unborn
    BY <1>2, <1>9
  <2>3. j = 1
    BY <1>12
  <2>4. Grows(s, w, q)
    BY <1>2, <1>9, <1>11, <2>1, <2>2, <2>3, OneMore
  <2> QED BY <1>8, <1>10, <2>4, ThinsKeeps, FitsIs DEF Consistent, Thins
<1>13. CASE v = "none"
  <2>1. u \in Counted(s, q) /\ Counted(w, q) = Counted(s, q) \ {u}
    BY <1>2, <1>4, <1>9, <1>13
  <2>2. j = -1
    BY <1>13
  <2>3. Shrinks(s, w, q)
    BY <1>1, <1>2, <1>9, <1>11, <2>1, <2>2, OneLess
  <2> QED BY <1>8, <1>10, <2>3, ThinsKeeps, FitsIs DEF Consistent, Thins
<1> QED BY <1>1, <1>12, <1>13

LEMMA AddedFits ==
    ASSUME NEW s, Consistent(s), NEW u \in Users, NEW k \in Communities,
           WasFound(s, Community(k)), s[Member(u, k)] = "none"
    PROVE  Fits(s, Added(s, u, k))
<1> DEFINE v == "member"
           r == [s EXCEPT ![Member(u, k)] = v]
           n == Joined(r, u, k)
           w == Increment(n, Community(k), "members", 1)
<1>1. Added(s, u, k) = w
  BY DEF Added
<1>2. Written(s, r, Member(u, k), v) /\ IsDatabase(s) /\ AdminIsCreator(s)
  BY WrittenIs DEF Consistent
<1>3. s[Community(k)] # Unborn /\ v \in {"none", "member"} /\ v = "member"
  BY DEF WasFound
<1>4. n = Joined(r, u, k) /\ w = Increment(n, Community(k), "members", 1)
  OBVIOUS
<1> HIDE DEF v, r, n, w
<1>5. MemberChanged(s, r, <<"members", k>>, u, v)
  BY <1>2, <1>3, MemberWritten
<1>6. IsDatabase(r)
  BY <1>5 DEF MemberChanged
<1>7. Steady(r, n) /\ \A t \in Tallies : SameField(r, n, t)
  BY <1>4, <1>6, JoinedIs
<1>8. Fits(s, w)
  <2>1. 1 = IF v = "member" THEN 1 ELSE -1
    BY <1>3
  <2> QED BY <1>2, <1>3, <1>4, <1>7, <2>1, MembershipFits
<1> QED BY <1>1, <1>8

\* Only a member who is no admin can leave: the creator is the only admin.
LEMMA LeaverIsMember ==
    ASSUME NEW s, Consistent(s), NEW u \in Users, NEW k \in Communities, MayLeave(s, u, k)
    PROVE  s[Member(u, k)] = "member"
<1>1. s[Member(u, k)] \in {"none", "member", "admin"} /\ s[Member(u, k)] # "none"
  BY DatabaseIs DEF Consistent, Roles, MayLeave
<1>2. SUFFICES ASSUME s[Member(u, k)] = "admin" PROVE FALSE
  BY <1>1
<1>3. \A x \in Users : s[Member(x, k)] = "admin" => x = u
  BY <1>2 DEF Consistent, AdminIsCreator
<1>4. AdminsOf(s, k) = {u}
  BY <1>2, <1>3 DEF AdminsOf
<1>5. Cardinality({u}) = 1
  BY FS_Singleton
<1> QED BY <1>2, <1>4, <1>5 DEF MayLeave

LEMMA DismissedFits ==
    ASSUME NEW s, Consistent(s), NEW u \in Users, NEW k \in Communities,
           WasFound(s, Community(k)), s[Member(u, k)] = "member"
    PROVE  Fits(s, Dismissed(s, u, k))
<1> DEFINE v == "none"
           r == [s EXCEPT ![Member(u, k)] = v]
           n == Unlisted(r, {u}, {k})
           w == Increment(n, Community(k), "members", -1)
<1>1. Dismissed(s, u, k) = w
  BY DEF Dismissed
<1>2. Written(s, r, Member(u, k), v) /\ IsDatabase(s) /\ AdminIsCreator(s)
  BY WrittenIs DEF Consistent
<1>3. s[Community(k)] # Unborn /\ v \in {"none", "member"} /\ v = "none"
  BY DEF WasFound
<1>4. n = Unlisted(r, {u}, {k}) /\ w = Increment(n, Community(k), "members", -1)
  OBVIOUS
<1> HIDE DEF v, r, n, w
<1>5. MemberChanged(s, r, <<"members", k>>, u, v)
  BY <1>2, <1>3, MemberWritten
<1>6. IsDatabase(r) /\ {u} \in SUBSET Users
  BY <1>5 DEF MemberChanged
<1>7. Steady(r, n) /\ \A t \in Tallies : SameField(r, n, t)
  BY <1>4, <1>6, UnlistedIs
<1>8. Fits(s, w)
  <2>1. -1 = IF v = "member" THEN 1 ELSE -1
    BY <1>3
  <2> QED BY <1>2, <1>3, <1>4, <1>7, <2>1, MembershipFits
<1> QED BY <1>1, <1>8

\* A community with its creator as the only member.
Founded(s, r, u, k) ==
    /\ DOMAIN r = Docs
    /\ \A e \in Docs :
         r[e] = IF e = Member(u, k) THEN "admin"
                ELSE IF e = Community(k) THEN [creator |-> u, members |-> 1, posts |-> 0]
                ELSE s[e]

LEMMA FoundedIs ==
    ASSUME NEW s, Consistent(s), NEW u \in Users, NEW k \in Communities,
           s[Community(k)] = Unborn, NEW r, Founded(s, r, u, k)
    PROVE  /\ IsDatabase(r) /\ Later(s, r)
           /\ AnswersStayInPost(r) /\ PostsAreSound(r) /\ AdminIsCreator(r)
           /\ r[Community(k)] = [creator |-> u, members |-> 1, posts |-> 0]
           /\ r[Community(k)] \in CommunityRecord
           /\ \A e \in OwnerDocs : e # Community(k) => r[e] = s[e]
           /\ \A t \in Tallies :
                Counted(r, t) = IF t = <<"members", k>> THEN {u} ELSE Counted(s, t)
<1> DEFINE c == [creator |-> u, members |-> 1, posts |-> 0]
           d == Member(u, k)
           q == <<"members", k>>
<1>1. DOMAIN r = Docs /\ \A e \in Docs : r[e] = IF e = d THEN "admin" ELSE IF e = Community(k) THEN c ELSE s[e]
  BY DEF Founded
<1>2. c \in CommunityRecord /\ c.creator = u
  BY DEF CommunityRecord
<1>3. c \notin {Unborn, Gone} /\ s[Community(k)] # Gone
  BY <1>2, MissingAssumption
<1>4. /\ d \in Docs /\ d \in MemberDocs /\ d \notin OwnerDocs
      /\ Community(k) \in Docs /\ Community(k) \in CommunityDocs /\ Community(k) \in OwnerDocs
  <2>1. d \in MemberDocs /\ Community(k) \in CommunityDocs
    BY DEF MemberDocs, CommunityDocs
  <2>2. \A e \in OwnerDocs : e[1] \in {"user", "post", "comment", "community"}
    BY CollectionsDiffer DEF OwnerDocs
  <2>3. d[1] = "member"
    BY NamesDiffer
  <2> QED BY <2>1, <2>2, <2>3, AllNamesInDocs
<1>5. \A h \in Communities : Community(h) = Community(k) <=> h = k
  BY DEF Community
<1>6. \A x \in Users, h \in Communities : Member(x, h) = d <=> x = u /\ h = k
  BY DEF Member
<1>7. /\ \A x \in Posts : Post(x) # Community(k)
      /\ \A e \in Comments : Comment(e) # Community(k)
      /\ \A x \in Users, h \in Communities : Member(x, h) # Community(k)
  BY NamesDiffer
<1>8. IsDatabase(s) /\ AdminIsCreator(s) /\ AnswersStayInPost(s) /\ PostsAreSound(s)
  BY DEF Consistent
<1>9. c = [creator |-> u, members |-> 1, posts |-> 0] /\ q = <<"members", k>>
  OBVIOUS
<1> HIDE DEF c, d, q
<1>10. IsDatabase(r)
  BY <1>1, <1>2, <1>4, <1>8, TypesAre DEF IsDatabase, Roles
<1>11. /\ \A e \in OwnerDocs : e # Community(k) => r[e] = s[e]
       /\ r[Community(k)] = c
  BY <1>1, <1>4, AllNamesInDocs
<1>12. /\ \A x \in Posts : r[Post(x)] = s[Post(x)]
       /\ \A e \in Comments : r[Comment(e)] = s[Comment(e)]
       /\ \A h \in Communities : h # k => r[Community(h)] = s[Community(h)]
       /\ \A x \in Users, h \in Communities :
            r[Member(x, h)] = IF x = u /\ h = k THEN "admin" ELSE s[Member(x, h)]
  BY <1>1, <1>5, <1>6, <1>7, <1>11, AllNamesInDocs
<1>13. Later(s, r)
  BY <1>3, <1>11, <1>12, AllNamesInDocs DEF Later
<1>14. AnswersStayInPost(r)
  BY <1>8, <1>12 DEF AnswersStayInPost, Exists
<1>15. PostsAreSound(r)
  <2> SUFFICES ASSUME NEW x \in Posts, Exists(r, Post(x))
               PROVE  /\ r[Post(x)].of # None => r[Post(x)].status = "active"
                      /\ r[Post(x)].community # None =>
                           WasFound(r, Community(r[Post(x)].community))
    BY DEF PostsAreSound
  <2>1. Exists(s, Post(x)) /\ r[Post(x)] = s[Post(x)]
    BY <1>12 DEF Exists
  <2>2. /\ s[Post(x)].of # None => s[Post(x)].status = "active"
        /\ s[Post(x)].community # None => WasFound(s, Community(s[Post(x)].community))
    BY <1>8, <2>1 DEF PostsAreSound
  <2>3. s[Post(x)].community \in Communities \cup {None}
    BY <1>8, <2>1, DatabaseIs DEF Exists, PostRecord
  <2>4. \A h \in Communities : WasFound(s, Community(h)) => WasFound(r, Community(h))
    BY <1>3, <1>11, <1>12 DEF WasFound
  <2> QED BY <2>1, <2>2, <2>3, <2>4
<1>16. MembersOf(s, k) = {}
  <2>1. /\ q \in Tallies /\ Owner(q) = Community(k) /\ Counted(s, q) = MembersOf(s, k)
    BY <1>9, MembersTally
  <2>2. IsUnused(s, q)
    BY <2>1 DEF Consistent
  <2> QED BY <2>1, <2>2 DEF IsUnused
<1>17. AdminIsCreator(r)
  <2>1. \A x \in Users : s[Member(x, k)] = "none"
    BY <1>16 DEF MembersOf
  <2>2. Exists(r, Community(k)) /\ r[Community(k)].creator = u
    BY <1>2, <1>3, <1>11 DEF Exists
  <2>3. \A x \in Users : r[Member(x, k)] = "admin" <=> x = u
    BY <1>12, <2>1
  <2>4. \A x \in Users, h \in Communities : h # k =>
          (r[Member(x, h)] = "admin" <=> Exists(r, Community(h)) /\ r[Community(h)].creator = x)
    BY <1>8, <1>12 DEF AdminIsCreator, Exists
  <2> QED BY <2>2, <2>3, <2>4 DEF AdminIsCreator
<1>18. ASSUME NEW t \in Tallies, t # q PROVE Counted(r, t) = Counted(s, t)
  <2>1. SourceKind(t) \in {"like", "commentlike", "follow", "member", "comment", "post"}
    BY DEF SourceKind
  <2>2. \A i \in Things(t) : Source(t, i) # Community(k)
    BY <2>1, KindsAre, NamesDiffer
  <2>3. \A i \in Things(t) : Source(t, i) # d /\ Source(t, i) \in Docs
    BY <1>9, <1>18, MemberSources, TalliesAreAbout DEF d
  <2> QED BY <1>1, <2>2, <2>3 DEF Counted
<1>19. Counted(r, q) = {u}
  <2>1. Counted(r, q) = {x \in Users : r[Member(x, k)] # "none"}
    BY <1>9, MembersTally DEF MembersOf
  <2>2. \A x \in Users : s[Member(x, k)] = "none"
    BY <1>16 DEF MembersOf
  <2> QED BY <1>12, <2>1, <2>2
<1> QED BY <1>2, <1>9, <1>10, <1>11, <1>13, <1>14, <1>15, <1>17, <1>18, <1>19

LEMMA CommunityCreatedFits ==
    ASSUME NEW s, Consistent(s), NEW u \in Users, NEW k \in Communities, s[Community(k)] = Unborn
    PROVE  Fits(s, Joined([s EXCEPT
                 ![Community(k)] = [creator |-> u, members |-> 1, posts |-> 0],
                 ![Member(u, k)] = "admin"], u, k))
<1> DEFINE r == [s EXCEPT ![Community(k)] = [creator |-> u, members |-> 1, posts |-> 0],
                          ![Member(u, k)] = "admin"]
           w == Joined(r, u, k)
<1>1. Founded(s, r, u, k)
  <2>1. DOMAIN s = Docs
    BY DEF Consistent, IsDatabase
  <2>2. Community(k) # Member(u, k)
    BY NamesDiffer
  <2> QED BY <2>1, <2>2 DEF Founded
<1>2. w = Joined(r, u, k)
  OBVIOUS
<1> HIDE DEF r, w
<1>3. /\ IsDatabase(r) /\ Later(s, r)
      /\ AnswersStayInPost(r) /\ PostsAreSound(r) /\ AdminIsCreator(r)
      /\ r[Community(k)] = [creator |-> u, members |-> 1, posts |-> 0]
      /\ r[Community(k)] \in CommunityRecord
      /\ \A e \in OwnerDocs : e # Community(k) => r[e] = s[e]
      /\ \A t \in Tallies :
           Counted(r, t) = IF t = <<"members", k>> THEN {u} ELSE Counted(s, t)
  BY <1>1, FoundedIs
<1>4. Steady(r, w) /\ \A t \in Tallies : SameField(r, w, t)
  BY <1>2, <1>3, JoinedIs
<1>5. /\ IsDatabase(w) /\ Later(s, w)
      /\ AnswersStayInPost(w) /\ PostsAreSound(w) /\ AdminIsCreator(w)
  BY <1>3, <1>4, AfterSteady
<1>6. ASSUME NEW t \in Tallies
      PROVE  /\ Counted(w, t) = IF t = <<"members", k>> THEN {u} ELSE Counted(s, t)
             /\ w[Owner(t)] = Unborn <=> r[Owner(t)] = Unborn
             /\ Exists(w, Owner(t)) <=> Exists(r, Owner(t))
  BY <1>3, <1>4, SteadyCounted, SteadyOwners, TalliesAreAbout
<1>7. ASSUME NEW t \in Tallies, Owner(t) # Community(k) PROVE Shrinks(s, w, t)
  <2>1. SameField(r, w, t) /\ r[Owner(t)] = s[Owner(t)]
    BY <1>3, <1>4, <1>7, TalliesAreAbout
  <2>2. t # <<"members", k>>
    BY <1>7, MembersTally
  <2>3. Counted(w, t) = Counted(s, t)
    BY <1>6, <2>2
  <2> QED BY <1>6, <2>1, <2>3, NoneMore DEF SameField, Exists
<1>8. ASSUME NEW t \in Tallies, Owner(t) = Community(k) PROVE Grows(s, w, t)
  <2>1. Exists(r, Community(k)) /\ r[Community(k)] # Unborn
    BY <1>3, MissingAssumption DEF Exists
  <2>2. w[Owner(t)] # Unborn /\ w[Owner(t)][Field(t)] = r[Community(k)][Field(t)]
    BY <1>4, <1>6, <1>8, <2>1 DEF SameField
  <2>3. IsUnused(s, t) /\ Counted(s, t) = {}
    BY <1>8 DEF Consistent, IsUnused
  <2>4. t[2] = k /\ OwnerKind(t) = "community"
    <3>1. Owner(t)[1] = OwnerKind(t) /\ Owner(t)[2] = t[2]
      BY KindsAre
    <3>2. Community(k)[1] = "community" /\ Community(k)[2] = k
      BY DEF Community
    <3> QED BY <1>8, <3>1, <3>2
  <2>5. t \in CommunityTallies
    BY <2>4 DEF Tallies, PostTallies, CommentTallies, UserTallies, OwnerKind
  <2>6. t = <<"members", k>> \/ t = <<"posts", k>>
    BY <2>4, <2>5 DEF CommunityTallies
  <2>7. CASE t = <<"members", k>>
    <3>1. Field(t) = "members"
      BY <2>7, MembersTally
    <3>2. Counted(w, t) = {u} /\ Cardinality({u}) = 1
      BY <1>6, <2>7, FS_Singleton
    <3>3. w[Owner(t)][Field(t)] = 1
      BY <1>3, <2>2, <3>1
    <3> QED BY <1>8, <2>2, <2>3, <3>2, <3>3, FirstOwner
  <2>8. CASE t = <<"posts", k>>
    <3>1. Field(t) = "posts"
      BY <2>8, CommunityPostsTally
    <3>2. t # <<"members", k>>
      BY <2>8
    <3>3. Counted(w, t) = {}
      BY <1>6, <2>3, <3>2
    <3>4. w[Owner(t)][Field(t)] = 0
      BY <1>3, <2>2, <3>1
    <3> QED BY <1>8, <2>2, <2>3, <3>3, <3>4, FirstOwner, FS_EmptySet
  <2> QED BY <2>6, <2>7, <2>8
<1>9. Fits(s, w)
  <2>1. \A t \in Tallies : Shrinks(s, w, t) \/ Grows(s, w, t)
    BY <1>7, <1>8
  <2> QED BY <1>5, <2>1, FitsIs
<1> QED BY <1>9 DEF r, w

\* The communities ks end, and with them their members.
Dissolved(s, w, ks) ==
    /\ DOMAIN w = Docs
    /\ \A d \in Docs :
         w[d] = IF d \in {Community(k) : k \in ks} THEN Gone
                ELSE IF d \in {Member(u, k) : u \in Users, k \in ks} THEN "none"
                ELSE s[d]

RolesWithout(s, w, ks) ==
    \A k \in Communities :
        /\ Lead(w, k) = IF k \in ks THEN None ELSE Lead(s, k)
        /\ \A u \in Users : w[Member(u, k)] = IF k \in ks THEN "none" ELSE s[Member(u, k)]

LEMMA DissolvedPurges ==
    ASSUME NEW s, IsDatabase(s), NEW ks \in SUBSET Communities, NEW w, Dissolved(s, w, ks)
    PROVE  Purges(s, w, {}) /\ RolesWithout(s, w, ks) /\ IsDatabase(w)
<1> DEFINE C == {Community(k) : k \in ks}
           M == {Member(u, k) : u \in Users, k \in ks}
<1>1. DOMAIN w = Docs /\ \A d \in Docs : w[d] = IF d \in C THEN Gone ELSE IF d \in M THEN "none" ELSE s[d]
  BY DEF Dissolved
<1>2. C \subseteq CommunityDocs /\ M \subseteq MemberDocs
  BY DEF CommunityDocs, MemberDocs
<1>3. \A k \in Communities : Community(k) \in C <=> k \in ks
  BY DEF Community
<1>4. \A u \in Users, k \in Communities : Member(u, k) \in M <=> k \in ks
  BY DEF Member
<1> HIDE DEF C, M
<1>5. \A d \in C \cup M : d[1] \in {"community", "member"}
  BY <1>2, CollectionsDiffer
<1>6. \A d \in Docs : d[1] \notin {"community", "member"} => w[d] = s[d]
  BY <1>1, <1>5
<1>7. /\ \A u \in Users : w[User(u)] = s[User(u)]
      /\ \A x \in Posts : w[Post(x)] = s[Post(x)]
      /\ \A c \in Comments : w[Comment(c)] = s[Comment(c)]
      /\ \A d \in Relations \cup {Guard} : w[d] = s[d]
  BY <1>6, AllNamesInDocs, NamesDiffer, CollectionsDiffer DEF Docs
<1>8. \A k \in Communities : w[Community(k)] = IF k \in ks THEN Gone ELSE s[Community(k)]
  <2>1. \A k \in Communities : Community(k) \notin M
    BY <1>2, CollectionsDiffer, NamesDiffer
  <2> QED BY <1>1, <1>3, <2>1, AllNamesInDocs
<1>9. \A u \in Users, k \in Communities : w[Member(u, k)] = IF k \in ks THEN "none" ELSE s[Member(u, k)]
  <2>1. \A u \in Users, k \in Communities : Member(u, k) \notin C
    BY <1>2, CollectionsDiffer, NamesDiffer
  <2> QED BY <1>1, <1>4, <2>1, AllNamesInDocs
<1>10. IsDatabase(w)
  BY <1>1, <1>7, <1>8, <1>9, DatabaseIs DEF Roles
<1>11. \A e \in OwnerDocs : w[e] = s[e] \/ w[e] = Gone
  <2>1. \A e \in OwnerDocs : e \notin M /\ e \in Docs
    BY <1>2, CollectionsDiffer, AllNamesInDocs DEF OwnerDocs
  <2> QED BY <1>1, <2>1
<1>12. Thins(s, w)
  <2>1. Later(s, w)
    BY <1>7, <1>11, MissingAssumption DEF Later
  <2> QED BY <1>7, <1>10, <2>1 DEF Thins, Exists
<1>13. RolesWithout(s, w, ks)
  BY <1>8, <1>9 DEF RolesWithout, Lead, Exists
<1>14. ASSUME NEW t \in Tallies
       PROVE  /\ Counted(w, t) \subseteq Counted(s, t)
              /\ IsRight(s, t) => IsRight(w, t)
  <2>1. Owner(t) \in OwnerDocs /\ (w[Owner(t)] = s[Owner(t)] \/ w[Owner(t)] = Gone)
    BY <1>11, TalliesAreAbout
  <2>2. CASE SourceKind(t) # "member"
    <3>1. SourceKind(t) # "community"
      BY DEF SourceKind
    <3>2. \A i \in Things(t) : Source(t, i) \in Docs /\ Source(t, i)[1] = SourceKind(t)
      BY KindsAre, TalliesAreAbout
    <3>3. \A i \in Things(t) : w[Source(t, i)] = s[Source(t, i)]
      BY <1>6, <2>2, <3>1, <3>2
    <3>4. Counted(w, t) = Counted(s, t)
      BY <3>3 DEF Counted
    <3> QED BY <2>1, <3>4 DEF IsRight, Exists
  <2>3. CASE SourceKind(t) = "member"
    <3>1. PICK k \in Communities : t = <<"members", k>>
      BY <2>3, KindTallies
    <3>2. /\ Owner(t) = Community(k)
          /\ \A z : Counted(z, t) = {x \in Users : z[Member(x, k)] # "none"}
      BY <3>1, MembersTally DEF MembersOf
    <3>3. CASE k \in ks
      <4>1. w[Owner(t)] = Gone /\ Counted(w, t) = {}
        BY <1>8, <1>9, <3>2, <3>3
      <4> QED BY <4>1 DEF IsRight, Exists
    <3>4. CASE k \notin ks
      <4>1. Counted(w, t) = Counted(s, t)
        BY <1>9, <3>2, <3>4
      <4> QED BY <2>1, <4>1 DEF IsRight, Exists
    <3> QED BY <3>3, <3>4
  <2> QED BY <2>2, <2>3
<1> QED BY <1>10, <1>12, <1>13, <1>14 DEF Purges

\* All that happens to communities that end.
LEMMA WithoutCommunitiesPurges ==
    ASSUME NEW s, IsDatabase(s), AnswersStayInPost(s), NEW ks \in SUBSET Communities,
           NEW w, w = WithoutCommunities(s, ks)
    PROVE  Purges(s, w, {}) /\ RolesWithout(s, w, ks)
<1> DEFINE posts == deletePostGraph(s, PostsThat(s, LAMBDA x : x.community \in ks))
           M == {Member(u, k) : u \in Users, k \in ks}
           C == {Community(k) : k \in ks}
           members == Replace(posts, [d \in M |-> "none"])
           gone == Replace(members, [d \in C |-> Gone])
<1>1. w = Unlisted(gone, Users, ks)
  BY DEF WithoutCommunities
<1>2. posts = deletePostGraph(s, PostsThat(s, LAMBDA x : x.community \in ks))
  OBVIOUS
<1>3. gone = Replace(members, [d \in C |-> Gone]) /\ members = Replace(posts, [d \in M |-> "none"])
  OBVIOUS
<1> HIDE DEF posts, members, gone
<1>4. Purges(s, posts, {}) /\ SameRoles(s, posts)
  BY <1>2, deletePostGraphPurges
<1>5. IsDatabase(posts)
  BY <1>4 DEF Purges, Thins
<1>6. DOMAIN members = Docs /\ \A d \in Docs : members[d] = IF d \in M THEN "none" ELSE posts[d]
  <2> DEFINE f == [d \in M |-> "none"]
  <2>1. DOMAIN f = M /\ (\A d \in M : f[d] = "none") /\ members = Replace(posts, f)
    BY <1>3
  <2> HIDE DEF f, M
  <2> QED BY <1>5, <2>1, ReplaceIs DEF IsDatabase
<1>7. DOMAIN gone = Docs /\ \A d \in Docs : gone[d] = IF d \in C THEN Gone ELSE members[d]
  <2> DEFINE f == [d \in C |-> Gone]
  <2>1. DOMAIN f = C /\ (\A d \in C : f[d] = Gone) /\ gone = Replace(members, f)
    BY <1>3
  <2> HIDE DEF f, C
  <2> QED BY <1>6, <2>1, ReplaceIs
<1>8. Dissolved(posts, gone, ks)
  BY <1>6, <1>7 DEF Dissolved
<1>9. Purges(posts, gone, {}) /\ RolesWithout(posts, gone, ks) /\ IsDatabase(gone)
  BY <1>5, <1>8, DissolvedPurges
<1>10. Steady(gone, w) /\ \A t \in Tallies : SameField(gone, w, t)
  BY <1>1, <1>9, UnlistedIs
<1>11. Purges(s, gone, {})
  <2>1. Purges(s, gone, {} \cup {})
    BY <1>4, <1>9, PurgesTwice
  <2> QED BY <2>1
<1>12. Recounted(gone, w, {})
  BY <1>10 DEF Recounted
<1>13. Purges(s, w, {}) /\ SameRoles(gone, w)
  <2>1. Purges(s, w, {} \ {}) /\ SameRoles(gone, w)
    BY <1>11, <1>12, PurgesRecounted
  <2> QED BY <2>1
<1>14. RolesWithout(s, w, ks)
  BY <1>4, <1>9, <1>13 DEF SameRoles, RolesWithout
<1> QED BY <1>13, <1>14

LEMMA RolesWithoutKeep ==
    ASSUME NEW s, NEW w, NEW ks, RolesWithout(s, w, ks), AdminIsCreator(s)
    PROVE  AdminIsCreator(w)
BY LeadsAre, NoneAssumption DEF RolesWithout

LEMMA WithoutCommunitiesFits ==
    ASSUME NEW s, Consistent(s), NEW ks \in SUBSET Communities
    PROVE  Fits(s, WithoutCommunities(s, ks))
<1>1. Purges(s, WithoutCommunities(s, ks), {}) /\ RolesWithout(s, WithoutCommunities(s, ks), ks)
  BY WithoutCommunitiesPurges DEF Consistent
<1> QED BY <1>1, RolesWithoutKeep, PurgesFits DEF Consistent

-----------------------------------------------------------------------------
(* The purge of an account keeps the counters right.                       *)

LEMMA RelationsWithdrawn ==
    ASSUME NEW s, NEW r, NEW Q, Cleared(s, r, {}, Q), NEW R,
           NEW w, w = Replace(r, [d \in R |-> FALSE])
    PROVE  Cleared(s, w, {}, Q \cup R)
<1> DEFINE f == [d \in R |-> FALSE]
<1>1. DOMAIN f = R /\ (\A d \in R : f[d] = FALSE) /\ w = Replace(r, f)
  OBVIOUS
<1> HIDE DEF f
<1>2. DOMAIN r = Docs
  BY DEF Cleared
<1>3. DOMAIN w = Docs /\ \A d \in Docs : w[d] = IF d \in R THEN FALSE ELSE r[d]
  BY <1>1, <1>2, ReplaceIs
<1> QED BY <1>3 DEF Cleared

\* The tombstone of a comment of u.
Departed(r, u) == [Tombstone(r) EXCEPT !.departed = u]

LEMMA DepartedIs ==
    ASSUME NEW r \in CommentRecord, NEW u \in Users, NEW v, v = Departed(r, u)
    PROVE  /\ v \in CommentRecord /\ v.post = r.post /\ v.parent = r.parent
           /\ v.replies = r.replies /\ v.likes = 0
<1> DEFINE b == Tombstone(r)
<1>1. /\ b \in CommentRecord /\ b.post = r.post /\ b.parent = r.parent
      /\ b.replies = r.replies /\ b.likes = 0
  BY TombstoneIs
<1>2. v = [b EXCEPT !.departed = u]
  BY DEF Departed
<1> HIDE DEF b
<1>3. /\ v \in CommentRecord /\ v.post = b.post /\ v.parent = b.parent
      /\ v.replies = b.replies /\ v.likes = b.likes
  BY <1>1, <1>2 DEF CommentRecord
<1> QED BY <1>1, <1>3

\* The comments of u stay as tombstones, without likes.
LEMMA tombstoneCommentsPurges ==
    ASSUME NEW s, IsDatabase(s), NEW u \in Users, NEW w, w = tombstoneComments(s, u)
    PROVE  Purges(s, w, {}) /\ SameRoles(s, w)
<1> DEFINE own == AuthoredBy(s, u)
           liked == {c \in Comments : s[CommentLike(u, c)]}
           Q == {CommentLike(v, c) : v \in Users, c \in own}
           R == {CommentLike(u, c) : c \in Comments}
           cs == own \cup liked
           K == {<<"commentlikes", c>> : c \in cs}
           a == WithoutCommentLikes(s, own)
           bare == Replace(a, [d \in R |-> FALSE])
           counted == recomputeCommentLikeCounts(bare, cs)
           D == {Comment(c) : c \in own}
           h == [d \in D |-> Departed(counted[d], u)]
<1>1. w = Replace(counted, h)
  BY DEF tombstoneComments, Departed
<1>2. a = WithoutCommentLikes(s, own) /\ bare = Replace(a, [d \in R |-> FALSE])
  OBVIOUS
<1>0. counted = recomputeCommentLikeCounts(bare, cs)
  OBVIOUS
<1>3. own \in SUBSET Comments /\ liked \in SUBSET Comments /\ \A c \in own : Exists(s, Comment(c))
  BY DEF AuthoredBy, CommentsThat
<1>4. Q \in SUBSET Relations /\ R \in SUBSET Relations
  BY <1>3 DEF Relations
<1>5. \A v \in Users, c \in own : CommentLike(v, c) \in Q /\ CommentLike(v, c) \in Docs
  BY <1>4 DEF Docs
<1>6. \A c \in Comments : Comment(c) \in D <=> c \in own
  BY DEF Comment
<1>7. D \in SUBSET CommentDocs /\ D \in SUBSET OwnerDocs /\ D \in SUBSET Docs
  BY <1>3 DEF CommentDocs, OwnerDocs, Docs
<1>8. DOMAIN h = D /\ \A d \in D : h[d] = Departed(counted[d], u)
  OBVIOUS
<1>9. ASSUME NEW t \in Tallies, t \notin K, NEW i \in Counted(s, t)
      PROVE  Source(t, i) \notin Q \cup R
  <2>0. i \in Things(t) /\ Counts(t, s[Source(t, i)])
    BY <1>9 DEF Counted
  <2>1. ASSUME NEW v \in Users, NEW c \in own PROVE Source(t, i) # CommentLike(v, c)
    <3>1. t # <<"commentlikes", c>>
      BY <1>9
    <3> QED BY <1>3, <2>0, <3>1, CommentLikeSources
  <2>2. ASSUME NEW c \in Comments PROVE Source(t, i) # CommentLike(u, c)
    <3>1. SUFFICES ASSUME Source(t, i) = CommentLike(u, c) PROVE FALSE
      OBVIOUS
    <3>2. t = <<"commentlikes", c>>
      BY <2>0, <3>1, CommentLikeSources
    <3>3. s[CommentLike(u, c)] = TRUE
      BY <2>0, <3>1, <3>2, CommentLikesTally
    <3> QED BY <1>9, <3>2, <3>3
  <2> QED BY <2>1, <2>2
<1>10. cs \in SUBSET Comments
  BY <1>3
<1>11. \A d \in D : Exists(s, d)
  BY <1>3
<1> HIDE DEF own, liked, cs, Q, R, K, a, bare, counted, D, h
<1>12. Cleared(s, a, {}, Q)
  BY <1>2, <1>3, WithoutCommentLikesIs DEF Q
<1>13. Cleared(s, bare, {}, Q \cup R)
  BY <1>2, <1>12, RelationsWithdrawn
<1>14. Q \cup R \in SUBSET Relations
  BY <1>4
<1>15. Purges(s, bare, K)
  BY <1>9, <1>13, <1>14, RelationsPurged
<1>16. SameRoles(s, bare) /\ IsDatabase(bare) /\ \A e \in OwnerDocs : bare[e] = s[e]
  BY <1>13, <1>14, RelationsCleared
<1>17. Recounted(bare, counted, K) /\ \A e \in Docs : e[1] # "comment" => counted[e] = bare[e]
  BY <1>0, <1>10, <1>16, CommentLikesAreRecounted DEF K
<1>18. Purges(s, counted, {}) /\ SameRoles(bare, counted)
  <2>1. Purges(s, counted, K \ K) /\ SameRoles(bare, counted)
    BY <1>15, <1>17, PurgesRecounted
  <2> QED BY <2>1
<1>19. Steady(bare, counted) /\ IsDatabase(counted)
  BY <1>17 DEF Recounted, Steady
<1>20. ASSUME NEW d \in D
       PROVE  /\ counted[d] \in CommentRecord /\ w[d] \in CommentRecord
              /\ w[d].post = counted[d].post /\ w[d].parent = counted[d].parent
              /\ w[d].replies = counted[d].replies /\ w[d].likes = 0
  <2>1. Exists(bare, d)
    BY <1>7, <1>11, <1>16 DEF Exists
  <2>2. Exists(counted, d) /\ d \in CommentDocs /\ d \in Docs
    BY <1>7, <1>19, <2>1, SteadyOwners
  <2>3. counted[d] \in CommentRecord
    BY <1>19, <2>2, DatabaseIs DEF Exists, CommentDocs
  <2>4. w[d] = Departed(counted[d], u)
    BY <1>1, <1>8, <1>19, <2>2, ReplaceIs DEF IsDatabase
  <2> DEFINE r == counted[d]
  <2>5. r \in CommentRecord /\ w[d] = Departed(r, u) /\ r = counted[d]
    BY <2>3, <2>4
  <2> HIDE DEF r
  <2>6. /\ w[d] \in CommentRecord /\ w[d].post = r.post /\ w[d].parent = r.parent
        /\ w[d].replies = r.replies /\ w[d].likes = 0
    BY <2>5, DepartedIs
  <2> QED BY <2>5, <2>6
<1>21. DOMAIN w = Docs /\ \A d \in Docs : d \notin D => w[d] = counted[d]
  BY <1>1, <1>8, <1>19, ReplaceIs DEF IsDatabase
<1>22. Buried(counted, w, D)
  BY <1>20, <1>21 DEF Buried
<1>23. ASSUME NEW c \in Comments, Comment(c) \in D PROVE CommentLikesOf(counted, c) = {}
  <2>1. \A v \in Users : CommentLike(v, c) \in Q /\ CommentLike(v, c) \in Docs
    BY <1>5, <1>6, <1>23
  <2>2. \A v \in Users : bare[CommentLike(v, c)] = FALSE
    BY <1>13, <2>1 DEF Cleared
  <2>3. \A v \in Users : CommentLike(v, c)[1] # "comment"
    BY DEF CommentLike
  <2>4. \A v \in Users : counted[CommentLike(v, c)] = FALSE
    BY <1>17, <2>1, <2>2, <2>3
  <2> QED BY <2>4 DEF CommentLikesOf
<1>24. Purges(counted, w, {}) /\ SameRoles(counted, w)
  BY <1>7, <1>19, <1>22, <1>23, BuriedIs
<1>25. Purges(s, w, {} \cup {})
  BY <1>18, <1>24, PurgesTwice
<1> QED BY <1>16, <1>18, <1>24, <1>25, SameRolesTwice

LEMMA removePostInteractionsPurges ==
    ASSUME NEW s, IsDatabase(s), NEW u \in Users, NEW w, w = removePostInteractions(s, u)
    PROVE  Purges(s, w, {}) /\ SameRoles(s, w)
<1> DEFINE liked == {x \in Posts : s[Like(u, x)]}
           R == {Like(u, x) : x \in Posts} \cup {View(u, x) : x \in Posts}
           K == {<<"likes", x>> : x \in liked}
           bare == Replace(s, [d \in R |-> FALSE])
<1>1. w = recomputePostLikeCounts(bare, liked)
  BY DEF removePostInteractions
<1>2. bare = Replace(s, [d \in R |-> FALSE]) /\ liked \in SUBSET Posts
      /\ K = {<<"likes", x>> : x \in liked}
  OBVIOUS
<1>3. R \in SUBSET Relations
  BY DEF Relations
<1>4. ASSUME NEW t \in Tallies, t \notin K, NEW i \in Counted(s, t)
      PROVE  Source(t, i) \notin R
  <2>0. i \in Things(t) /\ Counts(t, s[Source(t, i)])
    BY <1>4 DEF Counted
  <2>1. ASSUME NEW x \in Posts PROVE Source(t, i) # View(u, x)
    <3>1. Source(t, i)[1] # "view"
      BY <2>0, KindsAre DEF SourceKind
    <3> QED BY <3>1 DEF View
  <2>2. ASSUME NEW x \in Posts PROVE Source(t, i) # Like(u, x)
    <3>1. SUFFICES ASSUME Source(t, i) = Like(u, x) PROVE FALSE
      OBVIOUS
    <3>2. t = <<"likes", x>>
      BY <2>0, <3>1, LikeSources
    <3>3. s[Like(u, x)] = TRUE
      BY <2>0, <3>1, <3>2, PostLikesTally
    <3> QED BY <1>4, <3>2, <3>3
  <2> QED BY <2>1, <2>2
<1> HIDE DEF liked, R, K, bare
<1>5. Cleared(s, s, {}, {})
  BY DEF Cleared, IsDatabase
<1>6. Cleared(s, bare, {}, {} \cup R)
  BY <1>2, <1>5, RelationsWithdrawn
<1>7. Cleared(s, bare, {}, R)
  <2>1. {} \cup R = R
    OBVIOUS
  <2> QED BY <1>6, <2>1
<1>8. Purges(s, bare, K)
  BY <1>3, <1>4, <1>7, RelationsPurged
<1>9. SameRoles(s, bare) /\ IsDatabase(bare)
  BY <1>3, <1>7, RelationsCleared
<1>10. Recounted(bare, w, K)
  BY <1>1, <1>2, <1>9, PostLikesAreRecounted
<1>11. Purges(s, w, K \ K) /\ SameRoles(bare, w)
  BY <1>8, <1>10, PurgesRecounted
<1>12. Purges(s, w, {})
  BY <1>11
<1> QED BY <1>9, <1>11, <1>12, SameRolesTwice

LEMMA WithoutContentPurges ==
    ASSUME NEW s, IsDatabase(s), AnswersStayInPost(s), NEW u \in Users,
           NEW w, w = WithoutContent(s, u)
    PROVE  Purges(s, w, {}) /\ SameRoles(s, w)
<1> DEFINE a == deletePostGraph(s, PostsThat(s, LAMBDA x : x.author = u))
           b == tombstoneComments(a, u)
<1>1. w = removePostInteractions(b, u)
  BY DEF WithoutContent
<1>2. a = deletePostGraph(s, PostsThat(s, LAMBDA x : x.author = u)) /\ b = tombstoneComments(a, u)
  OBVIOUS
<1> HIDE DEF a, b
<1>3. Purges(s, a, {}) /\ SameRoles(s, a)
  BY <1>2, deletePostGraphPurges
<1>4. IsDatabase(a)
  BY <1>3 DEF Purges, Thins
<1>5. Purges(a, b, {}) /\ SameRoles(a, b)
  BY <1>2, <1>4, tombstoneCommentsPurges
<1>6. IsDatabase(b)
  BY <1>5 DEF Purges, Thins
<1>7. Purges(b, w, {}) /\ SameRoles(b, w)
  BY <1>1, <1>6, removePostInteractionsPurges
<1>8. Purges(s, b, {} \cup {})
  BY <1>3, <1>5, PurgesTwice
<1>9. Purges(s, w, ({} \cup {}) \cup {})
  BY <1>7, <1>8, PurgesTwice
<1>10. Purges(s, w, {})
  BY <1>9
<1> QED BY <1>3, <1>5, <1>7, <1>10, SameRolesTwice

LEMMA PurgesMore ==
    ASSUME NEW s, NEW w, NEW K, NEW L, Purges(s, w, K), K \subseteq L
    PROVE  Purges(s, w, L)
BY DEF Purges

\* Follows of u and of others who follow u end; those count again.
LEMMA WithoutRelationshipsPurges ==
    ASSUME NEW s, IsDatabase(s), NEW u \in Users, NEW w, w = WithoutRelationships(s, u),
           NEW p, p = <<"followers", u>>, NEW q, q = <<"following", u>>
    PROVE  /\ Purges(s, w, {p, q}) /\ SameRoles(s, w)
           /\ Counted(w, p) = {} /\ Counted(w, q) = {}
<1> DEFINE us == FollowersOf(s, u) \cup FollowedBy(s, u)
           R == {Follow(u, v) : v \in Users \ {u}} \cup {Follow(v, u) : v \in Users \ {u}}
           F == {<<"followers", v>> : v \in us}
           G == {<<"following", v>> : v \in us}
           K == {p, q} \cup F \cup G
           bare == Unfollowed(s, u)
           m == recountFollowers(bare, bare, us)
<1>1. w = recountFollowing(m, bare, us)
  BY DEF WithoutRelationships, recountFollowing, recountFollowers
<1>2. m = recountFollowers(bare, bare, us)
  OBVIOUS
<1>3. bare = Replace(s, [d \in R |-> FALSE])
  BY DEF Unfollowed
<1>4. us \in SUBSET Users
  BY DEF FollowersOf, FollowedBy
<1>5. R \in SUBSET Relations
  <2>1. ASSUME NEW v \in Users \ {u} PROVE Follow(u, v) \in Relations /\ Follow(v, u) \in Relations
    <3>1. <<u, v>> \in {f \in Users \X Users : f[1] # f[2]} /\ <<v, u>> \in {f \in Users \X Users : f[1] # f[2]}
      BY <2>1
    <3>2. Follow(u, v) = Follow(<<u, v>>[1], <<u, v>>[2]) /\ Follow(v, u) = Follow(<<v, u>>[1], <<v, u>>[2])
      OBVIOUS
    <3>3. /\ Follow(u, v) \in {Follow(e[1], e[2]) : e \in {f \in Users \X Users : f[1] # f[2]}}
          /\ Follow(v, u) \in {Follow(e[1], e[2]) : e \in {f \in Users \X Users : f[1] # f[2]}}
      BY <3>1, <3>2
    <3> QED BY <3>3 DEF Relations
  <2> QED BY <2>1
<1>6. p \in Tallies /\ q \in Tallies
  BY FollowersTally, FollowingTally
<1>7. ASSUME NEW t \in Tallies, t \notin K, NEW i \in Counted(s, t)
      PROVE  Source(t, i) \notin R
  <2>0. i \in Things(t) /\ Counts(t, s[Source(t, i)]) /\ t # p /\ t # q
    BY <1>7 DEF Counted
  <2>1. ASSUME NEW v \in Users \ {u} PROVE Source(t, i) # Follow(u, v)
    <3>1. SUFFICES ASSUME Source(t, i) = Follow(u, v) PROVE FALSE
      OBVIOUS
    <3>2. t = <<"followers", v>>
      BY <2>0, <3>1, FollowSources
    <3>3. s[Follow(u, v)] = TRUE
      BY <2>0, <3>1, <3>2, FollowersTally
    <3>4. v \in us
      BY <3>3 DEF FollowedBy
    <3> QED BY <1>7, <3>2, <3>4
  <2>2. ASSUME NEW v \in Users \ {u} PROVE Source(t, i) # Follow(v, u)
    <3>1. SUFFICES ASSUME Source(t, i) = Follow(v, u) PROVE FALSE
      OBVIOUS
    <3>2. t = <<"following", v>>
      BY <2>0, <3>1, FollowSources
    <3>3. s[Follow(v, u)] = TRUE
      BY <2>0, <3>1, <3>2, FollowingTally
    <3>4. v \in us
      BY <3>3 DEF FollowersOf
    <3> QED BY <1>7, <3>2, <3>4
  <2> QED BY <2>1, <2>2
<1>8. \A v \in Users \ {u} : Follow(u, v) \in R /\ Follow(v, u) \in R
  OBVIOUS
<1>9. (K \ F) \ G \subseteq {p, q}
  OBVIOUS
<1> HIDE DEF us, R, F, G, K, bare, m
<1>10. Cleared(s, bare, {}, R)
  <2>1. Cleared(s, s, {}, {})
    BY DEF Cleared, IsDatabase
  <2>2. Cleared(s, bare, {}, {} \cup R)
    BY <1>3, <2>1, RelationsWithdrawn
  <2>3. {} \cup R = R
    OBVIOUS
  <2> QED BY <2>2, <2>3
<1>11. Purges(s, bare, K)
  BY <1>5, <1>7, <1>10, RelationsPurged
<1>12. SameRoles(s, bare) /\ IsDatabase(bare)
  BY <1>5, <1>10, RelationsCleared
<1>13. Recounted(bare, m, F)
  BY <1>2, <1>4, <1>12, FollowersAreRecounted DEF F
<1>14. Purges(s, m, K \ F) /\ SameRoles(bare, m)
  BY <1>11, <1>13, PurgesRecounted
<1>15. IsDatabase(m) /\ \A t \in Tallies : Counted(m, t) = Counted(bare, t)
  BY <1>13, SteadyCounted DEF Recounted, Steady
<1>16. ASSUME NEW v \in us PROVE FollowedBy(bare, v) = FollowedBy(m, v)
  <2> DEFINE t == <<"following", v>>
  <2>1. v \in Users
    BY <1>4
  <2>2. t \in Tallies /\ \A z : Counted(z, t) = FollowedBy(z, v)
    BY <2>1, FollowingTally
  <2> HIDE DEF t
  <2> QED BY <1>15, <2>2
<1>17. Recounted(m, w, G)
  BY <1>1, <1>4, <1>15, <1>16, FollowingAreRecounted DEF G
<1>18. Purges(s, w, (K \ F) \ G) /\ SameRoles(m, w)
  BY <1>14, <1>17, PurgesRecounted
<1>19. Purges(s, w, {p, q})
  BY <1>9, <1>18, PurgesMore
<1>20. \A t \in Tallies : Counted(w, t) = Counted(bare, t)
  BY <1>15, <1>17, SteadyCounted DEF Recounted
<1>21. \A v \in Users \ {u} : bare[Follow(u, v)] = FALSE /\ bare[Follow(v, u)] = FALSE
  BY <1>5, <1>8, <1>10 DEF Cleared, Docs
<1>22. Counted(bare, p) = {} /\ Counted(bare, q) = {}
  <2>1. Counted(bare, p) = FollowersOf(bare, u) /\ Counted(bare, q) = FollowedBy(bare, u)
    BY FollowersTally, FollowingTally
  <2> QED BY <1>21, <2>1 DEF FollowersOf, FollowedBy
<1> QED BY <1>6, <1>12, <1>14, <1>18, <1>19, <1>20, <1>22, SameRolesTwice

-----------------------------------------------------------------------------
(* The communities of an account are inherited or end.                     *)

\* Whoever inherits a community of u is another member of it.
HeirsFit(s, u, heir) ==
    \A k \in Communities : heir[k] # None =>
        /\ Lead(s, k) = u
        /\ heir[k] \in Users \ {u}
        /\ s[Member(heir[k], k)] # "none"

LEMMA HeirsAre ==
    ASSUME NEW s, NEW b, SameRoles(s, b), NEW u \in Users, NEW heir, IsHeritage(s, u, heir)
    PROVE  HeirsFit(b, u, heir)
<1>1. ASSUME NEW k \in Communities, heir[k] # None
      PROVE  /\ Lead(b, k) = u
             /\ heir[k] \in Users \ {u}
             /\ b[Member(heir[k], k)] # "none"
  <2>1. /\ Exists(s, Community(k)) /\ s[Community(k)].creator = u
        /\ heir[k] \in Successors(s, u, k)
    BY <1>1 DEF IsHeritage
  <2>2. Lead(s, k) = u
    BY <2>1 DEF Lead
  <2>3. heir[k] \in MembersOf(s, k) \ {u}
    BY <2>1 DEF Successors
  <2>4. heir[k] \in Users \ {u} /\ s[Member(heir[k], k)] # "none"
    BY <2>3 DEF MembersOf
  <2> QED BY <2>2, <2>4 DEF SameRoles
<1> QED BY <1>1 DEF HeirsFit

\* The heirs become creators and admins.
PassedTo(s, w, heir) ==
    /\ DOMAIN w = Docs
    /\ \A k \in Communities :
         w[Community(k)] = IF heir[k] = None THEN s[Community(k)]
                           ELSE [s[Community(k)] EXCEPT !.creator = heir[k]]
    /\ \A v \in Users, k \in Communities :
         w[Member(v, k)] = IF heir[k] # None /\ v = heir[k] THEN "admin" ELSE s[Member(v, k)]
    /\ \A d \in Docs : d[1] \notin {"community", "member"} => w[d] = s[d]

LEMMA InheritedIs ==
    ASSUME NEW s, IsDatabase(s), NEW u \in Users, NEW heir, HeirsFit(s, u, heir),
           NEW w, w = Inherited(s, u, heir)
    PROVE  PassedTo(s, w, heir)
<1> DEFINE ks == {k \in Communities : heir[k] # None}
           C == {Community(k) : k \in ks}
           M == {Member(heir[k], k) : k \in ks}
           f == [d \in C |-> [s[d] EXCEPT !.creator = heir[d[2]]]]
           a == Replace(s, f)
           g == [d \in M |-> "admin"]
<1>1. w = Replace(a, g)
  BY DEF Inherited
<1>2. a = Replace(s, f)
  OBVIOUS
<1>3. DOMAIN f = C /\ \A d \in C : f[d] = [s[d] EXCEPT !.creator = heir[d[2]]]
  OBVIOUS
<1>4. DOMAIN g = M /\ \A d \in M : g[d] = "admin"
  OBVIOUS
<1>5. C \subseteq CommunityDocs
  BY DEF CommunityDocs
<1>6. M \subseteq MemberDocs
  BY DEF MemberDocs, HeirsFit
<1>7. \A k \in Communities : Community(k) \in C <=> heir[k] # None
  BY DEF Community
<1>8. \A v \in Users, k \in Communities : Member(v, k) \in M <=> heir[k] # None /\ v = heir[k]
  BY DEF Member
<1> HIDE DEF ks, C, M, f, a, g
<1>9. DOMAIN a = Docs /\ \A d \in Docs : a[d] = IF d \in C THEN f[d] ELSE s[d]
  BY <1>2, <1>3, ReplaceIs DEF IsDatabase
<1>10. DOMAIN w = Docs /\ \A d \in Docs : w[d] = IF d \in M THEN "admin" ELSE a[d]
  BY <1>1, <1>4, <1>9, ReplaceIs
<1>11. ASSUME NEW k \in Communities
       PROVE  w[Community(k)] = IF heir[k] = None THEN s[Community(k)]
                                ELSE [s[Community(k)] EXCEPT !.creator = heir[k]]
  <2>1. Community(k) \notin M /\ Community(k) \in Docs /\ Community(k)[2] = k
    BY <1>6, CollectionsDiffer, AllNamesInDocs DEF Community
  <2>2. w[Community(k)] = a[Community(k)]
    BY <1>10, <2>1
  <2>3. CASE heir[k] = None
    BY <1>7, <1>9, <2>1, <2>2, <2>3
  <2>4. CASE heir[k] # None
    <3>1. Community(k) \in C
      BY <1>7, <2>4
    <3>2. f[Community(k)] = [s[Community(k)] EXCEPT !.creator = heir[k]]
      BY <1>3, <2>1, <3>1
    <3>3. w[Community(k)] = f[Community(k)]
      BY <1>9, <2>1, <2>2, <3>1
    <3> QED BY <2>4, <3>2, <3>3
  <2> QED BY <2>3, <2>4
<1>12. \A v \in Users, k \in Communities :
         w[Member(v, k)] = IF heir[k] # None /\ v = heir[k] THEN "admin" ELSE s[Member(v, k)]
  <2>1. \A v \in Users, k \in Communities : Member(v, k) \notin C /\ Member(v, k) \in Docs
    BY <1>5, CollectionsDiffer, AllNamesInDocs DEF Member
  <2> QED BY <1>8, <1>9, <1>10, <2>1
<1>13. \A d \in Docs : d[1] \notin {"community", "member"} => w[d] = s[d]
  BY <1>5, <1>6, <1>9, <1>10, CollectionsDiffer
<1> QED BY <1>10, <1>11, <1>12, <1>13 DEF PassedTo

\* What a community keeps when it gets another creator.
LEMMA CreatorIs ==
    ASSUME NEW r \in CommunityRecord, NEW u \in Users, NEW v, v = [r EXCEPT !.creator = u]
    PROVE  /\ v \in CommunityRecord /\ v.creator = u
           /\ v.members = r.members /\ v.posts = r.posts
BY DEF CommunityRecord

RolesPassed(s, w, heir) ==
    \A k \in Communities :
        /\ Lead(w, k) = IF heir[k] = None THEN Lead(s, k) ELSE heir[k]
        /\ \A v \in Users :
             w[Member(v, k)] = IF heir[k] # None /\ v = heir[k] THEN "admin" ELSE s[Member(v, k)]

\* A community that is passed on, before and after.
Passes(r, q, h) ==
    IF h = None THEN q = r
    ELSE /\ r \in CommunityRecord /\ q \in CommunityRecord
         /\ q.creator = h /\ q.members = r.members /\ q.posts = r.posts

LEMMA PassedPurges ==
    ASSUME NEW s, IsDatabase(s), NEW u \in Users, NEW heir, HeirsFit(s, u, heir),
           NEW w, PassedTo(s, w, heir)
    PROVE  Purges(s, w, {}) /\ RolesPassed(s, w, heir)
<1>1. ASSUME NEW k \in Communities PROVE Passes(s[Community(k)], w[Community(k)], heir[k])
  <2>1. w[Community(k)] = IF heir[k] = None THEN s[Community(k)]
                          ELSE [s[Community(k)] EXCEPT !.creator = heir[k]]
    BY DEF PassedTo
  <2>2. CASE heir[k] = None
    BY <2>1, <2>2 DEF Passes
  <2>3. CASE heir[k] # None
    <3>1. Lead(s, k) = u /\ heir[k] \in Users
      BY <2>3 DEF HeirsFit
    <3>2. Exists(s, Community(k))
      BY <3>1, NoneAssumption DEF Lead
    <3>3. s[Community(k)] \in CommunityRecord
      BY <3>2, DatabaseIs DEF Exists
    <3> DEFINE r == s[Community(k)]
    <3>4. r \in CommunityRecord /\ w[Community(k)] = [r EXCEPT !.creator = heir[k]]
      BY <2>1, <2>3, <3>3
    <3>5. r = s[Community(k)]
      OBVIOUS
    <3> HIDE DEF r
    <3>6. /\ w[Community(k)] \in CommunityRecord /\ w[Community(k)].creator = heir[k]
          /\ w[Community(k)].members = r.members /\ w[Community(k)].posts = r.posts
      BY <3>1, <3>4, CreatorIs
    <3> QED BY <2>3, <3>4, <3>5, <3>6 DEF Passes
  <2> QED BY <2>2, <2>3
<1>2. \A v \in Users, k \in Communities :
        w[Member(v, k)] = IF heir[k] # None /\ v = heir[k] THEN "admin" ELSE s[Member(v, k)]
  BY DEF PassedTo
<1>3. DOMAIN w = Docs /\ \A d \in Docs : d[1] \notin {"community", "member"} => w[d] = s[d]
  BY DEF PassedTo
<1>4. /\ \A v \in Users : w[User(v)] = s[User(v)]
      /\ \A x \in Posts : w[Post(x)] = s[Post(x)]
      /\ \A c \in Comments : w[Comment(c)] = s[Comment(c)]
      /\ \A d \in Relations \cup {Guard} : w[d] = s[d]
  BY <1>3, AllNamesInDocs, NamesDiffer, CollectionsDiffer DEF Docs
<1>5. \A k \in Communities :
        \/ w[Community(k)] = s[Community(k)]
        \/ w[Community(k)] \in CommunityRecord /\ s[Community(k)] \in CommunityRecord
  BY <1>1 DEF Passes
<1>6. IsDatabase(w)
  <2>1. \A k \in Communities : w[Community(k)] \in CommunityRecord \cup {Unborn, Gone}
    BY <1>5, DatabaseIs
  <2>2. \A v \in Users, k \in Communities : w[Member(v, k)] \in Roles
    BY <1>2, DatabaseIs DEF Roles
  <2> QED BY <1>3, <1>4, <2>1, <2>2, DatabaseIs
<1>7. \A d \in OwnerDocs : /\ w[d] = Gone <=> s[d] = Gone
                           /\ w[d] = Unborn <=> s[d] = Unborn
  <2>1. \A d \in OwnerDocs \ CommunityDocs : w[d] = s[d]
    BY <1>4 DEF OwnerDocs, UserDocs, PostDocs, CommentDocs
  <2>2. \A d \in CommunityDocs : /\ w[d] = Gone <=> s[d] = Gone
                                 /\ w[d] = Unborn <=> s[d] = Unborn
    BY <1>5, MissingAssumption DEF CommunityDocs
  <2> QED BY <2>1, <2>2
<1>8. Thins(s, w)
  <2>1. Later(s, w)
    BY <1>4, <1>7 DEF Later
  <2> QED BY <1>4, <1>6, <2>1 DEF Thins, Exists
<1>9. RolesPassed(s, w, heir)
  <2>1. ASSUME NEW k \in Communities
        PROVE  Lead(w, k) = IF heir[k] = None THEN Lead(s, k) ELSE heir[k]
    <3>1. CASE heir[k] = None
      BY <1>1, <3>1 DEF Passes, Lead, Exists
    <3>2. CASE heir[k] # None
      <4>1. w[Community(k)] \in CommunityRecord /\ w[Community(k)].creator = heir[k]
        BY <1>1, <3>2 DEF Passes
      <4>2. Exists(w, Community(k))
        BY <4>1, MissingAssumption DEF Exists
      <4> QED BY <3>2, <4>1, <4>2 DEF Lead
    <3> QED BY <3>1, <3>2
  <2> QED BY <1>2, <2>1 DEF RolesPassed
<1>10. ASSUME NEW t \in Tallies
       PROVE  Shrinks(s, w, t)
  <2>1. Counted(w, t) = Counted(s, t)
    <3>1. CASE SourceKind(t) # "member"
      <4>1. SourceKind(t) # "community"
        BY DEF SourceKind
      <4>2. \A i \in Things(t) : Source(t, i) \in Docs /\ Source(t, i)[1] = SourceKind(t)
        BY KindsAre, TalliesAreAbout
      <4>3. \A i \in Things(t) : w[Source(t, i)] = s[Source(t, i)]
        BY <1>3, <3>1, <4>1, <4>2
      <4> QED BY <4>3 DEF Counted
    <3>2. CASE SourceKind(t) = "member"
      <4>1. PICK k \in Communities : t = <<"members", k>>
        BY <3>2, KindTallies
      <4>2. \A z : Counted(z, t) = {x \in Users : z[Member(x, k)] # "none"}
        BY <4>1, MembersTally DEF MembersOf
      <4>3. \A x \in Users : w[Member(x, k)] # "none" <=> s[Member(x, k)] # "none"
        BY <1>2 DEF HeirsFit
      <4> QED BY <4>2, <4>3
    <3> QED BY <3>1, <3>2
  <2>2. ASSUME Exists(w, Owner(t))
        PROVE  Exists(s, Owner(t)) /\ w[Owner(t)][Field(t)] = s[Owner(t)][Field(t)]
    <3>1. Owner(t) \in OwnerDocs /\ Owner(t)[1] = OwnerKind(t)
      BY TalliesAreAbout, KindsAre
    <3>2. Exists(s, Owner(t))
      BY <1>7, <2>2, <3>1 DEF Exists
    <3>3. CASE OwnerKind(t) # "community"
      <4>1. OwnerKind(t) # "member" /\ Owner(t) \in Docs
        BY <3>1, TalliesAreAbout DEF OwnerKind
      <4>2. w[Owner(t)] = s[Owner(t)]
        BY <1>3, <3>1, <3>3, <4>1
      <4> QED BY <3>2, <4>2
    <3>4. CASE OwnerKind(t) = "community"
      <4>1. PICK k \in Communities : t = <<"posts", k>> \/ t = <<"members", k>>
        <5>1. \/ \E x \in Posts : \/ t = <<"likes", x>>
                                  \/ t = <<"comments", x>>
                                  \/ t = <<"reposts", x>>
              \/ \E c \in Comments : t = <<"commentlikes", c>> \/ t = <<"replies", c>>
              \/ \E v \in Users : t = <<"followers", v>> \/ t = <<"following", v>>
              \/ \E k \in Communities : t = <<"posts", k>> \/ t = <<"members", k>>
          BY EveryTally
        <5> QED BY <3>4, <5>1 DEF OwnerKind
      <4>2. Owner(t) = Community(k) /\ Field(t) \in {"posts", "members"}
        BY <4>1, CommunityPostsTally, MembersTally
      <4>3. Passes(s[Community(k)], w[Community(k)], heir[k])
        BY <1>1
      <4>4. w[Community(k)].posts = s[Community(k)].posts /\ w[Community(k)].members = s[Community(k)].members
        BY <4>3 DEF Passes
      <4>5. w[Owner(t)][Field(t)] = s[Owner(t)][Field(t)]
        <5>1. CASE Field(t) = "posts"
          BY <4>2, <4>4, <5>1
        <5>2. CASE Field(t) = "members"
          BY <4>2, <4>4, <5>2
        <5> QED BY <4>2, <5>1, <5>2
      <4> QED BY <3>2, <4>5
    <3> QED BY <3>3, <3>4
  <2> QED BY <2>1, <2>2, NoneMore
<1> QED BY <1>8, <1>9, <1>10 DEF Purges, Shrinks

\* u leaves the communities of A, the only ones it is in.
LEMMA MembersLeave ==
    ASSUME NEW s, IsDatabase(s), NEW u \in Users, NEW A \in SUBSET Communities,
           \A k \in Communities \ A : s[Member(u, k)] = "none",
           NEW w, w = Replace(s, [d \in {Member(u, k) : k \in Communities} |-> "none"])
    PROVE  /\ Purges(s, w, {<<"members", k>> : k \in A})
           /\ \A k \in Communities :
                /\ Lead(w, k) = Lead(s, k)
                /\ \A v \in Users : w[Member(v, k)] = IF v = u THEN "none" ELSE s[Member(v, k)]
<1> DEFINE M == {Member(u, k) : k \in Communities}
           f == [d \in M |-> "none"]
           K == {<<"members", k>> : k \in A}
<1>1. w = Replace(s, f) /\ DOMAIN f = M /\ \A d \in M : f[d] = "none"
  OBVIOUS
<1>2. M \subseteq MemberDocs
  BY DEF MemberDocs
<1>3. \A v \in Users, k \in Communities : Member(v, k) \in M <=> v = u
  BY DEF Member
<1>4. \A k \in A : <<"members", k>> \in K
  OBVIOUS
<1> HIDE DEF M, f, K
<1>5. DOMAIN w = Docs /\ \A d \in Docs : w[d] = IF d \in M THEN "none" ELSE s[d]
  BY <1>1, ReplaceIs DEF IsDatabase
<1>6. \A d \in Docs : d[1] # "member" => w[d] = s[d]
  BY <1>2, <1>5, CollectionsDiffer
<1>7. /\ \A v \in Users : w[User(v)] = s[User(v)]
      /\ \A x \in Posts : w[Post(x)] = s[Post(x)]
      /\ \A c \in Comments : w[Comment(c)] = s[Comment(c)]
      /\ \A k \in Communities : w[Community(k)] = s[Community(k)]
      /\ \A d \in Relations \cup {Guard} : w[d] = s[d]
  BY <1>6, AllNamesInDocs, NamesDiffer, CollectionsDiffer DEF Docs
<1>8. \A v \in Users, k \in Communities : w[Member(v, k)] = IF v = u THEN "none" ELSE s[Member(v, k)]
  BY <1>3, <1>5, AllNamesInDocs
<1>9. IsDatabase(w)
  BY <1>5, <1>7, <1>8, DatabaseIs DEF Roles
<1>10. \A e \in OwnerDocs : w[e] = s[e]
  BY <1>7 DEF OwnerDocs, UserDocs, PostDocs, CommentDocs, CommunityDocs
<1>11. Thins(s, w)
  <2>1. Later(s, w)
    BY <1>7, <1>10, MissingAssumption DEF Later
  <2> QED BY <1>7, <1>9, <2>1 DEF Thins, Exists
<1>12. ASSUME NEW t \in Tallies
       PROVE  /\ Counted(w, t) \subseteq Counted(s, t)
              /\ t \in K \/ (IsRight(s, t) => IsRight(w, t))
  <2>1. w[Owner(t)] = s[Owner(t)]
    BY <1>10, TalliesAreAbout
  <2>2. CASE SourceKind(t) # "member"
    <3>1. Counted(w, t) = Counted(s, t)
      BY <1>6, <2>2, OtherKind
    <3> QED BY <2>1, <3>1 DEF IsRight, Exists
  <2>3. CASE SourceKind(t) = "member"
    <3>1. PICK k \in Communities : t = <<"members", k>>
      BY <2>3, KindTallies
    <3>2. \A z : Counted(z, t) = {x \in Users : z[Member(x, k)] # "none"}
      BY <3>1, MembersTally DEF MembersOf
    <3>3. Counted(w, t) \subseteq Counted(s, t)
      BY <1>8, <3>2
    <3>4. CASE k \in A
      BY <1>4, <3>1, <3>3, <3>4
    <3>5. CASE k \notin A
      <4>1. s[Member(u, k)] = "none"
        BY <3>5
      <4>2. Counted(w, t) = Counted(s, t)
        BY <1>8, <3>2, <4>1
      <4> QED BY <2>1, <4>2 DEF IsRight, Exists
    <3> QED BY <3>4, <3>5
  <2> QED BY <2>2, <2>3
<1>13. Purges(s, w, K)
  BY <1>11, <1>12 DEF Purges
<1>14. \A k \in Communities : Lead(w, k) = Lead(s, k)
  BY <1>7 DEF Lead, Exists
<1> QED BY <1>8, <1>13, <1>14 DEF K

\* What is left of the roles when the communities of C have ended, heirs have
\* taken over and u has left.
RolesLeft(s, w, u, heir, C) ==
    \A k \in Communities :
        /\ Lead(w, k) = IF k \in C THEN None
                        ELSE IF heir[k] = None THEN Lead(s, k) ELSE heir[k]
        /\ \A v \in Users :
             w[Member(v, k)] = IF k \in C \/ v = u THEN "none"
                               ELSE IF heir[k] # None /\ v = heir[k] THEN "admin"
                               ELSE s[Member(v, k)]

LEMMA RolesLeftKeep ==
    ASSUME NEW s, AdminIsCreator(s), NEW u \in Users, NEW heir, HeirsFit(s, u, heir), NEW C,
           \A k \in Communities : k \in C <=> Lead(s, k) = u /\ heir[k] = None,
           NEW w, RolesLeft(s, w, u, heir, C)
    PROVE  AdminIsCreator(w)
<1>1. ASSUME NEW v \in Users, NEW k \in Communities
      PROVE  w[Member(v, k)] = "admin" <=> Lead(w, k) = v
  <2>1. s[Member(v, k)] = "admin" <=> Lead(s, k) = v
    BY LeadsAre
  <2>2. v # None
    BY NoneAssumption
  <2>3. /\ Lead(w, k) = IF k \in C THEN None
                        ELSE IF heir[k] = None THEN Lead(s, k) ELSE heir[k]
        /\ w[Member(v, k)] = IF k \in C \/ v = u THEN "none"
                             ELSE IF heir[k] # None /\ v = heir[k] THEN "admin"
                             ELSE s[Member(v, k)]
    BY DEF RolesLeft
  <2>4. heir[k] # None => Lead(s, k) = u /\ heir[k] # u
    BY DEF HeirsFit
  <2>5. CASE k \in C
    BY <2>2, <2>3, <2>5
  <2>6. CASE k \notin C /\ heir[k] = None
    <3>1. Lead(s, k) # u
      BY <2>6
    <3> QED BY <2>1, <2>3, <2>6, <3>1
  <2>7. CASE k \notin C /\ heir[k] # None
    BY <2>1, <2>3, <2>4, <2>7
  <2> QED BY <2>5, <2>6, <2>7
<1> QED BY <1>1, LeadsAre

LEMMA WithoutCommunitiesOfPurges ==
    ASSUME NEW s, IsDatabase(s), AnswersStayInPost(s), AdminIsCreator(s), NEW u \in Users,
           NEW heir, HeirsFit(s, u, heir), NEW w, w = WithoutCommunitiesOf(s, u, heir)
    PROVE  Purges(s, w, {}) /\ AdminIsCreator(w)
<1> DEFINE led == {k \in Communities : Exists(s, Community(k)) /\ s[Community(k)].creator = u}
           closed == {k \in led : heir[k] = None}
           i == Inherited(s, u, heir)
           left == WithoutCommunities(i, closed)
           bare == Replace(left, [d \in {Member(u, k) : k \in Communities} |-> "none"])
           A == ({k \in Communities : s[Member(u, k)] # "none"} \cup led) \ closed
           K == {<<"members", k>> : k \in A}
<1>1. w = recountMembers(bare, bare, A)
  BY DEF WithoutCommunitiesOf, recountMembers
<1>2. i = Inherited(s, u, heir)
  OBVIOUS
<1>3. left = WithoutCommunities(i, closed)
  OBVIOUS
<1>4. bare = Replace(left, [d \in {Member(u, k) : k \in Communities} |-> "none"])
  OBVIOUS
<1>5. closed \in SUBSET Communities /\ A \in SUBSET Communities
  OBVIOUS
<1>6. \A k \in Communities : k \in closed <=> Lead(s, k) = u /\ heir[k] = None
  BY NoneAssumption DEF Lead
<1>7. \A k \in Communities : k \notin A => k \in closed \/ s[Member(u, k)] = "none"
  OBVIOUS
<1> HIDE DEF led, closed, i, left, bare, A, K
<1>8. PassedTo(s, i, heir)
  BY <1>2, InheritedIs
<1>9. Purges(s, i, {}) /\ RolesPassed(s, i, heir)
  BY <1>8, PassedPurges
<1>10. IsDatabase(i) /\ AnswersStayInPost(i)
  BY <1>9, ThinsKeeps DEF Purges, Thins
<1>11. Purges(i, left, {}) /\ RolesWithout(i, left, closed)
  BY <1>3, <1>5, <1>10, WithoutCommunitiesPurges
<1>12. IsDatabase(left)
  BY <1>11 DEF Purges, Thins
<1>13. ASSUME NEW k \in Communities \ A PROVE left[Member(u, k)] = "none"
  <2>1. left[Member(u, k)] = IF k \in closed THEN "none" ELSE i[Member(u, k)]
    BY <1>11 DEF RolesWithout
  <2>2. i[Member(u, k)] = IF heir[k] # None /\ u = heir[k] THEN "admin" ELSE s[Member(u, k)]
    BY <1>9 DEF RolesPassed
  <2>3. heir[k] # None => heir[k] # u
    BY DEF HeirsFit
  <2> QED BY <1>7, <2>1, <2>2, <2>3
<1>14. /\ Purges(left, bare, K)
       /\ \A k \in Communities :
            /\ Lead(bare, k) = Lead(left, k)
            /\ \A v \in Users : bare[Member(v, k)] = IF v = u THEN "none" ELSE left[Member(v, k)]
  <2>1. A \in SUBSET Communities /\ \A k \in Communities \ A : left[Member(u, k)] = "none"
    BY <1>5, <1>13
  <2>2. /\ Purges(left, bare, {<<"members", k>> : k \in A})
        /\ \A k \in Communities :
             /\ Lead(bare, k) = Lead(left, k)
             /\ \A v \in Users : bare[Member(v, k)] = IF v = u THEN "none" ELSE left[Member(v, k)]
    BY <1>4, <1>12, <2>1, MembersLeave
  <2> QED BY <2>2 DEF K
<1>15. IsDatabase(bare)
  BY <1>14 DEF Purges, Thins
<1>16. Recounted(bare, w, K)
  BY <1>1, <1>5, <1>15, MembersAreRecounted DEF K
<1>17. Purges(left, w, {}) /\ SameRoles(bare, w)
  <2>1. Purges(left, w, K \ K) /\ SameRoles(bare, w)
    BY <1>14, <1>16, PurgesRecounted
  <2> QED BY <2>1
<1>18. Purges(s, w, {})
  <2>1. Purges(s, left, {} \cup {})
    BY <1>9, <1>11, PurgesTwice
  <2>2. Purges(s, w, ({} \cup {}) \cup {})
    BY <1>17, <2>1, PurgesTwice
  <2> QED BY <2>2
<1>19. RolesLeft(s, w, u, heir, closed)
  <2>1. ASSUME NEW k \in Communities
        PROVE  Lead(w, k) = IF k \in closed THEN None
                            ELSE IF heir[k] = None THEN Lead(s, k) ELSE heir[k]
    <3>1. Lead(w, k) = Lead(left, k)
      BY <1>14, <1>17 DEF SameRoles
    <3>2. Lead(left, k) = IF k \in closed THEN None ELSE Lead(i, k)
      BY <1>11 DEF RolesWithout
    <3>3. Lead(i, k) = IF heir[k] = None THEN Lead(s, k) ELSE heir[k]
      BY <1>9 DEF RolesPassed
    <3> QED BY <3>1, <3>2, <3>3
  <2>2. ASSUME NEW k \in Communities, NEW v \in Users
        PROVE  w[Member(v, k)] = IF k \in closed \/ v = u THEN "none"
                                 ELSE IF heir[k] # None /\ v = heir[k] THEN "admin"
                                 ELSE s[Member(v, k)]
    <3>1. w[Member(v, k)] = IF v = u THEN "none" ELSE left[Member(v, k)]
      BY <1>14, <1>17 DEF SameRoles
    <3>2. left[Member(v, k)] = IF k \in closed THEN "none" ELSE i[Member(v, k)]
      BY <1>11 DEF RolesWithout
    <3>3. i[Member(v, k)] = IF heir[k] # None /\ v = heir[k] THEN "admin" ELSE s[Member(v, k)]
      BY <1>9 DEF RolesPassed
    <3> QED BY <3>1, <3>2, <3>3
  <2> QED BY <2>1, <2>2 DEF RolesLeft
<1> QED BY <1>6, <1>18, <1>19, RolesLeftKeep

-----------------------------------------------------------------------------
(* The record of the account goes last.                                    *)

\* The shell of an account, or nothing.
Hollow(r, v) ==
    v = Gone \/ (r \in Account /\ v \in Account /\ v.followers = 0 /\ v.following = 0)

LEMMA ShellIsEmpty ==
    ASSUME NEW r \in Account,
           NEW v, v = [r EXCEPT !.isBanned = TRUE, !.followers = 0, !.following = 0,
                                !.posts = 0, !.joined = {}]
    PROVE  Hollow(r, v)
<1>1. v \in Account
  BY ShellIsAccount
<1>2. v.followers = 0 /\ v.following = 0
  <2> DEFINE r1 == [r EXCEPT !.isBanned = TRUE]
             r2 == [r1 EXCEPT !.followers = 0]
             r3 == [r2 EXCEPT !.following = 0]
             r4 == [r3 EXCEPT !.posts = 0]
  <2>1. v = [r4 EXCEPT !.joined = {}]
    OBVIOUS
  <2>2. r1 \in Account
    BY DEF Account
  <2> HIDE DEF r1
  <2>3. r2 \in Account /\ r2.followers = 0
    BY <2>2 DEF Account
  <2> HIDE DEF r2
  <2>4. r3 \in Account /\ r3.followers = 0 /\ r3.following = 0
    BY <2>3 DEF Account
  <2> HIDE DEF r3
  <2>5. r4 \in Account /\ r4.followers = 0 /\ r4.following = 0
    BY <2>4 DEF Account
  <2> HIDE DEF r4
  <2> QED BY <2>1, <2>5 DEF Account
<1> QED BY <1>1, <1>2 DEF Hollow

LEMMA FinalizedIs ==
    ASSUME NEW s, IsDatabase(s), NEW u \in Users, Exists(s, User(u)), NEW action,
           NEW w, w = Finalized(s, u, action)
    PROVE  /\ Written(s, w, User(u), w[User(u)])
           /\ Hollow(s[User(u)], w[User(u)])
<1> DEFINE r == s[User(u)]
           shell == [r EXCEPT !.isBanned = TRUE, !.followers = 0, !.following = 0,
                              !.posts = 0, !.joined = {}]
           v == IF action = "ban" THEN shell ELSE Gone
<1>1. w = [s EXCEPT ![User(u)] = v]
  BY DEF Finalized
<1>2. r = s[User(u)] /\ r \in Account
  BY DatabaseIs DEF Exists
<1>3. v = shell \/ v = Gone
  OBVIOUS
<1>4. Hollow(r, v)
  <2> HIDE DEF v, r
  <2>1. Hollow(r, shell)
    BY <1>2, ShellIsEmpty
  <2> HIDE DEF shell
  <2> QED BY <1>3, <2>1 DEF Hollow
<1> HIDE DEF v, r
<1>5. Written(s, w, User(u), v)
  BY <1>1 DEF Written, IsDatabase
<1>6. w[User(u)] = v
  BY <1>5, AllNamesInDocs DEF Written
<1> QED BY <1>2, <1>4, <1>5, <1>6

\* Nobody follows u any more, and u nobody, when its record becomes v.
Purged(s, c, u) ==
    LET p == <<"followers", u>>
        q == <<"following", u>> IN
    /\ Purges(s, c, {p, q})
    /\ Counted(c, p) = {}
    /\ Counted(c, q) = {}
    /\ AdminIsCreator(c)

LEMMA RecordPurgedFits ==
    ASSUME NEW s, Consistent(s), NEW u \in Users, Exists(s, User(u)), NEW c, Purged(s, c, u),
           NEW v, NEW w, Written(c, w, User(u), v), Hollow(c[User(u)], v)
    PROVE  Fits(s, w)
<1> DEFINE p == <<"followers", u>>
           q == <<"following", u>>
<1>1. Purges(s, c, {p, q}) /\ Counted(c, p) = {} /\ Counted(c, q) = {} /\ AdminIsCreator(c)
  BY DEF Purged
<1>2. /\ p \in Tallies /\ q \in Tallies /\ Owner(p) = User(u) /\ Owner(q) = User(u)
      /\ Field(p) = "followers" /\ Field(q) = "following"
  BY FollowersTally, FollowingTally
<1>3. \A t \in Tallies : Owner(t) = User(u) => t = p \/ t = q
  <2>1. \A t \in Tallies : Owner(t) = User(u) => OwnerKind(t) = "user" /\ t[2] = u
    BY KindsAre, NamesDiffer
  <2>2. \A t \in Tallies : OwnerKind(t) = "user" =>
            \E x \in Users : t = <<"followers", x>> \/ t = <<"following", x>>
    BY EveryTally DEF OwnerKind
  <2> QED BY <2>1, <2>2
<1> HIDE DEF p, q
<1>4. IsDatabase(c) /\ Later(s, c) /\ Exists(c, User(u)) /\ Thins(s, c)
  BY <1>1 DEF Purges, Thins
<1>5. AnswersStayInPost(c) /\ PostsAreSound(c)
  BY <1>4, ThinsKeeps DEF Consistent
<1>6. DOMAIN w = Docs /\ \A e \in Docs : w[e] = IF e = User(u) THEN v ELSE c[e]
  BY DEF Written
<1>7. User(u) \in Docs /\ User(u) \in OwnerDocs
  BY AllNamesInDocs
<1>8. \A e \in Docs : e[1] # "user" => w[e] = c[e]
  BY <1>6, NamesDiffer
<1>9. v \in Account \cup {Gone}
  BY DEF Hollow
<1>10. /\ \A x \in Users : w[User(x)] = IF x = u THEN v ELSE c[User(x)]
       /\ \A x \in Posts : w[Post(x)] = c[Post(x)]
       /\ \A x \in Comments : w[Comment(x)] = c[Comment(x)]
       /\ \A k \in Communities : w[Community(k)] = c[Community(k)]
       /\ \A x \in Users, k \in Communities : w[Member(x, k)] = c[Member(x, k)]
       /\ \A d \in Relations \cup {Guard} : w[d] = c[d]
  <2>1. \A x \in Users : User(x) = User(u) => x = u
    BY NamesDiffer
  <2>2. \A x \in Users : w[User(x)] = IF x = u THEN v ELSE c[User(x)]
    BY <1>6, <2>1, AllNamesInDocs
  <2>3. \A d \in Relations \cup {Guard} : d \in Docs /\ d[1] # "user"
    BY CollectionsDiffer, NamesDiffer DEF Docs
  <2> QED BY <1>8, <2>2, <2>3, AllNamesInDocs, NamesDiffer
<1>11. IsDatabase(w)
  BY <1>4, <1>6, <1>9, <1>10, DatabaseIs
<1>12. Later(s, w)
  <2>1. ASSUME NEW d \in OwnerDocs
        PROVE  (s[d] = Gone => w[d] = Gone) /\ (w[d] = Unborn => s[d] = Unborn)
    <3>1. CASE d = User(u)
      <4>1. s[d] # Gone
        BY <3>1 DEF Exists
      <4>2. w[d] # Unborn
        BY <1>6, <1>7, <1>9, <3>1, MissingAssumption
      <4> QED BY <4>1, <4>2
    <3>2. CASE d # User(u)
      <4>1. w[d] = c[d]
        BY <1>6, <3>2, AllNamesInDocs
      <4> QED BY <1>4, <4>1 DEF Later
    <3> QED BY <3>1, <3>2
  <2> QED BY <1>4, <1>10, <2>1 DEF Later, Exists
<1>13. AnswersStayInPost(w)
  BY <1>5, <1>10 DEF AnswersStayInPost, Exists
<1>14. PostsAreSound(w)
  <2>1. ASSUME NEW x \in Posts, Exists(w, Post(x))
        PROVE  /\ w[Post(x)].of # None => w[Post(x)].status = "active"
               /\ w[Post(x)].community # None => WasFound(w, Community(w[Post(x)].community))
    <3>1. Exists(c, Post(x)) /\ w[Post(x)] = c[Post(x)]
      BY <1>10, <2>1 DEF Exists
    <3>2. w[Post(x)] \in PostRecord
      BY <1>11, <2>1, DatabaseIs DEF Exists
    <3>3. w[Post(x)].community \in Communities \cup {None}
      BY <3>2 DEF PostRecord
    <3>4. /\ c[Post(x)].of # None => c[Post(x)].status = "active"
          /\ c[Post(x)].community # None => WasFound(c, Community(c[Post(x)].community))
      BY <1>5, <3>1 DEF PostsAreSound
    <3> QED BY <1>10, <3>1, <3>3, <3>4 DEF WasFound
  <2> QED BY <2>1 DEF PostsAreSound
<1>15. AdminIsCreator(w)
  <2>1. SameRoles(c, w)
    BY <1>10 DEF SameRoles, Lead, Exists
  <2> QED BY <1>1, <2>1, SameRolesKeep
<1>16. ASSUME NEW t \in Tallies PROVE Shrinks(s, w, t)
  <2>1. SourceKind(t) # "user"
    BY DEF SourceKind
  <2>2. Counted(w, t) = Counted(c, t)
    BY <1>8, <2>1, OtherKind
  <2>3. Counted(w, t) \subseteq Counted(s, t)
    BY <1>1, <2>2 DEF Purges
  <2>4. CASE Owner(t) # User(u)
    <3>1. t \notin {p, q}
      BY <1>2, <2>4
    <3>2. IsRight(s, t) => IsRight(c, t)
      BY <1>1, <3>1 DEF Purges
    <3>3. w[Owner(t)] = c[Owner(t)]
      BY <1>6, <2>4, TalliesAreAbout
    <3>4. IsRight(c, t) => IsRight(w, t)
      BY <2>2, <3>3 DEF IsRight, Exists
    <3> QED BY <2>3, <3>2, <3>4 DEF Shrinks
  <2>5. CASE Owner(t) = User(u)
    <3>1. Counted(w, t) = {} /\ Field(t) \in {"followers", "following"}
      BY <1>1, <1>2, <1>3, <2>2, <2>5
    <3>2. w[Owner(t)] = v
      BY <1>6, <1>7, <2>5
    <3>3. Exists(w, Owner(t)) => v.followers = 0 /\ v.following = 0
      BY <3>2 DEF Exists, Hollow
    <3>4. Exists(w, Owner(t)) => w[Owner(t)][Field(t)] = 0
      BY <3>1, <3>2, <3>3
    <3>5. IsRight(w, t)
      BY <3>1, <3>4, FS_EmptySet DEF IsRight
    <3> QED BY <2>3, <3>5 DEF Shrinks
  <2> QED BY <2>4, <2>5
<1> QED BY <1>11, <1>12, <1>13, <1>14, <1>15, <1>16, FitsIs

LEMMA purgeUserFits ==
    ASSUME NEW s, Consistent(s), NEW u \in Users, Exists(s, User(u)), NEW action,
           NEW heir, IsHeritage(s, u, heir)
    PROVE  Fits(s, purgeUser(s, u, action, heir))
<1> DEFINE a == WithoutContent(s, u)
           b == WithoutRelationships(a, u)
           c == WithoutCommunitiesOf(b, u, heir)
           w == Finalized(c, u, action)
           p == <<"followers", u>>
           q == <<"following", u>>
<1>1. purgeUser(s, u, action, heir) = w
  BY DEF purgeUser
<1>2. a = WithoutContent(s, u) /\ b = WithoutRelationships(a, u)
      /\ c = WithoutCommunitiesOf(b, u, heir) /\ w = Finalized(c, u, action)
      /\ p = <<"followers", u>> /\ q = <<"following", u>>
  OBVIOUS
<1> HIDE DEF a, b, c, w, p, q
<1>3. Purges(s, a, {}) /\ SameRoles(s, a)
  BY <1>2, WithoutContentPurges DEF Consistent
<1>4. IsDatabase(a) /\ AnswersStayInPost(a)
  BY <1>3, ThinsKeeps DEF Purges, Thins, Consistent
<1>5. /\ Purges(a, b, {p, q}) /\ SameRoles(a, b)
      /\ Counted(b, p) = {} /\ Counted(b, q) = {}
  BY <1>2, <1>4, WithoutRelationshipsPurges
<1>6. IsDatabase(b) /\ AnswersStayInPost(b)
  BY <1>4, <1>5, ThinsKeeps DEF Purges, Thins
<1>7. SameRoles(s, b) /\ AdminIsCreator(b)
  BY <1>3, <1>5, SameRolesTwice, SameRolesKeep DEF Consistent
<1>8. HeirsFit(b, u, heir)
  BY <1>7, HeirsAre
<1>9. Purges(b, c, {}) /\ AdminIsCreator(c)
  BY <1>2, <1>6, <1>7, <1>8, WithoutCommunitiesOfPurges
<1>10. Purges(s, c, {p, q})
  <2>1. Purges(s, b, {} \cup {p, q})
    BY <1>3, <1>5, PurgesTwice
  <2>2. Purges(s, c, ({} \cup {p, q}) \cup {})
    BY <1>9, <2>1, PurgesTwice
  <2>3. ({} \cup {p, q}) \cup {} = {p, q}
    OBVIOUS
  <2> QED BY <2>2, <2>3
<1>11. Counted(c, p) = {} /\ Counted(c, q) = {}
  <2>1. p \in Tallies /\ q \in Tallies
    BY <1>2, FollowersTally, FollowingTally
  <2> QED BY <1>5, <1>9, <2>1 DEF Purges
<1>12. IsDatabase(c) /\ Exists(c, User(u))
  BY <1>10 DEF Purges, Thins
<1>13. Purged(s, c, u)
  BY <1>2, <1>9, <1>10, <1>11 DEF Purged
<1>14. /\ Written(c, w, User(u), w[User(u)])
       /\ Hollow(c[User(u)], w[User(u)])
  BY <1>2, <1>12, FinalizedIs
<1> QED BY <1>1, <1>13, <1>14, RecordPurgedFits

-----------------------------------------------------------------------------
(* Every step keeps the counters right.                                    *)

\* A commit that fits.
Fitting(p) == \E w, touched : Commit(p, w, touched) /\ Fits(snap[p], w)

LEMMA EngagementFits ==
    ASSUME NEW p, Consistent(snap[p]), EngagementStep(p)
    PROVE  Fitting(p)
<1>1. ASSUME NEW u \in Users, NEW x \in Posts, LikePost(p, u, x) PROVE Fitting(p)
  BY <1>1, ToggledFits DEF LikePost, WasFound, Fitting
<1>2. ASSUME NEW u \in Users, NEW c \in Comments, LikeComment(p, u, c) PROVE Fitting(p)
  BY <1>2, CommentLikedFits DEF LikeComment, WasFound, Fitting
<1>3. ASSUME NEW u \in Users, NEW v \in Users, NEW should \in BOOLEAN,
             SetFollowState(p, u, v, should)
      PROVE  Fitting(p)
  <2>1. /\ u # v /\ snap[p][User(u)] # Unborn /\ snap[p][User(v)] # Unborn
        /\ snap[p][Follow(u, v)] # should
        /\ Commit(p, Followed(snap[p], u, v, IF should THEN 1 ELSE -1), {})
    BY <1>3 DEF SetFollowState, WasFound
  <2> QED BY <2>1, FollowedFits DEF Fitting
<1>4. ASSUME NEW c \in Comments, NEW x \in Posts, NEW b \in Comments \cup {None}, NEW u \in Users,
             CreateComment(p, u, c, x, b)
      PROVE  Fitting(p)
  <2>1. snap[p][Post(x)] # Unborn
    <3>1. CASE b = None
      BY <1>4, <3>1 DEF CreateComment, WasFound
    <3> QED BY <1>4 DEF CreateComment, WasFound
  <2>2. /\ snap[p][Comment(c)] = Unborn
        /\ b # None => /\ snap[p][Comment(b)] # Unborn
                       /\ Exists(snap[p], Comment(b)) => snap[p][Comment(b)].post = x
        /\ Commit(p, Commented(snap[p], u, c, x, b), {})
    BY <1>4 DEF CreateComment, WasFound
  <2>3. Fits(snap[p], Commented(snap[p], u, c, x, b))
    BY <2>1, <2>2, CommentedFits
  <2> QED BY <2>2, <2>3 DEF Fitting
<1>5. ASSUME NEW c \in Comments, DeleteComment(p, c) PROVE Fitting(p)
  BY <1>5, WithoutCommentFits DEF DeleteComment, Fitting
<1> QED BY <1>1, <1>2, <1>3, <1>4, <1>5 DEF EngagementStep

LEMMA PublishingFits ==
    ASSUME NEW p, Consistent(snap[p]), PublishingStep(p)
    PROVE  Fitting(p)
<1>1. ASSUME NEW u \in Users, NEW y \in Posts, NEW k \in Communities \cup {None},
             CreatePendingPost(p, u, y, k)
      PROVE  Fitting(p)
  <2>1. /\ k # None => WasFound(snap[p], Community(k))
        /\ snap[p][Post(y)] = Unborn
        /\ Commit(p, [snap[p] EXCEPT ![Post(y)] = NewPost(u, None, k, "pending")], {})
    BY <1>1 DEF CreatePendingPost
  <2> QED BY <2>1, CreatedFits DEF Fitting
<1>2. ASSUME NEW u \in Users, NEW y \in Posts, NEW x \in Posts, RepostPost(p, u, y, x)
      PROVE  Fitting(p)
  <2> DEFINE created == [snap[p] EXCEPT ![Post(y)] = NewPost(u, x, None, "active")]
             w == Increment(Increment(created, Post(x), "reposts", 1), User(u), "posts", 1)
  <2>1. /\ x # y /\ WasFound(snap[p], Post(x)) /\ snap[p][Post(y)] = Unborn
        /\ Commit(p, w, {RepostKey(u, x)})
    BY <1>2 DEF RepostPost
  <2>2. Fits(snap[p], w)
    BY <2>1, RepostedFits
  <2> HIDE DEF w
  <2> QED BY <2>1, <2>2 DEF Fitting
<1>3. ASSUME NEW y \in Posts, UnrepostPost(p, y) \/ DeletePost(p, y) PROVE Fitting(p)
  BY <1>3, deletePostGraphFits DEF UnrepostPost, DeletePost, Fitting
<1>4. ASSUME NEW y \in Posts, ActivatePendingPost(p, y) PROVE Fitting(p)
  BY <1>4, ActivatedFits DEF ActivatePendingPost, Fitting
<1>5. ASSUME NEW y \in Posts, MarkPendingPostFailed(p, y) PROVE Fitting(p)
  BY <1>5, FailedFits DEF MarkPendingPostFailed, Fitting
<1> QED BY <1>1, <1>2, <1>3, <1>4, <1>5 DEF PublishingStep, RequestEnds

LEMMA CommunityFits ==
    ASSUME NEW p, Consistent(snap[p]), CommunityStep(p)
    PROVE  Fitting(p)
<1>1. ASSUME NEW u \in Users, NEW k \in Communities, CreateCommunity(p, u, k) PROVE Fitting(p)
  <2> DEFINE w == Joined([snap[p] EXCEPT
                      ![Community(k)] = [creator |-> u, members |-> 1, posts |-> 0],
                      ![Member(u, k)] = "admin"], u, k)
  <2>1. snap[p][Community(k)] = Unborn /\ Commit(p, w, {})
    BY <1>1 DEF CreateCommunity
  <2>2. Fits(snap[p], w)
    BY <2>1, CommunityCreatedFits
  <2> HIDE DEF w
  <2> QED BY <2>1, <2>2 DEF Fitting
<1>2. ASSUME NEW u \in Users, NEW k \in Communities, JoinCommunity(p, u, k) PROVE Fitting(p)
  BY <1>2, AddedFits DEF JoinCommunity, Fitting
<1>3. ASSUME NEW u \in Users, NEW k \in Communities, LeaveCommunity(p, u, k) PROVE Fitting(p)
  <2>1. /\ WasFound(snap[p], Community(k)) /\ MayLeave(snap[p], u, k)
        /\ Commit(p, Dismissed(snap[p], u, k), {})
    BY <1>3 DEF LeaveCommunity
  <2>2. snap[p][Member(u, k)] = "member"
    BY <2>1, LeaverIsMember
  <2> QED BY <2>1, <2>2, DismissedFits DEF Fitting
<1>4. ASSUME NEW u \in Users, NEW k \in Communities, KickMember(p, u, k) PROVE Fitting(p)
  BY <1>4, DismissedFits DEF KickMember, Fitting
<1>5. ASSUME NEW k \in Communities, DeleteCommunity(p, k) PROVE Fitting(p)
  <2>1. Commit(p, WithoutCommunities(snap[p], {k}), {}) /\ {k} \in SUBSET Communities
    BY <1>5 DEF DeleteCommunity
  <2>2. Fits(snap[p], WithoutCommunities(snap[p], {k}))
    BY <2>1, WithoutCommunitiesFits
  <2> QED BY <2>1, <2>2 DEF Fitting
<1> QED BY <1>1, <1>2, <1>3, <1>4, <1>5 DEF CommunityStep

LEMMA AccountFits ==
    ASSUME NEW p, Consistent(snap[p]), AccountStep(p)
    PROVE  Fitting(p)
<1>1. ASSUME NEW u \in Users, NEW action, Purge(p, u, action) PROVE Fitting(p)
  <2>1. Exists(snap[p], User(u))
    BY <1>1 DEF Purge
  <2>2. PICK heir : \E touched : /\ IsHeritage(snap[p], u, heir)
                                 /\ Commit(p, purgeUser(snap[p], u, action, heir), touched)
    BY <1>1 DEF Purge
  <2>3. Fits(snap[p], purgeUser(snap[p], u, action, heir))
    BY <2>1, <2>2, purgeUserFits
  <2> QED BY <2>2, <2>3 DEF Fitting
<1>2. ASSUME NEW u \in Users, DemoteFromAdmin(p, u) PROVE Fitting(p)
  <2> DEFINE s == snap[p]
             r == s[User(u)]
             v == [r EXCEPT !.isAdmin = FALSE]
             w == [s EXCEPT ![User(u)] = v]
  <2>1. Exists(s, User(u)) /\ Commit(p, w, touch)
    BY <1>2 DEF DemoteFromAdmin
  <2>2. r \in Account /\ r = s[User(u)] /\ IsDatabase(s)
    BY <2>1, DatabaseIs DEF Exists, Consistent
  <2>3. Written(s, w, User(u), v)
    BY <2>2 DEF Written, IsDatabase
  <2> HIDE DEF r
  <2>4. v \in Account /\ v.followers = r.followers /\ v.following = r.following
    BY <2>2 DEF Account
  <2> HIDE DEF v, w
  <2>5. Fits(s, w)
    BY <2>2, <2>3, <2>4, FlagsFit
  <2> QED BY <2>1, <2>5 DEF Fitting
<1> QED BY <1>1, <1>2 DEF AccountStep, BanUser, DeleteUser

LEMMA ViewFits ==
    ASSUME NEW p, Consistent(snap[p]), ViewStep(p)
    PROVE  Fitting(p)
<1>1. PICK u \in Users, x \in Posts : Commit(p, Seen(snap[p], u, x), {})
  BY DEF ViewStep, RecordPostView
<1> QED BY <1>1, SeenFits DEF Fitting

LEMMA BeginCounts ==
    ASSUME SocialInv, CountersInv, NEW p \in Txns, Begin(p)
    PROVE  CountersInv'
<1>1. /\ db' = db
      /\ snap' = [snap EXCEPT ![p] = db]
      /\ missed' = [missed EXCEPT ![p] = {}]
  BY DEF Begin
<1>2. DOMAIN snap = Txns /\ DOMAIN missed = Txns
  BY DEF SocialInv, TypedStores, CountersInv
<1>3. Consistent(db') /\ DOMAIN missed' = Txns
  BY <1>1, <1>2 DEF CountersInv
<1>4. ASSUME NEW q \in Txns, snap'[q] # None
      PROVE  Consistent(snap'[q]) /\ Later(snap'[q], db') /\ SameCounts(q)'
  <2>1. CASE q = p
    <3>1. snap'[q] = db /\ db' = db
      BY <1>1, <1>2, <2>1
    <3>2. Later(db, db)
      BY DEF Later
    <3>3. SameCounts(q)'
      BY <3>1 DEF SameCounts
    <3> QED BY <1>3, <3>1, <3>2, <3>3
  <2>2. CASE q # p
    <3>1. snap'[q] = snap[q] /\ missed'[q] = missed[q] /\ db' = db
      BY <1>1, <1>2, <2>2
    <3>2. Consistent(snap[q]) /\ Later(snap[q], db) /\ SameCounts(q)
      BY <1>4, <3>1 DEF CountersInv
    <3>3. SameCounts(q)'
      BY <3>1, <3>2 DEF SameCounts
    <3> QED BY <3>1, <3>2, <3>3
  <2> QED BY <2>1, <2>2
<1> QED BY <1>3, <1>4 DEF CountersInv

LEMMA AbortCounts ==
    ASSUME SocialInv, CountersInv, NEW p \in Txns, Abort(p)
    PROVE  CountersInv'
<1>1. /\ db' = db
      /\ snap' = [snap EXCEPT ![p] = None]
      /\ missed' = [missed EXCEPT ![p] = {}]
  BY DEF Abort
<1>2. DOMAIN snap = Txns /\ DOMAIN missed = Txns
  BY DEF SocialInv, TypedStores, CountersInv
<1>3. Consistent(db') /\ DOMAIN missed' = Txns
  BY <1>1, <1>2 DEF CountersInv
<1>4. ASSUME NEW q \in Txns, snap'[q] # None
      PROVE  Consistent(snap'[q]) /\ Later(snap'[q], db') /\ SameCounts(q)'
  <2>1. q # p
    BY <1>1, <1>2, <1>4
  <2>2. snap'[q] = snap[q] /\ missed'[q] = missed[q] /\ db' = db
    BY <1>1, <1>2, <2>1
  <2>3. Consistent(snap[q]) /\ Later(snap[q], db) /\ SameCounts(q)
    BY <1>4, <2>2 DEF CountersInv
  <2>4. SameCounts(q)'
    BY <2>2, <2>3 DEF SameCounts
  <2> QED BY <2>2, <2>3, <2>4
<1> QED BY <1>3, <1>4 DEF CountersInv

\* Promotions and pardons, outside of transactions.
LEMMA SingleUpdateCounts ==
    ASSUME SocialInv, CountersInv, NEW u \in Users, SingleUpdate(u)
    PROVE  CountersInv'
<1> DEFINE r == db[User(u)]
<1>1. r = db[User(u)] /\ IsDatabase(db)
  BY DEF CountersInv, Consistent
<1>2. Exists(db, User(u))
  BY DEF SingleUpdate, PromoteToAdmin, UnbanUser
<1>3. r \in Account
  BY <1>1, <1>2, DatabaseIs DEF Exists
<1>4. \/ WriteAlone(User(u), [r EXCEPT !.isAdmin = TRUE])
      \/ WriteAlone(User(u), [r EXCEPT !.isBanned = FALSE])
  BY DEF SingleUpdate, PromoteToAdmin, UnbanUser
<1> HIDE DEF r
<1>5. PICK v : /\ WriteAlone(User(u), v)
               /\ v \in Account /\ v.followers = r.followers /\ v.following = r.following
  <2>1. CASE WriteAlone(User(u), [r EXCEPT !.isAdmin = TRUE])
    <3> DEFINE v == [r EXCEPT !.isAdmin = TRUE]
    <3>1. v \in Account /\ v.followers = r.followers /\ v.following = r.following
      BY <1>3 DEF Account
    <3>2. WriteAlone(User(u), v)
      BY <2>1
    <3> HIDE DEF v
    <3> QED BY <3>1, <3>2
  <2>2. CASE WriteAlone(User(u), [r EXCEPT !.isBanned = FALSE])
    <3> DEFINE v == [r EXCEPT !.isBanned = FALSE]
    <3>1. v \in Account /\ v.followers = r.followers /\ v.following = r.following
      BY <1>3 DEF Account
    <3>2. WriteAlone(User(u), v)
      BY <2>2
    <3> HIDE DEF v
    <3> QED BY <3>1, <3>2
  <2> QED BY <1>4, <2>1, <2>2
<1>6. Written(db, db', User(u), v)
  BY <1>1, <1>5 DEF WriteAlone, Written, IsDatabase
<1>7. Fits(db, db')
  BY <1>1, <1>3, <1>5, <1>6, FlagsFit DEF CountersInv
<1>8. /\ snap' = snap
      /\ \A q \in Txns : snap[q] # None => missed[q] \subseteq missed'[q]
  BY <1>5 DEF WriteAlone
<1>9. ASSUME NEW t \in Tallies PROVE Counted(db', t) = Counted(db, t)
  <2>1. \A d \in Docs : d[1] # "user" => db'[d] = db[d]
    BY <1>6, NamesDiffer DEF Written
  <2>2. SourceKind(t) # "user"
    BY DEF SourceKind
  <2> QED BY <2>1, <2>2, OtherKind
<1>10. ASSUME NEW q \in Txns, snap'[q] # None
       PROVE  Consistent(snap'[q]) /\ Later(snap'[q], db') /\ SameCounts(q)'
  <2>1. Consistent(snap[q]) /\ Later(snap[q], db) /\ SameCounts(q)
    BY <1>8, <1>10 DEF CountersInv
  <2>2. Later(snap[q], db')
    BY <1>7, <2>1, LaterTwice DEF Fits
  <2>3. ASSUME NEW t \in Tallies, Exists(db', Owner(t)), Owner(t) \notin missed'[q]
        PROVE  Counted(snap[q], t) = Counted(db', t)
    <3>1. Owner(t) \notin missed[q]
      BY <1>8, <1>10, <2>3
    <3>2. Exists(db, Owner(t))
      <4>1. CASE Owner(t) = User(u)
        BY <1>2, <4>1
      <4>2. CASE Owner(t) # User(u)
        <5>1. db'[Owner(t)] = db[Owner(t)]
          BY <1>6, <4>2, TalliesAreAbout DEF Written
        <5> QED BY <2>3, <5>1 DEF Exists
      <4> QED BY <4>1, <4>2
    <3> QED BY <1>9, <2>1, <3>1, <3>2 DEF SameCounts
  <2>4. SameCounts(q)'
    BY <1>8, <2>3 DEF SameCounts
  <2> QED BY <1>8, <2>1, <2>2, <2>4
<1>11. Consistent(db') /\ DOMAIN missed' = Txns
  BY <1>5, <1>7 DEF Fits, WriteAlone
<1> QED BY <1>10, <1>11 DEF CountersInv

LEMMA NextCounts ==
    ASSUME SocialInv, CountersInv, [Next]_vars
    PROVE  CountersInv'
<1>1. ASSUME NEW p \in Txns, Fitting(p) PROVE CountersInv'
  BY <1>1, CommitFits DEF Fitting
<1>2. ASSUME UNCHANGED stores PROVE CountersInv'
  BY <1>2 DEF stores, CountersInv, SameCounts
<1>3. ASSUME NEW p \in Txns, TransactionStep(p) PROVE CountersInv'
  <2>1. ASSUME snap[p] # None PROVE Consistent(snap[p])
    BY <2>1 DEF CountersInv
  <2>2. CASE Begin(p)
    BY <2>2, BeginCounts
  <2>3. CASE Abort(p)
    BY <2>3, AbortCounts
  <2>4. CASE EngagementStep(p)
    <3>1. snap[p] # None
      BY <2>4 DEF EngagementStep, LikePost, LikeComment, SetFollowState, CreateComment, DeleteComment
    <3> QED BY <1>1, <2>1, <2>4, <3>1, EngagementFits
  <2>5. CASE PublishingStep(p)
    <3>1. snap[p] # None
      BY <2>5 DEF PublishingStep, CreatePendingPost, RepostPost, UnrepostPost, DeletePost,
         RequestEnds, ActivatePendingPost, MarkPendingPostFailed
    <3> QED BY <1>1, <2>1, <2>5, <3>1, PublishingFits
  <2>6. CASE CommunityStep(p)
    <3>1. snap[p] # None
      BY <2>6 DEF CommunityStep, CreateCommunity, JoinCommunity, LeaveCommunity, KickMember,
         DeleteCommunity
    <3> QED BY <1>1, <2>1, <2>6, <3>1, CommunityFits
  <2>7. CASE AccountStep(p)
    <3>1. snap[p] # None
      BY <2>7 DEF AccountStep, BanUser, DeleteUser, DemoteFromAdmin
    <3> QED BY <1>1, <2>1, <2>7, <3>1, AccountFits
  <2> QED BY <1>3, <2>2, <2>3, <2>4, <2>5, <2>6, <2>7 DEF TransactionStep
<1>4. ASSUME NEW p \in Txns, ViewStep(p) PROVE CountersInv'
  <2>1. snap[p] # None
    BY <1>4 DEF ViewStep, RecordPostView
  <2>2. Consistent(snap[p])
    BY <2>1 DEF CountersInv
  <2> QED BY <1>1, <1>4, <2>2, ViewFits
<1>5. CASE Next
  BY <1>2, <1>3, <1>4, <1>5, SingleUpdateCounts DEF Next
<1>6. CASE UNCHANGED vars
  BY <1>2, <1>6 DEF vars, stores
<1> QED BY <1>5, <1>6

LEMMA InitCounts == Init => CountersInv
<1> SUFFICES ASSUME Init PROVE CountersInv
  OBVIOUS
<1>1. db \in Starts /\ snap = [p \in Txns |-> None] /\ missed = [p \in Txns |-> {}]
  BY DEF Init
<1>2. Consistent(db)
  BY <1>1, StartsAssumption, WhatConsistentIs
<1>3. DOMAIN missed = Txns /\ \A p \in Txns : snap[p] = None
  BY <1>1
<1> QED BY <1>2, <1>3 DEF CountersInv

THEOREM CountersHold == Spec => []CountersInv
<1>1. Init => CountersInv
  BY InitCounts
<1>2. SocialInv /\ CountersInv /\ [Next]_vars => CountersInv'
  BY NextCounts
<1> QED BY <1>1, <1>2, InvariantHolds, PTL DEF Spec

\* Likes, follows, comments, posts, memberships and the removal of any of them
\* overlap, run twice and fail, and accounts with all their traces end: every
\* counter remains the number of documents it stands for.
THEOREM CountersStayTrue == Spec => []CountersAreTrue
<1>1. CountersInv => CountersAreTrue
  BY WhatConsistentIs DEF CountersInv, CountersAreTrue
<1> QED BY <1>1, CountersHold, PTL

LEMMA CreatorsLead ==
    ASSUME CountersInv
    PROVE  CommunityIsLed
<1>1. IsDatabase(db) /\ AdminIsCreator(db)
  BY DEF CountersInv, Consistent
<1>2. ASSUME NEW k \in Communities, Exists(db, Community(k))
      PROVE  db[Member(db[Community(k)].creator, k)] = "admin"
  <2>1. db[Community(k)] \in CommunityRecord
    BY <1>1, <1>2, DatabaseIs DEF Exists
  <2>2. db[Community(k)].creator \in Users
    BY <2>1 DEF CommunityRecord
  <2> QED BY <1>1, <1>2, <2>2 DEF AdminIsCreator
<1> QED BY <1>2 DEF CommunityIsLed

\* A community is never left without its admin: whoever created or inherited
\* it is a member and its admin, however joins, kicks and bans overlap.
THEOREM CommunitiesAreLed == Spec => []CommunityIsLed
<1>1. CountersInv => CommunityIsLed
  BY CreatorsLead
<1> QED BY <1>1, CountersHold, PTL

-----------------------------------------------------------------------------
(***************************************************************************)
(* The transaction queue.                                                  *)
(***************************************************************************)

(* Lists.                                                                  *)

Entry == [job : Jobs, attempts : 0 .. MaxAttempts - 1]
Held == [job : Jobs, attempts : 1 .. MaxAttempts]

LEMMA InFront ==
    ASSUME NEW S, NEW s \in Seq(S), NEW e \in S
    PROVE  LET r == <<e>> \o s IN
           /\ r \in Seq(S) /\ r # <<>> /\ Len(r) = Len(s) + 1
           /\ r[1] = e /\ \A i \in 1 .. Len(s) : r[i + 1] = s[i]
OBVIOUS

LEMMA Behind ==
    ASSUME NEW S, NEW s \in Seq(S), NEW e \in S
    PROVE  LET r == Append(s, e) IN
           /\ r \in Seq(S) /\ r # <<>> /\ Len(r) = Len(s) + 1
           /\ r[Len(r)] = e /\ \A i \in 1 .. Len(s) : r[i] = s[i]
OBVIOUS

LEMMA ButLast ==
    ASSUME NEW S, NEW s \in Seq(S), s # <<>>
    PROVE  LET r == SubSeq(s, 1, Len(s) - 1) IN
           /\ Len(s) \in Nat \ {0} /\ s[Len(s)] \in S
           /\ r \in Seq(S) /\ Len(r) = Len(s) - 1
           /\ \A i \in 1 .. Len(r) : r[i] = s[i]
<1> DEFINE r == SubSeq(s, 1, Len(s) - 1)
<1>1. Len(s) \in Nat \ {0} /\ s[Len(s)] \in S
  OBVIOUS
<1>2. \A i \in 1 .. Len(s) - 1 : s[i] \in S
  BY <1>1
<1>3. /\ r \in Seq(S)
      /\ Len(r) = IF 1 <= Len(s) - 1 THEN Len(s) - 1 - 1 + 1 ELSE 0
      /\ \A i \in 1 .. Len(s) - 1 - 1 + 1 : r[i] = s[1 + i - 1]
  <2>1. Len(s) - 1 \in Int /\ 1 \in Int
    BY <1>1
  <2> HIDE DEF r
  <2> QED BY <1>2, <2>1, SubSeqProperties DEF r
<1> HIDE DEF r
<1>4. Len(r) = Len(s) - 1
  <2>1. \A n \in Nat \ {0} : (IF 1 <= n - 1 THEN n - 1 - 1 + 1 ELSE 0) = n - 1
    OBVIOUS
  <2>2. Len(r) = IF 1 <= Len(s) - 1 THEN Len(s) - 1 - 1 + 1 ELSE 0
    BY <1>3, Zenon
  <2> QED BY <1>1, <2>1, <2>2, Zenon
<1>5. ASSUME NEW i \in 1 .. Len(r) PROVE r[i] = s[i]
  <2>1. i \in 1 .. Len(s) - 1 - 1 + 1 /\ 1 + i - 1 = i
    BY <1>1, <1>4
  <2> QED BY <1>3, <2>1
<1> QED BY <1>1, <1>3, <1>4, <1>5 DEF r

-----------------------------------------------------------------------------
(* The invariant.                                                          *)

InList(j) == \E i \in 1 .. Len(waiting) : waiting[i].job = j
InHand(j) == \E w \in Servers : hand[w] # NoJob /\ hand[w].job = j

\* A job is handed over by one request, and only once.
CallsAreNew ==
    \A w \in Servers : \A j \in calls[w] :
        j \notin pushed /\ \A v \in Servers : j \in calls[v] => v = w

ListOnce == \A i, k \in 1 .. Len(waiting) : waiting[i].job = waiting[k].job => i = k
HandOnce ==
    \A v, w \in Servers :
        hand[v] # NoJob /\ hand[w] # NoJob /\ hand[v].job = hand[w].job => v = w
Apart == \A j \in Jobs : ~(InList(j) /\ InHand(j))

\* What is in a place was pushed and has not ended, and the other way round.
PlacesAreOpen ==
    \A j \in Jobs : InList(j) \/ InHand(j) <=> j \in pushed /\ ended[j] = "no"

\* A loop that counts as processing runs.
ModesAreTrue == \A w \in Servers : mode[w] = "processing" => w \in loops

PlacesInv == ListOnce /\ HandOnce /\ Apart /\ PlacesAreOpen

\* Only a pushed job can end.
FreshJobs == \A j \in Jobs : j \notin pushed => ended[j] = "no"

\* Who holds a job is a loop that runs.
HandsAreLoops == \A w \in Servers : hand[w] # NoJob => w \in loops

QueueInv ==
    /\ QueueTypeOK
    /\ CallsAreNew
    /\ FreshJobs
    /\ PlacesInv
    /\ ModesAreTrue
    /\ HandsAreLoops
    /\ WaitingHasLoop

-----------------------------------------------------------------------------
(* What happens to the places of jobs.                                     *)

\* A new job is pushed.
LEMMA PushedInFront ==
    ASSUME QueueTypeOK, PlacesInv, NEW j \in Jobs, j \notin pushed,
           waiting' = <<[job |-> j, attempts |-> 0]>> \o waiting,
           pushed' = pushed \cup {j}, hand' = hand, ended' = ended, ended[j] = "no"
    PROVE  PlacesInv'
<1> DEFINE e == [job |-> j, attempts |-> 0]
<1>1. e \in Entry /\ e.job = j /\ waiting \in Seq(Entry)
  BY AttemptsAssumption DEF Entry, QueueTypeOK
<1> HIDE DEF e
<1>2. /\ Len(waiting') = Len(waiting) + 1
      /\ waiting'[1] = e
      /\ \A i \in 1 .. Len(waiting) : waiting'[i + 1] = waiting[i]
  BY <1>1, InFront DEF e
<1>3. Len(waiting) \in Nat
  BY <1>1
<1>4. \A i \in 1 .. Len(waiting') : i = 1 \/ (i - 1 \in 1 .. Len(waiting) /\ waiting'[i] = waiting[i - 1])
  BY <1>2, <1>3
<1>5. ~InList(j) /\ ~InHand(j)
  BY DEF PlacesInv, PlacesAreOpen
<1>6. ListOnce'
  <2> SUFFICES ASSUME NEW i \in 1 .. Len(waiting'), NEW k \in 1 .. Len(waiting'),
                      waiting'[i].job = waiting'[k].job
               PROVE  i = k
    BY DEF ListOnce
  <2>1. CASE i = 1 /\ k = 1
    BY <2>1
  <2>2. CASE i # 1 /\ k # 1
    BY <1>3, <1>4, <2>2 DEF PlacesInv, ListOnce
  <2>3. CASE i = 1 /\ k # 1
    BY <1>1, <1>2, <1>4, <1>5, <2>3 DEF InList
  <2>4. CASE i # 1 /\ k = 1
    BY <1>1, <1>2, <1>4, <1>5, <2>4 DEF InList
  <2> QED BY <2>1, <2>2, <2>3, <2>4
<1>7. \A k : InList(k)' <=> InList(k) \/ k = j
  <2>1. ASSUME NEW k, InList(k)' PROVE InList(k) \/ k = j
    BY <1>1, <1>2, <1>4, <2>1 DEF InList
  <2>2. ASSUME NEW k, InList(k) PROVE InList(k)'
    <3>1. PICK i \in 1 .. Len(waiting) : waiting[i].job = k
      BY <2>2 DEF InList
    <3>2. i + 1 \in 1 .. Len(waiting')
      BY <1>2, <1>3
    <3> QED BY <1>2, <3>1, <3>2 DEF InList
  <2>3. InList(j)'
    <3>1. 1 \in 1 .. Len(waiting')
      BY <1>2, <1>3
    <3> QED BY <1>1, <1>2, <3>1 DEF InList
  <2> QED BY <2>1, <2>2, <2>3
<1>8. \A k : InHand(k)' <=> InHand(k)
  BY DEF InHand
<1>9. HandOnce'
  BY DEF PlacesInv, HandOnce
<1>10. Apart' /\ PlacesAreOpen'
  BY <1>5, <1>7, <1>8 DEF PlacesInv, Apart, PlacesAreOpen
<1> QED BY <1>6, <1>9, <1>10 DEF PlacesInv

\* The job popped next, and the list without it.
LEMMA Shortened ==
    ASSUME QueueTypeOK, PlacesInv, waiting # <<>>,
           waiting' = SubSeq(waiting, 1, Len(waiting) - 1)
    PROVE  /\ waiting[Len(waiting)] \in Entry
           /\ waiting' \in Seq(Entry)
           /\ ListOnce'
           /\ InList(waiting[Len(waiting)].job)
           /\ \A k : InList(k)' <=> InList(k) /\ k # waiting[Len(waiting)].job
<1> DEFINE last == Len(waiting)
<1>1. waiting \in Seq(Entry)
  BY DEF Entry, QueueTypeOK
<1>2. /\ last \in Nat \ {0}
      /\ waiting[last] \in Entry
      /\ waiting' \in Seq(Entry)
      /\ Len(waiting') = last - 1
      /\ \A i \in 1 .. Len(waiting') : waiting'[i] = waiting[i]
  BY <1>1, ButLast
<1>3. \A i \in 1 .. Len(waiting') : i \in 1 .. last /\ i # last
  BY <1>2
<1>4. \A i \in 1 .. last : i # last => i \in 1 .. Len(waiting')
  BY <1>2
<1>5. last \in 1 .. last
  BY <1>2
<1>6. ListOnce'
  BY <1>2, <1>3 DEF PlacesInv, ListOnce
<1>7. InList(waiting[last].job)
  BY <1>5 DEF InList
<1>8. ASSUME NEW k PROVE InList(k)' <=> InList(k) /\ k # waiting[last].job
  <2>1. ASSUME InList(k)' PROVE InList(k) /\ k # waiting[last].job
    BY <1>2, <1>3, <1>5, <2>1 DEF InList, PlacesInv, ListOnce
  <2>2. ASSUME InList(k), k # waiting[last].job PROVE InList(k)'
    BY <1>2, <1>4, <2>2 DEF InList
  <2> QED BY <2>1, <2>2
<1> QED BY <1>2, <1>6, <1>7, <1>8

\* It is taken into the hand of w.
LEMMA Taken ==
    ASSUME QueueTypeOK, PlacesInv, NEW w \in Servers, Pop(w)
    PROVE  PlacesInv' /\ waiting' \in Seq(Entry) /\ hand' \in [Servers -> Held \cup {NoJob}]
<1> DEFINE next == waiting[Len(waiting)]
           r == [next EXCEPT !.attempts = next.attempts + 1]
<1>1. /\ hand[w] = NoJob /\ waiting # <<>>
      /\ waiting' = SubSeq(waiting, 1, Len(waiting) - 1)
      /\ hand' = [hand EXCEPT ![w] = r]
      /\ pushed' = pushed /\ ended' = ended
  BY DEF Pop
<1>2. /\ next \in Entry
      /\ waiting' \in Seq(Entry)
      /\ ListOnce'
      /\ InList(next.job)
      /\ \A k : InList(k)' <=> InList(k) /\ k # next.job
  BY <1>1, Shortened
<1> HIDE DEF next
<1>3. r \in Held /\ r.job = next.job /\ next.job \in Jobs
  BY <1>2, AttemptsAssumption DEF Entry, Held
<1>4. r # NoJob
  BY <1>3, NoJobAssumption DEF Held
<1> HIDE DEF r
<1>5. hand \in [Servers -> Held \cup {NoJob}]
  BY DEF QueueTypeOK, Held
<1>6. hand'[w] = r /\ \A v \in Servers \ {w} : hand'[v] = hand[v]
  BY <1>1, <1>5
<1>7. hand' \in [Servers -> Held \cup {NoJob}]
  BY <1>1, <1>3, <1>5
<1>8. ~InHand(next.job)
  BY <1>2, <1>3 DEF PlacesInv, Apart
<1>9. ASSUME NEW k PROVE InHand(k)' <=> InHand(k) \/ k = next.job
  BY <1>1, <1>3, <1>4, <1>6 DEF InHand
<1>10. HandOnce'
  BY <1>3, <1>6, <1>8 DEF PlacesInv, HandOnce, InHand
<1>11. Apart' /\ PlacesAreOpen'
  BY <1>1, <1>2, <1>8, <1>9 DEF PlacesInv, Apart, PlacesAreOpen
<1> QED BY <1>2, <1>7, <1>10, <1>11 DEF PlacesInv

\* Lost on the way.
LEMMA Vanished ==
    ASSUME QueueTypeOK, PlacesInv, NEW w \in Servers, PopIsLost(w)
    PROVE  PlacesInv' /\ waiting' \in Seq(Entry) /\ ended' \in [Jobs -> {"no", "done", "failed", "lost"}]
<1> DEFINE next == waiting[Len(waiting)]
<1>1. /\ waiting # <<>>
      /\ waiting' = SubSeq(waiting, 1, Len(waiting) - 1)
      /\ ended' = [ended EXCEPT ![next.job] = "lost"]
      /\ pushed' = pushed /\ hand' = hand
  BY DEF PopIsLost
<1>2. /\ next \in Entry
      /\ waiting' \in Seq(Entry)
      /\ ListOnce'
      /\ InList(next.job)
      /\ \A k : InList(k)' <=> InList(k) /\ k # next.job
  BY <1>1, Shortened
<1> HIDE DEF next
<1>3. next.job \in Jobs
  BY <1>2 DEF Entry
<1>4. ended \in [Jobs -> {"no", "done", "failed", "lost"}]
  BY DEF QueueTypeOK
<1>5. /\ ended' \in [Jobs -> {"no", "done", "failed", "lost"}]
      /\ \A k \in Jobs : ended'[k] = IF k = next.job THEN "lost" ELSE ended[k]
  BY <1>1, <1>3, <1>4
<1>6. \A k : InHand(k)' <=> InHand(k)
  BY <1>1 DEF InHand
<1>7. HandOnce'
  BY <1>1 DEF PlacesInv, HandOnce
<1>8. ~InHand(next.job)
  BY <1>2, <1>3 DEF PlacesInv, Apart
<1>9. Apart' /\ PlacesAreOpen'
  BY <1>1, <1>2, <1>5, <1>6, <1>8 DEF PlacesInv, Apart, PlacesAreOpen
<1> QED BY <1>2, <1>5, <1>7, <1>9 DEF PlacesInv

\* The hand of w is emptied.
LEMMA EmptiedHand ==
    ASSUME QueueTypeOK, PlacesInv, NEW w \in Servers,
           hand' = [hand EXCEPT ![w] = NoJob]
    PROVE  /\ hand' \in [Servers -> Held \cup {NoJob}]
           /\ HandOnce'
           /\ hand[w] = NoJob => \A k : InHand(k)' <=> InHand(k)
           /\ hand[w] # NoJob => /\ hand[w] \in Held
                                 /\ InHand(hand[w].job)
                                 /\ \A k : InHand(k)' <=> InHand(k) /\ k # hand[w].job
<1>1. hand \in [Servers -> Held \cup {NoJob}]
  BY DEF QueueTypeOK, Held
<1>2. hand'[w] = NoJob /\ \A v \in Servers \ {w} : hand'[v] = hand[v]
  BY <1>1
<1>3. hand' \in [Servers -> Held \cup {NoJob}]
  BY <1>1
<1>4. HandOnce'
  BY <1>2 DEF PlacesInv, HandOnce
<1>5. ASSUME hand[w] = NoJob, NEW k PROVE InHand(k)' <=> InHand(k)
  BY <1>2, <1>5 DEF InHand
<1>6. ASSUME hand[w] # NoJob, NEW k
      PROVE  InHand(k)' <=> InHand(k) /\ k # hand[w].job
  BY <1>2, <1>6 DEF InHand, PlacesInv, HandOnce
<1>7. hand[w] # NoJob => hand[w] \in Held /\ InHand(hand[w].job)
  BY <1>1 DEF InHand
<1> QED BY <1>3, <1>4, <1>5, <1>6, <1>7

\* The job in the hand of w ends.
LEMMA Finished ==
    ASSUME QueueTypeOK, PlacesInv, NEW w \in Servers, NEW how \in {"done", "failed", "lost"},
           hand' = [hand EXCEPT ![w] = NoJob],
           ended' = IF hand[w] = NoJob THEN ended ELSE [ended EXCEPT ![hand[w].job] = how],
           waiting' = waiting, pushed' = pushed
    PROVE  /\ PlacesInv'
           /\ hand' \in [Servers -> Held \cup {NoJob}]
           /\ ended' \in [Jobs -> {"no", "done", "failed", "lost"}]
<1>1. \A k : InList(k)' <=> InList(k)
  BY DEF InList
<1>2. ListOnce'
  BY DEF PlacesInv, ListOnce
<1>3. ended \in [Jobs -> {"no", "done", "failed", "lost"}]
  BY DEF QueueTypeOK
<1>4. CASE hand[w] = NoJob
  BY <1>1, <1>2, <1>3, <1>4, EmptiedHand DEF PlacesInv, Apart, PlacesAreOpen
<1>5. CASE hand[w] # NoJob
  <2> DEFINE j == hand[w].job
  <2>1. /\ hand' \in [Servers -> Held \cup {NoJob}]
        /\ HandOnce'
        /\ hand[w] \in Held
        /\ InHand(j)
        /\ \A k : InHand(k)' <=> InHand(k) /\ k # j
    BY <1>5, EmptiedHand
  <2>2. j \in Jobs
    BY <2>1 DEF Held
  <2>3. ended' = [ended EXCEPT ![j] = how]
    BY <1>5
  <2> HIDE DEF j
  <2>4. /\ ended' \in [Jobs -> {"no", "done", "failed", "lost"}]
        /\ \A k \in Jobs : ended'[k] = IF k = j THEN how ELSE ended[k]
    BY <1>3, <2>2, <2>3
  <2>5. ~InList(j)
    BY <2>1, <2>2 DEF PlacesInv, Apart
  <2>6. Apart' /\ PlacesAreOpen'
    BY <1>1, <2>1, <2>4, <2>5 DEF PlacesInv, Apart, PlacesAreOpen
  <2> QED BY <1>2, <2>1, <2>4, <2>6 DEF PlacesInv
<1> QED BY <1>4, <1>5

\* The job in the hand of w is pushed back.
LEMMA PushedBack ==
    ASSUME QueueTypeOK, PlacesInv, NEW w \in Servers,
           hand[w] # NoJob, hand[w].attempts < MaxAttempts,
           hand' = [hand EXCEPT ![w] = NoJob], waiting' = Append(waiting, hand[w]),
           ended' = ended, pushed' = pushed
    PROVE  /\ PlacesInv'
           /\ hand' \in [Servers -> Held \cup {NoJob}]
           /\ waiting' \in Seq(Entry)
<1> DEFINE e == hand[w]
<1>1. /\ hand' \in [Servers -> Held \cup {NoJob}]
      /\ HandOnce'
      /\ e \in Held
      /\ InHand(e.job)
      /\ \A k : InHand(k)' <=> InHand(k) /\ k # e.job
  BY EmptiedHand
<1>2. waiting \in Seq(Entry) /\ e \in Entry /\ e.job \in Jobs
  BY <1>1, AttemptsAssumption DEF QueueTypeOK, Entry, Held
<1> HIDE DEF e
<1>3. /\ waiting' \in Seq(Entry) /\ Len(waiting') = Len(waiting) + 1
      /\ waiting'[Len(waiting')] = e
      /\ \A i \in 1 .. Len(waiting) : waiting'[i] = waiting[i]
  BY <1>2, Behind DEF e
<1>4. Len(waiting) \in Nat
  BY <1>2
<1>5. \A i \in 1 .. Len(waiting') : i = Len(waiting') \/ i \in 1 .. Len(waiting)
  BY <1>3, <1>4
<1>6. ~InList(e.job)
  BY <1>1, <1>2 DEF PlacesInv, Apart
<1>7. ListOnce'
  BY <1>3, <1>5, <1>6 DEF PlacesInv, ListOnce, InList
<1>8. \A k : InList(k)' <=> InList(k) \/ k = e.job
  <2>1. ASSUME NEW k, InList(k)' PROVE InList(k) \/ k = e.job
    BY <1>3, <1>5, <2>1 DEF InList
  <2>2. ASSUME NEW k, InList(k) PROVE InList(k)'
    <3>1. PICK i \in 1 .. Len(waiting) : waiting[i].job = k
      BY <2>2 DEF InList
    <3>2. i \in 1 .. Len(waiting')
      BY <1>3, <1>4
    <3> QED BY <1>3, <3>1, <3>2 DEF InList
  <2>3. ASSUME NEW k, k = e.job PROVE InList(k)'
    <3>1. Len(waiting) + 1 \in 1 .. Len(waiting')
      BY <1>3, <1>4
    <3>2. waiting'[Len(waiting) + 1].job = k
      BY <1>3, <2>3
    <3> QED BY <3>1, <3>2 DEF InList
  <2> QED BY <2>1, <2>2, <2>3
<1>9. Apart' /\ PlacesAreOpen'
  BY <1>1, <1>2, <1>8 DEF PlacesInv, Apart, PlacesAreOpen
<1> QED BY <1>1, <1>3, <1>7, <1>9 DEF PlacesInv

-----------------------------------------------------------------------------
(* Every step keeps the invariant.                                         *)

Ends == {"no", "done", "failed", "lost"}

LEMMA PlacesUnchanged ==
    ASSUME PlacesInv, UNCHANGED <<waiting, hand, pushed, ended>>
    PROVE  PlacesInv'
BY DEF PlacesInv, ListOnce, HandOnce, Apart, PlacesAreOpen, InList, InHand

\* A request hands a job over.
LEMMA ExecuteNowKeeps ==
    ASSUME QueueInv, NEW w \in Servers, NEW j \in calls[w], ExecuteNow(w, j)
    PROVE  QueueInv'
<1>1. /\ calls' = [calls EXCEPT ![w] = calls[w] \ {j}]
      /\ UNCHANGED <<starts, mode, loops, waiting, hand, pushed, ended, calm>>
  BY DEF ExecuteNow
<1>2. calls \in [Servers -> SUBSET Jobs]
  BY DEF QueueInv, QueueTypeOK
<1>3. QueueTypeOK'
  BY <1>1, <1>2 DEF QueueInv, QueueTypeOK
<1>4. CallsAreNew'
  BY <1>1, <1>2 DEF QueueInv, CallsAreNew
<1>5. PlacesInv'
  BY <1>1, PlacesUnchanged DEF QueueInv
<1>6. FreshJobs' /\ ModesAreTrue' /\ HandsAreLoops' /\ WaitingHasLoop'
  BY <1>1 DEF QueueInv, FreshJobs, ModesAreTrue, HandsAreLoops, WaitingHasLoop
<1> QED BY <1>3, <1>4, <1>5, <1>6 DEF QueueInv

LEMMA EnqueueKeeps ==
    ASSUME QueueInv, NEW w \in Servers, NEW j \in calls[w], Enqueue(w, j)
    PROVE  QueueInv'
<1>1. /\ calls' = [calls EXCEPT ![w] = calls[w] \ {j}]
      /\ waiting' = <<[job |-> j, attempts |-> 0]>> \o waiting
      /\ pushed' = pushed \cup {j}
      /\ starts' = [starts EXCEPT ![w] = TRUE]
      /\ calm' = TRUE
      /\ UNCHANGED <<mode, loops, hand, ended>>
  BY DEF Enqueue
<1>2. calls \in [Servers -> SUBSET Jobs] /\ starts \in [Servers -> BOOLEAN]
  BY DEF QueueInv, QueueTypeOK
<1>3. j \in Jobs /\ j \notin pushed
  BY <1>2 DEF QueueInv, CallsAreNew
<1>4. [job |-> j, attempts |-> 0] \in Entry /\ waiting \in Seq(Entry)
  BY <1>3, AttemptsAssumption DEF QueueInv, QueueTypeOK, Entry
<1>5. waiting' \in Seq(Entry)
  BY <1>1, <1>4, InFront
<1>6. QueueTypeOK'
  BY <1>1, <1>2, <1>3, <1>5 DEF QueueInv, QueueTypeOK, Entry
<1>7. CallsAreNew'
  <2>1. ASSUME NEW v \in Servers, NEW k \in calls'[v]
        PROVE  k \in calls[v] /\ k # j
    BY <1>1, <1>2, <2>1 DEF QueueInv, CallsAreNew
  <2> QED BY <1>1, <2>1 DEF QueueInv, CallsAreNew
<1>8. ended[j] = "no"
  BY <1>3 DEF QueueInv, QueueTypeOK, FreshJobs
<1>9. PlacesInv'
  BY <1>1, <1>3, <1>8, PushedInFront DEF QueueInv
<1>10. ModesAreTrue' /\ HandsAreLoops'
  BY <1>1 DEF QueueInv, ModesAreTrue, HandsAreLoops
<1>11. WaitingHasLoop'
  BY <1>1, <1>2 DEF WaitingHasLoop
<1>12. FreshJobs'
  BY <1>1 DEF QueueInv, FreshJobs
<1> QED BY <1>6, <1>7, <1>9, <1>10, <1>11, <1>12 DEF QueueInv

\* The loop is started.
LEMMA StartProcessingKeeps ==
    ASSUME QueueInv, NEW w \in Servers, StartProcessing(w)
    PROVE  QueueInv'
<1>1. /\ starts' = [starts EXCEPT ![w] = FALSE]
      /\ mode' = [mode EXCEPT ![w] = IF mode[w] = "idle" THEN "starting" ELSE mode[w]]
      /\ UNCHANGED <<calls, loops, waiting, hand, pushed, ended, calm>>
  BY DEF StartProcessing
<1>2. /\ starts \in [Servers -> BOOLEAN]
      /\ mode \in [Servers -> {"idle", "starting", "processing"}]
  BY DEF QueueInv, QueueTypeOK
<1>3. QueueTypeOK'
  BY <1>1, <1>2 DEF QueueInv, QueueTypeOK
<1>4. CallsAreNew' /\ FreshJobs' /\ HandsAreLoops'
  BY <1>1 DEF QueueInv, CallsAreNew, FreshJobs, HandsAreLoops
<1>5. PlacesInv'
  BY <1>1, PlacesUnchanged DEF QueueInv
<1>6. ModesAreTrue'
  BY <1>1, <1>2 DEF QueueInv, ModesAreTrue
<1>7. mode'[w] = "starting" \/ w \in loops'
  BY <1>1, <1>2 DEF QueueInv, ModesAreTrue
<1> QED BY <1>3, <1>4, <1>5, <1>6, <1>7 DEF QueueInv, WaitingHasLoop

LEMMA ConnectedKeeps ==
    ASSUME QueueInv, NEW w \in Servers, Connected(w)
    PROVE  QueueInv'
<1>1. /\ mode' = [mode EXCEPT ![w] = "processing"]
      /\ loops' = loops \cup {w}
      /\ UNCHANGED <<calls, starts, waiting, hand, pushed, ended, calm>>
  BY DEF Connected
<1>2. mode \in [Servers -> {"idle", "starting", "processing"}]
  BY DEF QueueInv, QueueTypeOK
<1>3. QueueTypeOK'
  BY <1>1, <1>2 DEF QueueInv, QueueTypeOK
<1>4. CallsAreNew' /\ FreshJobs' /\ HandsAreLoops'
  BY <1>1 DEF QueueInv, CallsAreNew, FreshJobs, HandsAreLoops
<1>5. PlacesInv'
  BY <1>1, PlacesUnchanged DEF QueueInv
<1>6. ModesAreTrue' /\ WaitingHasLoop'
  BY <1>1, <1>2 DEF QueueInv, ModesAreTrue, WaitingHasLoop
<1> QED BY <1>3, <1>4, <1>5, <1>6 DEF QueueInv

LEMMA ConnectFailsKeeps ==
    ASSUME QueueInv, NEW w \in Servers, ConnectFails(w)
    PROVE  QueueInv'
<1>1. /\ mode' = [mode EXCEPT ![w] = "idle"]
      /\ calm' = FALSE
      /\ UNCHANGED <<calls, starts, loops, waiting, hand, pushed, ended>>
  BY DEF ConnectFails
<1>2. mode \in [Servers -> {"idle", "starting", "processing"}]
  BY DEF QueueInv, QueueTypeOK
<1>3. QueueTypeOK'
  BY <1>1, <1>2 DEF QueueInv, QueueTypeOK
<1>4. CallsAreNew' /\ FreshJobs' /\ HandsAreLoops'
  BY <1>1 DEF QueueInv, CallsAreNew, FreshJobs, HandsAreLoops
<1>5. PlacesInv'
  BY <1>1, PlacesUnchanged DEF QueueInv
<1>6. ModesAreTrue' /\ WaitingHasLoop'
  BY <1>1, <1>2 DEF QueueInv, ModesAreTrue, WaitingHasLoop
<1> QED BY <1>3, <1>4, <1>5, <1>6 DEF QueueInv

\* A job is popped.
LEMMA PopKeeps ==
    ASSUME QueueInv, NEW w \in Servers, Pop(w)
    PROVE  QueueInv'
<1>1. /\ w \in loops /\ waiting # <<>>
      /\ UNCHANGED <<calls, starts, mode, loops, pushed, ended, calm>>
  BY DEF Pop
<1>2. PlacesInv' /\ waiting' \in Seq(Entry) /\ hand' \in [Servers -> Held \cup {NoJob}]
  BY Taken DEF QueueInv
<1>3. QueueTypeOK'
  BY <1>1, <1>2 DEF QueueInv, QueueTypeOK, Entry, Held
<1>4. CallsAreNew' /\ FreshJobs'
  BY <1>1 DEF QueueInv, CallsAreNew, FreshJobs
<1>5. \A v \in Servers \ {w} : hand'[v] = hand[v]
  <2>1. \E r : hand' = [hand EXCEPT ![w] = r]
    BY DEF Pop
  <2>2. hand \in [Servers -> Held \cup {NoJob}]
    BY DEF QueueInv, QueueTypeOK, Held
  <2> QED BY <2>1, <2>2
<1>6. HandsAreLoops'
  BY <1>1, <1>5 DEF QueueInv, HandsAreLoops
<1>7. ModesAreTrue' /\ WaitingHasLoop'
  BY <1>1 DEF QueueInv, ModesAreTrue, WaitingHasLoop
<1> QED BY <1>2, <1>3, <1>4, <1>6, <1>7 DEF QueueInv

LEMMA PopIsLostKeeps ==
    ASSUME QueueInv, NEW w \in Servers, PopIsLost(w)
    PROVE  QueueInv'
<1>1. /\ waiting # <<>>
      /\ waiting' = SubSeq(waiting, 1, Len(waiting) - 1)
      /\ ended' = [ended EXCEPT ![waiting[Len(waiting)].job] = "lost"]
      /\ UNCHANGED <<calls, starts, mode, loops, hand, pushed, calm>>
  BY DEF PopIsLost
<1>2. PlacesInv' /\ waiting' \in Seq(Entry) /\ ended' \in [Jobs -> Ends]
  BY Vanished DEF QueueInv, Ends
<1>3. QueueTypeOK'
  BY <1>1, <1>2 DEF QueueInv, QueueTypeOK, Entry, Ends
<1>4. waiting[Len(waiting)].job \in pushed
  <2>1. InList(waiting[Len(waiting)].job) /\ waiting[Len(waiting)] \in Entry
    BY <1>1, Shortened DEF QueueInv
  <2> QED BY <2>1 DEF QueueInv, PlacesInv, PlacesAreOpen, Entry
<1>5. CallsAreNew' /\ ModesAreTrue' /\ HandsAreLoops' /\ WaitingHasLoop'
  BY <1>1 DEF QueueInv, CallsAreNew, ModesAreTrue, HandsAreLoops, WaitingHasLoop
<1>6. FreshJobs'
  BY <1>1, <1>4 DEF QueueInv, FreshJobs, QueueTypeOK
<1> QED BY <1>2, <1>3, <1>5, <1>6 DEF QueueInv

\* The job in the hand of w ends, with or without its loop.
LEMMA EndKeepsPlaces ==
    ASSUME QueueInv, NEW w \in Servers, NEW how \in {"done", "failed", "lost"},
           hand' = [hand EXCEPT ![w] = NoJob],
           ended' = IF hand[w] = NoJob THEN ended ELSE [ended EXCEPT ![hand[w].job] = how],
           waiting' = waiting, pushed' = pushed
    PROVE  /\ PlacesInv' /\ FreshJobs'
           /\ hand' \in [Servers -> Held \cup {NoJob}]
           /\ ended' \in [Jobs -> Ends]
<1>1. /\ PlacesInv'
      /\ hand' \in [Servers -> Held \cup {NoJob}]
      /\ ended' \in [Jobs -> Ends]
  BY Finished DEF QueueInv, Ends
<1>2. hand[w] # NoJob => hand[w].job \in pushed
  <2>1. hand[w] # NoJob => InHand(hand[w].job) /\ hand[w] \in Held
    BY EmptiedHand DEF QueueInv
  <2> QED BY <2>1 DEF QueueInv, PlacesInv, PlacesAreOpen, Held
<1>3. FreshJobs'
  BY <1>2 DEF QueueInv, FreshJobs, QueueTypeOK
<1> QED BY <1>1, <1>3

LEMMA JobEndsKeeps ==
    ASSUME QueueInv, NEW w \in Servers, NEW how \in {"done", "failed"},
           hand[w] # NoJob, JobEnds(w, how)
    PROVE  QueueInv'
<1>1. /\ hand' = [hand EXCEPT ![w] = NoJob]
      /\ ended' = [ended EXCEPT ![hand[w].job] = how]
      /\ UNCHANGED <<calls, starts, mode, loops, waiting, pushed, calm>>
  BY DEF JobEnds
<1>2. /\ PlacesInv' /\ FreshJobs'
      /\ hand' \in [Servers -> Held \cup {NoJob}]
      /\ ended' \in [Jobs -> Ends]
  BY <1>1, EndKeepsPlaces
<1>3. QueueTypeOK'
  BY <1>1, <1>2 DEF QueueInv, QueueTypeOK, Ends, Held
<1>4. CallsAreNew' /\ ModesAreTrue' /\ WaitingHasLoop'
  BY <1>1 DEF QueueInv, CallsAreNew, ModesAreTrue, WaitingHasLoop
<1>5. HandsAreLoops'
  BY <1>1 DEF QueueInv, HandsAreLoops, QueueTypeOK
<1> QED BY <1>2, <1>3, <1>4, <1>5 DEF QueueInv

LEMMA RequeueKeeps ==
    ASSUME QueueInv, NEW w \in Servers,
           hand[w] # NoJob, hand[w].attempts < MaxAttempts, Requeue(w)
    PROVE  QueueInv'
<1>1. /\ hand' = [hand EXCEPT ![w] = NoJob]
      /\ waiting' = Append(waiting, hand[w])
      /\ UNCHANGED <<calls, starts, mode, loops, pushed, ended, calm>>
  BY DEF Requeue
<1>2. /\ PlacesInv'
      /\ hand' \in [Servers -> Held \cup {NoJob}]
      /\ waiting' \in Seq(Entry)
  BY <1>1, PushedBack DEF QueueInv
<1>3. QueueTypeOK'
  BY <1>1, <1>2 DEF QueueInv, QueueTypeOK, Entry, Held
<1>4. CallsAreNew' /\ FreshJobs' /\ ModesAreTrue'
  BY <1>1 DEF QueueInv, CallsAreNew, FreshJobs, ModesAreTrue
<1>5. HandsAreLoops'
  BY <1>1 DEF QueueInv, HandsAreLoops, QueueTypeOK
<1>6. WaitingHasLoop'
  BY <1>1 DEF QueueInv, HandsAreLoops, WaitingHasLoop
<1> QED BY <1>2, <1>3, <1>4, <1>5, <1>6 DEF QueueInv

\* The loop of w ends.
LEMMA LoopCrashesKeeps ==
    ASSUME QueueInv, NEW w \in Servers, LoopCrashes(w)
    PROVE  QueueInv'
<1>1. /\ loops' = loops \ {w}
      /\ mode' = [mode EXCEPT ![w] = "idle"]
      /\ hand' = [hand EXCEPT ![w] = NoJob]
      /\ calm' = FALSE
      /\ UNCHANGED <<calls, starts, pushed>>
  BY DEF LoopCrashes, Reset
<1>2. /\ PlacesInv' /\ FreshJobs'
      /\ hand' \in [Servers -> Held \cup {NoJob}]
      /\ ended' \in [Jobs -> Ends]
      /\ waiting' \in Seq(Entry)
  <2>1. CASE ended' = Dropped(w) /\ UNCHANGED waiting
    <3>1. waiting \in Seq(Entry)
      BY DEF QueueInv, QueueTypeOK, Entry
    <3> QED BY <1>1, <2>1, <3>1, EndKeepsPlaces DEF Dropped
  <2>2. CASE /\ hand[w] # NoJob /\ hand[w].attempts < MaxAttempts
             /\ waiting' = Append(waiting, hand[w]) /\ UNCHANGED ended
    <3>1. FreshJobs' /\ ended' \in [Jobs -> Ends]
      BY <1>1, <2>2 DEF QueueInv, FreshJobs, QueueTypeOK, Ends
    <3> QED BY <1>1, <2>2, <3>1, PushedBack DEF QueueInv
  <2> QED BY <2>1, <2>2 DEF LoopCrashes
<1>3. QueueTypeOK'
  BY <1>1, <1>2 DEF QueueInv, QueueTypeOK, Entry, Held, Ends
<1>4. CallsAreNew' /\ WaitingHasLoop'
  BY <1>1 DEF QueueInv, CallsAreNew, WaitingHasLoop
<1>5. ModesAreTrue' /\ HandsAreLoops'
  BY <1>1 DEF QueueInv, ModesAreTrue, HandsAreLoops, QueueTypeOK
<1> QED BY <1>2, <1>3, <1>4, <1>5 DEF QueueInv

LEMMA ServerCrashesKeeps ==
    ASSUME QueueInv, NEW w \in Servers, ServerCrashes(w)
    PROVE  QueueInv'
<1>1. /\ calls' = [calls EXCEPT ![w] = {}]
      /\ starts' = [starts EXCEPT ![w] = FALSE]
      /\ mode' = [mode EXCEPT ![w] = "idle"]
      /\ loops' = loops \ {w}
      /\ hand' = [hand EXCEPT ![w] = NoJob]
      /\ ended' = IF hand[w] = NoJob THEN ended ELSE [ended EXCEPT ![hand[w].job] = "lost"]
      /\ calm' = FALSE
      /\ UNCHANGED <<waiting, pushed>>
  BY DEF ServerCrashes, Dropped
<1>2. /\ PlacesInv' /\ FreshJobs'
      /\ hand' \in [Servers -> Held \cup {NoJob}]
      /\ ended' \in [Jobs -> Ends]
  BY <1>1, EndKeepsPlaces
<1>3. QueueTypeOK'
  BY <1>1, <1>2 DEF QueueInv, QueueTypeOK, Held, Ends
<1>4. CallsAreNew' /\ WaitingHasLoop'
  BY <1>1 DEF QueueInv, CallsAreNew, WaitingHasLoop, QueueTypeOK
<1>5. ModesAreTrue' /\ HandsAreLoops'
  BY <1>1 DEF QueueInv, ModesAreTrue, HandsAreLoops, QueueTypeOK
<1> QED BY <1>2, <1>3, <1>4, <1>5 DEF QueueInv

LEMMA QueueStepKeeps ==
    ASSUME QueueInv, NEW w \in Servers, QueueStep(w)
    PROVE  QueueInv'
<1>1. HandlerSucceeds(w) => QueueInv'
  BY JobEndsKeeps DEF HandlerSucceeds
<1>2. HandlerFails(w) => QueueInv'
  BY JobEndsKeeps, RequeueKeeps DEF HandlerFails
<1> QED BY <1>1, <1>2, ExecuteNowKeeps, EnqueueKeeps, StartProcessingKeeps, ConnectedKeeps,
           ConnectFailsKeeps, PopKeeps, PopIsLostKeeps, LoopCrashesKeeps, ServerCrashesKeeps
        DEF QueueStep

\* Others leave the queue alone, but for the request that a view makes.
LEMMA QueueUnchanged ==
    ASSUME QueueInv, UNCHANGED queue
    PROVE  QueueInv'
<1>1. UNCHANGED <<calls, starts, mode, loops, waiting, hand, pushed, ended, calm>>
  BY DEF queue
<1>2. PlacesInv'
  BY <1>1, PlacesUnchanged DEF QueueInv
<1> QED BY <1>1, <1>2 DEF QueueInv, QueueTypeOK, CallsAreNew, FreshJobs, ModesAreTrue,
                          HandsAreLoops, WaitingHasLoop

LEMMA ViewStepKeeps ==
    ASSUME QueueInv, NEW p \in Txns, ViewStep(p)
    PROVE  QueueInv'
<1>1. PICK w \in Servers, u \in Users, x \in Posts : RecordPostView(p, w, u, x)
  BY DEF ViewStep
<1> DEFINE j == <<u, x>>
<1>2. /\ UNCHANGED calls \/ (~Known(j) /\ Call(w, j))
      /\ UNCHANGED <<starts, mode, loops, waiting, hand, pushed, ended, calm>>
  BY <1>1 DEF RecordPostView
<1>3. j \in Jobs
  BY JobsAssumption
<1> HIDE DEF j
<1>4. CASE UNCHANGED calls
  BY <1>2, <1>4, QueueUnchanged DEF queue
<1>5. CASE ~Known(j) /\ Call(w, j)
  <2>1. calls \in [Servers -> SUBSET Jobs]
    BY DEF QueueInv, QueueTypeOK
  <2>2. calls' = [calls EXCEPT ![w] = calls[w] \cup {j}]
    BY <1>5 DEF Call
  <2>3. /\ calls' \in [Servers -> SUBSET Jobs]
        /\ \A v \in Servers : calls'[v] = IF v = w THEN calls[w] \cup {j} ELSE calls[v]
    BY <1>3, <2>1, <2>2
  <2>4. j \notin pushed /\ \A v \in Servers : j \notin calls[v]
    BY <1>5 DEF Known
  <2>5. CallsAreNew'
    BY <1>2, <2>3, <2>4 DEF QueueInv, CallsAreNew
  <2>6. QueueTypeOK'
    BY <1>2, <2>3 DEF QueueInv, QueueTypeOK
  <2>7. PlacesInv'
    BY <1>2, PlacesUnchanged DEF QueueInv
  <2> QED BY <1>2, <2>5, <2>6, <2>7 DEF QueueInv, FreshJobs, ModesAreTrue, HandsAreLoops,
                                        WaitingHasLoop
<1> QED BY <1>2, <1>4, <1>5

LEMMA QueueInitHolds == Init => QueueInv
<1> SUFFICES ASSUME Init PROVE QueueInv
  OBVIOUS
<1>1. /\ calls = [w \in Servers |-> {}]
      /\ starts = [w \in Servers |-> FALSE]
      /\ mode = [w \in Servers |-> "idle"]
      /\ loops = {}
      /\ waiting = <<>>
      /\ hand = [w \in Servers |-> NoJob]
      /\ pushed = {}
      /\ ended = [j \in Jobs |-> "no"]
      /\ calm = TRUE
  BY DEF Init, QueueInit
<1>2. QueueTypeOK
  BY <1>1 DEF QueueTypeOK
<1>3. CallsAreNew /\ FreshJobs /\ ModesAreTrue /\ HandsAreLoops /\ WaitingHasLoop
  BY <1>1 DEF CallsAreNew, FreshJobs, ModesAreTrue, HandsAreLoops, WaitingHasLoop
<1>4. \A k : ~InList(k) /\ ~InHand(k)
  BY <1>1 DEF InList, InHand
<1>5. ListOnce /\ HandOnce
  BY <1>1 DEF ListOnce, HandOnce
<1>6. Apart /\ PlacesAreOpen
  BY <1>1, <1>4 DEF Apart, PlacesAreOpen
<1> QED BY <1>2, <1>3, <1>5, <1>6 DEF QueueInv, PlacesInv

LEMMA QueueNextKeeps ==
    ASSUME QueueInv, [Next]_vars
    PROVE  QueueInv'
<1>1. CASE Next
  BY <1>1, QueueStepKeeps, ViewStepKeeps, QueueUnchanged DEF Next
<1>2. CASE UNCHANGED vars
  BY <1>2, QueueUnchanged DEF vars, queue
<1> QED BY <1>1, <1>2

THEOREM QueueInvariantHolds == Spec => []QueueInv
<1>1. Init => QueueInv
  BY QueueInitHolds
<1>2. QueueInv /\ [Next]_vars => QueueInv'
  BY QueueNextKeeps
<1> QED BY <1>1, <1>2, PTL DEF Spec

-----------------------------------------------------------------------------
(* Theorems.                                                               *)

LEMMA OnePlace ==
    ASSUME QueueInv, NEW j \in pushed
    PROVE  Cardinality(Places(j)) = IF ended[j] = "no" THEN 1 ELSE 0
<1>1. j \in Jobs
  BY DEF QueueInv, QueueTypeOK
<1>2. CASE ended[j] # "no"
  <2>1. ~InList(j) /\ ~InHand(j)
    BY <1>1, <1>2 DEF QueueInv, PlacesInv, PlacesAreOpen
  <2>2. Places(j) = {}
    BY <2>1 DEF Places, InList, InHand
  <2> QED BY <1>2, <2>2, FS_EmptySet
<1>3. CASE ended[j] = "no" /\ InList(j)
  <2>1. PICK i \in 1 .. Len(waiting) : waiting[i].job = j
    BY <1>3 DEF InList
  <2>2. ~InHand(j)
    BY <1>1, <1>3 DEF QueueInv, PlacesInv, Apart
  <2>3. {n \in 1 .. Len(waiting) : waiting[n].job = j} = {i}
    BY <2>1 DEF QueueInv, PlacesInv, ListOnce
  <2>4. {v \in Servers : hand[v] # NoJob /\ hand[v].job = j} = {}
    BY <2>2 DEF InHand
  <2>5. Places(j) = {<<"list", i>>}
    BY <2>3, <2>4 DEF Places
  <2> QED BY <1>3, <2>5, FS_Singleton
<1>4. CASE ended[j] = "no" /\ InHand(j)
  <2>1. PICK w \in Servers : hand[w] # NoJob /\ hand[w].job = j
    BY <1>4 DEF InHand
  <2>2. ~InList(j)
    BY <1>1, <1>4 DEF QueueInv, PlacesInv, Apart
  <2>3. {v \in Servers : hand[v] # NoJob /\ hand[v].job = j} = {w}
    BY <2>1 DEF QueueInv, PlacesInv, HandOnce
  <2>4. {n \in 1 .. Len(waiting) : waiting[n].job = j} = {}
    BY <2>2 DEF InList
  <2>5. Places(j) = {<<"hand", w>>}
    BY <2>3, <2>4 DEF Places
  <2> QED BY <1>4, <2>5, FS_Singleton
<1>5. ended[j] = "no" => InList(j) \/ InHand(j)
  BY <1>1 DEF QueueInv, PlacesInv, PlacesAreOpen
<1> QED BY <1>2, <1>3, <1>4, <1>5

\* Between a push and its end a job is held in one place: the list or the hand
\* of one loop.  A retry does not multiply it, and a job that was given up or
\* lost is not run again (processLoop, processJob, requeueFailedJob).
THEOREM JobsKept == Spec => []JobsAreKept
<1>1. QueueInv => JobsAreKept
  BY OnePlace DEF JobsAreKept
<1> QED BY <1>1, QueueInvariantHolds, PTL

\* Jobs that wait have a loop that runs, or a start that is under way or about
\* to be made, as long as nothing has failed since the last push
\* (startProcessing, processLoop).
THEOREM WaitingIsServed == Spec => []WaitingHasLoop
<1>1. QueueInv => WaitingHasLoop
  BY DEF QueueInv
<1> QED BY <1>1, QueueInvariantHolds, PTL
=============================================================================
