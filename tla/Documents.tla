----------------------------- MODULE Documents -----------------------------
(***************************************************************************)
(* The collections of the social network: accounts, follows, posts, likes, *)
(* views, comments, communities and memberships, and the document that     *)
(* serialises the removal of administrators.                               *)
(*                                                                         *)
(* A relation whose unique index allows one document per pair is the       *)
(* presence of that document, so an insert and a delete of the same pair   *)
(* write the same name.  Counters are fields of the documents they are     *)
(* about and are kept next to the relations they count.                    *)
(*                                                                         *)
(* Not modelled: texts, images, tags, favourites, feed profiles and the    *)
(* log of user actions.  No guard of these handlers reads them, and a      *)
(* document left out can only make more transactions conflict than do      *)
(* here.  The outbox events are written by the same transaction (Outbox).  *)
(***************************************************************************)
EXTENDS Snapshots, Integers, FiniteSets

CONSTANTS
    Users,          \* accounts
    Posts,          \* ids of posts and reposts
    Comments,       \* ids of comments
    Communities,    \* ids of communities
    Unborn,         \* a document whose id nobody used yet
    Gone            \* a document that was deleted

-----------------------------------------------------------------------------
(* Names.                                                                  *)

User(u) == <<"user", u>>
Post(x) == <<"post", x>>
Comment(c) == <<"comment", c>>
Community(k) == <<"community", k>>
Follow(u, v) == <<"follow", u, v>>
Like(u, x) == <<"like", u, x>>
View(u, x) == <<"view", u, x>>
CommentLike(u, c) == <<"commentlike", u, c>>
Member(u, k) == <<"member", u, k>>
Guard == <<"guard">>

UserDocs == {User(u) : u \in Users}
PostDocs == {Post(x) : x \in Posts}
CommentDocs == {Comment(c) : c \in Comments}
CommunityDocs == {Community(k) : k \in Communities}
MemberDocs == {Member(u, k) : u \in Users, k \in Communities}
Relations == {Follow(e[1], e[2]) : e \in {f \in Users \X Users : f[1] # f[2]}}
                 \cup {Like(u, x) : u \in Users, x \in Posts}
                 \cup {View(u, x) : u \in Users, x \in Posts}
                 \cup {CommentLike(u, c) : u \in Users, c \in Comments}
Docs == UserDocs \cup PostDocs \cup CommentDocs \cup CommunityDocs
            \cup MemberDocs \cup Relations \cup {Guard}

-----------------------------------------------------------------------------
(* Documents.                                                              *)

Account == [
    isAdmin : BOOLEAN,
    isBanned : BOOLEAN,
    followers : Int,
    following : Int,
    posts : Int,
    joined : SUBSET Communities]       \* the newest ten

\* A post, or a repost of another one (of).
PostRecord == [
    author : Users,
    of : Posts \cup {None},
    community : Communities \cup {None},
    status : {"pending", "active", "failed"},
    likes : Int,
    comments : Int,
    reposts : Int,
    views : Int]

\* A deleted comment with replies stays as a tombstone without an author; one
\* of a departed account keeps the key of that account.
CommentRecord == [
    post : Posts,
    parent : Comments \cup {None},
    author : Users \cup {None},
    departed : Users \cup {None},
    isDeleted : BOOLEAN,
    likes : Int,
    replies : Int]

CommunityRecord == [creator : Users, members : Int, posts : Int]

\* No command makes anybody a moderator.
Roles == {"none", "member", "admin"}

TypeOfDoc(d) ==
    CASE d \in UserDocs -> Account \cup {Unborn, Gone}
      [] d \in PostDocs -> PostRecord \cup {Unborn, Gone}
      [] d \in CommentDocs -> CommentRecord \cup {Unborn, Gone}
      [] d \in CommunityDocs -> CommunityRecord \cup {Unborn, Gone}
      [] d \in MemberDocs -> Roles
      [] OTHER -> BOOLEAN

IsDatabase(s) == DOMAIN s = Docs /\ \A d \in Docs : s[d] \in TypeOfDoc(d)

Exists(s, d) == s[d] \notin {Unborn, Gone}

\* What a handler looked up before its transaction began existed then; it may
\* be gone by now.
WasFound(s, d) == s[d] # Unborn

ASSUME FiniteAssumption ==
    IsFiniteSet(Users) /\ IsFiniteSet(Posts) /\ IsFiniteSet(Comments)

\* A missing document is not a document.
ASSUME MissingAssumption ==
    /\ Gone # Unborn
    /\ Gone \notin Account \cup PostRecord \cup CommentRecord \cup CommunityRecord
    /\ Unborn \notin Account \cup PostRecord \cup CommentRecord \cup CommunityRecord

\* The absence of an id is not an id.
ASSUME NoneAssumption == None \notin Users \cup Posts \cup Comments \cup Communities

-----------------------------------------------------------------------------
(* Queries.                                                                *)

PostsThat(s, Test(_)) == {x \in Posts : Exists(s, Post(x)) /\ Test(s[Post(x)])}
CommentsThat(s, Test(_)) ==
    {c \in Comments : Exists(s, Comment(c)) /\ Test(s[Comment(c)])}

LikesOf(s, x) == {u \in Users : s[Like(u, x)]}
CommentLikesOf(s, c) == {u \in Users : s[CommentLike(u, c)]}
CommentsOf(s, x) == CommentsThat(s, LAMBDA c : c.post = x)
RepliesTo(s, b) == CommentsThat(s, LAMBDA c : c.parent = b)
RepostsOf(s, x) == PostsThat(s, LAMBDA y : y.of = x /\ y.status = "active")
PostsBy(s, u) == PostsThat(s, LAMBDA y : y.author = u /\ y.status = "active")
PostsIn(s, k) == PostsThat(s, LAMBDA y : y.community = k /\ y.status = "active")
FollowersOf(s, u) == {v \in Users \ {u} : s[Follow(v, u)]}
FollowedBy(s, u) == {v \in Users \ {u} : s[Follow(u, v)]}
MembersOf(s, k) == {u \in Users : s[Member(u, k)] # "none"}
AdminsOf(s, k) == {u \in Users : s[Member(u, k)] = "admin"}

-----------------------------------------------------------------------------
(* Updates.                                                                *)

\* $inc and $set of a field; an update that finds no document does nothing.
Increment(s, d, field, n) ==
    IF Exists(s, d) THEN [s EXCEPT ![d][field] = @ + n] ELSE s

\* Every document of f is replaced.  (The comparison makes TLC evaluate the
\* result once; otherwise it would do so at every use.)
Replace(s, f) ==
    LET t == [d \in DOMAIN s |-> IF d \in DOMAIN f THEN f[d] ELSE s[d]] IN
    IF t = s THEN s ELSE t

\* In every surviving document of docs the field becomes the Count for its id.
Recount(s, docs, field, Count(_)) ==
    Replace(s, [d \in {e \in docs : Exists(s, e)} |->
                    [s[d] EXCEPT ![field] = Count(d[2])]])
=============================================================================
