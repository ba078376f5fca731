------------------------------ MODULE MCSocial ------------------------------
(***************************************************************************)
(* Small instances of Social for TLC.  The starting databases are built    *)
(* with the operators of the model, as an earlier history would have left  *)
(* them; from each of them a few commits are interleaved.                  *)
(***************************************************************************)
EXTENDS Social, TLC

CONSTANTS
    a, b, c,                \* two administrators and a user
    x1, x2, c1, c2, k1, p1, p2, w1, w2

CONSTANTS
    MaxWrites,      \* commits and single updates of a behaviour
    MaxFailures,    \* failures of starts, reads, loops and processes
    Scenes          \* which of the starting databases

VARIABLES writes, failures, scene

ThreeUsers == {a, b, c}
TwoPosts == {x1, x2}
TwoComments == {c1, c2}
OneCommunity == {k1}
TwoTxns == {p1, p2}
TwoServers == {w1, w2}
AllJobs == Users \X Posts
TxnSymmetry == Permutations(Txns)

-----------------------------------------------------------------------------
(* Starting databases.                                                     *)

NewAccount(admin) ==
    [isAdmin |-> admin, isBanned |-> FALSE, followers |-> 0, following |-> 0,
     posts |-> 0, joined |-> {}]

Fresh == [d \in Docs |->
    CASE d \in UserDocs -> NewAccount(d # User(c))
      [] d \in MemberDocs -> "none"
      [] d \in Relations \cup {Guard} -> FALSE
      [] OTHER -> Unborn]

Published(s, u, x, k) == Activated([s EXCEPT ![Post(x)] = NewPost(u, None, k, "pending")], x)
Reposted(s, u, y, x) ==
    Increment(Increment([s EXCEPT ![Post(y)] = NewPost(u, x, None, "active")],
                        Post(x), "reposts", 1), User(u), "posts", 1)
Founded(s, u, k) ==
    Joined([s EXCEPT ![Community(k)] = [creator |-> u, members |-> 1, posts |-> 0],
                     ![Member(u, k)] = "admin"], u, k)

\* a leads a community with b, who follows a; c has a post that waits.
Village == [Added(Followed(Founded(Fresh, a, k1), b, a, 1), b, k1)
                EXCEPT ![Post(x1)] = NewPost(c, None, k1, "pending")]

\* A post of c that b has liked and reposted, with a comment of c and an
\* answer of b, which a likes.
Thread ==
    LET discussed == Commented(Commented(Published(Fresh, c, x1, None), c, c1, x1, None),
                               b, c2, x1, c1)
        liked == Increment([Toggled(discussed, b, x1) EXCEPT ![CommentLike(a, c2)] = TRUE],
                           Comment(c2), "likes", 1) IN
    Reposted(liked, b, x2, x1)

\* b was banned; the answer is a tombstone.
Shell == purgeUser(Thread, b, "ban", [k \in Communities |-> None])

Database == [fresh |-> Fresh, village |-> Village, thread |-> Thread, shell |-> Shell,
             views |-> Published(Fresh, c, x1, None)]
MCStarts == {Database[n] : n \in Scenes}

-----------------------------------------------------------------------------
MCInit == Init /\ scene \in Scenes /\ db = Database[scene] /\ writes = 0 /\ failures = 0

\* A transaction is begun only while something may be written.
WithinBudget ==
    /\ writes' = writes + (IF db' # db THEN 1 ELSE 0)
    /\ writes' <= MaxWrites
    /\ \A p \in Txns : snap[p] = None /\ snap'[p] # None => writes < MaxWrites
    /\ failures' = failures + (IF calm /\ ~calm' THEN 1 ELSE 0)
    /\ failures' <= MaxFailures

\* Nothing but views asks for jobs, and no step of the queue reads or writes
\* the database: it is enough that the queue moves in the scene of that name,
\* where only views are written, and when no transaction is open.
QueueInItsScene ==
    /\ stores' = stores => scene = "views" /\ \A p \in Txns : snap[p] = None
    /\ scene = "views" => \A d \in Changed(db, db') : d \in PostDocs \/ d[1] = "view"

MCNext == Next /\ WithinBudget /\ QueueInItsScene /\ UNCHANGED scene

MCSpec == MCInit /\ [][MCNext]_<<vars, writes, failures, scene>>
=============================================================================
