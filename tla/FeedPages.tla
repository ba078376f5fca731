----------------------------- MODULE FeedPages -----------------------------
(***************************************************************************)
(* A reader walks through a feed, page by page, while posts are published, *)
(* reposted, scored and deleted.                                           *)
(*                                                                         *)
(* The first page of a ranked feed takes a snapshot of the ranking, which  *)
(* is kept in Redis under the name of the feed and the current generation  *)
(* (five minutes) and shared by all readers; the cursor is an offset into  *)
(* it.  The trending feed takes the ranking from the sorted set of the     *)
(* trending worker, or from MongoDB when that is empty or out of reach,    *)
(* and goes on with the New feed, which is read live: its cursor is the    *)
(* place of the last post, and what the first part has shown is excluded   *)
(* by a second snapshot.  A feed shows a post and its plain reposts as one *)
(* "visible identity".                                                     *)
(*                                                                         *)
(* Reads of a request that may see different posts or snapshots are steps. *)
(* Scores are not modelled: a ranking has any members in any order.  A     *)
(* cursor is the record it encodes; signatures, scopes and the expiry of   *)
(* cursors only refuse requests.  Other readers are visible through the    *)
(* snapshots they store (AnotherBuilds).                                   *)
(***************************************************************************)
EXTENDS Integers, Sequences, FiniteSets, SequencesExt

CONSTANTS
    MaxPosts,       \* bound on the posts that are made
    MaxGenerations, \* bound on the generations of snapshots
    MaxFaults,      \* bound on failed requests and lost answers
    Limits,         \* page sizes a client asks for
    Feeds,          \* feeds the reader may walk through
    None

Sources == {"redis", "mongo"}
Generations == 1 .. MaxGenerations

\* What the exclusion of a page and the two kinds of cursor carry.
Exclusion == [ids : SUBSET Nat, generation : Generations]
ListCursor == [phase : {"list"}, source : Sources, generation : Generations, offset : Nat]
LiveCursor == [phase : {"new"}, exclusion : Exclusion \cup {None}, before : Nat]

ASSUME FeedAssumptions ==
    /\ MaxPosts \in Nat /\ MaxGenerations \in Nat \ {0} /\ MaxFaults \in Nat
    /\ Limits \subseteq Nat \ {0}
    /\ Feeds \subseteq {"trending", "ranked", "new"}
    /\ None \notin Exclusion \cup ListCursor \cup LiveCursor /\ None \notin Seq(Nat)

VARIABLES
    posts,          \* the posts in the order of (createdAt, _id): status, what
                    \* they repost (or 0), and whether they say more than it
    snapshots,      \* the ranking stored for a source and a generation
    exclusions,     \* stored sets of identities the New feed leaves out
    generation,     \* number of the current five minutes
    feed,           \* the feed the reader walks through
    reader,         \* the request of the reader, and the cursor it holds
    shown,          \* history: the posts on the pages it got
    steady,         \* history: identities no post of which was made or
                    \* deleted since the request for the first page
    faults          \* failures so far

vars == <<posts, snapshots, exclusions, generation, feed, reader, shown, steady, faults>>
content == <<posts, generation, steady>>

Ids == 1 .. Len(posts)

-----------------------------------------------------------------------------
(* Posts.                                                                  *)

IsActive(x) == posts[x].status = "active"
Active == {x \in Ids : IsActive(x)}

\* A repost with neither body nor image stands for what it reposts.  It is made
\* with or without them; that it may be edited later (UpdatePostCommandHandler)
\* is left out, so an identity does not change.
Identity(x) == IF posts[x].of # 0 /\ ~posts[x].quote THEN posts[x].of ELSE x

\* What the handler of the trending feed takes for the identity of a post
\* that it has read: repostOf?.publicId ?? publicId.
NameOf(x) == IF posts[x].of # 0 THEN posts[x].of ELSE x

Identities == {Identity(x) : x \in Active}
Newest(v) == CHOOSE x \in Active : Identity(x) = v /\ \A y \in Active : Identity(y) = v => y <= x

\* The members of a set of numbers, the smallest first.
InOrder(S) ==
    CHOOSE s \in [1 .. Cardinality(S) -> S] : \A i, j \in DOMAIN s : i < j => s[i] < s[j]

\* buildNewFeedPipeline: the newest post of each identity, newest first,
\* without the excluded identities and behind the cursor.
NewFeed(seen, before) ==
    Reverse(InOrder({x \in {Newest(v) : v \in Identities \ seen} : before # 0 => x < before}))

Publish(of, quote, status) ==
    /\ Len(posts) < MaxPosts
    /\ posts' = Append(posts, [of |-> of, quote |-> quote, status |-> status])

\* A post gets its place with its creation and is visible after its upload.
CreatePost ==
    /\ Publish(0, FALSE, "pending")
    /\ UNCHANGED <<snapshots, exclusions, generation, feed, reader, shown, steady, faults>>

ActivatePost(x) ==
    /\ posts[x].status = "pending"
    /\ posts' = [posts EXCEPT ![x].status = "active"]
    /\ UNCHANGED <<snapshots, exclusions, generation, feed, reader, shown, steady, faults>>

Repost(x, quote) ==
    /\ IsActive(x)
    /\ Publish(x, quote, "active")
    /\ steady' = IF quote THEN steady ELSE steady \ {x}
    /\ UNCHANGED <<snapshots, exclusions, generation, feed, reader, shown, faults>>

\* The graph of a post: the least set with the reposts of all its members.
Graph(x) ==
    {y \in Ids : \A S \in SUBSET Ids :
        x \in S /\ (\A z \in Ids : posts[z].of \in S => z \in S) => y \in S}

\* Deleting a post, or taking back a repost, deletes the graph of its reposts.
DeletePost(x) ==
    LET removed == Active \cap Graph(x) IN
    /\ IsActive(x)
    /\ posts' = [y \in Ids |-> IF y \in removed THEN [posts[y] EXCEPT !.status = "gone"]
                               ELSE posts[y]]
    /\ steady' = steady \ {Identity(y) : y \in removed}
    /\ UNCHANGED <<snapshots, exclusions, generation, feed, reader, shown, faults>>

-----------------------------------------------------------------------------
(* Snapshots.                                                              *)

\* buildRedisSnapshot lists the members of the sorted set as they are: any of
\* the posts that were ever active, as a deleted post leaves the set later, and
\* the worker may put it back.  The pipelines list active posts, one of each
\* identity.
RedisRankings == SetToAllKPermutations({x \in Ids : posts[x].status # "pending"})
MongoRankings ==
    {l \in SetToAllKPermutations(Active) :
        \A i, j \in DOMAIN l : Identity(l[i]) = Identity(l[j]) => i = j}
Rankings(source) == IF source = "redis" THEN RedisRankings ELSE MongoRankings

\* SET with NX, then GET: the first ranking stored under a name stays.
Stored(source, g, list) ==
    IF snapshots[source][g] = None THEN [snapshots EXCEPT ![source][g] = list] ELSE snapshots

\* Another request takes the snapshot of the generation.
AnotherBuilds(source) ==
    /\ snapshots[source][generation] = None
    /\ \E list \in Rankings(source) : snapshots' = Stored(source, generation, list)
    /\ UNCHANGED <<content, exclusions, feed, reader, shown, faults>>

NextGeneration ==
    /\ generation < MaxGenerations
    /\ generation' = generation + 1
    /\ UNCHANGED <<posts, snapshots, exclusions, feed, reader, shown, steady, faults>>

\* A snapshot lives for an hour, far longer than its generation.
Expire(source, g) ==
    /\ g < generation
    /\ snapshots[source][g] # None
    /\ snapshots' = [snapshots EXCEPT ![source][g] = None]
    /\ UNCHANGED <<content, exclusions, feed, reader, shown, faults>>

ExpireExclusion(e) ==
    /\ e.generation < generation
    /\ exclusions' = exclusions \ {e}
    /\ UNCHANGED <<content, snapshots, feed, reader, shown, faults>>

-----------------------------------------------------------------------------
(* A request for a page.                                                   *)

At(pc) == reader.pc = pc
Step(pc, next) == At(pc) /\ reader' = next
Goto(pc) == [reader EXCEPT !.pc = pc]

\* Only the reader changes.
ReaderOnly == UNCHANGED <<content, snapshots, exclusions, feed, shown, faults>>

\* getOrCreateFeedCursorSnapshot: the snapshot of the generation, or a new one.
\* The New feed takes none.
LookUp(source) ==
    LET found == snapshots[source][generation]
        request == [reader EXCEPT !.source = source, !.generation = generation, !.offset = 0] IN
    IF feed = "new" THEN [request EXCEPT !.pc = "fill"]
    ELSE IF found = None THEN [request EXCEPT !.pc = "build"]
    ELSE [request EXCEPT !.pc = "read", !.list = found]

\* The request for the first page.  What it must show is what is there now.
FirstSource == IF feed = "trending" THEN "redis" ELSE "mongo"

Begins ==
    /\ reader.cursor = None
    /\ steady' = Identities
    /\ UNCHANGED <<posts, generation, snapshots, exclusions, feed, shown>>

Open(limit) ==
    /\ At("idle")
    /\ reader' = [LookUp(FirstSource) EXCEPT !.limit = limit]
    /\ Begins
    /\ UNCHANGED faults

\* Redis fails at the ranking and answers again: the handler falls back.
OpenWithoutRanking(limit) ==
    /\ At("idle")
    /\ feed = "trending"
    /\ faults < MaxFaults
    /\ faults' = faults + 1
    /\ reader' = [LookUp("mongo") EXCEPT !.limit = limit]
    /\ Begins

\* requireFeedCursorSnapshot: without its snapshot a cursor is refused.
Continue(limit) ==
    LET cursor == reader.cursor IN
    /\ cursor # None
    /\ cursor.phase = "list"
    /\ LET list == snapshots[cursor.source][cursor.generation] IN
       Step("idle", IF list = None THEN Goto("refused")
                    ELSE [reader EXCEPT !.pc = "read", !.limit = limit, !.list = list,
                                        !.source = cursor.source, !.offset = cursor.offset,
                                        !.generation = cursor.generation])
    /\ ReaderOnly

\* Wrong: the loser of SET NX goes on with the ranking it has built.
StoreOwn ==
    /\ Step("store", Goto("read"))
    /\ snapshots' = Stored(reader.source, reader.generation, reader.list)
    /\ UNCHANGED <<content, exclusions, feed, shown, faults>>

Build ==
    /\ At("build")
    /\ \E list \in Rankings(reader.source) :
         reader' = [reader EXCEPT !.pc = "store", !.list = list]
    /\ ReaderOnly

Store ==
    LET stored == Stored(reader.source, reader.generation, reader.list) IN
    /\ Step("store", [reader EXCEPT !.pc = "read", !.list = stored[reader.source][reader.generation]])
    /\ snapshots' = stored
    /\ UNCHANGED <<content, exclusions, feed, shown, faults>>

-----------------------------------------------------------------------------
(* Pages of a ranking.                                                     *)

Take(s, n) == SubSeq(s, 1, Min({Len(s), n}))
Entries(places) == [i \in DOMAIN places |-> reader.list[places[i]]]

\* The posts at these places of the ranking that exist.
Existing(places) == InOrder({i \in places : IsActive(reader.list[i])})

\* Wrong: the next page starts behind the posts found, not behind the entries.
PageByPosts ==
    LET end == Min({Len(reader.list), reader.offset + reader.limit})
        found == Existing(reader.offset + 1 .. end) IN
    [data |-> Entries(found),
     next |-> reader.offset + Len(found),
     more |-> reader.offset + Len(found) < Len(reader.list)]

\* Of the sorted set: a slice of the snapshot, and those posts of it that exist.
RedisPage ==
    LET end == Min({Len(reader.list), reader.offset + reader.limit}) IN
    [data |-> Entries(Existing(reader.offset + 1 .. end)),
     next |-> end,
     more |-> end < Len(reader.list)]

\* readScoreSnapshotPage: the next posts that exist, however far they are.
MongoPage ==
    LET found == Existing(reader.offset + 1 .. Len(reader.list))
        taken == Take(found, reader.limit) IN
    [data |-> Entries(taken),
     next |-> IF taken = <<>> THEN Len(reader.list) ELSE Last(taken),
     more |-> Len(found) > reader.limit]

NothingSeen == [ids |-> {}, names |-> {}]

Page == IF reader.source = "redis" THEN RedisPage ELSE MongoPage

\* The answer: a page, and the cursor of the next one or the end.
Respond(data, cursor) ==
    /\ reader' = [reader EXCEPT !.pc = IF cursor = None THEN "end" ELSE "idle", !.cursor = cursor,
                                !.offset = 0, !.data = <<>>, !.exclusion = None]
    /\ shown' = shown \o data
    /\ UNCHANGED <<content, snapshots, exclusions, feed, faults>>

\* The sorted set was empty when its snapshot was taken.
RankingIsEmpty == reader.source = "redis" /\ reader.list = <<>>

TurnToMongo ==
    /\ RankingIsEmpty
    /\ Step("read", LookUp("mongo"))
    /\ ReaderOnly

ReadPage ==
    LET page == Page
        cursor == [phase |-> "list", source |-> reader.source,
                   generation |-> reader.generation, offset |-> page.next] IN
    /\ At("read")
    /\ ~RankingIsEmpty
    /\ page.more \/ feed = "ranked"
    /\ Respond(page.data, IF page.more THEN cursor ELSE None)

\* The last page of the trending posts is filled up with new ones.
ReadLastPage ==
    LET page == Page IN
    /\ At("read")
    /\ ~RankingIsEmpty
    /\ ~page.more
    /\ feed = "trending"
    /\ reader' = [reader EXCEPT !.pc = "collect", !.data = page.data, !.offset = page.next]
    /\ ReaderOnly

-----------------------------------------------------------------------------
(* From the trending posts to the New feed.                                *)

\* collectVisibleInternalIds reads the snapshot again.  That of MongoDB holds
\* the identities of its entries; for that of the sorted set the posts that
\* still exist are read, and what they repost stands for them.
Seen(source, list, data) ==
    IF source = "mongo" THEN [ids |-> {Identity(x) : x \in ToSet(list)},
                              names |-> {NameOf(x) : x \in ToSet(data)}]
    ELSE [ids |-> {},
          names |-> {NameOf(x) : x \in {y \in ToSet(list) : IsActive(y)} \cup ToSet(data)}]

\* A failed request leaves the client with the cursor it had.
Abandoned == [reader EXCEPT !.pc = "idle", !.offset = 0, !.data = <<>>, !.exclusion = None]

Collect ==
    LET list == snapshots[reader.source][reader.generation] IN
    /\ Step("collect",
            IF list = None THEN Abandoned
            ELSE [reader EXCEPT !.pc = "resolve",
                                !.seen = Seen(reader.source, Take(list, reader.offset), reader.data)])
    /\ ReaderOnly

\* findInternalIdsByPublicIds finds those that still exist; what was seen is
\* stored under the hash of its members, unless there is nothing to exclude.
Resolve ==
    LET ids == reader.seen.ids \cup {x \in reader.seen.names : IsActive(x)}
        exclusion == IF ids = {} THEN None ELSE [ids |-> ids, generation |-> generation] IN
    /\ Step("resolve", [reader EXCEPT !.pc = "fill", !.seen = NothingSeen, !.exclusion = exclusion])
    /\ exclusions' = exclusions \cup ({exclusion} \ {None})
    /\ UNCHANGED <<content, snapshots, feed, shown, faults>>

\* The cursor of the New feed names what is excluded and the last post.
NewCursor(exclusion, before) == [phase |-> "new", exclusion |-> exclusion, before |-> before]

\* Wrong: the cursor names the post that only told that there are more.
PageToSentinel(exclusion, before, limit) ==
    LET found == NewFeed(IF exclusion = None THEN {} ELSE exclusion.ids, before)
        data == Take(found, limit + 1) IN
    [data |-> Take(data, limit),
     cursor |-> IF Len(data) > limit THEN NewCursor(exclusion, Last(data)) ELSE None]

\* getNewFeedWithCursor: one post more than asked for tells whether there are more.
NewPage(exclusion, before, limit) ==
    LET found == NewFeed(IF exclusion = None THEN {} ELSE exclusion.ids, before)
        data == Take(found, limit) IN
    [data |-> data,
     cursor |-> IF Len(found) > limit THEN NewCursor(exclusion, Last(data)) ELSE None]

Missing == reader.limit - Len(reader.data)

\* What the page lacks comes from the head of the New feed.
Fill ==
    LET page == NewPage(reader.exclusion, 0, Missing) IN
    /\ At("fill")
    /\ Missing > 0
    /\ Respond(reader.data \o page.data, page.cursor)

\* The page is full: a glance tells whether the New feed has anything, and
\* its cursor is what was excluded.  Without that there is no cursor to
\* encode, and the request fails.
Peek ==
    LET isMore == NewPage(reader.exclusion, 0, 1).data # <<>> IN
    /\ At("fill")
    /\ Missing = 0
    /\ IF isMore /\ reader.exclusion = None
       THEN reader' = Abandoned /\ ReaderOnly
       ELSE Respond(reader.data, IF isMore THEN NewCursor(reader.exclusion, 0) ELSE None)

\* A page of the New feed, which refuses a cursor without its exclusions.
ContinueNew(limit) ==
    LET cursor == reader.cursor
        page == NewPage(cursor.exclusion, cursor.before, limit) IN
    /\ At("idle")
    /\ cursor # None
    /\ cursor.phase = "new"
    /\ IF cursor.exclusion \in exclusions \cup {None}
       THEN Respond(page.data, page.cursor)
       ELSE reader' = Goto("refused") /\ ReaderOnly

\* A request fails, or its answer is lost.
Fail ==
    /\ reader.pc \notin {"idle", "end", "refused"}
    /\ faults < MaxFaults
    /\ faults' = faults + 1
    /\ reader' = Abandoned
    /\ UNCHANGED <<content, snapshots, exclusions, feed, shown>>

-----------------------------------------------------------------------------
(* The specification.                                                      *)

InitWith(h) ==
    /\ posts = h
    /\ snapshots = [source \in Sources |-> [g \in Generations |-> None]]
    /\ exclusions = {}
    /\ generation = 1
    /\ feed \in Feeds
    /\ reader = [pc |-> "idle", cursor |-> None, limit |-> 0, source |-> "mongo", generation |-> 1,
                 list |-> <<>>, offset |-> 0, data |-> <<>>, seen |-> NothingSeen, exclusion |-> None]
    /\ shown = <<>>
    /\ steady = {}
    /\ faults = 0

Init == InitWith(<<>>)

\* What a client that goes on asking makes happen.
ReaderStep ==
    \/ \E limit \in Limits : Open(limit) \/ Continue(limit) \/ ContinueNew(limit)
    \/ Build
    \/ Store
    \/ TurnToMongo
    \/ ReadPage
    \/ ReadLastPage
    \/ Collect
    \/ Resolve
    \/ Fill
    \/ Peek

PostsChange ==
    \/ CreatePost
    \/ \E x \in Ids : ActivatePost(x) \/ DeletePost(x)
    \/ \E x \in Ids, quote \in BOOLEAN : Repost(x, quote)

SnapshotsChange ==
    \/ NextGeneration
    \/ \E source \in Sources : AnotherBuilds(source) \/ \E g \in Generations : Expire(source, g)
    \/ \E e \in exclusions : ExpireExclusion(e)

Next ==
    \/ ReaderStep
    \/ PostsChange
    \/ SnapshotsChange
    \/ \E limit \in Limits : OpenWithoutRanking(limit)
    \/ Fail

Spec == Init /\ [][Next]_vars
FairSpec == Spec /\ WF_vars(ReaderStep)

-----------------------------------------------------------------------------
(* Properties.                                                             *)

\* The reader has the first post of an identity and then another or the same.
Repeated(i, j) == i < j /\ Identity(shown[i]) = Identity(shown[j])

\* No identity comes twice, though pages are read at different times, from two
\* sources and while posts change, except that
\*  - the post that stood for it was deleted and another one takes its place,
\*  - the sorted set ranks a post and its repost, and lists both,
\*  - it is a quote that the sorted set ranks: the handler takes it for what it
\*    quotes, excludes that, and shows the quote again.
RepeatsAreExplained ==
    \A i, j \in DOMAIN shown : Repeated(i, j) =>
        LET first == shown[i] IN
        \/ posts[first].status = "gone"
        \/ /\ reader.source = "redis"
           /\ first \in ToSet(reader.list)
           /\ \/ shown[j] \in ToSet(reader.list) \ {first}
              \/ posts[first].quote

\* The end is reached only after every identity that was there from the first
\* page on, and none of whose posts was made or deleted since.  Left out are
\*  - of a ranked feed, what its snapshot does not rank,
\*  - what a snapshot ranks with a post that has been deleted since it was
\*    taken, until the next snapshot,
\*  - what a post quotes that was shown in the first part.
Ranked(v) == \E x \in ToSet(reader.list) : Identity(x) = v
Orphaned(v) ==
    reader.source = "mongo" /\ \E x \in ToSet(reader.list) : Identity(x) = v /\ ~IsActive(x)
Quoted(v) == \E x \in ToSet(shown) : posts[x].quote /\ posts[x].of = v

NothingIsSkipped ==
    reader.pc = "end" =>
        \A v \in steady :
            \/ v \in {Identity(x) : x \in ToSet(shown)}
            \/ feed = "ranked" /\ ~Ranked(v)
            \/ Orphaned(v)
            \/ feed = "trending" /\ Quoted(v)

\* Who goes on asking reaches the end, or is refused because the snapshot of
\* the cursor has expired: no cursor leads back to where the reader has been.
EveryTraversalEnds == <>(reader.pc \in {"end", "refused"})

\* Why it does: the cursor of a page that is answered is further on than the
\* one it was asked with, in the same snapshot or in the New feed, and never
\* turns back from the New feed to a snapshot or to other exclusions.  Nothing
\* is further on for ever, so a walk has finitely many pages, however many posts
\* are made while it lasts.
Further(cursor, next) ==
    \/ /\ cursor.phase = "list" /\ next.phase = "list"
       /\ next.source = cursor.source /\ next.generation = cursor.generation
       /\ cursor.offset < next.offset
    \/ cursor.phase = "list" /\ next.phase = "new"
    \/ /\ cursor.phase = "new" /\ next.phase = "new"
       /\ next.exclusion = cursor.exclusion
       /\ next.before # 0 /\ (cursor.before = 0 \/ next.before < cursor.before)

Answered ==
    \/ shown' # shown
    \/ reader'.cursor # reader.cursor
    \/ At("read") /\ At("idle")' /\ faults' = faults

Advance ==
    /\ reader.pc \in {"end", "refused"} => reader' = reader
    /\ Answered => \/ reader.cursor = None
                   \/ reader'.cursor = None /\ At("end")'
                   \/ reader'.cursor # None /\ Further(reader.cursor, reader'.cursor)

CursorsAdvance == [][Advance]_vars

-----------------------------------------------------------------------------
(* The inductive invariant the proofs use.                                 *)

Gone(x) == posts[x].status = "gone"

PcSet == {"idle", "build", "store", "read", "collect", "resolve", "fill", "end", "refused"}
Post == [of : Nat, quote : BOOLEAN, status : {"pending", "active", "gone"}]
Reader == [pc : PcSet, cursor : ListCursor \cup LiveCursor \cup {None}, limit : Nat,
           source : Sources, generation : Generations, list : Seq(Nat), offset : Nat,
           data : Seq(Nat), seen : [ids : SUBSET Nat, names : SUBSET Nat],
           exclusion : Exclusion \cup {None}]

TypeOK ==
    /\ posts \in Seq(Post)
    /\ snapshots \in [Sources -> [Generations -> Seq(Nat) \cup {None}]]
    /\ exclusions \subseteq Exclusion
    /\ generation \in Generations
    /\ feed \in Feeds
    /\ reader \in Reader
    /\ shown \in Seq(Nat)
    /\ steady \subseteq Nat
    /\ faults \in Nat

\* A post refers to an earlier one, which lives as long as it does.
PostsAreLinked ==
    \A x \in Ids :
        /\ posts[x].of < x
        /\ posts[x].of = 0 => ~posts[x].quote
        /\ posts[x].status = "pending" => posts[x].of = 0
        /\ IsActive(x) /\ posts[x].of # 0 => IsActive(posts[x].of)

\* What a snapshot holds, whatever happened to its posts since it was taken.
IsRanking(source, l) ==
    /\ l \in Seq(Ids)
    /\ \A i \in DOMAIN l : posts[l[i]].status # "pending"
    /\ \A i, j \in DOMAIN l : l[i] = l[j] => i = j
    /\ source = "mongo" => \A i, j \in DOMAIN l : Identity(l[i]) = Identity(l[j]) => i = j

SnapshotsAreRankings ==
    \A source \in Sources, g \in Generations :
        snapshots[source][g] # None => IsRanking(source, snapshots[source][g])

\* The snapshot of the reader is the list it has, or was and is no more.
IsKept ==
    \/ snapshots[reader.source][reader.generation] = reader.list
    \/ snapshots[reader.source][reader.generation] = None /\ reader.generation < generation

\* The posts of the pages so far, and of the one that is being put together.
Got(data) == ToSet(shown) \cup ToSet(data)
GotWereActive == \A x \in Got(reader.data) : x \in Ids /\ posts[x].status # "pending"

\* The list has been shown up to a place: posts of that part of it, each once,
\* and all that still exist.
ListIsShown(place, data) ==
    /\ place <= Len(reader.list)
    /\ \A x \in Got(data) : \E i \in 1 .. place : reader.list[i] = x
    /\ \A i \in 1 .. place : IsActive(reader.list[i]) => reader.list[i] \in Got(data)
    /\ \A i, j \in DOMAIN (shown \o data) : (shown \o data)[i] = (shown \o data)[j] => i = j

\* Why an identity may be left out: NothingIsSkipped says the same at the end.
IsExplained(v, data) ==
    \/ \E x \in Got(data) : Identity(x) = v
    \/ Orphaned(v)
    \/ \E x \in Got(data) : posts[x].quote /\ posts[x].of = v

\* What was collected from the pages is enough, and not too much.
SeenIsRight ==
    /\ \A x \in Got(reader.data) :
        \/ Gone(x)
        \/ Identity(x) \in reader.seen.ids \cup reader.seen.names
        \/ reader.source = "redis" /\ posts[x].quote
    /\ \A v \in reader.seen.ids \cup reader.seen.names : IsExplained(v, reader.data)

\* So is an exclusion, together with the place in the New feed.
Excluded(exclusion) == IF exclusion = None THEN {} ELSE exclusion.ids

LiveIsShown(exclusion, before, data) ==
    /\ \A x \in Got(data) :
        \/ Gone(x)
        \/ Identity(x) \in Excluded(exclusion)
        \/ reader.source = "redis" /\ x \in ToSet(reader.list) /\ posts[x].quote
        \/ before # 0 /\ before <= x
    /\ \A v \in Excluded(exclusion) : IsExplained(v, data)
    /\ Excluded(exclusion) # {} => feed = "trending"
    /\ \A v \in steady :
        \/ v \in Excluded(exclusion)
        \/ \E x \in Got(data) : Identity(x) = v
        \/ before = 0
        \/ Newest(v) < before

\* What the reader relies on between its requests, ...
CursorInv ==
    /\ reader.cursor = None /\ reader.pc # "end" => shown = <<>>
    /\ reader.pc = "end" => reader.cursor = None
    /\ reader.cursor \in ListCursor =>
        /\ reader.pc \notin {"build", "store"}
        /\ feed # "new"
        /\ reader.cursor.source = reader.source
        /\ reader.cursor.generation = reader.generation
        /\ reader.cursor.offset < Len(reader.list)
        /\ ListIsShown(reader.cursor.offset, <<>>)
        /\ IsKept
    /\ reader.cursor \in LiveCursor =>
        /\ reader.pc \in {"idle", "refused"}
        /\ feed # "ranked"
        /\ LiveIsShown(reader.cursor.exclusion, reader.cursor.before, <<>>)

\* ... and in the course of one.
HasList == reader.pc \notin {"idle", "build"} \/ reader.cursor # None

RequestInv ==
    /\ reader.source = "redis" => feed = "trending"
    /\ feed = "new" => reader.list = <<>>
    /\ HasList => IsRanking(reader.source, reader.list)
    /\ reader.pc \in {"build", "store", "read"} => feed # "new"
    /\ reader.pc \in {"collect", "resolve"} => feed = "trending"
    /\ reader.pc = "fill" => feed # "ranked"
    /\ reader.pc \notin {"collect", "resolve", "fill"} => reader.data = <<>>
    /\ reader.pc # "fill" => reader.exclusion = None
    /\ reader.pc \in {"build", "store"} => reader.offset = 0
    /\ reader.pc \notin {"idle", "end", "refused"} => reader.limit # 0
    /\ reader.pc \in {"read", "collect"} => IsKept
    /\ reader.pc \in {"read", "collect", "resolve", "fill"} => ListIsShown(reader.offset, reader.data)
    /\ reader.pc = "resolve" => SeenIsRight
    /\ reader.pc = "fill" => LiveIsShown(reader.exclusion, 0, reader.data)

\* A page is read from where the cursor says.
ReadsOnward == reader.pc = "read" /\ reader.cursor # None => reader.offset = reader.cursor.offset

IInv ==
    /\ TypeOK
    /\ PostsAreLinked
    /\ SnapshotsAreRankings
    /\ steady \subseteq Identities
    /\ GotWereActive
    /\ CursorInv
    /\ RequestInv
    /\ RepeatsAreExplained
    /\ NothingIsSkipped
=============================================================================
