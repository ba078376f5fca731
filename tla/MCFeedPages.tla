---------------------------- MODULE MCFeedPages ----------------------------
(***************************************************************************)
(* Small instances of FeedPages for TLC.  The reader finds posts that an   *)
(* earlier history has left: each an original, or a plain repost or a      *)
(* quote of an earlier one.                                                *)
(***************************************************************************)
EXTENDS FeedPages

CONSTANTS Prepared      \* number of the posts that are there

AllFeeds == {"trending", "ranked", "new"}
Trending == {"trending"}
OneSize == {1}
TwoSizes == {1, 2}

Histories ==
    {h \in [1 .. Prepared -> [of : 0 .. Prepared - 1, quote : BOOLEAN, status : {"active"}]] :
        \A x \in DOMAIN h : h[x].of < x /\ (h[x].of = 0 => ~h[x].quote)}

\* A snapshot of the source is stored: Histories stands for what happened
\* before the first one.
Taken(source) == \E g \in Generations : snapshots[source][g] # None
HasBegun == reader.pc # "idle" \/ reader.cursor # None \/ \E source \in Sources : Taken(source)

\* The next step of the reader reads posts, and not only a snapshot.
ReadsPosts ==
    /\ reader.pc # "store"
    /\ reader.pc = "idle" /\ reader.cursor # None => reader.cursor.phase = "new"

Deletions == {x \in Ids : posts[x].status = "gone"}

\* Steps that no page depends on are left out: any after the walk, and
\* snapshots that the reader does not look at.  A walk sees one deletion, and
\* pages of one post when a third post comes.
Matters ==
    /\ reader.pc \notin {"end", "refused"}
    /\ reader.cursor # None => reader'.limit = reader.limit
    /\ reader'.limit > 1 => Len(posts') = Prepared
    /\ faults' = 0 \/ generation' = 1
    /\ faults' # faults => reader.pc \in {"idle", "fill"}
    /\ posts' # posts => HasBegun /\ ReadsPosts
    /\ Deletions' # Deletions => Deletions = {}
    /\ snapshots'["redis"] # snapshots["redis"] => feed = "trending"
    /\ snapshots'["mongo"] # snapshots["mongo"] => feed # "new"
    /\ \E source \in Sources : \A g \in Generations : snapshots'[source][g] \in {None, <<>>}
    /\ \A source \in Sources, g \in Generations :
        snapshots'[source][g] \notin {None, snapshots[source][g]} =>
            \/ reader.pc = "idle" /\ reader.cursor = None
            \/ reader.pc = "store" /\ source = reader.source /\ g = reader.generation
    /\ generation' # generation \/ (\E source \in Sources : Taken(source) /\ ~Taken(source)')
        => reader.cursor # None /\ reader.pc \in {"idle", "collect"}

MCInit == \E h \in Histories : InitWith(h)
MCNext == Next /\ Matters
MCSpec == MCInit /\ [][MCNext]_vars /\ WF_vars(ReaderStep)
=============================================================================
