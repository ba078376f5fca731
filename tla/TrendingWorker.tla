--------------------------- MODULE TrendingWorker ---------------------------
(***************************************************************************)
(* The trending workers (workers/_impl/trending.worker.impl.ts): consumers *)
(* of one group of the Redis stream stream:interactions.  They collect     *)
(* the ids of messages per post, read the posts from MongoDB, write their  *)
(* scores to Redis and only then acknowledge the messages.  What a         *)
(* consumer lost is claimed from the group after a while.                  *)
(*                                                                         *)
(* Of a post only a version counts: how many interactions it has seen, 0   *)
(* once it is deleted.  A score is known by the version it was computed    *)
(* from.                                                                   *)
(***************************************************************************)
EXTENDS Integers, FiniteSets

CONSTANTS
    Workers,        \* worker processes, one consumer each
    Posts,
    Messages,       \* messages of the stream
    ChunkSize,      \* CHUNK_SIZE, posts handled at once
    MaxVersion,     \* bound: version of a post
    MaxFaults,      \* bound: failures after which a chunk is queued again
    MaxLosses       \* bound: crashes, stops and lost answers

ASSUME ChunkSizeAssumption == ChunkSize \in Nat \ {0}
ASSUME BoundsAssumption == {MaxVersion, MaxFaults, MaxLosses} \subseteq Nat /\ MaxVersion > 0

VARIABLES
    db,         \* db[p]: version of post p in MongoDB
    msg,        \* msg[m]: post, its version when m was pushed, and where m is
    idle,       \* delivered messages not touched for RECLAIM_MIN_IDLE_MS
    score,      \* score[p]: version behind the score in trending:posts
    best,       \* history: the latest version ever written
    status,     \* status[w]: life of the worker
    pending,    \* pending[w][p]: ids collected for post p
    flush,      \* flush[w]: the flush going on
    claims,     \* claims[w]: ids about to be claimed
    refresh,    \* refresh[w]: versions a full refresh is about to write
    faults, losses

vars == <<db, msg, idle, score, best, status, pending, flush, claims, refresh, faults, losses>>

Versions == 0 .. MaxVersion
Nothing == [p \in Posts |-> {}]
NoRefresh == [p \in Posts |-> 0]

Message == [at : {"unsent", "stream", "delivered", "acked"}, post : Posts, ver : Versions]
Flush == [pc : {"idle", "reading", "writing", "acking"}, todo : [Posts -> SUBSET Messages],
          chunk : SUBSET Posts, read : [Posts -> Versions]]
NoFlush == [pc |-> "idle", todo |-> Nothing, chunk |-> {}, read |-> NoRefresh]

Init ==
    /\ db = [p \in Posts |-> 1]
    /\ msg \in {[m \in Messages |-> [at |-> "unsent", post |-> p, ver |-> 0]] : p \in Posts}
    /\ idle = {}
    /\ score = [p \in Posts |-> 0]
    /\ best = [p \in Posts |-> 0]
    /\ status = [w \in Workers |-> "up"]
    /\ pending = [w \in Workers |-> Nothing]
    /\ flush = [w \in Workers |-> NoFlush]
    /\ claims = [w \in Workers |-> {}]
    /\ refresh = [w \in Workers |-> NoRefresh]
    /\ faults = 0 /\ losses = 0

At(place) == {m \in Messages : msg[m].at = place}
Put(ms, place) == msg' = [m \in Messages |-> IF m \in ms THEN [msg[m] EXCEPT !.at = place] ELSE msg[m]]
Fault == faults < MaxFaults /\ faults' = faults + 1 /\ UNCHANGED losses
Loss == losses < MaxLosses /\ losses' = losses + 1 /\ UNCHANGED faults

\* Ids ms, by post.
ByPost(ms) == [p \in Posts |-> {m \in ms : msg[m].post = p}]
Merged(a, b) == [p \in Posts |-> a[p] \cup b[p]]
-----------------------------------------------------------------------------
(***************************************************************************)
(* Posts and the stream.                                                   *)
(***************************************************************************)

Interact(p) ==
    /\ db[p] \in 1 .. MaxVersion - 1
    /\ db' = [db EXCEPT ![p] = @ + 1]
    /\ UNCHANGED <<msg, idle, score, best, status, pending, flush, claims, refresh, faults, losses>>

DeletePost(p) ==
    /\ db[p] # 0
    /\ db' = [db EXCEPT ![p] = 0]
    /\ UNCHANGED <<msg, idle, score, best, status, pending, flush, claims, refresh, faults, losses>>

\* pushToStream, after the interaction was committed.
Push(m) ==
    /\ msg[m].at = "unsent"
    /\ \E p \in Posts : msg' = [msg EXCEPT ![m] = [at |-> "stream", post |-> p, ver |-> db[p]]]
    /\ UNCHANGED <<db, idle, score, best, status, pending, flush, claims, refresh, faults, losses>>

\* A delivered message reaches the minimum idle time.
GetsIdle(m) ==
    /\ msg[m].at = "delivered" /\ m \notin idle
    /\ idle' = idle \cup {m}
    /\ UNCHANGED <<db, msg, score, best, status, pending, flush, claims, refresh, faults, losses>>
-----------------------------------------------------------------------------
(***************************************************************************)
(* Reading and claiming.                                                   *)
(***************************************************************************)

\* handleStreamMessage: a worker that is stopping drops the message.
Collected(w, ms) ==
    pending' = IF status[w] = "stopping" THEN pending
               ELSE [pending EXCEPT ![w] = Merged(@, ByPost(ms))]

\* readLoopIteration.  The read a stopping worker waits for still happens.
Read(w) ==
    /\ status[w] \in {"up", "stopping"}
    /\ \E ms \in SUBSET At("stream") \ {{}} : Put(ms, "delivered") /\ Collected(w, ms)
    /\ UNCHANGED <<db, idle, score, best, status, flush, claims, refresh, faults, losses>>

\* The messages were delivered, the answer was not: the worker reads on, or,
\* after an error it does not retry, the read loop ends.
ReadFails(w) ==
    /\ status[w] = "up"
    /\ Loss
    /\ \E ms \in SUBSET At("stream") : Put(ms, "delivered")
    /\ status' \in {status, [status EXCEPT ![w] = "failed"]}
    /\ UNCHANGED <<db, idle, score, best, pending, flush, claims, refresh>>

\* reclaimStalledMessages: XPENDING, then XCLAIM of what is still idle.
FindStalled(w) ==
    /\ status[w] = "up" /\ claims[w] = {}
    /\ idle \cap At("delivered") # {}
    /\ claims' = [claims EXCEPT ![w] = idle \cap At("delivered")]
    /\ UNCHANGED <<db, msg, idle, score, best, status, pending, flush, refresh, faults, losses>>

Claimed(w) == claims[w] \cap idle \cap At("delivered")

\* Mutant: the messages were claimed for nothing.
ClaimDropping(w) ==
    /\ claims[w] # {}
    /\ idle' = idle \ Claimed(w)
    /\ claims' = [claims EXCEPT ![w] = {}]
    /\ UNCHANGED <<db, msg, score, best, status, pending, flush, refresh, faults, losses>>

Claim(w) ==
    /\ claims[w] # {}
    /\ Collected(w, Claimed(w))
    /\ idle' = idle \ Claimed(w)
    /\ claims' = [claims EXCEPT ![w] = {}]
    /\ UNCHANGED <<db, msg, score, best, status, flush, refresh, faults, losses>>

ClaimFails(w) ==
    /\ claims[w] # {}
    /\ Fault
    /\ idle' \in {idle, idle \ Claimed(w)}
    /\ claims' = [claims EXCEPT ![w] = {}]
    /\ UNCHANGED <<db, msg, score, best, status, pending, flush, refresh>>
-----------------------------------------------------------------------------
(***************************************************************************)
(* Flushing.                                                               *)
(***************************************************************************)

Started(w) ==
    /\ flush' = [flush EXCEPT ![w] = [NoFlush EXCEPT !.pc = "reading", !.todo = pending[w]]]
    /\ pending' = [pending EXCEPT ![w] = Nothing]

\* flushPending, by its timer.
StartFlush(w) ==
    /\ status[w] = "up" /\ flush[w].pc = "idle" /\ pending[w] # Nothing
    /\ Started(w)
    /\ UNCHANGED <<db, msg, idle, score, best, status, claims, refresh, faults, losses>>

Left(todo) == {p \in Posts : todo[p] # {}}
Chunks(todo) == {ps \in SUBSET Left(todo) :
                    \/ ps = Left(todo) /\ Cardinality(ps) <= ChunkSize
                    \/ Cardinality(ps) = ChunkSize}

\* The flush goes on with the other posts.
Continued(f) ==
    LET todo == [p \in Posts |-> IF p \in f.chunk THEN {} ELSE f.todo[p]] IN
    IF Left(todo) = {} THEN NoFlush ELSE [NoFlush EXCEPT !.pc = "reading", !.todo = todo]

\* requeueEntries for the chunk of flush f.
Requeued(w, f) == Merged(pending[w], [p \in Posts |-> IF p \in f.chunk THEN f.todo[p] ELSE {}])

\* findPostsByPublicIds for the next chunk, and the scores of what it found.
ReadPosts(w) ==
    /\ flush[w].pc = "reading"
    /\ \E ps \in Chunks(flush[w].todo) :
         flush' = [flush EXCEPT ![w] = [@ EXCEPT !.pc = "writing", !.chunk = ps,
                                        !.read = [p \in Posts |-> IF p \in ps THEN db[p] ELSE 0]]]
    /\ UNCHANGED <<db, msg, idle, score, best, status, pending, claims, refresh, faults, losses>>

\* The query fails: on to the next chunk.
ReadPostsFails(w) ==
    /\ flush[w].pc = "reading"
    /\ Fault
    /\ \E ps \in Chunks(flush[w].todo) :
         LET f == [flush[w] EXCEPT !.chunk = ps] IN
         /\ pending' = [pending EXCEPT ![w] = Requeued(w, f)]
         /\ flush' = [flush EXCEPT ![w] = Continued(f)]
    /\ UNCHANGED <<db, msg, idle, score, best, status, claims, refresh>>

\* The scores cannot be computed: the chunk is queued again, and the flush
\* ends with whatever chunks it has not reached.
PrepareFails(w) ==
    /\ flush[w].pc = "writing"
    /\ Loss
    /\ pending' = [pending EXCEPT ![w] = Requeued(w, flush[w])]
    /\ flush' = [flush EXCEPT ![w] = NoFlush]
    /\ UNCHANGED <<db, msg, idle, score, best, status, claims, refresh>>

\* Scores of the posts ps as versions read; a post that was not found has none.
Write(ps, read) ==
    LET found == {p \in ps : read[p] # 0} IN
    /\ score' = [p \in Posts |-> IF p \in found THEN read[p] ELSE score[p]]
    /\ best' = [p \in Posts |-> IF p \in found /\ read[p] > best[p] THEN read[p] ELSE best[p]]

WriteScores(w) ==
    /\ flush[w].pc = "writing"
    /\ Write(flush[w].chunk, flush[w].read)
    /\ flush' = [flush EXCEPT ![w].pc = "acking"]
    /\ UNCHANGED <<db, msg, idle, status, pending, claims, refresh, faults, losses>>

\* Some of the writes may have happened.
WriteScoresFails(w) ==
    /\ flush[w].pc = "writing"
    /\ Fault
    /\ \E ps \in SUBSET flush[w].chunk : Write(ps, flush[w].read)
    /\ pending' = [pending EXCEPT ![w] = Requeued(w, flush[w])]
    /\ flush' = [flush EXCEPT ![w] = Continued(flush[w])]
    /\ UNCHANGED <<db, msg, idle, status, claims, refresh>>

ToAck(f) == UNION {f.todo[p] : p \in f.chunk}

\* XACK, of messages whoever they were delivered to last.
Acked(ms) == Put(ms \cap At("delivered"), "acked") /\ idle' = idle \ ms

\* Mutant: the ids are taken when the posts have been written.
AckCollected(w) ==
    /\ flush[w].pc = "acking"
    /\ Acked(ToAck(flush[w]) \cup UNION {pending[w][p] : p \in flush[w].chunk})
    /\ flush' = [flush EXCEPT ![w] = Continued(flush[w])]
    /\ UNCHANGED <<db, score, best, status, pending, claims, refresh, faults, losses>>

Ack(w) ==
    /\ flush[w].pc = "acking"
    /\ Acked(ToAck(flush[w]))
    /\ flush' = [flush EXCEPT ![w] = Continued(flush[w])]
    /\ UNCHANGED <<db, score, best, status, pending, claims, refresh, faults, losses>>

\* Mutant: what has been collected since is replaced.
AckFailsOverwriting(w) ==
    /\ flush[w].pc = "acking"
    /\ Fault
    /\ pending' = [pending EXCEPT ![w] = [p \in Posts |-> IF p \in flush[w].chunk
                                                          THEN flush[w].todo[p] ELSE @[p]]]
    /\ flush' = [flush EXCEPT ![w] = Continued(flush[w])]
    /\ UNCHANGED <<db, msg, idle, score, best, status, claims, refresh>>

\* Redis may have acknowledged them all the same.
AckFails(w) ==
    /\ flush[w].pc = "acking"
    /\ Fault
    /\ Acked(ToAck(flush[w])) \/ UNCHANGED <<msg, idle>>
    /\ pending' = [pending EXCEPT ![w] = Requeued(w, flush[w])]
    /\ flush' = [flush EXCEPT ![w] = Continued(flush[w])]
    /\ UNCHANGED <<db, score, best, status, claims, refresh>>
-----------------------------------------------------------------------------
(***************************************************************************)
(* Full refresh: all posts, whether anything was heard of them or not.     *)
(***************************************************************************)

\* Mutant: the refresh of the start is the only one.
StartRefreshOnce(w) ==
    /\ status[w] = "up" /\ refresh[w] = NoRefresh /\ score = NoRefresh
    /\ refresh' = [refresh EXCEPT ![w] = db]
    /\ UNCHANGED <<db, msg, idle, score, best, status, pending, flush, claims, faults, losses>>

StartRefresh(w) ==
    /\ status[w] = "up" /\ refresh[w] = NoRefresh
    /\ refresh' = [refresh EXCEPT ![w] = db]
    /\ UNCHANGED <<db, msg, idle, score, best, status, pending, flush, claims, faults, losses>>

FinishRefresh(w) ==
    /\ refresh[w] # NoRefresh
    /\ Write(Posts, refresh[w])
    /\ refresh' = [refresh EXCEPT ![w] = NoRefresh]
    /\ UNCHANGED <<db, msg, idle, status, pending, flush, claims, faults, losses>>

RefreshFails(w) ==
    /\ refresh[w] # NoRefresh
    /\ Fault
    /\ \E ps \in SUBSET Posts : Write(ps, refresh[w])
    /\ refresh' = [refresh EXCEPT ![w] = NoRefresh]
    /\ UNCHANGED <<db, msg, idle, status, pending, flush, claims>>
-----------------------------------------------------------------------------
(***************************************************************************)
(* Life of a worker.                                                       *)
(***************************************************************************)

Settled(w) == flush[w].pc = "idle" /\ claims[w] = {} /\ refresh[w] = NoRefresh

\* start, after a start that failed in the same process or in a new one.
Start(w) ==
    /\ status[w] \in {"down", "failed"} /\ Settled(w)
    /\ status' = [status EXCEPT ![w] = "up"]
    /\ UNCHANGED <<db, msg, idle, score, best, pending, flush, claims, refresh, faults, losses>>

\* stop: the timers end, what is going on settles, one last flush, the end.
Stop(w) ==
    /\ status[w] \in {"up", "failed"}
    /\ Loss
    /\ status' = [status EXCEPT ![w] = "stopping"]
    /\ UNCHANGED <<db, msg, idle, score, best, pending, flush, claims, refresh>>

LastFlush(w) ==
    /\ status[w] = "stopping" /\ Settled(w)
    /\ status' = [status EXCEPT ![w] = "draining"]
    /\ IF pending[w] = Nothing THEN UNCHANGED <<pending, flush>> ELSE Started(w)
    /\ UNCHANGED <<db, msg, idle, score, best, claims, refresh, faults, losses>>

\* The process ends and takes its memory with it.
Ended(w) ==
    /\ status' = [status EXCEPT ![w] = "down"]
    /\ pending' = [pending EXCEPT ![w] = Nothing]
    /\ flush' = [flush EXCEPT ![w] = NoFlush]
    /\ claims' = [claims EXCEPT ![w] = {}]
    /\ refresh' = [refresh EXCEPT ![w] = NoRefresh]

Close(w) ==
    /\ status[w] = "draining" /\ flush[w].pc = "idle"
    /\ Ended(w)
    /\ UNCHANGED <<db, msg, idle, score, best, faults, losses>>

Crash(w) ==
    /\ status[w] # "down"
    /\ Loss
    /\ Ended(w)
    /\ UNCHANGED <<db, msg, idle, score, best>>
-----------------------------------------------------------------------------
Progress(w) ==
    \/ Claim(w) \/ ReadPosts(w) \/ WriteScores(w) \/ Ack(w) \/ FinishRefresh(w)
    \/ LastFlush(w) \/ Close(w)

Worker(w) ==
    \/ Progress(w) \/ Read(w) \/ FindStalled(w) \/ StartFlush(w) \/ StartRefresh(w) \/ Start(w)
    \/ ReadFails(w) \/ ClaimFails(w) \/ ReadPostsFails(w) \/ PrepareFails(w)
    \/ WriteScoresFails(w) \/ AckFails(w) \/ RefreshFails(w)
    \/ Stop(w) \/ Crash(w)

Next ==
    \/ \E p \in Posts : Interact(p) \/ DeletePost(p)
    \/ \E m \in Messages : Push(m) \/ GetsIdle(m)
    \/ \E w \in Workers : Worker(w)

Spec == Init /\ [][Next]_vars

\* Calls are answered, timers fire, time passes, and a process that ended is
\* started again.
Fairness ==
    /\ \A m \in Messages : WF_vars(GetsIdle(m))
    /\ \A w \in Workers :
         /\ WF_vars(Claim(w)) /\ WF_vars(ReadPosts(w)) /\ WF_vars(WriteScores(w))
         /\ WF_vars(Ack(w)) /\ WF_vars(FinishRefresh(w))
         /\ WF_vars(LastFlush(w)) /\ WF_vars(Close(w)) /\ WF_vars(Start(w))
         /\ WF_vars(Read(w)) /\ WF_vars(FindStalled(w))
         /\ WF_vars(StartFlush(w)) /\ WF_vars(StartRefresh(w))

FairSpec == Spec /\ Fairness
-----------------------------------------------------------------------------
(***************************************************************************)
(* Properties.                                                             *)
(***************************************************************************)

TypeOK ==
    /\ db \in [Posts -> Versions]
    /\ msg \in [Messages -> Message]
    /\ idle \subseteq Messages
    /\ score \in [Posts -> Versions] /\ best \in [Posts -> Versions]
    /\ status \in [Workers -> {"up", "failed", "stopping", "draining", "down"}]
    /\ pending \in [Workers -> [Posts -> SUBSET Messages]]
    /\ flush \in [Workers -> Flush]
    /\ claims \in [Workers -> SUBSET Messages]
    /\ refresh \in [Workers -> [Posts -> Versions]]
    /\ faults \in 0 .. MaxFaults /\ losses \in 0 .. MaxLosses

\* An acknowledged interaction has been in the score of its post, however
\* its flush raced with new messages, other consumers and failures.
AckedWasScored ==
    \A m \in At("acked") : db[msg[m].post] = 0 \/ best[msg[m].post] >= msg[m].ver

\* Without a crash, a stop or a lost answer, every message that waits for
\* its acknowledgement is in the memory of some worker: failed flushes put
\* back what they took.
InMemory(m) ==
    \E w \in Workers : \E p \in Posts : m \in pending[w][p] \cup flush[w].todo[p]
NothingForgotten == losses = 0 => \A m \in At("delivered") : InMemory(m)

\* Whatever was lost, in the end every message is acknowledged.
EveryMessageIsAcked == \A m \in Messages : msg[m].at = "stream" ~> msg[m].at = "acked"

\* A full refresh that read early and wrote late may put an older score over
\* a newer one whose message is already acknowledged; in the end the score
\* of every post there is shows all of its interactions.
ScoresCatchUp == <>[](\A p \in Posts : db[p] = 0 \/ score[p] = db[p])
=============================================================================
