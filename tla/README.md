# A TLA+ model of Ascendance

Ascendance is a social network: a React frontend and a Node/TypeScript backend
over MongoDB (a replica set with transactions) and Redis. This directory holds
TLA+ modules for the parts of the backend whose correctness depends on the order
of things, TLC configurations that check them on small instances, and proofs
that the TLA+ proof system checks for all instances. Source paths are relative
to `src/backend/src/` unless they say otherwise.

1. Inventory: parts, state, operations, properties
2. How the parts interact
3. Modules, and how they correspond to the code
4. Runs: what is checked, with which bounds
5. Fairness
6. Proofs
7. Findings
8. What is not modelled
9. Plan

To check a run: `tlc -config MCOutbox_safety.cfg MCOutbox`. To check the proofs
of a module: `tlapm OutboxProofs.tla`.

## 1. Inventory

`PROJECT.json` lists every component with its files. The ones with state of
their own, and what can go wrong in them:

| Component | State | Operations | What is hard | What makes it correct |
|---|---|---|---|---|
| **Transactional outbox** `workers/outbox.worker.ts`, `repositories/outbox.repository.ts` | one document per event: `processed`, `retries`, `processing`, `processingOwner`, `processingStartedAt`, `nextAttemptAt`, `exhaustedAt`, `processedHandlers` | save in the author's transaction, claim, renew, checkpoint, complete, fail, requeue, purge | competing workers that crash, stall past the claim timeout and go on with an old record; lost answers | at-least-once delivery to every handler; checkpointed handlers do not run again; every event settles |
| **Unit of work** `database/UnitOfWork.ts` | permits and queue of the semaphore; session, attempt counters and error of each call | acquire, body, commit, abort, retry, release | errors that leave the outcome of a commit unknown; timers that race with releases | writes at most once; the reported outcome is true; no permit is lost |
| **Authentication sessions** `services/auth-session.service.ts`, `services/redis/redis-session.module.ts` | Redis hash per session, set of session ids per user, `authVersion` and `isBanned` in MongoDB, cookies | login, refresh (rotation with reuse detection), access, logout, revoke all, password change, ban | overlapping refreshes of one browser, lost responses, cleanup in Redis that fails after the commit in MongoDB | one successor per token; old sessions and banned users are refused; a revoked session stays revoked |
| **Trending stream worker** `workers/_impl/trending.worker.impl.ts` | Redis stream with pending list, ids collected per post, flush in progress, sorted set of scores | read, claim, flush in chunks, acknowledge, full refresh, stop | messages claimed from a slow owner, chunks that fail, refreshes that overwrite newer scores | no acknowledgement before the score is written; nothing forgotten; scores catch up |
| **Direct messaging and its notifications** `application/commands/messaging/*`, `application/events/{message,notification}/*` | conversations (participants, hidden, cleared, unread counts, lock), messages, notifications, outbox events | send, initiate, mark read, clear, edit, delete, lock, purge, ban or delete an account, notify | any two of these at once under snapshot isolation; handlers that check outside of a transaction | counters fit messages; nothing is written to a locked or closed conversation; a purge is complete |
| **Transaction queue** `services/transaction-queue.service.ts` | a Redis list, the job in the hand of each loop, start promise and processing flag of each process | hand over, push, start, pop, run, push back, give up; crash of a loop or a process | a popped job exists in one process only; a loop that nothing but a push starts | a job is in one place and ends once; what waits has a loop |
| **Administrators guard** `services/admin-removal-guard.service.ts` | guard document, flags of the accounts | ban, delete, demote; promote and unban outside of transactions | write skew: each removal counts the administrator the other one removes | an active administrator remains |
| **Post views** `application/commands/post/recordPostView` | Bloom filter in Redis, unique view documents, counter | record | three stores that disagree in time, transactions that are retried | a user counts once |
| **Likes, follows, comments** `application/commands/users/{likeActionByPublicId,setFollowState}`, `comments/*` | relation documents next to counters, tombstones | set and unset, comment, answer, delete | increments that race with recounts | a counter is the number of its documents |
| **Posts and reposts** `application/commands/post/*`, `services/lifecycle/content-cleanup.service.ts` | posts with a status, reposts of reposts | create in two transactions, repost, undo, delete with everything below | a request that dies between its transactions; a graph that grows while it is deleted | counters of posts, accounts and communities |
| **Communities** `application/commands/community/*` | creator, members with roles, counters, the list each account carries | create, join, leave, kick, delete, succession | an heir that leaves while the creator's account ends | the creator is a member and an admin; members are counted |
| **Account lifecycle** `services/lifecycle/*` | participants that clean up content, relations, communities, conversations, the record | ban, unban, delete | one transaction over most collections, next to handlers that looked up what it removes | the counters above survive it; conversations and sessions end |
| **Pictures** `services/image/*`, `services/cloudinary.service.ts`, `users/{updateAvatar,updateCover}`, `community/updateCommunity` | assets of an external store, the documents that name them, clean-up events | upload, name, replace, give back, remove with the document, clean up | the store knows no transactions: an upload comes before its commit, a deletion after it, and either may fail, race or stay unanswered | a named asset is never deleted; an unnamed one is deleted, or a failure left it |
| **Caches** `services/redis/redis-tagged-cache.module.ts`, `redis-notification.module.ts` | values, tag sets, cached notification lists | fill, invalidate | a fill that races with an invalidation | see section 8 |
| **Feeds** `repositories/read/FeedReadDao.ts`, `services/redis/redis-feed.module.ts`, `queries/feed/getTrendingFeed` | snapshots of rankings and of exclusions in Redis, cursors in the hands of clients | first page, next page, turn from the trending to the New feed | pages are read at different times, from a snapshot, then live, from two sources, while posts come and go | nothing comes twice or is left out, and a walk ends |
| **Token refresh in the browser** `src/frontend/src/api/axiosClient.ts` | one refresh in flight, waiting requests | retry after 401 | overlap between tabs | see section 8 |
| **Realtime delivery, profile copies, audit logs, buses and HTTP, deployment** | sockets; external stores; log files | | | see section 8 |

`PROJECT.json` lists, under `hazards`, each place where one of these can go
wrong with its line and the properties about it.

## 2. How the parts interact

* A **command handler** runs inside `UnitOfWork.executeInTransaction`. It reads
  and writes through repositories and queues events in the outbox, in the same
  MongoDB transaction. `UnitOfWork` says what "the same transaction" is worth:
  all writes once, or none, and a true answer. `Messaging` takes the result for
  granted (a command is a transaction that commits at one moment) and models
  instead what other transactions can do between its reads and its commit.
* The **outbox worker** claims committed events and calls the subscribed
  handlers one after the other. `Messaging` contains the two handlers that
  matter for a message: the one that turns `MessageSentEvent` into notification
  requests, and the one that checks a request and creates the notification. In
  `Messaging` an event stays in the outbox until it is settled; how it gets from
  worker to worker is the subject of `Outbox`.
* **Interactions** (likes, comments, views, ...) push messages to a Redis stream;
  the **trending worker** consumes it.
* **Handlers of the social network** share one database: a like writes a
  relation and increments the counter of a post, a deletion counts what is
  left and sets it. They look things up before their transaction begins and
  trust what they found. `Social` puts all of them on the snapshots of
  `Snapshots`; what a purge does to conversations is the subject of `Messaging`.
* **Views** hand an update of the feed to the **transaction queue**, which runs
  it at once or pushes it to a list that every server pops from. `Social`
  composes the handler with the queue.
* **Feeds** read what handlers and the trending worker write: the sorted set of scores, or the posts
  in MongoDB. `FeedPages` leaves both open: any post may be ranked anywhere.
* **Pictures** are uploaded before the transaction that names them and deleted after the one
  that no longer does, by the request itself or by the outbox. `Media` relies on the promises of
  `AtomicCall` (committed, failed, or unknown) and `OutboxDelivery` (an event is handled, or exhausted).
* **Bans and password changes** commit in MongoDB and clean up sessions in Redis
  afterwards. `AuthSession` has both stores, and a cleanup that may fail.

## 3. Modules

| Module | What it is |
|---|---|
| `Outbox` | documents and workers of the outbox |
| `OutboxDelivery` | what the outbox promises to the authors of events (abstract) |
| `OutboxProofs` | theorems about `Outbox`, with the refinement of `OutboxDelivery` |
| `TransactionSemaphore` | the semaphore as operators on a record (permits, holders, queue) |
| `UnitOfWork` | `executeInTransaction`, composed with `TransactionSemaphore` and a MongoDB server |
| `AtomicCall` | what a call promises to its caller (abstract) |
| `UnitOfWorkProofs` | theorems about `UnitOfWork`, with the refinement of `AtomicCall` |
| `AuthSession` | session store, user and browser |
| `AuthSessionProofs` | theorems about `AuthSession` |
| `TrendingWorker` | stream, consumers, scores |
| `TrendingWorkerProofs` | theorems about `TrendingWorker` |
| `Messaging` | conversations, messages, notifications under snapshot isolation |
| `MessagingProofs` | theorems about `Messaging` |
| `Snapshots` | transactions of MongoDB: what they read, what they missed, when they commit |
| `Documents` | the documents of the social network, queries and updates on them |
| `Engagement` | likes, follows and comments |
| `Publishing` | posts, reposts and the deletion of their graph |
| `Communities` | communities and their members |
| `Accounts` | ban and deletion of an account, administrators |
| `TransactionQueue` | deferred jobs, on any number of servers |
| `Social` | all of these on one database, with views and the queue they use |
| `Media` | pictures: the external store, requests that upload, documents that name, clean-up |
| `MediaProofs` | theorems about `Media` |
| `FeedPages` | a reader that walks through a feed while posts and snapshots change |
| `FeedPagesProofs` | theorems about `FeedPages` |
| `SocialProofs` | theorems about the database and the queue of `Social` |
| `MC*` | small sets, symmetry, and properties that only TLC uses |

In each module some operators stand next to an operator of the model and differ
from it in one respect (`ClaimForgetsHandlers`, `RotateBlindly`, ...). The model
does not use them: they are plausible bugs, and `mutants` in `PROJECT.json` says
which property each of them breaks when it takes the place of the operator of
the model.

### Outbox

`doc[e]` is the document of event `e`. `processed`, `retries`, `processing`,
`owner`, `exhausted` and `done` are the fields of `outbox.model.ts`
(`done` is `processedHandlers`); `stage` says whether it is written, stored or
purged; `stale` stands for "`processingStartedAt` is older than the claim timeout" and
`deferred` for "`nextAttemptAt` is in the future". `wk[w]` is a worker: its label,
the event it claimed, the `retries` and `done` *of the record it claimed* (the
code decides from this copy, not from the document), the handler it is at, and
whether its renewal interval runs. `runs` counts effects of handlers.

Actions follow the calls of the database: `Claim` (claimPendingEvents: oldest first, not
processed, not exhausted, due, unclaimed or stale), `Dispatch` (no routes: an
error and hence a failure), `HandlerReturns`/`HandlerThrows` (an effect may land
before the throw), `Checkpoint` (markHandlerProcessed), `Complete`
(markAsProcessed), `Fail` (markAsFailed), `Renew`, and the variants in which the
request fails or its answer is lost (`...Fails`). All writes of a worker are
conditional on `processingOwner`; a write without effect is
an interruption. `ClaimExpires` and `BackoffElapses` are time; a claim can
expire under a live renewal interval only by a stall, which `MaxStalls` bounds. `Requeue`
and `Purge` are the operator's script and the removal of events with their
conversation. A crash may hit a worker at any label, also between an
effect and its checkpoint; one instance survives.

`OutboxDelivery` knows no workers, so it lets any pending event be parked and any parked one replayed. That
they are parked for the right reason, also when a worker that lost its claim fails late, is said
by `ExhaustedIffOutOfRetries`.

### UnitOfWork

`call[c]` is a call of `executeInTransaction`; `sem` is the semaphore; `txn[c]`
is the latest transaction of `c` on the server (running, committed, aborted, or
in doubt: a commit whose answer is missing while the server may still apply it).
An error is the set of things its cause chain gives evidence of
(`TransientTransactionError`, `UnknownTransactionCommitResult`, the time limit),
as `transaction-errors.ts` reads them. Every `await` may end in an error: start
of the session, body, commit, abort. What the labels mean for the state of the
server is MongoDB's contract and is external (`CommitUnanswered`,
`CommitRefused`, `CommitLands`, `ServerAborts`).

A nested call (lines 166-169) runs in the session of its caller, so it is part of the
caller's body. The branch at 240-244 (the session left the transaction although
the body returned) needs a body that ends the transaction itself; no body does.

### AuthSession

One user, one browser, any number of session ids and requests. A token is the
number of the rotation that made it. `sess[s]` holds current and previous
token, whether the grace period of the previous one runs, and the `authVersion`
of creation. A request is a sequence of steps, one per call of Redis or MongoDB
(`Load`, `CheckUser`, `Rotate` or `Revoke`, `Answer`; `Access`, `Touch`,
`Grant`; `ChangePassword` or `Ban`, `List`, `DeleteListed`), and other requests
run in between. The Lua script of the rotation is one step. The cookie changes when an answer arrives;
answers may be lost.

### TrendingWorker

`msg[m].at` is where a message is: not pushed, in the stream, delivered and
pending, acknowledged. `pending`, `flush`, `claims` and `refresh` are the
worker's memory: ids collected per post, the flush going on (chunk and rest), ids
about to be claimed, and versions a full refresh has read and not yet written. A
score is abstracted to the version of the post it was computed from, which is the
number of interactions it counts; this is what separates a new score from an old one.

### Messaging

`store` is the database (conversations, messages, notifications, outbox,
accounts). `snap[p]` is what transaction `p` reads, `missed[p]` the documents
others have written since: a commit that writes one of them conflicts. This is
snapshot isolation as MongoDB documents it, hence external. Each command is one
action: from `snap[p]` it computes the new store and `Commit` applies its writes
to the current one. `acquireForMutation` adds the conversation to
the writes of every command that changes what belongs to it. The worker's
handler of notification requests runs outside of a transaction and is split at
each `await`: `ClaimNotification`, `CheckAccounts`, `CheckConversation`,
`CreateNotification`.

Merged because they differ only in what they write into the body: edit and
delete of a message (`ReplaceBody`); ban and deletion of an account
(`RemoveAccount`; `Unban` may never come). `SendMessage` is a send by
conversation id and one by recipient if the conversation exists; `SendFirst` and
`CreateConversation` are the cases in which it does not.

### Social and the modules below it

`db` maps names of documents to documents; `Post(x)` or `Like(u, x)` is a name. A
document is `Unborn` before it exists and `Gone` after it was deleted, because
handlers look things up before their transaction: `WasFound` says that the
document existed at some time, which is all they know. A relation (like, follow,
view) is there or not; a membership is a role. `snap[p]` is what transaction `p`
reads, `missed[p]` which documents others wrote since. Each handler is one
action: from `snap[p]` it computes a database, and `Commit` writes what
differs, or nothing if one of these documents was missed. `Abort` is any
failure; beginning again is the retry of `UnitOfWork`. Unique indexes are
documents too (`RepostKey` for the one on reposts).

What a purge or a deletion does is a chain of functions from databases to
databases, named as the methods are (`deletePostGraph`, `tombstoneComments`,
`recomputeRepostCounts`, ...), applied in the order of the code. The order in
which members joined is not kept: `IsHeritage` admits every successor of the best role.
`PromoteToAdmin` and `UnbanUser` are single updates outside of transactions
(`WriteAlone`), as the handlers make them.

`TransactionQueue` has one action per `await` of the loop: `Enqueue`,
`StartProcessing`, `Connected` or `ConnectFails`, `Pop` or `PopIsLost`,
`HandlerSucceeds` or `HandlerFails`, `LoopCrashes`, `ServerCrashes`. `ended` and `calm`
are history: how a job ended, and whether anything went wrong since the last push.

### Media

A document is the pictures it names: an avatar and a cover, or one image. `asset[a]` says
whether the store has it, `requested` which assets an `ImageAssetCleanupRequestedEvent` of the outbox
asks to delete. `req[p]` is a request with the documents it concerns, what it uploaded (`staged`) and
the picture it read before its transaction (`old`); `pc` is where it is: *staged* from the upload to
the outcome of its transaction, *undecided* while a commit is unanswered (`AmbiguousTransactionCommitError`: the
handlers keep the upload), *committed* while a profile has its old picture to delete, *failed*
while the upload is to be given back. `StageProfile`, `StageCommunity`, `StageNewCommunity`,
`StageAttachment` and `StagePost` are the five kinds of handler, `WriteProfile`,
`WriteCommunity` and `WriteNew` what their transactions write. `Remove` is any transaction
that deletes documents or empties them and asks for their assets (`RemoveContents`, `RemoveCommunity`,
`PurgeAccount`); which contents go with a post, a community or an account is left open here,
since `Publishing`, `Communities` and `Accounts` say it, so the properties hold whichever go.

A profile differs from the rest: what it replaces it has read before the transaction, and
it deletes it itself after the commit, with no event. Two updates at once therefore forget
a picture. `overtaken` records the pictures lost in this way and `lost` those lost to a failure;
both are history. The default avatar is no asset: the id that is read from its URL names none.

### FeedPages

`posts` are the posts in the order of `(createdAt, _id)`, each with what it reposts and whether it says
more than that (a quote). `snapshots[source][g]` is the ranking stored for the feed in generation `g` (five minutes),
taken from the sorted set of the trending worker or from MongoDB; `exclusions` are the stored
sets of identities that the New feed leaves out. `reader` is the request of one reader and the cursor it
holds; other readers exist as far as they store snapshots (`AnotherBuilds`). A request is
a sequence of steps: `Open` or `Continue` reads a snapshot, `Build` and `Store` take one (SET NX, then GET), `ReadPage` reads
the posts of the page, and at the end of the trending posts `ReadLastPage`, `Collect`
(what was shown, derived from the snapshot), `Resolve` (ids of what still exists, stored as an exclusion) and `Fill` or
`Peek` turn to the New feed. `shown` and `steady` are history: the posts on the pages, and
the identities nothing has happened to since the first page was asked for.

The feed "ranked" stands for all that page through a snapshot of MongoDB and end with it (the following,
preview, interest, personalized and For You feeds): they differ in what they rank.

## 4. Runs

| Run | Instance | Shows |
|---|---|---|
| `outbox_safety` | 2 workers, an event without handlers and one with 2, `MaxRetries` 2, 1 stall, 1 failed request, 1 late throw, 1 requeue, 1 crash; 1.0 million states | checkpoints are earned and respected; repeated effects are paid for by interruptions; processed means delivered; exhaustion agrees with the retries; every step is one `OutboxDelivery` allows |
| `outbox_live` | 2 workers, 2 events with 1 handler, 1 stall, 1 requeue, 1 crash; 0.2 million states | every committed event settles; `OutboxDelivery` with its fairness |
| `uow` | 2 calls, 1 permit, 2 body and 2 commit attempts | permits are conserved, at most once, true outcome, all calls end, refinement of `AtomicCall` |
| `auth_safety` | 2 requests, 2 session ids, 2 rotations, 1 password change, 1 lost answer; 4.3 million states | tokens form a chain the browser follows; old sessions and banned users are refused; a revoked session stays so |
| `auth_revoke_all` | 2 requests, 1 session id | finding 1 |
| `trending` | 1 worker, 1 post; 1 message with 3 versions, 2 faults and 2 losses, or 2 messages with 2 versions and 1 fault; 0.3 million states | nothing is acknowledged before its score is written, flushes that fail are put back whole, every message is acknowledged, scores catch up |
| `messaging_safety` | 2 users, 1 conversation, 2 messages, in two scenes: 2 overlapping transactions around 1 message while one account comes and goes; or one transaction after the other around 2 messages and the worker, while accounts go for good; 0.4 million states | any two commands at once: a purge is complete, what a command checked holds at its commit; long sequences: badge, order and hidden state fit the messages, also when clocks differ |
| `messaging_stale` | the same | finding 2 |
| `social` | 3 accounts, 2 posts, 2 comments, 1 community, 2 overlapping transactions, 2 servers, 2 attempts, 2 commits and 1 failure from each of 5 starting databases; 19 thousand states | some administrator remains, communities are led, counters are true, views count once, jobs are kept and served |
| `social_ban` | the same, from `village` and `thread` | finding 3 |
| `pictures` | 1 user, 1 community, 1 post or comment, 3 assets, 2 overlapping requests; 0.4 million states | no document names a deleted picture, orphans were left by a failure or a race of two profile updates, every asset settles |
| `feeds` | 3 feeds, 2 posts of any history and a third, pages of 1 and 2, 1 deletion, 2 generations, 1 failure; 0.3 million states | no identity comes twice and none is left out but for the named reasons; every walk ends |

**Bounds and why they are enough.** `MaxStalls`, `MaxDbFaults`, `MaxPartials`,
`MaxRequeues`, `MaxFaults`, `MaxLosses`, `MaxLost` count the things that may go
wrong; each hazard of the list needs at most one of each kind to appear
(a takeover needs one stall or one crash, a repeated effect one late throw or
one lost answer), and two workers, requests or transactions are enough for every
race of two actors. `MaxRetries` 2 reaches both a retry and exhaustion.
`MaxVersion`, `MaxRotations` and `MaxClock` bound counters: two rotations are
needed for a token that is older than the previous one, three versions for a
refresh that overwrites a score written after it read. `MaxClock` 3 lets the first of two messages come from
a server that is ahead, and the second from one that is in the same millisecond or behind (`MCMessaging`);
clocks of any values are covered by the theorem `OrderIsTotal`. `Removable`
and `Restored` name the accounts that may be banned or deleted, and those whose ban
may be lifted: each ban of a user multiplies the states, so in the scene of overlapping
transactions one of two users is banned (again and again), and in that of long
sequences both for good. The two scenes of `messaging_safety` share what every command does, and overlapping transactions
need one clock value only, and locks only next to the account they stop, the sender's; each
leaves out what multiplies its states and cannot concern what it is about (`MCMessaging`). Faults of the outbox's
database are left to the safety run; in `trending` they are next to liveness
because the retry of a flush is what the properties are about. Chunks of several posts, and
several workers, multiply its states and are left to the proofs: both safety properties of the run are proved
for all constants. A second message brings flushes that race with newer messages; with it
nothing is lost, so that `NothingForgotten` still speaks (`Affordable`).

The instance of `Social` starts from databases an earlier history has left,
because that history would use up the bounds before anything interesting can
happen: `fresh` (accounts only), `village` (a community with a member and a
pending post), `thread` (a post with likes, a repost, a comment and an answer),
`shell` (the same after the ban of the one who answered), `views` (a post to be
seen). Each is built with the operators of the model. From each of them any two
handlers overlap, which is what a race of transactions needs. No step of the queue reads
the database and only views hand jobs to it, so the queue moves in the scene
of the views only; elsewhere its steps would multiply the states with those of a component they do not touch.

In `pictures` the store gives out names in order (`InOrder`, the names being interchangeable). Two requests
may upload an asset each for any two documents; the third asset is there for accounts alone
(`ThirdIsForAccounts`), where a picture that exists, and two that replace it, are needed for a
race. A post and a comment behave alike for pictures but for the pending state, so at most one of
them exists (`OneContent`).

The reader of `feeds` finds two posts of any history (originals, reposts, quotes), and a walk of two
or three pages shows each of the turns between snapshots, sources and feeds. What no page depends on is
left out (`Matters`): steps after the walk, posts that change before the first snapshot or request
(they are among the histories) or while the reader is about to look at a snapshot only (`ReadsPosts`: they may as well
change after that), a second source in the same walk unless the first one has ranked nothing,
snapshots the reader does not come to, a new generation next to a failure, and failures
at steps that have changed nothing yet. A client asks for pages of one size: two posts while there are
but two, and one post, which makes the longest walks, when a third comes. One post is deleted in a walk (with
the graph of its reposts).

All safety properties are proved for all values as well (section 6).

**Deadlock.** All runs say `CHECK_DEADLOCK FALSE`: every behaviour of the models
may end (all events settled, all calls done, all bounds used up), and waiting for
ever is excluded by the liveness properties instead.

**Symmetry** is used in safety runs only, over workers, calls, requests and
session ids, users, messages: no module orders them. Events of `Outbox` are
numbers in the order of creation and are not symmetric.

## 5. Fairness

* `Outbox!FairSpec`: weak fairness of `Claim`, `Step` and `Renew` for each worker and
  of time for each event. The polling loop schedules its next tick in a
  `finally` (`workers/base/BasePollingWorker.ts:100-104`); a step of a live worker
  goes on from every `await` because handlers settle and the driver answers; the
  interval fires. *Assumption*: handlers settle. A handler that hangs while its
  renewal interval runs keeps the event for ever: nothing in the code ends it.
  `EveryEventSettles` also needs the crash bound: an interruption that is not recorded as a
  failure does not count as a retry, so an event that kills each worker that
  takes it is never exhausted.
* `UnitOfWork!FairSpec`: weak fairness of `Proceed(c)`, i.e. a call that has its permit gets
  answers, if only errors, for which the driver's and the server's time limits
  stand. Timers of waiters need not fire, and calls need not be made.
* `TrendingWorker!FairSpec`: weak fairness of each worker's calls and timers, of
  time, and of `Start`. The last one is a supervisor that restarts the process. It
  is needed: when the read loop dies the process stays alive without consuming
  until something outside restarts it.
* `Media!FairSpec`: weak fairness of `Proceed(p)`: calls of the store and of MongoDB are answered, if only by an
  error or by the death of the process; and of `CleanupEnds(a)`, which is `EveryEventSettles` of `Outbox` for the
  clean-up event. Retries of a body are not required to be few, `UnitOfWork` bounds them.
* `MCFeedPages!MCSpec`: weak fairness of `ReaderStep`, i.e. of a client that goes on asking until the end, or until
  it is refused because a snapshot has expired. Nothing else has to happen.
* `OutboxDelivery!Spec`: a committed event does not stay pending for ever. `AtomicCall`
  has no fairness; that calls end is `EveryCallEnds`.

`AuthSession`, `Messaging` and `Social` have safety properties only: their requests need not
be made. That queued jobs are run is stated as safety (`WaitingHasLoop`), because the code
promises no more: after a crash nothing runs until the next push.

## 6. Proofs

`tlapm` checks every leaf. Assumptions are the named `ASSUME`s of the modules: sets of
workers and calls are finite, bounds are naturals, markers differ from documents. None
of them limits the number of workers, events, calls, requests, users, or the
values of the bounds. Type invariants that no run lists are
among the theorems, and so are four action properties: `ProcessedFinal` of `Outbox`, which
`ImplementsDelivery` implies, `CheckpointsKept`, whose breaches the run would find as repeated effects, and `CallsGoOn` and `CursorsAdvance`, the safety halves of two liveness properties
(below).

| Module | Theorems | Inductive invariant |
|---|---|---|
| `OutboxProofs` | `TypeCorrect`, `CheckpointsEarned`, `ProcessedDelivered`, `ExhaustedAgrees`, `OwnerRespectsCheckpoints`, `ProcessedFinal`, `CheckpointsKept`, `DeliveryImplemented`, `DuplicatesPaid` | `IInv`; with `EffectsAreDue` and `DebtIsPaid` for the last two |
| `UnitOfWorkProofs` | `TypeCorrect`, `PermitsConserved`, `QueueExact`, `NoCallIsOvertaken`, `WrittenOnce`, `OutcomeTrue`, `AtomicCallImplemented`, `NoCallGoesBack` | `IInv` |
| `AuthSessionProofs` | `TypeCorrect`, `TokensAreAChain`, `OldSessionsRefused`, `BannedRefused`, `NoRevival`, `CookieIsCurrent` | `IInv`; `Tracked` for the cookie |
| `TrendingWorkerProofs` | `TypeCorrect`, `AckedScored`, `Remembered` | `Inv` |
| `MessagingProofs` | `TypeCorrect`, `SnapshotsAreFresh`, `SentAndEditedInTime`, `PurgedForGood`, `BadgeIsExact`, `OrderIsTotal`, `HiddenIsEmpty`, `RequestedInTime` | `IInv` |
| `SocialProofs` | `SnapshotsExact`, `SomeAdminRemains`, `ViewsCountedOnce`, `CountersStayTrue`, `CommunitiesAreLed`, `JobsKept`, `WaitingIsServed` | `SocialInv`; `CountersInv` for the next two, `QueueInv` for the last two |
| `MediaProofs` | `Invariance`, `PicturesAreKept`, `OrphansAreKnown` | `IInv` |
| `FeedPagesProofs` | `InvariantHolds`, `TypeCorrect`, `RepeatsExplained`, `NothingSkipped`, `CursorAdvances` | `IInv`; `ReadsOnward` for the last |

*Outbox.* The properties are about documents, but a worker decides from its copy.
The invariant therefore says when the copy can be trusted: a worker
that still owns its event has the `retries` of the document, and its own checkpoints are the
document's (`WorkerInv`); a worker that lost it may have any copy, and the
conditional writes make it harmless. `EventInv` says of a document that it is
in processing iff it has an owner, exhausted iff out of retries, that its checkpoints
were earned, and that a processed one has all of them. That a worker goes through the
handlers in order needs the least index of a handler without checkpoint, hence well-founded
induction.

Each step maps to a step of `OutboxDelivery` or to a stutter (`StepDelivers`). That needs one
fact more: nobody works on, and nothing has run for, an event that is not written yet, and what
has run are handlers of the event (`EffectsAreDue`).

That repeated effects are paid for is not inductive, because the payment comes first: a claim
expires (a stall), and only later does its worker run a handler that the next owner runs too.
The proof therefore keeps accounts. A cell is an event and one of its handlers. It is
given the effects it had and those to be expected of it (`Expected`): one of each worker that is about to run
the handler without a fresh claim (`Stray`), and one of the rightful owner, present or future,
until the handler is recorded, or its effect has happened and the record of it is safe: its owner, whose
claim is fresh, is about to record it (`Open`). All of them beyond the first of a cell are its debt, and the whole `Debt` never
exceeds the interruptions (`DebtIsPaid`). A step of a worker changes what it adds to the cells (`Part`):
it adds nothing (`Quiet`), adds one to one cell and is an interruption (`OneMore`), or adds
one to the next handler's cell and takes one from a cell that counted (`Balanced`: a
worker without a fresh claim records its handler and goes on to the next). There is no sum: debts are triples, and
their set grows by one, not at all, or exchanges one for another.

*UnitOfWork.* `PermitsAccounted` and `QueueIsTheWaiters` are inductive together
with types. `CallInv` ties the label of a call to the transaction on the server
and to the number of applied writes: while a call runs its body
or aborts, nothing is in doubt; a call that reports a failure has a transaction that can
no longer commit. The outcome is true because of it, and each step of a call maps to a step or a stutter of `AtomicCall`
(`outcome` becomes visible when the call ends).
`NoCallGoesBack` says why calls end: a step of a call, and a permit handed to a waiting one, moves
it on in its stages, repeats the body with one attempt more, or repeats the commit with one attempt
more. Attempts are bounded, so the order has no infinite chain; only that a step comes at all is left to fairness.

*AuthSession.* `Chain` says that only tokens below the current one have been
rotated. `Fine` says what a request in the middle of its steps may still rely
on: it has the session and token it works on, it knows no version or ban from the
future, and once it passed its checks they hold of everything that was committed
when it started. For the cookie, `Tracked` adds who has which token: every token in use is
one the session has made, and one that is on its way to the browser is the current one and
in nobody else's hands, so that no rotation can overtake it before it arrives.

*TrendingWorker.* `Seen`: MongoDB is ahead of every message that was pushed, so a
version read after a message arrived counts it. `Held(w)`: a worker holds
messages under their own post, and only delivered ones. `Covered(w)`: what a
flush has read, and then written, covers the messages it is going to
acknowledge. `AckedWasScored` follows at the acknowledgement, and `best` only grows. `Remembered` needs that nothing was lost so far (`losses = 0`).

*Messaging.* `Fresh` is snapshot isolation as an invariant: where a snapshot
differs from the store, the document is in `missed`. A command's writes are legal
in its snapshot (one lemma `...Writes` per command). `LegalIsAllowed` carries this
over to the store at commit time: the conversation is among the writes (`acquireForMutation`), so if it was
changed the commit is refused, and if it was not, the check still holds.

The properties of what is stored need more. `Sound` says of a database that each conversation is whole
(`Whole`): members alone sent and read its messages, times and `lastMessage` agree, nobody cleared more than
there is and whoever hides it cleared it all, badges are the numbers of unread messages; and that every event
is about a message of a conversation that exists. The store and all open snapshots are sound. That is not
inductive either: a commit puts what was computed from an old snapshot into a newer store. `SameFor`,
`EventsFor`, `OutFor` and `LeftFor` say what a transaction may rely on for a conversation it has not missed: it
and its messages are those of the snapshot, it has no event the snapshot lacks, and whoever has left it and is banned
was already banned in the snapshot. All of this holds because whoever changes a message or an account's membership also writes the
conversation. So a commit makes the conversations it writes what they are in the transaction, where they are whole, and
leaves the others as they are.

*Social.* The proofs do not look into what a handler writes more than they must.
`Kept(s, t)` says that from database `s` to `t` no account changes its flags, no
post its views, and no view appears; each helper of the handlers keeps
(`Removed`, `Replace`, every recount), so every handler but four does, by
composition. The four are the ban, the deletion and the demotion, which end an administrator,
and the view. `SocialInv` says that snapshots are exact; that an
administrator remains; that the administrators in the snapshot of a transaction that has not missed the guard
document still are administrators (`AdminsAreKept`: single updates
only add some, removals write the guard); and that a deleted post
does not come back (`GoneIsGone`). A removal that commits has therefore counted administrators
that are still there, two at least, and takes one.
A view that commits has written the view document and the post, so it read
both as they are: the counter grows exactly if the view appears.

`CountersAreTrue` speaks of nine counters, each of which is treated as a *tally*: a counter, the document that
owns it and the things it counts. `CountersInv` says that the database and every open
snapshot are `Consistent`: types hold, every tally is right, nothing is counted for an id
nobody used, a comment answers one of its post (`AnswersStayInPost`), reposts are active and the community of a post
was there (`PostsAreSound`), and a community that exists has one admin, its creator (`AdminIsCreator`). It says that the
database is `Later` than each snapshot: what was born stays born, what is gone stays gone,
a comment keeps its post and its parent. And, which makes it inductive, that a
transaction that has not missed the owner of a counter has missed nothing the counter counts (`SameCounts`). That holds
because each transaction *Fits*: what it computes is consistent and later, and the set of each tally only grows or only shrinks, so
that a counter that was not written, being right before and after, counts the very same set. `Lands` carries what fits
over to a database that others have changed since: a tally whose owner is written has the set of the transaction,
any other that of the database. The removal of a post, a comment or an account is a chain of
recounts; *Purges* says which tallies a part of the chain leaves to be recounted, one lemma per link,
and at the end of the chain there is none. The assumptions on `Starts` are the same conditions, which TLC evaluates on the five starting
databases of the instance; a fresh installation meets them.

*TransactionQueue.* `PlacesInv` says that the jobs that are waiting or in a hand
are those that were pushed and have not ended, and that each is in one place; pushes need fresh jobs for
that (`CallsAreNew`, `FreshJobs`). `OnePlace` turns it into the cardinality of `JobsAreKept`.
`ModesAreTrue` and `HandsAreLoops` tie the flags of a server to its loop, which
`WaitingHasLoop` needs when a start finds a loop that already runs.

*Media.* That no named picture is deleted is not inductive: one needs to know that nobody
who deletes has a named picture in hand. `OneName` says that a picture is named at one place,
so that the document that stops naming it was the only one; `StagedIsKept` that an upload is its request's own,
neither named nor asked for, until its transaction takes effect; `OldIsKnown` that the picture a
profile update will delete can only be named where that update replaces it, and no longer once it has
committed. Since a transaction that takes effect has the document as it read it
(`SnapshotsAreExact`), what it replaces is what is there. The steps of the model are brought into eight forms
first (`Form`: uploads, fails, settles, gives back, ...), each action has one (`StepsHaveForms`), and
the invariant is shown once per form. `OrphansArePaidFor` follows by the same forms:
each step that takes an asset out of a hand or a document names it, asks for it,
deletes it or adds it to the history.

*FeedPages.* What a walk has shown and what it still has to show meet at the cursor, and the invariant says
where. For a cursor into a ranking (`ListIsShown`), the pages consist of entries in front of its place, each shown
once, and of all of those that still exist; posts that vanish leave that true, and
new ones are not in the list. The ranking itself may be lost but not replaced: the snapshot a cursor
names is the list the reader has, or is gone for good, because its generation is over and
`Build` stores for the current one only (`IsKept`). For a cursor of the New feed (`LiveIsShown`), a post
that was shown is deleted, or its identity is excluded, or it lies at or behind the place, or it is one
of the quotes that `RepeatsAreExplained` admits; the other way round, whatever is excluded was shown or has a
reason to be left out (`IsExplained`), and a steady identity is shown, excluded, or still
ahead. It stays ahead because a steady identity keeps its posts and hence its newest one
(`SteadyStays`). Between the two lie `Collect` and `Resolve`: `SeenIsRight` is the same relation for names
that are not resolved to ids yet, and dropping a name whose post does not exist loses nothing, as a post that is
left never stands for one that is deleted (`PostsAreLinked`).

Changes of posts and snapshots, whoever makes them, have one form (`Evolves`) and are treated together
(`EvolvesKeeps`); steps of the reader change no posts, and what holds of the pages and the data in hand
holds of the pages after the answer (`Passing`, `RespondKeeps`). Two pages of the New feed do not overlap since each
identity is listed with its newest post, in decreasing order and behind the place (`NewFeedIs`,
`LiveRepeats`). The lemmas about posts speak of any sequence of posts, so that they serve before and after a step.

`CursorAdvances` says why a traversal ends: every answered page ends the walk or hands out a cursor that is
further on (`Further`): a larger offset into the same snapshot, from a snapshot into the New feed, or there, under the
same exclusions, an older time. Nothing is further on for ever: the list is finite, the New feed never
turns back, and times are naturals. A request
reads from the offset of its cursor (`ReadsOnward`) and a page that has more goes beyond that offset; the last post of
a page of the New feed lies before the place of its cursor. No cursor leads into an empty ranking (`EmptyIsFirst`), so the pages
that `Respond` answers from one are first pages.

**Only model-checked**: liveness (`EveryEventSettles`, `EveryAssetSettles`, `EveryTraversalEnds`, `ImplementsFairDelivery`,
`EveryCallEnds`, `EveryMessageIsAcked`, `ScoresCatchUp`), which the proof system cannot treat. Of `EveryCallEnds` and
`EveryTraversalEnds` it proves that every step makes progress, not that steps keep coming. Every other
property of a passing run is a theorem.

## 7. Findings

1. `auth_revoke_all`: `revokeAllSessionsForUser` lists the sessions of a user
   (SMEMBERS) and then deletes them with the whole set. A session created in between stays
   live and is no longer listed, so that the next revocation does not see it, against the
   comment "Revokes all sessions for a user" (`services/auth-session.service.ts:294`). The cases in which this
   matters most are covered otherwise: sessions older than a password change
   and sessions of banned users are refused whatever the set says
   (`OldSessionsAreRefused`, `BannedAreRefused`, both proved).
2. `messaging_stale`: the handler of notification requests checks that the
   conversation exists and the message is not cleared, and creates the
   notification in another call. A clear or a purge in between removes the notifications that
   exist, and the handler creates one afterwards. The test
   `__tests__/integration/conversation-lifecycle.integration.test.ts:882`
   ("does not recreate a deleted participant's notifications from a pending send
   event") covers only the case in which the event is handled afterwards.

3. `social_ban`: a like, comment, repost or post looks its author up before the
   transaction and reads nothing of the account in it. One that began
   before the ban commits after it, since the two write no common document, and the shell of the
   banned account keeps it, against the message of the handler ("User banned and
   account content removed successfully", `application/commands/admin/banUser/banUser.handler.ts:127`).
   The counters stay true (`CountersAreTrue`), and a later deletion removes it.

Not a contradiction of anything the repository says, but worth knowing: the first
message between two users creates their conversation, so there is no document it shares with
a ban of one of them; if both run at once, an open conversation with a banned
participant is left (`sendMessage.handler.ts:97`). A community that is deleted while somebody joins
it keeps a membership document, invisible without the community (`joinCommunity.handler.ts:57`). A post of
a community does not increment the author's `postCount` (`createPost.handler.ts:284`), a recount counts it. And `RepeatsAreExplained` names two ways
in which the trending feed repeats itself: the sorted set ranks a post and its repost and the pages show both,
while the New feed and the rankings of MongoDB show one of each identity; and a quote that the sorted
set ranks is excluded from the New feed under the id of what it quotes, so the quote comes
again and the quoted post does not come at all
(`getTrendingFeed.handler.ts:302` and `:318`). When all posts of a full last page are deleted within the request, it fails,
since there is nothing to exclude and no cursor to encode (`:268`); the client asks again.

## 8. What is not modelled

In the components that are modelled:

* *Unit of work*: `executeWithoutTransaction`, which bounds how many deferred jobs run at once; a
  job is one step of its handler in `TransactionQueue`.
* *Sessions*: email verification and admin flags, the patch of stored sessions,
  the expiry of the membership set, other users. In `Access` the read of the session and the repair of
  the membership set are one step. The outcome `version_conflict` of the
  rotation script cannot happen.
* *Trending*: the formula of the score (`trending-score.policy.ts`), the patch
  of post metadata, malformed messages (they are acknowledged at once), and the limits of the full refresh: it covers
  the top posts of a window, and the posts of the model are inside of it. A worker
  has one refresh and one reclaim at a time.
* *Messaging*: delivered/read status of single messages, lists and pages,
  attachments, group conversations, notification caches in Redis, events that only make clients reload.
  Administrators are always entitled, and account checks that read several
  documents read them at once.

* *Social*: favourites and the editing of posts, comments, communities
  and profiles (no counter and no command modelled here depends on them), tags, the postCount of
  authors (increment and recount disagree about posts in communities, see section 7,
  so no property speaks of it), notifications of likes, comments and
  follows, the log of user actions. The list of newest communities is not cut, and the
  filter in front of views may answer anything. A user whose view was removed by a ban may view again;
  the second job of the same view is left out.
* *Pictures*: how the id of an asset is read from its URL, temporary files and the paths of the local store,
  `Image` documents of the old format, and the copies of avatar URLs in other documents.
* *Feeds*: scores and their formulas, signatures, scopes and sizes of cursors and snapshots, paging backwards, the cached
  pages of the New feed, enrichment of posts with current data, and the signals that tell open
  clients of new posts. Posts are not edited: `updatePost.handler.ts:40` can give a plain repost
  a body or take it away again, which changes the identity the feeds show it under, so `RepeatsAreExplained` and
  `NothingIsSkipped` say nothing of walks during which a repost is edited. That the snapshot of the exclusions expires within one request is left out.
* *Transaction queue*: `stopProcessing`, which only tests call, and lists of
  other priorities than the one in use.

Whole components:

* *Realtime delivery* is best effort over Redis publish/subscribe and stores nothing.
* *Profile copies*: the worker that copies a changed name into posts keeps what it
  heard in memory, from the same publish/subscribe; nothing is acknowledged or repeated, and no handler reads the copies.
* *Caches* are copies with an expiry; nothing that is written depends on them.
* *Token refresh in the browser* joins the refreshes of one tab; `AuthSession` has the browser
  send any requests that overlap, which includes those of several tabs.
* *Audit logs* are written to files that no other part reads; buses and HTTP controllers
  dispatch and validate; deployment is configuration; the frontend displays.

## 9. Plan

Done: `Outbox` and `OutboxDelivery` first, because every other component relies
on them, then `UnitOfWork` and `AtomicCall`, `AuthSession`, `TrendingWorker`, `Messaging`,
the social network from `Snapshots` up to `Social`, with the transaction queue, `Media` on the
same snapshots, and `FeedPages`; each with its proofs.

Left: the copies of profiles and notifications of other kinds on top of `Social`.
