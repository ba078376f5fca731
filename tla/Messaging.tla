----------------------------- MODULE Messaging -----------------------------
(***************************************************************************)
(* Direct messages: conversations, their messages, the events a message    *)
(* puts into the outbox and the notifications those events become.         *)
(*                                                                         *)
(* Every command runs in a MongoDB transaction with snapshot isolation     *)
(* (UnitOfWork.ts).  A transaction p reads the whole store once, when it   *)
(* begins, into snap[p]; it commits if no document it writes was written   *)
(* by another transaction since then (missed[p]), and is aborted and run   *)
(* again otherwise.  What a transaction only READS is not protected: that  *)
(* is why the handlers call acquireForMutation, which writes the           *)
(* conversation whatever else they change.                                 *)
(*                                                                         *)
(* Not modelled: the delivered/read status of a message, the events that   *)
(* only clear caches or update open clients, attachments (refused by the   *)
(* handler), group conversations (no command creates one).                 *)
(***************************************************************************)
EXTENDS Integers, FiniteSets

CONSTANTS
    Users,          \* accounts
    Convs,          \* ids of the conversations that may be created
    Msgs,           \* ids of the messages that may be created
    Txns,           \* transactions that run at the same time
    Removable,      \* accounts that may be banned or deleted
    Restored,       \* accounts whose ban may be lifted
    Workers,        \* outbox workers that deliver notification requests
    MaxClock,       \* Date.now() of any server is in 1 .. MaxClock
    Unborn,         \* a conversation or message whose id nobody used yet
    Gone,           \* a conversation or message that was deleted
    None            \* no snapshot, no job, no conversation, no sender

ASSUME ClockAssumption == MaxClock \in Nat \ {0}

ASSUME NoneAssumption == None \notin Users

VARIABLES
    store,          \* the database
    snap,           \* snap[p]: what transaction p reads, or None
    missed,         \* missed[p]: documents written by others since p began
    job             \* job[w]: notification request a worker handles

vars == <<store, snap, missed, job>>

Pairs == {s \in SUBSET Users : Cardinality(s) = 2}
Later(a, b) == IF a > b THEN a ELSE b

-----------------------------------------------------------------------------
(* The documents.                                                          *)

Conversation == [
    participants : SUBSET Users,
    participantHash : Pairs \cup {{}},     \* {} stands for departed:<id>:<key>
    departed : SUBSET Users,
    isClosed : BOOLEAN,
    isLocked : BOOLEAN,
    hiddenFor : SUBSET Users,
    clearedAt : [Users -> Nat],            \* 0: never cleared
    unreadCounts : [Users -> Nat],
    lastMessage : Msgs \cup {None},
    lastMessageAt : Nat]

Message == [
    conversation : Convs,
    sender : Users \cup {None},
    isOriginal : BOOLEAN,                  \* the body: as sent, or replaced
    readBy : SUBSET Users,
    createdAt : Nat]

ASSUME DocumentAssumption == {Unborn, Gone} \cap (Conversation \cup Message) = {}

\* A MessageSentEvent ("sent", to its recipients) or a
\* NotificationRequestedEvent ("notify", to its receiver).
Event == [type : {"sent", "notify"}, message : Msgs, conversation : Convs,
          from : Users, to : SUBSET Users]

Notification == [message : Msgs, conversation : Convs, from : Users, user : Users]

Store == [
    conv : [Convs -> Conversation \cup {Unborn, Gone}],
    msg : [Msgs -> Message \cup {Unborn, Gone}],
    isOut : [Users -> BOOLEAN],            \* banned or deleted
    outbox : SUBSET Event,
    notes : SUBSET Notification]

Jobs == [event : Event, phase : {"accounts", "conversation", "create"}]

\* Names of the documents two transactions can collide on.
ConvDoc(c) == <<"conv", c>>
MsgDoc(m) == <<"msg", m>>
UserDoc(u) == <<"user", u>>
HashDoc(h) == <<"hash", h>>
Docs == {ConvDoc(c) : c \in Convs} \cup {MsgDoc(m) : m \in Msgs}
            \cup {UserDoc(u) : u \in Users} \cup {HashDoc(h) : h \in Pairs}

\* The documents of a store, tested for existence.
HasConv(s, c) == s.conv[c] \notin {Unborn, Gone}
HasMsg(s, m) == s.msg[m] \notin {Unborn, Gone}
MessagesOf(s, c) == {m \in Msgs : HasMsg(s, m) /\ s.msg[m].conversation = c}

\* Messages of c that u did not clear away.
IsVisible(s, u, m) ==
    LET c == s.msg[m].conversation IN s.msg[m].createdAt > s.conv[c].clearedAt[u]

-----------------------------------------------------------------------------
(* Transactions of MongoDB.                                                *)

Begin(p) ==
    /\ snap[p] = None
    /\ snap' = [snap EXCEPT ![p] = store]
    /\ missed' = [missed EXCEPT ![p] = {}]
    /\ UNCHANGED <<store, job>>

\* A write conflict, or a failure of the server, rolls everything back.
Abort(p) ==
    /\ snap[p] # None
    /\ snap' = [snap EXCEPT ![p] = None]
    /\ missed' = [missed EXCEPT ![p] = {}]
    /\ UNCHANGED <<store, job>>

\* Documents that differ between two stores.
Changed(s, t) ==
    {ConvDoc(c) : c \in {d \in Convs : s.conv[d] # t.conv[d]}}
        \cup {MsgDoc(m) : m \in {n \in Msgs : s.msg[n] # t.msg[n]}}
        \cup {UserDoc(u) : u \in {v \in Users : s.isOut[v] # t.isOut[v]}}

\* A set of documents after one transaction that turned a set a into b.
Merged(now, a, b) == (now \ (a \ b)) \cup (b \ a)

\* Transaction p turned what it read, s, into t and locked also extra.
Apply(p, s, t, extra) ==
    LET written == Changed(s, t) \cup extra IN
    /\ written \cap missed[p] = {}
    /\ store' = [
         conv |-> [c \in Convs |-> IF s.conv[c] # t.conv[c] THEN t.conv[c]
                                                           ELSE store.conv[c]],
         msg |-> [m \in Msgs |-> IF s.msg[m] # t.msg[m] THEN t.msg[m]
                                                       ELSE store.msg[m]],
         isOut |-> [u \in Users |-> IF s.isOut[u] # t.isOut[u] THEN t.isOut[u]
                                                             ELSE store.isOut[u]],
         outbox |-> Merged(store.outbox, s.outbox, t.outbox),
         notes |-> Merged(store.notes, s.notes, t.notes)]
    /\ snap' = [snap EXCEPT ![p] = None]
    /\ missed' = [q \in Txns |-> IF q = p \/ snap[q] = None THEN {}
                                                         ELSE missed[q] \cup written]

Commit(p, t, extra) == Apply(p, snap[p], t, extra)

\* Wrong: the conversation is only read.
ReadConversation(c) == {}

\* A conversation is read by an update of its version.
acquireForMutation(c) == {ConvDoc(c)}

-----------------------------------------------------------------------------
(* Sending.                                                                *)

\* Messages of c that markConversationMessagesAsRead finds for u.
UnreadBy(s, u, c) ==
    {m \in MessagesOf(s, c) : IsVisible(s, u, m) /\ s.msg[m].sender # u
                                /\ u \notin s.msg[m].readBy}

MarkRead(s, u, c) ==
    [m \in Msgs |-> IF m \in UnreadBy(s, u, c)
                    THEN [s.msg[m] EXCEPT !.readBy = @ \cup {u}]
                    ELSE s.msg[m]]

\* Wrong: the message does not bring the conversation back to the lists.
BumpedHidden(conv, u, m, at) ==
    [conv EXCEPT !.lastMessage = m, !.lastMessageAt = at,
        !.unreadCounts = [v \in Users |->
            IF v = u THEN 0 ELSE IF v \in conv.participants THEN @[v] + 1 ELSE @[v]]]

\* Wrong: the sender's own badge is left as it was.
BumpedAll(conv, u, m, at) ==
    [conv EXCEPT !.hiddenFor = {}, !.lastMessage = m, !.lastMessageAt = at,
        !.unreadCounts = [v \in Users |->
            IF v # u /\ v \in conv.participants THEN @[v] + 1 ELSE @[v]]]

\* The conversation after a message m of u at time at.
Bumped(conv, u, m, at) ==
    [conv EXCEPT !.hiddenFor = {}, !.lastMessage = m, !.lastMessageAt = at,
        !.unreadCounts = [v \in Users |->
            IF v = u THEN 0 ELSE IF v \in conv.participants THEN @[v] + 1 ELSE @[v]]]

\* create of the message, findOneAndUpdate of the conversation and the event.
WithMessage(s, u, c, m, at) ==
    [s EXCEPT
        !.msg[m] = [conversation |-> c, sender |-> u, isOriginal |-> TRUE,
                    readBy |-> {u}, createdAt |-> at],
        !.conv[c] = Bumped(s.conv[c], u, m, at),
        !.outbox = @ \cup {[type |-> "sent", message |-> m, conversation |-> c,
                            from |-> u,
                            to |-> s.conv[c].participants \ {u}]}]

\* Wrong: the time of the message is the clock of the server alone.
ClockTime(conv, now) == now

\* A message is later than the one before it, whatever the clock says.
MessageTime(conv, now) == Later(now, conv.lastMessageAt + 1)

\* A conversation that exists, named by its id or found by its recipient.
SendMessage(p, u, c, m, now) ==
    LET s == snap[p]
        read == [s EXCEPT !.msg = MarkRead(s, u, c)]
        at == MessageTime(s.conv[c], now) IN
    /\ s # None
    /\ HasConv(s, c)
    /\ s.msg[m] = Unborn
    /\ u \in s.conv[c].participants
    /\ ~s.conv[c].isLocked
    /\ ~s.conv[c].isClosed
    /\ Commit(p, WithMessage(read, u, c, m, at), acquireForMutation(c))
    /\ UNCHANGED job

NewConversation(u, v, now) ==
    [participants |-> {u, v}, participantHash |-> {u, v}, departed |-> {},
     isClosed |-> FALSE, isLocked |-> FALSE, hiddenFor |-> {},
     clearedAt |-> [w \in Users |-> 0], unreadCounts |-> [w \in Users |-> 0],
     lastMessage |-> None, lastMessageAt |-> now]

\* The pair has no conversation yet and v may be written to.
MayCreate(s, u, v, c) ==
    /\ s # None
    /\ u # v
    /\ ~s.isOut[v]
    /\ s.conv[c] = Unborn
    /\ \A d \in Convs : HasConv(s, d) => s.conv[d].participantHash # {u, v}

\* The first message of a pair creates their conversation.
SendFirst(p, u, v, c, m, now) ==
    LET s == snap[p]
        created == [s EXCEPT !.conv[c] = NewConversation(u, v, now)] IN
    /\ MayCreate(s, u, v, c)
    /\ s.msg[m] = Unborn
    /\ Commit(p, WithMessage(created, u, c, m, MessageTime(created.conv[c], now)), {HashDoc({u, v})})
    /\ UNCHANGED job

\* initiateConversation of a pair that has none.
CreateConversation(p, u, v, c, now) ==
    LET s == snap[p] IN
    /\ MayCreate(s, u, v, c)
    /\ Commit(p, [s EXCEPT !.conv[c] = NewConversation(u, v, now)], {HashDoc({u, v})})
    /\ UNCHANGED job

\* Its last transaction: the conversation is no longer hidden for u.  It was
\* looked up outside of any transaction, any time before: every conversation
\* was found under the hash of its pair once.
Reopen(p, u, c) ==
    LET s == snap[p] IN
    /\ s # None
    /\ HasConv(s, c)
    /\ u \in s.conv[c].participants \cup s.conv[c].departed
    /\ Commit(p, [s EXCEPT !.conv[c].hiddenFor = @ \ {u}], acquireForMutation(c))
    /\ UNCHANGED job

-----------------------------------------------------------------------------
(* Reading, clearing, moderating.                                          *)

MarkConversationRead(p, u, c) ==
    LET s == snap[p] IN
    /\ s # None
    /\ HasConv(s, c)
    /\ u \in s.conv[c].participants \ s.conv[c].hiddenFor
    /\ Commit(p, [s EXCEPT !.msg = MarkRead(s, u, c),
                           !.conv[c].unreadCounts[u] = 0], acquireForMutation(c))
    /\ UNCHANGED job

\* What deleteNotifications removes.
NotificationsFor(s, u, c) == {n \in s.notes : n.conversation = c /\ n.user = u}

Cleared(conv, u) ==
    [conv EXCEPT !.hiddenFor = @ \cup {u}, !.clearedAt[u] = conv.lastMessageAt,
                 !.unreadCounts[u] = 0]

\* Deleting a conversation clears and hides it for u alone.
ClearConversation(p, u, c) ==
    LET s == snap[p] IN
    /\ s # None
    /\ HasConv(s, c)
    /\ ~s.isOut[u]
    /\ u \in s.conv[c].participants
    /\ ~s.conv[c].isLocked
    /\ Commit(p, [s EXCEPT
            !.conv[c] = Cleared(s.conv[c], u),
            !.notes = @ \ NotificationsFor(s, u, c)], acquireForMutation(c))
    /\ UNCHANGED job

\* An administrator locks or unlocks a conversation.
SetLock(p, c, locked) ==
    LET s == snap[p] IN
    /\ s # None
    /\ HasConv(s, c)
    /\ Commit(p, [s EXCEPT !.conv[c].isLocked = locked], acquireForMutation(c))
    /\ UNCHANGED job

\* An administrator removes a conversation with everything that refers to it.
Purge(p, c) ==
    LET s == snap[p] IN
    /\ s # None
    /\ HasConv(s, c)
    /\ Commit(p, [s EXCEPT
            !.conv[c] = Gone,
            !.msg = [m \in Msgs |-> IF m \in MessagesOf(s, c) THEN Gone ELSE s.msg[m]],
            !.outbox = {e \in @ : e.conversation # c},
            !.notes = {n \in @ : n.conversation # c}], acquireForMutation(c))
    /\ UNCHANGED job

\* editMessage and deleteMessage replace the body of a message of u's own.
ReplaceBody(p, u, m) ==
    LET s == snap[p]
        c == s.msg[m].conversation IN
    /\ s # None
    /\ HasMsg(s, m)
    /\ HasConv(s, c)
    /\ u \in s.conv[c].participants \ s.conv[c].hiddenFor
    /\ IsVisible(s, u, m)
    /\ ~s.conv[c].isLocked
    /\ s.msg[m].sender = u
    /\ Commit(p, [s EXCEPT !.msg[m].isOriginal = FALSE], acquireForMutation(c) \cup {MsgDoc(m)})
    /\ UNCHANGED job

-----------------------------------------------------------------------------
(* Accounts.                                                               *)

\* Conversations that name u as a participant or as a departed one.
ConversationsOf(s, u) ==
    {c \in Convs : HasConv(s, c) /\ u \in s.conv[c].participants \cup s.conv[c].departed}

Departed(conv, u) ==
    [conv EXCEPT !.participants = @ \ {u}, !.departed = @ \cup {u},
                 !.participantHash = {}, !.unreadCounts[u] = 0, !.isClosed = TRUE]

Anonymous(message, u) ==
    [message EXCEPT !.sender = IF @ = u THEN None ELSE @, !.readBy = @ \ {u}]

\* Banning or deleting an account, one transaction.
RemoveAccount(p, u) ==
    LET s == snap[p]
        convs == ConversationsOf(s, u) IN
    /\ s # None
    /\ Commit(p, [s EXCEPT
            !.isOut[u] = TRUE,
            !.msg = [m \in Msgs |-> IF HasMsg(s, m) THEN Anonymous(s.msg[m], u)
                                                    ELSE s.msg[m]],
            !.conv = [c \in Convs |-> IF c \in convs THEN Departed(s.conv[c], u)
                                                     ELSE s.conv[c]],
            !.notes = {n \in @ : u \notin {n.user, n.from}}],
            {UserDoc(u)} \cup {ConvDoc(c) : c \in convs})
    /\ UNCHANGED job

\* Unbanning is one update outside of any transaction.  (An account that never
\* takes this step may be a deleted one; those not in Restored never do.)
Unban(u) ==
    /\ u \in Restored
    /\ store.isOut[u]
    /\ store' = [store EXCEPT !.isOut[u] = FALSE]
    /\ missed' = [q \in Txns |-> IF snap[q] = None THEN {}
                                                   ELSE missed[q] \cup {UserDoc(u)}]
    /\ UNCHANGED <<snap, job>>

-----------------------------------------------------------------------------
(* Events.  The outbox delivers an event at least once, so its handler may *)
(* run again for an event that is still pending.                           *)

\* Wrong: what the recipient has cleared or hidden is not looked at.
RecipientsInStanding(s, e) == {v \in e.to : ~s.isOut[v]}

\* Recipients MessageSentHandler asks a notification for.
ActiveRecipients(s, e) ==
    {v \in e.to :
        /\ ~s.isOut[v]
        /\ v \notin s.conv[e.conversation].hiddenFor
        /\ IsVisible(s, v, e.message)}

Requests(s, e) ==
    IF ~HasMsg(s, e.message) \/ s.isOut[e.from] THEN {}
    ELSE {[e EXCEPT !.type = "notify", !.to = {v}] : v \in ActiveRecipients(s, e)}

HandleMessageSent(p, e) ==
    LET s == snap[p] IN
    /\ s # None
    /\ e \in s.outbox
    /\ e.type = "sent"
    /\ HasConv(s, e.conversation)
    /\ Commit(p, [s EXCEPT !.outbox = @ \cup Requests(s, e)],
              acquireForMutation(e.conversation))
    /\ UNCHANGED job

\* NotificationRequestedHandler runs outside of any transaction: it reads the
\* accounts, then the conversation and the message, then creates.
ClaimNotification(w, e) ==
    /\ job[w] = None
    /\ e \in store.outbox
    /\ e.type = "notify"
    /\ \A v \in Workers : ~(job[v] # None /\ job[v].event = e)
    /\ job' = [job EXCEPT ![w] = [event |-> e, phase |-> "accounts"]]
    /\ UNCHANGED <<store, snap, missed>>

Advance(w, phase) ==
    /\ job' = [job EXCEPT ![w].phase = phase]
    /\ UNCHANGED <<store, snap, missed>>

CheckAccounts(w) ==
    /\ job[w] # None
    /\ job[w].phase = "accounts"
    /\ \A u \in job[w].event.to \cup {job[w].event.from} : ~store.isOut[u]
    /\ Advance(w, "conversation")

\* isMessageNotificationEligible.
IsEligible(s, e) ==
    /\ HasConv(s, e.conversation)
    /\ HasMsg(s, e.message)
    /\ \A v \in e.to :
         /\ v \in s.conv[e.conversation].participants \ s.conv[e.conversation].hiddenFor
         /\ IsVisible(s, v, e.message)

CheckConversation(w) ==
    /\ job[w] # None
    /\ job[w].phase = "conversation"
    /\ IsEligible(store, job[w].event)
    /\ Advance(w, "create")

\* createOnce upserts under the key message:<id>:<receiver>.
NotificationsOf(e) ==
    {[message |-> e.message, conversation |-> e.conversation, from |-> e.from,
      user |-> v] : v \in e.to}

CreateNotification(w) ==
    /\ job[w] # None
    /\ job[w].phase = "create"
    /\ \E done \in BOOLEAN :
         store' = [store EXCEPT
             !.notes = @ \cup NotificationsOf(job[w].event),
             !.outbox = IF done THEN @ \ {job[w].event} ELSE @]
    /\ job' = [job EXCEPT ![w] = None]
    /\ UNCHANGED <<snap, missed>>

\* A check fails and the event is processed, or the worker crashes (or the
\* receiver is looking at the conversation: then nothing is created either).
SkipNotification(w) ==
    /\ job[w] # None
    /\ \E done \in BOOLEAN :
         store' = [store EXCEPT !.outbox = IF done THEN @ \ {job[w].event} ELSE @]
    /\ job' = [job EXCEPT ![w] = None]
    /\ UNCHANGED <<snap, missed>>

-----------------------------------------------------------------------------
Init ==
    /\ store = [conv |-> [c \in Convs |-> Unborn], msg |-> [m \in Msgs |-> Unborn],
                isOut |-> [u \in Users |-> FALSE], outbox |-> {}, notes |-> {}]
    /\ snap = [p \in Txns |-> None]
    /\ missed = [p \in Txns |-> {}]
    /\ job = [w \in Workers |-> None]

\* What a user asks for.
UserStep(p, u) ==
    \/ \E c \in Convs, m \in Msgs, now \in 1 .. MaxClock : SendMessage(p, u, c, m, now)
    \/ \E v \in Users, c \in Convs, m \in Msgs, now \in 1 .. MaxClock :
         SendFirst(p, u, v, c, m, now)
    \/ \E v \in Users, c \in Convs, now \in 1 .. MaxClock :
         CreateConversation(p, u, v, c, now)
    \/ \E c \in Convs : \/ Reopen(p, u, c)
                        \/ MarkConversationRead(p, u, c)
                        \/ ClearConversation(p, u, c)
    \/ \E m \in Msgs : ReplaceBody(p, u, m)

\* What administrators ask for.
AdminStep(p) ==
    \/ \E c \in Convs : Purge(p, c)
    \/ \E c \in Convs, locked \in BOOLEAN : SetLock(p, c, locked)
    \/ \E u \in Users \cap Removable : RemoveAccount(p, u)

TransactionStep(p) ==
    \/ Begin(p)
    \/ Abort(p)
    \/ \E u \in Users : UserStep(p, u)
    \/ AdminStep(p)
    \/ snap[p] # None /\ \E e \in snap[p].outbox : HandleMessageSent(p, e)

WorkerStep(w) ==
    \/ \E e \in store.outbox : ClaimNotification(w, e)
    \/ CheckAccounts(w)
    \/ CheckConversation(w)
    \/ CreateNotification(w)
    \/ SkipNotification(w)

Next ==
    \/ \E p \in Txns : TransactionStep(p)
    \/ \E w \in Workers : WorkerStep(w)
    \/ \E u \in Users : Unban(u)

Spec == Init /\ [][Next]_vars

-----------------------------------------------------------------------------
(* Properties.                                                             *)

TypeOK ==
    /\ store \in Store
    /\ snap \in [Txns -> Store \cup {None}]
    /\ missed \in [Txns -> SUBSET Docs]
    /\ job \in [Workers -> Jobs \cup {None}]

\* The unread badge of a participant (unreadCounts, kept by $inc and $set) is
\* the number of messages an open of the conversation would mark as read.
UnreadIsCounted ==
    \A c \in Convs : HasConv(store, c) =>
        \A u \in store.conv[c].participants :
            store.conv[c].unreadCounts[u] = Cardinality(UnreadBy(store, u, c))

\* The messages of a conversation have different times, and lastMessage and
\* lastMessageAt name the newest: pages, the cursor of the conversation list
\* and clearedAt depend on it.
NewestIsLast ==
    \A c \in Convs : HasConv(store, c) =>
        LET times == {store.msg[m].createdAt : m \in MessagesOf(store, c)}
            conv == store.conv[c] IN
        /\ Cardinality(times) = Cardinality(MessagesOf(store, c))
        /\ \A t \in times : t <= conv.lastMessageAt
        /\ times # {} => /\ conv.lastMessage \in MessagesOf(store, c)
                         /\ store.msg[conv.lastMessage].createdAt = conv.lastMessageAt

\* A conversation that is out of a user's list has nothing new for that user:
\* a message brings it back.
HiddenHasNothingNew ==
    \A c \in Convs : HasConv(store, c) =>
        \A u \in store.conv[c].hiddenFor, m \in MessagesOf(store, c) :
            ~IsVisible(store, u, m)

\* After a purge no message of the conversation and no event about it is left,
\* and none comes back from a transaction that was running.
PurgeLeavesNothing ==
    /\ \A m \in Msgs : HasMsg(store, m) => HasConv(store, store.msg[m].conversation)
    /\ \A e \in store.outbox : HasConv(store, e.conversation)

\* No message is sent to a conversation that is locked or closed when the
\* transaction commits, and no body changes in one that is locked then, or that
\* its author has cleared or left.
WriteIsAllowed(m) ==
    LET c == store'.msg[m].conversation
        u == store'.msg[m].sender IN
    /\ store.msg[m] = Unborn /\ HasConv(store, c)
         => ~store.conv[c].isLocked /\ ~store.conv[c].isClosed
    /\ HasMsg(store, m) /\ store.msg[m].isOriginal # store'.msg[m].isOriginal
         => /\ ~store.conv[c].isLocked
            /\ u \in store.conv[c].participants
            /\ IsVisible(store, u, m)

\* In every step, each message that exists afterwards was created or edited, if
\* it was, as the handlers of send, initiate, edit and delete allow: what they
\* checked in their snapshots still holds in the store they commit to.
WritesAreAllowed ==
    [][\A m \in Msgs : HasMsg(store', m) => WriteIsAllowed(m)]_vars

\* The receiver of a request has neither hidden the conversation nor cleared the
\* message, and nobody it names has left the conversation and is banned or deleted.
RequestIsCurrent(e) ==
    LET conv == store.conv[e.conversation] IN
    /\ \A v \in e.to : v \notin conv.hiddenFor /\ IsVisible(store, v, e.message)
    /\ \A u \in conv.departed \cap (e.to \cup {e.from}) : ~store.isOut[u]

\* A notification is asked for only of a receiver that has neither hidden the
\* conversation nor cleared the message when the transaction commits, and never
\* for an account that has been taken out of the conversation and is still
\* banned or deleted.
RequestsAreCurrent ==
    [][\A e \in store'.outbox \ store.outbox :
         e.type = "notify" => RequestIsCurrent(e)]_vars

\* No notification is about a conversation that was purged or about a message
\* its receiver has cleared away.
NoStaleNotification ==
    \A n \in store.notes :
        /\ HasConv(store, n.conversation)
        /\ HasMsg(store, n.message)
        /\ IsVisible(store, n.user, n.message)
=============================================================================
