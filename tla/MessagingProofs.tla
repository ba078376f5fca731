-------------------------- MODULE MessagingProofs --------------------------
(***************************************************************************)
(* Proofs about Messaging, for any users, conversations, messages,         *)
(* overlapping transactions and workers.                                   *)
(***************************************************************************)
EXTENDS Messaging, FiniteSetTheorems, TLAPS

-----------------------------------------------------------------------------
(* Types of the parts.                                                     *)

LEMMA HasConvType ==
    ASSUME NEW s \in Store, NEW c \in Convs, HasConv(s, c)
    PROVE  s.conv[c] \in Conversation
BY DEF Store, HasConv

LEMMA HasMsgType ==
    ASSUME NEW s \in Store, NEW m \in Msgs, HasMsg(s, m)
    PROVE  s.msg[m] \in Message
BY DEF Store, HasMsg

LEMMA StoreFields ==
    ASSUME NEW s \in Store
    PROVE  /\ s.conv \in [Convs -> Conversation \cup {Unborn, Gone}]
           /\ s.msg \in [Msgs -> Message \cup {Unborn, Gone}]
           /\ s.isOut \in [Users -> BOOLEAN]
           /\ s.outbox \in SUBSET Event
           /\ s.notes \in SUBSET Notification
BY DEF Store

LEMMA StoreMade ==
    ASSUME NEW C \in [Convs -> Conversation \cup {Unborn, Gone}],
           NEW M \in [Msgs -> Message \cup {Unborn, Gone}],
           NEW O \in [Users -> BOOLEAN],
           NEW E \in SUBSET Event,
           NEW N \in SUBSET Notification
    PROVE  [conv |-> C, msg |-> M, isOut |-> O, outbox |-> E, notes |-> N] \in Store
BY DEF Store

LEMMA ChangedType ==
    ASSUME NEW s, NEW t
    PROVE  Changed(s, t) \subseteq Docs
BY DEF Changed, Docs

LEMMA acquireType ==
    ASSUME NEW c \in Convs
    PROVE  acquireForMutation(c) \subseteq Docs
BY DEF acquireForMutation, Docs

LEMMA MarkReadType ==
    ASSUME NEW s \in Store, NEW u \in Users, NEW c \in Convs
    PROVE  MarkRead(s, u, c) \in [Msgs -> Message \cup {Unborn, Gone}]
<1> SUFFICES ASSUME NEW m \in UnreadBy(s, u, c)
             PROVE  [s.msg[m] EXCEPT !.readBy = @ \cup {u}] \in Message
  BY DEF MarkRead, Store
<1>1. m \in Msgs /\ HasMsg(s, m)
  BY DEF UnreadBy, MessagesOf
<1>2. s.msg[m] \in Message
  BY <1>1, HasMsgType
<1> QED
  BY <1>2 DEF Message

LEMMA BumpedType ==
    ASSUME NEW conv \in Conversation, NEW u \in Users, NEW m \in Msgs, NEW at \in Nat
    PROVE  Bumped(conv, u, m, at) \in Conversation
<1> DEFINE counts == [v \in Users |->
            IF v = u THEN 0 ELSE IF v \in conv.participants THEN conv.unreadCounts[v] + 1
                                 ELSE conv.unreadCounts[v]]
<1>1. conv.unreadCounts \in [Users -> Nat]
  BY DEF Conversation
<1>2. counts \in [Users -> Nat]
  BY <1>1
<1>3. Bumped(conv, u, m, at) =
        [conv EXCEPT !.hiddenFor = {}, !.lastMessage = m, !.lastMessageAt = at,
                     !.unreadCounts = counts]
  BY DEF Bumped, Conversation
<1> HIDE DEF counts
<1> QED
  BY <1>2, <1>3 DEF Conversation

LEMMA NewConversationType ==
    ASSUME NEW u \in Users, NEW v \in Users, u # v, NEW now \in Nat, {u, v} \in Pairs
    PROVE  NewConversation(u, v, now) \in Conversation
BY DEF NewConversation, Conversation

LEMMA DepartedType ==
    ASSUME NEW conv \in Conversation, NEW u \in Users
    PROVE  Departed(conv, u) \in Conversation
BY DEF Departed, Conversation

LEMMA AnonymousType ==
    ASSUME NEW message \in Message, NEW u \in Users
    PROVE  Anonymous(message, u) \in Message
BY DEF Anonymous, Message

LEMMA MessageTimeLater ==
    ASSUME NEW conv \in Conversation, NEW now \in Nat
    PROVE  MessageTime(conv, now) \in Nat /\ conv.lastMessageAt < MessageTime(conv, now)
BY DEF MessageTime, Later, Conversation

-----------------------------------------------------------------------------
(* What a transaction makes of what it read is a store.                    *)

LEMMA WithMessageType ==
    ASSUME NEW s \in Store, NEW u \in Users, NEW c \in Convs, NEW m \in Msgs,
           NEW at \in Nat, s.conv[c] \in Conversation
    PROVE  WithMessage(s, u, c, m, at) \in Store
<1> DEFINE record == [conversation |-> c, sender |-> u, isOriginal |-> TRUE,
                      readBy |-> {u}, createdAt |-> at]
           event == [type |-> "sent", message |-> m, conversation |-> c,
                     from |-> u, to |-> s.conv[c].participants \ {u}]
<1>1. record \in Message
  BY DEF Message
<1>2. s.conv[c].participants \in SUBSET Users
  BY DEF Conversation
<1>3. event \in Event
  BY <1>2 DEF Event
<1>4. Bumped(s.conv[c], u, m, at) \in Conversation
  BY BumpedType
<1>5. WithMessage(s, u, c, m, at) =
        [s EXCEPT !.msg[m] = record, !.conv[c] = Bumped(s.conv[c], u, m, at),
                  !.outbox = @ \cup {event}]
  BY DEF WithMessage
<1> DEFINE C == [s.conv EXCEPT ![c] = Bumped(s.conv[c], u, m, at)]
           M == [s.msg EXCEPT ![m] = record]
           E == s.outbox \cup {event}
<1>6. C \in [Convs -> Conversation \cup {Unborn, Gone}]
  BY <1>4, StoreFields
<1>7. M \in [Msgs -> Message \cup {Unborn, Gone}]
  BY <1>1, StoreFields
<1>8. E \in SUBSET Event
  BY <1>3, StoreFields
<1>9. WithMessage(s, u, c, m, at) =
        [conv |-> C, msg |-> M, isOut |-> s.isOut, outbox |-> E, notes |-> s.notes]
  <2> HIDE DEF record, event
  <2> QED BY <1>5 DEF Store
<1> HIDE DEF C, M, E
<1> QED
  BY <1>6, <1>7, <1>8, <1>9, StoreFields DEF Store

LEMMA MarkedType ==
    ASSUME NEW s \in Store, NEW u \in Users, NEW c \in Convs
    PROVE  [s EXCEPT !.msg = MarkRead(s, u, c)] \in Store
BY MarkReadType DEF Store

LEMMA ConvReplaced ==
    ASSUME NEW s \in Store, NEW c \in Convs,
           NEW conv \in Conversation \cup {Unborn, Gone}
    PROVE  /\ [s EXCEPT !.conv[c] = conv] \in Store
           /\ [s EXCEPT !.conv[c] = conv].conv[c] = conv
BY DEF Store

LEMMA PurgedType ==
    ASSUME NEW s \in Store, NEW c \in Convs,
           NEW t, t = [s EXCEPT
               !.conv[c] = Gone,
               !.msg = [m \in Msgs |-> IF m \in MessagesOf(s, c) THEN Gone ELSE s.msg[m]],
               !.outbox = {e \in @ : e.conversation # c},
               !.notes = {n \in @ : n.conversation # c}]
    PROVE  t \in Store
<1> DEFINE msgs == [m \in Msgs |-> IF m \in MessagesOf(s, c) THEN Gone ELSE s.msg[m]]
           events == {e \in s.outbox : e.conversation # c}
           notes == {n \in s.notes : n.conversation # c}
<1>1. msgs \in [Msgs -> Message \cup {Unborn, Gone}]
  BY StoreFields
<1>2. events \in SUBSET Event /\ notes \in SUBSET Notification
  BY StoreFields
<1>3. t = [s EXCEPT !.conv[c] = Gone, !.msg = msgs, !.outbox = events, !.notes = notes]
  OBVIOUS
<1> DEFINE C == [s.conv EXCEPT ![c] = Gone]
<1>4. C \in [Convs -> Conversation \cup {Unborn, Gone}]
  BY StoreFields
<1>5. t = [conv |-> C, msg |-> msgs, isOut |-> s.isOut, outbox |-> events,
           notes |-> notes]
  <2> HIDE DEF msgs, events, notes
  <2> QED BY <1>3 DEF Store
<1> HIDE DEF msgs, events, notes, C
<1> QED
  BY <1>1, <1>2, <1>4, <1>5, StoreFields DEF Store

LEMMA RemovedType ==
    ASSUME NEW s \in Store, NEW u \in Users,
           NEW t, t = [s EXCEPT
               !.isOut[u] = TRUE,
               !.msg = [m \in Msgs |-> IF HasMsg(s, m) THEN Anonymous(s.msg[m], u)
                                                       ELSE s.msg[m]],
               !.conv = [c \in Convs |-> IF c \in ConversationsOf(s, u)
                                         THEN Departed(s.conv[c], u) ELSE s.conv[c]],
               !.notes = {n \in @ : u \notin {n.user, n.from}}]
    PROVE  t \in Store
<1> DEFINE msgs == [m \in Msgs |-> IF HasMsg(s, m) THEN Anonymous(s.msg[m], u)
                                                   ELSE s.msg[m]]
           convs == [c \in Convs |-> IF c \in ConversationsOf(s, u)
                                     THEN Departed(s.conv[c], u) ELSE s.conv[c]]
           notes == {n \in s.notes : u \notin {n.user, n.from}}
<1>1. msgs \in [Msgs -> Message \cup {Unborn, Gone}]
  BY StoreFields, HasMsgType, AnonymousType
<1>2. \A c \in ConversationsOf(s, u) : c \in Convs /\ HasConv(s, c)
  BY DEF ConversationsOf
<1>3. convs \in [Convs -> Conversation \cup {Unborn, Gone}]
  BY <1>2, StoreFields, HasConvType, DepartedType
<1>4. notes \in SUBSET Notification
  BY StoreFields
<1>5. t = [s EXCEPT !.isOut[u] = TRUE, !.msg = msgs, !.conv = convs, !.notes = notes]
  OBVIOUS
<1> DEFINE O == [s.isOut EXCEPT ![u] = TRUE]
<1>6. O \in [Users -> BOOLEAN]
  BY StoreFields
<1>7. t = [conv |-> convs, msg |-> msgs, isOut |-> O, outbox |-> s.outbox,
           notes |-> notes]
  <2> HIDE DEF msgs, convs, notes
  <2> QED BY <1>5 DEF Store
<1> HIDE DEF msgs, convs, notes, O
<1> QED
  BY <1>1, <1>3, <1>4, <1>6, <1>7, StoreFields DEF Store

LEMMA RequestsType ==
    ASSUME NEW s \in Store, NEW e \in Event
    PROVE  Requests(s, e) \in SUBSET Event
<1>1. \A v \in ActiveRecipients(s, e) : v \in Users
  BY DEF ActiveRecipients, Event
<1>2. \A v \in Users : [e EXCEPT !.type = "notify", !.to = {v}] \in Event
  BY DEF Event
<1> QED
  BY <1>1, <1>2 DEF Requests

LEMMA ApplyType ==
    ASSUME TypeOK, NEW p \in Txns, NEW s \in Store, NEW t \in Store,
           NEW extra \in SUBSET Docs, Apply(p, s, t, extra)
    PROVE  /\ store' \in Store
           /\ snap' \in [Txns -> Store \cup {None}]
           /\ missed' \in [Txns -> SUBSET Docs]
<1> USE DEF TypeOK
<1> DEFINE C == [c \in Convs |-> IF s.conv[c] # t.conv[c] THEN t.conv[c]
                                                         ELSE store.conv[c]]
           M == [m \in Msgs |-> IF s.msg[m] # t.msg[m] THEN t.msg[m] ELSE store.msg[m]]
           O == [u \in Users |-> IF s.isOut[u] # t.isOut[u] THEN t.isOut[u]
                                                            ELSE store.isOut[u]]
           E == Merged(store.outbox, s.outbox, t.outbox)
           N == Merged(store.notes, s.notes, t.notes)
<1>1. C \in [Convs -> Conversation \cup {Unborn, Gone}]
  BY StoreFields
<1>2. M \in [Msgs -> Message \cup {Unborn, Gone}]
  BY StoreFields
<1>3. O \in [Users -> BOOLEAN]
  BY StoreFields
<1>4. E \in SUBSET Event /\ N \in SUBSET Notification
  BY StoreFields DEF Merged
<1>5. store' = [conv |-> C, msg |-> M, isOut |-> O, outbox |-> E, notes |-> N]
  BY DEF Apply
<1>6. store' \in Store
  <2> HIDE DEF C, M, O, E, N
  <2> QED BY <1>1, <1>2, <1>3, <1>4, <1>5, StoreMade
<1>7. snap' \in [Txns -> Store \cup {None}]
  BY DEF Apply
<1>8. missed' \in [Txns -> SUBSET Docs]
  BY ChangedType DEF Apply
<1> QED
  BY <1>6, <1>7, <1>8

-----------------------------------------------------------------------------
(* What one conversation is worth.                                         *)

Members(s, c) == s.conv[c].participants \cup s.conv[c].departed

\* Only who was a participant once has sent or read a message.
MembersOnly(s, c) ==
    \A m \in MessagesOf(s, c) :
        /\ s.msg[m].sender \in Members(s, c) \cup {None}
        /\ s.msg[m].readBy \subseteq Members(s, c)

\* NewestIsLast of one conversation.
Ordered(s, c) ==
    /\ \A m, n \in MessagesOf(s, c) : m # n => s.msg[m].createdAt # s.msg[n].createdAt
    /\ \A m \in MessagesOf(s, c) : s.msg[m].createdAt <= s.conv[c].lastMessageAt
    /\ MessagesOf(s, c) # {} =>
         /\ s.conv[c].lastMessage \in MessagesOf(s, c)
         /\ s.msg[s.conv[c].lastMessage].createdAt = s.conv[c].lastMessageAt

\* Nobody has cleared more than there is, and who hides it has cleared it all.
InView(s, c) ==
    \A u \in Users :
        /\ s.conv[c].clearedAt[u] <= s.conv[c].lastMessageAt
        /\ u \in s.conv[c].hiddenFor => s.conv[c].clearedAt[u] = s.conv[c].lastMessageAt

\* UnreadIsCounted of one conversation.
Counted(s, c) ==
    \A u \in s.conv[c].participants :
        s.conv[c].unreadCounts[u] = Cardinality(UnreadBy(s, u, c))

Whole(s, c) ==
    /\ IsFiniteSet(MessagesOf(s, c))
    /\ HasConv(s, c) => MembersOnly(s, c) /\ Ordered(s, c) /\ InView(s, c) /\ Counted(s, c)
    /\ ~HasConv(s, c) => MessagesOf(s, c) = {}

EventWhole(s, e) ==
    HasConv(s, e.conversation) /\ e.message \in MessagesOf(s, e.conversation)

Sound(s) ==
    /\ \A c \in Convs : Whole(s, c)
    /\ \A e \in s.outbox : EventWhole(s, e)

\* Two stores agree on a conversation and its messages.
SameConv(s, t, c) ==
    /\ s.conv[c] = t.conv[c]
    /\ \A m \in MessagesOf(s, c) \cup MessagesOf(t, c) : s.msg[m] = t.msg[m]

LEMMA SameMessages ==
    ASSUME NEW s, NEW t, NEW c \in Convs, SameConv(s, t, c)
    PROVE  MessagesOf(s, c) = MessagesOf(t, c)
BY DEF SameConv, MessagesOf, HasMsg

LEMMA SameUnread ==
    ASSUME NEW s, NEW t, NEW c \in Convs, NEW u, SameConv(s, t, c)
    PROVE  UnreadBy(s, u, c) = UnreadBy(t, u, c)
<1>1. MessagesOf(s, c) = MessagesOf(t, c)
  BY SameMessages
<1>2. \A m \in MessagesOf(s, c) :
        s.msg[m] = t.msg[m] /\ s.msg[m].conversation = c
  BY DEF SameConv, MessagesOf
<1>3. s.conv[c] = t.conv[c]
  BY DEF SameConv
<1> QED
  BY <1>1, <1>2, <1>3 DEF UnreadBy, IsVisible

\* What is whole stays whole in a store that agrees.
LEMMA SameWhole ==
    ASSUME NEW s, NEW t, NEW c \in Convs, SameConv(s, t, c), Whole(s, c)
    PROVE  Whole(t, c)
<1>1. MessagesOf(s, c) = MessagesOf(t, c)
  BY SameMessages
<1>2. s.conv[c] = t.conv[c] /\ \A m \in MessagesOf(t, c) : s.msg[m] = t.msg[m]
  BY DEF SameConv
<1>3. \A u : UnreadBy(s, u, c) = UnreadBy(t, u, c)
  BY SameUnread
<1>4. HasConv(s, c) <=> HasConv(t, c)
  BY <1>2 DEF HasConv
<1>5. MembersOnly(s, c) => MembersOnly(t, c)
  BY <1>1, <1>2 DEF MembersOnly, Members
<1>6. Ordered(s, c) => Ordered(t, c)
  BY <1>1, <1>2 DEF Ordered
<1>7. InView(s, c) => InView(t, c)
  BY <1>2 DEF InView
<1>8. Counted(s, c) => Counted(t, c)
  BY <1>2, <1>3 DEF Counted
<1> QED
  BY <1>1, <1>4, <1>5, <1>6, <1>7, <1>8 DEF Whole

LEMMA SameEvent ==
    ASSUME NEW s, NEW t, NEW e \in Event, SameConv(s, t, e.conversation),
           EventWhole(s, e)
    PROVE  EventWhole(t, e)
<1>1. e.conversation \in Convs
  BY DEF Event
<1> QED
  BY <1>1, SameMessages DEF EventWhole, HasConv, SameConv

LEMMA SameSymmetric ==
    ASSUME NEW s, NEW t, NEW c, SameConv(s, t, c)
    PROVE  SameConv(t, s, c)
BY DEF SameConv

LEMMA SameTransitive ==
    ASSUME NEW s, NEW t, NEW r, NEW c \in Convs, SameConv(s, t, c), SameConv(t, r, c)
    PROVE  SameConv(s, r, c)
<1>1. MessagesOf(s, c) = MessagesOf(t, c) /\ MessagesOf(t, c) = MessagesOf(r, c)
  BY SameMessages
<1> QED
  BY <1>1 DEF SameConv

-----------------------------------------------------------------------------
(* What a command makes of one conversation is whole again.                *)

LEMMA MineFields ==
    ASSUME NEW s \in Store, NEW c \in Convs, NEW m \in MessagesOf(s, c)
    PROVE  m \in Msgs /\ s.msg[m] \in Message /\ s.msg[m].conversation = c
BY HasMsgType DEF MessagesOf

LEMMA OrderedKept ==
    ASSUME NEW s, NEW t, NEW c \in Convs, Ordered(s, c),
           MessagesOf(t, c) = MessagesOf(s, c),
           \A m \in MessagesOf(s, c) : t.msg[m].createdAt = s.msg[m].createdAt,
           t.conv[c].lastMessage = s.conv[c].lastMessage,
           t.conv[c].lastMessageAt = s.conv[c].lastMessageAt
    PROVE  Ordered(t, c)
BY DEF Ordered

LEMMA UnreadKept ==
    ASSUME NEW s, NEW t, NEW c \in Convs, NEW u,
           MessagesOf(t, c) = MessagesOf(s, c),
           t.conv[c].clearedAt[u] = s.conv[c].clearedAt[u],
           \A m \in MessagesOf(s, c) :
               /\ t.msg[m].createdAt = s.msg[m].createdAt
               /\ t.msg[m].sender = u <=> s.msg[m].sender = u
               /\ u \in t.msg[m].readBy <=> u \in s.msg[m].readBy
    PROVE  UnreadBy(t, u, c) = UnreadBy(s, u, c)
<1>1. \A m \in MessagesOf(s, c) :
        s.msg[m].conversation = c /\ t.msg[m].conversation = c
  BY DEF MessagesOf
<1> QED
  BY <1>1 DEF UnreadBy, IsVisible

\* MarkRead adds the reader to what was unread, and changes nothing else.
LEMMA MarkedAlone ==
    ASSUME NEW s, NEW u, NEW c, NEW m \in Msgs,
           ~(HasMsg(s, m) /\ s.msg[m].conversation = c)
    PROVE  MarkRead(s, u, c)[m] = s.msg[m]
BY DEF MarkRead, UnreadBy, MessagesOf

LEMMA MarkedFields ==
    ASSUME NEW s \in Store, NEW u \in Users, NEW c \in Convs, NEW m \in Msgs,
           HasMsg(s, m), NEW marked, marked = MarkRead(s, u, c)[m]
    PROVE  /\ marked \in Message
           /\ marked.conversation = s.msg[m].conversation
           /\ marked.sender = s.msg[m].sender
           /\ marked.createdAt = s.msg[m].createdAt
           /\ marked.readBy =
                s.msg[m].readBy \cup (IF m \in UnreadBy(s, u, c) THEN {u} ELSE {})
<1>1. s.msg[m] \in Message
  BY HasMsgType
<1>2. CASE m \in UnreadBy(s, u, c)
  <2>1. marked = [s.msg[m] EXCEPT !.readBy = @ \cup {u}]
    BY <1>2 DEF MarkRead
  <2> QED
    BY <1>1, <1>2, <2>1 DEF Message
<1>3. CASE m \notin UnreadBy(s, u, c)
  <2>1. marked = s.msg[m]
    BY <1>3 DEF MarkRead
  <2> QED
    BY <1>1, <1>3, <2>1 DEF Message
<1> QED
  BY <1>2, <1>3

LEMMA MessageExists ==
    ASSUME NEW s, NEW m, s.msg[m] \in Message
    PROVE  HasMsg(s, m)
BY DocumentAssumption DEF HasMsg

\* t: s after u has read c.
LEMMA MarkedMessages ==
    ASSUME NEW s \in Store, NEW t \in Store, NEW u \in Users, NEW c \in Convs,
           t.msg = MarkRead(s, u, c)
    PROVE  /\ MessagesOf(t, c) = MessagesOf(s, c)
           /\ \A m \in MessagesOf(s, c) :
                /\ t.msg[m].sender = s.msg[m].sender
                /\ t.msg[m].createdAt = s.msg[m].createdAt
                /\ t.msg[m].readBy =
                     s.msg[m].readBy \cup (IF m \in UnreadBy(s, u, c) THEN {u} ELSE {})
<1>1. ASSUME NEW m \in Msgs
      PROVE  /\ ~HasMsg(s, m) => t.msg[m] = s.msg[m]
             /\ HasMsg(s, m) =>
                  /\ t.msg[m] \in Message
                  /\ t.msg[m].conversation = s.msg[m].conversation
                  /\ t.msg[m].sender = s.msg[m].sender
                  /\ t.msg[m].createdAt = s.msg[m].createdAt
                  /\ t.msg[m].readBy =
                       s.msg[m].readBy \cup (IF m \in UnreadBy(s, u, c) THEN {u} ELSE {})
  <2>1. CASE HasMsg(s, m)
    BY <2>1, MarkedFields
  <2>2. CASE ~HasMsg(s, m)
    BY <2>2, MarkedAlone
  <2> QED
    BY <2>1, <2>2
<1>2. \A m \in Msgs : HasMsg(t, m) <=> HasMsg(s, m)
  BY <1>1, MessageExists DEF HasMsg
<1>3. MessagesOf(t, c) = MessagesOf(s, c)
  BY <1>1, <1>2 DEF MessagesOf
<1>4. \A m \in MessagesOf(s, c) : m \in Msgs /\ HasMsg(s, m)
  BY DEF MessagesOf
<1> QED
  BY <1>1, <1>3, <1>4

\* A participant u of a whole conversation has read it: nothing is unread for u,
\* and the rest is as it was.
LEMMA MarkedParts ==
    ASSUME NEW s \in Store, NEW t \in Store, NEW u \in Users, NEW c \in Convs,
           t.msg = MarkRead(s, u, c), HasConv(s, c), Whole(s, c),
           u \in s.conv[c].participants, t.conv[c] \in Conversation,
           t.conv[c].participants = s.conv[c].participants,
           t.conv[c].departed = s.conv[c].departed,
           t.conv[c].lastMessage = s.conv[c].lastMessage,
           t.conv[c].lastMessageAt = s.conv[c].lastMessageAt,
           t.conv[c].hiddenFor = s.conv[c].hiddenFor,
           t.conv[c].clearedAt = s.conv[c].clearedAt
    PROVE  /\ IsFiniteSet(MessagesOf(t, c))
           /\ MembersOnly(t, c) /\ Ordered(t, c) /\ InView(t, c)
           /\ UnreadBy(t, u, c) = {}
           /\ \A v : v # u => UnreadBy(t, v, c) = UnreadBy(s, v, c)
<1>1. /\ MessagesOf(t, c) = MessagesOf(s, c)
      /\ \A m \in MessagesOf(s, c) :
           /\ t.msg[m].sender = s.msg[m].sender
           /\ t.msg[m].createdAt = s.msg[m].createdAt
           /\ t.msg[m].readBy =
                s.msg[m].readBy \cup (IF m \in UnreadBy(s, u, c) THEN {u} ELSE {})
  BY MarkedMessages
<1>2. IsFiniteSet(MessagesOf(t, c))
  BY <1>1 DEF Whole
<1>3. Members(t, c) = Members(s, c) /\ u \in Members(s, c)
  BY DEF Members
<1>4. MembersOnly(t, c)
  <2>1. MembersOnly(s, c)
    BY DEF Whole
  <2> QED
    BY <1>1, <1>3, <2>1 DEF MembersOnly
<1>5. Ordered(t, c)
  BY <1>1, OrderedKept DEF Whole
<1>6. InView(t, c)
  BY DEF Whole, InView
<1>7. UnreadBy(t, u, c) = {}
  <2> SUFFICES ASSUME NEW m \in UnreadBy(t, u, c) PROVE FALSE
    OBVIOUS
  <2>1. /\ m \in MessagesOf(s, c) /\ IsVisible(t, u, m)
        /\ t.msg[m].sender # u /\ u \notin t.msg[m].readBy
    BY <1>1 DEF UnreadBy
  <2>2. t.msg[m].conversation = c /\ s.msg[m].conversation = c
    BY <1>1, <2>1 DEF MessagesOf
  <2>3. m \in UnreadBy(s, u, c)
    BY <1>1, <2>1, <2>2 DEF UnreadBy, IsVisible
  <2> QED
    BY <1>1, <2>1, <2>3
<1>8. \A v : v # u => UnreadBy(t, v, c) = UnreadBy(s, v, c)
  BY <1>1, UnreadKept
<1> QED
  BY <1>2, <1>4, <1>5, <1>6, <1>7, <1>8

LEMMA BumpedFields ==
    ASSUME NEW conv \in Conversation, NEW u \in Users, NEW m, NEW at,
           NEW bumped, bumped = Bumped(conv, u, m, at)
    PROVE  /\ bumped.participants = conv.participants
           /\ bumped.departed = conv.departed
           /\ bumped.hiddenFor = {}
           /\ bumped.clearedAt = conv.clearedAt
           /\ bumped.lastMessage = m
           /\ bumped.lastMessageAt = at
           /\ \A v \in Users : bumped.unreadCounts[v] =
                IF v = u THEN 0
                ELSE IF v \in conv.participants THEN conv.unreadCounts[v] + 1
                                                ELSE conv.unreadCounts[v]
<1> DEFINE counts == [v \in Users |->
            IF v = u THEN 0 ELSE IF v \in conv.participants THEN conv.unreadCounts[v] + 1
                                 ELSE conv.unreadCounts[v]]
<1>1. bumped = [conv EXCEPT !.hiddenFor = {}, !.lastMessage = m, !.lastMessageAt = at,
                            !.unreadCounts = counts]
  BY DEF Bumped, Conversation
<1>2. bumped.unreadCounts = counts
  <2> HIDE DEF counts
  <2> QED BY <1>1 DEF Conversation
<1>3. /\ bumped.participants = conv.participants
      /\ bumped.departed = conv.departed
      /\ bumped.hiddenFor = {}
      /\ bumped.clearedAt = conv.clearedAt
      /\ bumped.lastMessage = m
      /\ bumped.lastMessageAt = at
  <2> HIDE DEF counts
  <2> QED BY <1>1 DEF Conversation
<1> QED
  BY <1>2, <1>3

LEMMA WithMessageFields ==
    ASSUME NEW s \in Store, NEW u \in Users, NEW c \in Convs, NEW m \in Msgs, NEW at,
           NEW t, t = WithMessage(s, u, c, m, at)
    PROVE  /\ t.msg[m] = [conversation |-> c, sender |-> u, isOriginal |-> TRUE,
                          readBy |-> {u}, createdAt |-> at]
           /\ t.conv[c] = Bumped(s.conv[c], u, m, at)
           /\ \A n \in Msgs \ {m} : t.msg[n] = s.msg[n]
           /\ \A d \in Convs \ {c} : t.conv[d] = s.conv[d]
           /\ t.isOut = s.isOut
           /\ t.outbox = s.outbox \cup {[type |-> "sent", message |-> m,
                  conversation |-> c, from |-> u, to |-> s.conv[c].participants \ {u}]}
<1> DEFINE record == [conversation |-> c, sender |-> u, isOriginal |-> TRUE,
                      readBy |-> {u}, createdAt |-> at]
           event == [type |-> "sent", message |-> m, conversation |-> c,
                     from |-> u, to |-> s.conv[c].participants \ {u}]
<1>1. t = [s EXCEPT !.msg[m] = record, !.conv[c] = Bumped(s.conv[c], u, m, at),
                    !.outbox = @ \cup {event}]
  BY DEF WithMessage
<1> HIDE DEF record, event
<1>2. /\ t.msg = [s.msg EXCEPT ![m] = record]
      /\ t.conv = [s.conv EXCEPT ![c] = Bumped(s.conv[c], u, m, at)]
      /\ t.isOut = s.isOut /\ t.outbox = s.outbox \cup {event}
  BY <1>1 DEF Store
<1>3. DOMAIN s.msg = Msgs /\ DOMAIN s.conv = Convs
  BY StoreFields
<1>4. t.msg[m] = record /\ \A n \in Msgs \ {m} : t.msg[n] = s.msg[n]
  BY <1>2, <1>3
<1>5. t.conv[c] = Bumped(s.conv[c], u, m, at) /\ \A d \in Convs \ {c} : t.conv[d] = s.conv[d]
  BY <1>2, <1>3
<1> QED
  BY <1>2, <1>4, <1>5 DEF record, event

\* t: r after u sent m, when u had nothing unread.
LEMMA WithMessageWhole ==
    ASSUME NEW r \in Store, NEW u \in Users, NEW c \in Convs, NEW m \in Msgs,
           NEW at \in Nat, NEW t \in Store, t = WithMessage(r, u, c, m, at),
           HasConv(r, c), r.msg[m] = Unborn, u \in r.conv[c].participants,
           r.conv[c].lastMessageAt < at, IsFiniteSet(MessagesOf(r, c)),
           MembersOnly(r, c), Ordered(r, c), InView(r, c), UnreadBy(r, u, c) = {},
           \A v \in r.conv[c].participants \ {u} :
               r.conv[c].unreadCounts[v] = Cardinality(UnreadBy(r, v, c))
    PROVE  Whole(t, c) /\ HasConv(t, c) /\ m \in MessagesOf(t, c)
<1> DEFINE record == [conversation |-> c, sender |-> u, isOriginal |-> TRUE,
                      readBy |-> {u}, createdAt |-> at]
<1>1. /\ t.msg[m] = record
      /\ t.conv[c] = Bumped(r.conv[c], u, m, at)
      /\ \A n \in Msgs \ {m} : t.msg[n] = r.msg[n]
  BY WithMessageFields
<1>2. r.conv[c] \in Conversation
  BY HasConvType
<1>3. /\ t.conv[c].participants = r.conv[c].participants
      /\ t.conv[c].departed = r.conv[c].departed
      /\ t.conv[c].hiddenFor = {}
      /\ t.conv[c].clearedAt = r.conv[c].clearedAt
      /\ t.conv[c].lastMessage = m
      /\ t.conv[c].lastMessageAt = at
      /\ \A v \in Users : t.conv[c].unreadCounts[v] =
           IF v = u THEN 0
           ELSE IF v \in r.conv[c].participants THEN r.conv[c].unreadCounts[v] + 1
                                                ELSE r.conv[c].unreadCounts[v]
  BY <1>1, <1>2, BumpedFields
<1>4. /\ t.msg[m].conversation = c /\ t.msg[m].sender = u
      /\ t.msg[m].readBy = {u} /\ t.msg[m].createdAt = at
  BY <1>1
<1>5. t.msg[m] \in Message
  BY <1>1 DEF Message
<1> HIDE DEF record
<1>6. HasMsg(t, m) /\ ~HasMsg(r, m)
  BY <1>5, MessageExists DEF HasMsg
<1>7. HasConv(t, c)
  <2>1. t.conv[c] \in Conversation
    BY <1>1, <1>2, BumpedType
  <2> QED
    BY <2>1, DocumentAssumption DEF HasConv
<1> DEFINE old == MessagesOf(r, c)
<1>8. MessagesOf(t, c) = old \cup {m} /\ m \notin old
  BY <1>1, <1>4, <1>6 DEF MessagesOf, HasMsg
<1>9. \A n \in old : /\ n \in Msgs /\ n # m /\ t.msg[n] = r.msg[n]
                     /\ r.msg[n] \in Message /\ r.msg[n].conversation = c
                     /\ r.msg[n].createdAt \in Nat
  <2>1. \A n \in old : n \in Msgs /\ r.msg[n] \in Message /\ r.msg[n].conversation = c
    BY MineFields
  <2>2. \A n \in old : r.msg[n].createdAt \in Nat
    BY <2>1 DEF Message
  <2> QED
    BY <1>1, <1>8, <2>1, <2>2
<1>10. /\ r.conv[c].lastMessageAt \in Nat /\ r.conv[c].participants \subseteq Users
       /\ \A v \in Users : r.conv[c].clearedAt[v] \in Nat /\ r.conv[c].unreadCounts[v] \in Nat
  BY <1>2 DEF Conversation
<1>11. IsFiniteSet(MessagesOf(t, c))
  BY <1>8, FS_AddElement
<1>12. MembersOnly(t, c)
  BY <1>3, <1>4, <1>8, <1>9 DEF MembersOnly, Members
<1>13. Ordered(t, c)
  <2>1. \A n \in old : r.msg[n].createdAt < at /\ r.msg[n].createdAt <= at
    BY <1>9, <1>10 DEF Ordered
  <2>2. \A n \in MessagesOf(t, c) : t.msg[n].createdAt <= at
    BY <1>4, <1>8, <1>9, <2>1
  <2>3. \A n, o \in MessagesOf(t, c) : n # o => t.msg[n].createdAt # t.msg[o].createdAt
    <3> SUFFICES ASSUME NEW n \in old \cup {m}, NEW o \in old \cup {m}, n # o
                 PROVE  t.msg[n].createdAt # t.msg[o].createdAt
      BY <1>8
    <3>1. CASE n \in old /\ o \in old
      BY <1>9, <3>1 DEF Ordered
    <3>2. CASE n = m
      BY <1>4, <1>9, <2>1, <3>2
    <3>3. CASE o = m
      BY <1>4, <1>9, <2>1, <3>3
    <3> QED
      BY <3>1, <3>2, <3>3
  <2> QED
    BY <1>3, <1>4, <1>8, <2>2, <2>3 DEF Ordered
<1>14. InView(t, c)
  <2> SUFFICES ASSUME NEW v \in Users PROVE r.conv[c].clearedAt[v] <= at
    BY <1>3 DEF InView
  <2>1. r.conv[c].clearedAt[v] <= r.conv[c].lastMessageAt
    BY DEF InView
  <2> QED
    BY <1>10, <2>1
<1>15. \A v \in Users, n \in old : IsVisible(t, v, n) <=> IsVisible(r, v, n)
  BY <1>3, <1>9 DEF IsVisible
<1>16. ASSUME NEW v \in r.conv[c].participants, v # u
       PROVE  t.conv[c].unreadCounts[v] = Cardinality(UnreadBy(t, v, c))
  <2>1. v \in Users
    BY <1>10
  <2>2. IsVisible(t, v, m)
    <3>1. r.conv[c].clearedAt[v] <= r.conv[c].lastMessageAt
      BY <2>1 DEF InView
    <3>2. at > r.conv[c].clearedAt[v]
      BY <1>10, <2>1, <3>1
    <3> QED
      BY <1>3, <1>4, <3>2 DEF IsVisible
  <2>3. UnreadBy(t, v, c) = UnreadBy(r, v, c) \cup {m}
    <3>1. m \in UnreadBy(t, v, c)
      BY <1>4, <1>8, <1>16, <2>2 DEF UnreadBy
    <3>2. \A n \in old : n \in UnreadBy(t, v, c) <=> n \in UnreadBy(r, v, c)
      BY <1>8, <1>9, <1>15, <2>1 DEF UnreadBy
    <3>3. UnreadBy(r, v, c) \subseteq old /\ UnreadBy(t, v, c) \subseteq old \cup {m}
      BY <1>8 DEF UnreadBy
    <3> QED
      BY <3>1, <3>2, <3>3
  <2>4. UnreadBy(r, v, c) \subseteq old /\ m \notin UnreadBy(r, v, c)
    BY <1>8 DEF UnreadBy
  <2>5. IsFiniteSet(UnreadBy(r, v, c))
    BY <2>4, FS_Subset
  <2>6. Cardinality(UnreadBy(t, v, c)) = Cardinality(UnreadBy(r, v, c)) + 1
    BY <2>3, <2>4, <2>5, FS_AddElement
  <2> QED
    BY <1>3, <1>16, <2>1, <2>6
<1>17. t.conv[c].unreadCounts[u] = Cardinality(UnreadBy(t, u, c))
  <2>1. UnreadBy(t, u, c) = {}
    <3> SUFFICES ASSUME NEW n \in UnreadBy(t, u, c) PROVE FALSE
      OBVIOUS
    <3>1. n \in old \cup {m} /\ t.msg[n].sender # u /\ u \notin t.msg[n].readBy
            /\ IsVisible(t, u, n)
      BY <1>8 DEF UnreadBy
    <3>2. n \in old
      BY <1>4, <3>1
    <3>3. n \in UnreadBy(r, u, c)
      BY <1>9, <1>15, <3>1, <3>2 DEF UnreadBy
    <3> QED
      BY <3>3
  <2> QED
    BY <1>3, <2>1, FS_EmptySet
<1>18. Counted(t, c)
  BY <1>3, <1>16, <1>17 DEF Counted
<1> QED
  BY <1>7, <1>8, <1>11, <1>12, <1>13, <1>14, <1>18 DEF Whole

-----------------------------------------------------------------------------
(* What a transaction must write for what it changes to stay whole.        *)

Left(s, c, u) == HasConv(s, c) /\ u \in s.conv[c].departed

\* A notification may be asked for, going by the store s.
Current(s, e) ==
    LET conv == s.conv[e.conversation] IN
    /\ e.message \in MessagesOf(s, e.conversation)
    /\ \A v \in e.to : ~s.isOut[v] /\ v \notin conv.hiddenFor /\ IsVisible(s, v, e.message)
    /\ ~s.isOut[e.from]

\* A transaction that turned s into t and locked extra wrote the conversation of
\* every message and every event it touched; it wrote the account of whoever left
\* a conversation, and the conversations that whoever it took out had left.
Covers(s, t, extra) ==
    LET written == Changed(s, t) \cup extra IN
    /\ \A m \in Msgs : s.msg[m] # t.msg[m] =>
         /\ HasMsg(s, m) => ConvDoc(s.msg[m].conversation) \in written
         /\ HasMsg(t, m) => ConvDoc(t.msg[m].conversation) \in written
    /\ \A e \in (s.outbox \ t.outbox) \cup (t.outbox \ s.outbox) :
         ConvDoc(e.conversation) \in written
    /\ \A c \in Convs, u \in Users : Left(t, c, u) /\ ~Left(s, c, u) => UserDoc(u) \in written
    /\ \A c \in Convs, u \in Users :
         t.isOut[u] /\ ~s.isOut[u] /\ Left(s, c, u) => ConvDoc(c) \in written
    /\ \A e \in t.outbox \ s.outbox : e.type = "notify" => Current(s, e)

Keeps(s, t, extra) == Covers(s, t, extra) /\ Sound(t)

\* s and t differ in one conversation, its messages and its events.
OnlyIn(s, t, c) ==
    /\ \A d \in Convs \ {c} : t.conv[d] = s.conv[d]
    /\ \A m \in Msgs : s.msg[m] # t.msg[m] =>
         /\ HasMsg(s, m) => s.msg[m].conversation = c
         /\ HasMsg(t, m) => t.msg[m].conversation = c
    /\ \A e \in (s.outbox \ t.outbox) \cup (t.outbox \ s.outbox) : e.conversation = c
    /\ \A u \in Users : Left(t, c, u) => Left(s, c, u)
    /\ t.isOut = s.isOut

LEMMA OnlyInSame ==
    ASSUME NEW s, NEW t, NEW c \in Convs, OnlyIn(s, t, c), NEW d \in Convs \ {c}
    PROVE  SameConv(s, t, d)
<1>1. s.conv[d] = t.conv[d]
  BY DEF OnlyIn
<1>2. ASSUME NEW m \in MessagesOf(s, d) \cup MessagesOf(t, d)
      PROVE  s.msg[m] = t.msg[m]
  BY <1>2 DEF OnlyIn, MessagesOf
<1> QED
  BY <1>1, <1>2 DEF SameConv

LEMMA OnlyInKeeps ==
    ASSUME NEW s \in Store, NEW t \in Store, NEW c \in Convs, NEW extra, Sound(s),
           OnlyIn(s, t, c), ConvDoc(c) \in Changed(s, t) \cup extra, Whole(t, c),
           \A e \in t.outbox : e.conversation = c => EventWhole(t, e),
           \A e \in t.outbox \ s.outbox : e.type = "notify" => Current(s, e)
    PROVE  Keeps(s, t, extra)
<1>1. ASSUME NEW d \in Convs
      PROVE  Whole(t, d)
  <2>1. CASE d = c
    BY <2>1
  <2>2. CASE d # c
    BY <2>2, OnlyInSame, SameWhole DEF Sound
  <2> QED
    BY <2>1, <2>2
<1>2. ASSUME NEW e \in t.outbox
      PROVE  EventWhole(t, e)
  <2>1. CASE e.conversation = c
    BY <2>1
  <2>2. CASE e.conversation # c
    <3>1. e \in s.outbox
      BY <2>2 DEF OnlyIn
    <3>2. e \in Event /\ e.conversation \in Convs
      BY <3>1, StoreFields DEF Event
    <3> QED
      BY <2>2, <3>1, <3>2, OnlyInSame, SameEvent DEF Sound
  <2> QED
    BY <2>1, <2>2
<1>3. \A d \in Convs, u \in Users : Left(t, d, u) => Left(s, d, u)
  <2>1. \A d \in Convs \ {c}, u \in Users : Left(t, d, u) => Left(s, d, u)
    BY DEF OnlyIn, Left, HasConv
  <2> QED
    BY <2>1 DEF OnlyIn
<1>4. Covers(s, t, extra)
  BY <1>3 DEF Covers, OnlyIn
<1> QED
  BY <1>1, <1>2, <1>4 DEF Keeps, Sound

\* A command that changes the document of c alone, and not who belongs to it or
\* what is its newest message.
LEMMA ConvOnlyKeeps ==
    ASSUME NEW s \in Store, NEW t \in Store, NEW c \in Convs, NEW extra, Sound(s),
           HasConv(s, c), t.conv[c] \in Conversation,
           t.msg = s.msg, t.isOut = s.isOut, t.outbox = s.outbox,
           \A d \in Convs \ {c} : t.conv[d] = s.conv[d],
           t.conv[c].participants = s.conv[c].participants,
           t.conv[c].departed = s.conv[c].departed,
           t.conv[c].lastMessage = s.conv[c].lastMessage,
           t.conv[c].lastMessageAt = s.conv[c].lastMessageAt,
           InView(t, c), Counted(t, c), ConvDoc(c) \in extra
    PROVE  Keeps(s, t, extra)
<1>1. \A d : MessagesOf(t, d) = MessagesOf(s, d)
  BY DEF MessagesOf, HasMsg
<1>2. Whole(s, c)
  BY DEF Sound
<1>3. HasConv(t, c)
  BY DocumentAssumption DEF HasConv
<1>4. MembersOnly(t, c)
  BY <1>1, <1>2 DEF Whole, MembersOnly, Members
<1>5. Ordered(t, c)
  BY <1>1, <1>2, OrderedKept DEF Whole
<1>6. Whole(t, c)
  BY <1>1, <1>2, <1>3, <1>4, <1>5 DEF Whole
<1>7. OnlyIn(s, t, c)
  BY DEF OnlyIn, Left
<1>8. \A e \in t.outbox : e.conversation = c => EventWhole(t, e)
  BY <1>1, <1>3 DEF Sound, EventWhole
<1> QED
  BY <1>6, <1>7, <1>8, OnlyInKeeps

\* ... nor what anybody has read: reopening and locking.
LEMMA ConvShownKeeps ==
    ASSUME NEW s \in Store, NEW t \in Store, NEW c \in Convs, NEW extra, Sound(s),
           HasConv(s, c), t.conv[c] \in Conversation,
           t.msg = s.msg, t.isOut = s.isOut, t.outbox = s.outbox,
           \A d \in Convs \ {c} : t.conv[d] = s.conv[d],
           t.conv[c].participants = s.conv[c].participants,
           t.conv[c].departed = s.conv[c].departed,
           t.conv[c].lastMessage = s.conv[c].lastMessage,
           t.conv[c].lastMessageAt = s.conv[c].lastMessageAt,
           t.conv[c].hiddenFor \subseteq s.conv[c].hiddenFor,
           t.conv[c].clearedAt = s.conv[c].clearedAt,
           t.conv[c].unreadCounts = s.conv[c].unreadCounts,
           ConvDoc(c) \in extra
    PROVE  Keeps(s, t, extra)
<1>1. Whole(s, c)
  BY DEF Sound
<1>2. InView(t, c)
  BY <1>1 DEF Whole, InView
<1>3. MessagesOf(t, c) = MessagesOf(s, c)
  BY DEF MessagesOf, HasMsg
<1>4. \A u : UnreadBy(t, u, c) = UnreadBy(s, u, c)
  BY <1>3, UnreadKept
<1>5. Counted(t, c)
  BY <1>1, <1>4 DEF Whole, Counted
<1> QED
  BY <1>2, <1>5, ConvOnlyKeeps

LEMMA ClearedFields ==
    ASSUME NEW conv \in Conversation, NEW u \in Users,
           NEW cleared, cleared = Cleared(conv, u)
    PROVE  /\ cleared \in Conversation
           /\ cleared.participants = conv.participants
           /\ cleared.departed = conv.departed
           /\ cleared.lastMessage = conv.lastMessage
           /\ cleared.lastMessageAt = conv.lastMessageAt
           /\ cleared.hiddenFor = conv.hiddenFor \cup {u}
           /\ cleared.clearedAt[u] = conv.lastMessageAt
           /\ cleared.unreadCounts[u] = 0
           /\ \A v \in Users \ {u} : /\ cleared.clearedAt[v] = conv.clearedAt[v]
                                     /\ cleared.unreadCounts[v] = conv.unreadCounts[v]
<1> DEFINE at == [conv.clearedAt EXCEPT ![u] = conv.lastMessageAt]
           counts == [conv.unreadCounts EXCEPT ![u] = 0]
<1>1. conv.clearedAt \in [Users -> Nat] /\ conv.unreadCounts \in [Users -> Nat]
        /\ conv.lastMessageAt \in Nat
  BY DEF Conversation
<1>2. at \in [Users -> Nat] /\ counts \in [Users -> Nat]
  BY <1>1
<1>3. /\ at[u] = conv.lastMessageAt /\ counts[u] = 0
      /\ \A v \in Users \ {u} : at[v] = conv.clearedAt[v] /\ counts[v] = conv.unreadCounts[v]
  BY <1>1
<1>4. cleared = [conv EXCEPT !.hiddenFor = conv.hiddenFor \cup {u}, !.clearedAt = at,
                             !.unreadCounts = counts]
  BY DEF Cleared, Conversation
<1> HIDE DEF at, counts
<1>5. /\ cleared.clearedAt = at /\ cleared.unreadCounts = counts
      /\ cleared.participants = conv.participants
      /\ cleared.departed = conv.departed
      /\ cleared.lastMessage = conv.lastMessage
      /\ cleared.lastMessageAt = conv.lastMessageAt
      /\ cleared.hiddenFor = conv.hiddenFor \cup {u}
  BY <1>4 DEF Conversation
<1>6. cleared \in Conversation
  <2>1. conv.hiddenFor \cup {u} \in SUBSET Users
    BY DEF Conversation
  <2> DEFINE hidden == conv.hiddenFor \cup {u}
  <2> HIDE DEF hidden
  <2> QED BY <1>2, <1>4, <2>1 DEF Conversation, hidden
<1> QED
  BY <1>3, <1>5, <1>6

LEMMA ClearedKeeps ==
    ASSUME NEW s \in Store, NEW t \in Store, NEW u \in Users, NEW c \in Convs, NEW extra,
           Sound(s), HasConv(s, c), t.conv[c] = Cleared(s.conv[c], u),
           t.msg = s.msg, t.isOut = s.isOut, t.outbox = s.outbox,
           \A d \in Convs \ {c} : t.conv[d] = s.conv[d], ConvDoc(c) \in extra
    PROVE  Keeps(s, t, extra)
<1>1. s.conv[c] \in Conversation /\ Whole(s, c)
  BY HasConvType DEF Sound
<1>2. /\ t.conv[c] \in Conversation
      /\ t.conv[c].participants = s.conv[c].participants
      /\ t.conv[c].departed = s.conv[c].departed
      /\ t.conv[c].lastMessage = s.conv[c].lastMessage
      /\ t.conv[c].lastMessageAt = s.conv[c].lastMessageAt
      /\ t.conv[c].hiddenFor = s.conv[c].hiddenFor \cup {u}
  BY <1>1, ClearedFields
<1>3. /\ t.conv[c].clearedAt[u] = s.conv[c].lastMessageAt
      /\ t.conv[c].unreadCounts[u] = 0
      /\ \A v \in Users \ {u} :
           /\ t.conv[c].clearedAt[v] = s.conv[c].clearedAt[v]
           /\ t.conv[c].unreadCounts[v] = s.conv[c].unreadCounts[v]
  BY <1>1, ClearedFields
<1>4. s.conv[c].lastMessageAt \in Nat /\ s.conv[c].participants \subseteq Users
  BY <1>1 DEF Conversation
<1>5. InView(t, c)
  <2>1. InView(s, c)
    BY <1>1 DEF Whole
  <2> QED
    BY <1>2, <1>3, <1>4, <2>1 DEF InView
<1>6. MessagesOf(t, c) = MessagesOf(s, c)
  BY DEF MessagesOf, HasMsg
<1>7. UnreadBy(t, u, c) = {}
  <2> SUFFICES ASSUME NEW m \in UnreadBy(t, u, c) PROVE FALSE
    OBVIOUS
  <2>1. m \in MessagesOf(s, c) /\ IsVisible(t, u, m)
    BY <1>6 DEF UnreadBy
  <2>2. s.msg[m] \in Message /\ s.msg[m].conversation = c
    BY <2>1, MineFields
  <2>3. s.msg[m].createdAt <= s.conv[c].lastMessageAt
    BY <1>1, <2>1 DEF Whole, Ordered
  <2>4. s.msg[m].createdAt > s.conv[c].lastMessageAt
    BY <1>3, <2>1, <2>2 DEF IsVisible
  <2>5. s.msg[m].createdAt \in Nat
    BY <2>2 DEF Message
  <2> QED
    BY <1>4, <2>3, <2>4, <2>5
<1>8. \A v \in Users \ {u} : UnreadBy(t, v, c) = UnreadBy(s, v, c)
  BY <1>3, <1>6, UnreadKept
<1>9. Counted(t, c)
  <2> SUFFICES ASSUME NEW v \in s.conv[c].participants
               PROVE  t.conv[c].unreadCounts[v] = Cardinality(UnreadBy(t, v, c))
    BY <1>2 DEF Counted
  <2>1. CASE v = u
    BY <1>3, <1>7, <2>1, FS_EmptySet
  <2>2. CASE v # u
    <3>1. s.conv[c].unreadCounts[v] = Cardinality(UnreadBy(s, v, c))
      BY <1>1 DEF Whole, Counted
    <3> QED
      BY <1>3, <1>4, <1>8, <2>2, <3>1
  <2> QED
    BY <2>1, <2>2
<1> QED
  BY <1>2, <1>5, <1>9, ConvOnlyKeeps

\* Events of c in a store whose messages of c include those of s.
LEMMA OldEvents ==
    ASSUME NEW s, NEW t, NEW c, Sound(s), HasConv(t, c),
           MessagesOf(s, c) \subseteq MessagesOf(t, c), NEW e \in s.outbox,
           e.conversation = c
    PROVE  EventWhole(t, e)
BY DEF Sound, EventWhole

LEMMA MarkedOnlyIn ==
    ASSUME NEW s \in Store, NEW t \in Store, NEW u \in Users, NEW c \in Convs,
           NEW m \in Msgs, t.msg[m] = MarkRead(s, u, c)[m], s.msg[m] # t.msg[m]
    PROVE  /\ HasMsg(s, m) => s.msg[m].conversation = c
           /\ HasMsg(t, m) => t.msg[m].conversation = c
<1>1. HasMsg(s, m) /\ s.msg[m].conversation = c
  BY MarkedAlone
<1>2. t.msg[m].conversation = s.msg[m].conversation
  BY <1>1, MarkedFields
<1> QED
  BY <1>1, <1>2

\* The conversation once u has read it.
Unread(conv, u) == [conv EXCEPT !.unreadCounts[u] = 0]

LEMMA ReadFields ==
    ASSUME NEW conv \in Conversation, NEW u \in Users, NEW read, read = Unread(conv, u)
    PROVE  /\ read \in Conversation
           /\ read.participants = conv.participants
           /\ read.departed = conv.departed
           /\ read.lastMessage = conv.lastMessage
           /\ read.lastMessageAt = conv.lastMessageAt
           /\ read.hiddenFor = conv.hiddenFor
           /\ read.clearedAt = conv.clearedAt
           /\ read.unreadCounts[u] = 0
           /\ \A v \in Users \ {u} : read.unreadCounts[v] = conv.unreadCounts[v]
<1> DEFINE counts == [conv.unreadCounts EXCEPT ![u] = 0]
<1>1. /\ counts \in [Users -> Nat] /\ counts[u] = 0
      /\ \A v \in Users \ {u} : counts[v] = conv.unreadCounts[v]
  BY DEF Conversation
<1>2. read = [conv EXCEPT !.unreadCounts = counts]
  BY DEF Conversation, Unread
<1> HIDE DEF counts
<1>3. read.unreadCounts = counts
  BY <1>2 DEF Conversation
<1>4. read \in Conversation
  BY <1>1, <1>2 DEF Conversation
<1>5. /\ read.participants = conv.participants
      /\ read.departed = conv.departed
      /\ read.lastMessage = conv.lastMessage
      /\ read.lastMessageAt = conv.lastMessageAt
      /\ read.hiddenFor = conv.hiddenFor
      /\ read.clearedAt = conv.clearedAt
  BY <1>2 DEF Conversation
<1> QED
  BY <1>1, <1>3, <1>4, <1>5

LEMMA MarkReadKeeps ==
    ASSUME NEW s \in Store, NEW t \in Store, NEW u \in Users, NEW c \in Convs, NEW extra,
           Sound(s), HasConv(s, c), u \in s.conv[c].participants,
           t.msg = MarkRead(s, u, c), t.isOut = s.isOut, t.outbox = s.outbox,
           t.conv[c] \in Conversation,
           t.conv[c].participants = s.conv[c].participants,
           t.conv[c].departed = s.conv[c].departed,
           t.conv[c].lastMessage = s.conv[c].lastMessage,
           t.conv[c].lastMessageAt = s.conv[c].lastMessageAt,
           t.conv[c].hiddenFor = s.conv[c].hiddenFor,
           t.conv[c].clearedAt = s.conv[c].clearedAt,
           t.conv[c].unreadCounts[u] = 0,
           \A v \in Users \ {u} : t.conv[c].unreadCounts[v] = s.conv[c].unreadCounts[v],
           \A d \in Convs \ {c} : t.conv[d] = s.conv[d], ConvDoc(c) \in extra
    PROVE  Keeps(s, t, extra)
<1>1. s.conv[c] \in Conversation /\ Whole(s, c)
  BY HasConvType DEF Sound
<1>3. s.conv[c].unreadCounts \in [Users -> Nat] /\ s.conv[c].participants \subseteq Users
  BY <1>1 DEF Conversation
<1>4. /\ IsFiniteSet(MessagesOf(t, c))
      /\ MembersOnly(t, c) /\ Ordered(t, c) /\ InView(t, c)
      /\ UnreadBy(t, u, c) = {}
      /\ \A v : v # u => UnreadBy(t, v, c) = UnreadBy(s, v, c)
  BY <1>1, MarkedParts
<1>5. HasConv(t, c)
  BY DocumentAssumption DEF HasConv
<1>6. Counted(t, c)
  <2> SUFFICES ASSUME NEW v \in s.conv[c].participants
               PROVE  t.conv[c].unreadCounts[v] = Cardinality(UnreadBy(t, v, c))
    BY DEF Counted
  <2>1. CASE v = u
    BY <1>4, <2>1, FS_EmptySet
  <2>2. CASE v # u
    <3>1. s.conv[c].unreadCounts[v] = Cardinality(UnreadBy(s, v, c))
      BY <1>1 DEF Whole, Counted
    <3> QED
      BY <1>3, <1>4, <2>2, <3>1
  <2> QED
    BY <2>1, <2>2
<1>7. Whole(t, c)
  BY <1>4, <1>5, <1>6 DEF Whole
<1>8. OnlyIn(s, t, c)
  <2>1. \A v \in Users : Left(t, c, v) => Left(s, c, v)
    BY DEF Left
  <2>2. \A m \in Msgs : s.msg[m] # t.msg[m] =>
          /\ HasMsg(s, m) => s.msg[m].conversation = c
          /\ HasMsg(t, m) => t.msg[m].conversation = c
    BY MarkedOnlyIn
  <2> QED
    BY <2>1, <2>2 DEF OnlyIn
<1>9. MessagesOf(s, c) \subseteq MessagesOf(t, c)
  BY MarkedMessages
<1>10. \A e \in t.outbox : e.conversation = c => EventWhole(t, e)
  BY <1>5, <1>9, OldEvents
<1> QED
  BY <1>7, <1>8, <1>10, OnlyInKeeps

\* t: r after u sent m; r differs from s in c alone, and not in its events.
LEMMA SentKeeps ==
    ASSUME NEW s \in Store, NEW r \in Store, NEW t \in Store, NEW u \in Users,
           NEW c \in Convs, NEW m \in Msgs, NEW at \in Nat, NEW extra,
           Sound(s), s.msg[m] = Unborn, t = WithMessage(r, u, c, m, at),
           HasConv(r, c), r.msg[m] = Unborn, u \in r.conv[c].participants,
           r.conv[c].lastMessageAt < at, IsFiniteSet(MessagesOf(r, c)),
           MembersOnly(r, c), Ordered(r, c), InView(r, c), UnreadBy(r, u, c) = {},
           \A v \in r.conv[c].participants \ {u} :
               r.conv[c].unreadCounts[v] = Cardinality(UnreadBy(r, v, c)),
           MessagesOf(s, c) \subseteq MessagesOf(r, c),
           \A n \in Msgs : s.msg[n] # r.msg[n] =>
               /\ HasMsg(s, n) => s.msg[n].conversation = c
               /\ HasMsg(r, n) => r.msg[n].conversation = c,
           r.isOut = s.isOut, r.outbox = s.outbox,
           \A d \in Convs \ {c} : r.conv[d] = s.conv[d],
           \A v \in r.conv[c].departed : Left(s, c, v),
           ConvDoc(c) \in Changed(s, t) \cup extra
    PROVE  Keeps(s, t, extra)
<1> DEFINE event == [type |-> "sent", message |-> m, conversation |-> c,
                     from |-> u, to |-> r.conv[c].participants \ {u}]
           record == [conversation |-> c, sender |-> u, isOriginal |-> TRUE,
                      readBy |-> {u}, createdAt |-> at]
<1>1. Whole(t, c) /\ HasConv(t, c) /\ m \in MessagesOf(t, c)
  BY WithMessageWhole
<1>2. /\ t.msg[m] = record
      /\ t.conv[c] = Bumped(r.conv[c], u, m, at)
      /\ \A n \in Msgs \ {m} : t.msg[n] = r.msg[n]
      /\ \A d \in Convs \ {c} : t.conv[d] = r.conv[d]
      /\ t.isOut = r.isOut
      /\ t.outbox = r.outbox \cup {event}
  BY WithMessageFields
<1>3. r.conv[c] \in Conversation
  BY HasConvType
<1>4. t.conv[c].departed = r.conv[c].departed
  BY <1>2, <1>3, BumpedFields
<1>5. event.conversation = c /\ event.type = "sent" /\ event.message = m
        /\ record.conversation = c
  OBVIOUS
<1> HIDE DEF event, record
<1>6. OnlyIn(s, t, c)
  <2>1. \A n \in Msgs : s.msg[n] # t.msg[n] =>
          /\ HasMsg(s, n) => s.msg[n].conversation = c
          /\ HasMsg(t, n) => t.msg[n].conversation = c
    <3> SUFFICES ASSUME NEW n \in Msgs, s.msg[n] # t.msg[n]
                 PROVE  /\ HasMsg(s, n) => s.msg[n].conversation = c
                        /\ HasMsg(t, n) => t.msg[n].conversation = c
      OBVIOUS
    <3>1. CASE n = m
      BY <1>2, <1>5, <3>1 DEF HasMsg
    <3>2. CASE n # m
      BY <1>2, <3>2 DEF HasMsg
    <3> QED
      BY <3>1, <3>2
  <2>2. \A v \in Users : Left(t, c, v) => Left(s, c, v)
    BY <1>4 DEF Left
  <2>3. \A e \in (s.outbox \ t.outbox) \cup (t.outbox \ s.outbox) : e.conversation = c
    BY <1>2, <1>5
  <2> QED
    BY <1>2, <2>1, <2>2, <2>3 DEF OnlyIn
<1>7. \A n \in MessagesOf(s, c) : n \in MessagesOf(t, c)
  <2> SUFFICES ASSUME NEW n \in MessagesOf(r, c) PROVE n \in MessagesOf(t, c)
    OBVIOUS
  <2>1. n # m /\ n \in Msgs
    BY DEF MessagesOf, HasMsg
  <2>2. t.msg[n] = r.msg[n]
    BY <1>2, <2>1
  <2> QED
    BY <2>2 DEF MessagesOf, HasMsg
<1>8. \A e \in t.outbox : e.conversation = c => EventWhole(t, e)
  <2> SUFFICES ASSUME NEW e \in t.outbox, e.conversation = c PROVE EventWhole(t, e)
    OBVIOUS
  <2>1. CASE e = event
    BY <1>1, <1>5, <2>1 DEF EventWhole
  <2>2. CASE e \in s.outbox
    BY <1>1, <1>7, <2>2, OldEvents
  <2> QED
    BY <1>2, <2>1, <2>2
<1>9. \A e \in t.outbox \ s.outbox : e.type = "notify" => Current(s, e)
  <2>1. \A e \in t.outbox \ s.outbox : e = event
    BY <1>2
  <2>2. event.type # "notify"
    BY <1>5
  <2> QED
    BY <2>1, <2>2
<1> QED
  BY <1>1, <1>6, <1>8, <1>9, OnlyInKeeps

\* SendMessage: r is s after the sender read the conversation.
LEMMA SendKeeps ==
    ASSUME NEW s \in Store, NEW r \in Store, NEW t \in Store, NEW u \in Users,
           NEW c \in Convs, NEW m \in Msgs, NEW at \in Nat, NEW extra,
           Sound(s), HasConv(s, c), s.msg[m] = Unborn, u \in s.conv[c].participants,
           r.conv = s.conv, r.msg = MarkRead(s, u, c), r.isOut = s.isOut,
           r.outbox = s.outbox, t = WithMessage(r, u, c, m, at),
           s.conv[c].lastMessageAt < at, ConvDoc(c) \in extra
    PROVE  Keeps(s, t, extra)
<1>1. s.conv[c] \in Conversation /\ Whole(s, c)
  BY HasConvType DEF Sound
<1>2. r.conv[c] = s.conv[c] /\ HasConv(r, c)
  BY DEF HasConv
<1>3. /\ IsFiniteSet(MessagesOf(r, c))
      /\ MembersOnly(r, c) /\ Ordered(r, c) /\ InView(r, c)
      /\ UnreadBy(r, u, c) = {}
      /\ \A v : v # u => UnreadBy(r, v, c) = UnreadBy(s, v, c)
  BY <1>1, <1>2, MarkedParts
<1>4. r.msg[m] = Unborn
  BY MarkedAlone DEF HasMsg
<1>5. \A v \in r.conv[c].participants \ {u} :
        r.conv[c].unreadCounts[v] = Cardinality(UnreadBy(r, v, c))
  BY <1>1, <1>2, <1>3 DEF Whole, Counted
<1>6. MessagesOf(s, c) \subseteq MessagesOf(r, c)
  BY MarkedMessages
<1>7. \A n \in Msgs : s.msg[n] # r.msg[n] =>
        /\ HasMsg(s, n) => s.msg[n].conversation = c
        /\ HasMsg(r, n) => r.msg[n].conversation = c
  BY MarkedOnlyIn
<1>8. \A v \in r.conv[c].departed : Left(s, c, v)
  BY <1>2 DEF Left
<1> QED
  BY <1>2, <1>3, <1>4, <1>5, <1>6, <1>7, <1>8, SentKeeps

\* r: s with a new conversation c.
LEMMA CreatedParts ==
    ASSUME NEW s \in Store, NEW r \in Store, NEW u \in Users, NEW v \in Users,
           NEW c \in Convs, NEW now \in Nat, Sound(s), s.conv[c] = Unborn, r.msg = s.msg,
           r.conv[c] = NewConversation(u, v, now), r.conv[c] \in Conversation
    PROVE  /\ HasConv(r, c) /\ MessagesOf(r, c) = {} /\ MessagesOf(s, c) = {}
           /\ r.conv[c].participants = {u, v} /\ r.conv[c].departed = {}
           /\ r.conv[c].lastMessageAt = now
           /\ IsFiniteSet(MessagesOf(r, c))
           /\ MembersOnly(r, c) /\ Ordered(r, c) /\ InView(r, c) /\ Counted(r, c)
           /\ \A w : UnreadBy(r, w, c) = {}
<1>1. HasConv(r, c) /\ ~HasConv(s, c)
  BY DocumentAssumption DEF HasConv
<1>2. MessagesOf(s, c) = {} /\ MessagesOf(r, c) = MessagesOf(s, c)
  <2>1. MessagesOf(s, c) = {}
    BY <1>1 DEF Sound, Whole
  <2> QED
    BY <2>1 DEF MessagesOf, HasMsg
<1>3. /\ r.conv[c].participants = {u, v} /\ r.conv[c].departed = {}
      /\ r.conv[c].hiddenFor = {} /\ r.conv[c].lastMessageAt = now
      /\ \A w \in Users : r.conv[c].clearedAt[w] = 0 /\ r.conv[c].unreadCounts[w] = 0
  BY DEF NewConversation
<1>4. \A w : UnreadBy(r, w, c) = {}
  BY <1>2 DEF UnreadBy
<1>5. IsFiniteSet(MessagesOf(r, c))
  BY <1>2, FS_EmptySet
<1>6. MembersOnly(r, c) /\ Ordered(r, c)
  BY <1>2 DEF MembersOnly, Ordered
<1>7. InView(r, c)
  BY <1>3 DEF InView
<1>8. Counted(r, c)
  BY <1>3, <1>4, FS_EmptySet DEF Counted
<1> QED
  BY <1>1, <1>2, <1>3, <1>4, <1>5, <1>6, <1>7, <1>8

LEMMA CreateKeeps ==
    ASSUME NEW s \in Store, NEW t \in Store, NEW u \in Users, NEW v \in Users,
           NEW c \in Convs, NEW now \in Nat, NEW extra, Sound(s), s.conv[c] = Unborn,
           t.msg = s.msg, t.isOut = s.isOut, t.outbox = s.outbox,
           \A d \in Convs \ {c} : t.conv[d] = s.conv[d],
           t.conv[c] = NewConversation(u, v, now), t.conv[c] \in Conversation
    PROVE  Keeps(s, t, extra)
<1>1. /\ HasConv(t, c) /\ MessagesOf(s, c) = {} /\ t.conv[c].departed = {}
      /\ IsFiniteSet(MessagesOf(t, c))
      /\ MembersOnly(t, c) /\ Ordered(t, c) /\ InView(t, c) /\ Counted(t, c)
  BY CreatedParts
<1>2. Whole(t, c)
  BY <1>1 DEF Whole
<1>3. OnlyIn(s, t, c)
  BY <1>1 DEF OnlyIn, Left
<1>4. ConvDoc(c) \in Changed(s, t)
  BY <1>1 DEF Changed, HasConv
<1>5. \A e \in t.outbox : e.conversation = c => EventWhole(t, e)
  BY <1>1, OldEvents
<1> QED
  BY <1>2, <1>3, <1>4, <1>5, OnlyInKeeps

\* SendFirst: r is s with the new conversation.
LEMMA SendFirstKeeps ==
    ASSUME NEW s \in Store, NEW r \in Store, NEW t \in Store, NEW u \in Users,
           NEW v \in Users, NEW c \in Convs, NEW m \in Msgs, NEW now \in Nat, NEW at \in Nat,
           NEW extra, Sound(s), s.conv[c] = Unborn, s.msg[m] = Unborn,
           r.msg = s.msg, r.isOut = s.isOut, r.outbox = s.outbox,
           \A d \in Convs \ {c} : r.conv[d] = s.conv[d],
           r.conv[c] = NewConversation(u, v, now), r.conv[c] \in Conversation,
           t = WithMessage(r, u, c, m, at), now < at, ConvDoc(c) \in Changed(s, t)
    PROVE  Keeps(s, t, extra)
<1>1. /\ HasConv(r, c) /\ MessagesOf(s, c) = {}
      /\ r.conv[c].participants = {u, v} /\ r.conv[c].departed = {}
      /\ r.conv[c].lastMessageAt = now
      /\ IsFiniteSet(MessagesOf(r, c))
      /\ MembersOnly(r, c) /\ Ordered(r, c) /\ InView(r, c) /\ Counted(r, c)
      /\ \A w : UnreadBy(r, w, c) = {}
  BY CreatedParts
<1>2. r.msg[m] = Unborn
  OBVIOUS
<1>3. \A w \in r.conv[c].participants \ {u} :
        r.conv[c].unreadCounts[w] = Cardinality(UnreadBy(r, w, c))
  BY <1>1 DEF Counted
<1>4. /\ u \in r.conv[c].participants
      /\ MessagesOf(s, c) \subseteq MessagesOf(r, c)
      /\ \A w \in r.conv[c].departed : Left(s, c, w)
      /\ r.conv[c].lastMessageAt < at
      /\ UnreadBy(r, u, c) = {}
  BY <1>1
<1>5. \A n \in Msgs : s.msg[n] = r.msg[n]
  OBVIOUS
<1> QED
  BY <1>1, <1>2, <1>3, <1>4, <1>5, SentKeeps

LEMMA PurgeKeeps ==
    ASSUME NEW s \in Store, NEW t \in Store, NEW c \in Convs, NEW extra, Sound(s),
           t.conv[c] = Gone, \A d \in Convs \ {c} : t.conv[d] = s.conv[d],
           t.msg = [m \in Msgs |-> IF m \in MessagesOf(s, c) THEN Gone ELSE s.msg[m]],
           t.isOut = s.isOut, t.outbox = {e \in s.outbox : e.conversation # c},
           ConvDoc(c) \in extra
    PROVE  Keeps(s, t, extra)
<1>1. ~HasConv(t, c)
  BY DEF HasConv
<1>2. \A m \in Msgs : s.msg[m] # t.msg[m] => m \in MessagesOf(s, c) /\ t.msg[m] = Gone
  OBVIOUS
<1>3. MessagesOf(t, c) = {}
  BY <1>2 DEF MessagesOf, HasMsg
<1>4. Whole(t, c)
  BY <1>1, <1>3, FS_EmptySet DEF Whole
<1>5. OnlyIn(s, t, c)
  <2>1. \A m \in Msgs : s.msg[m] # t.msg[m] =>
          /\ HasMsg(s, m) => s.msg[m].conversation = c
          /\ HasMsg(t, m) => t.msg[m].conversation = c
    BY <1>2 DEF MessagesOf, HasMsg
  <2> QED
    BY <1>1, <2>1 DEF OnlyIn, Left
<1> QED
  BY <1>4, <1>5, OnlyInKeeps

LEMMA ReplaceBodyKeeps ==
    ASSUME NEW s \in Store, NEW t \in Store, NEW c \in Convs, NEW m \in Msgs, NEW extra,
           Sound(s), HasConv(s, c), HasMsg(s, m), s.msg[m].conversation = c,
           t.conv = s.conv, t.isOut = s.isOut, t.outbox = s.outbox,
           t.msg[m] = [s.msg[m] EXCEPT !.isOriginal = FALSE],
           \A n \in Msgs \ {m} : t.msg[n] = s.msg[n], ConvDoc(c) \in extra
    PROVE  Keeps(s, t, extra)
<1>1. s.msg[m] \in Message /\ Whole(s, c)
  BY HasMsgType DEF Sound
<1>2. /\ t.msg[m].conversation = c
      /\ t.msg[m].sender = s.msg[m].sender
      /\ t.msg[m].readBy = s.msg[m].readBy
      /\ t.msg[m].createdAt = s.msg[m].createdAt
      /\ t.msg[m] \in Message
  BY <1>1 DEF Message
<1>3. HasMsg(t, m)
  BY <1>2, MessageExists
<1>4. MessagesOf(t, c) = MessagesOf(s, c)
  <2>1. \A n \in Msgs \ {m} : n \in MessagesOf(t, c) <=> n \in MessagesOf(s, c)
    BY DEF MessagesOf, HasMsg
  <2>2. m \in MessagesOf(t, c) /\ m \in MessagesOf(s, c)
    BY <1>2, <1>3 DEF MessagesOf
  <2>3. MessagesOf(t, c) \subseteq Msgs /\ MessagesOf(s, c) \subseteq Msgs
    BY DEF MessagesOf
  <2> QED
    BY <2>1, <2>2, <2>3
<1>5. \A n \in MessagesOf(s, c) :
        /\ t.msg[n].sender = s.msg[n].sender
        /\ t.msg[n].readBy = s.msg[n].readBy
        /\ t.msg[n].createdAt = s.msg[n].createdAt
  <2> SUFFICES ASSUME NEW n \in MessagesOf(s, c)
               PROVE  /\ t.msg[n].sender = s.msg[n].sender
                      /\ t.msg[n].readBy = s.msg[n].readBy
                      /\ t.msg[n].createdAt = s.msg[n].createdAt
    OBVIOUS
  <2>1. n \in Msgs
    BY DEF MessagesOf
  <2>2. CASE n = m
    BY <1>2, <2>2
  <2>3. CASE n # m
    BY <2>1, <2>3
  <2> QED
    BY <2>2, <2>3
<1>6. HasConv(t, c) /\ t.conv[c] = s.conv[c]
  BY DEF HasConv
<1>7. MembersOnly(t, c)
  BY <1>1, <1>4, <1>5, <1>6 DEF Whole, MembersOnly, Members
<1>8. Ordered(t, c)
  BY <1>1, <1>4, <1>5, <1>6, OrderedKept DEF Whole
<1>9. InView(t, c)
  BY <1>1, <1>6 DEF Whole, InView
<1>10. \A u : UnreadBy(t, u, c) = UnreadBy(s, u, c)
  BY <1>4, <1>5, <1>6, UnreadKept
<1>11. Counted(t, c)
  BY <1>1, <1>6, <1>10 DEF Whole, Counted
<1>12. Whole(t, c)
  BY <1>1, <1>4, <1>6, <1>7, <1>8, <1>9, <1>11 DEF Whole
<1>13. OnlyIn(s, t, c)
  <2>1. \A n \in Msgs : s.msg[n] # t.msg[n] => n = m
    OBVIOUS
  <2> QED
    BY <1>2, <1>6, <2>1 DEF OnlyIn, Left
<1>14. \A e \in t.outbox : e.conversation = c => EventWhole(t, e)
  BY <1>4, <1>6, OldEvents
<1> QED
  BY <1>12, <1>13, <1>14, OnlyInKeeps

LEMMA HandleKeeps ==
    ASSUME NEW s \in Store, NEW t \in Store, NEW e \in s.outbox, NEW extra, Sound(s),
           t.conv = s.conv, t.msg = s.msg, t.isOut = s.isOut,
           t.outbox = s.outbox \cup Requests(s, e), ConvDoc(e.conversation) \in extra
    PROVE  Keeps(s, t, extra)
<1> DEFINE c == e.conversation
<1>1. e \in Event /\ c \in Convs
  BY StoreFields DEF Event
<1>2. Whole(s, c) /\ EventWhole(s, e)
  BY <1>1 DEF Sound
<1>3. SameConv(s, t, c)
  BY DEF SameConv, MessagesOf, HasMsg
<1>4. Whole(t, c)
  BY <1>1, <1>2, <1>3, SameWhole
<1>5. ASSUME NEW r \in Requests(s, e)
      PROVE  /\ r.conversation = c /\ r.message = e.message /\ r.from = e.from
             /\ r \in Event /\ ~s.isOut[e.from]
             /\ \A v \in r.to : v \in ActiveRecipients(s, e)
  <2>1. /\ ~s.isOut[e.from]
        /\ \E v \in ActiveRecipients(s, e) : r = [e EXCEPT !.type = "notify", !.to = {v}]
    BY DEF Requests
  <2> QED
    BY <1>1, <2>1, RequestsType DEF Event
<1>6. ASSUME NEW r \in Requests(s, e)
      PROVE  Current(s, r) /\ EventWhole(t, r)
  <2>1. EventWhole(s, r)
    BY <1>2, <1>5 DEF EventWhole
  <2>2. EventWhole(t, r)
    BY <1>3, <1>5, <2>1, SameEvent
  <2> QED
    BY <1>5, <2>1, <2>2 DEF Current, EventWhole, ActiveRecipients
<1>7. OnlyIn(s, t, c)
  BY <1>5 DEF OnlyIn, Left, HasConv
<1>8. \A r \in t.outbox : r.conversation = c => EventWhole(t, r)
  <2> SUFFICES ASSUME NEW r \in s.outbox, r.conversation = c PROVE EventWhole(t, r)
    BY <1>6
  <2>1. r \in Event /\ EventWhole(s, r)
    BY StoreFields DEF Sound
  <2> QED
    BY <1>3, <2>1, SameEvent
<1> QED
  BY <1>1, <1>4, <1>6, <1>7, <1>8, OnlyInKeeps

LEMMA DepartedFields ==
    ASSUME NEW conv \in Conversation, NEW u \in Users,
           NEW departed, departed = Departed(conv, u)
    PROVE  /\ departed.participants = conv.participants \ {u}
           /\ departed.departed = conv.departed \cup {u}
           /\ departed.lastMessage = conv.lastMessage
           /\ departed.lastMessageAt = conv.lastMessageAt
           /\ departed.hiddenFor = conv.hiddenFor
           /\ departed.clearedAt = conv.clearedAt
           /\ \A v \in Users \ {u} : departed.unreadCounts[v] = conv.unreadCounts[v]
<1> DEFINE counts == [conv.unreadCounts EXCEPT ![u] = 0]
<1>1. \A v \in Users \ {u} : counts[v] = conv.unreadCounts[v]
  BY DEF Conversation
<1>2. departed = [conv EXCEPT !.participants = @ \ {u}, !.departed = @ \cup {u},
                   !.participantHash = {}, !.unreadCounts = counts, !.isClosed = TRUE]
  BY DEF Departed, Conversation
<1> HIDE DEF counts
<1>3. /\ departed.unreadCounts = counts
      /\ departed.participants = conv.participants \ {u}
      /\ departed.departed = conv.departed \cup {u}
      /\ departed.lastMessage = conv.lastMessage
      /\ departed.lastMessageAt = conv.lastMessageAt
      /\ departed.hiddenFor = conv.hiddenFor
      /\ departed.clearedAt = conv.clearedAt
  BY <1>2 DEF Conversation
<1> QED
  BY <1>1, <1>3

LEMMA AnonymousFields ==
    ASSUME NEW message \in Message, NEW u \in Users,
           NEW anonymous, anonymous = Anonymous(message, u)
    PROVE  /\ anonymous.conversation = message.conversation
           /\ anonymous.createdAt = message.createdAt
           /\ anonymous.sender = IF message.sender = u THEN None ELSE message.sender
           /\ anonymous.readBy = message.readBy \ {u}
           /\ message.sender # u /\ u \notin message.readBy => anonymous = message
BY DEF Anonymous, Message

\* t: s after u was taken out of everything.
LEMMA RemoveKeeps ==
    ASSUME NEW s \in Store, NEW t \in Store, NEW u \in Users, NEW extra, Sound(s),
           t.isOut = [s.isOut EXCEPT ![u] = TRUE], t.outbox = s.outbox,
           \A m \in Msgs : t.msg[m] = IF HasMsg(s, m) THEN Anonymous(s.msg[m], u)
                                                      ELSE s.msg[m],
           \A c \in Convs : t.conv[c] = IF c \in ConversationsOf(s, u)
                                        THEN Departed(s.conv[c], u) ELSE s.conv[c],
           UserDoc(u) \in extra, \A c \in ConversationsOf(s, u) : ConvDoc(c) \in extra
    PROVE  Keeps(s, t, extra)
<1>1. ASSUME NEW m \in Msgs, HasMsg(s, m)
      PROVE  /\ t.msg[m] \in Message /\ HasMsg(t, m)
             /\ t.msg[m].conversation = s.msg[m].conversation
             /\ t.msg[m].createdAt = s.msg[m].createdAt
             /\ t.msg[m].sender = IF s.msg[m].sender = u THEN None ELSE s.msg[m].sender
             /\ t.msg[m].readBy = s.msg[m].readBy \ {u}
             /\ s.msg[m].sender # u /\ u \notin s.msg[m].readBy => t.msg[m] = s.msg[m]
  <2>1. s.msg[m] \in Message /\ t.msg[m] = Anonymous(s.msg[m], u)
    BY <1>1, HasMsgType
  <2>2. t.msg[m] \in Message
    BY <2>1, AnonymousType
  <2>3. HasMsg(t, m)
    BY <2>2, MessageExists
  <2>4. /\ t.msg[m].conversation = s.msg[m].conversation
        /\ t.msg[m].createdAt = s.msg[m].createdAt
        /\ t.msg[m].sender = IF s.msg[m].sender = u THEN None ELSE s.msg[m].sender
        /\ t.msg[m].readBy = s.msg[m].readBy \ {u}
        /\ s.msg[m].sender # u /\ u \notin s.msg[m].readBy => t.msg[m] = s.msg[m]
    BY <2>1, AnonymousFields
  <2> QED
    BY <2>2, <2>3, <2>4
<1>2. ASSUME NEW m \in Msgs, ~HasMsg(s, m)
      PROVE  t.msg[m] = s.msg[m] /\ ~HasMsg(t, m)
  BY <1>2 DEF HasMsg
<1>3. \A c \in Convs : MessagesOf(t, c) = MessagesOf(s, c)
  BY <1>1, <1>2 DEF MessagesOf
<1>4. \A c \in Convs : /\ Whole(s, c)
                       /\ c \in ConversationsOf(s, u) <=> HasConv(s, c) /\ u \in Members(s, c)
  BY DEF Sound, ConversationsOf, Members
<1>5. ASSUME NEW c \in Convs, NEW m \in MessagesOf(s, c), t.msg[m] # s.msg[m]
      PROVE  c \in ConversationsOf(s, u)
  <2>1. m \in Msgs /\ HasMsg(s, m)
    BY DEF MessagesOf
  <2>2. s.msg[m].sender = u \/ u \in s.msg[m].readBy
    BY <1>1, <1>5, <2>1
  <2>3. HasConv(s, c) /\ MembersOnly(s, c)
    BY <1>4 DEF Whole
  <2>4. u \in Members(s, c)
    BY <2>2, <2>3, NoneAssumption DEF MembersOnly
  <2> QED
    BY <1>4, <2>3, <2>4
<1>6. ASSUME NEW c \in ConversationsOf(s, u)
      PROVE  Whole(t, c) /\ HasConv(s, c) /\ HasConv(t, c)
  <2>1. /\ c \in Convs /\ HasConv(s, c) /\ Whole(s, c) /\ u \in Members(s, c)
        /\ t.conv[c] = Departed(s.conv[c], u)
    BY <1>4 DEF ConversationsOf, Members
  <2>2. s.conv[c] \in Conversation
    BY <2>1, HasConvType
  <2>3. /\ t.conv[c].participants = s.conv[c].participants \ {u}
        /\ t.conv[c].departed = s.conv[c].departed \cup {u}
        /\ t.conv[c].lastMessage = s.conv[c].lastMessage
        /\ t.conv[c].lastMessageAt = s.conv[c].lastMessageAt
        /\ t.conv[c].hiddenFor = s.conv[c].hiddenFor
        /\ t.conv[c].clearedAt = s.conv[c].clearedAt
        /\ \A v \in Users \ {u} : t.conv[c].unreadCounts[v] = s.conv[c].unreadCounts[v]
    BY <2>1, <2>2, DepartedFields
  <2>4. HasConv(t, c)
    <3>1. t.conv[c] \in Conversation
      BY <2>1, <2>2, DepartedType
    <3> QED
      BY <3>1, DocumentAssumption DEF HasConv
  <2>5. MessagesOf(t, c) = MessagesOf(s, c) /\ Members(t, c) = Members(s, c)
    BY <1>3, <2>1, <2>3 DEF Members
  <2>6. \A m \in MessagesOf(s, c) :
          /\ t.msg[m].createdAt = s.msg[m].createdAt
          /\ t.msg[m].sender = IF s.msg[m].sender = u THEN None ELSE s.msg[m].sender
          /\ t.msg[m].readBy = s.msg[m].readBy \ {u}
    BY <1>1 DEF MessagesOf
  <2>7. MembersOnly(t, c)
    BY <2>1, <2>5, <2>6 DEF Whole, MembersOnly
  <2>8. Ordered(t, c)
    BY <2>1, <2>3, <2>5, <2>6, OrderedKept DEF Whole
  <2>9. InView(t, c)
    BY <2>1, <2>3 DEF Whole, InView
  <2>10. ASSUME NEW v \in Users \ {u}
         PROVE  UnreadBy(t, v, c) = UnreadBy(s, v, c)
    <3>1. \A m \in MessagesOf(s, c) :
            /\ t.msg[m].createdAt = s.msg[m].createdAt
            /\ t.msg[m].sender = v <=> s.msg[m].sender = v
            /\ v \in t.msg[m].readBy <=> v \in s.msg[m].readBy
      BY <2>6, NoneAssumption
    <3>2. t.conv[c].clearedAt[v] = s.conv[c].clearedAt[v]
      BY <2>3
    <3> QED
      BY <2>1, <2>5, <3>1, <3>2, UnreadKept
  <2>11. Counted(t, c)
    <3> SUFFICES ASSUME NEW v \in s.conv[c].participants, v # u
                 PROVE  t.conv[c].unreadCounts[v] = Cardinality(UnreadBy(t, v, c))
      BY <2>3 DEF Counted
    <3>1. v \in Users
      BY <2>2 DEF Conversation
    <3>2. s.conv[c].unreadCounts[v] = Cardinality(UnreadBy(s, v, c))
      BY <2>1 DEF Whole, Counted
    <3> QED
      BY <2>3, <2>10, <3>1, <3>2
  <2> QED
    BY <2>1, <2>4, <2>5, <2>7, <2>8, <2>9, <2>11 DEF Whole
<1>7. ASSUME NEW c \in Convs, c \notin ConversationsOf(s, u)
      PROVE  SameConv(s, t, c)
  <2>1. s.conv[c] = t.conv[c]
    BY <1>7
  <2> QED
    BY <1>3, <1>5, <1>7, <2>1 DEF SameConv
<1>8. \A c \in Convs : Whole(t, c)
  BY <1>4, <1>6, <1>7, SameWhole
<1>9. \A e \in t.outbox : EventWhole(t, e)
  <2> SUFFICES ASSUME NEW e \in s.outbox PROVE EventWhole(t, e)
    OBVIOUS
  <2>1. EventWhole(s, e) /\ e.conversation \in Convs
    BY StoreFields DEF Sound, Event
  <2>2. HasConv(t, e.conversation)
    <3>1. CASE e.conversation \in ConversationsOf(s, u)
      BY <1>6, <3>1
    <3>2. CASE e.conversation \notin ConversationsOf(s, u)
      BY <2>1, <3>2 DEF EventWhole, HasConv
    <3> QED
      BY <3>1, <3>2
  <2> QED
    BY <1>3, <2>1, <2>2 DEF EventWhole
<1>10. \A m \in Msgs : s.msg[m] # t.msg[m] =>
         /\ HasMsg(s, m) => ConvDoc(s.msg[m].conversation) \in extra
         /\ HasMsg(t, m) => ConvDoc(t.msg[m].conversation) \in extra
  <2> SUFFICES ASSUME NEW m \in Msgs, s.msg[m] # t.msg[m]
               PROVE  /\ HasMsg(s, m) /\ t.msg[m].conversation = s.msg[m].conversation
                      /\ ConvDoc(s.msg[m].conversation) \in extra
    OBVIOUS
  <2>1. HasMsg(s, m)
    BY <1>2
  <2>2. s.msg[m].conversation \in Convs
    BY <2>1, HasMsgType DEF Message
  <2>3. m \in MessagesOf(s, s.msg[m].conversation)
    BY <2>1 DEF MessagesOf
  <2> QED
    BY <1>1, <1>5, <2>1, <2>2, <2>3
<1>11. \A c \in Convs, v \in Users : Left(t, c, v) /\ ~Left(s, c, v) => v = u
  <2> SUFFICES ASSUME NEW c \in Convs, NEW v \in Users, Left(t, c, v), v # u
               PROVE  Left(s, c, v)
    OBVIOUS
  <2>1. CASE c \in ConversationsOf(s, u)
    <3>1. HasConv(s, c) /\ t.conv[c] = Departed(s.conv[c], u)
      BY <1>6, <2>1
    <3>2. t.conv[c].departed = s.conv[c].departed \cup {u}
      BY <3>1, HasConvType, DepartedFields
    <3> QED
      BY <3>1, <3>2 DEF Left
  <2>2. CASE c \notin ConversationsOf(s, u)
    BY <2>2 DEF Left, HasConv
  <2> QED
    BY <2>1, <2>2
<1>12. \A c \in Convs, v \in Users :
         t.isOut[v] /\ ~s.isOut[v] /\ Left(s, c, v) => ConvDoc(c) \in extra
  <2> SUFFICES ASSUME NEW c \in Convs, NEW v \in Users,
                      t.isOut[v], ~s.isOut[v], Left(s, c, v)
               PROVE  ConvDoc(c) \in extra
    OBVIOUS
  <2>1. v = u
    BY StoreFields
  <2>2. c \in ConversationsOf(s, u)
    BY <2>1 DEF Left, ConversationsOf
  <2> QED
    BY <2>2
<1>13. Covers(s, t, extra)
  BY <1>10, <1>11, <1>12 DEF Covers
<1> QED
  BY <1>8, <1>9, <1>13 DEF Keeps, Sound

-----------------------------------------------------------------------------
(* Every transaction commits a store made from the one it read, and keeps  *)
(* the rules about sending and editing for that one.                       *)

\* A transaction that turned s into t and locked extra sends only to an open
\* conversation and edits only what is in view, and writes that conversation.
Legal(s, t, extra) ==
    \A m \in Msgs : HasMsg(t, m) =>
        LET c == t.msg[m].conversation
            u == t.msg[m].sender IN
        /\ s.msg[m] = Unborn
             => /\ ConvDoc(c) \in Changed(s, t) \cup extra
                /\ HasConv(s, c) => ~s.conv[c].isLocked /\ ~s.conv[c].isClosed
        /\ HasMsg(s, m) /\ s.msg[m].isOriginal # t.msg[m].isOriginal
             => /\ ConvDoc(c) \in extra
                /\ s.msg[m].conversation = c
                /\ ~s.conv[c].isLocked
                /\ u \in s.conv[c].participants
                /\ IsVisible(s, u, m)

Writes(p, t, extra) ==
    /\ snap[p] # None
    /\ snap[p] \in Store
    /\ t \in Store
    /\ extra \in SUBSET Docs
    /\ Legal(snap[p], t, extra)
    /\ Sound(snap[p]) => Keeps(snap[p], t, extra)
    /\ Commit(p, t, extra)
    /\ UNCHANGED job

LEMMA SnapType ==
    ASSUME TypeOK, NEW p \in Txns, snap[p] # None
    PROVE  snap[p] \in Store
BY DEF TypeOK

LEMMA LegalSame ==
    ASSUME NEW s, NEW t, NEW extra,
           \A m \in Msgs : HasMsg(t, m) =>
               HasMsg(s, m) /\ s.msg[m].isOriginal = t.msg[m].isOriginal
    PROVE  Legal(s, t, extra)
BY DEF Legal, HasMsg

LEMMA ConvAlone ==
    ASSUME NEW s \in Store, NEW c \in Convs, NEW conv \in Conversation, NEW extra
    PROVE  Legal(s, [s EXCEPT !.conv[c] = conv], extra)
<1>1. [s EXCEPT !.conv[c] = conv].msg = s.msg
  BY DEF Store
<1> QED
  BY <1>1, LegalSame DEF HasMsg

LEMMA MarkedBody ==
    ASSUME NEW s \in Store, NEW u \in Users, NEW c \in Convs, NEW m \in Msgs,
           HasMsg([s EXCEPT !.msg = MarkRead(s, u, c)], m)
    PROVE  /\ HasMsg(s, m)
           /\ s.msg[m].isOriginal = MarkRead(s, u, c)[m].isOriginal
<1>1. [s EXCEPT !.msg = MarkRead(s, u, c)].msg = MarkRead(s, u, c)
  BY DEF Store
<1>2. CASE m \in UnreadBy(s, u, c)
  <2>1. HasMsg(s, m)
    BY <1>2 DEF UnreadBy, MessagesOf
  <2>2. MarkRead(s, u, c)[m] = [s.msg[m] EXCEPT !.readBy = @ \cup {u}]
    BY <1>2 DEF MarkRead
  <2> QED
    BY <2>1, <2>2, HasMsgType DEF Message
<1>3. CASE m \notin UnreadBy(s, u, c)
  BY <1>1, <1>3 DEF MarkRead, HasMsg
<1> QED
  BY <1>2, <1>3

LEMMA PairCounted ==
    ASSUME NEW u \in Users, NEW v \in Users, u # v
    PROVE  {u, v} \in Pairs
<1>1. IsFiniteSet({u}) /\ Cardinality({u}) = 1
  BY FS_Singleton
<1>2. Cardinality({u} \cup {v}) = 2
  BY <1>1, FS_AddElement
<1>3. {u, v} = {u} \cup {v}
  OBVIOUS
<1> QED
  BY <1>2, <1>3 DEF Pairs

LEMMA HashType ==
    ASSUME NEW u \in Users, NEW v \in Users, u # v
    PROVE  {HashDoc({u, v})} \in SUBSET Docs
BY PairCounted DEF Docs

LEMMA SendMessageWrites ==
    ASSUME TypeOK, NEW p \in Txns, NEW u \in Users, NEW c \in Convs, NEW m \in Msgs,
           NEW now \in 1 .. MaxClock, SendMessage(p, u, c, m, now)
    PROVE  \E t, extra : Writes(p, t, extra)
<1> DEFINE s == snap[p]
           read == [s EXCEPT !.msg = MarkRead(s, u, c)]
           at == MessageTime(s.conv[c], now)
           t == WithMessage(read, u, c, m, at)
<1>1. s # None /\ s \in Store
  BY SnapType DEF SendMessage
<1>2. /\ HasConv(s, c)
      /\ s.msg[m] = Unborn
      /\ u \in s.conv[c].participants
      /\ ~s.conv[c].isLocked /\ ~s.conv[c].isClosed
      /\ Commit(p, t, acquireForMutation(c))
      /\ UNCHANGED job
  BY DEF SendMessage
<1>3. s.conv[c] \in Conversation
  BY <1>1, <1>2, HasConvType
<1>4. at \in Nat /\ s.conv[c].lastMessageAt < at
  <2> HIDE DEF s
  <2> QED BY <1>3, MessageTimeLater
<1>5. read \in Store /\ read.conv = s.conv /\ read.msg = MarkRead(s, u, c)
        /\ read.isOut = s.isOut /\ read.outbox = s.outbox
  <2>1. read.conv = s.conv /\ read.msg = MarkRead(s, u, c)
          /\ read.isOut = s.isOut /\ read.outbox = s.outbox
    BY <1>1 DEF Store
  <2> QED
    BY <1>1, <2>1, MarkedType
<1>6. t \in Store
  <2> HIDE DEF s, read, at
  <2> QED BY <1>3, <1>4, <1>5, WithMessageType
<1>7. /\ t.msg[m].conversation = c
      /\ \A n \in Msgs \ {m} : t.msg[n] = read.msg[n]
  <2>1. t = WithMessage(read, u, c, m, at)
    OBVIOUS
  <2> HIDE DEF s, read, at, t
  <2>2. /\ t.msg[m] = [conversation |-> c, sender |-> u, isOriginal |-> TRUE,
                        readBy |-> {u}, createdAt |-> at]
        /\ t.conv[c] = Bumped(read.conv[c], u, m, at)
        /\ \A n \in Msgs \ {m} : t.msg[n] = read.msg[n]
    BY <1>5, <2>1, WithMessageFields
  <2> QED BY <1>5, <2>2
<1>8. ConvDoc(c) \in acquireForMutation(c)
  BY DEF acquireForMutation
<1>9. Legal(s, t, acquireForMutation(c))
  <2> HIDE DEF s, t
  <2>1. \A n \in Msgs \ {m} : HasMsg(t, n) =>
          HasMsg(s, n) /\ s.msg[n].isOriginal = t.msg[n].isOriginal
    BY <1>1, <1>5, <1>7, MarkedBody DEF HasMsg
  <2> QED
    BY <1>2, <1>7, <1>8, <2>1 DEF Legal, HasMsg
<1>10. Sound(s) => Keeps(s, t, acquireForMutation(c))
  <2> HIDE DEF s, read, at
  <2>1. t = WithMessage(read, u, c, m, at)
    OBVIOUS
  <2> HIDE DEF t
  <2> QED BY <1>1, <1>2, <1>4, <1>5, <1>6, <1>8, <2>1, SendKeeps
<1>11. Writes(p, t, acquireForMutation(c))
  BY <1>1, <1>2, <1>6, <1>9, <1>10, acquireType DEF Writes
<1> QED
  BY <1>11

LEMMA CreatedConversation ==
    ASSUME TypeOK, NEW p \in Txns, NEW u \in Users, NEW v \in Users, NEW c \in Convs,
           NEW now \in 1 .. MaxClock, MayCreate(snap[p], u, v, c)
    PROVE  /\ snap[p] # None /\ snap[p] \in Store
           /\ snap[p].conv[c] = Unborn
           /\ NewConversation(u, v, now) \in Conversation
           /\ {HashDoc({u, v})} \in SUBSET Docs
<1>1. u # v /\ snap[p] # None /\ snap[p].conv[c] = Unborn
  BY DEF MayCreate
<1>2. now \in Nat
  BY ClockAssumption
<1> QED
  BY <1>1, <1>2, SnapType, PairCounted, NewConversationType, HashType

LEMMA SendFirstWrites ==
    ASSUME TypeOK, NEW p \in Txns, NEW u \in Users, NEW v \in Users, NEW c \in Convs,
           NEW m \in Msgs, NEW now \in 1 .. MaxClock, SendFirst(p, u, v, c, m, now)
    PROVE  \E t, extra : Writes(p, t, extra)
<1> DEFINE s == snap[p]
           conv == NewConversation(u, v, now)
           created == [s EXCEPT !.conv[c] = conv]
           at == MessageTime(created.conv[c], now)
           t == WithMessage(created, u, c, m, at)
           extra == {HashDoc({u, v})}
<1>1. /\ s.msg[m] = Unborn
      /\ MayCreate(s, u, v, c)
      /\ Commit(p, t, extra)
      /\ UNCHANGED job
  BY DEF SendFirst
<1>2. /\ s # None /\ s \in Store
      /\ s.conv[c] = Unborn
      /\ conv \in Conversation
      /\ extra \in SUBSET Docs
  BY <1>1, CreatedConversation
<1>3. /\ created \in Store /\ created.conv[c] = conv /\ created.msg = s.msg
      /\ created.isOut = s.isOut /\ created.outbox = s.outbox
      /\ \A d \in Convs \ {c} : created.conv[d] = s.conv[d]
  <2> HIDE DEF s, conv
  <2>1. /\ created.msg = s.msg /\ created.isOut = s.isOut /\ created.outbox = s.outbox
        /\ \A d \in Convs \ {c} : created.conv[d] = s.conv[d]
    BY <1>2 DEF Store
  <2> QED
    BY <1>2, <2>1, ConvReplaced
<1>4. now \in Nat /\ at \in Nat /\ now < at
  <2>1. now \in Nat
    BY ClockAssumption
  <2>2. conv.lastMessageAt = now
    BY DEF NewConversation
  <2> HIDE DEF conv, created
  <2> QED BY <1>2, <1>3, <2>1, <2>2, MessageTimeLater
<1>5. t \in Store
  <2> HIDE DEF conv, created, at
  <2> QED BY <1>2, <1>3, <1>4, WithMessageType
<1>6. /\ t.msg[m].conversation = c
      /\ t.conv[c] = Bumped(conv, u, m, at)
      /\ \A n \in Msgs \ {m} : t.msg[n] = s.msg[n]
  <2>1. t = WithMessage(created, u, c, m, at)
    OBVIOUS
  <2> HIDE DEF s, conv, created, at, t
  <2>2. /\ t.msg[m] = [conversation |-> c, sender |-> u, isOriginal |-> TRUE,
                        readBy |-> {u}, createdAt |-> at]
        /\ t.conv[c] = Bumped(created.conv[c], u, m, at)
        /\ \A n \in Msgs \ {m} : t.msg[n] = created.msg[n]
    BY <1>3, <2>1, WithMessageFields
  <2> QED BY <1>3, <2>2
<1>7. ConvDoc(c) \in Changed(s, t)
  <2> HIDE DEF s, conv, at, t
  <2>1. t.conv[c] \in Conversation
    BY <1>2, <1>4, <1>6, BumpedType
  <2>2. t.conv[c] # s.conv[c]
    BY <1>2, <2>1, DocumentAssumption
  <2> QED
    BY <2>2 DEF Changed
<1>8. Legal(s, t, extra)
  <2> HIDE DEF s, t, extra, conv, at
  <2> QED BY <1>1, <1>2, <1>6, <1>7 DEF Legal, HasMsg, HasConv
<1>9. Sound(s) => Keeps(s, t, extra)
  <2>1. t = WithMessage(created, u, c, m, at) /\ conv = NewConversation(u, v, now)
    OBVIOUS
  <2> HIDE DEF s, t, extra, conv, created, at
  <2>2. created.conv[c] = NewConversation(u, v, now) /\ created.conv[c] \in Conversation
    BY <1>2, <1>3, <2>1
  <2>3. ConvDoc(c) \in Changed(s, t) \cup extra
    BY <1>7
  <2> QED BY <1>1, <1>2, <1>3, <1>4, <1>5, <1>7, <2>1, <2>2, <2>3, SendFirstKeeps
<1>10. Writes(p, t, extra)
  BY <1>1, <1>2, <1>5, <1>8, <1>9 DEF Writes
<1> QED
  BY <1>10

LEMMA CreateConversationWrites ==
    ASSUME TypeOK, NEW p \in Txns, NEW u \in Users, NEW v \in Users, NEW c \in Convs,
           NEW now \in 1 .. MaxClock, CreateConversation(p, u, v, c, now)
    PROVE  \E t, extra : Writes(p, t, extra)
<1> DEFINE s == snap[p]
           conv == NewConversation(u, v, now)
           t == [s EXCEPT !.conv[c] = conv]
           extra == {HashDoc({u, v})}
<1>1. MayCreate(s, u, v, c) /\ Commit(p, t, extra) /\ UNCHANGED job
  BY DEF CreateConversation
<1>2. /\ s # None /\ s \in Store /\ conv \in Conversation /\ extra \in SUBSET Docs
      /\ s.conv[c] = Unborn
  BY <1>1, CreatedConversation
<1>3. t \in Store /\ Legal(s, t, extra)
  <2> HIDE DEF s, conv, extra
  <2> QED BY <1>2, ConvReplaced, ConvAlone
<1>4. Sound(s) => Keeps(s, t, extra)
  <2>1. now \in Nat /\ conv = NewConversation(u, v, now)
    BY ClockAssumption
  <2> HIDE DEF s, conv, extra
  <2>2. /\ t.conv[c] = conv /\ \A d \in Convs \ {c} : t.conv[d] = s.conv[d]
        /\ t.msg = s.msg /\ t.isOut = s.isOut /\ t.outbox = s.outbox
    BY <1>2 DEF Store
  <2> HIDE DEF t
  <2> QED BY <1>2, <1>3, <2>1, <2>2, CreateKeeps
<1>5. Writes(p, t, extra)
  BY <1>1, <1>2, <1>3, <1>4 DEF Writes
<1> QED
  BY <1>5

\* Reopen and SetLock change one conversation, and nothing else.
LEMMA ConversationWrites ==
    ASSUME TypeOK, NEW p \in Txns, NEW c \in Convs, NEW conv \in Conversation,
           snap[p] # None, snap[p] \in Store, HasConv(snap[p], c), UNCHANGED job,
           conv.participants = snap[p].conv[c].participants,
           conv.departed = snap[p].conv[c].departed,
           conv.lastMessage = snap[p].conv[c].lastMessage,
           conv.lastMessageAt = snap[p].conv[c].lastMessageAt,
           conv.hiddenFor \subseteq snap[p].conv[c].hiddenFor,
           conv.clearedAt = snap[p].conv[c].clearedAt,
           conv.unreadCounts = snap[p].conv[c].unreadCounts,
           Commit(p, [snap[p] EXCEPT !.conv[c] = conv], acquireForMutation(c))
    PROVE  \E t, extra : Writes(p, t, extra)
<1> DEFINE s == snap[p]
           t == [s EXCEPT !.conv[c] = conv]
<1>1. /\ t.conv[c] = conv /\ \A d \in Convs \ {c} : t.conv[d] = s.conv[d]
      /\ t.msg = s.msg /\ t.isOut = s.isOut /\ t.outbox = s.outbox
  <2> HIDE DEF s
  <2>1. s \in Store
    BY DEF s
  <2> QED BY <2>1 DEF Store
<1>2. t \in Store
  BY ConvReplaced
<1>3. Sound(s) => Keeps(s, t, acquireForMutation(c))
  <2>1. ConvDoc(c) \in acquireForMutation(c)
    BY DEF acquireForMutation
  <2> HIDE DEF t
  <2> QED BY <1>1, <1>2, <2>1, ConvShownKeeps
<1>4. Writes(p, t, acquireForMutation(c))
  BY <1>2, <1>3, ConvAlone, acquireType DEF Writes
<1> QED
  BY <1>4

LEMMA ReopenWrites ==
    ASSUME TypeOK, NEW p \in Txns, NEW u \in Users, NEW c \in Convs, Reopen(p, u, c)
    PROVE  \E t, extra : Writes(p, t, extra)
<1> DEFINE s == snap[p]
           conv == [s.conv[c] EXCEPT !.hiddenFor = @ \ {u}]
<1>1. s # None /\ s \in Store /\ HasConv(s, c) /\ UNCHANGED job
  BY SnapType DEF Reopen
<1>2. s.conv[c] \in Conversation
  BY <1>1, HasConvType
<1>3. /\ conv \in Conversation
      /\ conv.participants = s.conv[c].participants
      /\ conv.departed = s.conv[c].departed
      /\ conv.lastMessage = s.conv[c].lastMessage
      /\ conv.lastMessageAt = s.conv[c].lastMessageAt
      /\ conv.hiddenFor \subseteq s.conv[c].hiddenFor
      /\ conv.clearedAt = s.conv[c].clearedAt
      /\ conv.unreadCounts = s.conv[c].unreadCounts
  BY <1>2 DEF Conversation
<1>4. [s EXCEPT !.conv[c].hiddenFor = @ \ {u}] = [s EXCEPT !.conv[c] = conv]
  BY <1>1 DEF Store
<1>5. Commit(p, [s EXCEPT !.conv[c] = conv], acquireForMutation(c))
  BY <1>4 DEF Reopen
<1> HIDE DEF conv
<1> QED
  BY <1>1, <1>3, <1>5, ConversationWrites

LEMMA SetLockWrites ==
    ASSUME TypeOK, NEW p \in Txns, NEW c \in Convs, NEW locked \in BOOLEAN,
           SetLock(p, c, locked)
    PROVE  \E t, extra : Writes(p, t, extra)
<1> DEFINE s == snap[p]
           conv == [s.conv[c] EXCEPT !.isLocked = locked]
<1>1. s # None /\ s \in Store /\ HasConv(s, c) /\ UNCHANGED job
  BY SnapType DEF SetLock
<1>2. s.conv[c] \in Conversation
  BY <1>1, HasConvType
<1>3. /\ conv \in Conversation
      /\ conv.participants = s.conv[c].participants
      /\ conv.departed = s.conv[c].departed
      /\ conv.lastMessage = s.conv[c].lastMessage
      /\ conv.lastMessageAt = s.conv[c].lastMessageAt
      /\ conv.hiddenFor \subseteq s.conv[c].hiddenFor
      /\ conv.clearedAt = s.conv[c].clearedAt
      /\ conv.unreadCounts = s.conv[c].unreadCounts
  BY <1>2 DEF Conversation
<1>4. [s EXCEPT !.conv[c].isLocked = locked] = [s EXCEPT !.conv[c] = conv]
  BY <1>1 DEF Store
<1>5. Commit(p, [s EXCEPT !.conv[c] = conv], acquireForMutation(c))
  BY <1>4 DEF SetLock
<1> HIDE DEF conv
<1> QED
  BY <1>1, <1>3, <1>5, ConversationWrites

LEMMA MarkConversationReadWrites ==
    ASSUME TypeOK, NEW p \in Txns, NEW u \in Users, NEW c \in Convs,
           MarkConversationRead(p, u, c)
    PROVE  \E t, extra : Writes(p, t, extra)
<1> DEFINE s == snap[p]
           conv == [s.conv[c] EXCEPT !.unreadCounts[u] = 0]
           read == [s EXCEPT !.msg = MarkRead(s, u, c)]
           t == [read EXCEPT !.conv[c] = conv]
<1>1. s # None /\ s \in Store /\ HasConv(s, c) /\ UNCHANGED job
  BY SnapType DEF MarkConversationRead
<1>2. s.conv[c] \in Conversation
  BY <1>1, HasConvType
<1>3. /\ conv \in Conversation
      /\ conv.participants = s.conv[c].participants
      /\ conv.departed = s.conv[c].departed
      /\ conv.lastMessage = s.conv[c].lastMessage
      /\ conv.lastMessageAt = s.conv[c].lastMessageAt
      /\ conv.hiddenFor = s.conv[c].hiddenFor
      /\ conv.clearedAt = s.conv[c].clearedAt
      /\ conv.unreadCounts[u] = 0
      /\ \A v \in Users \ {u} : conv.unreadCounts[v] = s.conv[c].unreadCounts[v]
  <2>1. conv = Unread(s.conv[c], u)
    BY DEF Unread
  <2> HIDE DEF s, conv
  <2> QED BY <1>2, <2>1, ReadFields
<1>4. [s EXCEPT !.msg = MarkRead(s, u, c), !.conv[c].unreadCounts[u] = 0] = t
  BY <1>1 DEF Store
<1>5. Commit(p, t, acquireForMutation(c))
  BY <1>4 DEF MarkConversationRead
<1>6. /\ read \in Store /\ read.msg = MarkRead(s, u, c) /\ read.conv = s.conv
      /\ read.isOut = s.isOut /\ read.outbox = s.outbox
  <2>1. /\ read.msg = MarkRead(s, u, c) /\ read.conv = s.conv
        /\ read.isOut = s.isOut /\ read.outbox = s.outbox
    BY <1>1 DEF Store
  <2> QED
    BY <1>1, <2>1, MarkedType
<1>7. /\ t \in Store /\ t.msg = read.msg
      /\ t.conv[c] = conv /\ \A d \in Convs \ {c} : t.conv[d] = s.conv[d]
      /\ t.isOut = s.isOut /\ t.outbox = s.outbox
  <2> HIDE DEF s, read, conv
  <2>1. /\ t.msg = read.msg
        /\ t.conv[c] = conv /\ \A d \in Convs \ {c} : t.conv[d] = s.conv[d]
        /\ t.isOut = s.isOut /\ t.outbox = s.outbox
    BY <1>6 DEF Store
  <2> QED
    BY <1>3, <1>6, <2>1, ConvReplaced
<1>8. Legal(s, t, acquireForMutation(c))
  <2> HIDE DEF s, t
  <2>1. \A m \in Msgs : HasMsg(t, m) =>
          HasMsg(s, m) /\ s.msg[m].isOriginal = t.msg[m].isOriginal
    BY <1>1, <1>6, <1>7, MarkedBody DEF HasMsg
  <2> QED
    BY <2>1, LegalSame
<1>9. Sound(s) => Keeps(s, t, acquireForMutation(c))
  <2>1. u \in s.conv[c].participants /\ ConvDoc(c) \in acquireForMutation(c)
    BY DEF MarkConversationRead, acquireForMutation
  <2> HIDE DEF s, read, conv, t
  <2> QED BY <1>1, <1>3, <1>6, <1>7, <2>1, MarkReadKeeps
<1>10. Writes(p, t, acquireForMutation(c))
  BY <1>1, <1>5, <1>7, <1>8, <1>9, acquireType DEF Writes
<1> QED
  BY <1>10

LEMMA ClearConversationWrites ==
    ASSUME TypeOK, NEW p \in Txns, NEW u \in Users, NEW c \in Convs,
           ClearConversation(p, u, c)
    PROVE  \E t, extra : Writes(p, t, extra)
<1> DEFINE s == snap[p]
           t == [s EXCEPT
               !.conv[c] = Cleared(s.conv[c], u),
               !.notes = @ \ NotificationsFor(s, u, c)]
<1>1. s # None /\ s \in Store /\ HasConv(s, c) /\ UNCHANGED job
  BY SnapType DEF ClearConversation
<1>2. Commit(p, t, acquireForMutation(c))
  BY DEF ClearConversation
<1>3. /\ t \in Store /\ t.msg = s.msg /\ t.isOut = s.isOut /\ t.outbox = s.outbox
      /\ t.conv[c] = Cleared(s.conv[c], u)
      /\ \A d \in Convs \ {c} : t.conv[d] = s.conv[d]
  <2> DEFINE conv == Cleared(s.conv[c], u)
             notes == s.notes \ NotificationsFor(s, u, c)
  <2>1. conv \in Conversation
    BY <1>1, HasConvType, ClearedFields
  <2>2. notes \in SUBSET Notification
    BY <1>1, StoreFields
  <2>3. t = [s EXCEPT !.conv[c] = conv, !.notes = notes]
    OBVIOUS
  <2> HIDE DEF s, t, conv, notes
  <2>4. /\ t \in Store /\ t.msg = s.msg /\ t.isOut = s.isOut /\ t.outbox = s.outbox
        /\ t.conv[c] = conv /\ \A d \in Convs \ {c} : t.conv[d] = s.conv[d]
    BY <1>1, <2>1, <2>2, <2>3 DEF Store
  <2> QED BY <2>4 DEF conv
<1>4. Legal(s, t, acquireForMutation(c))
  <2> HIDE DEF s, t
  <2> QED BY <1>3, LegalSame DEF HasMsg
<1>5. Sound(s) => Keeps(s, t, acquireForMutation(c))
  <2>1. ConvDoc(c) \in acquireForMutation(c)
    BY DEF acquireForMutation
  <2> HIDE DEF s, t
  <2> QED BY <1>1, <1>3, <2>1, ClearedKeeps
<1>6. Writes(p, t, acquireForMutation(c))
  BY <1>1, <1>2, <1>3, <1>4, <1>5, acquireType DEF Writes
<1> QED
  BY <1>6

LEMMA PurgeWrites ==
    ASSUME TypeOK, NEW p \in Txns, NEW c \in Convs, Purge(p, c)
    PROVE  \E t, extra : Writes(p, t, extra)
<1> DEFINE s == snap[p]
           msgs == [m \in Msgs |-> IF m \in MessagesOf(s, c) THEN Gone ELSE s.msg[m]]
           t == [s EXCEPT !.conv[c] = Gone, !.msg = msgs,
                          !.outbox = {e \in @ : e.conversation # c},
                          !.notes = {n \in @ : n.conversation # c}]
<1>1. s # None /\ s \in Store /\ UNCHANGED job
  BY SnapType DEF Purge
<1>2. Commit(p, t, acquireForMutation(c))
  BY DEF Purge
<1>3. t \in Store
  BY <1>1, PurgedType
<1>4. /\ t.msg = msgs /\ t.isOut = s.isOut
      /\ t.conv[c] = Gone /\ \A d \in Convs \ {c} : t.conv[d] = s.conv[d]
      /\ t.outbox = {e \in s.outbox : e.conversation # c}
  <2> HIDE DEF msgs
  <2> QED BY <1>1 DEF Store
<1>5. Legal(s, t, acquireForMutation(c))
  <2> HIDE DEF s, t
  <2> QED BY <1>4, LegalSame DEF HasMsg
<1>6. Sound(s) => Keeps(s, t, acquireForMutation(c))
  <2>1. ConvDoc(c) \in acquireForMutation(c)
    BY DEF acquireForMutation
  <2> HIDE DEF s, t
  <2> QED BY <1>1, <1>3, <1>4, <2>1, PurgeKeeps
<1>7. Writes(p, t, acquireForMutation(c))
  BY <1>1, <1>2, <1>3, <1>5, <1>6, acquireType DEF Writes
<1> QED
  BY <1>7

LEMMA ReplaceBodyWrites ==
    ASSUME TypeOK, NEW p \in Txns, NEW u \in Users, NEW m \in Msgs, ReplaceBody(p, u, m)
    PROVE  \E t, extra : Writes(p, t, extra)
<1> DEFINE s == snap[p]
           c == s.msg[m].conversation
           record == [s.msg[m] EXCEPT !.isOriginal = FALSE]
           t == [s EXCEPT !.msg[m] = record]
           extra == acquireForMutation(c) \cup {MsgDoc(m)}
<1>1. s # None /\ s \in Store /\ UNCHANGED job
  BY SnapType DEF ReplaceBody
<1>2. /\ HasMsg(s, m) /\ HasConv(s, c)
      /\ u \in s.conv[c].participants
      /\ IsVisible(s, u, m)
      /\ ~s.conv[c].isLocked
      /\ s.msg[m].sender = u
      /\ s.msg[m].conversation = c
  BY DEF ReplaceBody
<1>3. s.msg[m] \in Message
  BY <1>1, <1>2, HasMsgType
<1>4. record \in Message /\ record.conversation = c /\ record.sender = u
  BY <1>2, <1>3 DEF Message
<1>5. c \in Convs
  BY <1>3 DEF Message
<1>6. Commit(p, t, extra)
  <2>1. t = [s EXCEPT !.msg[m].isOriginal = FALSE]
    BY <1>1 DEF Store
  <2> HIDE DEF t
  <2> QED BY <2>1 DEF ReplaceBody
<1>7. extra \in SUBSET Docs /\ ConvDoc(c) \in extra
  <2> HIDE DEF c
  <2> QED BY <1>5, acquireType DEF Docs, acquireForMutation
<1>8. /\ t.msg = [s.msg EXCEPT ![m] = record] /\ t \in Store
      /\ t.conv = s.conv /\ t.isOut = s.isOut /\ t.outbox = s.outbox
  <2> HIDE DEF record
  <2> QED BY <1>1, <1>4 DEF Store
<1>9. t.msg[m] = record /\ \A n \in Msgs \ {m} : t.msg[n] = s.msg[n]
  <2> HIDE DEF record, t
  <2> QED BY <1>1, <1>8, StoreFields
<1>10. Legal(s, t, extra)
  <2> HIDE DEF s, c, record, t, extra
  <2>1. \A n \in Msgs \ {m} : HasMsg(t, n) =>
          HasMsg(s, n) /\ s.msg[n].isOriginal = t.msg[n].isOriginal
    BY <1>9 DEF HasMsg
  <2> QED
    BY <1>2, <1>4, <1>7, <1>9, <2>1 DEF Legal, HasMsg
<1>11. Sound(s) => Keeps(s, t, extra)
  <2>1. t.msg[m] = [s.msg[m] EXCEPT !.isOriginal = FALSE]
    BY <1>9
  <2> HIDE DEF s, c, record, t, extra
  <2> QED BY <1>1, <1>2, <1>5, <1>7, <1>8, <1>9, <2>1, ReplaceBodyKeeps
<1>12. Writes(p, t, extra)
  BY <1>1, <1>6, <1>7, <1>8, <1>10, <1>11 DEF Writes
<1> QED
  BY <1>12

LEMMA RemoveAccountWrites ==
    ASSUME TypeOK, NEW p \in Txns, NEW u \in Users, RemoveAccount(p, u)
    PROVE  \E t, extra : Writes(p, t, extra)
<1> DEFINE s == snap[p]
           convs == ConversationsOf(s, u)
           msgs == [m \in Msgs |-> IF HasMsg(s, m) THEN Anonymous(s.msg[m], u)
                                                   ELSE s.msg[m]]
           t == [s EXCEPT !.isOut[u] = TRUE, !.msg = msgs,
                          !.conv = [c \in Convs |-> IF c \in convs
                                                    THEN Departed(s.conv[c], u)
                                                    ELSE s.conv[c]],
                          !.notes = {n \in @ : u \notin {n.user, n.from}}]
           extra == {UserDoc(u)} \cup {ConvDoc(c) : c \in convs}
<1>1. s # None /\ s \in Store /\ UNCHANGED job
  BY SnapType DEF RemoveAccount
<1>2. Commit(p, t, extra)
  BY DEF RemoveAccount
<1>3. t \in Store
  BY <1>1, RemovedType
<1>4. /\ t.msg = msgs /\ t.isOut = [s.isOut EXCEPT ![u] = TRUE] /\ t.outbox = s.outbox
      /\ \A c \in Convs : t.conv[c] = IF c \in convs THEN Departed(s.conv[c], u)
                                                     ELSE s.conv[c]
  <2> HIDE DEF msgs
  <2> QED BY <1>1 DEF Store
<1>5. \A m \in Msgs : HasMsg(s, m) =>
        Anonymous(s.msg[m], u).isOriginal = s.msg[m].isOriginal
  BY <1>1, HasMsgType DEF Anonymous, Message
<1>6. Legal(s, t, extra)
  <2> HIDE DEF s, t, extra
  <2> QED BY <1>4, <1>5, LegalSame DEF HasMsg
<1>7. extra \in SUBSET Docs
  BY DEF ConversationsOf, Docs
<1>8. Sound(s) => Keeps(s, t, extra)
  <2>1. UserDoc(u) \in extra /\ \A c \in ConversationsOf(s, u) : ConvDoc(c) \in extra
    OBVIOUS
  <2>2. \A m \in Msgs : t.msg[m] = IF HasMsg(s, m) THEN Anonymous(s.msg[m], u)
                                                   ELSE s.msg[m]
    BY <1>4
  <2> HIDE DEF s, t, extra
  <2> QED BY <1>1, <1>3, <1>4, <2>1, <2>2, RemoveKeeps
<1>9. Writes(p, t, extra)
  BY <1>1, <1>2, <1>3, <1>6, <1>7, <1>8 DEF Writes
<1> QED
  BY <1>9

LEMMA HandleMessageSentWrites ==
    ASSUME TypeOK, NEW p \in Txns, NEW e, HandleMessageSent(p, e)
    PROVE  \E t, extra : Writes(p, t, extra)
<1> DEFINE s == snap[p]
           t == [s EXCEPT !.outbox = @ \cup Requests(s, e)]
<1>1. s # None /\ s \in Store /\ UNCHANGED job /\ e \in s.outbox
  BY SnapType DEF HandleMessageSent
<1>2. e \in Event
  BY <1>1, StoreFields
<1>3. Commit(p, t, acquireForMutation(e.conversation))
  BY DEF HandleMessageSent
<1>4. /\ t \in Store /\ t.msg = s.msg /\ t.conv = s.conv /\ t.isOut = s.isOut
      /\ t.outbox = s.outbox \cup Requests(s, e)
  BY <1>1, <1>2, RequestsType DEF Store
<1>5. Legal(s, t, acquireForMutation(e.conversation))
  <2> HIDE DEF s, t
  <2> QED BY <1>4, LegalSame DEF HasMsg
<1>6. e.conversation \in Convs
  BY <1>2 DEF Event
<1>7. Sound(s) => Keeps(s, t, acquireForMutation(e.conversation))
  <2>1. ConvDoc(e.conversation) \in acquireForMutation(e.conversation)
    BY DEF acquireForMutation
  <2> HIDE DEF s, t
  <2> QED BY <1>1, <1>4, <2>1, HandleKeeps
<1>8. Writes(p, t, acquireForMutation(e.conversation))
  BY <1>1, <1>3, <1>4, <1>5, <1>6, <1>7, acquireType DEF Writes
<1> QED
  BY <1>8

LEMMA TransactionWrites ==
    ASSUME TypeOK, NEW p \in Txns, TransactionStep(p), ~Begin(p), ~Abort(p)
    PROVE  \E t, extra : Writes(p, t, extra)
<1>1. CASE \E u \in Users : UserStep(p, u)
  <2> PICK u \in Users : UserStep(p, u)
    BY <1>1
  <2>1. ASSUME NEW c \in Convs, NEW m \in Msgs, NEW now \in 1 .. MaxClock,
               SendMessage(p, u, c, m, now)
        PROVE  \E t, extra : Writes(p, t, extra)
    BY <2>1, SendMessageWrites
  <2>2. ASSUME NEW v \in Users, NEW c \in Convs, NEW m \in Msgs,
               NEW now \in 1 .. MaxClock, SendFirst(p, u, v, c, m, now)
        PROVE  \E t, extra : Writes(p, t, extra)
    BY <2>2, SendFirstWrites
  <2>3. ASSUME NEW v \in Users, NEW c \in Convs, NEW now \in 1 .. MaxClock,
               CreateConversation(p, u, v, c, now)
        PROVE  \E t, extra : Writes(p, t, extra)
    BY <2>3, CreateConversationWrites
  <2>4. ASSUME NEW c \in Convs, Reopen(p, u, c)
        PROVE  \E t, extra : Writes(p, t, extra)
    BY <2>4, ReopenWrites
  <2>5. ASSUME NEW c \in Convs, MarkConversationRead(p, u, c)
        PROVE  \E t, extra : Writes(p, t, extra)
    BY <2>5, MarkConversationReadWrites
  <2>6. ASSUME NEW c \in Convs, ClearConversation(p, u, c)
        PROVE  \E t, extra : Writes(p, t, extra)
    BY <2>6, ClearConversationWrites
  <2>7. ASSUME NEW m \in Msgs, ReplaceBody(p, u, m)
        PROVE  \E t, extra : Writes(p, t, extra)
    BY <2>7, ReplaceBodyWrites
  <2> QED
    BY <2>1, <2>2, <2>3, <2>4, <2>5, <2>6, <2>7 DEF UserStep
<1>2. CASE AdminStep(p)
  BY <1>2, PurgeWrites, SetLockWrites, RemoveAccountWrites DEF AdminStep
<1>3. CASE snap[p] # None /\ \E e \in snap[p].outbox : HandleMessageSent(p, e)
  BY <1>3, HandleMessageSentWrites
<1> QED
  BY <1>1, <1>2, <1>3 DEF TransactionStep

-----------------------------------------------------------------------------
(* The inductive invariant: what a transaction read is what is in the store *)
(* now, except for the documents it missed.                                 *)

FreshFor(p) ==
    snap[p] # None =>
        /\ \A c \in Convs : ConvDoc(c) \notin missed[p] => snap[p].conv[c] = store.conv[c]
        /\ \A m \in Msgs : MsgDoc(m) \notin missed[p] => snap[p].msg[m] = store.msg[m]
        /\ \A u \in Users : UserDoc(u) \notin missed[p] => snap[p].isOut[u] = store.isOut[u]

Fresh == \A p \in Txns : FreshFor(p)

LEMMA ApplyFields ==
    ASSUME NEW p \in Txns, NEW s, NEW t, NEW extra, Apply(p, s, t, extra)
    PROVE  /\ \A c \in Convs : store'.conv[c] = IF s.conv[c] # t.conv[c] THEN t.conv[c]
                                                                        ELSE store.conv[c]
           /\ \A m \in Msgs : store'.msg[m] = IF s.msg[m] # t.msg[m] THEN t.msg[m]
                                                                    ELSE store.msg[m]
           /\ \A u \in Users : store'.isOut[u] = IF s.isOut[u] # t.isOut[u] THEN t.isOut[u]
                                                                          ELSE store.isOut[u]
           /\ \A q \in Txns : missed'[q] = IF q = p \/ snap[q] = None THEN {}
                                           ELSE missed[q] \cup (Changed(s, t) \cup extra)
           /\ snap' = [snap EXCEPT ![p] = None]
           /\ (Changed(s, t) \cup extra) \cap missed[p] = {}
BY DEF Apply

LEMMA ApplyFresh ==
    ASSUME TypeOK, Fresh, NEW p \in Txns, NEW s, NEW t, NEW extra, Apply(p, s, t, extra)
    PROVE  Fresh'
<1> SUFFICES ASSUME NEW q \in Txns, snap'[q] # None
             PROVE  FreshFor(q)'
  BY DEF Fresh, FreshFor
<1>1. /\ q # p
      /\ snap'[q] = snap[q] /\ snap[q] # None
      /\ missed'[q] = missed[q] \cup (Changed(s, t) \cup extra)
  <2>1. snap' = [snap EXCEPT ![p] = None] /\ snap \in [Txns -> Store \cup {None}]
    BY DEF Apply, TypeOK
  <2>2. q # p /\ snap'[q] = snap[q]
    BY <2>1
  <2>3. missed'[q] = IF q = p \/ snap[q] = None THEN {}
                     ELSE missed[q] \cup (Changed(s, t) \cup extra)
    BY DEF Apply
  <2> QED
    BY <2>2, <2>3
<1>2. FreshFor(q)
  BY DEF Fresh
<1>3. ASSUME NEW c \in Convs, ConvDoc(c) \notin missed'[q]
      PROVE  snap'[q].conv[c] = store'.conv[c]
  <2>1. s.conv[c] = t.conv[c]
    BY <1>1, <1>3 DEF Changed
  <2> QED
    BY <1>1, <1>2, <1>3, <2>1, ApplyFields DEF FreshFor
<1>4. ASSUME NEW m \in Msgs, MsgDoc(m) \notin missed'[q]
      PROVE  snap'[q].msg[m] = store'.msg[m]
  <2>1. s.msg[m] = t.msg[m]
    BY <1>1, <1>4 DEF Changed
  <2> QED
    BY <1>1, <1>2, <1>4, <2>1, ApplyFields DEF FreshFor
<1>5. ASSUME NEW u \in Users, UserDoc(u) \notin missed'[q]
      PROVE  snap'[q].isOut[u] = store'.isOut[u]
  <2>1. s.isOut[u] = t.isOut[u]
    BY <1>1, <1>5 DEF Changed
  <2> QED
    BY <1>1, <1>2, <1>5, <2>1, ApplyFields DEF FreshFor
<1> QED
  BY <1>3, <1>4, <1>5 DEF FreshFor

\* Begin and Abort.
LEMMA OpenType ==
    ASSUME TypeOK, Fresh, NEW p \in Txns, Begin(p) \/ Abort(p)
    PROVE  TypeOK' /\ Fresh'
<1>1. TypeOK'
  BY DEF TypeOK, Begin, Abort
<1>2. ASSUME NEW q \in Txns
      PROVE  FreshFor(q)'
  <2>1. CASE q = p
    BY <2>1 DEF FreshFor, Begin, Abort, TypeOK
  <2>2. CASE q # p
    <3>1. snap'[q] = snap[q] /\ missed'[q] = missed[q] /\ store' = store
      BY <2>2 DEF Begin, Abort, TypeOK
    <3> QED
      BY <3>1 DEF FreshFor, Fresh
  <2> QED
    BY <2>1, <2>2
<1> QED
  BY <1>1, <1>2 DEF Fresh

\* The worker and Unban: neither touches a conversation or a message.
LEMMA StoreKept ==
    ASSUME Fresh, UNCHANGED <<snap, missed>>,
           \A c \in Convs : store'.conv[c] = store.conv[c],
           \A m \in Msgs : store'.msg[m] = store.msg[m],
           \A u \in Users : store'.isOut[u] = store.isOut[u]
    PROVE  Fresh'
BY DEF Fresh, FreshFor

LEMMA JobFields ==
    ASSUME TypeOK, NEW w \in Workers, job[w] # None
    PROVE  job[w] \in Jobs /\ job[w].event \in Event
BY DEF TypeOK, Jobs

LEMMA NotificationsOfType ==
    ASSUME NEW e \in Event
    PROVE  NotificationsOf(e) \in SUBSET Notification
BY DEF NotificationsOf, Event, Notification

LEMMA WorkerType ==
    ASSUME TypeOK, Fresh, NEW w \in Workers, WorkerStep(w)
    PROVE  /\ TypeOK' /\ Fresh'
           /\ store'.conv = store.conv /\ store'.msg = store.msg
           /\ store'.isOut = store.isOut /\ store'.outbox \subseteq store.outbox
           /\ UNCHANGED <<snap, missed>>
<1> USE DEF TypeOK
<1>1. ASSUME NEW e \in store.outbox, ClaimNotification(w, e)
      PROVE  TypeOK' /\ UNCHANGED <<store, snap, missed>>
  <2>1. e \in Event
    BY StoreFields
  <2>2. [event |-> e, phase |-> "accounts"] \in Jobs
    BY <2>1 DEF Jobs
  <2> QED
    BY <1>1, <2>2 DEF ClaimNotification
<1>2. ASSUME NEW phase \in {"conversation", "create"}, job[w] # None, Advance(w, phase)
      PROVE  TypeOK' /\ UNCHANGED <<store, snap, missed>>
  <2>1. [job[w] EXCEPT !.phase = phase] \in Jobs
    BY <1>2, JobFields DEF Jobs
  <2>2. job' = [job EXCEPT ![w] = [job[w] EXCEPT !.phase = phase]]
    BY <1>2 DEF Advance
  <2> QED
    BY <1>2, <2>1, <2>2 DEF Advance
<1>3. CASE CreateNotification(w)
  <2>1. PICK done \in BOOLEAN :
          store' = [store EXCEPT
             !.notes = @ \cup NotificationsOf(job[w].event),
             !.outbox = IF done THEN @ \ {job[w].event} ELSE @]
    BY <1>3 DEF CreateNotification
  <2> DEFINE notes == store.notes \cup NotificationsOf(job[w].event)
             events == IF done THEN store.outbox \ {job[w].event} ELSE store.outbox
  <2>2. notes \in SUBSET Notification /\ events \in SUBSET Event
    <3>1. job[w].event \in Event
      BY <1>3, JobFields DEF CreateNotification
    <3> QED
      BY <3>1, StoreFields, NotificationsOfType
  <2>3. store' = [store EXCEPT !.notes = notes, !.outbox = events]
    BY <2>1
  <2>4. events \subseteq store.outbox
    OBVIOUS
  <2> HIDE DEF notes, events
  <2>5. store' \in Store /\ store'.conv = store.conv /\ store'.msg = store.msg
          /\ store'.isOut = store.isOut /\ store'.outbox \subseteq store.outbox
    BY <2>2, <2>3, <2>4 DEF Store
  <2> QED
    BY <1>3, <2>5, StoreKept DEF CreateNotification
<1>4. CASE SkipNotification(w)
  <2>1. PICK done \in BOOLEAN :
          store' = [store EXCEPT !.outbox = IF done THEN @ \ {job[w].event} ELSE @]
    BY <1>4 DEF SkipNotification
  <2> DEFINE events == IF done THEN store.outbox \ {job[w].event} ELSE store.outbox
  <2>2. events \in SUBSET Event
    BY StoreFields
  <2>3. store' = [store EXCEPT !.outbox = events]
    BY <2>1
  <2>4. events \subseteq store.outbox
    OBVIOUS
  <2> HIDE DEF events
  <2>5. store' \in Store /\ store'.conv = store.conv /\ store'.msg = store.msg
          /\ store'.isOut = store.isOut /\ store'.outbox \subseteq store.outbox
    BY <2>2, <2>3, <2>4 DEF Store
  <2> QED
    BY <1>4, <2>5, StoreKept DEF SkipNotification
<1>5. CASE CheckAccounts(w) \/ CheckConversation(w)
  <2>1. TypeOK' /\ UNCHANGED <<store, snap, missed>>
    BY <1>2, <1>5 DEF CheckAccounts, CheckConversation
  <2> QED
    BY <2>1, StoreKept
<1>6. CASE \E e \in store.outbox : ClaimNotification(w, e)
  <2>1. TypeOK' /\ UNCHANGED <<store, snap, missed>>
    BY <1>1, <1>6
  <2> QED
    BY <2>1, StoreKept
<1> QED
  BY <1>3, <1>4, <1>5, <1>6 DEF WorkerStep

LEMMA UnbanType ==
    ASSUME TypeOK, Fresh, NEW u \in Users, Unban(u)
    PROVE  /\ TypeOK' /\ Fresh'
           /\ store'.conv = store.conv /\ store'.msg = store.msg
           /\ store'.outbox = store.outbox /\ snap' = snap
           /\ \A v \in Users : store'.isOut[v] => store.isOut[v]
           /\ \A q \in Txns : snap[q] # None => missed[q] \subseteq missed'[q]
<1>1. store \in Store
  BY DEF TypeOK
<1>2. store' = [store EXCEPT !.isOut[u] = FALSE] /\ UNCHANGED <<snap, job>>
  BY DEF Unban
<1>3. /\ store' \in Store
      /\ store'.conv = store.conv /\ store'.msg = store.msg
      /\ store'.isOut = [store.isOut EXCEPT ![u] = FALSE]
      /\ store'.outbox = store.outbox
  BY <1>1, <1>2 DEF Store
<1>4. \A q \in Txns : missed'[q] = IF snap[q] = None THEN {}
                                   ELSE missed[q] \cup {UserDoc(u)}
  BY DEF Unban
<1>5. missed' \in [Txns -> SUBSET Docs]
  <2>1. UserDoc(u) \in Docs
    BY DEF Docs
  <2> QED
    BY <2>1 DEF Unban, TypeOK
<1>6. TypeOK'
  BY <1>2, <1>3, <1>5 DEF TypeOK
<1>7. ASSUME NEW q \in Txns PROVE FreshFor(q)'
  <2>1. \A v \in Users : v # u => store'.isOut[v] = store.isOut[v]
    BY <1>3
  <2>2. snap' = snap /\ FreshFor(q)
    BY <1>2 DEF Fresh
  <2> QED
    BY <1>3, <1>4, <2>1, <2>2 DEF FreshFor
<1>8. \A v \in Users : store'.isOut[v] => store.isOut[v]
  BY <1>1, <1>3, StoreFields
<1> QED
  BY <1>2, <1>3, <1>4, <1>6, <1>7, <1>8 DEF Fresh

-----------------------------------------------------------------------------
(* The inductive invariant, about conversations: one that transaction p has *)
(* not missed has the messages it had for p and at most the events; and who *)
(* has left it is banned only if p knows.                                   *)

SameFor(p) ==
    \A c \in Convs : ConvDoc(c) \notin missed[p] => SameConv(snap[p], store, c)

EventsFor(p) ==
    \A e \in store.outbox : ConvDoc(e.conversation) \notin missed[p] => e \in snap[p].outbox

OutFor(p) ==
    \A c \in Convs, u \in Users :
        ConvDoc(c) \notin missed[p] /\ Left(store, c, u) /\ store.isOut[u]
            => snap[p].isOut[u]

\* Who has left a conversation has left it for p, unless p missed the account.
LeftFor(p) ==
    \A c \in Convs, u \in Users :
        UserDoc(u) \notin missed[p] /\ Left(store, c, u) => Left(snap[p], c, u)

Grouped ==
    \A p \in Txns : snap[p] # None => SameFor(p) /\ EventsFor(p) /\ OutFor(p) /\ LeftFor(p)

AllSound ==
    /\ Sound(store)
    /\ \A p \in Txns : snap[p] # None => Sound(snap[p])

\* Transaction p made t of what it read, and commits.
Commits(p, t, extra) ==
    /\ snap[p] # None /\ snap[p] \in Store /\ t \in Store
    /\ Keeps(snap[p], t, extra)
    /\ Apply(p, snap[p], t, extra)

LEMMA ApplyOutbox ==
    ASSUME NEW p, NEW s, NEW t, NEW extra, Apply(p, s, t, extra)
    PROVE  /\ \A e \in store'.outbox : \/ e \in t.outbox \ s.outbox
                                       \/ e \in store.outbox /\ ~(e \in s.outbox \ t.outbox)
           /\ \A e \in store'.outbox \ store.outbox : e \in t.outbox \ s.outbox
BY DEF Apply, Merged

\* A conversation that was written is as p left it.
LEMMA WrittenConv ==
    ASSUME TypeOK, Fresh, Grouped, NEW p \in Txns, NEW t, NEW extra, Commits(p, t, extra),
           NEW c \in Convs, ConvDoc(c) \in Changed(snap[p], t) \cup extra
    PROVE  SameConv(t, store', c) /\ SameConv(snap[p], store, c)
<1> DEFINE s == snap[p]
<1>1. SameConv(s, store, c)
  BY DEF Commits, Grouped, SameFor, Apply
<1>2. /\ \A d \in Convs : store'.conv[d] = IF s.conv[d] # t.conv[d] THEN t.conv[d]
                                                                   ELSE store.conv[d]
      /\ \A m \in Msgs : store'.msg[m] = IF s.msg[m] # t.msg[m] THEN t.msg[m]
                                                               ELSE store.msg[m]
  BY ApplyFields DEF Commits
<1> HIDE DEF s
<1>3. t.conv[c] = store'.conv[c]
  BY <1>1, <1>2 DEF SameConv
<1>4. ASSUME NEW m \in MessagesOf(t, c)
      PROVE  t.msg[m] = store'.msg[m]
  <2>1. m \in Msgs
    BY DEF MessagesOf
  <2>2. CASE s.msg[m] # t.msg[m]
    BY <1>2, <2>1, <2>2
  <2>3. CASE s.msg[m] = t.msg[m]
    <3>1. m \in MessagesOf(s, c)
      BY <2>3 DEF MessagesOf, HasMsg
    <3> QED
      BY <1>1, <1>2, <2>1, <2>3, <3>1 DEF SameConv
  <2> QED
    BY <2>2, <2>3
<1>5. ASSUME NEW m \in MessagesOf(store', c)
      PROVE  t.msg[m] = store'.msg[m]
  <2>1. m \in Msgs
    BY DEF MessagesOf
  <2>2. CASE s.msg[m] # t.msg[m]
    BY <1>2, <2>1, <2>2
  <2>3. CASE s.msg[m] = t.msg[m]
    <3>1. store'.msg[m] = store.msg[m]
      BY <1>2, <2>1, <2>3
    <3>2. m \in MessagesOf(store, c)
      BY <3>1 DEF MessagesOf, HasMsg
    <3> QED
      BY <1>1, <2>3, <3>1, <3>2 DEF SameConv
  <2> QED
    BY <2>2, <2>3
<1> QED
  BY <1>1, <1>3, <1>4, <1>5 DEF SameConv, s

\* A conversation that was not written is as it was.
LEMMA KeptConv ==
    ASSUME TypeOK, Fresh, NEW p \in Txns, NEW t, NEW extra, Commits(p, t, extra),
           NEW c \in Convs, ConvDoc(c) \notin Changed(snap[p], t) \cup extra
    PROVE  SameConv(store, store', c)
<1> DEFINE s == snap[p]
<1>1. /\ \A d \in Convs : store'.conv[d] = IF s.conv[d] # t.conv[d] THEN t.conv[d]
                                                                   ELSE store.conv[d]
      /\ \A m \in Msgs : store'.msg[m] = IF s.msg[m] # t.msg[m] THEN t.msg[m]
                                                               ELSE store.msg[m]
  BY ApplyFields DEF Commits
<1>2. s.conv[c] = t.conv[c]
  BY DEF Changed
<1>3. ASSUME NEW m \in Msgs, s.msg[m] # t.msg[m]
      PROVE  s.msg[m] = store.msg[m]
  <2>1. MsgDoc(m) \in Changed(s, t)
    BY <1>3 DEF Changed
  <2> QED
    BY <2>1 DEF Commits, Apply, Fresh, FreshFor
<1>4. \A m \in Msgs : s.msg[m] # t.msg[m] =>
        /\ HasMsg(s, m) => s.msg[m].conversation # c
        /\ HasMsg(t, m) => t.msg[m].conversation # c
  BY DEF Commits, Keeps, Covers
<1> HIDE DEF s
<1>5. ASSUME NEW m \in MessagesOf(store, c) \cup MessagesOf(store', c)
      PROVE  store.msg[m] = store'.msg[m]
  <2>1. m \in Msgs
    BY <1>5 DEF MessagesOf
  <2>2. CASE s.msg[m] # t.msg[m]
    <3>1. store.msg[m] = s.msg[m] /\ store'.msg[m] = t.msg[m]
      BY <1>1, <1>3, <2>1, <2>2
    <3> QED
      BY <1>4, <1>5, <2>1, <2>2, <3>1 DEF MessagesOf, HasMsg
  <2>3. CASE s.msg[m] = t.msg[m]
    BY <1>1, <2>1, <2>3
  <2> QED
    BY <2>2, <2>3
<1> QED
  BY <1>1, <1>2, <1>5 DEF SameConv

LEMMA CommitSound ==
    ASSUME TypeOK, Fresh, Grouped, AllSound, NEW p \in Txns, NEW t, NEW extra,
           Commits(p, t, extra), store' \in Store
    PROVE  Sound(store')
<1> DEFINE s == snap[p]
           written == Changed(s, t) \cup extra
<1>1. Sound(store) /\ Sound(t)
  BY DEF AllSound, Commits, Keeps
<1>2. ASSUME NEW c \in Convs
      PROVE  Whole(store', c)
  <2>1. CASE ConvDoc(c) \in written
    BY <1>1, <2>1, WrittenConv, SameWhole DEF Sound
  <2>2. CASE ConvDoc(c) \notin written
    BY <1>1, <2>2, KeptConv, SameWhole DEF Sound
  <2> QED
    BY <2>1, <2>2
<1>3. ASSUME NEW e \in store'.outbox
      PROVE  EventWhole(store', e)
  <2>1. e \in Event /\ e.conversation \in Convs
    BY StoreFields DEF Event
  <2>2. \/ e \in t.outbox \ s.outbox
        \/ e \in store.outbox /\ ~(e \in s.outbox \ t.outbox)
    BY ApplyOutbox DEF Commits
  <2>3. CASE ConvDoc(e.conversation) \in written
    <3>1. SameConv(t, store', e.conversation)
      BY <2>1, <2>3, WrittenConv
    <3>2. e \in t.outbox
      <4>1. e \in store.outbox => e \in s.outbox
        BY <2>3 DEF Commits, Grouped, EventsFor, Apply
      <4> QED
        BY <2>2, <4>1
    <3> QED
      BY <1>1, <2>1, <3>1, <3>2, SameEvent DEF Sound
  <2>4. CASE ConvDoc(e.conversation) \notin written
    <3>1. SameConv(store, store', e.conversation)
      BY <2>1, <2>4, KeptConv
    <3>2. e \in store.outbox
      BY <2>2, <2>4 DEF Commits, Keeps, Covers
    <3> QED
      BY <1>1, <2>1, <3>1, <3>2, SameEvent DEF Sound
  <2> QED
    BY <2>3, <2>4
<1> QED
  BY <1>2, <1>3 DEF Sound

\* Nobody leaves a conversation without the account being written.
LEMMA LeftBefore ==
    ASSUME TypeOK, Fresh, Grouped, NEW p \in Txns, NEW t, NEW extra, Commits(p, t, extra),
           NEW c \in Convs, NEW u \in Users, Left(store', c, u),
           UserDoc(u) \notin Changed(snap[p], t) \cup extra
    PROVE  Left(store, c, u)
<1>1. CASE snap[p].conv[c] = t.conv[c]
  <2>1. store'.conv[c] = store.conv[c]
    BY <1>1, ApplyFields DEF Commits
  <2> QED
    BY <2>1 DEF Left, HasConv
<1>2. CASE snap[p].conv[c] # t.conv[c]
  <2>1. ConvDoc(c) \in Changed(snap[p], t)
    BY <1>2 DEF Changed
  <2>2. store'.conv[c] = t.conv[c] /\ store.conv[c] = snap[p].conv[c]
    BY <2>1, WrittenConv DEF SameConv
  <2>3. Left(t, c, u)
    BY <2>2 DEF Left, HasConv
  <2>4. Left(snap[p], c, u)
    BY <2>3 DEF Commits, Keeps, Covers
  <2> QED
    BY <2>2, <2>4 DEF Left, HasConv
<1> QED
  BY <1>1, <1>2

LEMMA CommitGrouped ==
    ASSUME TypeOK, Fresh, Grouped, NEW p \in Txns, NEW t, NEW extra,
           Commits(p, t, extra), store' \in Store
    PROVE  Grouped'
<1> DEFINE s == snap[p]
           written == Changed(s, t) \cup extra
<1> SUFFICES ASSUME NEW q \in Txns, snap'[q] # None
             PROVE  SameFor(q)' /\ EventsFor(q)' /\ OutFor(q)' /\ LeftFor(q)'
  BY DEF Grouped
<1>1. /\ q # p
      /\ snap'[q] = snap[q] /\ snap[q] # None
      /\ missed'[q] = missed[q] \cup written
  <2>1. snap' = [snap EXCEPT ![p] = None] /\ snap \in [Txns -> Store \cup {None}]
    BY DEF Commits, Apply, TypeOK
  <2>2. q # p /\ snap'[q] = snap[q]
    BY <2>1
  <2>3. missed'[q] = IF q = p \/ snap[q] = None THEN {} ELSE missed[q] \cup written
    BY DEF Commits, Apply
  <2> QED
    BY <2>2, <2>3
<1>2. SameFor(q) /\ EventsFor(q) /\ OutFor(q) /\ LeftFor(q)
  BY <1>1 DEF Grouped
<1>3. \A c \in Convs : ConvDoc(c) \notin written => SameConv(store, store', c)
  BY KeptConv
<1>4. SameFor(q)'
  BY <1>1, <1>2, <1>3, SameTransitive DEF SameFor
<1>5. EventsFor(q)'
  <2> SUFFICES ASSUME NEW e \in store'.outbox, ConvDoc(e.conversation) \notin missed'[q]
               PROVE  e \in snap[q].outbox
    BY <1>1 DEF EventsFor
  <2>1. ConvDoc(e.conversation) \notin written /\ ConvDoc(e.conversation) \notin missed[q]
    BY <1>1
  <2>2. e \in store.outbox
    BY <2>1, ApplyOutbox DEF Commits, Keeps, Covers
  <2> QED
    BY <1>2, <2>1, <2>2 DEF EventsFor
<1>6. OutFor(q)'
  <2> SUFFICES ASSUME NEW c \in Convs, NEW u \in Users, ConvDoc(c) \notin missed'[q],
                      Left(store', c, u), store'.isOut[u]
               PROVE  snap[q].isOut[u]
    BY <1>1 DEF OutFor
  <2>1. ConvDoc(c) \notin written /\ ConvDoc(c) \notin missed[q]
    BY <1>1
  <2>2. Left(store, c, u)
    BY <1>3, <2>1 DEF SameConv, Left, HasConv
  <2>3. store.isOut[u]
    <3> DEFINE before == s.isOut[u]
               after == t.isOut[u]
    <3>3. store'.isOut[u] = IF before # after THEN after ELSE store.isOut[u]
      <4>1. store'.isOut = [v \in Users |-> IF s.isOut[v] # t.isOut[v] THEN t.isOut[v]
                                                                     ELSE store.isOut[v]]
        BY DEF Commits, Apply
      <4> QED
        BY <4>1, Zenon
    <3> HIDE DEF before, after
    <3>1. CASE before = after
      <4>1. store'.isOut[u] = store.isOut[u]
        BY <3>3, <3>1
      <4> QED
        BY <4>1, Zenon
    <3>2. CASE before # after
      <4>1. t.isOut[u] /\ ~s.isOut[u]
        <5>1. store'.isOut[u] = after
          BY <3>3, <3>2
        <5>2. before \in BOOLEAN /\ after \in BOOLEAN
          BY StoreFields DEF Commits, before, after
        <5>3. after
          BY <5>1, Zenon
        <5>4. ~before
          BY <3>2, <5>2, <5>3, Zenon
        <5> QED
          BY <5>3, <5>4 DEF before, after
      <4>2. UserDoc(u) \notin missed[p]
        <5>1. UserDoc(u) \in Changed(s, t)
          BY <3>2 DEF Changed, before, after
        <5> QED
          BY <5>1 DEF Commits, Apply
      <4>3. Left(s, c, u)
        BY <2>2, <4>2 DEF Commits, Grouped, LeftFor
      <4>4. ConvDoc(c) \in written
        BY <4>1, <4>3 DEF Commits, Keeps, Covers
      <4> QED
        BY <2>1, <4>4
    <3> QED
      BY <3>1, <3>2
  <2> QED
    BY <1>2, <2>1, <2>2, <2>3 DEF OutFor
<1>7. LeftFor(q)'
  <2> SUFFICES ASSUME NEW c \in Convs, NEW u \in Users, UserDoc(u) \notin missed'[q],
                      Left(store', c, u)
               PROVE  Left(snap[q], c, u)
    BY <1>1 DEF LeftFor
  <2>1. UserDoc(u) \notin written /\ UserDoc(u) \notin missed[q]
    BY <1>1
  <2>2. Left(store, c, u)
    BY <2>1, LeftBefore
  <2> QED
    BY <1>2, <2>1, <2>2 DEF LeftFor
<1> QED
  BY <1>4, <1>5, <1>6, <1>7

LEMMA CommitAllSound ==
    ASSUME TypeOK, Fresh, Grouped, AllSound, NEW p \in Txns, NEW t, NEW extra,
           Commits(p, t, extra), store' \in Store
    PROVE  AllSound'
<1>1. Sound(store')
  BY CommitSound
<1>2. \A q \in Txns : snap'[q] # None => snap'[q] = snap[q]
  BY DEF Commits, Apply, TypeOK
<1> QED
  BY <1>1, <1>2 DEF AllSound

\* Begin and Abort.
LEMMA OpenSound ==
    ASSUME TypeOK, Grouped, AllSound, NEW p \in Txns, Begin(p) \/ Abort(p)
    PROVE  Grouped' /\ AllSound'
<1>1. store' = store
  BY DEF Begin, Abort
<1>2. ASSUME NEW q \in Txns, snap'[q] # None
      PROVE  /\ SameFor(q)' /\ EventsFor(q)' /\ OutFor(q)' /\ LeftFor(q)'
             /\ Sound(snap'[q])
  <2>1. CASE q = p
    <3>1. snap'[q] = store
      BY <1>2, <2>1 DEF Begin, Abort, TypeOK
    <3> QED
      BY <1>1, <3>1 DEF SameFor, EventsFor, OutFor, LeftFor, AllSound, SameConv
  <2>2. CASE q # p
    <3>1. snap'[q] = snap[q] /\ missed'[q] = missed[q]
      BY <2>2 DEF Begin, Abort, TypeOK
    <3>2. SameFor(q) /\ EventsFor(q) /\ OutFor(q) /\ LeftFor(q) /\ Sound(snap[q])
      BY <1>2, <3>1 DEF Grouped, AllSound
    <3> QED
      BY <1>1, <3>1, <3>2 DEF SameFor, EventsFor, OutFor, LeftFor
  <2> QED
    BY <2>1, <2>2
<1> QED
  BY <1>1, <1>2 DEF Grouped, AllSound

\* The worker and Unban: at most an event goes and an account comes back.
LEMMA QuietSound ==
    ASSUME TypeOK, Grouped, AllSound, snap' = snap,
           \A q \in Txns : snap[q] # None => missed[q] \subseteq missed'[q],
           store'.conv = store.conv, store'.msg = store.msg,
           store'.outbox \subseteq store.outbox,
           \A u \in Users : store'.isOut[u] => store.isOut[u]
    PROVE  Grouped' /\ AllSound'
<1>1. \A c : MessagesOf(store', c) = MessagesOf(store, c)
  BY DEF MessagesOf, HasMsg
<1>2. \A c \in Convs : SameConv(store, store', c)
  BY <1>1 DEF SameConv
<1>3. Sound(store')
  <2>1. \A c \in Convs : Whole(store', c)
    BY <1>2, SameWhole DEF AllSound, Sound
  <2>2. \A e \in store'.outbox : EventWhole(store', e)
    BY <1>1 DEF AllSound, Sound, EventWhole, HasConv
  <2> QED
    BY <2>1, <2>2 DEF Sound
<1>4. \A c, u : Left(store', c, u) <=> Left(store, c, u)
  BY DEF Left, HasConv
<1>5. ASSUME NEW q \in Txns, snap[q] # None
      PROVE  SameFor(q)' /\ EventsFor(q)' /\ OutFor(q)' /\ LeftFor(q)'
  <2>1. SameFor(q) /\ EventsFor(q) /\ OutFor(q) /\ LeftFor(q) /\ missed[q] \subseteq missed'[q]
    BY <1>5 DEF Grouped
  <2>2. SameFor(q)'
    BY <1>2, <2>1, SameTransitive DEF SameFor
  <2>3. EventsFor(q)'
    BY <2>1 DEF EventsFor
  <2>4. OutFor(q)'
    BY <1>4, <2>1 DEF OutFor
  <2>5. LeftFor(q)'
    BY <1>4, <2>1 DEF LeftFor
  <2> QED
    BY <2>2, <2>3, <2>4, <2>5
<1> QED
  BY <1>3, <1>5 DEF Grouped, AllSound

-----------------------------------------------------------------------------
(* The theorems.                                                           *)

IInv == TypeOK /\ Fresh /\ Grouped /\ AllSound

LEMMA InitIInv == Init => IInv
<1> SUFFICES ASSUME Init PROVE IInv
  OBVIOUS
<1>1. store \in Store
  BY DEF Init, Store
<1>2. TypeOK
  BY <1>1 DEF Init, TypeOK
<1>3. Fresh
  BY DEF Init, Fresh, FreshFor
<1>4. \A c \in Convs : MessagesOf(store, c) = {} /\ ~HasConv(store, c)
  BY DEF Init, MessagesOf, HasMsg, HasConv
<1>5. Sound(store)
  <2>1. \A c \in Convs : Whole(store, c)
    BY <1>4, FS_EmptySet DEF Whole
  <2>2. store.outbox = {}
    BY DEF Init
  <2> QED
    BY <2>1, <2>2 DEF Sound
<1>6. Grouped /\ AllSound
  BY <1>5 DEF Init, Grouped, AllSound
<1> QED
  BY <1>2, <1>3, <1>6 DEF IInv

LEMMA NextIInv == IInv /\ [Next]_vars => IInv'
<1> SUFFICES ASSUME IInv, [Next]_vars PROVE IInv'
  OBVIOUS
<1> USE DEF IInv
<1>1. ASSUME NEW p \in Txns, TransactionStep(p)
      PROVE  IInv'
  <2>1. CASE Begin(p) \/ Abort(p)
    BY <2>1, OpenType, OpenSound
  <2>2. CASE ~Begin(p) /\ ~Abort(p)
    <3>1. PICK t, extra : Writes(p, t, extra)
      BY <1>1, <2>2, TransactionWrites
    <3>2. /\ snap[p] \in Store /\ t \in Store /\ extra \in SUBSET Docs
          /\ Apply(p, snap[p], t, extra) /\ UNCHANGED job
      BY <3>1 DEF Writes, Commit
    <3>3. TypeOK'
      BY <3>2, ApplyType DEF TypeOK
    <3>4. Fresh'
      BY <3>2, ApplyFresh
    <3>5. Commits(p, t, extra)
      BY <3>1 DEF Writes, Commit, Commits, AllSound
    <3>6. store' \in Store
      BY <3>3 DEF TypeOK
    <3> QED
      BY <3>3, <3>4, <3>5, <3>6, CommitGrouped, CommitAllSound
  <2> QED
    BY <2>1, <2>2
<1>2. ASSUME NEW w \in Workers, WorkerStep(w)
      PROVE  IInv'
  <2>1. /\ TypeOK' /\ Fresh' /\ UNCHANGED <<snap, missed>>
        /\ store'.conv = store.conv /\ store'.msg = store.msg
        /\ store'.isOut = store.isOut /\ store'.outbox \subseteq store.outbox
    BY <1>2, WorkerType
  <2> QED
    BY <2>1, QuietSound
<1>3. ASSUME NEW u \in Users, Unban(u)
      PROVE  IInv'
  <2>1. /\ TypeOK' /\ Fresh' /\ snap' = snap
        /\ store'.conv = store.conv /\ store'.msg = store.msg
        /\ store'.outbox = store.outbox
        /\ \A v \in Users : store'.isOut[v] => store.isOut[v]
        /\ \A q \in Txns : snap[q] # None => missed[q] \subseteq missed'[q]
    BY <1>3, UnbanType
  <2> QED
    BY <2>1, QuietSound
<1>4. CASE UNCHANGED vars
  <2>1. UNCHANGED <<store, snap, missed, job>>
    BY <1>4 DEF vars
  <2>2. Grouped' /\ AllSound'
    BY <2>1, QuietSound
  <2>3. TypeOK' /\ Fresh'
    BY <2>1 DEF TypeOK, Fresh, FreshFor
  <2> QED
    BY <2>2, <2>3
<1> QED
  BY <1>1, <1>2, <1>3, <1>4 DEF Next

LEMMA Invariance == Spec => []IInv
<1>1. Init => IInv
  BY InitIInv
<1>2. IInv /\ [Next]_vars => IInv'
  BY NextIInv
<1> QED
  BY <1>1, <1>2, PTL DEF Spec

\* The store, the transactions in progress and the jobs of the workers keep
\* their types: no command leaves a document half written.
THEOREM TypeCorrect == Spec => []TypeOK
<1>1. IInv => TypeOK
  BY DEF IInv
<1> QED
  BY <1>1, Invariance, PTL

\* A transaction that commits saw the documents it writes or locks as they are:
\* the snapshot is stale at most in what the transaction missed.
THEOREM SnapshotsAreFresh == Spec => []Fresh
<1>1. IInv => Fresh
  BY DEF IInv
<1> QED
  BY <1>1, Invariance, PTL

\* A legal transaction that commits does what it may in the store as it is now.
LEMMA LegalIsAllowed ==
    ASSUME NEW p \in Txns, FreshFor(p), NEW t, NEW extra, snap[p] # None,
           Legal(snap[p], t, extra), Apply(p, snap[p], t, extra),
           NEW m \in Msgs, HasMsg(store', m), t \in Store
    PROVE  WriteIsAllowed(m)
<1> DEFINE s == snap[p]
           c == t.msg[m].conversation
<1>1. CASE s.msg[m] = t.msg[m]
  <2>1. store'.msg[m] = store.msg[m]
    BY <1>1, ApplyFields
  <2> QED
    BY <2>1 DEF WriteIsAllowed, HasMsg
<1>2. CASE s.msg[m] # t.msg[m]
  <2>1. store'.msg[m] = t.msg[m]
    BY <1>2, ApplyFields
  <2>2. MsgDoc(m) \in Changed(s, t)
    BY <1>2 DEF Changed
  <2>3. store.msg[m] = s.msg[m]
    BY <2>2 DEF FreshFor, Apply
  <2>4. HasMsg(t, m) /\ c \in Convs
    <3>1. HasMsg(t, m)
      BY <2>1 DEF HasMsg
    <3> QED
      BY <3>1, HasMsgType DEF Message
  <2>5. ConvDoc(c) \in Changed(s, t) \cup extra => store.conv[c] = s.conv[c]
    BY <2>4 DEF FreshFor, Apply
  <2>6. /\ s.msg[m] = Unborn
             => /\ ConvDoc(c) \in Changed(s, t) \cup extra
                /\ HasConv(s, c) => ~s.conv[c].isLocked /\ ~s.conv[c].isClosed
        /\ HasMsg(s, m) /\ s.msg[m].isOriginal # t.msg[m].isOriginal
             => /\ ConvDoc(c) \in extra
                /\ s.msg[m].conversation = c
                /\ ~s.conv[c].isLocked
                /\ t.msg[m].sender \in s.conv[c].participants
                /\ IsVisible(s, t.msg[m].sender, m)
    BY <2>4 DEF Legal
  <2> QED
    BY <2>1, <2>3, <2>5, <2>6 DEF WriteIsAllowed, HasMsg, HasConv, IsVisible
<1> QED
  BY <1>1, <1>2

LEMMA StepIsAllowed ==
    ASSUME IInv, Next, NEW m \in Msgs, HasMsg(store', m)
    PROVE  WriteIsAllowed(m)
<1> USE DEF IInv
<1>1. CASE store'.msg = store.msg
  BY <1>1 DEF WriteIsAllowed, HasMsg
<1>2. ASSUME NEW p \in Txns, TransactionStep(p)
      PROVE  WriteIsAllowed(m)
  <2>1. CASE Begin(p) \/ Abort(p)
    BY <1>1, <2>1 DEF Begin, Abort
  <2>2. CASE ~Begin(p) /\ ~Abort(p)
    <3>1. PICK t, extra : Writes(p, t, extra)
      BY <1>2, <2>2, TransactionWrites
    <3>2. /\ snap[p] # None /\ t \in Store
          /\ Legal(snap[p], t, extra) /\ Apply(p, snap[p], t, extra)
      BY <3>1 DEF Writes, Commit
    <3> QED
      BY <3>2, LegalIsAllowed DEF Fresh
  <2> QED
    BY <2>1, <2>2
<1>3. ASSUME NEW w \in Workers, WorkerStep(w)
      PROVE  WriteIsAllowed(m)
  BY <1>1, <1>3, WorkerType
<1>4. ASSUME NEW u \in Users, Unban(u)
      PROVE  WriteIsAllowed(m)
  BY <1>1, <1>4, UnbanType
<1> QED
  BY <1>2, <1>3, <1>4 DEF Next

\* No message is sent to a conversation that is locked or closed by the time of
\* the commit, and no body is edited there: acquireForMutation makes the check
\* a handler did earlier still true.
THEOREM SentAndEditedInTime == Spec => WritesAreAllowed
<1>1. IInv /\ [Next]_vars =>
        [\A m \in Msgs : HasMsg(store', m) => WriteIsAllowed(m)]_vars
  BY StepIsAllowed
<1> QED
  BY <1>1, Invariance, PTL DEF Spec, WritesAreAllowed

-----------------------------------------------------------------------------
(* What the invariant says of the store.                                   *)

LEMMA StoreIsSound == IInv => Sound(store)
BY DEF IInv, AllSound

\* A purge leaves no message of the conversation and no event about it, and none
\* comes back from a send, an edit or a handler that was running: each of them
\* writes the conversation, so it was not purged since they read it.
THEOREM PurgedForGood == Spec => []PurgeLeavesNothing
<1>1. ASSUME IInv
      PROVE  PurgeLeavesNothing
  <2>1. Sound(store) /\ store \in Store
    BY <1>1, StoreIsSound DEF IInv, TypeOK
  <2>2. ASSUME NEW m \in Msgs, HasMsg(store, m)
        PROVE  HasConv(store, store.msg[m].conversation)
    <3>1. store.msg[m].conversation \in Convs
      BY <2>1, <2>2, HasMsgType DEF Message
    <3>2. m \in MessagesOf(store, store.msg[m].conversation)
      BY <2>2 DEF MessagesOf
    <3> QED
      BY <2>1, <3>1, <3>2 DEF Sound, Whole
  <2> QED
    BY <2>1, <2>2 DEF PurgeLeavesNothing, Sound, EventWhole
<1> QED
  BY <1>1, Invariance, PTL

\* The unread badge that $inc and $set keep is the number of messages an open of
\* the conversation would mark as read, whatever ran at the same time.
THEOREM BadgeIsExact == Spec => []UnreadIsCounted
<1>1. IInv => UnreadIsCounted
  BY StoreIsSound DEF UnreadIsCounted, Sound, Whole, Counted
<1> QED
  BY <1>1, Invariance, PTL

LEMMA DifferentTimes ==
    ASSUME NEW S, IsFiniteSet(S), NEW f \in [S -> Nat],
           \A m, n \in S : m # n => f[m] # f[n]
    PROVE  Cardinality({f[m] : m \in S}) = Cardinality(S)
<1> DEFINE T == {f[m] : m \in S}
<1>1. f \in [S -> T]
  OBVIOUS
<1>2. f \in Bijection(S, T)
  BY <1>1 DEF Bijection, Injection, IsInjective, Surjection
<1>3. ExistsBijection(S, T)
  BY <1>2 DEF ExistsBijection
<1> QED
  BY <1>3, FS_Bijection

\* No two messages of a conversation have the same time, and lastMessage is the
\* newest: a clock that is behind, or two senders at once, cannot break the order
\* that pages and cursors rely on.
THEOREM OrderIsTotal == Spec => []NewestIsLast
<1>1. ASSUME IInv
      PROVE  NewestIsLast
  <2> SUFFICES ASSUME NEW c \in Convs, HasConv(store, c)
               PROVE  LET times == {store.msg[m].createdAt : m \in MessagesOf(store, c)}
                          conv == store.conv[c] IN
                      /\ Cardinality(times) = Cardinality(MessagesOf(store, c))
                      /\ \A t \in times : t <= conv.lastMessageAt
                      /\ times # {} =>
                           /\ conv.lastMessage \in MessagesOf(store, c)
                           /\ store.msg[conv.lastMessage].createdAt = conv.lastMessageAt
    BY DEF NewestIsLast
  <2> DEFINE mine == MessagesOf(store, c)
             f == [m \in mine |-> store.msg[m].createdAt]
             times == {store.msg[m].createdAt : m \in mine}
  <2>1. IsFiniteSet(mine) /\ Ordered(store, c)
    BY <1>1, StoreIsSound DEF Sound, Whole
  <2>2. \A m \in mine : store.msg[m].createdAt \in Nat
    BY <1>1, MineFields DEF IInv, TypeOK, Message
  <2>3. f \in [mine -> Nat]
    BY <2>2
  <2>4. \A m, n \in mine : m # n => f[m] # f[n]
    BY <2>1 DEF Ordered
  <2>5. Cardinality({f[m] : m \in mine}) = Cardinality(mine)
    <3> HIDE DEF f, mine
    <3> QED BY <2>1, <2>3, <2>4, DifferentTimes
  <2>6. {f[m] : m \in mine} = times
    OBVIOUS
  <2>7. /\ \A t \in times : t <= store.conv[c].lastMessageAt
        /\ times # {} =>
             /\ store.conv[c].lastMessage \in mine
             /\ store.msg[store.conv[c].lastMessage].createdAt = store.conv[c].lastMessageAt
    BY <2>1 DEF Ordered
  <2> QED
    BY <2>5, <2>6, <2>7
<1> QED
  BY <1>1, Invariance, PTL

\* A conversation that a user has deleted from the list holds no message this
\* user could see: a message that arrives brings it back.
THEOREM HiddenIsEmpty == Spec => []HiddenHasNothingNew
<1>1. ASSUME IInv
      PROVE  HiddenHasNothingNew
  <2> SUFFICES ASSUME NEW c \in Convs, HasConv(store, c),
                      NEW u \in store.conv[c].hiddenFor, NEW m \in MessagesOf(store, c)
               PROVE  ~IsVisible(store, u, m)
    BY DEF HiddenHasNothingNew
  <2>1. store \in Store /\ Ordered(store, c) /\ InView(store, c)
    BY <1>1, StoreIsSound DEF IInv, TypeOK, Sound, Whole
  <2>2. store.conv[c] \in Conversation
    BY <2>1, HasConvType
  <2>3. u \in Users /\ store.conv[c].lastMessageAt \in Nat
    BY <2>2 DEF Conversation
  <2>4. store.msg[m].createdAt \in Nat /\ store.msg[m].conversation = c
    BY <2>1, MineFields DEF Message
  <2>5. /\ store.conv[c].clearedAt[u] = store.conv[c].lastMessageAt
        /\ store.msg[m].createdAt <= store.conv[c].lastMessageAt
    BY <2>1, <2>3 DEF InView, Ordered
  <2> QED
    BY <2>3, <2>4, <2>5 DEF IsVisible
<1> QED
  BY <1>1, Invariance, PTL

\* What the handler saw of a conversation it locked is still so.
LEMMA RequestStaysCurrent ==
    ASSUME IInv, NEW p \in Txns, NEW t, NEW extra, Commits(p, t, extra),
           NEW e \in store'.outbox \ store.outbox, e.type = "notify"
    PROVE  RequestIsCurrent(e)
<1> DEFINE s == snap[p]
           c == e.conversation
<1>1. e \in t.outbox \ s.outbox
  BY ApplyOutbox DEF Commits
<1>2. e \in Event /\ c \in Convs
  BY <1>1, StoreFields DEF Commits, Event
<1>3. ConvDoc(c) \in Changed(s, t) \cup extra /\ Current(s, e)
  BY <1>1 DEF Commits, Keeps, Covers
<1>4. SameConv(s, store, c)
  BY <1>2, <1>3, WrittenConv DEF IInv
<1>5. ConvDoc(c) \notin missed[p]
  BY <1>3 DEF Commits, Apply
<1>6. \A u \in Users : Left(store, c, u) /\ store.isOut[u] => s.isOut[u]
  BY <1>2, <1>5 DEF IInv, Grouped, OutFor, Commits
<1>7. /\ e.message \in MessagesOf(s, c)
      /\ \A v \in e.to : /\ ~s.isOut[v] /\ v \notin s.conv[c].hiddenFor
                         /\ IsVisible(s, v, e.message)
      /\ ~s.isOut[e.from]
  BY <1>3 DEF Current
<1>8. /\ s.conv[c] = store.conv[c] /\ s.msg[e.message] = store.msg[e.message]
      /\ s.msg[e.message].conversation = c
  BY <1>4, <1>7 DEF SameConv, MessagesOf
<1>9. \A v \in e.to : v \notin store.conv[c].hiddenFor /\ IsVisible(store, v, e.message)
  BY <1>7, <1>8 DEF IsVisible
<1>10. HasConv(store, c)
  <2>1. e.message \in MessagesOf(store, c)
    BY <1>2, <1>4, <1>7, SameMessages
  <2> QED
    BY <1>2, <2>1, StoreIsSound DEF Sound, Whole
<1>11. ASSUME NEW u \in store.conv[c].departed \cap (e.to \cup {e.from})
       PROVE  ~store.isOut[u]
  <2>1. u \in Users /\ ~s.isOut[u]
    BY <1>2, <1>7 DEF Event
  <2>2. Left(store, c, u)
    BY <1>10 DEF Left
  <2> QED
    BY <1>6, <2>1, <2>2
<1> QED
  BY <1>9, <1>11 DEF RequestIsCurrent

\* A notification is asked for only of a receiver for whom the message is in view
\* when the handler commits, and never for an account that is banned or deleted
\* and has been taken out of the conversation.
THEOREM RequestedInTime == Spec => RequestsAreCurrent
<1>1. ASSUME IInv, [Next]_vars, NEW e \in store'.outbox \ store.outbox, e.type = "notify"
      PROVE  RequestIsCurrent(e)
  <2>1. ASSUME NEW p \in Txns, TransactionStep(p)
        PROVE  RequestIsCurrent(e)
    <3>1. ~Begin(p) /\ ~Abort(p)
      BY <1>1 DEF Begin, Abort
    <3>2. PICK t, extra : Writes(p, t, extra)
      BY <1>1, <2>1, <3>1, TransactionWrites DEF IInv
    <3>3. Commits(p, t, extra)
      BY <1>1, <3>2 DEF Writes, Commit, Commits, IInv, AllSound
    <3> QED
      BY <1>1, <3>3, RequestStaysCurrent
  <2>2. ASSUME NEW w \in Workers, WorkerStep(w)
        PROVE  FALSE
    BY <1>1, <2>2, WorkerType DEF IInv
  <2>3. ASSUME NEW u \in Users, Unban(u)
        PROVE  FALSE
    BY <1>1, <2>3, UnbanType DEF IInv
  <2>4. CASE UNCHANGED vars
    BY <1>1, <2>4 DEF vars
  <2> QED
    BY <1>1, <2>1, <2>2, <2>3, <2>4 DEF Next
<1>2. IInv /\ [Next]_vars =>
        [\A e \in store'.outbox \ store.outbox :
           e.type = "notify" => RequestIsCurrent(e)]_vars
  BY <1>1
<1> QED
  BY <1>2, Invariance, PTL DEF Spec, RequestsAreCurrent
=============================================================================
