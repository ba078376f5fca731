------------------------ MODULE TrendingWorkerProofs ------------------------
(***************************************************************************)
(* Proofs of the safety properties of TrendingWorker, for every number of  *)
(* workers, posts and messages, every chunk size and every bound.          *)
(***************************************************************************)
EXTENDS TrendingWorker, TLAPS

LEMMA Bounds == MaxVersion \in Nat /\ MaxFaults \in Nat /\ MaxLosses \in Nat
BY BoundsAssumption

Ids == [Posts -> SUBSET Messages]
Score == [Posts -> Versions]
-----------------------------------------------------------------------------
(***************************************************************************)
(* What the operators of the model return.                                 *)
(***************************************************************************)

LEMMA EmptyTypes == Nothing \in Ids /\ NoRefresh \in Score /\ NoFlush \in Flush
BY Bounds DEF Nothing, NoRefresh, NoFlush, Flush, Versions, Ids, Score

LEMMA MergedType ==
    ASSUME NEW a \in Ids, NEW b \in Ids
    PROVE  Merged(a, b) \in Ids
BY DEF Merged, Ids

LEMMA ByPostType ==
    ASSUME NEW ms \in SUBSET Messages
    PROVE  ByPost(ms) \in Ids
BY DEF ByPost, Ids

LEMMA PutType ==
    ASSUME msg \in [Messages -> Message], NEW ms, NEW place \in {"unsent", "stream", "delivered", "acked"},
           Put(ms, place)
    PROVE  /\ msg' \in [Messages -> Message]
           /\ \A m \in Messages : /\ msg'[m].post = msg[m].post /\ msg'[m].ver = msg[m].ver
                                  /\ m \in ms => msg'[m].at = place
                                  /\ m \notin ms => msg'[m].at = msg[m].at
BY DEF Put, Message

LEMMA ContinuedFacts ==
    ASSUME NEW f \in Flush
    PROVE  /\ Continued(f) \in Flush
           /\ Continued(f).pc \in {"idle", "reading"}
           /\ \A p \in Posts : Continued(f).todo[p] = IF p \in f.chunk THEN {} ELSE f.todo[p]
<1> DEFINE todo == [p \in Posts |-> IF p \in f.chunk THEN {} ELSE f.todo[p]]
           g == [NoFlush EXCEPT !.pc = "reading", !.todo = todo]
<1>1. todo \in Ids
  BY DEF Flush, Ids
<1>2. g \in Flush /\ g.pc = "reading" /\ g.todo = todo
  BY <1>1, EmptyTypes DEF Flush, Ids
<1>3. CASE Left(todo) = {}
  <2>1. Continued(f) = NoFlush
    BY <1>3 DEF Continued
  <2>2. \A p \in Posts : todo[p] = {} /\ NoFlush.todo[p] = {}
    BY <1>3 DEF Left, NoFlush, Nothing
  <2>3. NoFlush.pc = "idle"
    BY DEF NoFlush
  <2> QED BY <2>1, <2>2, <2>3, EmptyTypes
<1>4. CASE Left(todo) # {}
  <2>1. Continued(f) = g
    BY <1>4 DEF Continued
  <2> QED BY <2>1, <1>2
<1> QED BY <1>3, <1>4

LEMMA RequeuedFacts ==
    ASSUME TypeOK, NEW w \in Workers, NEW f \in Flush
    PROVE  /\ Requeued(w, f) \in Ids
           /\ \A p \in Posts : Requeued(w, f)[p] =
                 pending[w][p] \cup (IF p \in f.chunk THEN f.todo[p] ELSE {})
<1> DEFINE b == [p \in Posts |-> IF p \in f.chunk THEN f.todo[p] ELSE {}]
<1>1. b \in Ids /\ pending[w] \in Ids
  BY DEF Flush, Ids, TypeOK
<1> QED BY <1>1, MergedType DEF Requeued, Merged

LEMMA WriteFacts ==
    ASSUME TypeOK, NEW ps \in SUBSET Posts, NEW read \in Score, Write(ps, read)
    PROVE  /\ score' \in Score /\ best' \in Score
           /\ \A p \in Posts : /\ best'[p] >= best[p]
                               /\ p \in ps => best'[p] >= read[p]
<1>1. \A p \in Posts : read[p] \in Int /\ best[p] \in Int /\ best[p] >= 0
  BY Bounds DEF TypeOK, Score, Versions
<1>2. score' \in Score /\ best' \in Score
  BY DEF Write, TypeOK, Score
<1>3. ASSUME NEW p \in Posts
      PROVE  best'[p] = IF p \in ps /\ read[p] # 0 /\ read[p] > best[p] THEN read[p] ELSE best[p]
  BY DEF Write
<1> QED BY <1>1, <1>2, <1>3
-----------------------------------------------------------------------------
(***************************************************************************)
(* The invariant.                                                          *)
(***************************************************************************)

\* MongoDB is ahead of every message that was pushed.
Seen == \A m \in Messages : msg[m].at # "unsent" =>
            db[msg[m].post] = 0 \/ db[msg[m].post] >= msg[m].ver

\* A worker holds messages under their own post, and only delivered ones.
Held(w) == \A p \in Posts : \A m \in pending[w][p] \cup flush[w].todo[p] :
               msg[m].post = p /\ msg[m].at \in {"delivered", "acked"}

\* What a flush has read, and then written, covers the messages it is going
\* to acknowledge.
Covered(w) == \A p \in flush[w].chunk : \A m \in flush[w].todo[p] :
    /\ flush[w].pc = "writing" => db[p] = 0 \/ flush[w].read[p] >= msg[m].ver
    /\ flush[w].pc = "acking" => db[p] = 0 \/ best[p] >= msg[m].ver

Inv == TypeOK /\ Seen /\ AckedWasScored /\ \A w \in Workers : Held(w) /\ Covered(w)

\* No step lets a post grow younger, a score forget, or a message change.
Steady ==
    /\ \A p \in Posts : /\ db[p] = 0 => db'[p] = 0
                        /\ db'[p] = 0 \/ db'[p] >= db[p]
                        /\ best'[p] >= best[p]
    /\ \A m \in Messages : msg[m].at # "unsent" =>
          msg'[m].post = msg[m].post /\ msg'[m].ver = msg[m].ver
    /\ \A m \in Messages : msg[m].at \in {"delivered", "acked"} =>
          msg'[m].at \in {"delivered", "acked"}

LEMMA Numbers ==
    ASSUME TypeOK
    PROVE  /\ \A p \in Posts : db[p] \in Int /\ best[p] \in Int
           /\ \A m \in Messages : msg[m].ver \in Int /\ msg[m].post \in Posts
           /\ \A w \in Workers : \A p \in Posts : flush[w].read[p] \in Int
           /\ \A w \in Workers : \A p \in Posts : pending[w][p] \in SUBSET Messages
           /\ \A w \in Workers : \A p \in Posts : flush[w].todo[p] \in SUBSET Messages
           /\ \A w \in Workers : flush[w].chunk \subseteq Posts
BY Bounds DEF TypeOK, Message, Flush, Versions

LEMMA SeenStep ==
    ASSUME Inv, TypeOK', Steady,
           \A m \in Messages : msg[m].at = "unsent" /\ msg'[m].at # "unsent"
               => msg'[m].ver = db'[msg'[m].post]
    PROVE  Seen'
<1> SUFFICES ASSUME NEW m \in Messages, msg'[m].at # "unsent"
             PROVE  db'[msg'[m].post] = 0 \/ db'[msg'[m].post] >= msg'[m].ver
  BY DEF Seen
<1>1. TypeOK /\ msg[m].post \in Posts /\ msg[m].ver \in Int /\ db[msg[m].post] \in Int
  BY Numbers DEF Inv
<1>2. msg'[m].post \in Posts /\ msg'[m].ver \in Int /\ db'[msg'[m].post] \in Int
  BY Bounds DEF TypeOK, Message, Versions
<1>3. CASE msg[m].at = "unsent"
  BY <1>2, <1>3
<1>4. CASE msg[m].at # "unsent"
  <2>1. msg'[m].post = msg[m].post /\ msg'[m].ver = msg[m].ver
    BY <1>4 DEF Steady
  <2>2. db[msg[m].post] = 0 \/ db[msg[m].post] >= msg[m].ver
    BY <1>4 DEF Inv, Seen
  <2>3. /\ db[msg[m].post] = 0 => db'[msg[m].post] = 0
        /\ db'[msg[m].post] = 0 \/ db'[msg[m].post] >= db[msg[m].post]
    BY <1>1 DEF Steady
  <2> QED BY <1>1, <1>2, <2>1, <2>2, <2>3
<1> QED BY <1>3, <1>4

LEMMA AckedStep ==
    ASSUME Inv, TypeOK', Steady,
           \A m \in Messages : msg'[m].at = "acked" /\ msg[m].at # "acked" =>
               /\ msg[m].at # "unsent"
               /\ db[msg[m].post] = 0 \/ best[msg[m].post] >= msg[m].ver
    PROVE  AckedWasScored'
<1> SUFFICES ASSUME NEW m \in Messages, msg'[m].at = "acked"
             PROVE  db'[msg'[m].post] = 0 \/ best'[msg'[m].post] >= msg'[m].ver
  BY DEF AckedWasScored, At
<1>1. msg[m].at # "unsent" /\ (db[msg[m].post] = 0 \/ best[msg[m].post] >= msg[m].ver)
  BY DEF Inv, AckedWasScored, At
<1>2. msg[m].post \in Posts /\ msg[m].ver \in Int /\ best[msg[m].post] \in Int
  BY Numbers DEF Inv
<1>3. best'[msg[m].post] \in Int
  BY <1>2, Bounds DEF TypeOK, Versions
<1>4. msg'[m].post = msg[m].post /\ msg'[m].ver = msg[m].ver
  BY <1>1 DEF Steady
<1>5. (db[msg[m].post] = 0 => db'[msg[m].post] = 0) /\ best'[msg[m].post] >= best[msg[m].post]
  BY <1>2 DEF Steady
<1> QED BY <1>1, <1>2, <1>3, <1>4, <1>5

\* A worker that does not move in a steady step keeps what it holds.
LEMMA Unmoved ==
    ASSUME Inv, TypeOK', Steady, NEW w \in Workers,
           pending'[w] = pending[w], flush'[w] = flush[w]
    PROVE  Held(w)' /\ Covered(w)'
<1>1. ASSUME NEW p \in Posts, NEW m \in pending[w][p] \cup flush[w].todo[p]
      PROVE  msg'[m].post = p /\ msg'[m].at \in {"delivered", "acked"} /\ msg'[m].ver = msg[m].ver
  <2>1. m \in Messages
    BY Numbers DEF Inv
  <2>2. msg[m].post = p /\ msg[m].at \in {"delivered", "acked"}
    BY DEF Inv, Held
  <2> QED BY <2>1, <2>2 DEF Steady
<1>2. Held(w)'
  BY <1>1 DEF Held
<1>3. ASSUME NEW p \in flush[w].chunk, NEW m \in flush[w].todo[p]
      PROVE  /\ flush[w].pc = "writing" => db'[p] = 0 \/ flush[w].read[p] >= msg'[m].ver
             /\ flush[w].pc = "acking" => db'[p] = 0 \/ best'[p] >= msg'[m].ver
  <2>1. p \in Posts /\ m \in Messages /\ msg[m].ver \in Int /\ best[p] \in Int
    BY Numbers DEF Inv
  <2>2. msg'[m].ver = msg[m].ver
    BY <1>1, <2>1
  <2>3. best'[p] \in Int
    BY <2>1, Bounds DEF TypeOK, Versions
  <2>4. (db[p] = 0 => db'[p] = 0) /\ best'[p] >= best[p]
    BY <2>1 DEF Steady
  <2>5. /\ flush[w].pc = "writing" => db[p] = 0 \/ flush[w].read[p] >= msg[m].ver
        /\ flush[w].pc = "acking" => db[p] = 0 \/ best[p] >= msg[m].ver
    BY DEF Inv, Covered
  <2> QED BY <2>1, <2>2, <2>3, <2>4, <2>5
<1>4. Covered(w)'
  BY <1>3 DEF Covered
<1> QED BY <1>2, <1>4

LEMMA Kept ==
    ASSUME Inv, TypeOK', Steady, NEW w \in Workers,
           \A m \in Messages : msg[m].at = "unsent" /\ msg'[m].at # "unsent"
               => msg'[m].ver = db'[msg'[m].post],
           \A m \in Messages : msg'[m].at = "acked" /\ msg[m].at # "acked" =>
               /\ msg[m].at # "unsent"
               /\ db[msg[m].post] = 0 \/ best[msg[m].post] >= msg[m].ver,
           \A u \in Workers : u # w => pending'[u] = pending[u] /\ flush'[u] = flush[u],
           Held(w)', Covered(w)'
    PROVE  Inv'
<1>1. Seen'
  BY SeenStep
<1>2. AckedWasScored'
  BY AckedStep
<1>3. ASSUME NEW u \in Workers, u # w
      PROVE  Held(u)' /\ Covered(u)'
  BY <1>3, Unmoved
<1> QED BY <1>1, <1>2, <1>3 DEF Inv

\* A step that leaves posts, messages, scores, pending ids and flushes alone.
LEMMA Aside ==
    ASSUME Inv, TypeOK', UNCHANGED <<db, msg, best, pending, flush>>
    PROVE  Inv'
<1>1. Seen' /\ AckedWasScored'
  BY DEF Inv, Seen, AckedWasScored, At
<1>2. ASSUME NEW w \in Workers
      PROVE  Held(w)' /\ Covered(w)'
  BY DEF Inv, Held, Covered
<1> QED BY <1>1, <1>2 DEF Inv
-----------------------------------------------------------------------------
(***************************************************************************)
(* The steps, one group at a time.                                         *)
(***************************************************************************)

LEMMA PostStep ==
    ASSUME Inv, NEW p \in Posts, Interact(p) \/ DeletePost(p)
    PROVE  Inv'
<1>1. UNCHANGED <<msg, idle, score, best, status, pending, flush, claims, refresh, faults, losses>>
  BY DEF Interact, DeletePost
<1>2. db \in [Posts -> Versions] /\ MaxVersion \in Nat
  BY Bounds DEF Inv, TypeOK
<1>3. db' \in [Posts -> Versions] /\ \A q \in Posts :
         (db[q] = 0 => db'[q] = 0) /\ (db'[q] = 0 \/ db'[q] >= db[q])
  <2>1. CASE Interact(p)
    BY <1>2, <2>1 DEF Interact, Versions
  <2>2. CASE DeletePost(p)
    BY <1>2, <2>2 DEF DeletePost, Versions
  <2> QED BY <2>1, <2>2
<1>4. TypeOK'
  BY <1>1, <1>3 DEF Inv, TypeOK
<1>5. \A q \in Posts : best'[q] >= best[q]
  BY <1>1, Numbers DEF Inv
<1>6. Steady
  BY <1>1, <1>3, <1>5 DEF Steady
<1>7. Seen'
  BY <1>1, <1>4, <1>6, SeenStep
<1>8. AckedWasScored'
  BY <1>1, <1>4, <1>6, AckedStep
<1>9. ASSUME NEW w \in Workers
      PROVE  Held(w)' /\ Covered(w)'
  BY <1>1, <1>4, <1>6, Unmoved
<1> QED BY <1>4, <1>7, <1>8, <1>9 DEF Inv

LEMMA PushStep ==
    ASSUME Inv, NEW m \in Messages, Push(m)
    PROVE  Inv'
<1> PICK p \in Posts : msg' = [msg EXCEPT ![m] = [at |-> "stream", post |-> p, ver |-> db[p]]]
  BY DEF Push
<1>1. /\ msg[m].at = "unsent"
      /\ UNCHANGED <<db, idle, score, best, status, pending, flush, claims, refresh, faults, losses>>
  BY DEF Push
<1>2. msg' \in [Messages -> Message] /\ msg'[m] = [at |-> "stream", post |-> p, ver |-> db[p]]
      /\ \A n \in Messages : n # m => msg'[n] = msg[n]
  BY DEF Inv, TypeOK, Message
<1>3. TypeOK'
  BY <1>1, <1>2 DEF Inv, TypeOK
<1>4. \A q \in Posts : db'[q] >= db[q] /\ best'[q] >= best[q]
  BY <1>1, Numbers DEF Inv
<1>5. Steady
  BY <1>1, <1>2, <1>4 DEF Steady
<1>6. msg'[m].at = "stream" /\ msg'[m].ver = db'[msg'[m].post]
  BY <1>1, <1>2
<1>7. Seen'
  BY <1>1, <1>2, <1>3, <1>5, <1>6, SeenStep
<1>8. AckedWasScored'
  BY <1>2, <1>3, <1>5, <1>6, AckedStep
<1>9. ASSUME NEW w \in Workers
      PROVE  Held(w)' /\ Covered(w)'
  BY <1>1, <1>3, <1>5, Unmoved
<1> QED BY <1>3, <1>7, <1>8, <1>9 DEF Inv

LEMMA GetsIdleStep ==
    ASSUME Inv, NEW m \in Messages, GetsIdle(m)
    PROVE  Inv'
<1>1. TypeOK'
  BY DEF Inv, TypeOK, GetsIdle
<1> QED BY <1>1, Aside DEF GetsIdle

LEMMA AsideStep ==
    ASSUME Inv, NEW w \in Workers,
           FindStalled(w) \/ ClaimFails(w) \/ StartRefresh(w) \/ Start(w) \/ Stop(w)
    PROVE  Inv'
<1> USE DEF Inv
<1>1. CASE FindStalled(w)
  <2>1. TypeOK'
    BY <1>1 DEF TypeOK, FindStalled
  <2> QED BY <1>1, <2>1, Aside DEF FindStalled
<1>2. CASE ClaimFails(w)
  <2>1. faults' \in 0 .. MaxFaults /\ UNCHANGED losses
    BY <1>2, Bounds DEF TypeOK, ClaimFails, Fault
  <2>2. idle' \subseteq Messages /\ claims' \in [Workers -> SUBSET Messages]
    BY <1>2 DEF TypeOK, ClaimFails, Claimed, At
  <2>3. TypeOK'
    BY <1>2, <2>1, <2>2 DEF TypeOK, ClaimFails
  <2> QED BY <1>2, <2>3, Aside DEF ClaimFails
<1>3. CASE StartRefresh(w)
  <2>1. TypeOK'
    BY <1>3 DEF TypeOK, StartRefresh
  <2> QED BY <1>3, <2>1, Aside DEF StartRefresh
<1>4. CASE Start(w)
  <2>1. TypeOK'
    BY <1>4 DEF TypeOK, Start
  <2> QED BY <1>4, <2>1, Aside DEF Start
<1>5. CASE Stop(w)
  <2>1. losses' \in 0 .. MaxLosses /\ UNCHANGED faults
    BY <1>5, Bounds DEF TypeOK, Stop, Loss
  <2>2. TypeOK'
    BY <1>5, <2>1 DEF TypeOK, Stop
  <2> QED BY <1>5, <2>2, Aside DEF Stop
<1> QED BY <1>1, <1>2, <1>3, <1>4, <1>5

LEMMA PutSteady ==
    ASSUME Inv, NEW ms \in SUBSET Messages, NEW place \in {"delivered", "acked"},
           Put(ms, place), UNCHANGED <<db, best>>
    PROVE  Steady
<1>1. \A p \in Posts : db'[p] >= db[p] /\ best'[p] >= best[p]
  BY Numbers DEF Inv
<1>2. \A m \in Messages : /\ msg'[m].post = msg[m].post /\ msg'[m].ver = msg[m].ver
                          /\ m \in ms => msg'[m].at = place
                          /\ m \notin ms => msg'[m].at = msg[m].at
  BY PutType DEF Inv, TypeOK
<1> QED BY <1>1, <1>2 DEF Steady

LEMMA CollectedFacts ==
    ASSUME Inv, NEW w \in Workers, NEW ms \in SUBSET Messages, Collected(w, ms)
    PROVE  /\ pending' \in [Workers -> Ids]
           /\ \A u \in Workers : u # w => pending'[u] = pending[u]
           /\ \A p \in Posts : pending'[w][p] \subseteq
                 pending[w][p] \cup {m \in ms : msg[m].post = p}
<1>1. pending \in [Workers -> Ids]
  BY DEF Inv, TypeOK, Ids
<1>2. CASE status[w] = "stopping"
  BY <1>1, <1>2 DEF Collected
<1>3. CASE status[w] # "stopping"
  <2>1. pending' = [pending EXCEPT ![w] = Merged(@, ByPost(ms))]
    BY <1>3 DEF Collected
  <2>2. Merged(pending[w], ByPost(ms)) \in Ids
    BY <1>1, ByPostType, MergedType
  <2>3. pending' \in [Workers -> Ids] /\ pending'[w] = Merged(pending[w], ByPost(ms))
    BY <1>1, <2>1, <2>2
  <2>4. \A u \in Workers : u # w => pending'[u] = pending[u]
    BY <1>1, <2>1
  <2>5. \A p \in Posts : pending'[w][p] = pending[w][p] \cup {m \in ms : msg[m].post = p}
    BY <2>3 DEF Merged, ByPost
  <2> QED BY <2>3, <2>4, <2>5
<1> QED BY <1>2, <1>3

\* Messages ms, delivered by now, are added to what w holds.
LEMMA Collecting ==
    ASSUME Inv, TypeOK', Steady, NEW w \in Workers, NEW ms \in SUBSET Messages,
           UNCHANGED <<db, flush>>,
           \A m \in ms : msg'[m].at = "delivered" /\ msg'[m].post = msg[m].post,
           \A p \in Posts : pending'[w][p] \subseteq
                 pending[w][p] \cup {m \in ms : msg[m].post = p}
    PROVE  Held(w)' /\ Covered(w)'
<1>1. ASSUME NEW p \in Posts, NEW m \in pending[w][p] \cup flush[w].todo[p]
      PROVE  msg'[m].post = p /\ msg'[m].at \in {"delivered", "acked"}
  <2>1. m \in Messages
    BY Numbers DEF Inv
  <2>2. msg[m].post = p /\ msg[m].at \in {"delivered", "acked"}
    BY DEF Inv, Held
  <2> QED BY <2>1, <2>2 DEF Steady
<1>2. ASSUME NEW p \in Posts, NEW m \in pending'[w][p] \cup flush'[w].todo[p]
      PROVE  msg'[m].post = p /\ msg'[m].at \in {"delivered", "acked"}
  <2>1. CASE m \in pending[w][p] \cup flush[w].todo[p]
    BY <1>1, <2>1
  <2>2. CASE m \in ms /\ msg[m].post = p
    BY <2>2
  <2> QED BY <2>1, <2>2
<1>3. Held(w)'
  BY <1>2 DEF Held
<1>4. ASSUME NEW p \in flush[w].chunk, NEW m \in flush[w].todo[p]
      PROVE  /\ flush[w].pc = "writing" => db[p] = 0 \/ flush[w].read[p] >= msg'[m].ver
             /\ flush[w].pc = "acking" => db[p] = 0 \/ best'[p] >= msg'[m].ver
  <2>1. p \in Posts /\ m \in Messages /\ msg[m].ver \in Int /\ best[p] \in Int
    BY Numbers DEF Inv
  <2>2. msg[m].at # "unsent"
    BY <2>1 DEF Inv, Held
  <2>3. msg'[m].ver = msg[m].ver
    BY <2>1, <2>2 DEF Steady
  <2>4. best'[p] \in Int /\ best'[p] >= best[p]
    BY <2>1, Bounds DEF TypeOK, Versions, Steady
  <2>5. /\ flush[w].pc = "writing" => db[p] = 0 \/ flush[w].read[p] >= msg[m].ver
        /\ flush[w].pc = "acking" => db[p] = 0 \/ best[p] >= msg[m].ver
    BY DEF Inv, Covered
  <2> QED BY <2>1, <2>3, <2>4, <2>5
<1>5. Covered(w)'
  BY <1>4 DEF Covered
<1> QED BY <1>3, <1>5

LEMMA ReadStep ==
    ASSUME Inv, NEW w \in Workers, Read(w) \/ ReadFails(w)
    PROVE  Inv'
<1>1. PICK ms \in SUBSET At("stream") :
         /\ Put(ms, "delivered")
         /\ Collected(w, ms) \/ UNCHANGED pending
  BY DEF Read, ReadFails
<1>2. UNCHANGED <<db, idle, score, best, flush, claims, refresh>>
  BY DEF Read, ReadFails
<1>3. ms \in SUBSET Messages /\ \A m \in ms : msg[m].at = "stream"
  BY DEF At
<1>4. /\ msg' \in [Messages -> Message]
      /\ \A m \in Messages : /\ msg'[m].post = msg[m].post /\ msg'[m].ver = msg[m].ver
                             /\ m \in ms => msg'[m].at = "delivered"
                             /\ m \notin ms => msg'[m].at = msg[m].at
  BY <1>1, PutType DEF Inv, TypeOK
<1>5. /\ pending' \in [Workers -> Ids]
      /\ \A u \in Workers : u # w => pending'[u] = pending[u]
      /\ \A p \in Posts : pending'[w][p] \subseteq pending[w][p] \cup {m \in ms : msg[m].post = p}
  <2>1. CASE Collected(w, ms)
    BY <1>3, <2>1, CollectedFacts
  <2>2. CASE UNCHANGED pending
    BY <2>2 DEF Inv, TypeOK, Ids
  <2> QED BY <1>1, <2>1, <2>2
<1>6. /\ status' \in [Workers -> {"up", "failed", "stopping", "draining", "down"}]
      /\ faults' \in 0 .. MaxFaults /\ losses' \in 0 .. MaxLosses
  <2>1. CASE Read(w)
    BY <2>1 DEF Read, Inv, TypeOK
  <2>2. CASE ReadFails(w)
    <3>1. status' \in {status, [status EXCEPT ![w] = "failed"]}
      BY <2>2 DEF ReadFails
    <3>2. losses < MaxLosses /\ losses' = losses + 1 /\ UNCHANGED faults
      BY <2>2 DEF ReadFails, Loss
    <3>3. status' \in [Workers -> {"up", "failed", "stopping", "draining", "down"}]
      BY <3>1 DEF Inv, TypeOK
    <3>4. faults' \in 0 .. MaxFaults /\ losses' \in 0 .. MaxLosses
      BY <3>2, Bounds DEF Inv, TypeOK
    <3> QED BY <3>3, <3>4
  <2> QED BY <2>1, <2>2
<1>7. TypeOK'
  BY <1>2, <1>4, <1>5, <1>6 DEF Inv, TypeOK, Ids
<1>8. Steady
  BY <1>1, <1>2, <1>3, PutSteady
<1>9. \A m \in Messages : /\ msg'[m].at = "unsent" <=> msg[m].at = "unsent"
                          /\ msg'[m].at = "acked" <=> msg[m].at = "acked"
  BY <1>3, <1>4
<1>10. Held(w)' /\ Covered(w)'
  BY <1>2, <1>3, <1>4, <1>5, <1>7, <1>8, Collecting
<1> QED BY <1>2, <1>5, <1>7, <1>8, <1>9, <1>10, Kept

LEMMA ClaimStep ==
    ASSUME Inv, NEW w \in Workers, Claim(w)
    PROVE  Inv'
<1>1. Claimed(w) \in SUBSET Messages /\ \A m \in Claimed(w) : msg[m].at = "delivered"
  BY DEF Claimed, At
<1>2. UNCHANGED <<db, msg, score, best, status, flush, refresh, faults, losses>>
  BY DEF Claim
<1>3. /\ pending' \in [Workers -> Ids]
      /\ \A u \in Workers : u # w => pending'[u] = pending[u]
      /\ \A p \in Posts : pending'[w][p] \subseteq
            pending[w][p] \cup {m \in Claimed(w) : msg[m].post = p}
  BY <1>1, CollectedFacts DEF Claim
<1>4. idle' \subseteq Messages /\ claims' \in [Workers -> SUBSET Messages]
  BY DEF Claim, Inv, TypeOK
<1>5. TypeOK'
  BY <1>2, <1>3, <1>4 DEF Inv, TypeOK, Ids
<1>6. \A p \in Posts : db'[p] >= db[p] /\ best'[p] >= best[p]
  BY <1>2, Numbers DEF Inv
<1>7. Steady
  BY <1>2, <1>6 DEF Steady
<1>8. Held(w)' /\ Covered(w)'
  BY <1>1, <1>2, <1>3, <1>5, <1>7, Collecting
<1> QED BY <1>2, <1>3, <1>5, <1>7, <1>8, Kept

LEMMA FlushStarts ==
    ASSUME Inv, NEW w \in Workers, TypeOK', Started(w), UNCHANGED <<db, msg, best>>
    PROVE  Inv'
<1>1. /\ pending'[w] = Nothing /\ flush'[w].todo = pending[w] /\ flush'[w].pc = "reading"
      /\ flush'[w].chunk = {}
      /\ \A u \in Workers : u # w => pending'[u] = pending[u] /\ flush'[u] = flush[u]
  BY DEF Started, NoFlush, Inv, TypeOK
<1>2. \A p \in Posts : db'[p] >= db[p] /\ best'[p] >= best[p]
  BY Numbers DEF Inv
<1>3. Steady
  BY <1>2 DEF Steady
<1>4. Held(w)'
  BY <1>1 DEF Held, Nothing, Inv
<1>5. Covered(w)'
  BY <1>1 DEF Covered
<1> QED BY <1>1, <1>3, <1>4, <1>5, Kept

LEMMA StartedType ==
    ASSUME Inv, NEW w \in Workers, Started(w)
    PROVE  pending' \in [Workers -> Ids] /\ flush' \in [Workers -> Flush]
<1>1. pending[w] \in Ids /\ pending \in [Workers -> Ids] /\ flush \in [Workers -> Flush]
  BY DEF Inv, TypeOK, Ids
<1>2. [NoFlush EXCEPT !.pc = "reading", !.todo = pending[w]] \in Flush
  BY <1>1, EmptyTypes DEF Flush, Ids
<1> QED BY <1>1, <1>2, EmptyTypes DEF Started

LEMMA EndedStep ==
    ASSUME Inv, NEW w \in Workers, Ended(w), UNCHANGED <<db, msg, idle, score, best>>,
           faults' \in 0 .. MaxFaults, losses' \in 0 .. MaxLosses
    PROVE  Inv'
<1>1. /\ status' \in [Workers -> {"up", "failed", "stopping", "draining", "down"}]
      /\ claims' \in [Workers -> SUBSET Messages]
  BY DEF Ended, Inv, TypeOK
<1>2. /\ refresh' \in [Workers -> Score]
      /\ pending' \in [Workers -> Ids] /\ flush' \in [Workers -> Flush]
  BY EmptyTypes DEF Ended, Inv, TypeOK, Ids, Score
<1>3. TypeOK'
  BY <1>1, <1>2 DEF Inv, TypeOK, Ids, Score
<1>4. /\ pending'[w] = Nothing /\ flush'[w] = NoFlush
      /\ \A u \in Workers : u # w => pending'[u] = pending[u] /\ flush'[u] = flush[u]
  BY DEF Ended, Inv, TypeOK
<1>5. \A p \in Posts : db'[p] >= db[p] /\ best'[p] >= best[p]
  BY Numbers DEF Inv
<1>6. Steady
  BY <1>5 DEF Steady
<1>7. Held(w)' /\ Covered(w)'
  BY <1>4 DEF Held, Covered, NoFlush, Nothing
<1> QED BY <1>3, <1>4, <1>6, <1>7, Kept

LEMMA LifeStep ==
    ASSUME Inv, NEW w \in Workers,
           StartFlush(w) \/ LastFlush(w) \/ Close(w) \/ Crash(w)
    PROVE  Inv'
<1>1. CASE StartFlush(w)
  <2>1. TypeOK'
    BY <1>1, StartedType DEF StartFlush, Inv, TypeOK, Ids
  <2> QED BY <1>1, <2>1, FlushStarts DEF StartFlush
<1>2. CASE LastFlush(w) /\ pending[w] = Nothing
  <2>1. TypeOK'
    BY <1>2 DEF LastFlush, Inv, TypeOK
  <2> QED BY <1>2, <2>1, Aside DEF LastFlush
<1>3. CASE LastFlush(w) /\ pending[w] # Nothing
  <2>1. Started(w) /\ UNCHANGED <<db, msg, idle, score, best, claims, refresh, faults, losses>>
    BY <1>3 DEF LastFlush
  <2>2. status' \in [Workers -> {"up", "failed", "stopping", "draining", "down"}]
    BY <1>3 DEF LastFlush, Inv, TypeOK
  <2>3. TypeOK'
    BY <2>1, <2>2, StartedType DEF Inv, TypeOK, Ids
  <2> QED BY <2>1, <2>3, FlushStarts
<1>4. CASE Close(w)
  BY <1>4, EndedStep DEF Close, Inv, TypeOK
<1>5. CASE Crash(w)
  <2>1. losses < MaxLosses /\ losses' = losses + 1 /\ UNCHANGED faults
    BY <1>5 DEF Crash, Loss
  <2>2. faults' \in 0 .. MaxFaults /\ losses' \in 0 .. MaxLosses
    BY <2>1, Bounds DEF Inv, TypeOK
  <2> QED BY <1>5, <2>2, EndedStep DEF Crash
<1> QED BY <1>1, <1>2, <1>3, <1>4, <1>5

LEMMA RefreshStep ==
    ASSUME Inv, NEW w \in Workers, FinishRefresh(w) \/ RefreshFails(w)
    PROVE  Inv'
<1>1. PICK ps \in SUBSET Posts : Write(ps, refresh[w])
  BY DEF FinishRefresh, RefreshFails
<1>2. TypeOK /\ refresh[w] \in Score
  BY DEF Inv, TypeOK, Score
<1>3. UNCHANGED <<db, msg, idle, status, pending, flush, claims>>
  BY DEF FinishRefresh, RefreshFails
<1>4. score' \in Score /\ best' \in Score /\ \A p \in Posts : best'[p] >= best[p]
  BY <1>1, <1>2, WriteFacts
<1>5. faults' \in 0 .. MaxFaults /\ losses' \in 0 .. MaxLosses
  <2>1. CASE FinishRefresh(w)
    BY <1>2, <2>1 DEF FinishRefresh, TypeOK
  <2>2. CASE RefreshFails(w)
    BY <1>2, <2>2, Bounds DEF RefreshFails, Fault, TypeOK
  <2> QED BY <2>1, <2>2
<1>6. refresh' \in [Workers -> Score]
  BY <1>2, EmptyTypes DEF FinishRefresh, RefreshFails, TypeOK, Score
<1>7. TypeOK'
  BY <1>2, <1>3, <1>4, <1>5, <1>6 DEF TypeOK, Score
<1>8. \A p \in Posts : db'[p] >= db[p]
  BY <1>2, <1>3, Numbers
<1>9. Steady
  BY <1>3, <1>4, <1>8 DEF Steady
<1>10. Held(w)' /\ Covered(w)'
  BY <1>3, <1>7, <1>9, Unmoved
<1> QED BY <1>3, <1>7, <1>9, <1>10, Kept
-----------------------------------------------------------------------------
(***************************************************************************)
(* The steps of a flush.                                                   *)
(***************************************************************************)

LEMMA FlushHere ==
    ASSUME Inv, NEW w \in Workers
    PROVE  /\ flush[w] \in Flush /\ flush \in [Workers -> Flush]
           /\ pending[w] \in Ids /\ pending \in [Workers -> Ids]
           /\ \A p \in Posts : \A m \in pending[w][p] \cup flush[w].todo[p] :
                 /\ m \in Messages /\ msg[m].post = p
                 /\ msg[m].at \in {"delivered", "acked"}
<1>1. /\ flush[w] \in Flush /\ flush \in [Workers -> Flush]
      /\ pending[w] \in Ids /\ pending \in [Workers -> Ids]
  BY DEF Inv, TypeOK, Ids
<1>2. \A p \in Posts : pending[w][p] \in SUBSET Messages /\ flush[w].todo[p] \in SUBSET Messages
  BY Numbers DEF Inv
<1> QED BY <1>1, <1>2 DEF Inv, Held

\* A step after which w holds no more than before, under the same posts, and
\* has nothing to write or to acknowledge.
LEMMA Dropping ==
    ASSUME Inv, TypeOK', Steady, NEW w \in Workers,
           \A p \in Posts : pending'[w][p] \cup flush'[w].todo[p]
                              \subseteq pending[w][p] \cup flush[w].todo[p],
           flush'[w].pc \notin {"writing", "acking"}
    PROVE  Held(w)' /\ Covered(w)'
<1>1. ASSUME NEW p \in Posts, NEW m \in pending'[w][p] \cup flush'[w].todo[p]
      PROVE  msg'[m].post = p /\ msg'[m].at \in {"delivered", "acked"}
  <2>1. m \in pending[w][p] \cup flush[w].todo[p]
    OBVIOUS
  <2>2. m \in Messages /\ msg[m].post = p /\ msg[m].at \in {"delivered", "acked"}
    BY <2>1, FlushHere
  <2> QED BY <2>2 DEF Steady
<1>2. Held(w)'
  BY <1>1 DEF Held
<1>3. Covered(w)'
  BY DEF Covered
<1> QED BY <1>2, <1>3

\* What the chunk of f leaves behind when it is queued again, or is done.
LEMMA ChunkLeaves ==
    ASSUME Inv, NEW w \in Workers, NEW f \in Flush, f.todo = flush[w].todo,
           \/ pending' = [pending EXCEPT ![w] = Requeued(w, f)]
           \/ UNCHANGED pending,
           flush' = [flush EXCEPT ![w] = Continued(f)]
    PROVE  /\ pending' \in [Workers -> Ids] /\ flush' \in [Workers -> Flush]
           /\ \A u \in Workers : u # w => pending'[u] = pending[u] /\ flush'[u] = flush[u]
           /\ \A p \in Posts : pending'[w][p] \cup flush'[w].todo[p]
                                  \subseteq pending[w][p] \cup flush[w].todo[p]
           /\ flush'[w].pc \notin {"writing", "acking"}
<1>1. flush \in [Workers -> Flush] /\ pending \in [Workers -> Ids] /\ TypeOK
  BY FlushHere DEF Inv
<1>2. /\ Continued(f) \in Flush /\ Continued(f).pc \in {"idle", "reading"}
      /\ \A p \in Posts : Continued(f).todo[p] = IF p \in f.chunk THEN {} ELSE f.todo[p]
  BY ContinuedFacts
<1>3. /\ flush' \in [Workers -> Flush] /\ flush'[w] = Continued(f)
      /\ \A u \in Workers : u # w => flush'[u] = flush[u]
  BY <1>1, <1>2
<1>4. /\ Requeued(w, f) \in Ids
      /\ \A p \in Posts : Requeued(w, f)[p] =
            pending[w][p] \cup (IF p \in f.chunk THEN f.todo[p] ELSE {})
  BY <1>1, RequeuedFacts
<1>5. /\ pending' \in [Workers -> Ids]
      /\ \A u \in Workers : u # w => pending'[u] = pending[u]
      /\ \A p \in Posts : pending'[w][p] \subseteq pending[w][p] \cup flush[w].todo[p]
  <2>1. CASE pending' = [pending EXCEPT ![w] = Requeued(w, f)]
    <3>1. pending' \in [Workers -> Ids] /\ pending'[w] = Requeued(w, f)
      BY <1>1, <1>4, <2>1
    <3>2. \A u \in Workers : u # w => pending'[u] = pending[u]
      BY <1>1, <2>1
    <3> QED BY <3>1, <3>2, <1>4
  <2>2. CASE UNCHANGED pending
    BY <1>1, <2>2
  <2> QED BY <2>1, <2>2
<1>6. \A p \in Posts : flush'[w].todo[p] \subseteq flush[w].todo[p]
  BY <1>2, <1>3
<1>7. flush'[w].pc \notin {"writing", "acking"}
  BY <1>2, <1>3
<1> QED BY <1>3, <1>5, <1>6, <1>7

LEMMA ReadPostsStep ==
    ASSUME Inv, NEW w \in Workers, ReadPosts(w)
    PROVE  Inv'
<1> PICK ps \in Chunks(flush[w].todo) :
       flush' = [flush EXCEPT ![w] = [@ EXCEPT !.pc = "writing", !.chunk = ps,
                                      !.read = [p \in Posts |-> IF p \in ps THEN db[p] ELSE 0]]]
  BY DEF ReadPosts
<1>1. /\ flush[w] \in Flush /\ flush \in [Workers -> Flush]
      /\ UNCHANGED <<db, msg, idle, score, best, status, pending, claims, refresh, faults, losses>>
  BY FlushHere DEF ReadPosts
<1>2. ps \in SUBSET Posts
  BY DEF Chunks, Left
<1> DEFINE read == [p \in Posts |-> IF p \in ps THEN db[p] ELSE 0]
<1>3. read \in Score /\ \A p \in ps : read[p] = db[p]
  BY <1>2, Bounds DEF Score, Versions, Inv, TypeOK
<1> HIDE DEF read
<1>4. flush' = [flush EXCEPT ![w] = [flush[w] EXCEPT !.pc = "writing", !.chunk = ps, !.read = read]]
  BY <1>1 DEF read
<1> DEFINE f == [flush[w] EXCEPT !.pc = "writing", !.chunk = ps, !.read = read]
<1>4a. flush[w] \in Flush
  BY <1>1
<1>4b. f \in Flush /\ f.pc = "writing" /\ f.chunk = ps /\ f.todo = flush[w].todo /\ f.read = read
  BY <1>4a, <1>2, <1>3 DEF Flush, Score
<1> HIDE DEF f
<1>4c. flush' = [flush EXCEPT ![w] = f]
  BY <1>4 DEF f
<1>5. /\ flush'[w] \in Flush /\ flush' \in [Workers -> Flush]
      /\ flush'[w].pc = "writing" /\ flush'[w].chunk = ps
      /\ flush'[w].todo = flush[w].todo /\ flush'[w].read = read
      /\ \A u \in Workers : u # w => flush'[u] = flush[u]
  BY <1>1, <1>4b, <1>4c
<1>6. TypeOK'
  BY <1>1, <1>5 DEF Inv, TypeOK
<1>7. \A p \in Posts : db'[p] >= db[p] /\ best'[p] >= best[p]
  BY <1>1, Numbers DEF Inv
<1>8. Steady
  BY <1>1, <1>7 DEF Steady
<1>9. Held(w)'
  BY <1>1, <1>5, FlushHere DEF Held
<1>10. ASSUME NEW p \in ps, NEW m \in flush[w].todo[p]
       PROVE  db[p] = 0 \/ read[p] >= msg[m].ver
  <2>1. m \in Messages /\ msg[m].post = p /\ msg[m].at # "unsent"
    BY <1>2, FlushHere
  <2> QED BY <1>3, <2>1 DEF Inv, Seen
<1>11. Covered(w)'
  BY <1>1, <1>5, <1>10 DEF Covered
<1> QED BY <1>1, <1>5, <1>6, <1>8, <1>9, <1>11, Kept

\* A chunk is put back, read or not, before anything of it was written.
LEMMA PutBackStep ==
    ASSUME Inv, NEW w \in Workers, ReadPostsFails(w) \/ PrepareFails(w)
    PROVE  Inv'
<1>1. /\ UNCHANGED <<db, msg, idle, score, best, status, claims, refresh>>
      /\ faults' \in 0 .. MaxFaults /\ losses' \in 0 .. MaxLosses
  <2>1. CASE ReadPostsFails(w)
    <3>1. faults < MaxFaults /\ faults' = faults + 1 /\ UNCHANGED losses
      BY <2>1 DEF ReadPostsFails, Fault
    <3> QED BY <2>1, <3>1, Bounds DEF ReadPostsFails, Inv, TypeOK
  <2>2. CASE PrepareFails(w)
    <3>1. losses < MaxLosses /\ losses' = losses + 1 /\ UNCHANGED faults
      BY <2>2 DEF PrepareFails, Loss
    <3> QED BY <2>2, <3>1, Bounds DEF PrepareFails, Inv, TypeOK
  <2> QED BY <2>1, <2>2
<1>2. /\ pending' \in [Workers -> Ids] /\ flush' \in [Workers -> Flush]
      /\ \A u \in Workers : u # w => pending'[u] = pending[u] /\ flush'[u] = flush[u]
      /\ \A p \in Posts : pending'[w][p] \cup flush'[w].todo[p]
                             \subseteq pending[w][p] \cup flush[w].todo[p]
      /\ flush'[w].pc \notin {"writing", "acking"}
  <2>1. CASE ReadPostsFails(w)
    <3> PICK ps \in Chunks(flush[w].todo) :
           LET f == [flush[w] EXCEPT !.chunk = ps] IN
           /\ pending' = [pending EXCEPT ![w] = Requeued(w, f)]
           /\ flush' = [flush EXCEPT ![w] = Continued(f)]
      BY <2>1 DEF ReadPostsFails
    <3> DEFINE f == [flush[w] EXCEPT !.chunk = ps]
    <3>1. ps \in SUBSET Posts
      BY DEF Chunks, Left
    <3>2. f \in Flush /\ f.todo = flush[w].todo
      <4>1. flush[w] \in Flush
        BY FlushHere
      <4> QED BY <3>1, <4>1 DEF Flush
    <3>3. pending' = [pending EXCEPT ![w] = Requeued(w, f)] /\ flush' = [flush EXCEPT ![w] = Continued(f)]
      OBVIOUS
    <3> HIDE DEF f
    <3> QED BY <3>2, <3>3, ChunkLeaves
  <2>2. CASE PrepareFails(w)
    <3>1. /\ flush \in [Workers -> Flush] /\ pending \in [Workers -> Ids]
          /\ flush[w] \in Flush /\ TypeOK
      BY FlushHere DEF Inv
    <3>2. /\ pending' = [pending EXCEPT ![w] = Requeued(w, flush[w])]
          /\ flush' = [flush EXCEPT ![w] = NoFlush]
      BY <2>2 DEF PrepareFails
    <3>3. /\ Requeued(w, flush[w]) \in Ids
          /\ \A p \in Posts : Requeued(w, flush[w])[p] =
                pending[w][p] \cup (IF p \in flush[w].chunk THEN flush[w].todo[p] ELSE {})
      BY <3>1, RequeuedFacts
    <3>4. pending' \in [Workers -> Ids] /\ flush' \in [Workers -> Flush]
      BY <3>1, <3>2, <3>3, EmptyTypes
    <3>5. pending'[w] = Requeued(w, flush[w]) /\ flush'[w] = NoFlush
      BY <3>1, <3>2
    <3>6. \A u \in Workers : u # w => pending'[u] = pending[u] /\ flush'[u] = flush[u]
      BY <3>1, <3>2
    <3>7. NoFlush.pc = "idle" /\ \A p \in Posts : NoFlush.todo[p] = {}
      BY DEF NoFlush, Nothing
    <3> QED BY <3>3, <3>4, <3>5, <3>6, <3>7
  <2> QED BY <2>1, <2>2
<1>3. TypeOK'
  BY <1>1, <1>2 DEF Inv, TypeOK, Ids
<1>4. \A p \in Posts : db'[p] >= db[p] /\ best'[p] >= best[p]
  BY <1>1, Numbers DEF Inv
<1>5. Steady
  BY <1>1, <1>4 DEF Steady
<1>6. Held(w)' /\ Covered(w)'
  BY <1>2, <1>3, <1>5, Dropping
<1> QED BY <1>1, <1>2, <1>3, <1>5, <1>6, Kept

LEMMA WriteScoresStep ==
    ASSUME Inv, NEW w \in Workers, WriteScores(w)
    PROVE  Inv'
<1>1. /\ TypeOK /\ flush[w] \in Flush /\ flush \in [Workers -> Flush]
      /\ flush[w].chunk \in SUBSET Posts /\ flush[w].read \in Score
  BY FlushHere DEF Inv, Flush, Score
<1>2. /\ flush[w].pc = "writing" /\ Write(flush[w].chunk, flush[w].read)
      /\ flush' = [flush EXCEPT ![w].pc = "acking"]
      /\ UNCHANGED <<db, msg, idle, status, pending, claims, refresh, faults, losses>>
  BY DEF WriteScores
<1>3. /\ score' \in Score /\ best' \in Score
      /\ \A p \in Posts : /\ best'[p] >= best[p]
                          /\ p \in flush[w].chunk => best'[p] >= flush[w].read[p]
  BY <1>1, <1>2, WriteFacts
<1>4. /\ flush' \in [Workers -> Flush] /\ flush'[w].pc = "acking"
      /\ flush'[w].todo = flush[w].todo /\ flush'[w].chunk = flush[w].chunk
      /\ \A u \in Workers : u # w => flush'[u] = flush[u]
  BY <1>1, <1>2 DEF Flush
<1>5. TypeOK'
  BY <1>1, <1>2, <1>3, <1>4 DEF TypeOK, Score
<1>6. \A p \in Posts : db'[p] >= db[p]
  BY <1>1, <1>2, Numbers
<1>7. Steady
  <2>1. \A p \in Posts : best'[p] >= best[p]
    BY <1>3
  <2> QED BY <1>2, <1>6, <2>1 DEF Steady
<1>8. Held(w)'
  BY <1>2, <1>4, FlushHere DEF Held
<1>9. ASSUME NEW p \in flush[w].chunk, NEW m \in flush[w].todo[p]
      PROVE  db[p] = 0 \/ best'[p] >= msg[m].ver
  <2>1. p \in Posts /\ m \in Messages
    BY <1>1, FlushHere
  <2>2. msg[m].ver \in Int /\ flush[w].read[p] \in Int /\ best'[p] \in Int
    BY <1>1, <1>3, <2>1, Numbers, Bounds DEF Score, Versions
  <2>3. db[p] = 0 \/ flush[w].read[p] >= msg[m].ver
    BY <1>2 DEF Inv, Covered
  <2>4. best'[p] >= flush[w].read[p]
    BY <1>3, <2>1, Zenon
  <2> QED BY <2>2, <2>3, <2>4
<1>10. Covered(w)'
  BY <1>2, <1>4, <1>9 DEF Covered
<1> QED BY <1>2, <1>4, <1>5, <1>7, <1>8, <1>10, Kept

LEMMA WriteScoresFailsStep ==
    ASSUME Inv, NEW w \in Workers, WriteScoresFails(w)
    PROVE  Inv'
<1> PICK ps \in SUBSET flush[w].chunk : Write(ps, flush[w].read)
  BY DEF WriteScoresFails
<1>1. /\ TypeOK /\ flush[w] \in Flush /\ ps \in SUBSET Posts /\ flush[w].read \in Score
  BY FlushHere DEF Inv, Flush, Score
<1>2. /\ faults < MaxFaults /\ faults' = faults + 1
      /\ pending' = [pending EXCEPT ![w] = Requeued(w, flush[w])]
      /\ flush' = [flush EXCEPT ![w] = Continued(flush[w])]
      /\ UNCHANGED <<db, msg, idle, status, claims, refresh, losses>>
  BY DEF WriteScoresFails, Fault
<1>3. /\ score' \in Score /\ best' \in Score
      /\ \A p \in Posts : best'[p] >= best[p]
  BY <1>1, WriteFacts
<1>4. /\ pending' \in [Workers -> Ids] /\ flush' \in [Workers -> Flush]
      /\ \A u \in Workers : u # w => pending'[u] = pending[u] /\ flush'[u] = flush[u]
      /\ \A p \in Posts : pending'[w][p] \cup flush'[w].todo[p]
                             \subseteq pending[w][p] \cup flush[w].todo[p]
      /\ flush'[w].pc \notin {"writing", "acking"}
  BY <1>1, <1>2, ChunkLeaves
<1>5. faults' \in 0 .. MaxFaults
  BY <1>1, <1>2, Bounds DEF TypeOK
<1>6. TypeOK'
  BY <1>1, <1>2, <1>3, <1>4, <1>5 DEF TypeOK, Score, Ids
<1>7. \A p \in Posts : db'[p] >= db[p]
  BY <1>1, <1>2, Numbers
<1>8. Steady
  BY <1>2, <1>3, <1>7 DEF Steady
<1>9. Held(w)' /\ Covered(w)'
  BY <1>4, <1>6, <1>8, Dropping
<1> QED BY <1>2, <1>4, <1>6, <1>8, <1>9, Kept

LEMMA AckStep ==
    ASSUME Inv, NEW w \in Workers, Ack(w) \/ AckFails(w)
    PROVE  Inv'
<1>1. /\ TypeOK /\ flush[w] \in Flush /\ flush[w].pc = "acking"
      /\ flush' = [flush EXCEPT ![w] = Continued(flush[w])]
      /\ pending' = [pending EXCEPT ![w] = Requeued(w, flush[w])] \/ UNCHANGED pending
      /\ Acked(ToAck(flush[w])) \/ UNCHANGED <<msg, idle>>
      /\ UNCHANGED <<db, score, best, status, claims, refresh>>
  BY FlushHere DEF Inv, Ack, AckFails
<1>2. faults' \in 0 .. MaxFaults /\ losses' \in 0 .. MaxLosses
  <2>1. CASE Ack(w)
    BY <1>1, <2>1 DEF Ack, TypeOK
  <2>2. CASE AckFails(w)
    <3>1. faults < MaxFaults /\ faults' = faults + 1 /\ UNCHANGED losses
      BY <2>2 DEF AckFails, Fault
    <3> QED BY <1>1, <3>1, Bounds DEF TypeOK
  <2> QED BY <2>1, <2>2
<1>3. /\ pending' \in [Workers -> Ids] /\ flush' \in [Workers -> Flush]
      /\ \A u \in Workers : u # w => pending'[u] = pending[u] /\ flush'[u] = flush[u]
      /\ \A p \in Posts : pending'[w][p] \cup flush'[w].todo[p]
                             \subseteq pending[w][p] \cup flush[w].todo[p]
      /\ flush'[w].pc \notin {"writing", "acking"}
  BY <1>1, ChunkLeaves
<1>4. ASSUME NEW m \in ToAck(flush[w])
      PROVE  m \in Messages /\ msg[m].at # "unsent"
             /\ (db[msg[m].post] = 0 \/ best[msg[m].post] >= msg[m].ver)
  <2>1. PICK p \in flush[w].chunk : m \in flush[w].todo[p]
    BY DEF ToAck
  <2>2. p \in Posts
    BY <1>1 DEF Flush
  <2>3. m \in Messages /\ msg[m].post = p /\ msg[m].at # "unsent"
    BY <2>1, <2>2, FlushHere
  <2>4. db[p] = 0 \/ best[p] >= msg[m].ver
    BY <1>1, <2>1 DEF Inv, Covered
  <2> QED BY <2>3, <2>4
<1>5. /\ msg' \in [Messages -> Message] /\ idle' \subseteq Messages /\ Steady
      /\ \A m \in Messages : \/ msg'[m].at = msg[m].at
                             \/ msg'[m].at = "acked" /\ m \in ToAck(flush[w])
  <2>1. CASE Acked(ToAck(flush[w]))
    <3> DEFINE ms == ToAck(flush[w]) \cap At("delivered")
    <3>1. Put(ms, "acked") /\ idle' \subseteq idle
      BY <2>1 DEF Acked
    <3>2. ms \in SUBSET Messages
      BY DEF At
    <3>3. Steady
      BY <1>1, <3>1, <3>2, PutSteady
    <3>4. /\ msg' \in [Messages -> Message]
          /\ \A m \in Messages : /\ m \in ms => msg'[m].at = "acked"
                                 /\ m \notin ms => msg'[m].at = msg[m].at
      BY <1>1, <3>1, PutType DEF TypeOK
    <3>5. idle' \subseteq Messages
      BY <1>1, <3>1 DEF TypeOK
    <3> QED BY <3>3, <3>4, <3>5
  <2>2. CASE UNCHANGED <<msg, idle>>
    <3>1. \A p \in Posts : db'[p] >= db[p] /\ best'[p] >= best[p]
      BY <1>1, Numbers
    <3>2. Steady
      BY <1>1, <2>2, <3>1 DEF Steady
    <3> QED BY <1>1, <2>2, <3>2 DEF TypeOK
  <2> QED BY <1>1, <2>1, <2>2
<1>6. TypeOK'
  BY <1>1, <1>2, <1>3, <1>5 DEF TypeOK, Ids
<1>7. Held(w)' /\ Covered(w)'
  BY <1>3, <1>5, <1>6, Dropping
<1>8. \A m \in Messages : msg'[m].at # "unsent" => msg[m].at # "unsent"
  BY <1>4, <1>5
<1>9. \A m \in Messages : msg'[m].at = "acked" /\ msg[m].at # "acked" =>
         msg[m].at # "unsent" /\ (db[msg[m].post] = 0 \/ best[msg[m].post] >= msg[m].ver)
  BY <1>4, <1>5
<1> QED BY <1>3, <1>5, <1>6, <1>7, <1>8, <1>9, Kept

LEMMA InitInv == Init => Inv
<1> SUFFICES ASSUME Init PROVE Inv
  OBVIOUS
<1>1. PICK p \in Posts : msg = [m \in Messages |-> [at |-> "unsent", post |-> p, ver |-> 0]]
  BY DEF Init
<1>2. msg \in [Messages -> Message]
  BY <1>1, Bounds DEF Message, Versions
<1>3. /\ flush = [w \in Workers |-> NoFlush] /\ pending = [w \in Workers |-> Nothing]
      /\ flush \in [Workers -> Flush] /\ pending \in [Workers -> Ids]
  BY EmptyTypes DEF Init
<1>4. db \in Score /\ score \in Score /\ best \in Score
  BY Bounds, BoundsAssumption DEF Init, Versions, Score
<1>5. refresh \in [Workers -> Score]
  BY EmptyTypes DEF Init
<1>6. faults \in 0 .. MaxFaults /\ losses \in 0 .. MaxLosses
  BY Bounds DEF Init
<1>7. /\ idle \subseteq Messages /\ claims \in [Workers -> SUBSET Messages]
      /\ status \in [Workers -> {"up", "failed", "stopping", "draining", "down"}]
  BY DEF Init
<1>8. TypeOK
  BY <1>2, <1>3, <1>4, <1>5, <1>6, <1>7 DEF TypeOK, Score, Ids
<1>9. Seen /\ AckedWasScored
  BY <1>1 DEF Seen, AckedWasScored, At
<1>10. ASSUME NEW w \in Workers
       PROVE  Held(w) /\ Covered(w)
  <2>1. /\ \A q \in Posts : pending[w][q] = {} /\ flush[w].todo[q] = {}
        /\ flush[w].chunk = {}
    BY <1>3 DEF NoFlush, Nothing
  <2> QED BY <2>1 DEF Held, Covered
<1> QED BY <1>8, <1>9, <1>10 DEF Inv

LEMMA NextInv == Inv /\ [Next]_vars => Inv'
<1> SUFFICES ASSUME Inv, [Next]_vars PROVE Inv'
  OBVIOUS
<1>1. CASE UNCHANGED vars
  <2>1. TypeOK'
    BY <1>1 DEF Inv, TypeOK, vars
  <2> QED BY <1>1, <2>1, Aside DEF vars
<1>2. CASE \E p \in Posts : Interact(p) \/ DeletePost(p)
  BY <1>2, PostStep
<1>3. CASE \E m \in Messages : Push(m) \/ GetsIdle(m)
  BY <1>3, PushStep, GetsIdleStep
<1>4. ASSUME NEW w \in Workers, Worker(w)
      PROVE  Inv'
  <2>1. CASE Progress(w)
    BY <2>1, ClaimStep, ReadPostsStep, WriteScoresStep, AckStep, RefreshStep, LifeStep DEF Progress
  <2>2. CASE Read(w) \/ FindStalled(w) \/ StartFlush(w) \/ StartRefresh(w) \/ Start(w)
    BY <2>2, ReadStep, AsideStep, LifeStep
  <2>3. CASE ReadFails(w) \/ ClaimFails(w) \/ ReadPostsFails(w) \/ PrepareFails(w)
    BY <2>3, ReadStep, AsideStep, PutBackStep
  <2>4. CASE WriteScoresFails(w) \/ AckFails(w) \/ RefreshFails(w) \/ Stop(w) \/ Crash(w)
    BY <2>4, WriteScoresFailsStep, AckStep, RefreshStep, AsideStep, LifeStep
  <2> QED BY <1>4, <2>1, <2>2, <2>3, <2>4 DEF Worker
<1> QED BY <1>1, <1>2, <1>3, <1>4 DEF Next

\* What a worker holds stays covered by what it read and wrote, in every
\* behaviour.
THEOREM Invariance == Spec => []Inv
<1>1. Init => Inv
  BY InitInv
<1>2. Inv /\ [Next]_vars => Inv'
  BY NextInv
<1> QED BY <1>1, <1>2, PTL DEF Spec

\* Every variable keeps its type.
THEOREM TypeCorrect == Spec => []TypeOK
<1>1. Inv => TypeOK
  BY DEF Inv
<1> QED BY <1>1, Invariance, PTL

\* A message is acknowledged only after a score that counts it was written,
\* or its post is gone.
THEOREM AckedScored == Spec => []AckedWasScored
<1>1. Inv => AckedWasScored
  BY DEF Inv
<1> QED BY <1>1, Invariance, PTL
-----------------------------------------------------------------------------
(***************************************************************************)
(* Nothing is forgotten while nothing is lost.                             *)
(***************************************************************************)

\* A worker without a flush has nothing taken; while nothing was lost every
\* worker is up and every delivered message is held.
Lossless ==
    /\ \A w \in Workers : flush[w].pc = "idle" => \A p \in Posts : flush[w].todo[p] = {}
    /\ losses = 0 => /\ \A w \in Workers : status[w] = "up"
                     /\ \A m \in At("delivered") : InMemory(m)

LEMMA Remember ==
    ASSUME Inv, Lossless, NEW w \in Workers,
           \A u \in Workers : u # w => pending'[u] = pending[u] /\ flush'[u] = flush[u],
           flush'[w].pc = "idle" => \A p \in Posts : flush'[w].todo[p] = {},
           losses' = 0 => losses = 0,
           losses' = 0 => UNCHANGED status,
           \A m \in Messages : losses' = 0 /\ msg'[m].at = "delivered" =>
              \/ /\ msg[m].at = "delivered"
                 /\ \A p \in Posts : m \in pending[w][p] \cup flush[w].todo[p]
                                       => m \in pending'[w][p] \cup flush'[w].todo[p]
              \/ \E p \in Posts : m \in pending'[w][p]
    PROVE  Lossless'
<1>1. ASSUME losses' = 0, NEW m \in Messages, msg'[m].at = "delivered"
      PROVE  \E u \in Workers : \E p \in Posts : m \in pending'[u][p] \cup flush'[u].todo[p]
  <2>1. CASE \E p \in Posts : m \in pending'[w][p]
    BY <2>1
  <2>2. CASE /\ msg[m].at = "delivered"
             /\ \A p \in Posts : m \in pending[w][p] \cup flush[w].todo[p]
                                   => m \in pending'[w][p] \cup flush'[w].todo[p]
    <3>1. PICK u \in Workers : \E p \in Posts : m \in pending[u][p] \cup flush[u].todo[p]
      BY <1>1, <2>2 DEF Lossless, At, InMemory
    <3>2. CASE u = w
      BY <2>2, <3>1, <3>2
    <3>3. CASE u # w
      BY <3>1, <3>3
    <3> QED BY <3>2, <3>3
  <2> QED BY <1>1, <2>1, <2>2
<1>2. losses' = 0 => \A m \in At("delivered")' : InMemory(m)'
  BY <1>1 DEF At, InMemory
<1>3. losses' = 0 => \A u \in Workers : status'[u] = "up"
  BY DEF Lossless
<1>4. \A u \in Workers : flush'[u].pc = "idle" => \A p \in Posts : flush'[u].todo[p] = {}
  BY DEF Lossless
<1> QED BY <1>2, <1>3, <1>4 DEF Lossless

\* Steps that leave the memory of the workers and where messages are alone.
LEMMA RememberAside ==
    ASSUME Lossless, UNCHANGED <<pending, flush>>,
           losses' = 0 => losses = 0 /\ UNCHANGED status,
           At("delivered")' \subseteq At("delivered")
    PROVE  Lossless'
<1>1. \A m : InMemory(m)' <=> InMemory(m)
  BY DEF InMemory
<1> QED BY <1>1 DEF Lossless

LEMMA LossCounts == ASSUME Inv, Loss PROVE losses' # 0
<1>1. losses \in Int /\ losses >= 0
  BY Bounds DEF Inv, TypeOK
<1> QED BY <1>1 DEF Loss

LEMMA RememberFlush ==
    ASSUME Inv, Lossless, NEW w \in Workers,
           ReadPosts(w) \/ ReadPostsFails(w) \/ WriteScores(w) \/ WriteScoresFails(w)
    PROVE  Lossless'
<1>1. /\ TypeOK /\ flush[w] \in Flush /\ flush \in [Workers -> Flush]
      /\ pending \in [Workers -> Ids] /\ UNCHANGED <<msg, losses, status>>
  BY FlushHere DEF Inv, ReadPosts, ReadPostsFails, WriteScores, WriteScoresFails, Fault
<1>2. CASE ReadPosts(w) \/ WriteScores(w)
  <2>1. /\ flush'[w].todo = flush[w].todo /\ flush'[w].pc # "idle"
        /\ pending' = pending /\ \A u \in Workers : u # w => flush'[u] = flush[u]
    <3>1. CASE WriteScores(w)
      BY <1>1, <3>1 DEF WriteScores, Flush
    <3>2. CASE ReadPosts(w)
      <4>1. PICK ps \in Chunks(flush[w].todo) :
               flush' = [flush EXCEPT ![w] = [@ EXCEPT !.pc = "writing", !.chunk = ps,
                                  !.read = [p \in Posts |-> IF p \in ps THEN db[p] ELSE 0]]]
        BY <3>2 DEF ReadPosts
      <4> DEFINE read == [p \in Posts |-> IF p \in ps THEN db[p] ELSE 0]
                 f == [flush[w] EXCEPT !.pc = "writing", !.chunk = ps, !.read = read]
      <4>2. f.pc = "writing" /\ f.todo = flush[w].todo
        BY <1>1 DEF Flush
      <4>3. flush' = [flush EXCEPT ![w] = f]
        BY <1>1, <4>1
      <4> HIDE DEF f
      <4>4. flush'[w] = f /\ \A u \in Workers : u # w => flush'[u] = flush[u]
        BY <1>1, <4>3
      <4>5. pending' = pending
        BY <3>2 DEF ReadPosts
      <4> QED BY <4>2, <4>4, <4>5
    <3> QED BY <1>2, <3>1, <3>2
  <2> QED BY <1>1, <2>1, Remember
<1>3. ASSUME NEW f \in Flush, f.todo = flush[w].todo,
             pending' = [pending EXCEPT ![w] = Requeued(w, f)],
             flush' = [flush EXCEPT ![w] = Continued(f)]
      PROVE  Lossless'
  <2>1. /\ Continued(f).pc = "idle" => \A p \in Posts : Continued(f).todo[p] = {}
        /\ \A p \in Posts : Continued(f).todo[p] = IF p \in f.chunk THEN {} ELSE f.todo[p]
    <3>1. Continued(f) = NoFlush \/ Continued(f).pc = "reading"
      BY DEF Continued, NoFlush
    <3>2. \A p \in Posts : NoFlush.todo[p] = {}
      BY DEF NoFlush, Nothing
    <3>3. \A p \in Posts : Continued(f).todo[p] = IF p \in f.chunk THEN {} ELSE f.todo[p]
      BY ContinuedFacts
    <3> QED BY <3>1, <3>2, <3>3
  <2>2. \A p \in Posts : Requeued(w, f)[p] =
           pending[w][p] \cup (IF p \in f.chunk THEN f.todo[p] ELSE {})
    BY <1>1, RequeuedFacts
  <2>3. /\ pending'[w] = Requeued(w, f) /\ flush'[w] = Continued(f)
        /\ \A u \in Workers : u # w => pending'[u] = pending[u] /\ flush'[u] = flush[u]
    BY <1>1, <1>3
  <2>4. \A p \in Posts : pending[w][p] \cup flush[w].todo[p]
                           \subseteq pending'[w][p] \cup flush'[w].todo[p]
    BY <1>3, <2>1, <2>2, <2>3
  <2> QED BY <1>1, <2>1, <2>3, <2>4, Remember
<1>4. CASE ReadPostsFails(w)
  <2> PICK ps \in Chunks(flush[w].todo) :
         LET f == [flush[w] EXCEPT !.chunk = ps] IN
         /\ pending' = [pending EXCEPT ![w] = Requeued(w, f)]
         /\ flush' = [flush EXCEPT ![w] = Continued(f)]
    BY <1>4 DEF ReadPostsFails
  <2> DEFINE f == [flush[w] EXCEPT !.chunk = ps]
  <2>1. ps \in SUBSET Posts
    BY DEF Chunks, Left
  <2>2. f \in Flush /\ f.todo = flush[w].todo
    BY <1>1, <2>1 DEF Flush
  <2>3. pending' = [pending EXCEPT ![w] = Requeued(w, f)] /\ flush' = [flush EXCEPT ![w] = Continued(f)]
    OBVIOUS
  <2> HIDE DEF f
  <2> QED BY <1>3, <2>2, <2>3
<1>5. CASE WriteScoresFails(w)
  BY <1>1, <1>3, <1>5 DEF WriteScoresFails
<1> QED BY <1>2, <1>4, <1>5

LEMMA RememberAck ==
    ASSUME Inv, Lossless, NEW w \in Workers, Ack(w) \/ AckFails(w)
    PROVE  Lossless'
<1>1. /\ TypeOK /\ flush[w] \in Flush /\ flush \in [Workers -> Flush]
      /\ pending \in [Workers -> Ids] /\ UNCHANGED <<losses, status>>
      /\ flush' = [flush EXCEPT ![w] = Continued(flush[w])]
  BY FlushHere DEF Inv, Ack, AckFails, Fault
<1>2. /\ Continued(flush[w]).pc = "idle" => \A p \in Posts : Continued(flush[w]).todo[p] = {}
      /\ \A p \in Posts : Continued(flush[w]).todo[p]
                            = IF p \in flush[w].chunk THEN {} ELSE flush[w].todo[p]
  <2>1. Continued(flush[w]) = NoFlush \/ Continued(flush[w]).pc = "reading"
    BY DEF Continued, NoFlush
  <2>2. \A p \in Posts : NoFlush.todo[p] = {}
    BY DEF NoFlush, Nothing
  <2>3. \A p \in Posts : Continued(flush[w]).todo[p]
                          = IF p \in flush[w].chunk THEN {} ELSE flush[w].todo[p]
    BY <1>1, ContinuedFacts
  <2> QED BY <2>1, <2>2, <2>3
<1>3. flush'[w] = Continued(flush[w]) /\ \A u \in Workers : u # w => flush'[u] = flush[u]
  BY <1>1
<1>4. ASSUME NEW m \in Messages, msg'[m].at = "delivered", Acked(ToAck(flush[w]))
      PROVE  msg[m].at = "delivered" /\ m \notin ToAck(flush[w])
  <2>1. /\ m \in ToAck(flush[w]) \cap At("delivered") => msg'[m].at = "acked"
        /\ m \notin ToAck(flush[w]) \cap At("delivered") => msg'[m].at = msg[m].at
    BY <1>1, <1>4, PutType DEF Acked, TypeOK
  <2> QED BY <1>4, <2>1 DEF At
<1>5. CASE Ack(w)
  <2>1. pending' = pending /\ Acked(ToAck(flush[w]))
    BY <1>5 DEF Ack
  <2>2. ASSUME NEW m \in Messages, msg'[m].at = "delivered", NEW p \in Posts,
               m \in pending[w][p] \cup flush[w].todo[p]
        PROVE  m \in pending'[w][p] \cup flush'[w].todo[p]
    <3>1. m \notin ToAck(flush[w])
      BY <1>4, <2>1, <2>2
    <3>2. p \in flush[w].chunk => m \notin flush[w].todo[p]
      BY <3>1 DEF ToAck
    <3> QED BY <1>2, <1>3, <2>1, <2>2, <3>2
  <2>3. \A m \in Messages : msg'[m].at = "delivered" => msg[m].at = "delivered"
    BY <1>4, <2>1
  <2> QED BY <1>1, <1>2, <1>3, <2>1, <2>2, <2>3, Remember
<1>6. CASE AckFails(w)
  <2>1. pending' = [pending EXCEPT ![w] = Requeued(w, flush[w])]
        /\ (Acked(ToAck(flush[w])) \/ UNCHANGED <<msg, idle>>)
    BY <1>6 DEF AckFails
  <2>2. /\ pending'[w] = Requeued(w, flush[w])
        /\ \A u \in Workers : u # w => pending'[u] = pending[u]
    BY <1>1, <2>1
  <2>3. \A p \in Posts : Requeued(w, flush[w])[p] =
           pending[w][p] \cup (IF p \in flush[w].chunk THEN flush[w].todo[p] ELSE {})
    BY <1>1, RequeuedFacts
  <2>4. \A p \in Posts : pending[w][p] \cup flush[w].todo[p]
                          \subseteq pending'[w][p] \cup flush'[w].todo[p]
    BY <1>2, <1>3, <2>2, <2>3
  <2>5. \A m \in Messages : msg'[m].at = "delivered" => msg[m].at = "delivered"
    BY <1>4, <2>1
  <2> QED BY <1>1, <1>2, <1>3, <2>2, <2>4, <2>5, Remember
<1> QED BY <1>5, <1>6

LEMMA RememberRead ==
    ASSUME Inv, Lossless, NEW w \in Workers, Read(w) \/ Claim(w)
    PROVE  Lossless'
<1>1. PICK ms \in SUBSET Messages :
         /\ Collected(w, ms)
         /\ \A m \in Messages : msg'[m].at = "delivered" => msg[m].at = "delivered" \/ m \in ms
  <2>1. CASE Read(w)
    <3>1. PICK ms \in SUBSET At("stream") : Put(ms, "delivered") /\ Collected(w, ms)
      BY <2>1 DEF Read
    <3>2. ms \in SUBSET Messages
      BY DEF At
    <3>3. \A m \in Messages : m \notin ms => msg'[m].at = msg[m].at
      BY <3>1, PutType DEF Inv, TypeOK
    <3> QED BY <3>1, <3>2, <3>3
  <2>2. CASE Claim(w)
    <3>1. Claimed(w) \in SUBSET Messages
      BY DEF Claimed, At
    <3> QED BY <2>2, <3>1 DEF Claim
  <2> QED BY <2>1, <2>2
<1>2. UNCHANGED <<flush, losses, status>>
  BY DEF Read, Claim
<1>3. \A u \in Workers : u # w => pending'[u] = pending[u]
  BY <1>1, CollectedFacts
<1>4. losses = 0 => /\ \A p \in Posts : pending[w][p] \subseteq pending'[w][p]
                    /\ \A m \in ms : \E p \in Posts : m \in pending'[w][p]
  <2> SUFFICES ASSUME losses = 0
               PROVE  /\ \A p \in Posts : pending[w][p] \subseteq pending'[w][p]
                      /\ \A m \in ms : \E p \in Posts : m \in pending'[w][p]
    OBVIOUS
  <2>1. pending' = [pending EXCEPT ![w] = Merged(@, ByPost(ms))]
    BY <1>1 DEF Lossless, Collected
  <2>2. pending'[w] = Merged(pending[w], ByPost(ms))
    BY <2>1 DEF Inv, TypeOK
  <2>3. \A p \in Posts : pending'[w][p] = pending[w][p] \cup {m \in ms : msg[m].post = p}
    BY <2>2 DEF Merged, ByPost
  <2>4. \A m \in ms : msg[m].post \in Posts
    BY Numbers DEF Inv
  <2> QED BY <2>3, <2>4
<1>5. flush'[w].pc = "idle" => \A p \in Posts : flush'[w].todo[p] = {}
  BY <1>2 DEF Lossless
<1> QED BY <1>1, <1>2, <1>3, <1>4, <1>5, Remember

LEMMA RememberStart ==
    ASSUME Inv, Lossless, NEW w \in Workers, StartFlush(w) \/ LastFlush(w)
    PROVE  Lossless'
<1>1. CASE Started(w) /\ flush[w].pc = "idle" /\ UNCHANGED <<msg, losses>>
           /\ (losses = 0 => UNCHANGED status)
  <2>1. /\ flush'[w].todo = pending[w] /\ flush'[w].pc = "reading"
        /\ \A u \in Workers : u # w => pending'[u] = pending[u] /\ flush'[u] = flush[u]
    BY <1>1 DEF Started, NoFlush, Inv, TypeOK
  <2>2. \A p \in Posts : flush[w].todo[p] = {}
    BY <1>1 DEF Lossless
  <2> QED BY <1>1, <2>1, <2>2, Remember
<1>2. CASE StartFlush(w)
  BY <1>1, <1>2 DEF StartFlush
<1>3. CASE LastFlush(w)
  <2>1. losses # 0 /\ UNCHANGED <<msg, losses>> /\ flush[w].pc = "idle"
    BY <1>3 DEF LastFlush, Lossless, Settled
  <2>2. CASE Started(w)
    BY <1>1, <2>1, <2>2
  <2>3. CASE UNCHANGED <<pending, flush>>
    BY <2>1, <2>3, RememberAside DEF At
  <2> QED BY <1>3, <2>2, <2>3 DEF LastFlush
<1> QED BY <1>2, <1>3

\* A step that is counted as a loss, or is taken by a worker that is not up.
LEMMA RememberLoss ==
    ASSUME Inv, Lossless, NEW w \in Workers,
           ReadFails(w) \/ PrepareFails(w) \/ Stop(w) \/ Crash(w) \/ Close(w) \/ Start(w)
    PROVE  Lossless'
<1>1. losses' # 0
  BY LossCounts DEF ReadFails, PrepareFails, Stop, Crash, Close, Start, Lossless
<1>2. \A u \in Workers : flush'[u] = flush[u] \/ flush'[u] = NoFlush
  BY DEF ReadFails, PrepareFails, Stop, Crash, Close, Start, Ended, Inv, TypeOK
<1>3. \A p \in Posts : NoFlush.todo[p] = {}
  BY DEF NoFlush, Nothing
<1> QED BY <1>1, <1>2, <1>3 DEF Lossless

LEMMA NextLossless == Inv /\ Lossless /\ [Next]_vars => Lossless'
<1> SUFFICES ASSUME Inv, Lossless, [Next]_vars PROVE Lossless'
  OBVIOUS
<1>1. CASE UNCHANGED vars
  BY <1>1, RememberAside DEF vars, At
<1>2. CASE \E p \in Posts : Interact(p) \/ DeletePost(p)
  BY <1>2, RememberAside DEF Interact, DeletePost, At
<1>3. ASSUME NEW m \in Messages, Push(m) \/ GetsIdle(m)
      PROVE  Lossless'
  <2>1. CASE Push(m)
    <3>1. PICK p \in Posts : msg' = [msg EXCEPT ![m] = [at |-> "stream", post |-> p, ver |-> db[p]]]
      BY <2>1 DEF Push
    <3>2. At("delivered")' \subseteq At("delivered")
      BY <3>1 DEF At, Inv, TypeOK
    <3> QED BY <2>1, <3>2, RememberAside DEF Push
  <2>2. CASE GetsIdle(m)
    BY <2>2, RememberAside DEF GetsIdle, At
  <2> QED BY <1>3, <2>1, <2>2
<1>4. ASSUME NEW w \in Workers, Worker(w)
      PROVE  Lossless'
  <2>1. CASE Progress(w) /\ ~FinishRefresh(w)
    BY <2>1, RememberRead, RememberFlush, RememberAck, RememberStart, RememberLoss DEF Progress
  <2>2. CASE \/ FinishRefresh(w) \/ FindStalled(w) \/ StartRefresh(w)
             \/ ClaimFails(w) \/ RefreshFails(w)
    BY <2>2, RememberAside
       DEF FinishRefresh, FindStalled, StartRefresh, ClaimFails, RefreshFails, Fault, At
  <2>3. CASE Read(w) \/ StartFlush(w) \/ Start(w) \/ ReadFails(w) \/ ReadPostsFails(w)
    BY <2>3, RememberRead, RememberStart, RememberLoss, RememberFlush
  <2>4. CASE PrepareFails(w) \/ WriteScoresFails(w) \/ AckFails(w) \/ Stop(w) \/ Crash(w)
    BY <2>4, RememberLoss, RememberFlush, RememberAck
  <2> QED BY <1>4, <2>1, <2>2, <2>3, <2>4 DEF Worker
<1> QED BY <1>1, <1>2, <1>3, <1>4 DEF Next

\* Failed reads, writes and acknowledgements put back what their chunk took:
\* only a crash, a stop or a lost answer leaves a message to be claimed.
THEOREM Remembered == Spec => []NothingForgotten
<1>1. Init => Lossless
  <2>1. ASSUME Init PROVE Lossless
    <3>1. \A p \in Posts : NoFlush.todo[p] = {}
      BY DEF NoFlush, Nothing
    <3>2. \A m \in Messages : msg[m].at = "unsent"
      BY <2>1 DEF Init
    <3> QED BY <2>1, <3>1, <3>2 DEF Init, Lossless, At
  <2> QED BY <2>1
<1>2. Inv /\ Lossless /\ [Next]_vars => Lossless'
  BY NextLossless
<1>3. Lossless => NothingForgotten
  BY DEF Lossless, NothingForgotten
<1> QED BY <1>1, <1>2, <1>3, Invariance, PTL DEF Spec
=============================================================================
