---------------------------- MODULE MCMessaging ----------------------------
(***************************************************************************)
(* Small instances of Messaging for TLC.                                   *)
(***************************************************************************)
EXTENDS Messaging, TLC

CONSTANTS a, b, c1, m1, m2, t1, t2, w1

TwoUsers == {a, b}
OneConv == {c1}
TwoMsgs == {m1, m2}
TwoTxns == {t1, t2}
OneWorker == {w1}
TxnSymmetry == Permutations(Txns)

(***************************************************************************)
(* One of two scenes is chosen at the start.  Either two transactions      *)
(* overlap in whatever they do around one message, while one account comes *)
(* and goes (the conversation is locked and unlocked if it is the one that *)
(* sends, whom the lock stops); or everything happens one after the other to two messages and *)
(* their notifications, while accounts go: there the locks and edits of    *)
(* the first scene, which concern neither badge nor order, are left out.   *)
(* The first message is m1, a sends it, and the conversation was created   *)
(* at 1 or with it.  In the first scene m1 has the time 2.  In the second  *)
(* it has the time 3, and the server that takes the next message may be at *)
(* 3 too, in the same millisecond, or behind it.                           *)
(***************************************************************************)
VARIABLE scene      \* the account that comes and goes, or None

MCInit == Init /\ scene \in Users \cup {None}

FirstMessage ==
    /\ store'.msg[m1] = Unborn => store'.msg[m2] = Unborn
    /\ HasMsg(store', m1) => store'.msg[m1].sender \in {a, None}
    /\ \A c \in Convs : HasConv(store', c) /\ store'.msg[m1] = Unborn =>
         store'.conv[c].lastMessageAt = 1

Unlocked == \A c \in Convs : HasConv(store', c) => ~store'.conv[c].isLocked

Overlapping ==
    /\ scene # None
    /\ store'.msg[m2] = Unborn
    /\ \A u \in Users \ {scene} : ~store'.isOut[u]
    /\ HasMsg(store', m1) => store'.msg[m1].createdAt = 2
    /\ scene = b => Unlocked
    /\ UNCHANGED job

OneByOne ==
    /\ scene = None
    /\ Cardinality({p \in Txns : snap'[p] # None}) <= 1
    /\ \A u \in Users : store.isOut[u] => store'.isOut[u]
    /\ HasMsg(store', m1) => store'.msg[m1].createdAt = 3
    /\ Unlocked
    /\ \A m \in Msgs :
         HasMsg(store', m) /\ store'.msg[m].sender # None => store'.msg[m].isOriginal

MCSpec ==
    /\ MCInit
    /\ [][Next /\ FirstMessage /\ (Overlapping \/ OneByOne) /\ UNCHANGED scene]_<<vars, scene>>
=============================================================================
