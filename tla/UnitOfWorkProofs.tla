-------------------------- MODULE UnitOfWorkProofs --------------------------
(***************************************************************************)
(* Proofs about UnitOfWork for every set of calls and all limits: permits  *)
(* are conserved, the queue is exact, and what a call reports is true.     *)
(***************************************************************************)
EXTENDS UnitOfWork, FiniteSetTheorems, SequenceTheorems, TLAPS

USE DEF At, Goto, Holds, Finish, Abort

Holders == {c \in Calls : Holds(c)}
Waiting == {c \in Calls : At(c, "waiting")}

\* What the timer leaves of the queue.
LEMMA RemoveAtElements ==
    ASSUME NEW S, NEW s \in Seq(S), NEW i \in DOMAIN s
    PROVE  /\ RemoveAt(s, i) \in Seq(S)
           /\ Len(RemoveAt(s, i)) = Len(s) - 1
           /\ \A j \in 1 .. Len(s) - 1 : RemoveAt(s, i)[j] = IF j < i THEN s[j] ELSE s[j + 1]
<1> DEFINE a == SubSeq(s, 1, i - 1)
           b == SubSeq(s, i + 1, Len(s))
<1>1. i \in 1 .. Len(s) /\ Len(s) \in Nat
  OBVIOUS
<1>2. a \in Seq(S) /\ Len(a) = i - 1 /\ \A j \in 1 .. i - 1 : a[j] = s[j]
  BY <1>1
<1>3. b \in Seq(S) /\ Len(b) = Len(s) - i /\ \A j \in 1 .. Len(s) - i : b[j] = s[i + j]
  BY <1>1
<1> HIDE DEF a, b
<1>4. /\ a \o b \in Seq(S)
      /\ Len(a \o b) = Len(a) + Len(b)
      /\ \A j \in 1 .. Len(a) + Len(b) :
            (a \o b)[j] = IF j <= Len(a) THEN a[j] ELSE b[j - Len(a)]
  BY <1>2, <1>3, SMTT(30)
<1>5. ASSUME NEW j \in 1 .. Len(s) - 1
      PROVE  (a \o b)[j] = IF j < i THEN s[j] ELSE s[j + 1]
  <2>1. CASE j < i
    <3>1. j \in 1 .. Len(a) + Len(b) /\ j <= Len(a) /\ j \in 1 .. i - 1
      BY <2>1, <1>1, <1>2, <1>3
    <3>2. (a \o b)[j] = a[j]
      BY <3>1, <1>4
    <3>3. a[j] = s[j]
      BY <3>1, <1>2
    <3> QED BY <3>2, <3>3, <2>1
  <2>2. CASE ~(j < i)
    <3>5. j \in 1 .. Len(a) + Len(b) /\ ~(j <= Len(a)) /\ Len(a) = i - 1
      BY <2>2, <1>1, <1>2, <1>3
    <3>1. (a \o b)[j] = b[j - (i - 1)]
      BY <3>5, <1>4
    <3>2. j - (i - 1) \in 1 .. Len(s) - i
      BY <2>2, <1>1
    <3>3. b[j - (i - 1)] = s[i + (j - (i - 1))]
      BY <3>2, <1>3
    <3>4. i + (j - (i - 1)) = j + 1
      BY <1>1
    <3> QED BY <3>1, <3>3, <3>4, <2>2
  <2> QED BY <2>1, <2>2
<1>6. Len(a \o b) = Len(s) - 1
  BY <1>1, <1>2, <1>3, <1>4
<1>7. RemoveAt(s, i) = a \o b
  BY DEF RemoveAt, a, b
<1> QED BY <1>4, <1>5, <1>6, <1>7

\* A queue with distinct elements loses exactly the element at i.
LEMMA RemoveAtSet ==
    ASSUME NEW S, NEW s \in Seq(S), NEW i \in DOMAIN s,
           \A j, k \in DOMAIN s : s[j] = s[k] => j = k
    PROVE  /\ ToSet(RemoveAt(s, i)) = ToSet(s) \ {s[i]}
           /\ \A j, k \in DOMAIN RemoveAt(s, i) :
                 RemoveAt(s, i)[j] = RemoveAt(s, i)[k] => j = k
<1> DEFINE r == RemoveAt(s, i)
<1>1. /\ r \in Seq(S) /\ Len(r) = Len(s) - 1
      /\ \A j \in 1 .. Len(s) - 1 : r[j] = IF j < i THEN s[j] ELSE s[j + 1]
  BY RemoveAtElements
<1> HIDE DEF r
<1>2. DOMAIN s = 1 .. Len(s) /\ Len(s) \in Nat /\ DOMAIN r = 1 .. Len(s) - 1
  BY <1>1
<1>3. ASSUME NEW x \in ToSet(r) PROVE x \in ToSet(s) \ {s[i]}
  <2>1. PICK j \in 1 .. Len(s) - 1 : r[j] = x
    BY <1>2 DEF ToSet
  <2>2. CASE j < i
    <3>1. x = s[j] /\ j \in 1 .. Len(s) /\ j # i
      BY <2>1, <2>2, <1>1, <1>2
    <3> QED BY <3>1, <1>2 DEF ToSet
  <2>3. CASE ~(j < i)
    <3>1. x = s[j + 1] /\ j + 1 \in 1 .. Len(s) /\ j + 1 # i
      BY <2>1, <2>3, <1>1, <1>2
    <3> QED BY <3>1, <1>2 DEF ToSet
  <2> QED BY <2>2, <2>3
<1>4. ASSUME NEW x \in ToSet(s) \ {s[i]} PROVE x \in ToSet(r)
  <2>1. PICK j \in 1 .. Len(s) : s[j] = x /\ j # i
    BY <1>2 DEF ToSet
  <2>2. CASE j < i
    <3>1. j \in 1 .. Len(s) - 1 /\ r[j] = x
      BY <2>1, <2>2, <1>1, <1>2
    <3> QED BY <3>1, <1>2 DEF ToSet
  <2>3. CASE j > i
    <3>1. j - 1 \in 1 .. Len(s) - 1 /\ ~(j - 1 < i) /\ (j - 1) + 1 = j
      BY <2>1, <2>3, <1>2
    <3>2. r[j - 1] = x
      BY <3>1, <2>1, <1>1
    <3> QED BY <3>1, <3>2, <1>2 DEF ToSet
  <2> QED BY <2>1, <2>2, <2>3
<1>5. \A j, k \in DOMAIN r : r[j] = r[k] => j = k
  <2> SUFFICES ASSUME NEW j \in 1 .. Len(s) - 1, NEW k \in 1 .. Len(s) - 1, r[j] = r[k]
               PROVE  j = k
    BY <1>2
  <2> DEFINE at(m) == IF m < i THEN m ELSE m + 1
  <2>1. \A m \in 1 .. Len(s) - 1 : at(m) \in 1 .. Len(s) /\ r[m] = s[at(m)]
    BY <1>1, <1>2
  <2>2. at(j) = at(k)
    <3> HIDE DEF at
    <3> QED BY <2>1, <1>2
  <2> QED BY <2>2, <1>2
<1> QED BY <1>3, <1>4, <1>5 DEF r

-----------------------------------------------------------------------------
LEMMA FreshCall ==
    [pc |-> "idle", body |-> 0, commit |-> 0, error |-> {}, outcome |-> "none"] \in Call
<1>1. {} \in Errors
  BY DEF Errors
<1>2. 0 \in 0 .. MaxBodyAttempts /\ 0 \in 0 .. MaxCommitAttempts
  BY LimitsAssumption
<1>3. "idle" \in Labels
  BY DEF Labels
<1> QED BY <1>1, <1>2, <1>3 DEF Call

THEOREM InitEstablishes == Init => IInv
<1> SUFFICES ASSUME Init PROVE IInv
  OBVIOUS
<1> USE LimitsAssumption DEF Init, NewSemaphore
<1>1. TypeOK
  <2>2. sem \in [permits : Nat, waiting : Seq(Calls)]
    OBVIOUS
  <2>3. call \in [Calls -> Call]
    BY FreshCall
  <2> QED BY <2>2, <2>3 DEF TypeOK
<1>2. QueueIsTheWaiters
  BY DEF QueueIsTheWaiters, ToSet
<1>3. PermitsAccounted
  <2>1. {c \in Calls : Holds(c)} = {}
    OBVIOUS
  <2>2. Cardinality({c \in Calls : Holds(c)}) = 0
    BY <2>1, FS_EmptySet, Zenon
  <2>3. sem.permits = MaxConcurrent
    OBVIOUS
  <2> HIDE DEF Init
  <2> QED BY <2>2, <2>3 DEF PermitsAccounted
<1>4. \A c \in Calls : CallInv(c)
  BY DEF CallInv
<1> QED BY <1>1, <1>2, <1>3, <1>4 DEF IInv

-----------------------------------------------------------------------------
\* A step that leaves the semaphore and its two sides as they are.
LEMMA SamePermits ==
    ASSUME QueueIsTheWaiters, PermitsAccounted, sem' = sem,
           Holders' = Holders, Waiting' = Waiting
    PROVE  QueueIsTheWaiters' /\ PermitsAccounted'
BY DEF QueueIsTheWaiters, PermitsAccounted, Holders, Waiting

\* A call that changes only itself between two labels of a permit holder.
LEMMA HolderStays ==
    ASSUME NEW c \in Calls, call \in [Calls -> Call], Holds(c), Holds(c)',
           call' \in [Calls -> Call],
           \A d \in Calls \ {c} : call'[d] = call[d]
    PROVE  Holders' = Holders /\ Waiting' = Waiting
BY DEF Holders, Waiting

\* The parts of the invariant of a call depend only on its own state.
LEMMA SameCall ==
    ASSUME NEW d \in Calls, CallInv(d), call'[d] = call[d], txn'[d] = txn[d],
           written'[d] = written[d]
    PROVE  CallInv(d)'
BY DEF CallInv

\* A step of one call that keeps the semaphore and a well-typed state: what is
\* left to show is the call's own invariant and that the two sets stay.
Txn == {"none", "open", "indoubt", "committed", "aborted"}
Only(c) ==
    /\ call' = [call EXCEPT ![c] = call'[c]] /\ call'[c] \in Call
    /\ txn' = [txn EXCEPT ![c] = txn'[c]] /\ txn'[c] \in Txn
    /\ written' = [written EXCEPT ![c] = written'[c]] /\ written'[c] \in Nat
    /\ sem' = sem

LEMMA CallStep ==
    ASSUME IInv, NEW c \in Calls, Only(c),
           Holders' = Holders, Waiting' = Waiting, CallInv(c)'
    PROVE  IInv'
<1>1. TypeOK'
  <2>1. TypeOK
    BY DEF IInv
  <2> QED BY <2>1 DEF TypeOK, Only, Txn
<1>2. QueueIsTheWaiters' /\ PermitsAccounted'
  BY SamePermits DEF IInv, Only
<1>3. ASSUME NEW d \in Calls PROVE CallInv(d)'
  <2>1. CASE d = c
    BY <2>1
  <2>2. CASE d # c
    BY <2>2, SameCall DEF IInv, TypeOK, Only
  <2> QED BY <2>1, <2>2
<1> QED BY <1>1, <1>2, <1>3 DEF IInv

\* The steps of a call that holds its permit and keeps it.
LEMMA HoldingStep ==
    ASSUME IInv, NEW c \in Calls, Only(c), Holds(c), Holds(c)', CallInv(c)'
    PROVE  IInv'
<1>1. /\ call \in [Calls -> Call] /\ call' \in [Calls -> Call]
      /\ \A d \in Calls \ {c} : call'[d] = call[d]
  BY DEF IInv, TypeOK, Only
<1>2. Holders' = Holders /\ Waiting' = Waiting
  BY <1>1, HolderStays
<1> QED BY <1>2, CallStep

\* A step of the server on the transaction of a call.
LEMMA ServerStep ==
    ASSUME IInv, NEW c \in Calls, Server(c)
    PROVE  IInv'
<1>1. Only(c)
  BY DEF IInv, TypeOK, Server, CommitLands, ServerAborts, Apply, Only, Txn
<1>2. Holders' = Holders /\ Waiting' = Waiting
  BY DEF Server, CommitLands, ServerAborts, Holders, Waiting
<1>3. call' = call /\ txn \in [Calls -> Txn] /\ written \in [Calls -> Nat] /\ CallInv(c)
  BY DEF Server, CommitLands, ServerAborts, IInv, TypeOK, Txn
<1>4. CASE CommitLands(c)
  <2>1. txn[c] = "indoubt" /\ txn'[c] = "committed" /\ written'[c] = 1
    BY <1>3, <1>4 DEF CommitLands, Apply, CallInv
  <2>2. CallInv(c)'
    BY <1>3, <2>1 DEF CallInv
  <2> QED BY <1>1, <1>2, <2>2, CallStep
<1>5. CASE ServerAborts(c)
  <2>1. txn[c] \in {"open", "indoubt"} /\ txn'[c] = "aborted" /\ written'[c] = written[c]
    BY <1>3, <1>5 DEF ServerAborts
  <2>2. CallInv(c)'
    BY <1>3, <2>1 DEF CallInv
  <2> QED BY <1>1, <1>2, <2>2, CallStep
<1> QED BY <1>4, <1>5 DEF Server

-----------------------------------------------------------------------------
\* What the own steps of a call make of its record is again a record of a call.
Ended(r, o) == [r EXCEPT !.pc = "ending", !.outcome = o]
Failing(r, e) == [r EXCEPT !.pc = "aborting", !.error = e]
Started(r) == [r EXCEPT !.pc = "running", !.body = 1]
Returned(r) == [r EXCEPT !.pc = "committing", !.commit = 1]
CommitAgain(r) == [r EXCEPT !.commit = @ + 1]

Moved(r, l) == [r EXCEPT !.pc = l]
Rejected(r) == [r EXCEPT !.pc = "done", !.outcome = "rejected"]

LEMMA MovedCall ==
    ASSUME NEW r \in Call
    PROVE  /\ \A l \in Labels : Moved(r, l) \in Call
           /\ \A l : Moved(r, l).pc = l /\ Moved(r, l).outcome = r.outcome
           /\ Moved(r, "starting") \in Call /\ Moved(r, "waiting") \in Call
           /\ Moved(r, "done") \in Call /\ Rejected(r) \in Call
BY DEF Moved, Rejected, Call, Labels

LEMMA EndedCall ==
    ASSUME NEW r \in Call, NEW o \in {"committed", "failed", "ambiguous"}
    PROVE  Ended(r, o) \in Call /\ Ended(r, o).pc = "ending" /\ Ended(r, o).outcome = o
BY DEF Ended, Call, Labels

LEMMA FailingCall ==
    ASSUME NEW r \in Call, NEW e \in Errors
    PROVE  Failing(r, e) \in Call
BY DEF Failing, Call, Labels

LEMMA StepCall ==
    ASSUME NEW r \in Call
    PROVE  /\ Started(r) \in Call
           /\ Returned(r) \in Call
           /\ r.body < MaxBodyAttempts => Again(r) \in Call
           /\ r.commit < MaxCommitAttempts => CommitAgain(r) \in Call
<1>1. 1 \in 0 .. MaxBodyAttempts /\ 1 \in 0 .. MaxCommitAttempts /\ 0 \in 0 .. MaxCommitAttempts
  BY LimitsAssumption
<1>2. /\ r.body < MaxBodyAttempts => r.body + 1 \in 0 .. MaxBodyAttempts
      /\ r.commit < MaxCommitAttempts => r.commit + 1 \in 0 .. MaxCommitAttempts
  BY LimitsAssumption DEF Call
<1>3. {} \in Errors
  BY DEF Errors
<1> QED BY <1>1, <1>2, <1>3 DEF Call, Labels, Started, Returned, Again, CommitAgain

\* StartSession, the body, the abort and the commit.
LEMMA OwnStep ==
    ASSUME IInv, NEW c \in Calls, Proceed(c), ~End(c)
    PROVE  IInv'
<1> SUFFICES Only(c) /\ Holds(c) /\ Holds(c)' /\ CallInv(c)'
  BY HoldingStep
<1>1. /\ call[c] \in Call /\ CallInv(c) /\ call \in [Calls -> Call]
      /\ txn \in [Calls -> Txn] /\ written \in [Calls -> Nat]
  BY DEF IInv, TypeOK, Txn
<1> USE DEF Only, Txn
<1>2. CASE StartSession(c)
  <2>6. call' = [call EXCEPT ![c] = Started(call[c])]
    BY <1>2 DEF StartSession, Started
  <2>1. call'[c] \in Call /\ call' = [call EXCEPT ![c] = call'[c]]
    BY <1>1, <2>6, StepCall
  <2>2. Only(c)
    BY <1>1, <1>2, <2>1 DEF StartSession
  <2>3. Holds(c) /\ Holds(c)'
    BY <1>1, <1>2 DEF StartSession
  <2>4. CallInv(c)'
    BY <1>1, <1>2 DEF StartSession, CallInv
  <2> QED BY <2>2, <2>3, <2>4
<1>3. CASE StartSessionFails(c)
  <2>6. call' = [call EXCEPT ![c] = Ended(call[c], "failed")]
    BY <1>3 DEF StartSessionFails, Ended
  <2>1. call'[c] \in Call /\ call' = [call EXCEPT ![c] = call'[c]]
    BY <1>1, <2>6, EndedCall
  <2>2. Only(c)
    BY <1>1, <1>3, <2>1 DEF StartSessionFails
  <2>3. Holds(c) /\ Holds(c)'
    BY <1>1, <1>3 DEF StartSessionFails
  <2>4. CallInv(c)'
    BY <1>1, <1>3 DEF StartSessionFails, CallInv
  <2> QED BY <2>2, <2>3, <2>4
<1>4. CASE BodyReturns(c)
  <2>6. call' = [call EXCEPT ![c] = Returned(call[c])]
    BY <1>4 DEF BodyReturns, Returned
  <2>1. call'[c] \in Call /\ call' = [call EXCEPT ![c] = call'[c]]
    BY <1>1, <2>6, StepCall
  <2>2. Only(c)
    BY <1>1, <1>4, <2>1 DEF BodyReturns
  <2>3. Holds(c) /\ Holds(c)'
    BY <1>1, <1>4 DEF BodyReturns
  <2>4. CallInv(c)'
    BY <1>1, <1>4 DEF BodyReturns, CallInv
  <2> QED BY <2>2, <2>3, <2>4
<1>5. CASE BodyThrows(c)
  <2>5. PICK e \in Errors : Abort(c, e)
    BY <1>5 DEF BodyThrows
  <2>6. call' = [call EXCEPT ![c] = Failing(call[c], e)]
    BY <1>5, <2>5 DEF BodyThrows, Failing
  <2>1. call'[c] \in Call /\ call' = [call EXCEPT ![c] = call'[c]]
    BY <1>1, <2>6, FailingCall
  <2>2. Only(c)
    BY <1>1, <1>5, <2>1 DEF BodyThrows
  <2>3. Holds(c) /\ Holds(c)'
    BY <1>1, <1>5, <2>5 DEF BodyThrows
  <2>4. CallInv(c)'
    BY <1>1, <1>5, <2>5 DEF BodyThrows, CallInv
  <2> QED BY <2>2, <2>3, <2>4
<1>6. CASE Aborted(c)
  <2>1. \/ /\ call' = [call EXCEPT ![c] = Again(call[c])] /\ call[c].body < MaxBodyAttempts
           /\ txn' = [txn EXCEPT ![c] = "open"]
        \/ /\ call' = [call EXCEPT ![c] = Ended(call[c], "failed")]
           /\ txn' = [txn EXCEPT ![c] = IF @ = "open" THEN "aborted" ELSE @]
    <3>1. CASE Retryable(c)
      <4>1. call[c].body < MaxBodyAttempts
        BY <3>1 DEF Retryable
      <4> QED BY <1>6, <3>1, <4>1 DEF Aborted
    <3>2. CASE ~Retryable(c)
      BY <1>6, <3>2 DEF Aborted, Ended
    <3> QED BY <3>1, <3>2
  <2>2. call'[c] \in Call /\ call' = [call EXCEPT ![c] = call'[c]]
    BY <1>1, <2>1, EndedCall, StepCall
  <2>3. Only(c)
    BY <1>1, <1>6, <2>1, <2>2 DEF Aborted
  <2>4. Holds(c) /\ Holds(c)' /\ CallInv(c)'
    <3>1. \/ /\ call'[c].pc = "running" /\ call'[c].outcome = call[c].outcome /\ txn'[c] = "open"
          \/ /\ call'[c].pc = "ending" /\ call'[c].outcome = "failed"
             /\ txn'[c] = IF txn[c] = "open" THEN "aborted" ELSE txn[c]
      <4>1. /\ Again(call[c]).pc = "running" /\ Again(call[c]).outcome = call[c].outcome
            /\ Ended(call[c], "failed").pc = "ending" /\ Ended(call[c], "failed").outcome = "failed"
        BY <1>1 DEF Again, Ended, Call
      <4> QED BY <1>1, <2>1, <4>1
    <3>2. At(c, "aborting") /\ written' = written
      BY <1>6 DEF Aborted
    <3> QED BY <1>1, <3>1, <3>2 DEF CallInv
  <2> QED BY <2>3, <2>4
<1>7. CASE AbortFails(c)
  <2>6. call' = [call EXCEPT ![c] = Ended(call[c], "failed")]
    BY <1>7 DEF AbortFails, Ended
  <2>1. call'[c] \in Call /\ call' = [call EXCEPT ![c] = call'[c]]
    BY <1>1, <2>6, EndedCall
  <2>2. Only(c)
    BY <1>1, <1>7, <2>1 DEF AbortFails
  <2>3. Holds(c) /\ Holds(c)'
    BY <1>1, <1>7 DEF AbortFails
  <2>4. CallInv(c)'
    BY <1>1, <1>7 DEF AbortFails, CallInv
  <2> QED BY <2>2, <2>3, <2>4
<1>8. CASE CommitSucceeds(c)
  <2>6. call' = [call EXCEPT ![c] = Ended(call[c], "committed")]
    BY <1>8 DEF CommitSucceeds, Ended
  <2>1. call'[c] \in Call /\ call' = [call EXCEPT ![c] = call'[c]]
    BY <1>1, <2>6, EndedCall
  <2>2. Only(c)
    BY <1>1, <1>8, <2>1 DEF CommitSucceeds, Apply
  <2>3. Holds(c) /\ Holds(c)'
    BY <1>1, <1>8 DEF CommitSucceeds, Apply
  <2>4. CallInv(c)'
    BY <1>1, <1>8 DEF CommitSucceeds, Apply, CallInv
  <2> QED BY <2>2, <2>3, <2>4
<1>9. CASE CommitUnanswered(c)
  <2>1. /\ \/ call' = [call EXCEPT ![c] = CommitAgain(call[c])] /\ call[c].commit < MaxCommitAttempts
           \/ call' = [call EXCEPT ![c] = Ended(call[c], "ambiguous")]
        /\ txn' = [txn EXCEPT ![c] = IF @ = "open" THEN "indoubt" ELSE @]
    BY <1>9 DEF CommitUnanswered, InDoubt, CommitAgain, Ended
  <2>2. call'[c] \in Call /\ call' = [call EXCEPT ![c] = call'[c]]
    BY <1>1, <2>1, EndedCall, StepCall
  <2>3. Only(c)
    BY <1>1, <1>9, <2>1, <2>2 DEF CommitUnanswered
  <2>4. Holds(c) /\ Holds(c)' /\ CallInv(c)'
    <3>1. /\ \/ call'[c].pc = "committing" /\ call'[c].outcome = call[c].outcome
             \/ call'[c].pc = "ending" /\ call'[c].outcome = "ambiguous"
          /\ txn'[c] = IF txn[c] = "open" THEN "indoubt" ELSE txn[c]
      <4>1. At(c, "committing")
        BY <1>9 DEF CommitUnanswered
      <4>2. /\ CommitAgain(call[c]).pc = "committing"
            /\ CommitAgain(call[c]).outcome = call[c].outcome
            /\ Ended(call[c], "ambiguous").pc = "ending"
            /\ Ended(call[c], "ambiguous").outcome = "ambiguous"
        BY <1>1, <4>1 DEF CommitAgain, Ended, Call
      <4> QED BY <1>1, <2>1, <4>2
    <3>2. At(c, "committing") /\ written' = written
      BY <1>9 DEF CommitUnanswered
    <3> QED BY <1>1, <3>1, <3>2 DEF CallInv
  <2> QED BY <2>3, <2>4
<1>10. CASE CommitRefused(c)
  <2>5. PICK e \in Errors : Abort(c, e)
    BY <1>10 DEF CommitRefused
  <2>6. call' = [call EXCEPT ![c] = Failing(call[c], e)]
    BY <1>10, <2>5 DEF CommitRefused, Failing
  <2>1. call'[c] \in Call /\ call' = [call EXCEPT ![c] = call'[c]]
    BY <1>1, <2>6, FailingCall
  <2>2. Only(c)
    BY <1>1, <1>10, <2>1 DEF CommitRefused
  <2>3. Holds(c) /\ Holds(c)'
    BY <1>1, <1>10, <2>5 DEF CommitRefused
  <2>4. CallInv(c)'
    BY <1>1, <1>10, <2>5 DEF CommitRefused, CallInv
  <2> QED BY <2>2, <2>3, <2>4
<1> QED BY <1>2, <1>3, <1>4, <1>5, <1>6, <1>7, <1>8, <1>9, <1>10 DEF Proceed
-----------------------------------------------------------------------------
\* The steps that move the semaphore, and wake or withdraw a waiter.

LEMMA SemaphoreTypes ==
    ASSUME NEW s \in [permits : Nat, waiting : Seq(Calls)]
    PROVE  /\ Free(s) => Taken(s) \in [permits : Nat, waiting : Seq(Calls)]
           /\ \A c \in Calls : Joined(s, c) \in [permits : Nat, waiting : Seq(Calls)]
           /\ Released(s) \in [permits : Nat, waiting : Seq(Calls)]
<1>1. s.permits \in Nat /\ s.waiting \in Seq(Calls)
  OBVIOUS
<1>2. Free(s) => s.permits - 1 \in Nat
  BY <1>1 DEF Free
<1>3. s.permits + 1 \in Nat /\ \A c \in Calls : Append(s.waiting, c) \in Seq(Calls)
  BY <1>1
<1>4. s.waiting # <<>> => Tail(s.waiting) \in Seq(Calls)
  BY <1>1
<1>5. Free(s) => Taken(s) \in [permits : Nat, waiting : Seq(Calls)]
  BY <1>1, <1>2 DEF Taken
<1>6. \A c \in Calls : Joined(s, c) \in [permits : Nat, waiting : Seq(Calls)]
  BY <1>1, <1>3 DEF Joined
<1>7. Released(s) \in [permits : Nat, waiting : Seq(Calls)]
  BY <1>1, <1>3, <1>4 DEF Released
<1> QED BY <1>5, <1>6, <1>7

LEMMA HoldersFinite == IsFiniteSet(Holders)
<1>1. Holders \subseteq Calls
  BY DEF Holders
<1> QED BY <1>1, CallsAssumption, FS_Subset, Zenon

LEMMA AcquireStep ==
    ASSUME IInv, NEW c \in Calls, Acquire(c)
    PROVE  IInv'
<1>1. TypeOK /\ QueueIsTheWaiters /\ PermitsAccounted /\ CallInv(c)
  BY DEF IInv
<1>2. \A d \in Calls \ {c} : call'[d] = call[d] /\ txn'[d] = txn[d] /\ written'[d] = written[d]
  BY <1>1 DEF Acquire, TypeOK
<1>3. \A d \in Calls : CallInv(d)'
  <2>1. CallInv(c)'
    BY <1>1 DEF CallInv, Acquire, TypeOK, Call
  <2> QED BY <2>1, <1>2, SameCall DEF IInv
<1>4. CASE Free(sem)
  <2>1. sem' = Taken(sem) /\ Goto(c, "starting") /\ At(c, "idle") /\ UNCHANGED <<txn, written>>
    BY <1>4 DEF Acquire
  <2>2. sem.waiting = <<>> /\ sem'.waiting = <<>> /\ sem'.permits = sem.permits - 1
        /\ sem.permits \in Nat /\ sem.permits > 0
    BY <1>1, <1>4, <2>1 DEF Taken, Free, QueueIsTheWaiters, TypeOK
  <2>3. TypeOK'
    <3>1. sem' \in [permits : Nat, waiting : Seq(Calls)]
      BY <1>1, <1>4, <2>1, SemaphoreTypes DEF TypeOK
    <3>2. call[c] \in Call /\ call' = [call EXCEPT ![c] = Moved(call[c], "starting")]
      BY <1>1, <2>1 DEF TypeOK, Moved
    <3>3. call' \in [Calls -> Call]
      BY <1>1, <3>2, MovedCall DEF TypeOK
    <3> QED BY <1>1, <2>1, <3>1, <3>3 DEF TypeOK
  <2>4. Holders' = Holders \cup {c} /\ c \notin Holders /\ Waiting' = Waiting
    BY <1>1, <2>1 DEF Holders, Waiting, TypeOK, Call
  <2>5. QueueIsTheWaiters'
    BY <1>1, <2>2, <2>4 DEF QueueIsTheWaiters, Waiting
  <2>6. Cardinality(Holders') = Cardinality(Holders) + 1
    BY <2>4, HoldersFinite, FS_AddElement
  <2>7. PermitsAccounted'
    <3>1. Cardinality(Holders) \in Nat
      BY HoldersFinite, FS_CardinalityType
    <3>2. sem.permits + Cardinality(Holders) = MaxConcurrent
      BY <1>1 DEF PermitsAccounted, Holders
    <3>3. sem'.permits + Cardinality(Holders') = MaxConcurrent
      BY <2>2, <2>6, <3>1, <3>2
    <3> QED BY <3>3 DEF PermitsAccounted, Holders
  <2> QED BY <1>3, <2>3, <2>5, <2>7 DEF IInv
<1>5. CASE ~Free(sem)
  <2>1. sem' = Joined(sem, c) /\ Goto(c, "waiting") /\ At(c, "idle") /\ UNCHANGED <<txn, written>>
    BY <1>5 DEF Acquire
  <2>2. sem.permits = 0 /\ sem'.permits = 0 /\ sem'.waiting = Append(sem.waiting, c)
        /\ sem.waiting \in Seq(Calls)
    BY <1>1, <1>5, <2>1 DEF Joined, Free, TypeOK
  <2>3. TypeOK'
    <3>1. sem' \in [permits : Nat, waiting : Seq(Calls)]
      BY <1>1, <2>1, SemaphoreTypes DEF TypeOK
    <3>2. call[c] \in Call /\ call' = [call EXCEPT ![c] = Moved(call[c], "waiting")]
      BY <1>1, <2>1 DEF TypeOK, Moved
    <3>3. call' \in [Calls -> Call]
      BY <1>1, <3>2, MovedCall DEF TypeOK
    <3> QED BY <1>1, <2>1, <3>1, <3>3 DEF TypeOK
  <2>4. Holders' = Holders /\ Waiting' = Waiting \cup {c} /\ c \notin Waiting
    BY <1>1, <2>1 DEF Holders, Waiting, TypeOK, Call
  <2>5. /\ ToSet(sem'.waiting) = ToSet(sem.waiting) \cup {c}
        /\ c \notin ToSet(sem.waiting)
    <3>1. c \notin ToSet(sem.waiting)
      BY <1>1, <2>4 DEF QueueIsTheWaiters, Waiting
    <3>2. /\ Len(sem'.waiting) = Len(sem.waiting) + 1 /\ Len(sem.waiting) \in Nat
          /\ \A i \in 1 .. Len(sem.waiting) : sem'.waiting[i] = sem.waiting[i]
          /\ sem'.waiting[Len(sem.waiting) + 1] = c
          /\ sem'.waiting \in Seq(Calls)
      BY <2>2
    <3>3. /\ DOMAIN sem.waiting = 1 .. Len(sem.waiting)
          /\ DOMAIN sem'.waiting = 1 .. Len(sem.waiting) + 1
      BY <2>2, <3>2
    <3> QED BY <3>1, <3>2, <3>3 DEF ToSet
  <2>6. \A i, j \in DOMAIN sem'.waiting : sem'.waiting[i] = sem'.waiting[j] => i = j
    BY <1>1, <2>2, <2>5 DEF QueueIsTheWaiters, ToSet
  <2>7. QueueIsTheWaiters'
    BY <1>1, <2>2, <2>4, <2>5, <2>6 DEF QueueIsTheWaiters, Waiting
  <2>8. PermitsAccounted'
    BY <1>1, <2>2, <2>4 DEF PermitsAccounted, Holders
  <2> QED BY <1>3, <2>3, <2>7, <2>8 DEF IInv
<1> QED BY <1>4, <1>5

LEMMA TimesOutStep ==
    ASSUME IInv, NEW c \in Calls, TimesOut(c)
    PROVE  IInv'
<1>1. TypeOK /\ QueueIsTheWaiters /\ PermitsAccounted /\ CallInv(c)
  BY DEF IInv
<1>2. PICK i \in DOMAIN sem.waiting : sem.waiting[i] = c /\ sem' = Withdrawn(sem, i)
  BY DEF TimesOut
<1>3. \A d \in Calls \ {c} : call'[d] = call[d] /\ txn'[d] = txn[d] /\ written'[d] = written[d]
  BY <1>1 DEF TimesOut, TypeOK
<1>4. \A d \in Calls : CallInv(d)'
  <2>1. CallInv(c)'
    BY <1>1 DEF CallInv, TimesOut, TypeOK, Call
  <2> QED BY <2>1, <1>3, SameCall DEF IInv
<1>5. sem.waiting \in Seq(Calls) /\ sem'.permits = sem.permits
      /\ sem'.waiting = RemoveAt(sem.waiting, i)
  BY <1>1, <1>2 DEF TypeOK, Withdrawn
<1>6. RemoveAt(sem.waiting, i) \in Seq(Calls)
  BY <1>5, RemoveAtElements
<1>7. TypeOK'
  <2>1. sem' \in [permits : Nat, waiting : Seq(Calls)]
    BY <1>1, <1>2, <1>5, <1>6 DEF TypeOK, Withdrawn
  <2>2. call[c] \in Call /\ call' = [call EXCEPT ![c] = Rejected(call[c])]
    BY <1>1 DEF TypeOK, TimesOut, Rejected
  <2>3. UNCHANGED <<txn, written>>
    BY DEF TimesOut
  <2> QED BY <1>1, <2>1, <2>2, <2>3, MovedCall DEF TypeOK
<1>8. Holders' = Holders /\ Waiting' = Waiting \ {c}
  BY <1>1 DEF Holders, Waiting, TypeOK, Call, TimesOut
<1>9. /\ ToSet(sem'.waiting) = ToSet(sem.waiting) \ {c}
      /\ \A j, k \in DOMAIN sem'.waiting : sem'.waiting[j] = sem'.waiting[k] => j = k
  BY <1>1, <1>2, <1>5, RemoveAtSet DEF QueueIsTheWaiters
<1>10. sem'.waiting # <<>> => sem.waiting # <<>>
  BY <1>2, <1>5
<1>11. QueueIsTheWaiters'
  BY <1>1, <1>5, <1>8, <1>9, <1>10 DEF QueueIsTheWaiters, Waiting
<1>12. PermitsAccounted'
  BY <1>1, <1>5, <1>8 DEF PermitsAccounted, Holders
<1> QED BY <1>4, <1>7, <1>11, <1>12 DEF IInv

\* The queue without its head.
LEMMA TailSet ==
    ASSUME NEW S, NEW s \in Seq(S), s # <<>>,
           \A j, k \in DOMAIN s : s[j] = s[k] => j = k
    PROVE  /\ ToSet(Tail(s)) = ToSet(s) \ {Head(s)}
           /\ Head(s) \in ToSet(s)
           /\ \A j, k \in DOMAIN Tail(s) : Tail(s)[j] = Tail(s)[k] => j = k
<1> DEFINE r == Tail(s)
<1>1. /\ r \in Seq(S) /\ Len(r) = Len(s) - 1 /\ Len(s) \in Nat \ {0}
      /\ \A j \in 1 .. Len(s) - 1 : r[j] = s[j + 1]
      /\ DOMAIN s = 1 .. Len(s) /\ DOMAIN r = 1 .. Len(s) - 1
      /\ Head(s) = s[1]
  OBVIOUS
<1> HIDE DEF r
<1>2. ASSUME NEW x \in ToSet(r) PROVE x \in ToSet(s) \ {Head(s)}
  <2>1. PICK j \in 1 .. Len(s) - 1 : r[j] = x
    BY <1>1, <1>2 DEF ToSet
  <2>2. j + 1 \in 1 .. Len(s) /\ j + 1 # 1 /\ 1 \in 1 .. Len(s) /\ s[j + 1] = x
    BY <2>1, <1>1
  <2> QED BY <2>2, <1>1 DEF ToSet
<1>3. ASSUME NEW x \in ToSet(s) \ {Head(s)} PROVE x \in ToSet(r)
  <2>1. PICK j \in 1 .. Len(s) : s[j] = x /\ j # 1
    BY <1>1 DEF ToSet
  <2>2. j - 1 \in 1 .. Len(s) - 1 /\ (j - 1) + 1 = j
    BY <2>1, <1>1
  <2>3. r[j - 1] = s[j]
    BY <2>2, <1>1
  <2> QED BY <2>1, <2>2, <2>3, <1>1 DEF ToSet
<1>4. \A j, k \in DOMAIN r : r[j] = r[k] => j = k
  <2> SUFFICES ASSUME NEW j \in 1 .. Len(s) - 1, NEW k \in 1 .. Len(s) - 1, r[j] = r[k]
               PROVE  j = k
    BY <1>1
  <2>1. j + 1 \in DOMAIN s /\ k + 1 \in DOMAIN s /\ s[j + 1] = s[k + 1]
    BY <1>1
  <2>2. j + 1 = k + 1
    BY <2>1
  <2> QED BY <2>2, <1>1
<1>5. Head(s) \in ToSet(s)
  BY <1>1 DEF ToSet
<1> QED BY <1>2, <1>3, <1>4, <1>5 DEF r

LEMMA EndStep ==
    ASSUME IInv, NEW c \in Calls, End(c)
    PROVE  IInv'
<1>1. TypeOK /\ QueueIsTheWaiters /\ PermitsAccounted
  BY DEF IInv
<1>2. At(c, "ending") /\ sem' = Released(sem) /\ written' = written
  BY DEF End
<1>3. txn' = txn \/ (txn[c] = "open" /\ txn' = [txn EXCEPT ![c] = "aborted"])
  BY DEF End
<1>4. Granted(sem) \subseteq Waiting /\ c \notin Granted(sem)
  <2>1. Granted(sem) \subseteq ToSet(sem.waiting)
    BY <1>1, TailSet DEF Granted, TypeOK, QueueIsTheWaiters
  <2> QED BY <2>1, <1>1, <1>2 DEF QueueIsTheWaiters, Waiting
<1>5. /\ call'[c] = Moved(call[c], "done") /\ call[c] \in Call
      /\ \A d \in Granted(sem) : call'[d] = Moved(call[d], "starting")
      /\ \A d \in Calls \ ({c} \cup Granted(sem)) : call'[d] = call[d]
      /\ call' = [d \in Calls |-> call'[d]]
  <2>1. call' = [d \in Calls |-> IF d = c THEN Moved(call[c], "done")
                                 ELSE IF d \in Granted(sem) THEN Moved(call[d], "starting")
                                 ELSE call[d]]
    BY DEF End, Moved
  <2>2. Granted(sem) \subseteq Calls /\ call[c] \in Call
    BY <1>1, <1>4 DEF TypeOK, Waiting
  <2> QED BY <1>4, <2>1, <2>2
<1>6. /\ call'[c].pc = "done" /\ call'[c].outcome = call[c].outcome
      /\ \A d \in Granted(sem) : call'[d].pc = "starting" /\ call'[d].outcome = call[d].outcome
  BY <1>1, <1>4, <1>5, MovedCall, SMTT(30) DEF TypeOK, Waiting
<1>7. TypeOK'
  <2>1. \A d \in Calls : call'[d] \in Call
    <3> SUFFICES ASSUME NEW d \in Calls PROVE call'[d] \in Call
      OBVIOUS
    <3>1. call[d] \in Call
      BY <1>1 DEF TypeOK
    <3>2. call'[d] \in {call[d], Moved(call[d], "done"), Moved(call[d], "starting")}
      BY <1>5
    <3> QED BY <3>1, <3>2, MovedCall
  <2>2. call' \in [Calls -> Call]
    BY <2>1, <1>5
  <2>3. sem' \in [permits : Nat, waiting : Seq(Calls)]
    BY <1>1, <1>2, SemaphoreTypes DEF TypeOK
  <2> QED BY <1>1, <1>2, <1>3, <2>2, <2>3 DEF TypeOK
<1>8. ASSUME NEW d \in Calls PROVE CallInv(d)'
  <2>1. CallInv(d) /\ CallInv(c)
    BY DEF IInv
  <2>2. CASE d = c
    BY <2>1, <2>2, <1>1, <1>2, <1>3, <1>6 DEF CallInv, TypeOK
  <2>3. CASE d # c /\ d \in Granted(sem)
    <3>1. call[d].pc = "waiting" /\ txn'[d] = txn[d]
      BY <2>3, <1>1, <1>3, <1>4 DEF Waiting, TypeOK
    <3> QED BY <3>1, <2>1, <2>3, <1>2, <1>6 DEF CallInv
  <2>4. CASE d # c /\ d \notin Granted(sem)
    <3>1. txn'[d] = txn[d] /\ call'[d] = call[d] /\ written'[d] = written[d]
      BY <2>4, <1>1, <1>2, <1>3, <1>5 DEF TypeOK
    <3> QED BY <3>1, <2>1, SameCall
  <2> QED BY <2>2, <2>3, <2>4
<1>9. Holders' = (Holders \ {c}) \cup Granted(sem) /\ Waiting' = Waiting \ Granted(sem)
      /\ c \in Holders /\ Granted(sem) \cap Holders = {}
  BY <1>2, <1>4, <1>5, <1>6 DEF Holders, Waiting
<1>10. sem.permits + Cardinality(Holders) = MaxConcurrent /\ sem.permits \in Nat
  BY <1>1 DEF PermitsAccounted, Holders, TypeOK
<1>11. IsFiniteSet(Holders) /\ Cardinality(Holders) \in Nat
  BY HoldersFinite, FS_CardinalityType
<1>12. IsFiniteSet(Holders \ {c}) /\ Cardinality(Holders \ {c}) = Cardinality(Holders) - 1
  BY <1>9, <1>11, FS_RemoveElement
<1>13. CASE sem.waiting = <<>>
  <2>1. Granted(sem) = {} /\ sem'.waiting = <<>> /\ sem'.permits = sem.permits + 1
    BY <1>1, <1>2, <1>13 DEF Granted, Released, TypeOK
  <2>2. Cardinality(Holders') = Cardinality(Holders) - 1
    BY <2>1, <1>9, <1>12
  <2>3. sem'.permits + Cardinality(Holders') = MaxConcurrent
    BY <2>1, <2>2, <1>10, <1>11
  <2>4. QueueIsTheWaiters'
    BY <2>1, <1>1, <1>9, <1>13 DEF QueueIsTheWaiters, Waiting
  <2>5. PermitsAccounted'
    BY <2>3 DEF PermitsAccounted, Holders
  <2> QED BY <2>4, <2>5, <1>7, <1>8 DEF IInv
<1>14. CASE sem.waiting # <<>>
  <2> DEFINE h == Head(sem.waiting)
  <2>1. Granted(sem) = {h} /\ sem'.waiting = Tail(sem.waiting) /\ sem'.permits = sem.permits
        /\ sem.permits = 0 /\ sem.waiting \in Seq(Calls)
    BY <1>1, <1>2, <1>14 DEF Granted, Released, TypeOK, QueueIsTheWaiters
  <2> HIDE DEF h
  <2>2. h \notin Holders \ {c}
    BY <2>1, <1>9
  <2>3. Cardinality(Holders') = Cardinality(Holders \ {c}) + 1
    BY <2>1, <2>2, <1>9, <1>12, FS_AddElement
  <2>4. sem'.permits + Cardinality(Holders') = MaxConcurrent
    BY <2>1, <2>3, <1>10, <1>11, <1>12
  <2>5. PermitsAccounted'
    BY <2>4 DEF PermitsAccounted, Holders
  <2>6. /\ ToSet(sem'.waiting) = ToSet(sem.waiting) \ {h}
        /\ \A j, k \in DOMAIN sem'.waiting : sem'.waiting[j] = sem'.waiting[k] => j = k
    BY <2>1, <1>1, <1>14, TailSet DEF QueueIsTheWaiters, h
  <2>7. QueueIsTheWaiters'
    BY <2>1, <2>6, <1>1, <1>9 DEF QueueIsTheWaiters, Waiting
  <2> QED BY <2>5, <2>7, <1>7, <1>8 DEF IInv
<1> QED BY <1>13, <1>14

-----------------------------------------------------------------------------
LEMMA StutterStep ==
    ASSUME IInv, UNCHANGED vars
    PROVE  IInv'
<1>1. call' = call /\ sem' = sem /\ txn' = txn /\ written' = written
  BY DEF vars
<1>2. Holders' = Holders /\ Waiting' = Waiting
  BY <1>1 DEF Holders, Waiting
<1>3. QueueIsTheWaiters' /\ PermitsAccounted'
  BY <1>1, <1>2, SamePermits DEF IInv
<1>4. TypeOK'
  BY <1>1 DEF IInv, TypeOK
<1>5. \A d \in Calls : CallInv(d)'
  BY <1>1, SameCall DEF IInv
<1> QED BY <1>3, <1>4, <1>5 DEF IInv

THEOREM Invariance == Spec => []IInv
<1>1. ASSUME IInv, [Next]_vars PROVE IInv'
  <2>1. CASE UNCHANGED vars
    BY <1>1, <2>1, StutterStep
  <2>2. CASE Next
    <3>1. PICK c \in Calls : Acquire(c) \/ TimesOut(c) \/ Proceed(c) \/ Server(c)
      BY <2>2 DEF Next
    <3>2. CASE Acquire(c)
      BY <1>1, <3>2, AcquireStep
    <3>3. CASE TimesOut(c)
      BY <1>1, <3>3, TimesOutStep
    <3>4. CASE End(c)
      BY <1>1, <3>4, EndStep
    <3>5. CASE Proceed(c) /\ ~End(c)
      BY <1>1, <3>5, OwnStep
    <3>6. CASE Server(c)
      BY <1>1, <3>6, ServerStep
    <3> QED BY <3>1, <3>2, <3>3, <3>4, <3>5, <3>6
  <2> QED BY <1>1, <2>1, <2>2
<1> QED BY InitEstablishes, <1>1, PTL DEF Spec

\* Every variable keeps its type: UnitOfWork.ts never counts an attempt beyond
\* its limit.
THEOREM TypeCorrect == Spec => []TypeOK
<1>1. IInv => TypeOK
  BY DEF IInv
<1> QED BY <1>1, Invariance, PTL

\* No permit of the semaphore is lost or invented, whatever fails.
THEOREM PermitsConserved == Spec => []PermitsAccounted
<1>1. IInv => PermitsAccounted
  BY DEF IInv
<1> QED BY <1>1, Invariance, PTL

\* The queue of the semaphore is exactly the set of waiting calls, and nobody
\* waits next to a free permit.
THEOREM QueueExact == Spec => []QueueIsTheWaiters
<1>1. IInv => QueueIsTheWaiters
  BY DEF IInv
<1> QED BY <1>1, Invariance, PTL

\* acquire takes a free permit and release hands one over to the head of the
\* queue: a call that queued earlier is never passed by.
LEMMA FairStep ==
    ASSUME IInv, [Next]_vars, NEW c \in Calls, NEW d \in Calls,
           ~Holds(c), Holds(c)', Before(d, c)
    PROVE  FALSE
<1>1. call \in [Calls -> Call] /\ sem \in [permits : Nat, waiting : Seq(Calls)]
  BY DEF IInv, TypeOK
<1>2. PICK i \in DOMAIN sem.waiting :
         /\ sem.waiting[i] = d
         /\ \A j \in DOMAIN sem.waiting : sem.waiting[j] = c => i < j
  BY DEF Before
<1>3. sem.waiting \in Seq(Calls) /\ sem.waiting # <<>> /\ i \in Nat \ {0} /\ sem.permits = 0
  BY <1>1, <1>2 DEF IInv, QueueIsTheWaiters
<1>4. call'[c] # call[c]
  OBVIOUS
<1>5. PICK e \in Calls : Acquire(e) \/ TimesOut(e) \/ Proceed(e) \/ Server(e)
  BY <1>4 DEF Next, vars
<1>6. CASE Acquire(e)
  <2>1. call' = [call EXCEPT ![e] = Moved(call[e], "waiting")]
    BY <1>3, <1>6 DEF Acquire, Free, Moved
  <2>2. c = e
    BY <1>1, <1>4, <2>1
  <2>3. call'[c].pc = "waiting"
    BY <1>1, <2>1, <2>2, MovedCall
  <2> QED BY <2>3
<1>7. CASE TimesOut(e)
  <2>1. call' = [call EXCEPT ![e] = Rejected(call[e])]
    BY <1>7 DEF TimesOut, Rejected
  <2>2. c = e
    BY <1>1, <1>4, <2>1
  <2>3. call'[c].pc = "done"
    BY <1>1, <2>1, <2>2 DEF Rejected, Call
  <2> QED BY <2>3
<1>8. CASE End(e)
  <2>1. call'[c] = IF c = e THEN [call[e] EXCEPT !.pc = "done"]
                   ELSE IF c \in Granted(sem) THEN [call[c] EXCEPT !.pc = "starting"]
                   ELSE call[c]
    BY <1>8 DEF End
  <2>2. call[c] \in Call /\ call[e] \in Call
    BY <1>1
  <2>3. CASE c \in Granted(sem)
    <3>1. c = sem.waiting[1] /\ 1 \in DOMAIN sem.waiting
      BY <1>3, <2>3 DEF Granted
    <3>2. i < 1
      BY <1>2, <3>1
    <3> QED BY <1>3, <3>2
  <2>4. CASE c = e
    BY <2>1, <2>2, <2>4 DEF Call
  <2> QED BY <1>4, <2>1, <2>3, <2>4
<1>9. CASE Proceed(e) /\ ~End(e)
  <2>1. /\ call[e].pc \in {"starting", "running", "committing", "aborting"}
        /\ \E r : call' = [call EXCEPT ![e] = r]
    <3>1. CASE StartSession(e) \/ StartSessionFails(e) \/ BodyReturns(e)
      BY <3>1, Zenon DEF StartSession, StartSessionFails, BodyReturns
    <3>2. CASE BodyThrows(e) \/ CommitRefused(e)
      BY <3>2, Zenon DEF BodyThrows, CommitRefused
    <3>3. CASE Aborted(e) \/ AbortFails(e)
      BY <3>3, Zenon DEF Aborted, AbortFails
    <3>4. CASE CommitSucceeds(e) \/ CommitUnanswered(e)
      BY <3>4, Zenon DEF CommitSucceeds, CommitUnanswered
    <3> QED BY <1>9, <3>1, <3>2, <3>3, <3>4 DEF Proceed
  <2>2. Holds(e)
    BY <2>1
  <2>3. c # e => call'[c] = call[c]
    BY <1>1, <2>1
  <2> QED BY <1>4, <2>2, <2>3
<1>10. CASE Server(e)
  BY <1>4, <1>10 DEF Server, CommitLands, ServerAborts
<1> QED BY <1>5, <1>6, <1>7, <1>8, <1>9, <1>10

\* No call gets a permit before one that queued earlier and still waits.
THEOREM NoCallIsOvertaken == Spec => NoOvertaking
<1>1. IInv /\ [Next]_vars
        => [\A c, d \in Calls : ~Holds(c) /\ Holds(c)' /\ Before(d, c) => Holds(d)']_vars
  BY FairStep
<1> QED BY <1>1, Invariance, PTL DEF Spec, NoOvertaking

\* Body and commit retries never apply the writes of a call twice.
THEOREM WrittenOnce == Spec => []AtMostOnce
<1>1. IInv => AtMostOnce
  BY DEF IInv, CallInv, AtMostOnce
<1> QED BY <1>1, Invariance, PTL

\* A reported outcome is what happened, and stays so.
THEOREM OutcomeTrue == Spec => []OutcomeIsTrue
<1>1. IInv => OutcomeIsTrue
  BY DEF IInv, CallInv, OutcomeIsTrue
<1> QED BY <1>1, Invariance, PTL

\* What takes a call on.
LEMMA Onward ==
    ASSUME NEW s \in Call, NEW t
    PROVE  /\ s.pc = "idle" /\ t.pc \in {"waiting", "starting"} => GoesOn(s, t)
           /\ s.pc = "waiting" /\ t.pc \in {"starting", "done"} => GoesOn(s, t)
           /\ s.pc = "starting" /\ t.pc \in {"running", "ending"} => GoesOn(s, t)
           /\ s.pc \in {"committing", "aborting"} /\ t.pc = "ending" => GoesOn(s, t)
           /\ s.pc = "ending" /\ t.pc = "done" => GoesOn(s, t)
           /\ s.pc = "aborting" /\ t.pc = "running" /\ t.body = s.body + 1 => GoesOn(s, t)
           /\ t.body = s.body =>
                /\ s.pc = "running" /\ t.pc \in {"committing", "aborting"} => GoesOn(s, t)
                /\ s.pc = "committing" /\ t.pc = "aborting" => GoesOn(s, t)
                /\ t.pc = s.pc /\ t.commit = s.commit + 1 => GoesOn(s, t)
<1>1. s.body \in Nat /\ s.commit \in Nat
  BY LimitsAssumption DEF Call
<1>2. /\ Phase["idle"] = 0 /\ Phase["waiting"] = 1 /\ Phase["starting"] = 2
      /\ \A l \in {"running", "committing", "aborting"} : Phase[l] = 3
      /\ Phase["ending"] = 4 /\ Phase["done"] = 5
  BY DEF Phase
<1>3. /\ DOMAIN Stage = {"running", "committing", "aborting"}
      /\ Stage["running"] = 0 /\ Stage["committing"] = 1 /\ Stage["aborting"] = 2
  BY DEF Stage
<1> QED BY <1>1, <1>2, <1>3 DEF GoesOn

\* The places in the program that the steps of a call lead to.
LEMMA Places ==
    ASSUME NEW r \in Call
    PROVE  /\ Started(r).pc = "running" /\ \A o : Ended(r, o).pc = "ending"
           /\ Returned(r).pc = "committing" /\ Returned(r).body = r.body
           /\ \A e : Failing(r, e).pc = "aborting" /\ Failing(r, e).body = r.body
           /\ Again(r).pc = "running" /\ Again(r).body = r.body + 1
           /\ CommitAgain(r).pc = r.pc /\ CommitAgain(r).body = r.body
           /\ CommitAgain(r).commit = r.commit + 1
           /\ Rejected(r).pc = "done" /\ \A l : Moved(r, l).pc = l
BY DEF Call, Started, Ended, Returned, Failing, Again, CommitAgain, Rejected, Moved

\* Each step takes its call on, and the release of a permit the longest waiter.
LEMMA OwnStepGoesOn ==
    ASSUME TypeOK, NEW c \in Calls, Proceed(c), ~End(c)
    PROVE  /\ GoesOn(call[c], call'[c])
           /\ \A d \in Calls \ {c} : call'[d] = call[d]
<1>1. call[c] \in Call /\ call \in [Calls -> Call]
  BY DEF TypeOK
<1>2. \E r : call' = [call EXCEPT ![c] = r] /\ GoesOn(call[c], r)
  <2>1. CASE StartSession(c)
    <3>1. call[c].pc = "starting" /\ call' = [call EXCEPT ![c] = Started(call[c])]
      BY <2>1 DEF StartSession, At, Started
    <3>2. GoesOn(call[c], Started(call[c]))
      BY <1>1, <3>1, Places, Onward
    <3> QED BY <3>1, <3>2
  <2>2. CASE StartSessionFails(c)
    <3>1. call[c].pc = "starting" /\ call' = [call EXCEPT ![c] = Ended(call[c], "failed")]
      BY <2>2 DEF StartSessionFails, At, Finish, Ended
    <3>2. GoesOn(call[c], Ended(call[c], "failed"))
      BY <1>1, <3>1, Places, Onward
    <3> QED BY <3>1, <3>2
  <2>3. CASE BodyReturns(c)
    <3>1. call[c].pc = "running" /\ call' = [call EXCEPT ![c] = Returned(call[c])]
      BY <2>3 DEF BodyReturns, At, Returned
    <3>2. GoesOn(call[c], Returned(call[c]))
      BY <1>1, <3>1, Places, Onward
    <3> QED BY <3>1, <3>2
  <2>4. CASE BodyThrows(c) \/ CommitRefused(c)
    <3>1. /\ call[c].pc \in {"running", "committing"}
          /\ \E e : call' = [call EXCEPT ![c] = Failing(call[c], e)]
      BY <2>4 DEF BodyThrows, CommitRefused, At, Abort, Failing
    <3>2. \A e : GoesOn(call[c], Failing(call[c], e))
      BY <1>1, <3>1, Places, Onward
    <3> QED BY <3>1, <3>2
  <2>5. CASE Aborted(c)
    <3>1. /\ call[c].pc = "aborting"
          /\ \/ call' = [call EXCEPT ![c] = Again(call[c])]
             \/ call' = [call EXCEPT ![c] = Ended(call[c], "failed")]
      BY <2>5 DEF Aborted, At, Finish, Ended
    <3> QED BY <1>1, <3>1, Places, Onward
  <2>6. CASE AbortFails(c)
    <3>1. call[c].pc = "aborting" /\ call' = [call EXCEPT ![c] = Ended(call[c], "failed")]
      BY <2>6 DEF AbortFails, At, Finish, Ended
    <3>2. GoesOn(call[c], Ended(call[c], "failed"))
      BY <1>1, <3>1, Places, Onward
    <3> QED BY <3>1, <3>2
  <2>7. CASE CommitSucceeds(c)
    <3>1. call[c].pc = "committing" /\ call' = [call EXCEPT ![c] = Ended(call[c], "committed")]
      BY <2>7 DEF CommitSucceeds, At, Finish, Ended
    <3>2. GoesOn(call[c], Ended(call[c], "committed"))
      BY <1>1, <3>1, Places, Onward
    <3> QED BY <3>1, <3>2
  <2>8. CASE CommitUnanswered(c)
    <3>1. /\ call[c].pc = "committing"
          /\ \/ call' = [call EXCEPT ![c] = CommitAgain(call[c])]
             \/ call' = [call EXCEPT ![c] = Ended(call[c], "ambiguous")]
      BY <2>8 DEF CommitUnanswered, At, Finish, Ended, CommitAgain
    <3> QED BY <1>1, <3>1, Places, Onward
  <2> QED BY <2>1, <2>2, <2>3, <2>4, <2>5, <2>6, <2>7, <2>8 DEF Proceed
<1> QED BY <1>1, <1>2

LEMMA StepGoesOn ==
    ASSUME IInv, [Next]_vars, NEW c \in Calls, call'[c] # call[c]
    PROVE  GoesOn(call[c], call'[c])
<1>1. TypeOK /\ QueueIsTheWaiters /\ call \in [Calls -> Call]
  BY DEF IInv, TypeOK
<1>2. PICK d \in Calls : Acquire(d) \/ TimesOut(d) \/ Proceed(d) \/ Server(d)
  BY DEF Next, vars
<1>3. CASE Acquire(d)
  <2>1. /\ call[d].pc = "idle"
        /\ \E l \in {"starting", "waiting"} : call' = [call EXCEPT ![d] = Moved(call[d], l)]
    BY <1>3 DEF Acquire, At, Goto, Moved
  <2> QED BY <1>1, <2>1, Places, Onward
<1>4. CASE TimesOut(d)
  <2>1. call[d].pc = "waiting" /\ call' = [call EXCEPT ![d] = Rejected(call[d])]
    BY <1>4 DEF TimesOut, At, Rejected
  <2> QED BY <1>1, <2>1, Places, Onward
<1>5. CASE End(d)
  <2>1. Granted(sem) \subseteq Waiting
    <3>1. Granted(sem) \subseteq ToSet(sem.waiting)
      BY <1>1, TailSet DEF Granted, TypeOK, QueueIsTheWaiters
    <3> QED BY <1>1, <3>1 DEF QueueIsTheWaiters, Waiting
  <2>2. \/ call[c].pc = "ending" /\ call'[c] = Moved(call[c], "done")
        \/ call[c].pc = "waiting" /\ call'[c] = Moved(call[c], "starting")
    BY <1>1, <1>5, <2>1 DEF End, At, Waiting, Moved
  <2> QED BY <1>1, <2>2, Places, Onward
<1>6. CASE Proceed(d) /\ ~End(d)
  BY <1>1, <1>6, OwnStepGoesOn
<1>7. CASE Server(d)
  BY <1>7 DEF Server, CommitLands, ServerAborts
<1> QED BY <1>2, <1>3, <1>4, <1>5, <1>6, <1>7

\* No call runs in circles: what executeInTransaction repeats (the body, for
\* isRetryableTransactionBodyError, and the commit, for
\* isUnknownTransactionCommitResult) uses up one of the attempts of its loop, and
\* everything else leads towards the finally block and its release.
THEOREM NoCallGoesBack == Spec => CallsGoOn
<1>1. IInv /\ [Next]_vars
        => [\A c \in Calls : call'[c] # call[c] => GoesOn(call[c], call'[c])]_vars
  BY StepGoesOn
<1> QED BY <1>1, Invariance, PTL DEF Spec, CallsGoOn
-----------------------------------------------------------------------------
(***************************************************************************)
(* The detailed module implements the promise.                             *)
(***************************************************************************)
Reported == [c \in Calls |-> call[c].outcome]

\* A step that touches one call touches one outcome.
LEMMA OneOutcome ==
    ASSUME NEW c \in Calls, \A d \in Calls \ {c} : call'[d].outcome = call[d].outcome
    PROVE  Reported' = [Reported EXCEPT ![c] = call'[c].outcome]
BY DEF Reported

LEMMA NoOutcome ==
    ASSUME \A d \in Calls : call'[d].outcome = call[d].outcome
    PROVE  Reported' = Reported
BY DEF Reported

\* What each step does to the outcome of its call.
LEMMA OutcomeSteps ==
    ASSUME IInv, NEW c \in Calls, Acquire(c) \/ TimesOut(c) \/ Proceed(c) \/ Server(c)
    PROVE  \/ Reported' = Reported /\ written' = written
           \/ /\ Reported' = [Reported EXCEPT ![c] = call'[c].outcome]
              /\ Reported[c] = "none"
              /\ \/ call'[c].outcome \in {"rejected", "failed"} /\ written[c] = 0 /\ written' = written
                 \/ call'[c].outcome = "ambiguous" /\ written' = written
                 \/ call'[c].outcome = "committed" /\ CommitSucceeds(c)
           \/ Reported' = Reported /\ CommitLands(c)
<1>1. /\ call[c] \in Call /\ CallInv(c) /\ call \in [Calls -> Call]
      /\ TypeOK /\ QueueIsTheWaiters
  BY DEF IInv, TypeOK
<1>2. Reported[c] = call[c].outcome
  BY DEF Reported
<1>3. CASE Acquire(c)
  <2>1. \A d \in Calls : call'[d].outcome = call[d].outcome
    BY <1>1, <1>3 DEF Acquire, Call
  <2> QED BY <2>1, <1>3, NoOutcome DEF Acquire
<1>4. CASE TimesOut(c)
  <2>1. call' = [call EXCEPT ![c] = Rejected(call[c])]
    BY <1>4 DEF TimesOut, Rejected
  <2>2. Rejected(call[c]).outcome = "rejected"
    BY <1>1 DEF Rejected, Call
  <2>3. call'[c].outcome = "rejected" /\ \A d \in Calls \ {c} : call'[d].outcome = call[d].outcome
    BY <1>1, <2>1, <2>2
  <2>4. At(c, "waiting") /\ written' = written
    BY <1>4 DEF TimesOut
  <2> QED BY <1>1, <1>2, <2>3, <2>4, OneOutcome DEF CallInv, Call
<1>5. CASE End(c)
  <2>1. \A d \in Calls : call'[d].outcome = call[d].outcome
    <3> SUFFICES ASSUME NEW d \in Calls PROVE call'[d].outcome = call[d].outcome
      OBVIOUS
    <3>1. call'[d] \in {call[d], Moved(call[d], "done"), Moved(call[d], "starting")}
      BY <1>5 DEF End, Moved
    <3>2. call[d] \in Call
      BY <1>1
    <3> QED BY <3>1, <3>2, MovedCall
  <2> QED BY <2>1, <1>5, NoOutcome DEF End
<1>6. CASE StartSession(c) \/ BodyReturns(c)
  <2>1. \A d \in Calls : call'[d].outcome = call[d].outcome
    <3>1. \/ call' = [call EXCEPT ![c] = Started(call[c])]
          \/ call' = [call EXCEPT ![c] = Returned(call[c])]
      BY <1>6 DEF StartSession, BodyReturns, Started, Returned
    <3>2. /\ Started(call[c]).outcome = call[c].outcome
          /\ Returned(call[c]).outcome = call[c].outcome
      BY <1>1 DEF Started, Returned, Call
    <3> QED BY <1>1, <3>1, <3>2
  <2> QED BY <2>1, <1>6, NoOutcome DEF StartSession, BodyReturns
<1>7. CASE BodyThrows(c) \/ CommitRefused(c)
  <2>1. PICK e \in Errors : Abort(c, e)
    BY <1>7 DEF BodyThrows, CommitRefused
  <2>2. \A d \in Calls : call'[d].outcome = call[d].outcome
    BY <1>1, <2>1 DEF Call
  <2> QED BY <2>2, <1>7, NoOutcome DEF BodyThrows, CommitRefused
<1>8. ASSUME Finish(c, "failed"), call[c].pc \in {"starting", "aborting"}, written' = written
      PROVE  /\ Reported' = [Reported EXCEPT ![c] = call'[c].outcome] /\ Reported[c] = "none"
             /\ call'[c].outcome = "failed" /\ written[c] = 0
  <2>1. call'[c] = Ended(call[c], "failed") /\ \A d \in Calls \ {c} : call'[d] = call[d]
    BY <1>1, <1>8 DEF Ended
  <2>2. call'[c].outcome = "failed"
    BY <1>1, <2>1, EndedCall
  <2>3. call[c].outcome = "none" /\ written[c] = 0
    BY <1>1, <1>8 DEF CallInv, Call
  <2> QED BY <1>2, <2>1, <2>2, <2>3, OneOutcome
<1>9. CASE StartSessionFails(c) \/ AbortFails(c)
  <2>1. Finish(c, "failed") /\ call[c].pc \in {"starting", "aborting"} /\ written' = written
    BY <1>9 DEF StartSessionFails, AbortFails
  <2> QED BY <2>1, <1>8
<1>10. CASE Aborted(c)
  <2>1. At(c, "aborting") /\ written' = written
    BY <1>10 DEF Aborted
  <2>2. CASE Retryable(c)
    <3>1. call' = [call EXCEPT ![c] = Again(call[c])]
      BY <1>10, <2>2 DEF Aborted
    <3>2. Again(call[c]).outcome = call[c].outcome
      BY <1>1 DEF Again, Call
    <3>3. \A d \in Calls : call'[d].outcome = call[d].outcome
      BY <1>1, <3>1, <3>2
    <3> QED BY <2>1, <3>3, NoOutcome
  <2>3. CASE ~Retryable(c)
    <3>1. Finish(c, "failed")
      BY <1>10, <2>3 DEF Aborted
    <3> QED BY <2>1, <3>1, <1>8
  <2> QED BY <2>2, <2>3
<1>11. CASE CommitSucceeds(c)
  <2>1. call'[c] = Ended(call[c], "committed") /\ \A d \in Calls \ {c} : call'[d] = call[d]
    BY <1>1, <1>11 DEF CommitSucceeds, Ended
  <2>2. call'[c].outcome = "committed"
    BY <1>1, <2>1, EndedCall
  <2>3. call[c].outcome = "none"
    BY <1>1, <1>11 DEF CallInv, CommitSucceeds, Call
  <2> QED BY <1>2, <1>11, <2>1, <2>2, <2>3, OneOutcome
<1>12. CASE CommitUnanswered(c)
  <2>1. At(c, "committing") /\ written' = written
    BY <1>12 DEF CommitUnanswered
  <2>2. \/ call' = [call EXCEPT ![c] = CommitAgain(call[c])]
        \/ call' = [call EXCEPT ![c] = Ended(call[c], "ambiguous")]
    BY <1>12 DEF CommitUnanswered, CommitAgain, Ended
  <2>3. CommitAgain(call[c]).outcome = call[c].outcome
    BY <1>1 DEF CommitAgain, Call
  <2>4. Ended(call[c], "ambiguous").outcome = "ambiguous"
    BY <1>1, EndedCall
  <2>5. call[c].outcome = "none"
    BY <1>1, <2>1 DEF CallInv, Call
  <2>6. CASE call' = [call EXCEPT ![c] = CommitAgain(call[c])]
    <3>1. \A d \in Calls : call'[d].outcome = call[d].outcome
      BY <1>1, <2>3, <2>6
    <3> QED BY <2>1, <3>1, NoOutcome
  <2>7. CASE call' = [call EXCEPT ![c] = Ended(call[c], "ambiguous")]
    <3>1. call'[c].outcome = "ambiguous" /\ \A d \in Calls \ {c} : call'[d].outcome = call[d].outcome
      BY <1>1, <2>4, <2>7
    <3> QED BY <1>2, <2>1, <2>5, <3>1, OneOutcome
  <2> QED BY <2>2, <2>6, <2>7
<1>13. CASE Server(c)
  <2>1. call' = call
    BY <1>13 DEF Server, CommitLands, ServerAborts
  <2> QED BY <2>1, <1>13 DEF Server, ServerAborts, Reported
<1> QED BY <1>3, <1>4, <1>5, <1>6, <1>7, <1>9, <1>10, <1>11, <1>12, <1>13 DEF Proceed

\* executeInTransaction keeps the promise of AtomicCall for any number of
\* concurrent calls, whatever permits and attempts it is given.
THEOREM AtomicCallImplemented == Spec => ImplementsAtomicCall
<1> USE DEF Promise!Write, Promise!Report
<1>1. Init => Promise!Init
  BY DEF Init, Promise!Init
<1>2. ASSUME IInv, [Next]_vars PROVE [Promise!Next]_(Promise!vars)
  <2>1. CASE UNCHANGED vars
    BY <2>1 DEF vars, Promise!vars
  <2>2. CASE Next
    <3>1. PICK c \in Calls : Acquire(c) \/ TimesOut(c) \/ Proceed(c) \/ Server(c)
      BY <2>2 DEF Next
    <3>2. CallInv(c) /\ call[c] \in Call /\ txn[c] \in Txn /\ written \in [Calls -> Nat]
          /\ Reported[c] = call[c].outcome
      BY <1>2, <3>1 DEF IInv, TypeOK, Txn, Reported
    <3>3. CASE Reported' = Reported /\ written' = written
      BY <3>3 DEF Promise!vars, Reported
    <3>4. CASE /\ Reported' = [Reported EXCEPT ![c] = call'[c].outcome]
               /\ Reported[c] = "none" /\ written[c] = 0 /\ written' = written
               /\ call'[c].outcome \in {"rejected", "failed"}
      <4>1. Promise!Refuse(c)
        BY <3>4 DEF Promise!Refuse, Reported
      <4> QED BY <4>1 DEF Promise!Next
    <3>5. CASE /\ Reported' = [Reported EXCEPT ![c] = call'[c].outcome]
               /\ Reported[c] = "none" /\ written' = written
               /\ call'[c].outcome = "ambiguous"
      <4>1. Promise!GiveUp(c)
        BY <3>5 DEF Promise!GiveUp, Reported
      <4> QED BY <4>1 DEF Promise!Next
    <3>6. CASE /\ Reported' = [Reported EXCEPT ![c] = call'[c].outcome]
               /\ Reported[c] = "none" /\ CommitSucceeds(c)
               /\ call'[c].outcome = "committed"
      <4>1. written' = [written EXCEPT ![c] = IF txn[c] = "committed" THEN @ ELSE @ + 1]
        BY <3>6 DEF CommitSucceeds, Apply
      <4>2. \/ written[c] = 0 /\ written' = [written EXCEPT ![c] = 1]
            \/ written[c] = 1 /\ written' = written
        <5>1. CASE txn[c] = "committed"
          BY <5>1, <4>1, <3>2 DEF CallInv
        <5>2. CASE txn[c] # "committed"
          <6>1. written[c] = 0
            BY <5>2, <3>2 DEF CallInv
          <6> QED BY <5>2, <6>1, <4>1
        <5> QED BY <5>1, <5>2
      <4>3. Promise!Commit(c)
        BY <3>6, <4>2 DEF Promise!Commit, Reported
      <4> QED BY <4>3 DEF Promise!Next
    <3>7. CASE Reported' = Reported /\ CommitLands(c)
      <4>1. written[c] = 0 /\ written' = [written EXCEPT ![c] = 1]
        <5>1. txn[c] = "indoubt"
              /\ written' = [written EXCEPT ![c] = IF txn[c] = "committed" THEN @ ELSE @ + 1]
          BY <3>7 DEF CommitLands, Apply
        <5>2. written[c] = 0
          BY <5>1, <3>2 DEF CallInv
        <5> QED BY <5>1, <5>2
      <4>2. Reported[c] \in {"none", "ambiguous"}
        BY <3>2, <3>7 DEF CommitLands, CallInv, Call
      <4>3. Promise!WriteLate(c)
        BY <3>7, <4>1, <4>2 DEF Promise!WriteLate, Reported
      <4> QED BY <4>3 DEF Promise!Next
    <3> QED BY <1>2, <3>1, <3>3, <3>4, <3>5, <3>6, <3>7, OutcomeSteps
  <2> QED BY <1>2, <2>1, <2>2
<1> QED BY Invariance, <1>1, <1>2, PTL DEF Spec, ImplementsAtomicCall, Promise!Spec
=============================================================================
