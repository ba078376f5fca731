----------------------------- MODULE UnitOfWork -----------------------------
(***************************************************************************)
(* UnitOfWork.executeInTransaction (database/UnitOfWork.ts): concurrent    *)
(* calls that queue for a permit, run their body in a MongoDB transaction, *)
(* commit it, and retry the body or the commit by the labels of the error. *)
(*                                                                         *)
(* The database is external: txn[c] is what the server made of the latest  *)
(* transaction of call c.  The model assumes of the server and its driver  *)
(* what their error labels say: a commit that fails with the label         *)
(* UnknownTransactionCommitResult may have been applied or may be applied  *)
(* later, a commit that fails without it was not and will not be.          *)
(***************************************************************************)
EXTENDS TransactionSemaphore, FiniteSets

CONSTANTS
    Calls,             \* invocations of executeInTransaction
    MaxConcurrent,     \* MAX_CONCURRENT_TRANSACTIONS
    MaxBodyAttempts,
    MaxCommitAttempts

ASSUME CallsAssumption == IsFiniteSet(Calls)
ASSUME LimitsAssumption ==
    {MaxConcurrent, MaxBodyAttempts, MaxCommitAttempts} \subseteq Nat \ {0}

VARIABLES
    sem,        \* transactionSemaphore
    call,       \* call[c]: the local state of call c
    txn,        \* txn[c]: the state of its latest transaction on the server
    written     \* history: written[c], how many transactions of c took effect

vars == <<sem, call, txn, written>>

\* What the cause chain of an error gives evidence of.
Errors == SUBSET {"transient", "unknown", "maxTime"}

Labels == {"idle", "waiting", "starting", "running", "committing", "aborting",
           "ending", "done"}
Call == [pc : Labels, body : 0 .. MaxBodyAttempts, commit : 0 .. MaxCommitAttempts,
         error : Errors, outcome : {"none", "committed", "failed", "ambiguous", "rejected"}]

Init ==
    /\ sem = NewSemaphore(MaxConcurrent)
    /\ call = [c \in Calls |-> [pc |-> "idle", body |-> 0, commit |-> 0,
                                error |-> {}, outcome |-> "none"]]
    /\ txn = [c \in Calls |-> "none"]
    /\ written = [c \in Calls |-> 0]

At(c, label) == call[c].pc = label
Goto(c, label) == call' = [call EXCEPT ![c].pc = label]

Holds(c) == call[c].pc \in {"starting", "running", "committing", "aborting", "ending"}
-----------------------------------------------------------------------------
(***************************************************************************)
(* The permit.                                                             *)
(***************************************************************************)

\* acquire: a call made outside of a transaction.
Acquire(c) ==
    /\ At(c, "idle")
    /\ \/ Free(sem) /\ sem' = Taken(sem) /\ Goto(c, "starting")
       \/ ~Free(sem) /\ sem' = Joined(sem, c) /\ Goto(c, "waiting")
    /\ UNCHANGED <<txn, written>>

\* semaphoreWaitTimeoutMs passes in the queue.
TimesOut(c) ==
    /\ At(c, "waiting")
    /\ \E i \in DOMAIN sem.waiting : sem.waiting[i] = c /\ sem' = Withdrawn(sem, i)
    /\ call' = [call EXCEPT ![c] = [@ EXCEPT !.pc = "done", !.outcome = "rejected"]]
    /\ UNCHANGED <<txn, written>>

\* The finally block.  endSession aborts what is still open, if it succeeds;
\* release wakes the longest waiter.
End(c) ==
    /\ At(c, "ending")
    /\ sem' = Released(sem)
    /\ call' = [d \in Calls |->
                  IF d = c THEN [call[c] EXCEPT !.pc = "done"]
                  ELSE IF d \in Granted(sem) THEN [call[d] EXCEPT !.pc = "starting"]
                  ELSE call[d]]
    /\ \/ UNCHANGED txn
       \/ txn[c] = "open" /\ txn' = [txn EXCEPT ![c] = "aborted"]
    /\ UNCHANGED written
-----------------------------------------------------------------------------
(***************************************************************************)
(* The body.                                                               *)
(***************************************************************************)

Finish(c, o) == call' = [call EXCEPT ![c] = [@ EXCEPT !.pc = "ending", !.outcome = o]]

\* startSession, and startTransaction of the first body attempt.
StartSession(c) ==
    /\ At(c, "starting")
    /\ call' = [call EXCEPT ![c] = [@ EXCEPT !.pc = "running", !.body = 1]]
    /\ txn' = [txn EXCEPT ![c] = "open"]
    /\ UNCHANGED <<sem, written>>

\* Mutant: the session is started before the try block that releases.
StartSessionLeaks(c) ==
    /\ At(c, "starting")
    /\ call' = [call EXCEPT ![c] = [@ EXCEPT !.pc = "done", !.outcome = "failed"]]
    /\ UNCHANGED <<sem, txn, written>>

StartSessionFails(c) ==
    /\ At(c, "starting")
    /\ Finish(c, "failed")
    /\ UNCHANGED <<sem, txn, written>>

BodyReturns(c) ==
    /\ At(c, "running")
    /\ call' = [call EXCEPT ![c] = [@ EXCEPT !.pc = "committing", !.commit = 1]]
    /\ UNCHANGED <<sem, txn, written>>

Abort(c, e) == call' = [call EXCEPT ![c] = [@ EXCEPT !.pc = "aborting", !.error = e]]

BodyThrows(c) ==
    /\ At(c, "running")
    /\ \E e \in Errors : Abort(c, e)
    /\ UNCHANGED <<sem, txn, written>>

\* isRetryableTransactionBodyError; a commit error that comes here is never unknown.
Retryable(c) ==
    /\ "transient" \in call[c].error /\ "unknown" \notin call[c].error
    /\ call[c].body < MaxBodyAttempts

Again(s) == [s EXCEPT !.pc = "running", !.body = s.body + 1, !.commit = 0, !.error = {}]

\* abortIfActive succeeds, or the session was not in a transaction any more:
\* back off and run the body again in a new transaction, or fail.
Aborted(c) ==
    /\ At(c, "aborting")
    /\ \/ /\ Retryable(c)
          /\ call' = [call EXCEPT ![c] = Again(@)]
          /\ txn' = [txn EXCEPT ![c] = "open"]
       \/ /\ ~Retryable(c)
          /\ Finish(c, "failed")
          /\ txn' = [txn EXCEPT ![c] = IF @ = "open" THEN "aborted" ELSE @]
    /\ UNCHANGED <<sem, written>>

AbortFails(c) ==
    /\ At(c, "aborting")
    /\ Finish(c, "failed")
    /\ UNCHANGED <<sem, txn, written>>
-----------------------------------------------------------------------------
(***************************************************************************)
(* The commit.                                                             *)
(***************************************************************************)

Apply(c) ==
    /\ txn' = [txn EXCEPT ![c] = "committed"]
    /\ written' = [written EXCEPT ![c] = IF txn[c] = "committed" THEN @ ELSE @ + 1]

\* A repeated commit of a transaction that was committed succeeds again.
CommitSucceeds(c) ==
    /\ At(c, "committing")
    /\ txn[c] \in {"open", "indoubt", "committed"}
    /\ Apply(c)
    /\ Finish(c, "committed")
    /\ UNCHANGED sem

InDoubt(c) == txn' = [txn EXCEPT ![c] = IF @ = "open" THEN "indoubt" ELSE @]

\* Mutants: an unknown result runs the body again; it is reported as a failure.
UnansweredRunsAgain(c) ==
    /\ At(c, "committing")
    /\ InDoubt(c)
    /\ Abort(c, {"transient"})
    /\ UNCHANGED <<sem, written>>
UnansweredFails(c) ==
    /\ At(c, "committing")
    /\ InDoubt(c)
    /\ Finish(c, "failed")
    /\ UNCHANGED <<sem, written>>

\* isUnknownTransactionCommitResult: only the commit is retried, and when no
\* attempt is left the call reports that it does not know.
CommitUnanswered(c) ==
    /\ At(c, "committing")
    /\ InDoubt(c)
    /\ \E e \in Errors :
         /\ "unknown" \in e
         /\ IF "maxTime" \notin e /\ call[c].commit < MaxCommitAttempts
            THEN call' = [call EXCEPT ![c].commit = @ + 1]
            ELSE Finish(c, "ambiguous")
    /\ UNCHANGED <<sem, written>>

\* Any other commit error.
CommitRefused(c) ==
    /\ At(c, "committing")
    /\ txn[c] # "committed"
    /\ txn' = [txn EXCEPT ![c] = "aborted"]
    /\ \E e \in Errors : "unknown" \notin e /\ Abort(c, e)
    /\ UNCHANGED <<sem, written>>
-----------------------------------------------------------------------------
(***************************************************************************)
(* The server.                                                             *)
(***************************************************************************)

\* A commit request whose answer was lost takes effect.
CommitLands(c) ==
    /\ txn[c] = "indoubt"
    /\ Apply(c)
    /\ UNCHANGED <<sem, call>>

\* A write conflict, a failover or transactionLifetimeLimitSeconds.
ServerAborts(c) ==
    /\ txn[c] \in {"open", "indoubt"}
    /\ txn' = [txn EXCEPT ![c] = "aborted"]
    /\ UNCHANGED <<sem, call, written>>
-----------------------------------------------------------------------------
Proceed(c) ==
    \/ End(c)
    \/ StartSession(c) \/ StartSessionFails(c)
    \/ BodyReturns(c) \/ BodyThrows(c)
    \/ Aborted(c) \/ AbortFails(c)
    \/ CommitSucceeds(c) \/ CommitUnanswered(c) \/ CommitRefused(c)

Server(c) == CommitLands(c) \/ ServerAborts(c)

Next == \E c \in Calls : Acquire(c) \/ TimesOut(c) \/ Proceed(c) \/ Server(c)

Spec == Init /\ [][Next]_vars

\* A call that has its permit goes on: sessions, bodies, aborts and commits
\* are answered, if only by an error.  Timers need not fire.
FairSpec == Spec /\ \A c \in Calls : WF_vars(Proceed(c))
-----------------------------------------------------------------------------
(***************************************************************************)
(* Properties.                                                             *)
(***************************************************************************)

TypeOK ==
    /\ sem \in [permits : Nat, waiting : Seq(Calls)]
    /\ call \in [Calls -> Call]
    /\ txn \in [Calls -> {"none", "open", "indoubt", "committed", "aborted"}]
    /\ written \in [Calls -> Nat]

\* Each permit is free or belongs to one call that is on its way to release
\* it: whatever fails, none is lost and none is invented.
PermitsAccounted ==
    sem.permits + Cardinality({c \in Calls : Holds(c)}) = MaxConcurrent

\* The queue holds exactly the waiting calls, each once, and a permit is not
\* free while somebody waits: a grant cannot go to a caller that timed out.
QueueIsTheWaiters ==
    /\ ToSet(sem.waiting) = {c \in Calls : At(c, "waiting")}
    /\ \A i, j \in DOMAIN sem.waiting : sem.waiting[i] = sem.waiting[j] => i = j
    /\ sem.waiting # <<>> => sem.permits = 0

\* A call gets a permit only when no call that queued before it still waits.
Before(d, c) ==
    \E i \in DOMAIN sem.waiting :
        /\ sem.waiting[i] = d
        /\ \A j \in DOMAIN sem.waiting : sem.waiting[j] = c => i < j
NoOvertaking ==
    [][\A c, d \in Calls : ~Holds(c) /\ Holds(c)' /\ Before(d, c) => Holds(d)']_vars

\* However often body and commit are repeated, the writes of a call take
\* effect at most once.
AtMostOnce == \A c \in Calls : written[c] <= 1

\* What a call reports is so for good: writes it reports are there, writes it
\* reports failed are not and no request is left that could still make them.
OutcomeIsTrue == \A c \in Calls :
    /\ call[c].outcome = "committed" => written[c] = 1
    /\ call[c].outcome \in {"failed", "rejected"} => written[c] = 0 /\ txn[c] # "indoubt"

\* Whoever queues gets an answer, although nothing but the calls ahead of it
\* frees a permit.
EveryCallEnds == \A c \in Calls : At(c, "waiting") ~> At(c, "done")

\* Why it does: no step takes a call back.  A body that runs again, or a commit
\* that is repeated, uses up one of its attempts.
Phase == [idle |-> 0, waiting |-> 1, starting |-> 2,
          running |-> 3, committing |-> 3, aborting |-> 3, ending |-> 4, done |-> 5]
Stage == [running |-> 0, committing |-> 1, aborting |-> 2]

GoesOn(s, t) ==
    \/ Phase[s.pc] < Phase[t.pc]
    \/ Phase[s.pc] = Phase[t.pc] /\ s.body < t.body
    \/ s.body = t.body /\ {s.pc, t.pc} \subseteq DOMAIN Stage /\ Stage[s.pc] < Stage[t.pc]
    \/ s.body = t.body /\ s.pc = t.pc /\ s.commit < t.commit

CallsGoOn == [][\A c \in Calls : call'[c] # call[c] => GoesOn(call[c], call'[c])]_vars

-----------------------------------------------------------------------------
\* The inductive invariant the proofs use, next to the two about permits.
CallInv(c) ==
    /\ call[c].pc \in {"idle", "waiting", "starting"} => txn[c] = "none"
    /\ call[c].pc \in {"running", "aborting"} => txn[c] \in {"open", "aborted"}
    /\ call[c].pc \in {"ending", "done"} <=> call[c].outcome # "none"
    /\ call[c].outcome = "committed" => txn[c] = "committed"
    /\ call[c].outcome \in {"failed", "rejected"} => txn[c] \in {"none", "open", "aborted"}
    /\ written[c] = IF txn[c] = "committed" THEN 1 ELSE 0

IInv == TypeOK /\ QueueIsTheWaiters /\ PermitsAccounted /\ \A c \in Calls : CallInv(c)

Promise == INSTANCE AtomicCall WITH outcome <- [c \in Calls |-> call[c].outcome]
ImplementsAtomicCall == Promise!Spec
=============================================================================
