------------------------------- MODULE Outbox -------------------------------
(***************************************************************************)
(* The transactional outbox of the backend: the documents of the outbox    *)
(* collection (repositories/outbox.repository.ts) and the worker processes *)
(* that claim, dispatch, checkpoint and complete them                      *)
(* (workers/outbox.worker.ts, on workers/base/BasePollingWorker.ts).       *)
(*                                                                         *)
(* Every request to the database is one atomic action, because MongoDB     *)
(* applies an update of one document atomically; between two of them any   *)
(* other process may run.  A request that fails may have been applied.     *)
(* Clocks are abstracted to the two questions the filters ask: has a claim *)
(* outlived staleAfterMs (field stale), and is nextAttemptAt in the future *)
(* (field deferred).                                                       *)
(***************************************************************************)
EXTENDS Naturals, Sequences, FiniteSets

CONSTANTS
    Workers,     \* worker instances, one randomUUID() each; a restart is a new one
    NoWorker,    \* processingOwner when it is unset
    Events,      \* outbox documents, numbered in the order of createdAt
    Handlers,    \* Handlers[e]: the handler keys subscribed to the type of e
    MaxRetries,  \* MAX_OUTBOX_RETRIES
    MaxStalls,   \* bound: claims that expire although their worker is alive
    MaxDbFaults, \* bound: database requests that fail
    MaxPartials, \* bound: handlers that throw after they took effect
    MaxRequeues  \* bound: operator requeues

ASSUME WorkersAssumption == IsFiniteSet(Workers) /\ NoWorker \notin Workers
ASSUME EventsAssumption == Events \subseteq Nat
ASSUME MaxRetriesAssumption == MaxRetries \in Nat \ {0}
ASSUME BoundsAssumption == {MaxStalls, MaxDbFaults, MaxPartials, MaxRequeues} \subseteq Nat

Keys(e) == {Handlers[e][i] : i \in DOMAIN Handlers[e]}
AllKeys == UNION {Keys(e) : e \in Events}

\* di/handlers.di.ts subscribes handlers of different classes to a type, and
\* EventBus.resolveHandlerKey uses the class name as the key.
ASSUME HandlersAssumption ==
    /\ DOMAIN Handlers = Events
    /\ \A e \in Events :
         /\ Handlers[e] \in Seq(AllKeys)
         /\ \A i, j \in DOMAIN Handlers[e] : Handlers[e][i] = Handlers[e][j] => i = j

VARIABLES
    doc,    \* doc[e]: the outbox document of event e
    wk,     \* wk[w]: the local state of worker instance w
    runs,   \* history: runs[e][h], how often handler h took effect for event e
    count   \* how much of each bound is used

vars == <<doc, wk, runs, count>>

Doc == [stage : {"unwritten", "stored", "purged"}, processed : BOOLEAN,
        retries : Nat, processing : BOOLEAN, owner : Workers \cup {NoWorker},
        stale : BOOLEAN, deferred : BOOLEAN, exhausted : BOOLEAN,
        done : SUBSET AllKeys]

\* A busy worker holds the record as it was when it was claimed.
Working == {"dispatching", "handling", "checkpointing", "completing", "failing"}
WorkerState == [pc : Working \cup {"idle", "dead"}, ev : Events \cup {0},
                retries : Nat, done : SUBSET AllKeys, lost : BOOLEAN]
Idle == [pc |-> "idle", ev |-> 0, retries |-> 0, done |-> {}, lost |-> FALSE]
Dead == [Idle EXCEPT !.pc = "dead"]

NewDoc == [stage |-> "unwritten", processed |-> FALSE, retries |-> 0,
           processing |-> FALSE, owner |-> NoWorker, stale |-> FALSE,
           deferred |-> FALSE, exhausted |-> FALSE, done |-> {}]

Counts == [stalls : 0 .. MaxStalls, db : 0 .. MaxDbFaults,
           partials : 0 .. MaxPartials, requeues : 0 .. MaxRequeues]

Init ==
    /\ doc = [e \in Events |-> NewDoc]
    /\ wk = [w \in Workers |-> Idle]
    /\ runs = [e \in Events |-> [h \in AllKeys |-> 0]]
    /\ count = [stalls |-> 0, db |-> 0, partials |-> 0, requeues |-> 0]

Busy(w) == wk[w].pc \in Working
Alive(w) == wk[w].pc # "dead"

DbFault == count.db < MaxDbFaults /\ count' = [count EXCEPT !.db = @ + 1]

-----------------------------------------------------------------------------
(***************************************************************************)
(* The documents, written by others than the worker.                       *)
(***************************************************************************)

\* saveEvent, at the commit of its transaction.  Transactions commit in any
\* order, so a document can appear after a younger one.
SaveEvent(e) ==
    /\ doc[e].stage = "unwritten"
    /\ doc' = [doc EXCEPT ![e].stage = "stored"]
    /\ UNCHANGED <<wk, runs, count>>

\* Mutant: the requeue starts the delivery from nothing.
RequeueClearsHandlers(e) ==
    /\ count.requeues < MaxRequeues
    /\ doc[e].stage = "stored" /\ ~doc[e].processed /\ ~doc[e].processing
    /\ doc[e].exhausted
    /\ doc' = [doc EXCEPT ![e] = [NewDoc EXCEPT !.stage = "stored"]]
    /\ count' = [count EXCEPT !.requeues = @ + 1]
    /\ UNCHANGED <<wk, runs>>

\* The operator's requeue of an exhausted event.  processedHandlers stays.
Requeue(e) ==
    /\ count.requeues < MaxRequeues
    /\ doc[e].stage = "stored" /\ ~doc[e].processed /\ ~doc[e].processing
    /\ doc[e].retries >= MaxRetries \/ doc[e].exhausted
    /\ doc' = [doc EXCEPT ![e] = [@ EXCEPT !.retries = 0, !.exhausted = FALSE,
                  !.deferred = FALSE, !.owner = NoWorker, !.stale = FALSE]]
    /\ count' = [count EXCEPT !.requeues = @ + 1]
    /\ UNCHANGED <<wk, runs>>

\* ConversationRepository.purge deletes the outbox documents of a conversation.
Purge(e) ==
    /\ doc[e].stage = "stored"
    /\ doc' = [doc EXCEPT ![e] = [NewDoc EXCEPT !.stage = "purged"]]
    /\ UNCHANGED <<wk, runs, count>>

\* A worker renews its claim as long as it works on the event and has not
\* seen a renewal fail.  Only then is an expired claim a stall (counted).
Renewing(e) ==
    \E w \in Workers : Busy(w) /\ wk[w].ev = e /\ doc[e].owner = w /\ ~wk[w].lost

\* processingStartedAt becomes older than staleAfterMs.
ClaimExpires(e) ==
    /\ doc[e].processing /\ ~doc[e].stale
    /\ IF Renewing(e)
       THEN count.stalls < MaxStalls /\ count' = [count EXCEPT !.stalls = @ + 1]
       ELSE UNCHANGED count
    /\ doc' = [doc EXCEPT ![e].stale = TRUE]
    /\ UNCHANGED <<wk, runs>>

\* nextAttemptAt passes.
BackoffElapses(e) ==
    /\ doc[e].deferred
    /\ doc' = [doc EXCEPT ![e].deferred = FALSE]
    /\ UNCHANGED <<wk, runs, count>>

-----------------------------------------------------------------------------
(***************************************************************************)
(* The worker: one claim and its dispatch.                                 *)
(***************************************************************************)

\* Mutants of the claim filter: without the test of processing, and without
\* the alternative for an expired claim.
ClaimableWhileProcessing(e) ==
    /\ doc[e].stage = "stored" /\ ~doc[e].processed
    /\ doc[e].retries < MaxRetries /\ ~doc[e].exhausted /\ ~doc[e].deferred
ClaimableUnlessProcessing(e) == ClaimableWhileProcessing(e) /\ ~doc[e].processing

Claimable(e) ==
    /\ doc[e].stage = "stored" /\ ~doc[e].processed
    /\ doc[e].retries < MaxRetries /\ ~doc[e].exhausted
    /\ ~doc[e].deferred
    /\ ~doc[e].processing \/ doc[e].stale

Oldest(e) == Claimable(e) /\ \A f \in Events : Claimable(f) => e <= f

SetClaim(e, w) ==
    doc' = [doc EXCEPT ![e] = [@ EXCEPT !.processing = TRUE, !.owner = w, !.stale = FALSE]]

\* Mutant: the worker forgets the record's checkpoints.
ClaimForgetsHandlers(w) ==
    /\ wk[w].pc = "idle"
    /\ \E e \in Events :
         /\ Oldest(e)
         /\ SetClaim(e, w)
         /\ wk' = [wk EXCEPT ![w] = [Idle EXCEPT !.pc = "dispatching", !.ev = e,
                     !.retries = doc[e].retries]]
    /\ UNCHANGED <<runs, count>>

\* claimPendingEvents: the oldest claimable document; the worker gets its content.
Claim(w) ==
    /\ wk[w].pc = "idle"
    /\ \E e \in Events :
         /\ Oldest(e)
         /\ SetClaim(e, w)
         /\ wk' = [wk EXCEPT ![w] = [pc |-> "dispatching", ev |-> e,
                     retries |-> doc[e].retries, done |-> doc[e].done, lost |-> FALSE]]
    /\ UNCHANGED <<runs, count>>

\* The claim is applied and its answer lost: the tick ends with the document claimed.
ClaimFails(w) ==
    /\ wk[w].pc = "idle"
    /\ \E e \in Events : Oldest(e) /\ SetClaim(e, w)
    /\ DbFault
    /\ UNCHANGED <<wk, runs>>

Goto(w, label) == wk' = [wk EXCEPT ![w].pc = label]

\* The handler the loop is at: the first that the claimed record or this
\* attempt has no checkpoint for.
Left(e, done) == {i \in DOMAIN Handlers[e] : Handlers[e][i] \notin done}
FirstLeft(e, done) == Handlers[e][CHOOSE i \in Left(e, done) : \A j \in Left(e, done) : i <= j]
NoneLeft(w) == Left(wk[w].ev, wk[w].done) = {}
Current(w) == FirstLeft(wk[w].ev, wk[w].done)

\* The two errors thrown before a handler starts: no handler is registered,
\* or assertOwnership saw that a renewal failed.
Interrupted(w) == Handlers[wk[w].ev] = <<>> \/ wk[w].lost

\* Mutant: no error for an event type without handlers.
DispatchUnrouted(w) ==
    /\ wk[w].pc = "dispatching"
    /\ \/ wk[w].lost /\ Goto(w, "failing")
       \/ ~wk[w].lost /\ NoneLeft(w) /\ Goto(w, "completing")
       \/ ~wk[w].lost /\ ~NoneLeft(w) /\ Goto(w, "handling")
    /\ UNCHANGED <<doc, runs, count>>

\* The loop over the handlers up to its next await: assertOwnership, skip
\* the checkpointed ones, start the next one or complete the event.
Dispatch(w) ==
    /\ wk[w].pc = "dispatching"
    /\ \/ Interrupted(w) /\ Goto(w, "failing")
       \/ ~Interrupted(w) /\ NoneLeft(w) /\ Goto(w, "completing")
       \/ ~Interrupted(w) /\ ~NoneLeft(w) /\ Goto(w, "handling")
    /\ UNCHANGED <<doc, runs, count>>

Effect(w) == runs' = [runs EXCEPT ![wk[w].ev][Current(w)] = @ + 1]

\* handler.handle resolves; assertOwnership stands before the checkpoint.
HandlerReturns(w) ==
    /\ wk[w].pc = "handling"
    /\ Effect(w)
    /\ Goto(w, IF wk[w].lost THEN "failing" ELSE "checkpointing")
    /\ UNCHANGED <<doc, count>>

\* Mutant: the error of a handler is swallowed.
HandlerThrowsSwallowed(w) ==
    /\ wk[w].pc = "handling"
    /\ Goto(w, "checkpointing")
    /\ UNCHANGED <<doc, runs, count>>

\* handler.handle rejects before it took effect, or after.
HandlerThrows(w) ==
    /\ wk[w].pc = "handling"
    /\ Goto(w, "failing")
    /\ \/ UNCHANGED <<runs, count>>
       \/ /\ Effect(w)
          /\ count.partials < MaxPartials
          /\ count' = [count EXCEPT !.partials = @ + 1]
    /\ UNCHANGED doc

\* buildOwnedFilter: the document exists and carries this worker's id.
Owned(w) == doc[wk[w].ev].stage = "stored" /\ doc[wk[w].ev].owner = w

AddHandler(w) == doc' = [doc EXCEPT ![wk[w].ev].done = @ \cup {Current(w)}]

Checkpointed(s, h) == [s EXCEPT !.pc = "dispatching", !.done = @ \cup {h}]

\* markHandlerProcessed: modifiedCount is 0 when the filter misses or the key
\* is already there.
Checkpoint(w) ==
    /\ wk[w].pc = "checkpointing"
    /\ IF Owned(w) /\ Current(w) \notin doc[wk[w].ev].done
       THEN /\ AddHandler(w)
            /\ wk' = [wk EXCEPT ![w] = Checkpointed(@, Current(w))]
       ELSE Goto(w, "failing") /\ UNCHANGED doc
    /\ UNCHANGED <<runs, count>>

CheckpointFails(w) ==
    /\ wk[w].pc = "checkpointing"
    /\ (Owned(w) /\ AddHandler(w)) \/ UNCHANGED doc
    /\ Goto(w, "failing")
    /\ DbFault
    /\ UNCHANGED runs

SetProcessed(w) ==
    doc' = [doc EXCEPT ![wk[w].ev] = [@ EXCEPT !.processed = TRUE, !.processing = FALSE,
              !.owner = NoWorker, !.stale = FALSE, !.deferred = FALSE, !.exhausted = FALSE]]

\* markAsProcessed.  Not modified is an error inside the try, so it goes on to
\* markAsFailed.
Complete(w) ==
    /\ wk[w].pc = "completing"
    /\ IF Owned(w)
       THEN SetProcessed(w) /\ wk' = [wk EXCEPT ![w] = Idle]
       ELSE Goto(w, "failing") /\ UNCHANGED doc
    /\ UNCHANGED <<runs, count>>

CompleteFails(w) ==
    /\ wk[w].pc = "completing"
    /\ (Owned(w) /\ SetProcessed(w)) \/ UNCHANGED doc
    /\ Goto(w, "failing")
    /\ DbFault
    /\ UNCHANGED runs

\* Mutant: the attempt that just failed is not counted.
ExhaustsOneLater(w) == wk[w].retries >= MaxRetries

\* The catch block counts the attempt from the record it claimed.
Exhausts(w) == wk[w].retries + 1 >= MaxRetries

FailedDoc(d, exhausted) ==
    [d EXCEPT !.retries = @ + 1, !.processing = FALSE, !.owner = NoWorker,
              !.stale = FALSE, !.exhausted = exhausted, !.deferred = ~exhausted]

SetFailed(w) ==
    \E exhausted \in BOOLEAN :
        /\ exhausted <=> Exhausts(w)
        /\ doc' = [doc EXCEPT ![wk[w].ev] = FailedDoc(@, exhausted)]

\* Mutant: the write of a worker that lost the event goes through.
FailUnowned(w) ==
    /\ wk[w].pc = "failing"
    /\ SetFailed(w)
    /\ wk' = [wk EXCEPT ![w] = Idle]
    /\ UNCHANGED <<runs, count>>

\* markAsFailed: when the filter misses, ownership was lost and nothing is recorded.
Fail(w) ==
    /\ wk[w].pc = "failing"
    /\ IF Owned(w) THEN SetFailed(w) ELSE UNCHANGED doc
    /\ wk' = [wk EXCEPT ![w] = Idle]
    /\ UNCHANGED <<runs, count>>

\* markAsFailed throws: the AggregateError ends the tick.
FailFails(w) ==
    /\ wk[w].pc = "failing"
    /\ (Owned(w) /\ SetFailed(w)) \/ UNCHANGED doc
    /\ wk' = [wk EXCEPT ![w] = Idle]
    /\ DbFault
    /\ UNCHANGED runs

\* The interval of withClaimRenewal, which runs next to the dispatch.
Renew(w) ==
    /\ Busy(w) /\ ~wk[w].lost
    /\ IF Owned(w) /\ doc[wk[w].ev].processing
       THEN doc' = [doc EXCEPT ![wk[w].ev].stale = FALSE] /\ UNCHANGED wk
       ELSE wk' = [wk EXCEPT ![w].lost = TRUE] /\ UNCHANGED doc
    /\ UNCHANGED <<runs, count>>

RenewFails(w) ==
    /\ Busy(w) /\ ~wk[w].lost
    /\ wk' = [wk EXCEPT ![w].lost = TRUE]
    /\ doc' = doc \/ (Owned(w) /\ doc' = [doc EXCEPT ![wk[w].ev].stale = FALSE])
    /\ DbFault
    /\ UNCHANGED runs

\* The process dies, in a handler before or after it took effect.  Bound: one
\* instance survives.
Crash(w) ==
    /\ Alive(w) /\ \E v \in Workers \ {w} : Alive(v)
    /\ wk' = [wk EXCEPT ![w] = Dead]
    /\ UNCHANGED runs \/ (wk[w].pc = "handling" /\ Effect(w))
    /\ UNCHANGED <<doc, count>>

-----------------------------------------------------------------------------
Step(w) == Dispatch(w) \/ HandlerReturns(w) \/ HandlerThrows(w)
             \/ Checkpoint(w) \/ Complete(w) \/ Fail(w)

Worker(w) == Claim(w) \/ Step(w) \/ Renew(w) \/ Crash(w)
               \/ ClaimFails(w) \/ CheckpointFails(w) \/ CompleteFails(w)
               \/ FailFails(w) \/ RenewFails(w)

Environment(e) == SaveEvent(e) \/ Requeue(e) \/ Purge(e)
                    \/ ClaimExpires(e) \/ BackoffElapses(e)

Next == (\E w \in Workers : Worker(w)) \/ (\E e \in Events : Environment(e))

Spec == Init /\ [][Next]_vars

(***************************************************************************)
(* Fairness.  The polling loop runs again after every tick, a live worker  *)
(* goes on from every await (handlers settle, the driver answers), its     *)
(* interval fires, and time passes.                                        *)
(***************************************************************************)
Fairness ==
    /\ \A w \in Workers : WF_vars(Claim(w)) /\ WF_vars(Step(w)) /\ WF_vars(Renew(w))
    /\ \A e \in Events : WF_vars(BackoffElapses(e)) /\ WF_vars(~Renewing(e) /\ ClaimExpires(e))

FairSpec == Spec /\ Fairness
-----------------------------------------------------------------------------
(***************************************************************************)
(* Properties.                                                             *)
(***************************************************************************)

\* Types of the documents, of the workers and of the history.
TypeOK ==
    /\ doc \in [Events -> Doc]
    /\ wk \in [Workers -> WorkerState]
    /\ \A w \in Workers : Busy(w) => wk[w].ev \in Events
    /\ runs \in [Events -> [AllKeys -> Nat]]
    /\ count \in Counts

\* A checkpoint is never ahead of the work: whatever crashes, expires or fails,
\* a handler recorded in processedHandlers took effect at least once.
CheckpointsAreEarned ==
    \A e \in Events : \A h \in doc[e].done : runs[e][h] > 0

\* A processed event was delivered to each of its handlers, and to one at
\* least: an event type nobody subscribed to is never completed silently.
ProcessedMeansDelivered ==
    \A e \in Events : doc[e].processed =>
        Keys(e) # {} /\ \A h \in Keys(e) : h \in doc[e].done /\ runs[e][h] > 0

\* exhaustedAt, set from the retries in the claimed record, agrees with the
\* retries in the database, which markAsFailed increments there: were they to
\* part, an event would be neither claimed (Claimable) nor reported exhausted.
ExhaustedIffOutOfRetries ==
    \A e \in Events : doc[e].exhausted <=> doc[e].retries >= MaxRetries

\* The owner of an event never runs a handler that has a checkpoint, though it
\* decides from the snapshot it got at the claim and earlier owners wrote others.
OwnerNeverRepeatsCheckpoint ==
    \A w \in Workers : wk[w].pc = "handling" /\ Owned(w)
        => Current(w) \notin doc[wk[w].ev].done

\* Delivery is exactly once but for the interruptions: every repeated effect
\* is paid for by a stall, a failed request, a handler that threw after its
\* effect, or a crash of its own.
Beyond(n) == UNION {{<<e, h, k>> : k \in 2 .. n[e][h]} : e \in Events, h \in AllKeys}
Repeats == Beyond(runs)
Crashed == {w \in Workers : ~Alive(w)}
Interruptions == count.stalls + count.db + count.partials + Cardinality(Crashed)
DuplicatesArePaidFor == Cardinality(Repeats) <= Interruptions

\* Nothing a late worker, the operator or a renewal does changes a processed
\* event; only a purge removes it.
ProcessedIsFinal ==
    [][\A e \in Events : doc[e].processed =>
          doc'[e] = doc[e] \/ doc'[e].stage = "purged"]_vars

\* A checkpoint survives every failure, takeover and requeue.
CheckpointsSurvive ==
    [][\A e \in Events : doc'[e].stage # "purged" => doc[e].done \subseteq doc'[e].done]_vars

\* No committed event is forgotten: it is processed, parked as exhausted for
\* the operator, or purged with its conversation.
Settled(e) == doc[e].processed \/ doc[e].exhausted \/ doc[e].stage = "purged"
EveryEventSettles == \A e \in Events : doc[e].stage = "stored" ~> Settled(e)
\* The inductive invariant the proofs use: what holds of a document between
\* any two requests, ...
EventInv(e) ==
    /\ doc[e].stage # "stored" =>
         ~doc[e].processed /\ doc[e].retries = 0 /\ doc[e].owner = NoWorker
         /\ doc[e].done = {}
    /\ doc[e].processing <=> doc[e].owner # NoWorker
    /\ doc[e].processing => ~doc[e].processed /\ doc[e].retries < MaxRetries
    /\ doc[e].exhausted <=> doc[e].retries >= MaxRetries
    /\ \A h \in doc[e].done : runs[e][h] > 0
    /\ doc[e].processed =>
         ~doc[e].deferred /\ Keys(e) # {} /\ Keys(e) \subseteq doc[e].done

\* ... and how what a worker remembers relates to the document it owns.
WorkerInv(w) == Busy(w) =>
    /\ Owned(w) =>
         /\ wk[w].retries = doc[wk[w].ev].retries
         /\ wk[w].pc # "failing" => wk[w].done = doc[wk[w].ev].done
    /\ wk[w].pc \in {"handling", "checkpointing"} => ~NoneLeft(w)
    /\ wk[w].pc = "checkpointing" => runs[wk[w].ev][Current(w)] > 0
    /\ wk[w].pc = "completing" => Keys(wk[w].ev) # {} /\ Keys(wk[w].ev) \subseteq wk[w].done

\* The effects to be expected of a handler for an event, besides those it had:
\* one of each worker that is at it without a fresh claim, and one of the
\* rightful owner, now or later, until it is recorded.
Healthy(w) == Busy(w) /\ Owned(w) /\ ~wk[w].lost /\ ~doc[wk[w].ev].stale
IsAt(w, e, h) == Busy(w) /\ wk[w].ev = e /\ ~NoneLeft(w) /\ Current(w) = h
MayRun(w) == wk[w].pc = "handling" \/ (wk[w].pc = "dispatching" /\ ~wk[w].lost)
Stray(w, e, h) == IsAt(w, e, h) /\ MayRun(w) /\ ~Healthy(w)
Recording(w, e, h) == IsAt(w, e, h) /\ wk[w].pc = "checkpointing" /\ Healthy(w)
Due(e, h) ==
    doc[e].stage # "purged" /\ ~doc[e].processed /\ h \in Keys(e) \ doc[e].done
Open(e, h) == Due(e, h) /\ \A w \in Workers : ~Recording(w, e, h)
One(b) == IF b THEN 1 ELSE 0
Expected(e, h) ==
    runs[e][h] + Cardinality({w \in Workers : Stray(w, e, h)}) + One(Open(e, h))

\* Repeats that have happened or are to be expected were all paid for.
Debt == Beyond([e \in Events |-> [h \in AllKeys |-> Expected(e, h)]])
DebtIsPaid == IsFiniteSet(Debt) /\ Cardinality(Debt) <= Interruptions

IInv ==
    /\ TypeOK
    /\ \A e \in Events : EventInv(e)
    /\ \A w \in Workers : WorkerInv(w)

-----------------------------------------------------------------------------
\* The implementation of the delivery promise.
Status(e) ==
    CASE doc[e].stage # "stored" -> doc[e].stage
      [] doc[e].processed -> "delivered"
      [] doc[e].exhausted -> "parked"
      [] OTHER -> "pending"

Observed == [e \in Events |-> Status(e)]
Ran == [e \in Events |-> {h \in AllKeys : runs[e][h] > 0}]

Delivery == INSTANCE OutboxDelivery WITH
    KeysOf <- [e \in Events |-> Keys(e)], status <- Observed, ran <- Ran

\* Every step of the documents and workers is a step of the promise or none.
ImplementsDelivery == Delivery!SafeSpec

\* With the fairness above, it also settles every event.
ImplementsFairDelivery == Delivery!Spec
=============================================================================
