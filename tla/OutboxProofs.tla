---------------------------- MODULE OutboxProofs ----------------------------
(***************************************************************************)
(* Proofs about Outbox, for every set of workers and events, every         *)
(* assignment of handlers and every value of the bounds.                   *)
(***************************************************************************)
EXTENDS Outbox, FiniteSetTheorems, TLAPS, WellFoundedInduction

\* A non-empty set of naturals has a least element.
LEMMA LeastElement ==
    ASSUME NEW S \in SUBSET Nat, S # {}
    PROVE  \E i \in S : \A j \in S : i <= j
<1>1. PICK x \in S : \A y \in S : <<y, x>> \notin OpToRel(<, Nat)
  BY WFMin, NatLessThanWellFounded, Zenon
<1>2. \A y \in S : ~ (y < x)
  <2>1. TAKE y \in S
  <2>2. <<y, x>> \in Nat \X Nat
    OBVIOUS
  <2>3. <<y, x>>[1] = y /\ <<y, x>>[2] = x
    OBVIOUS
  <2> QED BY <1>1, <2>2, <2>3, Zenon DEF OpToRel
<1> QED BY <1>2

\* A worker that has handlers left is at one of them: a key of its event that
\* is not among the checkpoints it knows.
LEMMA FirstLeftIsLeft ==
    ASSUME NEW e \in Events, NEW done, Left(e, done) # {}
    PROVE  FirstLeft(e, done) \in (Keys(e) \ done) \cap AllKeys
<1> DEFINE S == Left(e, done)
           first == CHOOSE i \in S : \A j \in S : i <= j
<1>1. S \in SUBSET Nat
  <2>1. Handlers[e] \in Seq(AllKeys)
    BY HandlersAssumption
  <2>2. DOMAIN Handlers[e] \subseteq Nat
    BY <2>1
  <2> QED BY <2>2 DEF Left
<1>2. first \in S
  BY <1>1, LeastElement
<1>3. FirstLeft(e, done) = Handlers[e][first]
  BY DEF FirstLeft
<1> HIDE DEF first
<1>4. first \in DOMAIN Handlers[e] /\ Handlers[e][first] \notin done
  BY <1>2 DEF Left
<1> QED BY <1>3, <1>4 DEF Keys, AllKeys

\* With nothing left, every key of the event is among the checkpoints.
LEMMA NothingLeft ==
    ASSUME NEW e \in Events, NEW done, Left(e, done) = {}
    PROVE  Keys(e) \subseteq done
BY DEF Left, Keys

LEMMA InitInv == Init => IInv
<1> SUFFICES ASSUME Init PROVE IInv
  OBVIOUS
<1> USE DEF Init, NewDoc, Idle
<1>1. TypeOK
  BY BoundsAssumption DEF TypeOK, Doc, WorkerState, Counts, Busy, Working
<1>2. ASSUME NEW e \in Events PROVE EventInv(e)
  BY MaxRetriesAssumption DEF EventInv
<1>3. ASSUME NEW w \in Workers PROVE WorkerInv(w)
  BY DEF WorkerInv, Busy, Working
<1> QED BY <1>1, <1>2, <1>3 DEF IInv

\* A busy worker is at an event, and in a handler at one of its keys.
LEMMA BusyFacts ==
    ASSUME IInv, NEW w \in Workers, Busy(w)
    PROVE  /\ wk[w].ev \in Events
           /\ wk[w].pc \in {"handling", "checkpointing"} =>
                Current(w) \in (Keys(wk[w].ev) \ wk[w].done) \cap AllKeys
BY FirstLeftIsLeft DEF IInv, TypeOK, WorkerInv, NoneLeft, Current

\* Effects are only added.
RunsGrow == \A e \in Events : \A h \in AllKeys : runs'[e][h] >= runs[e][h]

\* A document that did not change keeps its invariant.
LEMMA SameEvent ==
    ASSUME IInv, TypeOK', RunsGrow, NEW e \in Events, doc'[e] = doc[e]
    PROVE  EventInv(e)'
<1>1. EventInv(e) /\ doc[e].done \subseteq AllKeys
  BY DEF IInv, TypeOK, Doc
<1>2. \A h \in AllKeys : runs[e][h] > 0 => runs'[e][h] > 0
  BY DEF IInv, TypeOK, RunsGrow
<1> QED BY <1>1, <1>2 DEF EventInv

\* A worker that did not move keeps its invariant if nobody changed the
\* document it owns, and nobody made it an owner.
LEMMA SameWorker ==
    ASSUME IInv, TypeOK', RunsGrow, NEW v \in Workers, wk'[v] = wk[v],
           Busy(v) /\ Owned(v)' =>
              /\ Owned(v)
              /\ doc'[wk[v].ev].retries = doc[wk[v].ev].retries
              /\ doc'[wk[v].ev].done = doc[wk[v].ev].done
    PROVE  WorkerInv(v)'
<1>1. WorkerInv(v) /\ Busy(v)' = Busy(v)
  BY DEF IInv, Busy
<1>2. CASE ~Busy(v)
  BY <1>1, <1>2 DEF WorkerInv
<1>3. CASE Busy(v)
  <2>1. wk[v].pc = "checkpointing" => Current(v) \in AllKeys /\ wk[v].ev \in Events
    BY <1>3, BusyFacts
  <2>2. wk[v].pc = "checkpointing" => runs'[wk[v].ev][Current(v)] > 0
    BY <1>1, <1>3, <2>1 DEF WorkerInv, RunsGrow, IInv, TypeOK
  <2> QED BY <1>1, <1>3, <2>2 DEF WorkerInv, NoneLeft, Current
<1> QED BY <1>2, <1>3

-----------------------------------------------------------------------------
(***************************************************************************)
(* The environment: one document changes, the workers do not.              *)
(***************************************************************************)
LEMMA EnvironmentStep ==
    ASSUME IInv, NEW e \in Events, UNCHANGED <<wk, runs>>,
           count' \in Counts,
           doc' \in [Events -> Doc], \A f \in Events \ {e} : doc'[f] = doc[f],
           EventInv(e)',
           doc'[e].stage = "stored" /\ doc'[e].owner # NoWorker =>
              /\ doc[e].stage = "stored" /\ doc'[e].owner = doc[e].owner
              /\ doc'[e].retries = doc[e].retries /\ doc'[e].done = doc[e].done
    PROVE  IInv'
<1>1. TypeOK'
  BY DEF IInv, TypeOK, Busy
<1>2. RunsGrow
  BY DEF IInv, TypeOK, RunsGrow
<1>3. ASSUME NEW f \in Events PROVE EventInv(f)'
  BY <1>1, <1>2, SameEvent
<1>4. ASSUME NEW v \in Workers PROVE WorkerInv(v)'
  <2>1. ASSUME Busy(v), Owned(v)'
        PROVE  /\ Owned(v)
               /\ doc'[wk[v].ev].retries = doc[wk[v].ev].retries
               /\ doc'[wk[v].ev].done = doc[wk[v].ev].done
    BY <2>1, WorkersAssumption DEF Owned, IInv, TypeOK
  <2> QED BY <1>1, <1>2, <2>1, SameWorker
<1> QED BY <1>1, <1>3, <1>4 DEF IInv

LEMMA EnvironmentInv ==
    ASSUME IInv, NEW e \in Events, Environment(e)
    PROVE  IInv'
<1>1. doc \in [Events -> Doc] /\ EventInv(e) /\ doc[e] \in Doc
  BY DEF IInv, TypeOK
<1>2. count \in Counts
  BY DEF IInv, TypeOK
<1>3. CASE SaveEvent(e)
  <2>1. doc' \in [Events -> Doc] /\ \A f \in Events \ {e} : doc'[f] = doc[f]
    BY <1>1, <1>3 DEF Doc, SaveEvent
  <2>2. EventInv(e)'
    BY <1>1, <1>3, MaxRetriesAssumption DEF EventInv, Doc, SaveEvent
  <2>3. doc'[e].stage = "stored" /\ doc'[e].owner # NoWorker =>
          /\ doc[e].stage = "stored" /\ doc'[e].owner = doc[e].owner
          /\ doc'[e].retries = doc[e].retries /\ doc'[e].done = doc[e].done
    BY <1>1, <1>3 DEF EventInv, Doc, SaveEvent
  <2>4. count' \in Counts
    BY <1>2, <1>3, BoundsAssumption DEF Counts, SaveEvent
  <2> QED BY <1>3, <2>1, <2>2, <2>3, <2>4, EnvironmentStep DEF SaveEvent
<1>4. CASE Requeue(e)
  <2>1. doc' \in [Events -> Doc] /\ \A f \in Events \ {e} : doc'[f] = doc[f]
    BY <1>1, <1>4 DEF Doc, Requeue
  <2>2. EventInv(e)'
    BY <1>1, <1>4, MaxRetriesAssumption DEF EventInv, Doc, Requeue
  <2>3. doc'[e].stage = "stored" /\ doc'[e].owner # NoWorker =>
          /\ doc[e].stage = "stored" /\ doc'[e].owner = doc[e].owner
          /\ doc'[e].retries = doc[e].retries /\ doc'[e].done = doc[e].done
    BY <1>1, <1>4 DEF EventInv, Doc, Requeue
  <2>4. count' \in Counts
    BY <1>2, <1>4, BoundsAssumption DEF Counts, Requeue
  <2> QED BY <1>4, <2>1, <2>2, <2>3, <2>4, EnvironmentStep DEF Requeue
<1>5. CASE Purge(e)
  <2>1. doc' \in [Events -> Doc] /\ \A f \in Events \ {e} : doc'[f] = doc[f]
    BY <1>1, <1>5 DEF Doc, NewDoc, Purge
  <2>2. EventInv(e)'
    BY <1>1, <1>5, MaxRetriesAssumption DEF EventInv, Doc, NewDoc, Purge
  <2>3. doc'[e].stage = "stored" /\ doc'[e].owner # NoWorker =>
          /\ doc[e].stage = "stored" /\ doc'[e].owner = doc[e].owner
          /\ doc'[e].retries = doc[e].retries /\ doc'[e].done = doc[e].done
    BY <1>1, <1>5 DEF EventInv, Doc, NewDoc, Purge
  <2>4. count' \in Counts
    BY <1>2, <1>5, BoundsAssumption DEF Counts, Purge
  <2> QED BY <1>5, <2>1, <2>2, <2>3, <2>4, EnvironmentStep DEF Purge
<1>6. CASE ClaimExpires(e)
  <2>1. doc' \in [Events -> Doc] /\ \A f \in Events \ {e} : doc'[f] = doc[f]
    BY <1>1, <1>6 DEF Doc, ClaimExpires
  <2>2. EventInv(e)'
    BY <1>1, <1>6, MaxRetriesAssumption DEF EventInv, Doc, ClaimExpires
  <2>3. doc'[e].stage = "stored" /\ doc'[e].owner # NoWorker =>
          /\ doc[e].stage = "stored" /\ doc'[e].owner = doc[e].owner
          /\ doc'[e].retries = doc[e].retries /\ doc'[e].done = doc[e].done
    BY <1>1, <1>6 DEF EventInv, Doc, ClaimExpires
  <2>4. count' \in Counts
    BY <1>2, <1>6, BoundsAssumption DEF Counts, ClaimExpires
  <2> QED BY <1>6, <2>1, <2>2, <2>3, <2>4, EnvironmentStep DEF ClaimExpires
<1>7. CASE BackoffElapses(e)
  <2>1. doc' \in [Events -> Doc] /\ \A f \in Events \ {e} : doc'[f] = doc[f]
    BY <1>1, <1>7 DEF Doc, BackoffElapses
  <2>2. EventInv(e)'
    BY <1>1, <1>7, MaxRetriesAssumption DEF EventInv, Doc, BackoffElapses
  <2>3. doc'[e].stage = "stored" /\ doc'[e].owner # NoWorker =>
          /\ doc[e].stage = "stored" /\ doc'[e].owner = doc[e].owner
          /\ doc'[e].retries = doc[e].retries /\ doc'[e].done = doc[e].done
    BY <1>1, <1>7 DEF EventInv, Doc, BackoffElapses
  <2>4. count' \in Counts
    BY <1>2, <1>7, BoundsAssumption DEF Counts, BackoffElapses
  <2> QED BY <1>7, <2>1, <2>2, <2>3, <2>4, EnvironmentStep DEF BackoffElapses
<1> QED BY <1>3, <1>4, <1>5, <1>6, <1>7 DEF Environment

-----------------------------------------------------------------------------
(***************************************************************************)
(* The workers: one worker moves; a document changes only in its hands.    *)
(***************************************************************************)
DocStep(w) ==
    /\ doc' \in [Events -> Doc]
    /\ \A f \in Events : \/ doc'[f] = doc[f]
                         \/ EventInv(f)' /\ doc'[f].owner \in {NoWorker, w}

LEMMA WorkerStep ==
    ASSUME IInv, NEW w \in Workers, DocStep(w), WorkerInv(w)',
           wk' \in [Workers -> WorkerState], Busy(w)' => wk'[w].ev \in Events,
           \A v \in Workers \ {w} : wk'[v] = wk[v],
           runs' \in [Events -> [AllKeys -> Nat]], RunsGrow, count' \in Counts
    PROVE  IInv'
<1>1. TypeOK'
  BY DEF IInv, TypeOK, Busy, DocStep
<1>2. ASSUME NEW f \in Events PROVE EventInv(f)'
  BY <1>1, SameEvent DEF DocStep
<1>3. ASSUME NEW v \in Workers \ {w} PROVE WorkerInv(v)'
  <2>1. ASSUME Busy(v), Owned(v)'
        PROVE  /\ Owned(v)
               /\ doc'[wk[v].ev].retries = doc[wk[v].ev].retries
               /\ doc'[wk[v].ev].done = doc[wk[v].ev].done
    BY <2>1, WorkersAssumption DEF Owned, DocStep, IInv, TypeOK
  <2> QED BY <1>1, <2>1, SameWorker
<1> QED BY <1>1, <1>2, <1>3 DEF IInv

\* What the writes of a worker leave of a document.
LEMMA SetClaimStep ==
    ASSUME IInv, NEW w \in Workers, NEW e \in Events, Claimable(e), SetClaim(e, w),
           runs' = runs
    PROVE  DocStep(w)
<1>1. doc \in [Events -> Doc] /\ EventInv(e) /\ doc[e] \in Doc
  BY DEF IInv, TypeOK
<1>2. doc' \in [Events -> Doc] /\ doc'[e].owner = w /\ \A f \in Events \ {e} : doc'[f] = doc[f]
  BY <1>1 DEF SetClaim, Doc
<1>3. EventInv(e)'
  BY <1>1, WorkersAssumption DEF EventInv, SetClaim, Claimable, Doc
<1> QED BY <1>2, <1>3 DEF DocStep

LEMMA AddHandlerStep ==
    ASSUME IInv, NEW w \in Workers, wk[w].pc = "checkpointing", Owned(w), AddHandler(w),
           runs' = runs
    PROVE  DocStep(w)
<1>1. PICK e \in Events : e = wk[w].ev
  BY BusyFacts DEF Busy, Working
<1>2. PICK h \in AllKeys : h = Current(w) /\ h \in Keys(e) /\ runs[e][h] > 0
  BY <1>1, BusyFacts DEF IInv, WorkerInv, Busy, Working
<1>3. doc \in [Events -> Doc] /\ EventInv(e) /\ doc[e] \in Doc
  BY DEF IInv, TypeOK
<1>4. doc' = [doc EXCEPT ![e].done = @ \cup {h}] /\ doc[e].stage = "stored" /\ doc[e].owner = w
  BY <1>1, <1>2 DEF AddHandler, Owned
<1>5. doc' \in [Events -> Doc] /\ doc'[e].owner = w /\ \A f \in Events \ {e} : doc'[f] = doc[f]
  BY <1>2, <1>3, <1>4 DEF Doc
<1>6. EventInv(e)'
  BY <1>2, <1>3, <1>4 DEF EventInv, Doc
<1> QED BY <1>5, <1>6 DEF DocStep

LEMMA SetProcessedStep ==
    ASSUME IInv, NEW w \in Workers, wk[w].pc = "completing", Owned(w), SetProcessed(w),
           runs' = runs
    PROVE  DocStep(w)
<1>1. PICK e \in Events : e = wk[w].ev
  BY BusyFacts DEF Busy, Working
<1>2. Keys(e) # {} /\ Keys(e) \subseteq doc[e].done
  BY <1>1 DEF IInv, WorkerInv, Busy, Working
<1>3. doc \in [Events -> Doc] /\ EventInv(e) /\ doc[e] \in Doc
  BY DEF IInv, TypeOK
<1>4. doc' = [doc EXCEPT ![e] = [@ EXCEPT !.processed = TRUE, !.processing = FALSE,
                !.owner = NoWorker, !.stale = FALSE, !.deferred = FALSE, !.exhausted = FALSE]]
      /\ doc[e].stage = "stored" /\ doc[e].owner = w
  BY <1>1 DEF SetProcessed, Owned
<1>5. doc' \in [Events -> Doc] /\ doc'[e].owner = NoWorker
      /\ \A f \in Events \ {e} : doc'[f] = doc[f]
  BY <1>3, <1>4 DEF Doc
<1>6. EventInv(e)'
  BY <1>2, <1>3, <1>4, WorkersAssumption, MaxRetriesAssumption DEF EventInv, Doc
<1> QED BY <1>5, <1>6 DEF DocStep

LEMMA SetFailedStep ==
    ASSUME IInv, NEW w \in Workers, Busy(w), Owned(w), SetFailed(w), runs' = runs
    PROVE  DocStep(w)
<1>1. PICK e \in Events : e = wk[w].ev
  BY BusyFacts
<1>2. doc \in [Events -> Doc] /\ EventInv(e) /\ doc[e] \in Doc
  BY DEF IInv, TypeOK
<1>3. PICK x \in BOOLEAN :
        (x <=> Exhausts(w)) /\ doc' = [doc EXCEPT ![e] = FailedDoc(@, x)]
  BY <1>1 DEF SetFailed
<1>4. /\ x <=> doc[e].retries + 1 >= MaxRetries
      /\ doc[e].stage = "stored" /\ doc[e].owner = w
  BY <1>1, <1>3 DEF Exhausts, IInv, WorkerInv, Owned
<1>5. PICK d \in Doc :
        /\ doc' = [doc EXCEPT ![e] = d]
        /\ d.stage = "stored" /\ d.processed = doc[e].processed
        /\ d.retries = doc[e].retries + 1 /\ d.owner = NoWorker /\ ~d.processing
        /\ d.exhausted = x /\ d.done = doc[e].done
  <2> DEFINE d == FailedDoc(doc[e], x)
  <2>1. doc[e].retries + 1 \in Nat
    BY <1>2 DEF Doc
  <2>2. d \in Doc
    BY <1>2, <2>1 DEF Doc, FailedDoc
  <2>3. /\ d.stage = "stored" /\ d.processed = doc[e].processed
        /\ d.retries = doc[e].retries + 1 /\ d.owner = NoWorker /\ ~d.processing
        /\ d.exhausted = x /\ d.done = doc[e].done
    BY <1>2, <1>4 DEF Doc, FailedDoc
  <2>4. doc' = [doc EXCEPT ![e] = d]
    BY <1>3
  <2> HIDE DEF d
  <2> QED BY <2>2, <2>3, <2>4
<1>6. doc' \in [Events -> Doc] /\ doc'[e].owner = NoWorker
      /\ \A f \in Events \ {e} : doc'[f] = doc[f]
  BY <1>2, <1>5
<1>7. EventInv(e)'
  BY <1>2, <1>4, <1>5, WorkersAssumption, MaxRetriesAssumption DEF EventInv, Doc
<1> QED BY <1>6, <1>7 DEF DocStep

LEMMA RenewStep ==
    ASSUME IInv, NEW w \in Workers, Busy(w), Owned(w),
           doc' = [doc EXCEPT ![wk[w].ev].stale = FALSE], runs' = runs
    PROVE  /\ DocStep(w)
           /\ wk' = wk => WorkerInv(w)'
<1>1. PICK e \in Events : e = wk[w].ev
  BY BusyFacts
<1>2. doc \in [Events -> Doc] /\ EventInv(e) /\ doc[e] \in Doc
      /\ doc[e].stage = "stored" /\ doc[e].owner = w
  BY <1>1 DEF IInv, TypeOK, Owned
<1>3. doc' \in [Events -> Doc] /\ doc'[e].owner = w /\ \A f \in Events \ {e} : doc'[f] = doc[f]
      /\ doc'[e].stage = "stored" /\ doc'[e].retries = doc[e].retries /\ doc'[e].done = doc[e].done
  BY <1>1, <1>2 DEF Doc
<1>4. EventInv(e)'
  BY <1>1, <1>2 DEF EventInv, Doc
<1>5. wk' = wk => WorkerInv(w)'
  BY <1>1, <1>2, <1>3 DEF IInv, WorkerInv, Busy, Owned, NoneLeft, Current
<1> QED BY <1>3, <1>4, <1>5 DEF DocStep

\* A handler takes effect.
LEMMA EffectStep ==
    ASSUME IInv, NEW w \in Workers, wk[w].pc = "handling", Effect(w)
    PROVE  /\ runs' \in [Events -> [AllKeys -> Nat]]
           /\ RunsGrow
           /\ runs'[wk[w].ev][Current(w)] > 0
<1>1. PICK e \in Events : e = wk[w].ev
  BY BusyFacts DEF Busy, Working
<1>2. PICK h \in AllKeys : h = Current(w)
  BY BusyFacts DEF Busy, Working
<1>3. runs \in [Events -> [AllKeys -> Nat]] /\ runs' = [runs EXCEPT ![e][h] = @ + 1]
  BY <1>1, <1>2 DEF Effect, IInv, TypeOK
<1> QED BY <1>1, <1>2, <1>3 DEF RunsGrow

\* A failed request uses up one of the bounded number.
LEMMA DbFaultStep ==
    ASSUME IInv, DbFault
    PROVE  count' \in Counts
BY BoundsAssumption DEF DbFault, IInv, TypeOK, Counts

\* What remains of WorkerStep when the history is unchanged, ...
LEMMA SameRuns ==
    ASSUME IInv, runs' = runs
    PROVE  runs' \in [Events -> [AllKeys -> Nat]] /\ RunsGrow
BY DEF IInv, TypeOK, RunsGrow

\* ... when no document changes, ...
LEMMA SameDoc ==
    ASSUME IInv, NEW w \in Workers, doc' = doc
    PROVE  DocStep(w)
BY DEF IInv, TypeOK, DocStep

\* ... and how the worker moves: to rest, or on with the same event.
Moves(w) ==
    /\ wk' \in [Workers -> WorkerState]
    /\ Busy(w)' => wk'[w].ev \in Events
    /\ \A v \in Workers \ {w} : wk'[v] = wk[v]

LEMMA Rests ==
    ASSUME IInv, NEW w \in Workers, NEW s \in {Idle, Dead}, wk' = [wk EXCEPT ![w] = s]
    PROVE  Moves(w) /\ WorkerInv(w)'
<1>1. wk \in [Workers -> WorkerState]
  BY DEF IInv, TypeOK
<1>2. s \in WorkerState /\ s.pc \notin Working
  <2>1. Idle \in WorkerState /\ Idle.pc = "idle"
    BY DEF Idle, WorkerState
  <2>2. Dead \in WorkerState /\ Dead.pc = "dead"
    BY <2>1 DEF Dead, WorkerState
  <2> QED BY <2>1, <2>2 DEF Working
<1> QED BY <1>1, <1>2 DEF Moves, WorkerInv, Busy

LEMMA GoesOn ==
    ASSUME IInv, NEW w \in Workers, Busy(w), NEW label \in Working, Goto(w, label)
    PROVE  Moves(w) /\ wk'[w] = [wk[w] EXCEPT !.pc = label]
<1>1. wk \in [Workers -> WorkerState] /\ wk[w].ev \in Events
  BY BusyFacts DEF IInv, TypeOK
<1> QED BY <1>1 DEF Moves, Goto, WorkerState, Busy, Working

\* A worker that goes on to markAsFailed needs to know only the retries.
LEMMA GoesToFail ==
    ASSUME IInv, NEW w \in Workers, Busy(w), Goto(w, "failing"),
           Owned(w)' => Owned(w) /\ doc'[wk[w].ev].retries = doc[wk[w].ev].retries
    PROVE  Moves(w) /\ WorkerInv(w)'
<1>1. Moves(w) /\ wk'[w] = [wk[w] EXCEPT !.pc = "failing"] /\ wk[w] \in WorkerState
  BY GoesOn DEF Working, IInv, TypeOK
<1>2. wk'[w].pc = "failing" /\ wk'[w].ev = wk[w].ev /\ wk'[w].retries = wk[w].retries
  BY <1>1 DEF WorkerState
<1> QED BY <1>1, <1>2 DEF WorkerInv, IInv

LEMMA FailsOwned ==
    ASSUME IInv, NEW w \in Workers, Busy(w), Goto(w, "failing"), doc' = doc
    PROVE  Owned(w)' => Owned(w) /\ doc'[wk[w].ev].retries = doc[wk[w].ev].retries
<1>1. wk'[w].ev = wk[w].ev
  BY DEF Goto, IInv, TypeOK, WorkerState
<1> QED BY <1>1 DEF Owned

-----------------------------------------------------------------------------
\* Every action of a worker preserves the invariant.
LEMMA ClaimInv ==
    ASSUME IInv, NEW w \in Workers, Claim(w)
    PROVE  IInv'
<1>1. PICK e \in Events :
        /\ Claimable(e) /\ SetClaim(e, w)
        /\ wk' = [wk EXCEPT ![w] = [pc |-> "dispatching", ev |-> e,
                    retries |-> doc[e].retries, done |-> doc[e].done, lost |-> FALSE]]
  BY DEF Claim, Oldest
<1>2. runs' = runs /\ count' = count
  BY DEF Claim
<1>3. doc[e] \in Doc /\ wk \in [Workers -> WorkerState] /\ count \in Counts
      /\ doc \in [Events -> Doc]
  BY DEF IInv, TypeOK
<1>4. Moves(w)
  BY <1>1, <1>3 DEF Moves, WorkerState, Working, Doc
<1>5. doc'[e].retries = doc[e].retries /\ doc'[e].done = doc[e].done
  BY <1>1, <1>3 DEF SetClaim, Doc
<1>6. WorkerInv(w)'
  BY <1>1, <1>3, <1>5 DEF WorkerInv, Working
<1> QED BY <1>1, <1>2, <1>3, <1>4, <1>6, SetClaimStep, SameRuns, WorkerStep DEF Moves

LEMMA ClaimFailsInv ==
    ASSUME IInv, NEW w \in Workers, ClaimFails(w)
    PROVE  IInv'
<1>1. PICK e \in Events : Claimable(e) /\ SetClaim(e, w)
  BY DEF ClaimFails, Oldest
<1>2. runs' = runs /\ wk' = wk /\ wk[w].pc = "idle" /\ count' \in Counts
  BY DbFaultStep DEF ClaimFails
<1>3. Moves(w) /\ WorkerInv(w)'
  BY <1>2 DEF Moves, WorkerInv, Busy, Working, IInv, TypeOK
<1> QED BY <1>1, <1>2, <1>3, SetClaimStep, SameRuns, WorkerStep DEF Moves

LEMMA DispatchInv ==
    ASSUME IInv, NEW w \in Workers, Dispatch(w)
    PROVE  IInv'
<1>1. UNCHANGED <<doc, runs, count>> /\ Busy(w) /\ wk[w].pc = "dispatching"
      /\ wk \in [Workers -> WorkerState] /\ count \in Counts
  BY DEF Dispatch, Busy, Working, IInv, TypeOK
<1>2. PICK e \in Events : e = wk[w].ev
  BY <1>1, BusyFacts
<1>3. CASE Goto(w, "failing")
  <2>1. Moves(w) /\ WorkerInv(w)'
    BY <1>1, <1>3, GoesToFail, FailsOwned
  <2> QED BY <1>1, <2>1, SameDoc, SameRuns, WorkerStep DEF Moves
<1>4. CASE Goto(w, "completing") /\ NoneLeft(w) /\ Handlers[e] # <<>>
  <2>1. Moves(w) /\ wk'[w] = [wk[w] EXCEPT !.pc = "completing"]
    BY <1>1, <1>4, GoesOn DEF Working
  <2>2. Keys(e) # {}
    <3>1. Handlers[e] \in Seq(AllKeys)
      BY HandlersAssumption
    <3>2. 1 \in DOMAIN Handlers[e]
      BY <3>1, <1>4
    <3> QED BY <3>2 DEF Keys
  <2>3. Keys(e) \subseteq wk[w].done
    BY <1>2, <1>4, NothingLeft DEF NoneLeft
  <2>4. WorkerInv(w)'
    BY <1>1, <1>2, <2>1, <2>2, <2>3 DEF WorkerInv, WorkerState, IInv, Owned, Busy
  <2> QED BY <1>1, <2>1, <2>4, SameDoc, SameRuns, WorkerStep DEF Moves
<1>5. CASE Goto(w, "handling") /\ ~NoneLeft(w)
  <2>1. Moves(w) /\ wk'[w] = [wk[w] EXCEPT !.pc = "handling"]
    BY <1>1, <1>5, GoesOn DEF Working
  <2>2. WorkerInv(w)'
    BY <1>1, <1>5, <2>1 DEF WorkerInv, WorkerState, IInv, Owned, Busy, NoneLeft
  <2> QED BY <1>1, <2>1, <2>2, SameDoc, SameRuns, WorkerStep DEF Moves
<1> QED BY <1>2, <1>3, <1>4, <1>5 DEF Dispatch, Interrupted

LEMMA HandlerReturnsInv ==
    ASSUME IInv, NEW w \in Workers, HandlerReturns(w)
    PROVE  IInv'
<1>1. UNCHANGED <<doc, count>> /\ Busy(w) /\ wk[w].pc = "handling" /\ Effect(w)
      /\ wk \in [Workers -> WorkerState] /\ count \in Counts
  BY DEF HandlerReturns, Busy, Working, IInv, TypeOK
<1>2. /\ runs' \in [Events -> [AllKeys -> Nat]] /\ RunsGrow
      /\ runs'[wk[w].ev][Current(w)] > 0
  BY <1>1, EffectStep
<1>3. CASE Goto(w, "failing")
  <2>1. Moves(w) /\ WorkerInv(w)'
    BY <1>1, <1>3, GoesToFail, FailsOwned
  <2> QED BY <1>1, <1>2, <2>1, SameDoc, WorkerStep DEF Moves
<1>4. CASE Goto(w, "checkpointing")
  <2>1. Moves(w) /\ wk'[w] = [wk[w] EXCEPT !.pc = "checkpointing"]
    BY <1>1, <1>4, GoesOn DEF Working
  <2>2. WorkerInv(w)'
    BY <1>1, <1>2, <2>1 DEF WorkerInv, WorkerState, IInv, Owned, Busy, NoneLeft, Current
  <2> QED BY <1>1, <1>2, <2>1, <2>2, SameDoc, WorkerStep DEF Moves
<1> QED BY <1>3, <1>4 DEF HandlerReturns

LEMMA HandlerThrowsInv ==
    ASSUME IInv, NEW w \in Workers, HandlerThrows(w)
    PROVE  IInv'
<1>1. doc' = doc /\ Busy(w) /\ wk[w].pc = "handling" /\ Goto(w, "failing")
  BY DEF HandlerThrows, Busy, Working
<1>2. runs' \in [Events -> [AllKeys -> Nat]] /\ RunsGrow
  BY <1>1, EffectStep, SameRuns DEF HandlerThrows
<1>3. count' \in Counts
  BY BoundsAssumption DEF HandlerThrows, IInv, TypeOK, Counts
<1>4. Moves(w) /\ WorkerInv(w)'
  BY <1>1, GoesToFail, FailsOwned
<1> QED BY <1>1, <1>2, <1>3, <1>4, SameDoc, WorkerStep DEF Moves

LEMMA CheckpointInv ==
    ASSUME IInv, NEW w \in Workers, Checkpoint(w) \/ CheckpointFails(w)
    PROVE  IInv'
<1>1. /\ wk[w].pc = "checkpointing" /\ Busy(w) /\ runs' = runs
      /\ wk \in [Workers -> WorkerState] /\ doc \in [Events -> Doc]
  BY DEF Checkpoint, CheckpointFails, Busy, Working, IInv, TypeOK
<1>2. count' \in Counts
  BY DbFaultStep DEF Checkpoint, CheckpointFails, IInv, TypeOK
<1>3. PICK e \in Events : e = wk[w].ev
  BY <1>1, BusyFacts
<1>4. PICK h \in AllKeys : h = Current(w) /\ h \in Keys(e)
  BY <1>1, <1>3, BusyFacts
<1>5. CASE Owned(w) /\ AddHandler(w) /\ Goto(w, "failing")
  <2>1. Owned(w)' => Owned(w) /\ doc'[wk[w].ev].retries = doc[wk[w].ev].retries
    BY <1>1, <1>3, <1>5 DEF AddHandler, Doc
  <2>2. Moves(w) /\ WorkerInv(w)'
    BY <1>1, <1>5, <2>1, GoesToFail
  <2> QED BY <1>1, <1>2, <1>5, <2>2, AddHandlerStep, SameRuns, WorkerStep DEF Moves
<1>6. CASE doc' = doc /\ Goto(w, "failing")
  <2>1. Moves(w) /\ WorkerInv(w)'
    BY <1>1, <1>6, GoesToFail, FailsOwned
  <2> QED BY <1>1, <1>2, <1>6, <2>1, SameDoc, SameRuns, WorkerStep DEF Moves
<1>7. CASE /\ Owned(w) /\ AddHandler(w)
           /\ wk' = [wk EXCEPT ![w] = Checkpointed(@, Current(w))]
  <2>1. PICK s \in WorkerState :
          /\ wk' = [wk EXCEPT ![w] = s]
          /\ s.pc = "dispatching" /\ s.ev = e /\ s.retries = wk[w].retries
          /\ s.done = wk[w].done \cup {h}
    <3> DEFINE s == Checkpointed(wk[w], h)
    <3>1. wk[w] \in WorkerState
      BY <1>1
    <3>2. wk[w].done \cup {h} \in SUBSET AllKeys
      BY <3>1 DEF WorkerState
    <3>3. s \in WorkerState
      BY <3>1, <3>2 DEF WorkerState, Checkpointed, Working
    <3>4. /\ s.pc = "dispatching" /\ s.ev = e /\ s.retries = wk[w].retries
          /\ s.done = wk[w].done \cup {h}
      BY <1>3, <3>1 DEF WorkerState, Checkpointed
    <3>5. wk' = [wk EXCEPT ![w] = s]
      BY <1>4, <1>7
    <3> HIDE DEF s
    <3> QED BY <3>3, <3>4, <3>5
  <2>2. Moves(w)
    BY <1>1, <2>1 DEF Moves
  <2>3. wk'[w].pc = "dispatching" /\ wk'[w].ev = e /\ wk'[w].retries = wk[w].retries
        /\ wk'[w].done = wk[w].done \cup {h}
    BY <1>1, <2>1
  <2>4. doc'[e].retries = doc[e].retries /\ doc'[e].done = doc[e].done \cup {h}
    BY <1>1, <1>3, <1>4, <1>7 DEF AddHandler, Doc
  <2>5. wk[w].retries = doc[e].retries /\ wk[w].done = doc[e].done
    BY <1>1, <1>3, <1>7 DEF IInv, WorkerInv
  <2>6. WorkerInv(w)'
    BY <2>3, <2>4, <2>5 DEF WorkerInv
  <2> QED BY <1>1, <1>2, <1>7, <2>2, <2>6, AddHandlerStep, SameRuns, WorkerStep DEF Moves
<1> QED BY <1>5, <1>6, <1>7 DEF Checkpoint, CheckpointFails

LEMMA CompleteInv ==
    ASSUME IInv, NEW w \in Workers, Complete(w) \/ CompleteFails(w)
    PROVE  IInv'
<1>1. wk[w].pc = "completing" /\ Busy(w) /\ runs' = runs /\ wk \in [Workers -> WorkerState]
      /\ doc \in [Events -> Doc]
  BY DEF Complete, CompleteFails, Busy, Working, IInv, TypeOK
<1>2. count' \in Counts
  BY DbFaultStep DEF Complete, CompleteFails, IInv, TypeOK
<1>3. CASE Owned(w) /\ SetProcessed(w) /\ wk' = [wk EXCEPT ![w] = Idle]
  <2>1. Moves(w) /\ WorkerInv(w)'
    BY <1>3, Rests
  <2> QED BY <1>1, <1>2, <1>3, <2>1, SetProcessedStep, SameRuns, WorkerStep DEF Moves
<1>4. CASE Owned(w) /\ SetProcessed(w) /\ Goto(w, "failing")
  <2>1. ~Owned(w)'
    <3>1. PICK e \in Events : e = wk[w].ev
      BY <1>1, BusyFacts
    <3>2. wk'[w].ev = e
      BY <1>1, <1>4, <3>1 DEF Goto, WorkerState
    <3>3. doc'[e].owner = NoWorker
      BY <1>1, <1>4, <3>1 DEF SetProcessed, Doc
    <3> QED BY <3>2, <3>3, WorkersAssumption DEF Owned
  <2>2. Moves(w) /\ WorkerInv(w)'
    BY <1>1, <1>4, <2>1, GoesToFail
  <2> QED BY <1>1, <1>2, <1>4, <2>2, SetProcessedStep, SameRuns, WorkerStep DEF Moves
<1>5. CASE doc' = doc /\ Goto(w, "failing")
  <2>1. Moves(w) /\ WorkerInv(w)'
    BY <1>1, <1>5, GoesToFail, FailsOwned
  <2> QED BY <1>1, <1>2, <1>5, <2>1, SameDoc, SameRuns, WorkerStep DEF Moves
<1> QED BY <1>3, <1>4, <1>5 DEF Complete, CompleteFails

LEMMA FailInv ==
    ASSUME IInv, NEW w \in Workers, Fail(w) \/ FailFails(w)
    PROVE  IInv'
<1>1. Busy(w) /\ runs' = runs /\ wk' = [wk EXCEPT ![w] = Idle]
  BY DEF Fail, FailFails, Busy, Working
<1>2. count' \in Counts
  BY DbFaultStep DEF Fail, FailFails, IInv, TypeOK
<1>3. Moves(w) /\ WorkerInv(w)'
  BY <1>1, Rests
<1>4. DocStep(w)
  BY <1>1, SetFailedStep, SameDoc DEF Fail, FailFails
<1> QED BY <1>1, <1>2, <1>3, <1>4, SameRuns, WorkerStep DEF Moves

LEMMA RenewInv ==
    ASSUME IInv, NEW w \in Workers, Renew(w) \/ RenewFails(w)
    PROVE  IInv'
<1>1. Busy(w) /\ runs' = runs /\ wk \in [Workers -> WorkerState] /\ wk[w].ev \in Events
      /\ WorkerInv(w) /\ doc \in [Events -> Doc]
  BY BusyFacts DEF Renew, RenewFails, IInv, TypeOK
<1>2. count' \in Counts
  BY DbFaultStep DEF Renew, RenewFails, IInv, TypeOK
<1>3. CASE wk' = wk /\ Owned(w) /\ doc' = [doc EXCEPT ![wk[w].ev].stale = FALSE]
  <2>1. Moves(w)
    BY <1>1, <1>3 DEF Moves
  <2> QED BY <1>1, <1>2, <1>3, <2>1, RenewStep, SameRuns, WorkerStep DEF Moves
<1>4. CASE /\ wk' = [wk EXCEPT ![w].lost = TRUE]
           /\ doc' = doc \/ (Owned(w) /\ doc' = [doc EXCEPT ![wk[w].ev].stale = FALSE])
  <2>1. /\ wk'[w].pc = wk[w].pc /\ wk'[w].ev = wk[w].ev
        /\ wk'[w].retries = wk[w].retries /\ wk'[w].done = wk[w].done
    BY <1>1, <1>4 DEF WorkerState
  <2>2. Moves(w)
    BY <1>1, <1>4, <2>1 DEF Moves, WorkerState, Busy
  <2>3. /\ doc'[wk[w].ev].stage = doc[wk[w].ev].stage
        /\ doc'[wk[w].ev].owner = doc[wk[w].ev].owner
        /\ doc'[wk[w].ev].retries = doc[wk[w].ev].retries
        /\ doc'[wk[w].ev].done = doc[wk[w].ev].done
    BY <1>1, <1>4 DEF Doc
  <2>4. WorkerInv(w)'
    BY <1>1, <2>1, <2>3 DEF WorkerInv, Busy, Owned, NoneLeft, Current
  <2>5. DocStep(w)
    BY <1>1, <1>4, SameDoc, RenewStep
  <2> QED BY <1>1, <1>2, <2>2, <2>4, <2>5, SameRuns, WorkerStep DEF Moves
<1> QED BY <1>3, <1>4 DEF Renew, RenewFails

LEMMA CrashInv ==
    ASSUME IInv, NEW w \in Workers, Crash(w)
    PROVE  IInv'
<1>1. doc' = doc /\ count' \in Counts /\ wk' = [wk EXCEPT ![w] = Dead]
  BY DEF Crash, IInv, TypeOK
<1>2. runs' \in [Events -> [AllKeys -> Nat]] /\ RunsGrow
  BY EffectStep, SameRuns DEF Crash
<1>3. Moves(w) /\ WorkerInv(w)'
  BY <1>1, Rests
<1> QED BY <1>1, <1>2, <1>3, SameDoc, WorkerStep DEF Moves

LEMMA NextInv == IInv /\ [Next]_vars => IInv'
<1> SUFFICES ASSUME IInv, [Next]_vars PROVE IInv'
  OBVIOUS
<1>1. CASE UNCHANGED vars
  BY <1>1 DEF vars, IInv, TypeOK, EventInv, WorkerInv, Busy, Owned, NoneLeft, Current
<1>2. ASSUME NEW w \in Workers, Worker(w) PROVE IInv'
  BY <1>2, ClaimInv, ClaimFailsInv, DispatchInv, HandlerReturnsInv, HandlerThrowsInv,
     CheckpointInv, CompleteInv, FailInv, RenewInv, CrashInv DEF Worker, Step
<1>3. ASSUME NEW e \in Events, Environment(e) PROVE IInv'
  BY <1>3, EnvironmentInv
<1> QED BY <1>1, <1>2, <1>3 DEF Next

-----------------------------------------------------------------------------
(***************************************************************************)
(* The theorems.                                                           *)
(***************************************************************************)

\* The inductive invariant of the outbox: the types, the state of every
\* document, and the agreement of every worker with the document it owns.
THEOREM Invariance == Spec => []IInv
BY InitInv, NextInv, PTL DEF Spec

\* Documents, workers and history have their types, in every reachable state.
THEOREM TypeCorrect == Spec => []TypeOK
<1>1. IInv => TypeOK
  BY DEF IInv
<1> QED BY <1>1, Invariance, PTL

\* At-least-once, first half: processedHandlers names only handlers that took
\* effect, whatever crashes, expires or fails between the effect and the write.
THEOREM CheckpointsEarned == Spec => []CheckpointsAreEarned
<1>1. IInv => CheckpointsAreEarned
  BY DEF IInv, EventInv, CheckpointsAreEarned
<1> QED BY <1>1, Invariance, PTL

\* At-least-once, second half: markAsProcessed only ever completes an event
\* that has handlers and that each of them took effect for.
THEOREM ProcessedDelivered == Spec => []ProcessedMeansDelivered
<1>1. IInv => ProcessedMeansDelivered
  BY DEF IInv, EventInv, ProcessedMeansDelivered
<1> QED BY <1>1, Invariance, PTL

\* The exhaustion the worker computes from its claimed record agrees with the
\* retries the database counts.
THEOREM ExhaustedAgrees == Spec => []ExhaustedIffOutOfRetries
<1>1. IInv => ExhaustedIffOutOfRetries
  BY DEF IInv, EventInv, ExhaustedIffOutOfRetries
<1> QED BY <1>1, Invariance, PTL

\* The owner of an event never starts a handler that has a checkpoint.
THEOREM OwnerRespectsCheckpoints == Spec => []OwnerNeverRepeatsCheckpoint
<1>1. ASSUME IInv PROVE OwnerNeverRepeatsCheckpoint
  <2> SUFFICES ASSUME NEW w \in Workers, wk[w].pc = "handling", Owned(w)
               PROVE  Current(w) \notin doc[wk[w].ev].done
    BY DEF OwnerNeverRepeatsCheckpoint
  <2>1. Busy(w)
    BY DEF Busy, Working
  <2>2. Current(w) \notin wk[w].done /\ wk[w].done = doc[wk[w].ev].done
    BY <1>1, <2>1, BusyFacts DEF IInv, WorkerInv
  <2> QED BY <2>2
<1> QED BY <1>1, Invariance, PTL

\* What a step may do to a document, given the invariant: the actions of the
\* environment, a claim, or a write of the worker that owns it.
LEMMA WhoWrites ==
    ASSUME IInv, Next, NEW e \in Events, doc'[e] # doc[e]
    PROVE  \/ Environment(e)
           \/ \E w \in Workers : Claimable(e) /\ SetClaim(e, w)
           \/ \E w \in Workers :
                 /\ Busy(w) /\ wk[w].ev = e /\ Owned(w)
                 /\ \/ wk[w].pc = "checkpointing" /\ AddHandler(w)
                    \/ wk[w].pc = "completing" /\ SetProcessed(w)
                    \/ SetFailed(w)
                    \/ doc' = [doc EXCEPT ![e].stale = FALSE]
<1>1. doc \in [Events -> Doc]
  BY DEF IInv, TypeOK
<1>2. CASE \E f \in Events : Environment(f)
  <2>1. PICK f \in Events : Environment(f)
    BY <1>2
  <2>2. f = e
    BY <1>1, <2>1
    DEF Environment, SaveEvent, Requeue, Purge, ClaimExpires, BackoffElapses
  <2> QED BY <2>1, <2>2
<1>3. CASE \E w \in Workers : Worker(w)
  <2>1. PICK w \in Workers : Worker(w)
    BY <1>3
  <2>2. CASE Claim(w) \/ ClaimFails(w)
    <3>1. PICK f \in Events : Claimable(f) /\ SetClaim(f, w)
      BY <2>2 DEF Claim, ClaimFails, Oldest
    <3>2. f = e
      BY <1>1, <3>1 DEF SetClaim
    <3> QED BY <3>1, <3>2
  <2>3. CASE Dispatch(w) \/ HandlerReturns(w) \/ HandlerThrows(w) \/ Crash(w)
    BY <2>3 DEF Dispatch, HandlerReturns, HandlerThrows, Crash
  <2>4. CASE Checkpoint(w) \/ CheckpointFails(w)
    <3>1. wk[w].pc = "checkpointing" /\ Busy(w) /\ Owned(w) /\ AddHandler(w)
      BY <2>4 DEF Checkpoint, CheckpointFails, Busy, Working
    <3>2. wk[w].ev = e
      BY <1>1, <3>1, BusyFacts DEF AddHandler
    <3> QED BY <3>1, <3>2
  <2>5. CASE Complete(w) \/ CompleteFails(w)
    <3>1. wk[w].pc = "completing" /\ Busy(w) /\ Owned(w) /\ SetProcessed(w)
      BY <2>5 DEF Complete, CompleteFails, Busy, Working
    <3>2. wk[w].ev = e
      BY <1>1, <3>1, BusyFacts DEF SetProcessed
    <3> QED BY <3>1, <3>2
  <2>6. CASE Fail(w) \/ FailFails(w)
    <3>1. Busy(w) /\ Owned(w) /\ SetFailed(w)
      BY <2>6 DEF Fail, FailFails, Busy, Working
    <3>2. wk[w].ev = e
      BY <1>1, <3>1, BusyFacts DEF SetFailed
    <3> QED BY <3>1, <3>2
  <2>7. CASE Renew(w) \/ RenewFails(w)
    <3>1. Busy(w) /\ Owned(w) /\ doc' = [doc EXCEPT ![wk[w].ev].stale = FALSE]
      BY <2>7 DEF Renew, RenewFails
    <3>2. wk[w].ev = e
      BY <1>1, <3>1, BusyFacts
    <3> QED BY <3>1, <3>2
  <2> QED BY <2>1, <2>2, <2>3, <2>4, <2>5, <2>6, <2>7 DEF Worker, Step
<1> QED BY <1>2, <1>3 DEF Next

\* Late workers, renewals and the operator leave a processed event alone.
THEOREM ProcessedFinal == Spec => ProcessedIsFinal
<1>1. ASSUME IInv, [Next]_vars, NEW e \in Events, doc[e].processed
      PROVE  doc'[e] = doc[e] \/ doc'[e].stage = "purged"
  <2>1. EventInv(e) /\ doc \in [Events -> Doc] /\ doc[e] \in Doc
    BY <1>1 DEF IInv, TypeOK
  <2>2. doc[e].owner = NoWorker /\ ~doc[e].processing /\ ~doc[e].deferred
        /\ doc[e].stage = "stored"
    BY <1>1, <2>1 DEF EventInv
  <2>3. CASE UNCHANGED vars
    BY <2>3 DEF vars
  <2>4. CASE Next /\ doc'[e] # doc[e]
    <3>1. Environment(e) => doc'[e].stage = "purged"
      BY <1>1, <2>1, <2>2
      DEF Environment, SaveEvent, Requeue, Purge, ClaimExpires, BackoffElapses, NewDoc
    <3>2. ~Claimable(e) /\ \A w \in Workers : ~(wk[w].ev = e /\ Owned(w))
      BY <1>1, <2>2, WorkersAssumption DEF Claimable, Owned
    <3> QED BY <1>1, <2>4, <3>1, <3>2, WhoWrites
  <2> QED BY <1>1, <2>3, <2>4
<1>2. IInv /\ [Next]_vars =>
        [\A e \in Events : doc[e].processed =>
            doc'[e] = doc[e] \/ doc'[e].stage = "purged"]_vars
  BY <1>1
<1> QED BY <1>2, Invariance, PTL DEF Spec, ProcessedIsFinal

\* Checkpoints survive failures, takeovers and requeues.
THEOREM CheckpointsKept == Spec => CheckpointsSurvive
<1>1. ASSUME IInv, [Next]_vars, NEW e \in Events, doc'[e].stage # "purged"
      PROVE  doc[e].done \subseteq doc'[e].done
  <2>1. doc \in [Events -> Doc] /\ doc[e] \in Doc
    BY <1>1 DEF IInv, TypeOK
  <2>2. CASE UNCHANGED vars
    BY <2>2 DEF vars
  <2>3. CASE Next /\ doc'[e] # doc[e]
    <3>1. CASE Environment(e)
      <4>1. CASE SaveEvent(e) \/ ClaimExpires(e) \/ BackoffElapses(e)
        BY <2>1, <4>1 DEF SaveEvent, ClaimExpires, BackoffElapses, Doc
      <4>2. CASE Requeue(e)
        BY <2>1, <4>2 DEF Requeue, Doc
      <4>3. CASE Purge(e)
        BY <1>1, <2>1, <4>3 DEF Purge, NewDoc
      <4> QED BY <3>1, <4>1, <4>2, <4>3 DEF Environment
    <3>2. ASSUME NEW w \in Workers, SetClaim(e, w) PROVE doc'[e].done = doc[e].done
      BY <2>1, <3>2 DEF SetClaim, Doc
    <3>3. ASSUME NEW w \in Workers, wk[w].ev = e,
                 AddHandler(w) \/ SetProcessed(w) \/ SetFailed(w)
                   \/ doc' = [doc EXCEPT ![e].stale = FALSE]
          PROVE  doc[e].done \subseteq doc'[e].done
      <4>1. CASE AddHandler(w)
        BY <2>1, <3>3, <4>1 DEF AddHandler, Doc
      <4>2. CASE SetProcessed(w)
        BY <2>1, <3>3, <4>2 DEF SetProcessed, Doc
      <4>3. CASE SetFailed(w)
        <5>1. PICK x \in BOOLEAN : doc'[e] = FailedDoc(doc[e], x)
          BY <2>1, <3>3, <4>3 DEF SetFailed
        <5> QED BY <2>1, <5>1 DEF FailedDoc, Doc
      <4>4. CASE doc' = [doc EXCEPT ![e].stale = FALSE]
        BY <2>1, <4>4 DEF Doc
      <4> QED BY <3>3, <4>1, <4>2, <4>3, <4>4
    <3> QED BY <1>1, <2>3, <3>1, <3>2, <3>3, WhoWrites
  <2> QED BY <1>1, <2>2, <2>3
<1>2. IInv /\ [Next]_vars =>
        [\A e \in Events : doc'[e].stage # "purged" => doc[e].done \subseteq doc'[e].done]_vars
  BY <1>1
<1> QED BY <1>2, Invariance, PTL DEF Spec, CheckpointsSurvive

-----------------------------------------------------------------------------
(***************************************************************************)
(* Outbox implements OutboxDelivery.  Besides IInv this needs that effects *)
(* are those of handlers of the event, and that workers hold no event that *)
(* is not committed.                                                       *)
(***************************************************************************)
EffectsAreDue ==
    /\ \A e \in Events, h \in AllKeys : runs[e][h] > 0 => h \in Keys(e)
    /\ \A w \in Workers : Busy(w) => doc[wk[w].ev].stage # "unwritten"

\* A step without effect, or the effect of a handler, which writes no document.
LEMMA WhoRuns ==
    ASSUME Next
    PROVE  \/ runs' = runs
           \/ doc' = doc /\ \E w \in Workers : wk[w].pc = "handling" /\ Effect(w)
<1>1. CASE \E e \in Events : Environment(e)
  BY <1>1 DEF Environment, SaveEvent, Requeue, Purge, ClaimExpires, BackoffElapses
<1>2. ASSUME NEW w \in Workers, Worker(w)
      PROVE  \/ runs' = runs
             \/ doc' = doc /\ wk[w].pc = "handling" /\ Effect(w)
  <2>1. CASE HandlerReturns(w) \/ HandlerThrows(w) \/ Crash(w)
    BY <2>1 DEF HandlerReturns, HandlerThrows, Crash
  <2>2. CASE \/ Claim(w) \/ ClaimFails(w) \/ Dispatch(w) \/ Checkpoint(w) \/ CheckpointFails(w)
             \/ Complete(w) \/ CompleteFails(w) \/ Fail(w) \/ FailFails(w)
             \/ Renew(w) \/ RenewFails(w)
    BY <2>2 DEF Claim, ClaimFails, Dispatch, Checkpoint, CheckpointFails, Complete,
         CompleteFails, Fail, FailFails, Renew, RenewFails
  <2> QED BY <1>2, <2>1, <2>2 DEF Worker, Step
<1> QED BY <1>1, <1>2 DEF Next

\* What Effect adds.
LEMMA EffectAdds ==
    ASSUME IInv, NEW w \in Workers, wk[w].pc = "handling", Effect(w)
    PROVE  \E e \in Events, h \in AllKeys :
             /\ e = wk[w].ev /\ h \in Keys(e)
             /\ runs' = [runs EXCEPT ![e][h] = @ + 1]
<1>1. PICK e \in Events : e = wk[w].ev
  BY BusyFacts DEF Busy, Working
<1>2. PICK h \in AllKeys : h = Current(w) /\ h \in Keys(e)
  BY <1>1, BusyFacts DEF Busy, Working
<1> QED BY <1>1, <1>2 DEF Effect

\* A busy worker was busy with the same event, or has just claimed it.
LEMMA WhoWorks ==
    ASSUME IInv, Next, NEW w \in Workers, Busy(w)'
    PROVE  \/ Busy(w) /\ wk'[w].ev = wk[w].ev
           \/ Claimable(wk'[w].ev)
<1>1. wk \in [Workers -> WorkerState]
  BY DEF IInv, TypeOK
<1>2. CASE \E e \in Events : Environment(e)
  BY <1>2 DEF Environment, SaveEvent, Requeue, Purge, ClaimExpires, BackoffElapses, Busy
<1>3. ASSUME NEW v \in Workers, Worker(v)
      PROVE  \/ Busy(w) /\ wk'[w].ev = wk[w].ev
             \/ Claimable(wk'[w].ev)
  <2>1. CASE Claim(v)
    <3>1. PICK e \in Events :
            /\ Claimable(e)
            /\ wk' = [wk EXCEPT ![v] = [pc |-> "dispatching", ev |-> e,
                        retries |-> doc[e].retries, done |-> doc[e].done, lost |-> FALSE]]
      BY <2>1 DEF Claim, Oldest
    <3>2. v = w => wk'[w].ev = e
      BY <1>1, <3>1
    <3>3. v # w => wk'[w] = wk[w]
      BY <1>1, <3>1
    <3> QED BY <3>1, <3>2, <3>3 DEF Busy
  <2>2. CASE ClaimFails(v)
    BY <2>2 DEF ClaimFails, Busy
  <2>3. CASE Crash(v) \/ Fail(v) \/ FailFails(v)
    <3>1. wk' = [wk EXCEPT ![v] = Dead] \/ wk' = [wk EXCEPT ![v] = Idle]
      BY <2>3 DEF Crash, Fail, FailFails
    <3> QED BY <1>1, <3>1 DEF Busy, Dead, Idle, Working
  <2>4. CASE \/ Dispatch(v) \/ HandlerReturns(v) \/ HandlerThrows(v)
             \/ Checkpoint(v) \/ CheckpointFails(v) \/ Complete(v) \/ CompleteFails(v)
             \/ Renew(v) \/ RenewFails(v)
    <3>1. Busy(v)
      BY <2>4 DEF Dispatch, HandlerReturns, HandlerThrows, Checkpoint, CheckpointFails,
           Complete, CompleteFails, Renew, RenewFails, Busy, Working
    <3>2. \/ \E label : Goto(v, label)
          \/ wk' = [wk EXCEPT ![v] = Checkpointed(@, Current(v))]
          \/ wk' = [wk EXCEPT ![v] = Idle]
          \/ wk' = [wk EXCEPT ![v].lost = TRUE]
          \/ wk' = wk
      BY <2>4 DEF Dispatch, HandlerReturns, HandlerThrows, Checkpoint, CheckpointFails,
           Complete, CompleteFails, Renew, RenewFails
    <3>3. wk'[v].ev = wk[v].ev \/ wk'[v] = Idle
      BY <1>1, <3>2 DEF Goto, Checkpointed, WorkerState
    <3>4. \A u \in Workers \ {v} : wk'[u] = wk[u]
      BY <1>1, <3>2 DEF Goto
    <3> QED BY <3>1, <3>3, <3>4 DEF Busy, Idle, Working
  <2> QED BY <1>3, <2>1, <2>2, <2>3, <2>4 DEF Worker, Step
<1> QED BY <1>2, <1>3 DEF Next

\* A document that is written stays so.
LEMMA StagesAdvance ==
    ASSUME IInv, Next, NEW e \in Events, doc[e].stage # "unwritten"
    PROVE  doc'[e].stage # "unwritten"
<1>1. doc \in [Events -> Doc] /\ doc[e] \in Doc
  BY DEF IInv, TypeOK
<1>2. CASE Environment(e)
  <2>1. CASE SaveEvent(e) \/ Purge(e)
    BY <1>1, <2>1 DEF SaveEvent, Purge, NewDoc, Doc
  <2>2. CASE Requeue(e)
    BY <1>1, <2>2 DEF Requeue, Doc
  <2>3. CASE ClaimExpires(e) \/ BackoffElapses(e)
    BY <1>1, <2>3 DEF ClaimExpires, BackoffElapses, Doc
  <2> QED BY <1>2, <2>1, <2>2, <2>3 DEF Environment
<1>3. ASSUME NEW w \in Workers, SetClaim(e, w) PROVE doc'[e].stage # "unwritten"
  BY <1>1, <1>3 DEF SetClaim, Doc
<1>4. ASSUME NEW w \in Workers, wk[w].ev = e,
             AddHandler(w) \/ SetProcessed(w) \/ SetFailed(w)
               \/ doc' = [doc EXCEPT ![e].stale = FALSE]
      PROVE  doc'[e].stage # "unwritten"
  <2>1. CASE SetFailed(w)
    <3>1. PICK x \in BOOLEAN : doc'[e] = FailedDoc(doc[e], x)
      BY <1>1, <1>4, <2>1 DEF SetFailed
    <3> QED BY <1>1, <3>1 DEF FailedDoc, Doc
  <2>2. CASE AddHandler(w) \/ SetProcessed(w) \/ doc' = [doc EXCEPT ![e].stale = FALSE]
    <3>1. CASE AddHandler(w)
      <4>1. PICK y : doc'[e] = [doc[e] EXCEPT !.done = y]
        BY <1>1, <1>4, <3>1 DEF AddHandler
      <4> QED BY <1>1, <4>1 DEF Doc
    <3>2. CASE SetProcessed(w)
      <4>1. doc'[e] = [doc[e] EXCEPT !.processed = TRUE, !.processing = FALSE,
                         !.owner = NoWorker, !.stale = FALSE, !.deferred = FALSE,
                         !.exhausted = FALSE]
        BY <1>1, <1>4, <3>2 DEF SetProcessed
      <4> QED BY <1>1, <4>1 DEF Doc
    <3>3. CASE doc' = [doc EXCEPT ![e].stale = FALSE]
      <4>1. doc'[e] = [doc[e] EXCEPT !.stale = FALSE]
        BY <1>1, <3>3
      <4> QED BY <1>1, <4>1 DEF Doc
    <3> QED BY <2>2, <3>1, <3>2, <3>3
  <2> QED BY <1>4, <2>1, <2>2
<1> QED BY <1>2, <1>3, <1>4, WhoWrites

LEMMA NextDue == IInv /\ IInv' /\ EffectsAreDue /\ [Next]_vars => EffectsAreDue'
<1> SUFFICES ASSUME IInv, IInv', EffectsAreDue, [Next]_vars PROVE EffectsAreDue'
  OBVIOUS
<1>1. CASE UNCHANGED vars
  BY <1>1 DEF vars, EffectsAreDue, Busy
<1>2. CASE Next
  <2>1. ASSUME NEW e \in Events, NEW h \in AllKeys, runs'[e][h] > 0 PROVE h \in Keys(e)
    <3>1. CASE runs' = runs
      BY <2>1, <3>1 DEF EffectsAreDue
    <3>2. CASE \E w \in Workers : wk[w].pc = "handling" /\ Effect(w)
      <4>1. PICK f \in Events, g \in AllKeys :
              g \in Keys(f) /\ runs' = [runs EXCEPT ![f][g] = @ + 1]
        BY <3>2, EffectAdds
      <4>2. runs'[e][h] = runs[e][h] \/ (e = f /\ h = g)
        BY <4>1 DEF IInv, TypeOK
      <4> QED BY <2>1, <4>1, <4>2 DEF EffectsAreDue
    <3> QED BY <1>2, <3>1, <3>2, WhoRuns
  <2>2. ASSUME NEW w \in Workers, Busy(w)' PROVE doc'[wk'[w].ev].stage # "unwritten"
    <3>1. wk'[w].ev \in Events
      BY <2>2 DEF IInv, TypeOK
    <3>2. doc[wk'[w].ev].stage # "unwritten"
      BY <1>2, <2>2, WhoWorks DEF EffectsAreDue, Claimable
    <3> QED BY <1>2, <3>1, <3>2, StagesAdvance
  <2> QED BY <2>1, <2>2 DEF EffectsAreDue
<1> QED BY <1>1, <1>2

-----------------------------------------------------------------------------
\* The mapping: a step that changes one document, or one effect.
LEMMA ObservedChange ==
    ASSUME NEW e \in Events, \A f \in Events \ {e} : doc'[f] = doc[f]
    PROVE  Observed' = [Observed EXCEPT ![e] = Status(e)']
<1>1. \A f \in Events \ {e} : Status(f)' = Status(f)
  BY DEF Status
<1>2. Observed' = [f \in Events |-> Status(f)']
  BY DEF Observed
<1>3. Observed = [f \in Events |-> Status(f)]
  BY DEF Observed
<1> QED BY <1>1, <1>2, <1>3

LEMMA RanSame == ASSUME runs' = runs PROVE Ran' = Ran
BY DEF Ran

LEMMA RanGrows ==
    ASSUME IInv, NEW e \in Events, NEW h \in AllKeys, runs' = [runs EXCEPT ![e][h] = @ + 1]
    PROVE  Ran' = [Ran EXCEPT ![e] = @ \cup {h}]
<1>1. runs \in [Events -> [AllKeys -> Nat]]
  BY DEF IInv, TypeOK
<1>2. ASSUME NEW f \in Events
      PROVE  {g \in AllKeys : runs'[f][g] > 0} =
               IF f = e THEN {g \in AllKeys : runs[f][g] > 0} \cup {h}
               ELSE {g \in AllKeys : runs[f][g] > 0}
  BY <1>1
<1> QED BY <1>2 DEF Ran

LEMMA InitDelivery == Init => Delivery!Init
<1> SUFFICES ASSUME Init PROVE Delivery!Init
  OBVIOUS
<1>1. \A e \in Events : Status(e) = "unwritten"
  BY DEF Init, NewDoc, Status
<1>2. \A e \in Events : {h \in AllKeys : runs[e][h] > 0} = {}
  BY DEF Init
<1> QED BY <1>1, <1>2 DEF Delivery!Init, Observed, Ran

\* The environment writes, replays and purges, or is not seen.
LEMMA EnvironmentDelivers ==
    ASSUME IInv, NEW e \in Events, Environment(e)
    PROVE  [Delivery!Next]_(Delivery!vars)
<1>1. doc \in [Events -> Doc] /\ doc[e] \in Doc /\ EventInv(e)
  BY DEF IInv, TypeOK
<1>2. runs' = runs /\ \A f \in Events \ {e} : doc'[f] = doc[f]
  BY <1>1 DEF Environment, SaveEvent, Requeue, Purge, ClaimExpires, BackoffElapses
<1>3. Ran' = Ran /\ Observed' = [Observed EXCEPT ![e] = Status(e)']
  BY <1>2, RanSame, ObservedChange
<1>4. Observed[e] = Status(e)
  BY DEF Observed
<1>5. CASE SaveEvent(e)
  <2>1. Status(e) = "unwritten" /\ Status(e)' = "pending"
    BY <1>1, <1>5, MaxRetriesAssumption DEF SaveEvent, Status, EventInv, Doc
  <2>2. Delivery!Write(e)
    BY <1>3, <1>4, <2>1 DEF Delivery!Write, Delivery!Become
  <2> QED BY <2>2 DEF Delivery!Next
<1>6. CASE Requeue(e)
  <2>1. Status(e) = "parked" /\ Status(e)' = "pending"
    BY <1>1, <1>6 DEF Requeue, Status, EventInv, Doc
  <2>2. Delivery!Replay(e)
    BY <1>3, <1>4, <2>1 DEF Delivery!Replay, Delivery!Become
  <2> QED BY <2>2 DEF Delivery!Next
<1>7. CASE Purge(e)
  <2>1. Status(e) \in {"pending", "delivered", "parked"} /\ Status(e)' = "purged"
    BY <1>1, <1>7 DEF Purge, Status, NewDoc, Doc
  <2>2. Delivery!Purge(e)
    BY <1>3, <1>4, <2>1 DEF Delivery!Purge, Delivery!Become, Delivery!Statuses
  <2> QED BY <2>2 DEF Delivery!Next
<1>8. CASE ClaimExpires(e) \/ BackoffElapses(e)
  <2>1. Status(e)' = Status(e)
    BY <1>1, <1>8 DEF ClaimExpires, BackoffElapses, Status, Doc
  <2>2. Observed' = Observed
    BY <1>3, <2>1 DEF Observed
  <2> QED BY <1>3, <2>2 DEF Delivery!vars
<1> QED BY <1>5, <1>6, <1>7, <1>8 DEF Environment

\* An owner delivers or parks, or its write is not seen.
LEMMA OwnerDelivers ==
    ASSUME IInv, EffectsAreDue, runs' = runs, NEW e \in Events, NEW w \in Workers,
           Busy(w), wk[w].ev = e, Owned(w),
           \/ wk[w].pc = "checkpointing" /\ AddHandler(w)
           \/ wk[w].pc = "completing" /\ SetProcessed(w)
           \/ SetFailed(w)
           \/ doc' = [doc EXCEPT ![e].stale = FALSE]
    PROVE  [Delivery!Next]_(Delivery!vars)
<1>1. doc \in [Events -> Doc] /\ doc[e] \in Doc /\ EventInv(e) /\ WorkerInv(w)
  BY DEF IInv, TypeOK
<1>2. Status(e) = "pending"
  BY <1>1, WorkersAssumption, MaxRetriesAssumption DEF Owned, EventInv, Status, Doc
<1>3. \A f \in Events \ {e} : doc'[f] = doc[f]
  BY <1>1 DEF AddHandler, SetProcessed, SetFailed
<1>4. Ran' = Ran /\ Observed' = [Observed EXCEPT ![e] = Status(e)'] /\ Observed[e] = "pending"
  BY <1>2, <1>3, RanSame, ObservedChange DEF Observed
<1>5. CASE AddHandler(w) \/ doc' = [doc EXCEPT ![e].stale = FALSE]
  <2>1. Status(e)' = Status(e)
    BY <1>1, <1>5 DEF AddHandler, Status, Doc
  <2>2. Observed' = Observed
    BY <1>4, <2>1 DEF Observed
  <2> QED BY <1>4, <2>2 DEF Delivery!vars
<1>6. CASE wk[w].pc = "completing" /\ SetProcessed(w)
  <2>1. Status(e)' = "delivered"
    BY <1>1, <1>6 DEF SetProcessed, Owned, Status, Doc
  <2>2. Keys(e) # {} /\ Keys(e) \subseteq doc[e].done /\ doc[e].done \subseteq AllKeys
    BY <1>1, <1>6 DEF WorkerInv, Doc
  <2>3. Ran[e] = Keys(e)
    <3>1. \A h \in AllKeys : runs[e][h] > 0 <=> h \in Keys(e)
      BY <1>1, <2>2 DEF EventInv, EffectsAreDue
    <3> QED BY <2>2, <3>1 DEF Ran
  <2>4. Delivery!Deliver(e)
    BY <1>4, <2>1, <2>2, <2>3 DEF Delivery!Deliver, Delivery!Become
  <2> QED BY <2>4 DEF Delivery!Next
<1>7. CASE SetFailed(w)
  <2>1. PICK x \in BOOLEAN : doc'[e] = FailedDoc(doc[e], x)
    BY <1>1, <1>7 DEF SetFailed
  <2>2. Status(e)' = IF x THEN "parked" ELSE "pending"
    BY <1>1, <1>2, <2>1 DEF FailedDoc, Owned, Status, Doc
  <2>3. CASE x
    <3>1. Delivery!Park(e)
      BY <1>4, <2>2, <2>3 DEF Delivery!Park, Delivery!Become
    <3> QED BY <3>1 DEF Delivery!Next
  <2>4. CASE ~x
    <3>1. Observed' = Observed
      BY <1>4, <2>2, <2>4 DEF Observed
    <3> QED BY <1>4, <3>1 DEF Delivery!vars
  <2> QED BY <2>3, <2>4
<1> QED BY <1>5, <1>6, <1>7

LEMMA StepDelivers ==
    IInv /\ EffectsAreDue /\ [Next]_vars => [Delivery!Next]_(Delivery!vars)
<1> SUFFICES ASSUME IInv, EffectsAreDue, [Next]_vars
             PROVE  [Delivery!Next]_(Delivery!vars)
  OBVIOUS
<1>1. CASE UNCHANGED <<doc, runs>>
  BY <1>1 DEF Delivery!vars, Observed, Ran, Status
<1>2. CASE UNCHANGED vars
  BY <1>1, <1>2 DEF vars
<1>3. CASE Next /\ runs' # runs
  <2>1. PICK w \in Workers : doc' = doc /\ wk[w].pc = "handling" /\ Effect(w)
    BY <1>3, WhoRuns
  <2>2. PICK e \in Events, h \in AllKeys :
          e = wk[w].ev /\ h \in Keys(e) /\ runs' = [runs EXCEPT ![e][h] = @ + 1]
    BY <2>1, EffectAdds
  <2>3. Observed' = Observed
    BY <2>1 DEF Observed, Status
  <2>4. Ran' = [Ran EXCEPT ![e] = @ \cup {h}]
    BY <2>2, RanGrows
  <2>5. Observed[e] # "unwritten"
    <3>1. doc[e].stage # "unwritten"
      BY <2>1, <2>2 DEF EffectsAreDue, Busy, Working
    <3> QED BY <3>1 DEF Observed, Status
  <2>6. Delivery!Run(e)
    BY <2>2, <2>3, <2>4, <2>5 DEF Delivery!Run
  <2> QED BY <2>6 DEF Delivery!Next
<1>4. CASE Next /\ runs' = runs /\ doc' # doc
  <2>1. PICK e \in Events : doc'[e] # doc[e]
    <3>1. doc \in [Events -> Doc] /\ doc' \in [Events -> Doc]
      BY <1>4, NextInv DEF IInv, TypeOK
    <3> QED BY <1>4, <3>1
  <2>2. CASE Environment(e)
    BY <2>2, EnvironmentDelivers
  <2>3. ASSUME NEW w \in Workers, Claimable(e), SetClaim(e, w)
        PROVE  [Delivery!Next]_(Delivery!vars)
    <3>1. doc \in [Events -> Doc] /\ doc[e] \in Doc
      BY DEF IInv, TypeOK
    <3>2. Status(e)' = Status(e) /\ \A f \in Events \ {e} : doc'[f] = doc[f]
      BY <2>3, <3>1 DEF SetClaim, Status, Doc
    <3>3. Observed' = Observed
      BY <3>2, ObservedChange DEF Observed
    <3> QED BY <1>4, <3>3, RanSame DEF Delivery!vars
  <2> QED BY <1>4, <2>1, <2>2, <2>3, WhoWrites, OwnerDelivers
<1> QED BY <1>1, <1>2, <1>3, <1>4

\* Claims, checkpoints, takeovers and retries are invisible to the authors of
\* events: each step writes, runs, delivers, parks, replays or purges one event
\* as OutboxDelivery allows, or changes nothing they can observe.
THEOREM DeliveryImplemented == Spec => ImplementsDelivery
<1>1. Init => EffectsAreDue
  BY DEF Init, EffectsAreDue, Busy, Working, Idle
<1> QED BY <1>1, InitDelivery, NextDue, StepDelivers, Invariance, PTL
        DEF Spec, ImplementsDelivery, Delivery!SafeSpec

-----------------------------------------------------------------------------
(***************************************************************************)
(* Repeated effects are paid for.  What counts as a repeat is a set of     *)
(* triples; a step adds none, adds one and pays, or takes one away for the *)
(* one it adds.                                                            *)
(***************************************************************************)
LEMMA InBeyond ==
    ASSUME NEW n, NEW x
    PROVE  x \in Beyond(n) <=>
             \E e \in Events, h \in AllKeys : \E k \in 2 .. n[e][h] : x = <<e, h, k>>
<1> DEFINE Cell(e, h) == {<<e, h, k>> : k \in 2 .. n[e][h]}
           Cells == {Cell(e, h) : e \in Events, h \in AllKeys}
<1>1. Beyond(n) = UNION Cells
  BY DEF Beyond
<1>2. \A e, h : x \in Cell(e, h) <=> \E k \in 2 .. n[e][h] : x = <<e, h, k>>
  OBVIOUS
<1>3. \A S : S \in Cells <=> \E e \in Events, h \in AllKeys : S = Cell(e, h)
  OBVIOUS
<1> HIDE DEF Cell, Cells
<1> QED BY <1>1, <1>2, <1>3

LEMMA ShorterInterval ==
    ASSUME NEW a \in Nat, NEW b \in Nat, NEW k \in 2 .. a, a <= b + 1, k # b + 1
    PROVE  k \in 2 .. b
OBVIOUS

\* All cells but one do not grow, and that one by one at most.
LEMMA BeyondGrows ==
    ASSUME NEW n \in [Events -> [AllKeys -> Nat]], NEW m \in [Events -> [AllKeys -> Nat]],
           NEW e, NEW h, NEW b \in {0, 1},
           \A f \in Events, g \in AllKeys :
               m[f][g] <= n[f][g] + (IF f = e /\ g = h THEN b ELSE 0)
    PROVE  Beyond(m) \subseteq Beyond(n) \cup (IF b = 0 THEN {} ELSE {<<e, h, n[e][h] + 1>>})
<1> SUFFICES ASSUME NEW x \in Beyond(m),
                    x \notin (IF b = 0 THEN {} ELSE {<<e, h, n[e][h] + 1>>})
             PROVE  x \in Beyond(n)
  OBVIOUS
<1>1. PICK f \in Events, g \in AllKeys : \E k \in 2 .. m[f][g] : x = <<f, g, k>>
  BY InBeyond
<1>2. PICK k \in 2 .. m[f][g] : x = <<f, g, k>>
  BY <1>1
<1>3. m[f][g] \in Nat /\ n[f][g] \in Nat
  OBVIOUS
<1>4. m[f][g] <= n[f][g] + (IF f = e /\ g = h THEN b ELSE 0)
  OBVIOUS
<1>5. k \in 2 .. n[f][g]
  <2>1. CASE f = e /\ g = h /\ b = 1
    <3>1. x # <<f, g, n[f][g] + 1>>
      BY <2>1
    <3>2. k # n[f][g] + 1
      BY <1>2, <3>1
    <3>3. m[f][g] <= n[f][g] + 1
      BY <1>4, <2>1
    <3> QED BY <1>3, <3>2, <3>3, ShorterInterval
  <2>2. CASE ~(f = e /\ g = h /\ b = 1)
    BY <1>2, <1>3, <1>4, <2>2
  <2> QED BY <2>1, <2>2
<1> QED BY <1>2, <1>5, InBeyond

\* One cell grows by one, another one shrinks.
LEMMA BeyondMoves ==
    ASSUME NEW n \in [Events -> [AllKeys -> Nat]], NEW m \in [Events -> [AllKeys -> Nat]],
           NEW e \in Events, NEW h, NEW g \in AllKeys, g # h, n[e][g] >= 2,
           \A f \in Events, i \in AllKeys :
               m[f][i] <= IF f = e /\ i = h THEN n[f][i] + 1
                          ELSE IF f = e /\ i = g THEN n[f][i] - 1 ELSE n[f][i]
    PROVE  LET y == <<e, g, n[e][g]>> IN
           /\ y \in Beyond(n)
           /\ Beyond(m) \subseteq (Beyond(n) \ {y}) \cup {<<e, h, n[e][h] + 1>>}
<1> DEFINE y == <<e, g, n[e][g]>>
<1>1. n[e][g] \in Nat
  OBVIOUS
<1>2. y \in Beyond(n)
  BY <1>1, InBeyond
<1>3. ASSUME NEW x \in Beyond(m), x # <<e, h, n[e][h] + 1>>
      PROVE  x \in Beyond(n) \ {y}
  <2>1. PICK f \in Events, i \in AllKeys : \E k \in 2 .. m[f][i] : x = <<f, i, k>>
    BY InBeyond
  <2>2. PICK k \in 2 .. m[f][i] : x = <<f, i, k>>
    BY <2>1
  <2>3. m[f][i] \in Nat /\ n[f][i] \in Nat
    OBVIOUS
  <2>4. m[f][i] <= IF f = e /\ i = h THEN n[f][i] + 1
                   ELSE IF f = e /\ i = g THEN n[f][i] - 1 ELSE n[f][i]
    OBVIOUS
  <2>5. k \in 2 .. n[f][i] /\ ~(f = e /\ i = g /\ k = n[e][g])
    <3>1. CASE f = e /\ i = h
      <4>1. x # <<f, i, n[f][i] + 1>>
        BY <1>3, <3>1
      <4>2. k # n[f][i] + 1
        BY <2>2, <4>1
      <4>3. m[f][i] <= n[f][i] + 1 /\ i # g
        BY <2>4, <3>1
      <4>4. k \in 2 .. n[f][i]
        BY <2>3, <4>2, <4>3, ShorterInterval
      <4> QED BY <4>3, <4>4
    <3>2. CASE f = e /\ i = g
      BY <2>2, <2>3, <2>4, <3>2
    <3>3. CASE ~(f = e /\ i = h) /\ ~(f = e /\ i = g)
      BY <2>2, <2>3, <2>4, <3>3
    <3> QED BY <3>1, <3>2, <3>3
  <2>6. x \in Beyond(n)
    BY <2>2, <2>5, InBeyond
  <2>7. x # y
    BY <2>2, <2>5
  <2> QED BY <2>6, <2>7
<1> QED BY <1>2, <1>3

LEMMA SetExchange ==
    ASSUME NEW S, NEW T, NEW x, NEW y \in S, IsFiniteSet(S), T \subseteq (S \ {y}) \cup {x}
    PROVE  IsFiniteSet(T) /\ Cardinality(T) <= Cardinality(S)
<1> DEFINE V == S \ {y}
           U == V \cup {x}
<1>1. IsFiniteSet(V) /\ Cardinality(V) = Cardinality(S) - 1 /\ Cardinality(S) \in Nat
  BY FS_RemoveElement, FS_CardinalityType
<1>2. T \in SUBSET U
  OBVIOUS
<1> HIDE DEF V
<1>3. IsFiniteSet(U) /\ Cardinality(U) <= Cardinality(V) + 1
  <2>1. Cardinality(V) \in Nat
    BY <1>1, FS_CardinalityType
  <2>2. IsFiniteSet(U) /\ Cardinality(U) = IF x \in V THEN Cardinality(V) ELSE Cardinality(V) + 1
    BY <1>1, FS_AddElement
  <2> QED BY <2>1, <2>2
<1> HIDE DEF U
<1>4. IsFiniteSet(T) /\ Cardinality(T) <= Cardinality(U)
  BY <1>2, <1>3, FS_Subset
<1>5. Cardinality(T) \in Nat /\ Cardinality(U) \in Nat
  BY <1>3, <1>4, FS_CardinalityType
<1> QED BY <1>1, <1>3, <1>4, <1>5

LEMMA SetGrows ==
    ASSUME NEW S, NEW T, NEW x, IsFiniteSet(S), T \subseteq S \cup {x}
    PROVE  /\ IsFiniteSet(T) /\ Cardinality(T) \in Nat
           /\ Cardinality(T) <= Cardinality(S) + 1
<1> DEFINE U == S \cup {x}
<1>1. IsFiniteSet(U) /\ Cardinality(U) <= Cardinality(S) + 1 /\ Cardinality(S) \in Nat
  BY FS_AddElement, FS_CardinalityType
<1>2. Cardinality(U) \in Nat /\ T \in SUBSET U
  BY <1>1, FS_CardinalityType
<1> HIDE DEF U
<1>3. IsFiniteSet(T) /\ Cardinality(T) <= Cardinality(U)
  BY <1>1, <1>2, FS_Subset
<1>4. Cardinality(T) \in Nat
  BY <1>3, FS_CardinalityType
<1> QED BY <1>1, <1>2, <1>3, <1>4

-----------------------------------------------------------------------------
(* One worker moves, or loses its claim: what it adds to a cell.           *)

Others(w) ==
    \A v \in Workers \ {w} : wk'[v] = wk[v] /\ (Healthy(v)' <=> Healthy(v))

Part(w, e, h) == runs[e][h] + One(w \in Workers /\ Stray(w, e, h)) + One(Open(e, h))

LEMMA PartStep ==
    ASSUME IInv, IInv', NEW w, Others(w), NEW e \in Events, NEW h \in AllKeys
    PROVE  /\ Expected(e, h) \in Nat /\ Expected(e, h)' \in Nat
           /\ Part(w, e, h) \in Nat /\ Part(w, e, h)' \in Nat
           /\ Expected(e, h)' - Expected(e, h) = Part(w, e, h)' - Part(w, e, h)
           /\ Expected(e, h) >= Part(w, e, h)
<1> DEFINE S == {v \in Workers : Stray(v, e, h)}
           T == {v \in Workers : Stray(v, e, h)'}
<1>1. IsFiniteSet(S) /\ IsFiniteSet(T)
  BY FS_Subset, WorkersAssumption
<1>2. S \ {w} = T \ {w}
  BY DEF Others, Stray, IsAt, MayRun, Busy, NoneLeft, Current
<1>3. Cardinality(S) \in Nat /\ Cardinality(T) \in Nat
  BY <1>1, FS_CardinalityType
<1>4. /\ Cardinality(S \ {w}) = Cardinality(S) - One(w \in S)
      /\ Cardinality(T \ {w}) = Cardinality(T) - One(w \in T)
      /\ Cardinality(S \ {w}) \in Nat
  <2>1. /\ IsFiniteSet(S \ {w})
        /\ Cardinality(S \ {w}) = IF w \in S THEN Cardinality(S) - 1 ELSE Cardinality(S)
    BY <1>1, FS_RemoveElement
  <2>2. Cardinality(T \ {w}) = IF w \in T THEN Cardinality(T) - 1 ELSE Cardinality(T)
    BY <1>1, FS_RemoveElement
  <2>3. Cardinality(S \ {w}) \in Nat
    BY <2>1, FS_CardinalityType
  <2> HIDE DEF S, T
  <2> QED BY <1>3, <2>1, <2>2, <2>3 DEF One
<1>5. /\ One(w \in S) = One(w \in Workers /\ Stray(w, e, h))
      /\ One(w \in T) = One(w \in Workers /\ Stray(w, e, h)')
  BY DEF One
<1>6. /\ Expected(e, h) = runs[e][h] + Cardinality(S) + One(Open(e, h))
      /\ Expected(e, h)' = runs'[e][h] + Cardinality(T) + One(Open(e, h)')
  BY DEF Expected
<1>7. /\ Part(w, e, h) = runs[e][h] + One(w \in S) + One(Open(e, h))
      /\ Part(w, e, h)' = runs'[e][h] + One(w \in T) + One(Open(e, h)')
  BY <1>5 DEF Part, One
<1>8. runs[e][h] \in Nat /\ runs'[e][h] \in Nat
  BY DEF IInv, TypeOK
<1>9. PICK a \in {0, 1}, b \in {0, 1}, c \in {0, 1}, d \in {0, 1} :
         a = One(w \in S) /\ b = One(w \in T) /\ c = One(Open(e, h)) /\ d = One(Open(e, h)')
  BY DEF One
<1> HIDE DEF S, T
<1>10. Cardinality(S) - a = Cardinality(T) - b /\ Cardinality(S) - a >= 0
  BY <1>2, <1>4, <1>9
<1>11. /\ Expected(e, h) = runs[e][h] + Cardinality(S) + c
       /\ Expected(e, h)' = runs'[e][h] + Cardinality(T) + d
       /\ Part(w, e, h) = runs[e][h] + a + c
       /\ Part(w, e, h)' = runs'[e][h] + b + d
  BY <1>6, <1>7, <1>9
<1> QED BY <1>3, <1>8, <1>10, <1>11

\* Nobody else records what was not recorded, so a cell stays closed.
LEMMA OpenStep ==
    ASSUME NEW w, Others(w), NEW e, NEW h,
           Due(e, h)' => Due(e, h),
           w \in Workers /\ Due(e, h)' /\ Recording(w, e, h) => Recording(w, e, h)'
    PROVE  Open(e, h)' => Open(e, h)
BY DEF Open, Others, Recording, IsAt, Busy, NoneLeft, Current

\* No cell grows, ...
Quiet(w) ==
    /\ Others(w)
    /\ \A e \in Events, h \in AllKeys : Part(w, e, h)' <= Part(w, e, h)

\* ... or one by one.
OneMore(w) ==
    /\ Others(w)
    /\ \E f \in Events, g \in AllKeys :
         \A e \in Events, h \in AllKeys :
             Part(w, e, h)' <= Part(w, e, h) + One(e = f /\ h = g)

\* ... or one grows by one and another one, which counted, shrinks.
Balanced(w) ==
    /\ Others(w)
    /\ \E f \in Events, g, i \in AllKeys :
         /\ i # g /\ Part(w, f, i) >= 2
         /\ \A e \in Events, h \in AllKeys :
              Part(w, e, h)' <= Part(w, e, h) + One(e = f /\ h = g) - One(e = f /\ h = i)

Paid == Interruptions \in Nat /\ Interruptions' \in Nat /\ Interruptions' >= Interruptions + 1
Free == Interruptions \in Nat /\ Interruptions' \in Nat /\ Interruptions' >= Interruptions

ExpectedNow == [e \in Events |-> [h \in AllKeys |-> Expected(e, h)]]

LEMMA QuietIsPaid ==
    ASSUME IInv, IInv', DebtIsPaid, NEW w, Quiet(w), Free
    PROVE  DebtIsPaid'
<1> DEFINE n == ExpectedNow
           m == ExpectedNow'
<1>1. \A e \in Events, h \in AllKeys :
        /\ Expected(e, h) \in Nat /\ Expected(e, h)' \in Nat
        /\ Expected(e, h)' <= Expected(e, h)
  BY PartStep DEF Quiet
<1>2. n \in [Events -> [AllKeys -> Nat]] /\ m \in [Events -> [AllKeys -> Nat]]
  BY <1>1 DEF ExpectedNow
<1>3. \A e \in Events, h \in AllKeys : m[e][h] <= n[e][h]
  BY <1>1 DEF ExpectedNow
<1>4. Debt = Beyond(n) /\ Debt' = Beyond(m)
  BY DEF Debt, ExpectedNow, Beyond
<1> HIDE DEF n, m
<1>5. Debt' \subseteq Debt
  <2>1. \A f \in Events, g \in AllKeys : m[f][g] <= n[f][g] + (IF f = 0 /\ g = 0 THEN 0 ELSE 0)
    BY <1>2, <1>3
  <2> QED BY <1>2, <1>4, <2>1, BeyondGrows
<1>6. IsFiniteSet(Debt) /\ Cardinality(Debt) \in Nat /\ Cardinality(Debt) <= Interruptions
  BY FS_CardinalityType DEF DebtIsPaid
<1>7. IsFiniteSet(Debt') /\ Cardinality(Debt') <= Cardinality(Debt)
  BY <1>5, <1>6, FS_Subset
<1>8. Cardinality(Debt') \in Nat
  BY <1>7, FS_CardinalityType
<1> QED BY <1>6, <1>7, <1>8 DEF DebtIsPaid, Free

LEMMA OneMoreIsPaid ==
    ASSUME IInv, IInv', DebtIsPaid, NEW w, OneMore(w), Paid
    PROVE  DebtIsPaid'
<1> DEFINE n == ExpectedNow
           m == ExpectedNow'
<1>1. PICK f \in Events, g \in AllKeys :
         \A e \in Events, h \in AllKeys :
             Part(w, e, h)' <= Part(w, e, h) + One(e = f /\ h = g)
  BY DEF OneMore
<1>2. ASSUME NEW e \in Events, NEW h \in AllKeys
      PROVE  /\ Expected(e, h) \in Nat /\ Expected(e, h)' \in Nat
             /\ Expected(e, h)' <= Expected(e, h) + (IF e = f /\ h = g THEN 1 ELSE 0)
  BY <1>1, PartStep DEF OneMore, One
<1>3. n \in [Events -> [AllKeys -> Nat]] /\ m \in [Events -> [AllKeys -> Nat]]
  BY <1>2 DEF ExpectedNow
<1>4. \A e \in Events, h \in AllKeys : m[e][h] <= n[e][h] + (IF e = f /\ h = g THEN 1 ELSE 0)
  BY <1>2 DEF ExpectedNow
<1>5. Debt = Beyond(n) /\ Debt' = Beyond(m)
  BY DEF Debt, ExpectedNow, Beyond
<1> HIDE DEF n, m
<1>6. Debt' \subseteq Debt \cup {<<f, g, n[f][g] + 1>>}
  BY <1>3, <1>4, <1>5, BeyondGrows
<1>7. IsFiniteSet(Debt) /\ Cardinality(Debt) \in Nat /\ Cardinality(Debt) <= Interruptions
  BY FS_CardinalityType DEF DebtIsPaid
<1>8. /\ IsFiniteSet(Debt') /\ Cardinality(Debt') \in Nat
      /\ Cardinality(Debt') <= Cardinality(Debt) + 1
  BY <1>6, <1>7, SetGrows
<1> QED BY <1>7, <1>8 DEF DebtIsPaid, Paid

LEMMA BalancedIsPaid ==
    ASSUME IInv, IInv', DebtIsPaid, NEW w, Balanced(w), Free
    PROVE  DebtIsPaid'
<1> DEFINE n == ExpectedNow
           m == ExpectedNow'
<1>1. PICK f \in Events, g \in AllKeys, i \in AllKeys :
         /\ i # g /\ Part(w, f, i) >= 2
         /\ \A e \in Events, h \in AllKeys :
              Part(w, e, h)' <= Part(w, e, h) + One(e = f /\ h = g) - One(e = f /\ h = i)
  BY DEF Balanced
<1>2. ASSUME NEW e \in Events, NEW h \in AllKeys
      PROVE  /\ Expected(e, h) \in Nat /\ Expected(e, h)' \in Nat
             /\ Expected(e, h)' <= IF e = f /\ h = g THEN Expected(e, h) + 1
                                   ELSE IF e = f /\ h = i THEN Expected(e, h) - 1
                                   ELSE Expected(e, h)
  BY <1>1, PartStep DEF Balanced, One
<1>3. n \in [Events -> [AllKeys -> Nat]] /\ m \in [Events -> [AllKeys -> Nat]]
  BY <1>2 DEF ExpectedNow
<1>4. \A e \in Events, h \in AllKeys :
        m[e][h] <= IF e = f /\ h = g THEN n[e][h] + 1
                   ELSE IF e = f /\ h = i THEN n[e][h] - 1 ELSE n[e][h]
  BY <1>2 DEF ExpectedNow
<1>5. Debt = Beyond(n) /\ Debt' = Beyond(m)
  BY DEF Debt, ExpectedNow, Beyond
<1>6. n[f][i] >= 2
  BY <1>1, PartStep DEF ExpectedNow, Balanced
<1> HIDE DEF n, m
<1>7. PICK x, y : y \in Debt /\ Debt' \subseteq (Debt \ {y}) \cup {x}
  <2>1. LET y == <<f, i, n[f][i]>> IN
        y \in Beyond(n) /\ Beyond(m) \subseteq (Beyond(n) \ {y}) \cup {<<f, g, n[f][g] + 1>>}
    BY <1>1, <1>3, <1>4, <1>6, BeyondMoves
  <2> QED BY <1>5, <2>1
<1>8. IsFiniteSet(Debt) /\ Cardinality(Debt) \in Nat /\ Cardinality(Debt) <= Interruptions
  BY FS_CardinalityType DEF DebtIsPaid
<1>9. IsFiniteSet(Debt') /\ Cardinality(Debt') <= Cardinality(Debt)
  BY <1>7, <1>8, SetExchange
<1>10. Cardinality(Debt') \in Nat
  BY <1>9, FS_CardinalityType
<1> QED BY <1>8, <1>9, <1>10 DEF DebtIsPaid, Free

-----------------------------------------------------------------------------
(* What every step has in common.                                          *)

LEMMA InterruptionsType == IInv => Interruptions \in Nat
<1> SUFFICES ASSUME IInv PROVE Interruptions \in Nat
  OBVIOUS
<1>1. count.stalls \in Nat /\ count.db \in Nat /\ count.partials \in Nat
  BY BoundsAssumption DEF IInv, TypeOK, Counts
<1>2. Crashed \in SUBSET Workers
  BY DEF Crashed
<1>3. IsFiniteSet(Crashed)
  BY <1>2, FS_Subset, WorkersAssumption
<1>4. Cardinality(Crashed) \in Nat
  BY <1>3, FS_CardinalityType
<1> QED BY <1>1, <1>4 DEF Interruptions

\* A worker that was not dead and is not dead leaves the crashes as they are.
LEMMA SameCrashed ==
    ASSUME NEW w, \A v \in Workers \ {w} : wk'[v] = wk[v],
           w \in Workers => wk[w].pc # "dead" /\ wk'[w].pc # "dead"
    PROVE  Crashed' = Crashed
BY DEF Crashed, Alive

LEMMA NothingSpent ==
    ASSUME IInv, IInv', count' = count, Crashed' = Crashed
    PROVE  Free
<1>1. Interruptions' = Interruptions
  BY DEF Interruptions
<1>2. Interruptions \in Nat
  BY InterruptionsType
<1> QED BY <1>1, <1>2 DEF Free

LEMMA OneSpent ==
    ASSUME IInv, IInv', Crashed' = Crashed,
           \/ count' = [count EXCEPT !.stalls = @ + 1]
           \/ count' = [count EXCEPT !.db = @ + 1]
           \/ count' = [count EXCEPT !.partials = @ + 1]
    PROVE  Paid
<1>1. /\ count \in Counts
      /\ count.stalls \in Nat /\ count.db \in Nat /\ count.partials \in Nat
  BY BoundsAssumption DEF IInv, TypeOK, Counts
<1>2. count'.stalls + count'.db + count'.partials = count.stalls + count.db + count.partials + 1
  BY <1>1 DEF Counts
<1>3. Interruptions \in Nat
  BY InterruptionsType
<1>4. Interruptions' = Interruptions + 1
  <2>1. Cardinality(Crashed) \in Nat
    <3>1. Crashed \in SUBSET Workers
      BY DEF Crashed
    <3>2. IsFiniteSet(Crashed)
      BY <3>1, FS_Subset, WorkersAssumption
    <3> QED BY <3>2, FS_CardinalityType
  <2>2. /\ count'.stalls \in Nat /\ count'.db \in Nat /\ count'.partials \in Nat
    BY BoundsAssumption DEF IInv, TypeOK, Counts
  <2> QED BY <1>1, <1>2, <2>1, <2>2 DEF Interruptions
<1> QED BY <1>3, <1>4 DEF Paid

LEMMA PaidIsFree == Paid => Free
BY DEF Paid, Free

\* Whose claims a write touches.
LEMMA OthersStep ==
    ASSUME IInv, NEW w, \A v \in Workers \ {w} : wk'[v] = wk[v],
           \A f \in Events :
              \/ /\ doc'[f].stage = doc[f].stage /\ doc'[f].owner = doc[f].owner
                 /\ doc'[f].stale = doc[f].stale
              \/ /\ doc'[f].owner \in {w, NoWorker}
                 /\ doc[f].owner \in {w, NoWorker} \/ doc[f].stale
    PROVE  Others(w)
<1> SUFFICES ASSUME NEW v \in Workers \ {w} PROVE Healthy(v)' <=> Healthy(v)
  BY DEF Others
<1>1. wk'[v] = wk[v] /\ (Busy(v)' <=> Busy(v))
  BY DEF Busy
<1>2. CASE ~Busy(v)
  BY <1>1, <1>2 DEF Healthy
<1>3. CASE Busy(v)
  <2>1. wk[v].ev \in Events /\ v # NoWorker
    BY <1>3, BusyFacts, WorkersAssumption
  <2> DEFINE f == wk[v].ev
  <2>2. CASE /\ doc'[f].stage = doc[f].stage /\ doc'[f].owner = doc[f].owner
             /\ doc'[f].stale = doc[f].stale
    BY <1>1, <2>2 DEF Healthy, Owned
  <2>3. CASE /\ doc'[f].owner \in {w, NoWorker}
             /\ doc[f].owner \in {w, NoWorker} \/ doc[f].stale
    BY <1>1, <2>1, <2>3 DEF Healthy, Owned
  <2> QED BY <2>1, <2>2, <2>3
<1> QED BY <1>2, <1>3

\* A cell that w has nothing to do with, or less than before.
Less(w, e, h) ==
    /\ Due(e, h)' => Due(e, h)
    /\ w \in Workers /\ Stray(w, e, h)' => Stray(w, e, h)
    /\ w \in Workers /\ Due(e, h)' /\ Recording(w, e, h) => Recording(w, e, h)'

LEMMA LessCell ==
    ASSUME IInv, IInv', NEW w, Others(w), NEW e \in Events, NEW h \in AllKeys,
           runs'[e][h] = runs[e][h], Less(w, e, h)
    PROVE  Part(w, e, h)' <= Part(w, e, h)
<1>1. Open(e, h)' => Open(e, h)
  BY OpenStep DEF Less
<1>2. runs[e][h] \in Nat /\ runs'[e][h] \in Nat
  BY DEF IInv, TypeOK
<1>3. One(Open(e, h)') <= One(Open(e, h)) /\ One(Open(e, h)') \in {0, 1} /\ One(Open(e, h)) \in {0, 1}
  BY <1>1 DEF One
<1> DEFINE a == One(w \in Workers /\ Stray(w, e, h))
           b == One(w \in Workers /\ Stray(w, e, h)')
<1>4. b <= a /\ a \in {0, 1} /\ b \in {0, 1}
  BY DEF Less, One
<1>5. Part(w, e, h) = runs[e][h] + a + One(Open(e, h))
      /\ Part(w, e, h)' = runs'[e][h] + b + One(Open(e, h)')
  BY DEF Part
<1> HIDE DEF a, b
<1> QED BY <1>2, <1>3, <1>4, <1>5

LEMMA LessIsQuiet ==
    ASSUME IInv, IInv', NEW w, Others(w), runs' = runs,
           \A e \in Events, h \in AllKeys : Less(w, e, h)
    PROVE  Quiet(w)
BY LessCell DEF Quiet

LEMMA LessElsewhere ==
    ASSUME IInv, IInv', NEW w, Others(w), NEW f \in Events, NEW g \in AllKeys,
           \A e \in Events, h \in AllKeys : e # f \/ h # g =>
               runs'[e][h] = runs[e][h] /\ Less(w, e, h)
    PROVE  \A e \in Events, h \in AllKeys : e # f \/ h # g =>
               Part(w, e, h)' <= Part(w, e, h)
BY LessCell

LEMMA AtMostOne ==
    ASSUME IInv, IInv', NEW w, Others(w), NEW f \in Events, NEW g \in AllKeys,
           \A e \in Events, h \in AllKeys : e # f \/ h # g =>
               runs'[e][h] = runs[e][h] /\ Less(w, e, h),
           Part(w, f, g)' <= Part(w, f, g) + 1
    PROVE  OneMore(w)
<1>1. \A e \in Events, h \in AllKeys : Part(w, e, h) \in Nat /\ Part(w, e, h)' \in Nat
  BY PartStep
<1>2. \A e \in Events, h \in AllKeys : e # f \/ h # g => Part(w, e, h)' <= Part(w, e, h)
  BY LessElsewhere
<1>3. ASSUME NEW e \in Events, NEW h \in AllKeys
      PROVE  Part(w, e, h)' <= Part(w, e, h) + One(e = f /\ h = g)
  <2>1. CASE e = f /\ h = g
    BY <2>1 DEF One
  <2>2. CASE ~(e = f /\ h = g)
    BY <1>1, <1>2, <2>2 DEF One
  <2> QED BY <2>1, <2>2
<1> QED BY <1>3 DEF OneMore

LEMMA NoMoreThere ==
    ASSUME IInv, IInv', NEW w, Others(w), NEW f \in Events, NEW g \in AllKeys,
           \A e \in Events, h \in AllKeys : e # f \/ h # g =>
               runs'[e][h] = runs[e][h] /\ Less(w, e, h),
           Part(w, f, g)' <= Part(w, f, g)
    PROVE  Quiet(w)
<1>1. ASSUME NEW e \in Events, NEW h \in AllKeys
      PROVE  Part(w, e, h)' <= Part(w, e, h)
  BY LessElsewhere
<1> QED BY <1>1 DEF Quiet

\* The rightful owner of an event is alone at it: what it is at is open until
\* it records that.
LEMMA OwnerHasOpen ==
    ASSUME IInv, NEW w \in Workers, NEW e \in Events, NEW h \in AllKeys,
           IsAt(w, e, h), Owned(w), wk[w].pc # "failing"
    PROVE  /\ Due(e, h)
           /\ Open(e, h) <=> ~Recording(w, e, h)
<1>1. Busy(w) /\ wk[w].ev = e /\ wk[w].done = doc[e].done /\ doc[e].owner = w
      /\ doc[e].stage = "stored"
  BY DEF IsAt, IInv, WorkerInv, Owned
<1>2. ~doc[e].processed
  BY <1>1, WorkersAssumption DEF IInv, EventInv
<1>3. h \in Keys(e) \ doc[e].done
  BY <1>1, FirstLeftIsLeft DEF IsAt, NoneLeft, Current
<1>4. \A v \in Workers : Recording(v, e, h) => v = w
  BY <1>1 DEF Recording, IsAt, Healthy, Owned
<1> QED BY <1>1, <1>2, <1>3, <1>4 DEF Due, Open

-----------------------------------------------------------------------------
(* Every action pays.  An action of the environment changes one document;  *)
(* its owner, if there is one, may lose the claim.                         *)

LEMMA SamePlace ==
    ASSUME NEW w, wk'[w] = wk[w]
    PROVE  /\ \A e, h : IsAt(w, e, h)' <=> IsAt(w, e, h)
           /\ MayRun(w)' <=> MayRun(w)
           /\ Busy(w)' <=> Busy(w)
BY DEF IsAt, MayRun, Busy, NoneLeft, Current

LEMMA PurgePays ==
    ASSUME IInv, IInv', DebtIsPaid, NEW e \in Events, Purge(e)
    PROVE  DebtIsPaid'
<1>0. PICK w : w = doc[e].owner
  OBVIOUS
<1>1. doc \in [Events -> Doc] /\ wk' = wk /\ runs' = runs /\ count' = count
  BY DEF Purge, IInv, TypeOK
<1>2. /\ doc'[e].stage = "purged" /\ doc'[e].owner = NoWorker
      /\ \A f \in Events \ {e} : doc'[f] = doc[f]
  BY <1>1 DEF Purge, NewDoc
<1>3. Others(w)
  BY <1>0, <1>1, <1>2, OthersStep
<1>4. Crashed' = Crashed
  BY <1>1 DEF Crashed, Alive
<1>5. Free
  BY <1>1, <1>4, NothingSpent
<1>6. ASSUME NEW f \in Events, NEW h \in AllKeys,
             ~(w \in Workers /\ IsAt(w, e, h) /\ MayRun(w) /\ Healthy(w) /\ f = e)
      PROVE  Less(w, f, h)
  <2>1. Due(f, h)' => Due(f, h) /\ f # e
    BY <1>2 DEF Due
  <2>2. w \in Workers /\ f # e /\ IsAt(w, f, h) => (Healthy(w)' <=> Healthy(w))
    BY <1>1, <1>2, SamePlace DEF Healthy, Owned, IsAt
  <2>3. w \in Workers /\ Stray(w, f, h)' => Stray(w, f, h)
    <3> SUFFICES ASSUME w \in Workers, Stray(w, f, h)' PROVE Stray(w, f, h)
      OBVIOUS
    <3>1. IsAt(w, f, h) /\ MayRun(w) /\ ~Healthy(w)'
      BY <1>1, SamePlace DEF Stray
    <3>2. f # e => ~Healthy(w)
      BY <2>2, <3>1
    <3>3. f = e => ~Healthy(w)
      BY <1>6, <3>1
    <3> QED BY <3>1, <3>2, <3>3 DEF Stray
  <2>4. w \in Workers /\ Due(f, h)' /\ Recording(w, f, h) => Recording(w, f, h)'
    BY <1>1, <2>1, <2>2, SamePlace DEF Recording
  <2> QED BY <2>1, <2>3, <2>4 DEF Less
<1>7. CASE \E h \in AllKeys : w \in Workers /\ IsAt(w, e, h) /\ MayRun(w) /\ Healthy(w)
  <2>1. PICK h \in AllKeys : w \in Workers /\ IsAt(w, e, h) /\ MayRun(w) /\ Healthy(w)
    BY <1>7
  <2>2. \A f \in Events, g \in AllKeys : f # e \/ g # h =>
          runs'[f][g] = runs[f][g] /\ Less(w, f, g)
    BY <1>1, <1>6, <2>1 DEF IsAt
  <2>3. Open(e, h) /\ ~Stray(w, e, h)
    BY <2>1, OwnerHasOpen DEF Healthy, MayRun, Recording, Stray
  <2>4. ~Open(e, h)'
    BY <1>2 DEF Open, Due
  <2>5. Part(w, e, h)' <= Part(w, e, h)
    <3>1. Part(w, e, h) = runs[e][h] + 1
      BY <2>3 DEF Part, One, IInv, TypeOK
    <3>2. Part(w, e, h)' = runs[e][h] + One(w \in Workers /\ Stray(w, e, h)')
      BY <1>1, <2>4 DEF Part, One, IInv, TypeOK
    <3>3. One(w \in Workers /\ Stray(w, e, h)') \in {0, 1}
      BY DEF One
    <3> QED BY <3>1, <3>2, <3>3 DEF IInv, TypeOK
  <2>6. Quiet(w)
    BY <1>3, <2>2, <2>5, NoMoreThere
  <2> QED BY <1>5, <2>6, QuietIsPaid
<1>8. CASE ~\E h \in AllKeys : w \in Workers /\ IsAt(w, e, h) /\ MayRun(w) /\ Healthy(w)
  <2>1. Quiet(w)
    BY <1>1, <1>3, <1>6, <1>8, LessIsQuiet
  <2> QED BY <1>5, <2>1, QuietIsPaid
<1> QED BY <1>7, <1>8

LEMMA ClaimExpiresPays ==
    ASSUME IInv, IInv', DebtIsPaid, NEW e \in Events, ClaimExpires(e)
    PROVE  DebtIsPaid'
<1>0. PICK w \in Workers : w = doc[e].owner
  BY DEF ClaimExpires, IInv, TypeOK, EventInv, Doc
<1>1. doc \in [Events -> Doc] /\ wk' = wk /\ runs' = runs
  BY DEF ClaimExpires, IInv, TypeOK, EventInv, Doc
<1>2. /\ doc'[e] = [doc[e] EXCEPT !.stale = TRUE]
      /\ \A f \in Events \ {e} : doc'[f] = doc[f]
  BY <1>1 DEF ClaimExpires
<1>3. doc'[e].stage = doc[e].stage /\ doc'[e].owner = w /\ doc[e].owner = w
      /\ doc'[e].processed = doc[e].processed /\ doc'[e].done = doc[e].done /\ doc'[e].stale
  BY <1>0, <1>1, <1>2 DEF Doc
<1>4. Others(w)
  BY <1>1, <1>2, <1>3, OthersStep
<1>5. Crashed' = Crashed
  BY <1>1 DEF Crashed, Alive
<1>6. \A f \in Events, h \in AllKeys : Due(f, h)' <=> Due(f, h)
  BY <1>2, <1>3 DEF Due
<1>7. wk[w].ev # e => (Healthy(w)' <=> Healthy(w))
  <2>1. Busy(w) => wk[w].ev \in Events
    BY <1>1, BusyFacts
  <2> QED BY <1>1, <1>2, <2>1, SamePlace DEF Healthy, Owned
<1>8. ASSUME NEW f \in Events, NEW h \in AllKeys, ~(IsAt(w, e, h) /\ f = e /\ Healthy(w))
      PROVE  Less(w, f, h)
  <2>1. IsAt(w, f, h) /\ Healthy(w) => Healthy(w)'
    BY <1>7, <1>8 DEF IsAt
  <2> QED BY <1>1, <1>6, <2>1, SamePlace DEF Less, Stray, Recording
<1>9. CASE ~(Busy(w) /\ wk[w].ev = e /\ Healthy(w))
  <2>1. Quiet(w)
    BY <1>1, <1>4, <1>8, <1>9, LessIsQuiet DEF IsAt
  <2>2. count' = count \/ count' = [count EXCEPT !.stalls = @ + 1]
    BY DEF ClaimExpires
  <2>3. Free
    BY <1>5, <2>2, NothingSpent, OneSpent, PaidIsFree
  <2> QED BY <2>1, <2>3, QuietIsPaid
<1>10. CASE Busy(w) /\ wk[w].ev = e /\ Healthy(w)
  <2>1. Renewing(e)
    BY <1>1, <1>10 DEF Renewing, Healthy, Owned
  <2>2. Paid
    BY <1>5, <2>1, OneSpent DEF ClaimExpires
  <2>3. CASE NoneLeft(w)
    <3>1. Quiet(w)
      BY <1>1, <1>4, <1>8, <2>3, LessIsQuiet DEF IsAt
    <3> QED BY <2>2, <3>1, PaidIsFree, QuietIsPaid
  <2>4. CASE ~NoneLeft(w)
    <3>1. PICK h \in AllKeys : h = Current(w)
      BY <1>10, <2>4, FirstLeftIsLeft DEF Current, NoneLeft
    <3>2. \A f \in Events, g \in AllKeys : f # e \/ g # h =>
            runs'[f][g] = runs[f][g] /\ Less(w, f, g)
      BY <1>1, <1>8, <3>1 DEF IsAt
    <3>3. Part(w, e, h)' <= Part(w, e, h) + 1
      <4>1. ~Stray(w, e, h) /\ (Stray(w, e, h)' => wk[w].pc \in {"handling", "dispatching"})
        BY <1>1, <1>10, SamePlace DEF Stray, MayRun
      <4>2. wk[w].pc \in {"handling", "dispatching"} => (Open(e, h)' => Open(e, h))
        <5>1. ASSUME wk[w].pc \in {"handling", "dispatching"} PROVE ~Recording(w, e, h)
          BY <5>1 DEF Recording
        <5> QED BY <1>4, <1>6, <5>1, OpenStep
      <4>3. runs[e][h] \in Nat /\ runs'[e][h] = runs[e][h]
        BY <1>1 DEF IInv, TypeOK
      <4>4. Part(w, e, h) = runs[e][h] + One(Open(e, h))
        BY <4>1, <4>3 DEF Part, One
      <4>5. CASE Stray(w, e, h)'
        <5>1. Part(w, e, h)' = runs[e][h] + 1 + One(Open(e, h)')
          BY <1>1, <4>3, <4>5 DEF Part, One
        <5> QED BY <4>1, <4>2, <4>3, <4>4, <4>5, <5>1 DEF One
      <4>6. CASE ~Stray(w, e, h)'
        <5>1. Part(w, e, h)' = runs[e][h] + One(Open(e, h)')
          BY <1>1, <4>3, <4>6 DEF Part, One
        <5> QED BY <4>3, <4>4, <5>1 DEF One
      <4> QED BY <4>5, <4>6
    <3>4. OneMore(w)
      BY <1>4, <3>2, <3>3, AtMostOne
    <3> QED BY <2>2, <3>4, OneMoreIsPaid
  <2> QED BY <2>3, <2>4
<1> QED BY <1>9, <1>10

LEMMA EnvironmentPays ==
    ASSUME IInv, IInv', DebtIsPaid, NEW e \in Events, Environment(e)
    PROVE  DebtIsPaid'
<1>1. CASE SaveEvent(e) \/ Requeue(e) \/ BackoffElapses(e)
  <2>1. doc \in [Events -> Doc] /\ wk' = wk /\ runs' = runs /\ doc[e] \in Doc /\ EventInv(e)
    BY <1>1 DEF SaveEvent, Requeue, BackoffElapses, IInv, TypeOK
  <2>2. count' = count \/ count' = [count EXCEPT !.requeues = @ + 1]
    BY <1>1 DEF SaveEvent, Requeue, BackoffElapses
  <2>3. /\ doc'[e].stage = "purged" <=> doc[e].stage = "purged"
        /\ doc'[e].processed = doc[e].processed /\ doc'[e].done = doc[e].done
        /\ \A f \in Events \ {e} : doc'[f] = doc[f]
    <3>1. CASE SaveEvent(e)
      BY <2>1, <3>1 DEF SaveEvent, Doc
    <3>2. CASE Requeue(e)
      BY <2>1, <3>2 DEF Requeue, Doc
    <3>3. CASE BackoffElapses(e)
      BY <2>1, <3>3 DEF BackoffElapses, Doc
    <3> QED BY <1>1, <3>1, <3>2, <3>3
  <2>4. \/ doc'[e].owner = NoWorker /\ doc[e].owner = NoWorker
        \/ /\ doc'[e].stage = doc[e].stage /\ doc'[e].owner = doc[e].owner
           /\ doc'[e].stale = doc[e].stale
    <3>1. CASE SaveEvent(e)
      BY <2>1, <3>1 DEF SaveEvent, Doc, EventInv
    <3>2. CASE Requeue(e)
      BY <2>1, <3>2 DEF Requeue, Doc, EventInv
    <3>3. CASE BackoffElapses(e)
      BY <2>1, <3>3 DEF BackoffElapses, Doc
    <3> QED BY <1>1, <3>1, <3>2, <3>3
  <2>5. Others(NoWorker)
    BY <2>1, <2>3, <2>4, OthersStep
  <2>6. Quiet(NoWorker)
    <3>1. \A f \in Events, h \in AllKeys : Due(f, h)' => Due(f, h)
      BY <2>3 DEF Due
    <3>2. \A f \in Events, h \in AllKeys : Less(NoWorker, f, h)
      BY <3>1, WorkersAssumption DEF Less
    <3> QED BY <2>1, <2>5, <3>2, LessIsQuiet
  <2>7. Crashed' = Crashed
    BY <2>1 DEF Crashed, Alive
  <2>8. /\ count'.stalls = count.stalls /\ count'.db = count.db
        /\ count'.partials = count.partials
    BY <2>2 DEF IInv, TypeOK, Counts
  <2>9. Free
    <3>1. Interruptions' = Interruptions
      BY <2>7, <2>8 DEF Interruptions
    <3> QED BY <3>1, InterruptionsType DEF Free
  <2> QED BY <2>6, <2>9, QuietIsPaid
<1> QED BY <1>1, PurgePays, ClaimExpiresPays DEF Environment

-----------------------------------------------------------------------------
(* The actions of a worker.                                                *)

LEMMA PartIs ==
    ASSUME IInv, IInv', NEW w \in Workers, NEW e \in Events, NEW h \in AllKeys
    PROVE  \E a, b, c, d \in {0, 1} :
              /\ (a = 1 <=> Stray(w, e, h)) /\ (b = 1 <=> Stray(w, e, h)')
              /\ (c = 1 <=> Open(e, h)) /\ (d = 1 <=> Open(e, h)')
              /\ Part(w, e, h) = runs[e][h] + a + c /\ runs[e][h] \in Nat
              /\ Part(w, e, h)' = runs'[e][h] + b + d /\ runs'[e][h] \in Nat
<1> DEFINE a == One(Stray(w, e, h))
           b == One(Stray(w, e, h)')
           c == One(Open(e, h))
           d == One(Open(e, h)')
<1>1. a \in {0, 1} /\ b \in {0, 1} /\ c \in {0, 1} /\ d \in {0, 1}
  BY DEF One
<1>2. /\ (a = 1 <=> Stray(w, e, h)) /\ (b = 1 <=> Stray(w, e, h)')
      /\ (c = 1 <=> Open(e, h)) /\ (d = 1 <=> Open(e, h)')
  BY DEF One
<1>3. Part(w, e, h) = runs[e][h] + a + c /\ Part(w, e, h)' = runs'[e][h] + b + d
  BY DEF Part, One
<1>4. runs[e][h] \in Nat /\ runs'[e][h] \in Nat
  BY DEF IInv, TypeOK
<1> HIDE DEF a, b, c, d
<1> QED BY <1>1, <1>2, <1>3, <1>4

\* Only the step of w itself, to another label of the dispatch.
LEMMA GotoPlace ==
    ASSUME IInv, NEW w \in Workers, Busy(w), NEW label \in Working, Goto(w, label)
    PROVE  /\ \A v \in Workers \ {w} : wk'[v] = wk[v]
           /\ wk'[w].pc = label /\ wk'[w].ev = wk[w].ev /\ wk'[w].done = wk[w].done
           /\ wk'[w].lost = wk[w].lost
           /\ \A e, h : IsAt(w, e, h)' <=> IsAt(w, e, h)
           /\ Crashed' = Crashed
<1>1. /\ \A v \in Workers \ {w} : wk'[v] = wk[v]
      /\ wk'[w].pc = label /\ wk'[w].ev = wk[w].ev /\ wk'[w].done = wk[w].done
      /\ wk'[w].lost = wk[w].lost
  BY DEF Goto, IInv, TypeOK, WorkerState
<1>2. \A e, h : IsAt(w, e, h)' <=> IsAt(w, e, h)
  BY <1>1 DEF IsAt, Busy, NoneLeft, Current
<1>3. Crashed' = Crashed
  BY <1>1, SameCrashed DEF Busy, Working
<1> QED BY <1>1, <1>2, <1>3

\* A cell that w is not at, and does not stray to.
LEMMA AwayIsLess ==
    ASSUME NEW w, NEW e, NEW h, ~IsAt(w, e, h), Due(e, h)' => Due(e, h), ~Stray(w, e, h)'
    PROVE  Less(w, e, h)
BY DEF Less, Recording

\* A worker that runs nothing any more, and was not about to record.
LEMMA NoStray ==
    ASSUME IInv, IInv', NEW w, Others(w), runs' = runs, ~MayRun(w)', wk[w].pc # "checkpointing",
           \A e \in Events, h \in AllKeys : Due(e, h)' => Due(e, h)
    PROVE  Quiet(w)
<1>1. \A e \in Events, h \in AllKeys : Less(w, e, h)
  BY DEF Less, Stray, Recording
<1> QED BY <1>1, LessIsQuiet

\* The handler a worker is at.
LEMMA Place ==
    ASSUME IInv, NEW w \in Workers, Busy(w), ~NoneLeft(w)
    PROVE  \E e \in Events, h \in AllKeys :
              /\ wk[w].ev = e /\ Current(w) = h /\ IsAt(w, e, h)
              /\ \A f, g : IsAt(w, f, g) <=> f = e /\ g = h
<1>1. wk[w].ev \in Events
  BY BusyFacts
<1>2. Current(w) \in AllKeys
  BY <1>1, FirstLeftIsLeft DEF NoneLeft, Current
<1>3. \A f, g : IsAt(w, f, g) <=> f = wk[w].ev /\ g = Current(w)
  BY DEF IsAt
<1> QED BY <1>1, <1>2, <1>3

LEMMA ClaimPays ==
    ASSUME IInv, IInv', DebtIsPaid, NEW w \in Workers, Claim(w) \/ ClaimFails(w)
    PROVE  DebtIsPaid'
<1>1. PICK e \in Events : Oldest(e) /\ SetClaim(e, w)
  BY DEF Claim, ClaimFails
<1>2. wk[w].pc = "idle" /\ runs' = runs
  BY DEF Claim, ClaimFails
<1>3. /\ doc[e].stage = "stored" /\ (doc[e].owner = NoWorker \/ doc[e].stale)
  BY <1>1 DEF Oldest, Claimable, IInv, EventInv
<1>4. /\ doc'[e].stage = doc[e].stage /\ doc'[e].owner = w /\ ~doc'[e].stale
      /\ doc'[e].processed = doc[e].processed /\ doc'[e].done = doc[e].done
      /\ \A f \in Events \ {e} : doc'[f] = doc[f]
  BY <1>1 DEF SetClaim, IInv, TypeOK, Doc
<1>5. \A v \in Workers \ {w} : wk'[v] = wk[v]
  BY DEF Claim, ClaimFails, IInv, TypeOK
<1>6. Others(w)
  BY <1>3, <1>4, <1>5, OthersStep
<1>7. \A f \in Events, g \in AllKeys : Due(f, g)' <=> Due(f, g)
  BY <1>4 DEF Due
<1>8. ~Busy(w)
  BY <1>2 DEF Busy, Working
<1>9. CASE Claim(w)
  <2>1. PICK f \in Events : /\ SetClaim(f, w)
                            /\ wk'[w] = [pc |-> "dispatching", ev |-> f, retries |-> doc[f].retries,
                                         done |-> doc[f].done, lost |-> FALSE]
                            /\ Oldest(f)
    BY <1>9 DEF Claim, IInv, TypeOK
  <2>2. doc[f].stage = "stored" /\ doc'[f].stage = "stored" /\ doc'[f].owner = w /\ ~doc'[f].stale
    BY <2>1 DEF SetClaim, IInv, TypeOK, Doc, Oldest, Claimable
  <2>3. Healthy(w)'
    BY <2>1, <2>2 DEF Healthy, Owned, Busy, Working
  <2>4. Quiet(w)
    <3>1. \A d \in Events, g \in AllKeys : Less(w, d, g)
      BY <1>7, <1>8, <2>3 DEF Less, Stray, Recording, IsAt
    <3> QED BY <1>2, <1>6, <3>1, LessIsQuiet
  <2>5. Crashed' = Crashed
    BY <1>2, <1>5, <2>1, SameCrashed
  <2>6. Free
    BY <1>9, <2>5, NothingSpent DEF Claim
  <2> QED BY <2>4, <2>6, QuietIsPaid
<1>10. CASE ClaimFails(w)
  <2>1. wk' = wk
    BY <1>10 DEF ClaimFails
  <2>2. Quiet(w)
    <3>1. ~MayRun(w)'
      BY <1>2, <2>1 DEF MayRun
    <3> QED BY <1>2, <1>6, <1>7, <3>1, NoStray
  <2>3. Paid
    BY <1>10, <2>1, OneSpent DEF ClaimFails, DbFault, Crashed, Alive
  <2> QED BY <2>2, <2>3, PaidIsFree, QuietIsPaid
<1> QED BY <1>9, <1>10

LEMMA DispatchPays ==
    ASSUME IInv, IInv', DebtIsPaid, NEW w \in Workers, Dispatch(w)
    PROVE  DebtIsPaid'
<1>1. wk[w].pc = "dispatching" /\ Busy(w) /\ doc' = doc /\ runs' = runs /\ count' = count
  BY DEF Dispatch, Busy, Working
<1>2. PICK label \in {"failing", "completing", "handling"} :
         Goto(w, label) /\ (label = "handling" => ~wk[w].lost)
  BY DEF Dispatch, Interrupted
<1>3. /\ \A v \in Workers \ {w} : wk'[v] = wk[v]
      /\ wk'[w].pc = label /\ wk'[w].ev = wk[w].ev /\ wk'[w].lost = wk[w].lost
      /\ \A e, h : IsAt(w, e, h)' <=> IsAt(w, e, h)
      /\ Crashed' = Crashed
  BY <1>1, <1>2, GotoPlace DEF Working
<1>4. Others(w)
  BY <1>1, <1>3, OthersStep
<1>5. Healthy(w)' <=> Healthy(w)
  BY <1>1, <1>2, <1>3 DEF Healthy, Owned, Busy, Working
<1>6. MayRun(w)' => MayRun(w)
  BY <1>1, <1>2, <1>3 DEF MayRun
<1>7. \A e \in Events, h \in AllKeys : Less(w, e, h)
  BY <1>1, <1>3, <1>5, <1>6 DEF Less, Stray, Recording, Due
<1>8. Quiet(w)
  BY <1>1, <1>4, <1>7, LessIsQuiet
<1> QED BY <1>1, <1>3, <1>8, NothingSpent, QuietIsPaid

\* What the effect of a handler does to the history.
LEMMA EffectAt ==
    ASSUME IInv, NEW w \in Workers, NEW e \in Events, NEW h \in AllKeys,
           wk[w].ev = e, Current(w) = h, Effect(w)
    PROVE  /\ runs'[e][h] = runs[e][h] + 1
           /\ \A f \in Events, g \in AllKeys : f # e \/ g # h => runs'[f][g] = runs[f][g]
BY DEF Effect, IInv, TypeOK

LEMMA HandlerReturnsPays ==
    ASSUME IInv, IInv', DebtIsPaid, NEW w \in Workers, HandlerReturns(w)
    PROVE  DebtIsPaid'
<1>1. /\ wk[w].pc = "handling" /\ Busy(w) /\ doc' = doc /\ count' = count /\ ~NoneLeft(w)
  BY DEF HandlerReturns, Busy, Working, IInv, WorkerInv
<1>2. PICK e \in Events, h \in AllKeys :
              /\ wk[w].ev = e /\ Current(w) = h /\ IsAt(w, e, h)
              /\ \A f, g : IsAt(w, f, g) <=> f = e /\ g = h
  BY <1>1, Place
<1>3. /\ runs'[e][h] = runs[e][h] + 1
      /\ \A f \in Events, g \in AllKeys : f # e \/ g # h => runs'[f][g] = runs[f][g]
  BY <1>2, EffectAt DEF HandlerReturns
<1>4. PICK label \in {"failing", "checkpointing"} :
         Goto(w, label) /\ (label = "failing" <=> wk[w].lost)
  BY DEF HandlerReturns
<1>5. /\ \A v \in Workers \ {w} : wk'[v] = wk[v]
      /\ wk'[w].pc = label /\ wk'[w].ev = wk[w].ev /\ wk'[w].lost = wk[w].lost
      /\ \A f, g : IsAt(w, f, g)' <=> IsAt(w, f, g)
      /\ Crashed' = Crashed
  BY <1>1, <1>4, GotoPlace DEF Working
<1>6. Others(w)
  BY <1>1, <1>5, OthersStep
<1>7. Healthy(w)' <=> Healthy(w)
  BY <1>1, <1>4, <1>5 DEF Healthy, Owned, Busy, Working
<1>8. \A f, g : Due(f, g)' <=> Due(f, g)
  BY <1>1 DEF Due
<1>9. MayRun(w) /\ ~MayRun(w)'
  BY <1>1, <1>4, <1>5 DEF MayRun
<1>10. \A f \in Events, g \in AllKeys : f # e \/ g # h =>
          runs'[f][g] = runs[f][g] /\ Less(w, f, g)
  BY <1>2, <1>3, <1>5, <1>8, AwayIsLess DEF Stray
<1>11. PICK a, b, c, d \in {0, 1} :
              /\ (a = 1 <=> Stray(w, e, h)) /\ (b = 1 <=> Stray(w, e, h)')
              /\ (c = 1 <=> Open(e, h)) /\ (d = 1 <=> Open(e, h)')
              /\ Part(w, e, h) = runs[e][h] + a + c /\ runs[e][h] \in Nat
              /\ Part(w, e, h)' = runs'[e][h] + b + d /\ runs'[e][h] \in Nat
  BY PartIs
<1>12. b = 0
  BY <1>9, <1>11 DEF Stray
<1>13. Part(w, e, h)' <= Part(w, e, h)
  <2>1. CASE Healthy(w)
    <3>1. Owned(w) /\ ~wk[w].lost
      BY <2>1 DEF Healthy
    <3>2. ~Recording(w, e, h)
      BY <1>1 DEF Recording
    <3>3. c = 1
      BY <1>1, <1>2, <1>11, <3>1, <3>2, OwnerHasOpen
    <3>4. Recording(w, e, h)'
      BY <1>2, <1>4, <1>5, <1>7, <2>1, <3>1 DEF Recording
    <3>5. d = 0
      BY <1>11, <3>4 DEF Open
    <3> QED BY <1>3, <1>11, <1>12, <3>3, <3>5
  <2>2. CASE ~Healthy(w)
    <3>1. a = 1
      BY <1>2, <1>9, <1>11, <2>2 DEF Stray
    <3>2. Open(e, h)' => Open(e, h)
      BY <1>1, <1>6, <1>8, OpenStep DEF Recording
    <3> QED BY <1>3, <1>11, <1>12, <3>1, <3>2
  <2> QED BY <2>1, <2>2
<1>14. Quiet(w)
  BY <1>6, <1>10, <1>13, NoMoreThere
<1> QED BY <1>1, <1>5, <1>14, NothingSpent, QuietIsPaid

LEMMA HandlerThrowsPays ==
    ASSUME IInv, IInv', DebtIsPaid, NEW w \in Workers, HandlerThrows(w)
    PROVE  DebtIsPaid'
<1>1. /\ wk[w].pc = "handling" /\ Busy(w) /\ doc' = doc /\ ~NoneLeft(w) /\ Goto(w, "failing")
  BY DEF HandlerThrows, Busy, Working, IInv, WorkerInv
<1>2. PICK e \in Events, h \in AllKeys :
              /\ wk[w].ev = e /\ Current(w) = h /\ IsAt(w, e, h)
              /\ \A f, g : IsAt(w, f, g) <=> f = e /\ g = h
  BY <1>1, Place
<1>3. /\ \A v \in Workers \ {w} : wk'[v] = wk[v]
      /\ wk'[w].pc = "failing" /\ Crashed' = Crashed
  BY <1>1, GotoPlace DEF Working
<1>4. Others(w)
  BY <1>1, <1>3, OthersStep
<1>5. \A f, g : Due(f, g)' <=> Due(f, g)
  BY <1>1 DEF Due
<1>6. ~MayRun(w)'
  BY <1>3 DEF MayRun
<1>7. CASE UNCHANGED <<runs, count>>
  <2>1. Quiet(w)
    BY <1>1, <1>4, <1>5, <1>6, <1>7, NoStray
  <2> QED BY <1>3, <1>7, <2>1, NothingSpent, QuietIsPaid
<1>8. CASE Effect(w) /\ count' = [count EXCEPT !.partials = @ + 1]
  <2>1. /\ runs'[e][h] = runs[e][h] + 1
        /\ \A f \in Events, g \in AllKeys : f # e \/ g # h => runs'[f][g] = runs[f][g]
    BY <1>2, <1>8, EffectAt
  <2>2. \A f \in Events, g \in AllKeys : f # e \/ g # h =>
            runs'[f][g] = runs[f][g] /\ Less(w, f, g)
    BY <1>2, <1>5, <1>6, <2>1, AwayIsLess DEF Stray
  <2>3. PICK a, b, c, d \in {0, 1} :
              /\ (a = 1 <=> Stray(w, e, h)) /\ (b = 1 <=> Stray(w, e, h)')
              /\ (c = 1 <=> Open(e, h)) /\ (d = 1 <=> Open(e, h)')
              /\ Part(w, e, h) = runs[e][h] + a + c /\ runs[e][h] \in Nat
              /\ Part(w, e, h)' = runs'[e][h] + b + d /\ runs'[e][h] \in Nat
    BY PartIs
  <2>4. b = 0
    BY <1>6, <2>3 DEF Stray
  <2>5. Open(e, h)' => Open(e, h)
    BY <1>1, <1>4, <1>5, OpenStep DEF Recording
  <2>6. Part(w, e, h)' <= Part(w, e, h) + 1
    BY <2>1, <2>3, <2>4, <2>5
  <2>7. OneMore(w)
    BY <1>4, <2>2, <2>6, AtMostOne
  <2> QED BY <1>3, <1>8, <2>7, OneSpent, OneMoreIsPaid
<1> QED BY <1>7, <1>8 DEF HandlerThrows

\* The owner records its handler and goes on.  If its claim has expired, the
\* effect it expected to repeat is recorded, and it may stray to the next one.
LEMMA CheckpointPays ==
    ASSUME IInv, IInv', DebtIsPaid, NEW w \in Workers, Checkpoint(w)
    PROVE  DebtIsPaid'
<1>1. /\ wk[w].pc = "checkpointing" /\ Busy(w) /\ ~NoneLeft(w)
      /\ runs' = runs /\ count' = count
      /\ runs[wk[w].ev][Current(w)] > 0
  BY DEF Checkpoint, Busy, Working, IInv, WorkerInv
<1>2. PICK e \in Events, h \in AllKeys :
              /\ wk[w].ev = e /\ Current(w) = h /\ IsAt(w, e, h)
              /\ \A f, g : IsAt(w, f, g) <=> f = e /\ g = h
  BY <1>1, Place
<1>3. ~MayRun(w)
  BY <1>1 DEF MayRun
<1>4. CASE Goto(w, "failing") /\ doc' = doc /\ ~Owned(w)
  <2>1. /\ \A v \in Workers \ {w} : wk'[v] = wk[v]
        /\ wk'[w].pc = "failing" /\ Crashed' = Crashed
    BY <1>1, <1>4, GotoPlace DEF Working
  <2>2. Others(w)
    BY <1>4, <2>1, OthersStep
  <2>3. ~MayRun(w)' /\ ~Healthy(w)
    BY <1>4, <2>1 DEF MayRun, Healthy
  <2>4. \A f \in Events, g \in AllKeys : Less(w, f, g)
    BY <1>4, <2>3 DEF Less, Stray, Recording, Due
  <2>5. Quiet(w)
    BY <1>1, <2>2, <2>4, LessIsQuiet
  <2> QED BY <1>1, <2>1, <2>5, NothingSpent, QuietIsPaid
<1>5. CASE Owned(w) /\ AddHandler(w) /\ wk' = [wk EXCEPT ![w] = Checkpointed(@, Current(w))]
  <2>1. /\ doc'[e].stage = doc[e].stage /\ doc'[e].owner = doc[e].owner
        /\ doc'[e].stale = doc[e].stale /\ doc'[e].processed = doc[e].processed
        /\ doc'[e].done = doc[e].done \cup {h}
        /\ \A f \in Events \ {e} : doc'[f] = doc[f]
    BY <1>2, <1>5 DEF AddHandler, IInv, TypeOK, Doc
  <2>2. /\ \A v \in Workers \ {w} : wk'[v] = wk[v]
        /\ wk'[w].pc = "dispatching" /\ wk'[w].ev = e /\ wk'[w].lost = wk[w].lost
        /\ wk'[w].done = wk[w].done \cup {h}
    BY <1>2, <1>5 DEF Checkpointed, IInv, TypeOK, WorkerState
  <2>3. Others(w)
    BY <2>1, <2>2, OthersStep
  <2>4. /\ ~Due(e, h)'
        /\ \A f \in Events, g \in AllKeys : Due(f, g)' => Due(f, g)
    BY <2>1 DEF Due
  <2>5. Busy(w)' /\ (Healthy(w)' <=> Healthy(w))
    BY <1>1, <1>2, <1>5, <2>1, <2>2 DEF Healthy, Owned, Busy, Working
  <2>6. Free
    <3>1. Crashed' = Crashed
      BY <1>1, <2>2, SameCrashed
    <3> QED BY <1>1, <3>1, NothingSpent
  <2>7. CASE Healthy(w) \/ wk[w].lost \/ NoneLeft(w)'
    <3>1. \A f, g : ~Stray(w, f, g)'
      BY <2>2, <2>5, <2>7 DEF Stray, MayRun, IsAt
    <3>2. \A f \in Events, g \in AllKeys : Less(w, f, g)
      BY <1>2, <2>4, <3>1 DEF Less, Recording
    <3>3. Quiet(w)
      BY <1>1, <2>3, <3>2, LessIsQuiet
    <3> QED BY <2>6, <3>3, QuietIsPaid
  <2>8. CASE ~Healthy(w) /\ ~wk[w].lost /\ ~NoneLeft(w)'
    <3>1. PICK i \in AllKeys : i = Current(w)' /\ i # h
      <4>1. Current(w)' = FirstLeft(e, wk[w].done \cup {h}) /\ Left(e, wk[w].done \cup {h}) # {}
        BY <2>2, <2>8 DEF Current, NoneLeft
      <4>2. Current(w)' \in AllKeys /\ Current(w)' # h
        BY <4>1, FirstLeftIsLeft
      <4> QED BY <4>2
    <3>2. \A f, g : Stray(w, f, g)' => f = e /\ g = i
      BY <2>2, <3>1 DEF Stray, IsAt
    <3>3. \A f, g : ~Stray(w, f, g) /\ ~Recording(w, f, g)
      BY <1>3, <2>8 DEF Stray, Recording
    <3>4. \A f \in Events, g \in AllKeys : Open(f, g)' => Open(f, g)
      BY <2>3, <2>4, <3>3, OpenStep
    <3>5. Part(w, e, h) = runs[e][h] + 1 /\ Part(w, e, h)' = runs[e][h] /\ Part(w, e, h) >= 2
      <4>1. PICK a, b, c, d \in {0, 1} :
              /\ (a = 1 <=> Stray(w, e, h)) /\ (b = 1 <=> Stray(w, e, h)')
              /\ (c = 1 <=> Open(e, h)) /\ (d = 1 <=> Open(e, h)')
              /\ Part(w, e, h) = runs[e][h] + a + c /\ runs[e][h] \in Nat
              /\ Part(w, e, h)' = runs'[e][h] + b + d /\ runs'[e][h] \in Nat
        BY PartIs
      <4>2. a = 0 /\ b = 0
        BY <3>1, <3>2, <3>3, <4>1
      <4>3. c = 1
        BY <1>1, <1>2, <1>5, <3>3, <4>1, OwnerHasOpen
      <4>4. d = 0
        BY <2>4, <4>1 DEF Open
      <4>5. runs[e][h] > 0
        BY <1>1, <1>2
      <4> QED BY <1>1, <4>1, <4>2, <4>3, <4>4, <4>5
    <3>6. Part(w, e, i)' <= Part(w, e, i) + 1
      <4>1. PICK a, b, c, d \in {0, 1} :
              /\ (a = 1 <=> Stray(w, e, i)) /\ (b = 1 <=> Stray(w, e, i)')
              /\ (c = 1 <=> Open(e, i)) /\ (d = 1 <=> Open(e, i)')
              /\ Part(w, e, i) = runs[e][i] + a + c /\ runs[e][i] \in Nat
              /\ Part(w, e, i)' = runs'[e][i] + b + d /\ runs'[e][i] \in Nat
        BY PartIs
      <4>2. d = 1 => c = 1
        BY <3>4, <4>1
      <4> QED BY <1>1, <4>1, <4>2
    <3>7. \A f \in Events, g \in AllKeys : ~(f = e /\ g = i) => Less(w, f, g)
      BY <2>4, <3>2, <3>3 DEF Less
    <3>8. ASSUME NEW f \in Events, NEW g \in AllKeys
          PROVE  Part(w, f, g)' <= Part(w, f, g) + One(f = e /\ g = i) - One(f = e /\ g = h)
      <4>1. Part(w, f, g) \in Nat /\ Part(w, f, g)' \in Nat
        BY <2>3, PartStep
      <4>2. CASE f = e /\ g = h
        <5>1. runs[e][h] \in Nat
          BY DEF IInv, TypeOK
        <5>2. One(f = e /\ g = i) = 0 /\ One(f = e /\ g = h) = 1
          BY <3>1, <4>2 DEF One
        <5> QED BY <3>5, <4>1, <4>2, <5>1, <5>2
      <4>3. CASE f = e /\ g = i
        <5>1. One(f = e /\ g = i) = 1 /\ One(f = e /\ g = h) = 0
          BY <3>1, <4>3 DEF One
        <5> QED BY <3>6, <4>1, <4>3, <5>1
      <4>4. CASE ~(f = e /\ g = h) /\ ~(f = e /\ g = i)
        <5>1. One(f = e /\ g = i) = 0 /\ One(f = e /\ g = h) = 0
          BY <4>4 DEF One
        <5>2. Part(w, f, g)' <= Part(w, f, g)
          BY <1>1, <2>3, <3>7, <4>4, LessCell
        <5> QED BY <4>1, <5>1, <5>2
      <4> QED BY <4>2, <4>3, <4>4
    <3>9. Balanced(w)
      BY <2>3, <3>1, <3>5, <3>8 DEF Balanced
    <3> QED BY <2>6, <3>9, BalancedIsPaid
  <2> QED BY <2>7, <2>8
<1>6. Owned(w) => Current(w) \notin doc[wk[w].ev].done
  <2>1. ASSUME Owned(w) PROVE Current(w) \notin doc[wk[w].ev].done
    <3>1. wk[w].done = doc[wk[w].ev].done
      BY <1>1, <2>1 DEF IInv, WorkerInv
    <3> QED BY <1>1, <1>2, <3>1, FirstLeftIsLeft DEF NoneLeft, Current
  <2> QED BY <2>1
<1> QED BY <1>4, <1>5, <1>6 DEF Checkpoint

LEMMA CheckpointFailsPays ==
    ASSUME IInv, IInv', DebtIsPaid, NEW w \in Workers, CheckpointFails(w)
    PROVE  DebtIsPaid'
<1>1. /\ wk[w].pc = "checkpointing" /\ Busy(w) /\ ~NoneLeft(w) /\ Goto(w, "failing")
      /\ runs' = runs /\ count' = [count EXCEPT !.db = @ + 1]
      /\ AddHandler(w) \/ doc' = doc
  BY DEF CheckpointFails, DbFault, Busy, Working, IInv, WorkerInv
<1>2. PICK e \in Events, h \in AllKeys :
              /\ wk[w].ev = e /\ Current(w) = h /\ IsAt(w, e, h)
              /\ \A f, g : IsAt(w, f, g) <=> f = e /\ g = h
  BY <1>1, Place
<1>3. /\ \A v \in Workers \ {w} : wk'[v] = wk[v]
      /\ wk'[w].pc = "failing" /\ Crashed' = Crashed
  BY <1>1, GotoPlace DEF Working
<1>4. \A f \in Events :
        /\ doc'[f].stage = doc[f].stage /\ doc'[f].owner = doc[f].owner
        /\ doc'[f].stale = doc[f].stale /\ doc'[f].processed = doc[f].processed
        /\ doc[f].done \subseteq doc'[f].done
  BY <1>1, <1>2 DEF AddHandler, IInv, TypeOK, Doc
<1>5. Others(w)
  BY <1>3, <1>4, OthersStep
<1>6. \A f \in Events, g \in AllKeys : Due(f, g)' => Due(f, g)
  BY <1>4 DEF Due
<1>7. \A f, g : ~Stray(w, f, g)'
  BY <1>3 DEF MayRun, Stray
<1>8. \A f \in Events, g \in AllKeys : f # e \/ g # h =>
          runs'[f][g] = runs[f][g] /\ Less(w, f, g)
  BY <1>1, <1>2, <1>6, <1>7, AwayIsLess
<1>9. PICK a, b, c, d \in {0, 1} :
              /\ (a = 1 <=> Stray(w, e, h)) /\ (b = 1 <=> Stray(w, e, h)')
              /\ (c = 1 <=> Open(e, h)) /\ (d = 1 <=> Open(e, h)')
              /\ Part(w, e, h) = runs[e][h] + a + c /\ runs[e][h] \in Nat
              /\ Part(w, e, h)' = runs'[e][h] + b + d /\ runs'[e][h] \in Nat
  BY PartIs
<1>10. b = 0
  BY <1>7, <1>9
<1>11. Part(w, e, h)' <= Part(w, e, h) + 1
  BY <1>1, <1>9, <1>10
<1>12. OneMore(w)
  BY <1>5, <1>8, <1>11, AtMostOne
<1> QED BY <1>1, <1>3, <1>12, OneSpent, OneMoreIsPaid

\* The last request of a dispatch: whatever it does, the worker is at no
\* handler any more, and nothing becomes due.
LEMMA LastRequestPays ==
    ASSUME IInv, IInv', DebtIsPaid, NEW w \in Workers,
           Complete(w) \/ CompleteFails(w) \/ Fail(w) \/ FailFails(w)
    PROVE  DebtIsPaid'
<1>1. wk[w].pc \in {"completing", "failing"} /\ Busy(w) /\ runs' = runs
  BY DEF Complete, CompleteFails, Fail, FailFails, Busy, Working
<1>2. wk' = [wk EXCEPT ![w] = Idle] \/ Goto(w, "failing")
  BY DEF Complete, CompleteFails, Fail, FailFails
<1>3. /\ \A v \in Workers \ {w} : wk'[v] = wk[v]
      /\ wk'[w].pc \in {"idle", "failing"}
  BY <1>2 DEF Goto, Idle, IInv, TypeOK, WorkerState
<1>4. PICK e \in Events : e = wk[w].ev
  BY <1>1, BusyFacts
<1>5. doc' = doc \/ (doc[e].owner = w /\ (SetProcessed(w) \/ SetFailed(w)))
  BY <1>4 DEF Complete, CompleteFails, Fail, FailFails, Owned
<1>6. \/ doc' = doc
      \/ /\ doc[e].owner = w /\ doc'[e].owner = NoWorker
         /\ \A f \in Events \ {e} : doc'[f] = doc[f]
         /\ doc'[e].stage = doc[e].stage /\ doc'[e].done = doc[e].done
         /\ doc[e].processed => doc'[e].processed
  <2>1. doc \in [Events -> Doc]
    BY DEF IInv, TypeOK
  <2>2. CASE doc[e].owner = w /\ SetProcessed(w)
    BY <1>4, <2>1, <2>2 DEF SetProcessed, Doc
  <2>3. CASE doc[e].owner = w /\ SetFailed(w)
    <3>1. PICK exhausted \in BOOLEAN : doc' = [doc EXCEPT ![e] = FailedDoc(@, exhausted)]
      BY <1>4, <2>3 DEF SetFailed
    <3> QED BY <2>1, <2>3, <3>1 DEF FailedDoc, Doc
  <2> QED BY <1>5, <2>2, <2>3
<1>7. Others(w)
  BY <1>3, <1>6, OthersStep
<1>8. \A f \in Events, g \in AllKeys : Due(f, g)' => Due(f, g)
  BY <1>6 DEF Due
<1>9. ~MayRun(w)'
  BY <1>3 DEF MayRun
<1>10. Quiet(w)
  BY <1>1, <1>7, <1>8, <1>9, NoStray
<1>11. Crashed' = Crashed
  BY <1>1, <1>3, SameCrashed
<1>12. count' = count \/ count' = [count EXCEPT !.db = @ + 1]
  BY DEF Complete, CompleteFails, Fail, FailFails, DbFault
<1> QED BY <1>10, <1>11, <1>12, NothingSpent, OneSpent, PaidIsFree, QuietIsPaid

LEMMA RenewPays ==
    ASSUME IInv, IInv', DebtIsPaid, NEW w \in Workers, Renew(w)
    PROVE  DebtIsPaid'
<1>1. Busy(w) /\ ~wk[w].lost /\ runs' = runs /\ count' = count
  BY DEF Renew
<1>2. PICK e \in Events : e = wk[w].ev
  BY <1>1, BusyFacts
<1>3. CASE Owned(w) /\ doc' = [doc EXCEPT ![e].stale = FALSE] /\ wk' = wk
  <2>1. /\ \A f \in Events :
              /\ doc'[f].stage = doc[f].stage /\ doc'[f].owner = doc[f].owner
              /\ doc'[f].processed = doc[f].processed /\ doc'[f].done = doc[f].done
        /\ \A f \in Events \ {e} : doc'[f] = doc[f]
        /\ ~doc'[e].stale /\ doc[e].owner = w
    BY <1>2, <1>3 DEF Owned, IInv, TypeOK, Doc
  <2>2. Others(w)
    BY <1>3, <2>1, OthersStep
  <2>3. Healthy(w)'
    BY <1>1, <1>2, <1>3, <2>1 DEF Healthy, Owned, Busy
  <2>4. \A f \in Events, g \in AllKeys : Due(f, g)' <=> Due(f, g)
    BY <2>1 DEF Due
  <2>5. \A f \in Events, g \in AllKeys : Less(w, f, g)
    <3>1. \A f, g : IsAt(w, f, g)' <=> IsAt(w, f, g)
      BY <1>3, SamePlace
    <3> QED BY <1>3, <2>3, <2>4, <3>1 DEF Less, Stray, Recording
  <2>6. Quiet(w)
    BY <1>1, <2>2, <2>5, LessIsQuiet
  <2>7. Crashed' = Crashed
    BY <1>3 DEF Crashed, Alive
  <2> QED BY <1>1, <2>6, <2>7, NothingSpent, QuietIsPaid
<1>4. CASE ~Owned(w) /\ doc' = doc /\ wk' = [wk EXCEPT ![w].lost = TRUE]
  <2>1. /\ \A v \in Workers \ {w} : wk'[v] = wk[v]
        /\ wk'[w].pc = wk[w].pc /\ wk'[w].ev = wk[w].ev /\ wk'[w].done = wk[w].done
        /\ wk'[w].lost
    BY <1>4 DEF IInv, TypeOK, WorkerState
  <2>2. Others(w)
    BY <1>4, <2>1, OthersStep
  <2>3. /\ \A f, g : IsAt(w, f, g)' <=> IsAt(w, f, g)
        /\ MayRun(w)' => MayRun(w)
    BY <1>1, <2>1 DEF IsAt, MayRun, Busy, NoneLeft, Current
  <2>4. ~Healthy(w)
    BY <1>4 DEF Healthy
  <2>5. \A f \in Events, g \in AllKeys : Less(w, f, g)
    BY <1>4, <2>3, <2>4 DEF Less, Stray, Recording, Due
  <2>6. Quiet(w)
    BY <1>1, <2>2, <2>5, LessIsQuiet
  <2>7. Crashed' = Crashed
    BY <1>1, <2>1, SameCrashed DEF Busy, Working
  <2> QED BY <1>1, <2>6, <2>7, NothingSpent, QuietIsPaid
<1>5. Owned(w) => doc[wk[w].ev].processing
  BY <1>2, WorkersAssumption DEF Owned, IInv, EventInv
<1> QED BY <1>2, <1>3, <1>4, <1>5 DEF Renew

LEMMA RenewFailsPays ==
    ASSUME IInv, IInv', DebtIsPaid, NEW w \in Workers, RenewFails(w)
    PROVE  DebtIsPaid'
<1>1. Busy(w) /\ ~wk[w].lost /\ runs' = runs /\ count' = [count EXCEPT !.db = @ + 1]
  BY DEF RenewFails, DbFault
<1>2. /\ \A v \in Workers \ {w} : wk'[v] = wk[v]
      /\ wk'[w].pc = wk[w].pc /\ wk'[w].ev = wk[w].ev /\ wk'[w].done = wk[w].done
  BY DEF RenewFails, IInv, TypeOK, WorkerState
<1>3. PICK k \in Events : k = wk[w].ev
  BY <1>1, BusyFacts
<1>4. \/ doc' = doc
      \/ /\ doc[k].owner = w /\ doc'[k].owner = w
         /\ doc'[k].stage = doc[k].stage
         /\ doc'[k].processed = doc[k].processed /\ doc'[k].done = doc[k].done
         /\ \A f \in Events \ {k} : doc'[f] = doc[f]
  BY <1>3 DEF RenewFails, Owned, IInv, TypeOK, Doc
<1>5. Others(w)
  BY <1>2, <1>4, OthersStep
<1>6. \A f \in Events, g \in AllKeys : Due(f, g)' <=> Due(f, g)
  BY <1>4 DEF Due
<1>7. Paid
  <2>1. Crashed' = Crashed
    BY <1>1, <1>2, SameCrashed DEF Busy, Working
  <2> QED BY <1>1, <2>1, OneSpent
<1>8. \A f, g : IsAt(w, f, g)' <=> IsAt(w, f, g)
  BY <1>2 DEF IsAt, Busy, NoneLeft, Current
<1>9. CASE NoneLeft(w)
  <2>1. \A f, g : ~IsAt(w, f, g) /\ ~IsAt(w, f, g)'
    BY <1>8, <1>9 DEF IsAt
  <2>2. \A f \in Events, g \in AllKeys : Less(w, f, g)
    BY <1>6, <2>1 DEF Less, Stray, Recording
  <2>3. Quiet(w)
    BY <1>1, <1>5, <2>2, LessIsQuiet
  <2> QED BY <1>7, <2>3, PaidIsFree, QuietIsPaid
<1>10. CASE ~NoneLeft(w)
  <2>1. PICK e \in Events, h \in AllKeys :
              /\ wk[w].ev = e /\ Current(w) = h /\ IsAt(w, e, h)
              /\ \A f, g : IsAt(w, f, g) <=> f = e /\ g = h
    BY <1>1, <1>10, Place
  <2>2. \A f \in Events, g \in AllKeys : f # e \/ g # h =>
            runs'[f][g] = runs[f][g] /\ Less(w, f, g)
    BY <1>1, <1>6, <1>8, <2>1, AwayIsLess DEF Stray
  <2>3. PICK a, b, c, d \in {0, 1} :
              /\ (a = 1 <=> Stray(w, e, h)) /\ (b = 1 <=> Stray(w, e, h)')
              /\ (c = 1 <=> Open(e, h)) /\ (d = 1 <=> Open(e, h)')
              /\ Part(w, e, h) = runs[e][h] + a + c /\ runs[e][h] \in Nat
              /\ Part(w, e, h)' = runs'[e][h] + b + d /\ runs'[e][h] \in Nat
    BY PartIs
  <2>4. Part(w, e, h)' <= Part(w, e, h) + 1
    <3>1. CASE wk[w].pc = "checkpointing"
      <4>1. b = 0
        BY <1>2, <2>3, <3>1 DEF Stray, MayRun
      <4> QED BY <1>1, <2>3, <4>1
    <3>2. CASE wk[w].pc # "checkpointing"
      <4>1. Open(e, h)' => Open(e, h)
        BY <1>5, <1>6, <3>2, OpenStep DEF Recording
      <4>2. d = 1 => c = 1
        BY <2>3, <4>1
      <4> QED BY <1>1, <2>3, <4>2
    <3> QED BY <3>1, <3>2
  <2>5. OneMore(w)
    BY <1>5, <2>2, <2>4, AtMostOne
  <2> QED BY <1>7, <2>5, OneMoreIsPaid
<1> QED BY <1>9, <1>10

LEMMA CrashPays ==
    ASSUME IInv, IInv', DebtIsPaid, NEW w \in Workers, Crash(w)
    PROVE  DebtIsPaid'
<1>1. /\ wk[w].pc # "dead" /\ wk'[w] = Dead /\ doc' = doc /\ count' = count
      /\ \A v \in Workers \ {w} : wk'[v] = wk[v]
  BY DEF Crash, Alive, IInv, TypeOK
<1>2. wk'[w].pc = "dead" /\ ~MayRun(w)'
  BY <1>1 DEF Dead, Idle, MayRun
<1>3. Others(w)
  BY <1>1, OthersStep
<1>4. \A f, g : Due(f, g)' <=> Due(f, g)
  BY <1>1 DEF Due
<1>5. Paid
  <2>1. Crashed' = Crashed \cup {w} /\ w \notin Crashed /\ Crashed \in SUBSET Workers
    BY <1>1, <1>2 DEF Crashed, Alive
  <2>2. IsFiniteSet(Crashed)
    BY <2>1, FS_Subset, WorkersAssumption
  <2>3. Cardinality(Crashed') = Cardinality(Crashed) + 1 /\ Cardinality(Crashed) \in Nat
    BY <2>1, <2>2, FS_AddElement, FS_CardinalityType
  <2>4. count.stalls \in Nat /\ count.db \in Nat /\ count.partials \in Nat
    BY BoundsAssumption DEF IInv, TypeOK, Counts
  <2>5. Interruptions' = Interruptions + 1
    BY <1>1, <2>3, <2>4 DEF Interruptions
  <2> QED BY <2>5, InterruptionsType DEF Paid
<1>6. CASE runs' = runs /\ wk[w].pc # "checkpointing"
  <2>1. Quiet(w)
    BY <1>2, <1>3, <1>4, <1>6, NoStray
  <2> QED BY <1>5, <2>1, PaidIsFree, QuietIsPaid
<1>7. CASE wk[w].pc \in {"handling", "checkpointing"}
           /\ (runs' = runs \/ (wk[w].pc = "handling" /\ Effect(w)))
  <2>1. Busy(w) /\ ~NoneLeft(w)
    BY <1>7 DEF Busy, Working, IInv, WorkerInv
  <2>2. PICK e \in Events, h \in AllKeys :
              /\ wk[w].ev = e /\ Current(w) = h /\ IsAt(w, e, h)
              /\ \A f, g : IsAt(w, f, g) <=> f = e /\ g = h
    BY <2>1, Place
  <2>3. /\ runs'[e][h] \in {runs[e][h], runs[e][h] + 1}
        /\ wk[w].pc = "checkpointing" => runs'[e][h] = runs[e][h]
        /\ \A f \in Events, g \in AllKeys : f # e \/ g # h => runs'[f][g] = runs[f][g]
    BY <1>7, <2>2, EffectAt
  <2>4. \A f \in Events, g \in AllKeys : f # e \/ g # h =>
            runs'[f][g] = runs[f][g] /\ Less(w, f, g)
    BY <1>2, <1>4, <2>2, <2>3, AwayIsLess DEF Stray
  <2>5. PICK a, b, c, d \in {0, 1} :
              /\ (a = 1 <=> Stray(w, e, h)) /\ (b = 1 <=> Stray(w, e, h)')
              /\ (c = 1 <=> Open(e, h)) /\ (d = 1 <=> Open(e, h)')
              /\ Part(w, e, h) = runs[e][h] + a + c /\ runs[e][h] \in Nat
              /\ Part(w, e, h)' = runs'[e][h] + b + d /\ runs'[e][h] \in Nat
    BY PartIs
  <2>6. b = 0
    BY <1>2, <2>5 DEF Stray
  <2>7. Part(w, e, h)' <= Part(w, e, h) + 1
    <3>1. CASE wk[w].pc = "checkpointing"
      BY <2>3, <2>5, <2>6, <3>1
    <3>2. CASE wk[w].pc # "checkpointing"
      <4>1. Open(e, h)' => Open(e, h)
        BY <1>3, <1>4, <3>2, OpenStep DEF Recording
      <4>2. d = 1 => c = 1
        BY <2>5, <4>1
      <4> QED BY <2>3, <2>5, <2>6, <4>2
    <3> QED BY <3>1, <3>2
  <2>8. OneMore(w)
    BY <1>3, <2>4, <2>7, AtMostOne
  <2> QED BY <1>5, <2>8, OneMoreIsPaid
<1> QED BY <1>6, <1>7 DEF Crash

LEMMA NextPays ==
    ASSUME IInv, IInv', DebtIsPaid, [Next]_vars
    PROVE  DebtIsPaid'
<1>1. ASSUME NEW w \in Workers, Worker(w) PROVE DebtIsPaid'
  BY <1>1, ClaimPays, DispatchPays, HandlerReturnsPays, HandlerThrowsPays, CheckpointPays,
     CheckpointFailsPays, LastRequestPays, RenewPays, RenewFailsPays, CrashPays
     DEF Worker, Step
<1>2. ASSUME NEW e \in Events, Environment(e) PROVE DebtIsPaid'
  BY <1>2, EnvironmentPays
<1>3. CASE vars' = vars
  <2>1. doc' = doc /\ wk' = wk /\ runs' = runs /\ count' = count
    BY <1>3 DEF vars
  <2>2. Others(NoWorker)
    BY <2>1, OthersStep
  <2>3. \A e \in Events, h \in AllKeys : Less(NoWorker, e, h)
    BY <2>1, WorkersAssumption DEF Less, Due
  <2>4. Crashed' = Crashed
    BY <2>1 DEF Crashed, Alive
  <2> QED BY <2>1, <2>2, <2>3, <2>4, LessIsQuiet, NothingSpent, QuietIsPaid
<1> QED BY <1>1, <1>2, <1>3 DEF Next

\* Nothing has run, and one effect at most is expected of each handler.
LEMMA InitPaid == Init => DebtIsPaid
<1> SUFFICES ASSUME Init PROVE DebtIsPaid
  OBVIOUS
<1>1. IInv
  BY InitInv
<1>2. ASSUME NEW e \in Events, NEW h \in AllKeys
      PROVE  Expected(e, h) \in {0, 1}
  <2>1. {w \in Workers : Stray(w, e, h)} = {}
    BY DEF Init, Idle, Stray, IsAt, Busy, Working
  <2>2. Cardinality({w \in Workers : Stray(w, e, h)}) = 0
    BY <2>1, FS_EmptySet
  <2>3. runs[e][h] = 0
    BY DEF Init
  <2> QED BY <2>2, <2>3 DEF Expected, One
<1>3. Debt = {}
  <2>1. ASSUME NEW x \in Debt PROVE FALSE
    <3> DEFINE n == [e \in Events |-> [h \in AllKeys |-> Expected(e, h)]]
    <3>1. x \in Beyond(n)
      BY DEF Debt
    <3>2. PICK e \in Events, h \in AllKeys : \E k \in 2 .. n[e][h] : x = <<e, h, k>>
      BY <3>1, InBeyond
    <3>3. n[e][h] \in {0, 1}
      BY <1>2
    <3> QED BY <3>2, <3>3
  <2> QED BY <2>1
<1>4. IsFiniteSet(Debt) /\ Cardinality(Debt) = 0
  BY <1>3, FS_EmptySet
<1> QED BY <1>1, <1>4, InterruptionsType DEF DebtIsPaid

\* What has happened is part of what has happened or is to be expected.
LEMMA PaidMeansPaid == IInv /\ DebtIsPaid => DuplicatesArePaidFor
<1> SUFFICES ASSUME IInv, DebtIsPaid PROVE DuplicatesArePaidFor
  OBVIOUS
<1> DEFINE n == [e \in Events |-> [h \in AllKeys |-> Expected(e, h)]]
<1>1. ASSUME NEW e \in Events, NEW h \in AllKeys
      PROVE  runs[e][h] \in Nat /\ n[e][h] \in Nat /\ runs[e][h] <= n[e][h]
  <2> DEFINE S == {w \in Workers : Stray(w, e, h)}
  <2>1. S \in SUBSET Workers
    OBVIOUS
  <2>2. IsFiniteSet(S)
    BY <2>1, FS_Subset, WorkersAssumption
  <2>3. Cardinality(S) \in Nat
    BY <2>2, FS_CardinalityType
  <2>4. runs[e][h] \in Nat
    BY DEF IInv, TypeOK
  <2>5. n[e][h] = runs[e][h] + Cardinality(S) + One(Open(e, h))
    BY DEF Expected
  <2>6. One(Open(e, h)) \in {0, 1}
    BY DEF One
  <2> HIDE DEF S, n
  <2> QED BY <2>3, <2>4, <2>5, <2>6
<1>2. Repeats \subseteq Debt
  <2>1. runs \in [Events -> [AllKeys -> Nat]] /\ n \in [Events -> [AllKeys -> Nat]]
    BY <1>1 DEF IInv, TypeOK
  <2>2. \A f \in Events, g \in AllKeys :
           runs[f][g] <= n[f][g] + (IF f = 0 /\ g = 0 THEN 0 ELSE 0)
    BY <1>1
  <2>3. Debt = Beyond(n)
    BY DEF Debt
  <2> HIDE DEF n
  <2> QED BY <2>1, <2>2, <2>3, BeyondGrows DEF Repeats
<1>3. IsFiniteSet(Debt) /\ Cardinality(Debt) \in Nat /\ Cardinality(Debt) <= Interruptions
  BY FS_CardinalityType DEF DebtIsPaid
<1>4. IsFiniteSet(Repeats) /\ Cardinality(Repeats) <= Cardinality(Debt)
  BY <1>2, <1>3, FS_Subset
<1>5. Cardinality(Repeats) \in Nat /\ Interruptions \in Nat
  BY <1>4, FS_CardinalityType, InterruptionsType
<1> QED BY <1>3, <1>4, <1>5 DEF DuplicatesArePaidFor

\* Exactly once but for the interruptions: a handler of an event takes effect
\* once, and once more for every stalled claim, failed request, handler that
\* threw after its effect and crash there has been, never more often.
THEOREM DuplicatesPaid == Spec => []DuplicatesArePaidFor
<1>1. IInv /\ IInv' /\ DebtIsPaid /\ [Next]_vars => DebtIsPaid'
  BY NextPays
<1> QED BY <1>1, InitPaid, PaidMeansPaid, Invariance, PTL DEF Spec
=============================================================================
