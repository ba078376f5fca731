-------------------------- MODULE TransactionQueue --------------------------
(***************************************************************************)
(* The queue of deferred jobs (TransactionQueueService).  A job is pushed  *)
(* to a list in Redis; the loop of any server pops it, runs its handler    *)
(* and pushes it back when that fails and attempts are left.  A popped job *)
(* is in no list: until its handler ends it exists in the memory of one    *)
(* process.  Nothing but a push starts the loop of a server.               *)
(*                                                                         *)
(* There is one list per priority; the only caller uses one of them.       *)
(* Nobody but tests stops a loop on purpose, and a loop only runs in a     *)
(* process that has pushed, which has the handler of the job.              *)
(***************************************************************************)
EXTENDS Integers, Sequences, FiniteSets

CONSTANTS
    Servers,        \* processes with a queue service
    Jobs,           \* jobs, each queued at most once
    MaxAttempts,    \* runs of a job before it is given up
    NoJob           \* the loop holds none

ASSUME AttemptsAssumption == MaxAttempts \in Nat \ {0}

ASSUME NoJobAssumption == NoJob \notin [job : Jobs, attempts : 1 .. MaxAttempts]

VARIABLES
    calls,          \* calls[w]: jobs that requests of w are about to hand over
    starts,         \* starts[w]: some push of w has yet to call startProcessing
    mode,           \* mode[w]: startupPromise and isProcessing of w
    loops,          \* servers whose processLoop is running
    waiting,        \* the list, its right end popped first
    hand,           \* hand[w]: the job the loop of w has popped, or NoJob
    pushed,         \* jobs that were ever pushed
    ended,          \* ended[j]: how a pushed job ended, or "no"
    calm            \* nothing has gone wrong with any loop since the last push

queue == <<calls, starts, mode, loops, waiting, hand, pushed, ended, calm>>

QueueTypeOK ==
    /\ calls \in [Servers -> SUBSET Jobs]
    /\ starts \in [Servers -> BOOLEAN]
    /\ mode \in [Servers -> {"idle", "starting", "processing"}]
    /\ loops \subseteq Servers
    /\ waiting \in Seq([job : Jobs, attempts : 0 .. MaxAttempts - 1])
    /\ hand \in [Servers -> [job : Jobs, attempts : 1 .. MaxAttempts] \cup {NoJob}]
    /\ pushed \subseteq Jobs
    /\ ended \in [Jobs -> {"no", "done", "failed", "lost"}]
    /\ calm \in BOOLEAN

QueueInit ==
    /\ calls = [w \in Servers |-> {}]
    /\ starts = [w \in Servers |-> FALSE]
    /\ mode = [w \in Servers |-> "idle"]
    /\ loops = {}
    /\ waiting = <<>>
    /\ hand = [w \in Servers |-> NoJob]
    /\ pushed = {}
    /\ ended = [j \in Jobs |-> "no"]
    /\ calm = TRUE

-----------------------------------------------------------------------------
(* Callers.                                                                *)

\* Some request is about to hand j over, or has done so.
Known(j) == j \in pushed \/ \E w \in Servers : j \in calls[w]

\* A request of w will call executeOrQueue for j.
Call(w, j) == calls' = [calls EXCEPT ![w] = @ \cup {j}]

\* Few transactions run: the handler is called at once.  Its failure, and a
\* failure to push, is logged and forgotten.
ExecuteNow(w, j) ==
    /\ j \in calls[w]
    /\ calls' = [calls EXCEPT ![w] = @ \ {j}]
    /\ UNCHANGED <<starts, mode, loops, waiting, hand, pushed, ended, calm>>

\* Under load it is pushed.
Enqueue(w, j) ==
    /\ j \in calls[w]
    /\ calls' = [calls EXCEPT ![w] = @ \ {j}]
    /\ waiting' = <<[job |-> j, attempts |-> 0]>> \o waiting
    /\ pushed' = pushed \cup {j}
    /\ starts' = [starts EXCEPT ![w] = TRUE]
    /\ calm' = TRUE
    /\ UNCHANGED <<mode, loops, hand, ended>>

-----------------------------------------------------------------------------
(* The loop of a server.                                                   *)

\* A start in progress and a running loop are left alone.
StartProcessing(w) ==
    /\ starts[w]
    /\ starts' = [starts EXCEPT ![w] = FALSE]
    /\ mode' = [mode EXCEPT ![w] = IF @ = "idle" THEN "starting" ELSE @]
    /\ UNCHANGED <<calls, loops, waiting, hand, pushed, ended, calm>>

\* The blocking client is connected.
Connected(w) ==
    /\ mode[w] = "starting"
    /\ mode' = [mode EXCEPT ![w] = "processing"]
    /\ loops' = loops \cup {w}
    /\ UNCHANGED <<calls, starts, waiting, hand, pushed, ended, calm>>

ConnectFails(w) ==
    /\ mode[w] = "starting"
    /\ mode' = [mode EXCEPT ![w] = "idle"]
    /\ calm' = FALSE
    /\ UNCHANGED <<calls, starts, loops, waiting, hand, pushed, ended>>

\* BRPOP of a loop that has enough permits.
Pop(w) ==
    LET next == waiting[Len(waiting)] IN
    /\ w \in loops
    /\ hand[w] = NoJob
    /\ waiting # <<>>
    /\ waiting' = SubSeq(waiting, 1, Len(waiting) - 1)
    /\ hand' = [hand EXCEPT ![w] = [next EXCEPT !.attempts = @ + 1]]
    /\ UNCHANGED <<calls, starts, mode, loops, pushed, ended, calm>>

\* The connection breaks while the popped job is on its way: the read is
\* repeated, the job is nowhere.
PopIsLost(w) ==
    /\ w \in loops
    /\ hand[w] = NoJob
    /\ waiting # <<>>
    /\ waiting' = SubSeq(waiting, 1, Len(waiting) - 1)
    /\ ended' = [ended EXCEPT ![waiting[Len(waiting)].job] = "lost"]
    /\ UNCHANGED <<calls, starts, mode, loops, hand, pushed, calm>>

JobEnds(w, how) ==
    /\ hand' = [hand EXCEPT ![w] = NoJob]
    /\ ended' = [ended EXCEPT ![hand[w].job] = how]
    /\ UNCHANGED <<calls, starts, mode, loops, waiting, pushed, calm>>

HandlerSucceeds(w) == hand[w] # NoJob /\ JobEnds(w, "done")

\* Wrong: the failed job is neither pushed back nor given up.
Forgotten(w) ==
    /\ hand' = [hand EXCEPT ![w] = NoJob]
    /\ UNCHANGED <<calls, starts, mode, loops, waiting, pushed, ended, calm>>

\* Pushed to the right end, the job is the next one to be popped.
Requeue(w) ==
    /\ hand' = [hand EXCEPT ![w] = NoJob]
    /\ waiting' = Append(waiting, hand[w])
    /\ UNCHANGED <<calls, starts, mode, loops, pushed, ended, calm>>

HandlerFails(w) ==
    /\ hand[w] # NoJob
    /\ IF hand[w].attempts < MaxAttempts THEN Requeue(w) ELSE JobEnds(w, "failed")

\* The job in hand ends with the loop or the process that held it.
Dropped(w) ==
    IF hand[w] = NoJob THEN ended ELSE [ended EXCEPT ![hand[w].job] = "lost"]

\* Wrong: isProcessing stays set when the loop has crashed.
StaleMode(w) == mode

Reset(w) == [mode EXCEPT ![w] = "idle"]

\* A read fails for good, or the push of a failed job does (then the list may
\* have it nevertheless): the loop ends and its catch clause resets the flags.
LoopCrashes(w) ==
    /\ w \in loops
    /\ loops' = loops \ {w}
    /\ mode' = Reset(w)
    /\ hand' = [hand EXCEPT ![w] = NoJob]
    /\ calm' = FALSE
    /\ \/ /\ ended' = Dropped(w)
          /\ UNCHANGED waiting
       \/ /\ hand[w] # NoJob
          /\ hand[w].attempts < MaxAttempts
          /\ waiting' = Append(waiting, hand[w])
          /\ UNCHANGED ended
    /\ UNCHANGED <<calls, starts, pushed>>

\* The process dies and comes back with no loop and no calls.
ServerCrashes(w) ==
    /\ calls' = [calls EXCEPT ![w] = {}]
    /\ starts' = [starts EXCEPT ![w] = FALSE]
    /\ mode' = [mode EXCEPT ![w] = "idle"]
    /\ loops' = loops \ {w}
    /\ hand' = [hand EXCEPT ![w] = NoJob]
    /\ ended' = Dropped(w)
    /\ calm' = FALSE
    /\ UNCHANGED <<waiting, pushed>>

QueueStep(w) ==
    \/ \E j \in calls[w] : ExecuteNow(w, j) \/ Enqueue(w, j)
    \/ StartProcessing(w)
    \/ Connected(w)
    \/ ConnectFails(w)
    \/ Pop(w)
    \/ PopIsLost(w)
    \/ HandlerSucceeds(w)
    \/ HandlerFails(w)
    \/ LoopCrashes(w)
    \/ ServerCrashes(w)

-----------------------------------------------------------------------------
(* Properties.                                                             *)

Places(j) ==
    {<<"list", i>> : i \in {n \in 1 .. Len(waiting) : waiting[n].job = j}}
        \cup {<<"hand", w>> : w \in {v \in Servers : hand[v] # NoJob /\ hand[v].job = j}}

\* A pushed job that has not ended is in exactly one place, the list or one
\* loop's hand; one that has ended is in none, so it is not run again.
JobsAreKept ==
    \A j \in pushed : Cardinality(Places(j)) = IF ended[j] = "no" THEN 1 ELSE 0

\* Jobs wait for a loop that runs or is being started, unless a loop, a start
\* or a process failed after the last push.
WaitingHasLoop ==
    waiting # <<>> /\ calm =>
        \E w \in Servers : w \in loops \/ mode[w] = "starting" \/ starts[w]
=============================================================================
