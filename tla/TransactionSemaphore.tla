------------------------ MODULE TransactionSemaphore ------------------------
(***************************************************************************)
(* The semaphore of database/transaction-semaphore.ts as a value: its free *)
(* permits and its queue of waiters, and what each of its methods makes of *)
(* it.  A method runs to its end without an await, so the modules that use *)
(* a semaphore apply it in one step.                                       *)
(***************************************************************************)
EXTENDS Naturals, SequencesExt

NewSemaphore(n) == [permits |-> n, waiting |-> <<>>]

\* acquire: a free permit is taken at once, otherwise the caller queues.
Free(s) == s.permits > 0
Taken(s) == [s EXCEPT !.permits = @ - 1]
Joined(s, c) == [s EXCEPT !.waiting = Append(@, c)]

\* The timer of the waiter at position i removes it from the queue.
Withdrawn(s, i) == [s EXCEPT !.waiting = RemoveAt(@, i)]

\* Mutant: the waiter that is taken off the queue is not woken.
GrantedToNobody(s) == {}

\* release hands the permit over to the longest waiter (Granted), or frees it.
Granted(s) == IF s.waiting = <<>> THEN {} ELSE {Head(s.waiting)}
Released(s) == IF s.waiting = <<>> THEN [s EXCEPT !.permits = @ + 1]
                                   ELSE [s EXCEPT !.waiting = Tail(@)]
=============================================================================
