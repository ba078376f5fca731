----------------------------- MODULE Snapshots -----------------------------
(***************************************************************************)
(* Transactions of MongoDB as the repositories use them: every query of a  *)
(* unit of work carries its session, so it reads the database as it was    *)
(* when the transaction began (snap), and the transaction commits only if  *)
(* no document it writes was written by somebody else since (missed).      *)
(* What it merely read may have changed.                                   *)
(*                                                                         *)
(* A database is a function from names of documents to documents.  An      *)
(* update that changes nothing writes nothing; one that always changes the *)
(* document, because it carries a time or a version, is named in touched.  *)
(***************************************************************************)
CONSTANTS
    Txns,           \* transactions that run at the same time
    None            \* no snapshot

VARIABLES
    db,             \* the database
    snap,           \* snap[p]: what transaction p reads, or None
    missed          \* missed[p]: documents others wrote since p began

stores == <<db, snap, missed>>

Begin(p) ==
    /\ snap[p] = None
    /\ snap' = [snap EXCEPT ![p] = db]
    /\ missed' = [missed EXCEPT ![p] = {}]
    /\ UNCHANGED db

\* A conflict, an error of the handler or of the server: nothing is written.
\* The unit of work may run the body again, which is to begin once more.
Abort(p) ==
    /\ snap[p] # None
    /\ snap' = [snap EXCEPT ![p] = None]
    /\ missed' = [missed EXCEPT ![p] = {}]
    /\ UNCHANGED db

\* Documents that differ between the databases s and t.
Changed(s, t) == {d \in DOMAIN s : s[d] # t[d]}

\* Every open transaction but p misses what was written.
Misses(p, written) ==
    [q \in Txns |-> IF q = p \/ snap[q] = None THEN {} ELSE missed[q] \cup written]

\* Transaction p turned what it read into t and wrote touched besides.
Commit(p, t, touched) ==
    LET changed == Changed(snap[p], t)
        written == changed \cup touched IN
    /\ snap[p] # None
    /\ written \cap missed[p] = {}
    /\ db' = [d \in DOMAIN db |-> IF d \in changed THEN t[d] ELSE db[d]]
    /\ snap' = [snap EXCEPT ![p] = None]
    /\ missed' = Misses(p, written)

\* One update outside of any transaction: document d becomes v.
WriteAlone(d, v) ==
    /\ db' = [db EXCEPT ![d] = v]
    /\ missed' = [q \in Txns |-> IF snap[q] = None THEN {} ELSE missed[q] \cup {d}]
    /\ UNCHANGED snap

\* A snapshot differs from the database only in what its transaction missed.
SnapshotsAreExact ==
    \A p \in Txns : snap[p] # None =>
        \A d \in DOMAIN db \ missed[p] : snap[p][d] = db[d]
=============================================================================
