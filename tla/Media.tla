------------------------------- MODULE Media -------------------------------
(***************************************************************************)
(* Pictures: assets in an external storage that documents name.  A request *)
(* uploads first and then writes the document in a transaction; what it    *)
(* replaces, or uploaded in vain, it deletes itself or asks the outbox to  *)
(* delete (ImageAssetCleanupRequestedEvent).                               *)
(*                                                                         *)
(* A document is the pictures it names.  What else the handlers read and   *)
(* write is in Publishing, Communities and Accounts: which contents go     *)
(* with a post, a community or an account is left open here.  The outcome  *)
(* of a transaction is what AtomicCall promises, the delivery of an event  *)
(* what OutboxDelivery promises.  The default avatar is no picture: the id *)
(* that extractPublicId makes of its URL names no asset.                   *)
(***************************************************************************)
EXTENDS Snapshots, FiniteSets

CONSTANTS
    Users,          \* accounts, with an avatar and a cover
    Communities,    \* communities, with an avatar and a cover
    Posts, Comments,  \* contents, with one image
    Assets,         \* names the storage gives to uploads
    Unborn,         \* a document whose id nobody used yet
    Pending,        \* a post between its two transactions
    Gone            \* a document that was deleted

VARIABLES
    asset,          \* asset[a]: whether it was uploaded, and deleted
    requested,      \* assets an outbox event asks to delete
    req,            \* req[p]: the request that transaction p belongs to
    lost,           \* history: assets a failure left behind
    overtaken       \* history: pictures of a profile a concurrent request left behind

vars == <<db, snap, missed, asset, requested, req, lost, overtaken>>

Contents == Posts \cup Comments
Docs == Users \cup Communities \cup Contents
Fields == {"avatar", "cover", "image"}
FieldsOf(d) == IF d \in Contents THEN {"image"} ELSE {"avatar", "cover"}

Pictures == [Fields -> Assets \cup {None}]
NoPictures == [f \in Fields |-> None]

ASSUME DocsAssumption ==
    /\ Users \cap Communities = {} /\ (Users \cup Communities) \cap Contents = {}
    /\ Posts \cap Comments = {}
ASSUME NamesAssumption ==
    /\ None \notin Assets
    /\ {Unborn, Pending, Gone} \cap Pictures = {}
    /\ Unborn # Pending /\ Unborn # Gone /\ Pending # Gone

\* The assets that a document, and a database, names.
NamesOf(v) == IF v \in Pictures THEN {v[f] : f \in Fields} \ {None} ELSE {}
Names(s) == UNION {NamesOf(s[d]) : d \in Docs}

Exists(s, d) == s[d] \in Pictures \cup {Pending}

-----------------------------------------------------------------------------
(* Requests.                                                               *)

Kinds == {"profile", "newCommunity", "community", "attachment", "post", "removal"}
Request == [
    pc : {"idle", "staged", "undecided", "committed", "failed"},
    kind : Kinds,
    doc : Docs \cup {None},
    staged : Pictures,                  \* what the request uploaded
    old : Assets \cup {None}]           \* the picture it read before

NoRequest == [pc |-> "idle", kind |-> "removal", doc |-> None,
              staged |-> NoPictures, old |-> None]

At(p, label) == req[p].pc = label
Goto(p, label) == req' = [req EXCEPT ![p].pc = label]
Ends(p) == req' = [req EXCEPT ![p] = NoRequest]

Init ==
    /\ db \in {s \in [Docs -> {Unborn, NoPictures}] :
                 /\ \A u \in Users : s[u] = NoPictures
                 /\ \A x \in Contents : s[x] = Unborn}
    /\ snap = [p \in Txns |-> None]
    /\ missed = [p \in Txns |-> {}]
    /\ asset = [a \in Assets |-> "new"]
    /\ requested = {}
    /\ req = [p \in Txns |-> NoRequest]
    /\ lost = {}
    /\ overtaken = {}

history == <<lost, overtaken>>

-----------------------------------------------------------------------------
(* Uploads.                                                                *)

Uploaded(as) == asset' = [a \in Assets |-> IF a \in as THEN "stored" ELSE asset[a]]

\* Request p uploads a new asset for every field in fs.
Stage(p, kind, d, fs, old, label) ==
    /\ At(p, "idle") /\ snap[p] = None
    /\ fs # {} /\ fs \subseteq FieldsOf(d)
    /\ \E up \in [fs -> {a \in Assets : asset[a] = "new"}] :
         /\ \A f, g \in fs : up[f] = up[g] => f = g
         /\ Uploaded({up[f] : f \in fs})
         /\ req' = [req EXCEPT ![p] =
              [pc |-> label, kind |-> kind, doc |-> d, old |-> old,
               staged |-> [f \in Fields |-> IF f \in fs THEN up[f] ELSE None]]]
    /\ UNCHANGED <<requested, lost, overtaken>>

\* An id that no document and no other request has.
IsFree(d) == db[d] = Unborn /\ \A q \in Txns : req[q].doc # d

\* updateAvatar and updateCover: the picture that will be replaced is read
\* before the transaction.
StageProfile(p, u, f) ==
    /\ db[u] \in Pictures
    /\ Stage(p, "profile", u, {f}, db[u][f], "staged")
    /\ UNCHANGED stores

StageNewCommunity(p, k) ==
    /\ IsFree(k)
    /\ Stage(p, "newCommunity", k, {"avatar"}, None, "staged")
    /\ UNCHANGED stores

\* updateCommunity; when the upload of the cover fails, that of the avatar was
\* in vain.
StageCommunity(p, k) ==
    /\ db[k] \in Pictures
    /\ \/ \E fs \in SUBSET Fields : Stage(p, "community", k, fs, None, "staged")
       \/ Stage(p, "community", k, {"avatar"}, None, "failed")
    /\ UNCHANGED stores

\* AttachmentTransactionService: comments and quotes.
StageAttachment(p, x) ==
    /\ IsFree(x)
    /\ Stage(p, "attachment", x, {"image"}, None, "staged")
    /\ UNCHANGED stores

\* createPost stores the post as pending before it uploads.
StagePost(p, x) ==
    /\ IsFree(x)
    /\ WriteAlone(x, Pending)
    /\ Stage(p, "post", x, {"image"}, None, "staged")

\* The answer of an upload is lost: the request knows of no asset and fails.
UploadUnanswered(a) ==
    /\ asset[a] = "new"
    /\ Uploaded({a})
    /\ lost' = lost \cup {a}
    /\ UNCHANGED <<stores, requested, req, overtaken>>
-----------------------------------------------------------------------------
(* Transactions of the requests that uploaded.                             *)

BeginTransaction(p) ==
    /\ At(p, "staged")
    /\ Begin(p)
    /\ UNCHANGED <<asset, requested, req, history>>

\* A write conflict: the unit of work runs the body again.
RunAgain(p) ==
    /\ At(p, "staged") /\ snap[p] # None
    /\ snap' = [snap EXCEPT ![p] = db]
    /\ missed' = [missed EXCEPT ![p] = {}]
    /\ UNCHANGED <<db, asset, requested, req, history>>

\* The document with the uploaded pictures in place.
With(v, staged) == [f \in Fields |-> IF staged[f] # None THEN staged[f] ELSE v[f]]

Write(p, v) == Commit(p, [snap[p] EXCEPT ![req[p].doc] = v], {req[p].doc})

\* The update of an account that is gone finds nothing and is no error.  The
\* picture it replaces may not be the one it read.
WriteProfile(p) ==
    LET r == req[p]
        v == snap[p][r.doc]
        left == IF v \in Pictures
                THEN {v[f] : f \in {g \in Fields : r.staged[g] # None}} \ {r.old, None}
                ELSE NamesOf(r.staged) IN
    /\ r.kind = "profile"
    /\ IF v \in Pictures THEN Write(p, With(v, r.staged)) ELSE Commit(p, snap[p], {})
    /\ overtaken' = overtaken \cup left
    /\ UNCHANGED requested

\* Wrong: only the avatar is looked at.
ReplacedAvatar(v, w) == {v.avatar} \ {w.avatar, None}

\* What the stored community named and the updated one does not.
Replaced(v, w) == NamesOf(v) \ NamesOf(w)

\* The community is read again in the transaction.
WriteCommunity(p) ==
    LET r == req[p]
        v == snap[p][r.doc] IN
    /\ r.kind = "community"
    /\ v \in Pictures
    /\ Write(p, With(v, r.staged))
    /\ requested' = requested \cup Replaced(v, With(v, r.staged))
    /\ UNCHANGED overtaken

\* A community, a comment or a quote is created, a pending post activated.
WriteNew(p) ==
    LET r == req[p] IN
    /\ \/ r.kind \in {"newCommunity", "attachment"} /\ snap[p][r.doc] = Unborn
       \/ r.kind = "post" /\ snap[p][r.doc] = Pending
    /\ Write(p, r.staged)
    /\ UNCHANGED <<requested, overtaken>>

TakesEffect(p) ==
    /\ snap[p] # None
    /\ WriteProfile(p) \/ WriteCommunity(p) \/ WriteNew(p)

\* Only a profile has something to do afterwards.
Committed(p) ==
    /\ At(p, "staged")
    /\ TakesEffect(p)
    /\ IF req[p].kind = "profile" THEN Goto(p, "committed") ELSE Ends(p)
    /\ UNCHANGED <<asset, lost>>

\* The unit of work reports a failure: no permit, no session, an error of the
\* body, a conflict too many.
GivesUp(p) ==
    /\ At(p, "staged")
    /\ Abort(p) \/ (snap[p] = None /\ UNCHANGED stores)
    /\ Goto(p, "failed")
    /\ UNCHANGED <<asset, requested, history>>

\* Wrong: an unknown outcome is taken for a failure.
UnansweredFails(p) ==
    /\ At(p, "staged") /\ snap[p] # None
    /\ Goto(p, "undecided")
    /\ requested' = requested \cup NamesOf(req[p].staged)
    /\ UNCHANGED <<stores, asset, history>>

\* AmbiguousTransactionCommitError, or the process dies while it commits: the
\* pictures stay, and the transaction may still take effect or not.
CommitUnanswered(p) ==
    /\ At(p, "staged") /\ snap[p] # None
    /\ Goto(p, "undecided")
    /\ UNCHANGED <<stores, asset, requested, history>>

Lands(p) ==
    /\ At(p, "undecided")
    /\ TakesEffect(p)
    /\ Ends(p)
    /\ lost' = lost \cup ({req[p].old} \ {None})
    /\ UNCHANGED asset

NeverLands(p) ==
    /\ At(p, "undecided")
    /\ Abort(p)
    /\ Ends(p)
    /\ lost' = lost \cup NamesOf(req[p].staged)
    /\ UNCHANGED <<asset, requested, overtaken>>
-----------------------------------------------------------------------------
(* Deleting assets.                                                        *)

Deleted(as) == asset' = [a \in Assets |-> IF a \in as THEN "deleted" ELSE asset[a]]

\* deleteOldAvatarAfterCommit: errors are logged.
DeleteOld(p) ==
    LET old == {req[p].old} \ {None} IN
    /\ At(p, "committed")
    /\ \/ Deleted(old) /\ UNCHANGED lost
       \/ lost' = lost \cup old /\ UNCHANGED asset
    /\ Ends(p)
    /\ UNCHANGED <<stores, requested, overtaken>>

\* Wrong: errors of the request are just passed on.
PassOn(p) ==
    /\ At(p, "failed")
    /\ Ends(p)
    /\ UNCHANGED <<stores, asset, requested, history>>

\* What a request uploaded in vain it deletes, and before that asks the outbox
\* to delete, profiles excepted; either may fail.
Compensate(p) ==
    LET staged == NamesOf(req[p].staged) IN
    /\ At(p, "failed")
    /\ \E queued, deleted \in SUBSET staged :
         /\ req[p].kind = "profile" => queued = {}
         /\ requested' = requested \cup queued
         /\ Deleted(deleted)
         /\ lost' = lost \cup (staged \ (queued \cup deleted))
    /\ Ends(p)
    /\ UNCHANGED <<stores, overtaken>>

\* ImageAssetCleanupRequestedHandler; it may run more than once.
Cleanup(a) ==
    /\ a \in requested /\ asset[a] = "stored"
    /\ Deleted({a})
    /\ UNCHANGED <<stores, requested, req, history>>

\* The event has failed too often, or was removed unprocessed.
CleanupFails(a) ==
    /\ a \in requested /\ asset[a] = "stored"
    /\ lost' = lost \cup {a}
    /\ UNCHANGED <<stores, asset, requested, req, overtaken>>
-----------------------------------------------------------------------------
(* Removing documents.                                                     *)

BeginRemoval(p) ==
    /\ At(p, "idle")
    /\ Begin(p)
    /\ UNCHANGED <<asset, requested, req, history>>

\* The documents in gone are deleted, those in bare lose their pictures; the
\* same transaction asks for the assets of both.
Remove(p, gone, bare) ==
    LET s == snap[p] IN
    /\ \A d \in gone \cup bare : Exists(s, d)
    /\ Commit(p, [d \in Docs |-> IF d \in gone THEN Gone
                                 ELSE IF d \in bare THEN NoPictures ELSE s[d]],
              gone \cup bare)
    /\ requested' = requested \cup UNION {NamesOf(s[d]) : d \in gone \cup bare}
    /\ UNCHANGED <<asset, req, history>>

\* Posts with their reposts and comments; a comment with replies stays.
RemoveContents(p) ==
    \/ \E xs \in SUBSET Contents : xs \cap Posts # {} /\ Remove(p, xs, {})
    \/ \E c \in Comments : Remove(p, {c}, {}) \/ Remove(p, {}, {c})

RemoveCommunity(p, k) == \E xs \in SUBSET Contents : Remove(p, xs \cup {k}, {})

\* A ban keeps the account, a deletion does not; communities nobody can take
\* over go with it, comments of the account on posts of others stay.
PurgeAccount(p, u) ==
    \E ds \in SUBSET (Contents \cup Communities), cs \in SUBSET Comments :
        /\ ds \cap cs = {}
        /\ Remove(p, ds, cs \cup {u}) \/ Remove(p, ds \cup {u}, cs)

RemovalFails(p) == Abort(p) /\ UNCHANGED <<asset, requested, req, history>>
-----------------------------------------------------------------------------
(* The process of a request dies.                                          *)

Crash(p) ==
    /\ req[p].pc \in {"staged", "committed", "failed"}
    /\ Abort(p) \/ (snap[p] = None /\ UNCHANGED stores)
    /\ lost' = lost \cup IF At(p, "committed") THEN {req[p].old} \ {None}
                         ELSE NamesOf(req[p].staged)
    /\ Ends(p)
    /\ UNCHANGED <<asset, requested, overtaken>>
-----------------------------------------------------------------------------
StartRequest(p) ==
    \/ \E u \in Users, f \in Fields : StageProfile(p, u, f)
    \/ \E k \in Communities : StageNewCommunity(p, k) \/ StageCommunity(p, k)
    \/ \E x \in Contents : StageAttachment(p, x)
    \/ \E x \in Posts : StagePost(p, x)

\* What a request does unless its process dies, and the server decides.
Proceed(p) ==
    \/ BeginTransaction(p) \/ Committed(p) \/ GivesUp(p) \/ CommitUnanswered(p)
    \/ Lands(p) \/ NeverLands(p)
    \/ DeleteOld(p) \/ Compensate(p)

Removal(p) ==
    \/ BeginRemoval(p)
    \/ /\ At(p, "idle") /\ snap[p] # None
       /\ \/ RemovalFails(p)
          \/ RemoveContents(p)
          \/ \E k \in Communities : RemoveCommunity(p, k)
          \/ \E u \in Users : PurgeAccount(p, u)

CleanupEnds(a) == Cleanup(a) \/ CleanupFails(a)

Next ==
    \/ \E p \in Txns : StartRequest(p) \/ Proceed(p) \/ RunAgain(p) \/ Crash(p) \/ Removal(p)
    \/ \E a \in Assets : UploadUnanswered(a) \/ CleanupEnds(a)

Spec == Init /\ [][Next]_vars

\* The calls of a request are answered, if only by an error, and the unit of
\* work does not repeat a body for ever (UnitOfWork); the outbox settles every
\* event (OutboxDelivery).
Fairness ==
    /\ \A p \in Txns : WF_vars(Proceed(p))
    /\ \A a \in Assets : WF_vars(CleanupEnds(a))

FairSpec == Spec /\ Fairness
-----------------------------------------------------------------------------
(* Properties.                                                             *)

Versions == Pictures \cup {Unborn, Pending, Gone}

\* The types of the database, of what transactions read of it, of the storage
\* and of the requests.
TypeOK ==
    /\ db \in [Docs -> Versions]
    /\ snap \in [Txns -> [Docs -> Versions] \cup {None}]
    /\ missed \in [Txns -> SUBSET Docs]
    /\ asset \in [Assets -> {"new", "stored", "deleted"}]
    /\ requested \subseteq Assets
    /\ req \in [Txns -> Request]
    /\ lost \subseteq Assets /\ overtaken \subseteq Assets

\* A picture that a document names is in the storage: none is deleted while a
\* transaction that would name it may still take effect.
NoDanglingPicture == \A a \in Names(db) : asset[a] = "stored"

\* The assets a request still has to name or to delete.
InHand(p) ==
    CASE At(p, "idle") -> {}
      [] At(p, "committed") -> {req[p].old} \ {None}
      [] OTHER -> NamesOf(req[p].staged)

\* An asset that nothing names and nobody will delete was left behind by a
\* failure, or it is a picture of a profile that two requests replaced at the
\* same time or whose account went: communities and contents never forget one.
OrphansArePaidFor ==
    \A a \in Assets :
        \/ asset[a] # "stored"
        \/ a \in Names(db) \cup requested
        \/ \E p \in Txns : a \in InHand(p)
        \/ a \in lost \cup overtaken

\* Uploads being finite, again and again everything stored is named or known to
\* be left behind: what was replaced, removed or uploaded in vain is deleted.
EveryAssetSettles ==
    []<>(\A a \in Assets : asset[a] = "stored" =>
        a \in Names(db) \cup lost \cup overtaken)
=============================================================================
