---------------------------- MODULE MediaProofs ----------------------------
(***************************************************************************)
(* Proofs about Media for any documents, assets and overlapping requests:  *)
(* no document names a picture that was deleted, and a picture that nobody *)
(* names and nobody will delete was left behind by a failure or a race.    *)
(***************************************************************************)
EXTENDS Media, TLAPS

-----------------------------------------------------------------------------
(* The inductive invariant.                                                *)

\* An account is there from the start, and once it is gone it stays gone.
UsersAreBorn == \A u \in Users : db[u] \in Pictures \cup {Gone}
GoneForGood ==
    \A p \in Txns, u \in Users :
        snap[p] # None /\ snap[p][u] \notin Pictures => db[u] \notin Pictures

RequestsNameDocs ==
    \A p \in Txns : req[p].pc # "idle" =>
        /\ req[p].doc \in Docs
        /\ req[p].kind = "profile" => req[p].doc \in Users

\* A picture is named at one place.
OneName ==
    \A d, e \in Docs, f, g \in Fields :
        /\ db[d] \in Pictures /\ db[e] \in Pictures
        /\ db[d][f] = db[e][g] /\ db[d][f] # None
        => d = e /\ f = g

NamedIsKept == \A a \in Names(db) : asset[a] = "stored" /\ a \notin requested

\* What a request uploaded is its own until it is named.
Holding(p) == req[p].pc \in {"staged", "undecided", "failed"}
Staged(p, a) == Holding(p) /\ \E f \in Fields : req[p].staged[f] = a

StagedIsKept ==
    \A p \in Txns, a \in Assets : Staged(p, a) =>
        /\ asset[a] = "stored" /\ a \notin requested /\ a \notin Names(db)
        /\ \A q \in Txns : Staged(q, a) => q = p

StagedOnce ==
    \A p \in Txns, f, g \in Fields :
        Holding(p) /\ req[p].staged[f] = req[p].staged[g] /\ req[p].staged[f] # None => f = g

\* The picture a request will delete is one that nobody else comes to name.
Replaces(p) == req[p].pc \in {"staged", "undecided", "committed"} /\ req[p].old # None

OldIsKnown ==
    \A p \in Txns : Replaces(p) =>
        /\ asset[req[p].old] # "new"
        /\ \A q \in Txns : ~Staged(q, req[p].old)
        /\ At(p, "committed") => req[p].old \notin Names(db)
        /\ \A d \in Docs, f \in Fields :
             db[d] \in Pictures /\ db[d][f] = req[p].old
             => d = req[p].doc /\ req[p].staged[f] # None

RequestedWasUploaded == \A a \in requested : asset[a] # "new"

Stores == TypeOK /\ SnapshotsAreExact /\ UsersAreBorn /\ GoneForGood /\ RequestsNameDocs
Ownership ==
    /\ OneName /\ NamedIsKept /\ StagedIsKept /\ StagedOnce /\ OldIsKnown
    /\ RequestedWasUploaded

IInv == Stores /\ Ownership

-----------------------------------------------------------------------------
(* Names.                                                                  *)

LEMMA KindsOfVersions ==
    /\ Unborn \notin Pictures /\ Pending \notin Pictures /\ Gone \notin Pictures
    /\ NoPictures \in Pictures
    /\ \A v \in Pictures, f \in Fields : v[f] \in Assets \cup {None}
BY NamesAssumption DEF Pictures, NoPictures

LEMMA NamesOfAre ==
    ASSUME NEW v
    PROVE  \A a : a \in NamesOf(v) <=>
               v \in Pictures /\ a # None /\ \E f \in Fields : v[f] = a
BY DEF NamesOf

LEMMA NamesAre ==
    ASSUME NEW s
    PROVE  \A a : a \in Names(s) <=>
               \E d \in Docs : s[d] \in Pictures /\ a # None /\ \E f \in Fields : s[d][f] = a
BY NamesOfAre DEF Names

LEMMA NamesAreAssets ==
    ASSUME NEW s
    PROVE  Names(s) \subseteq Assets
BY NamesAre, KindsOfVersions

LEMMA UserDocs ==
    /\ Users \subseteq Docs
    /\ \A d : d \in Users => d \notin Communities /\ d \notin Contents
    /\ Communities \subseteq Docs /\ Contents \subseteq Docs
    /\ Posts \subseteq Contents /\ Comments \subseteq Contents
BY DocsAssumption DEF Docs, Contents

LEMMA NoRequestIs ==
    /\ NoRequest \in Request
    /\ NoRequest.pc = "idle"
BY KindsOfVersions DEF NoRequest, Request, Kinds

-----------------------------------------------------------------------------
(* Transactions.                                                           *)

\* What a commit does that writes the documents in D.
LEMMA CommitEffect ==
    ASSUME TypeOK, SnapshotsAreExact, NEW p \in Txns, NEW t, NEW D,
           D \subseteq Docs, DOMAIN t = Docs, \A d \in Docs \ D : t[d] = snap[p][d],
           Commit(p, t, D)
    PROVE  /\ db' = [d \in Docs |-> IF d \in D THEN t[d] ELSE db[d]]
           /\ \A d \in D : db[d] = snap[p][d]
           /\ snap' = [snap EXCEPT ![p] = None]
           /\ missed' \in [Txns -> SUBSET Docs]
           /\ SnapshotsAreExact'
           /\ snap[p] # None
<1> DEFINE changed == Changed(snap[p], t)
           written == changed \cup D
<1>1. /\ snap[p] # None
      /\ written \cap missed[p] = {}
      /\ db' = [d \in DOMAIN db |-> IF d \in changed THEN t[d] ELSE db[d]]
      /\ snap' = [snap EXCEPT ![p] = None]
      /\ missed' = Misses(p, written)
  BY DEF Commit
<1>2. DOMAIN db = Docs /\ DOMAIN snap[p] = Docs /\ missed \in [Txns -> SUBSET Docs]
  BY <1>1 DEF TypeOK
<1>3. changed = {d \in Docs : snap[p][d] # t[d]}
  BY <1>2 DEF Changed
<1>4. changed \subseteq D
  BY <1>3
<1>5. \A d \in D : db[d] = snap[p][d]
  BY <1>1, <1>2 DEF SnapshotsAreExact
<1> HIDE DEF changed
<1>6. \A d \in Docs : db'[d] = IF d \in D THEN t[d] ELSE db[d]
  BY <1>1, <1>2, <1>3, <1>4, <1>5
<1>7. db' = [d \in Docs |-> IF d \in D THEN t[d] ELSE db[d]]
  BY <1>1, <1>2, <1>6
<1>8. missed' \in [Txns -> SUBSET Docs]
  BY <1>1, <1>2, <1>4 DEF Misses
<1>9. SnapshotsAreExact'
  <2> SUFFICES ASSUME NEW q \in Txns, snap'[q] # None, NEW d \in Docs, d \notin missed'[q]
               PROVE  snap'[q][d] = db'[d]
    BY <1>1, <1>2 DEF SnapshotsAreExact
  <2>1. q # p /\ snap'[q] = snap[q] /\ snap[q] # None
    BY <1>1 DEF TypeOK
  <2>2. d \notin missed[q] /\ d \notin D
    BY <1>1, <2>1 DEF Misses
  <2>3. snap[q][d] = db[d]
    BY <1>2, <2>1, <2>2 DEF SnapshotsAreExact
  <2> QED BY <1>7, <2>1, <2>2, <2>3
<1> QED BY <1>1, <1>5, <1>7, <1>8, <1>9

\* What a single update does.
LEMMA WriteAloneEffect ==
    ASSUME TypeOK, SnapshotsAreExact, NEW x \in Docs, NEW v, WriteAlone(x, v)
    PROVE  /\ db' = [db EXCEPT ![x] = v]
           /\ missed' \in [Txns -> SUBSET Docs]
           /\ snap' = snap
           /\ SnapshotsAreExact'
<1>1. /\ db' = [db EXCEPT ![x] = v]
      /\ missed' = [q \in Txns |-> IF snap[q] = None THEN {} ELSE missed[q] \cup {x}]
      /\ snap' = snap
  BY DEF WriteAlone
<1>2. missed' \in [Txns -> SUBSET Docs]
  BY <1>1 DEF TypeOK
<1>3. SnapshotsAreExact'
  <2> SUFFICES ASSUME NEW q \in Txns, snap[q] # None, NEW d \in Docs, d \notin missed'[q]
               PROVE  snap[q][d] = db'[d]
    BY <1>1 DEF SnapshotsAreExact, TypeOK
  <2>1. d \notin missed[q] /\ d # x
    BY <1>1
  <2> QED BY <1>1, <2>1 DEF SnapshotsAreExact, TypeOK
<1> QED BY <1>1, <1>2, <1>3

\* Transaction p begins, ends without effect, or reads again.
Rereads(p) ==
    /\ UNCHANGED db
    /\ \E s \in {db, None} : snap' = [snap EXCEPT ![p] = s]
    /\ missed' = [missed EXCEPT ![p] = {}]

LEMMA RereadsEffect ==
    ASSUME Stores, NEW p \in Txns, Rereads(p)
    PROVE  /\ db' = db
           /\ snap' \in [Txns -> [Docs -> Versions] \cup {None}]
           /\ missed' \in [Txns -> SUBSET Docs]
           /\ SnapshotsAreExact' /\ UsersAreBorn' /\ GoneForGood'
<1>1. PICK s \in {db, None} : snap' = [snap EXCEPT ![p] = s]
  BY DEF Rereads
<1>2. db' = db /\ missed' = [missed EXCEPT ![p] = {}]
  BY DEF Rereads
<1>3. /\ snap \in [Txns -> [Docs -> Versions] \cup {None}] /\ db \in [Docs -> Versions]
      /\ missed \in [Txns -> SUBSET Docs]
  BY DEF Stores, TypeOK
<1>4. \A q \in Txns : snap'[q] # None =>
          \/ q # p /\ snap'[q] = snap[q] /\ missed'[q] = missed[q]
          \/ snap'[q] = db /\ missed'[q] = {}
  BY <1>1, <1>2, <1>3
<1>5. SnapshotsAreExact'
  BY <1>2, <1>4 DEF SnapshotsAreExact, Stores
<1>6. UsersAreBorn' /\ GoneForGood'
  BY <1>2, <1>4 DEF UsersAreBorn, GoneForGood, Stores
<1> QED BY <1>1, <1>2, <1>3, <1>5, <1>6

-----------------------------------------------------------------------------
(* The database and what transactions read of it.                          *)

DbOK ==
    /\ db \in [Docs -> Versions]
    /\ snap \in [Txns -> [Docs -> Versions] \cup {None}]
    /\ missed \in [Txns -> SUBSET Docs]
    /\ SnapshotsAreExact /\ UsersAreBorn /\ GoneForGood

ReqOK ==
    /\ asset \in [Assets -> {"new", "stored", "deleted"}]
    /\ requested \subseteq Assets
    /\ req \in [Txns -> Request]
    /\ lost \subseteq Assets /\ overtaken \subseteq Assets
    /\ RequestsNameDocs

LEMMA StoresAre == Stores <=> DbOK /\ ReqOK
BY DEF Stores, DbOK, ReqOK, TypeOK

LEMMA PrimedStoresAre == DbOK' /\ ReqOK' => Stores'
BY DEF Stores, DbOK, ReqOK, TypeOK

LEMMA CommitKeepsDb ==
    ASSUME Stores, NEW p \in Txns, NEW t \in [Docs -> Versions], NEW D,
           D \subseteq Docs, \A d \in Docs \ D : t[d] = snap[p][d],
           \A u \in D \cap Users : snap[p][u] \in Pictures /\ t[u] \in Pictures \cup {Gone},
           Commit(p, t, D)
    PROVE  DbOK'
<1>1. /\ db' = [d \in Docs |-> IF d \in D THEN t[d] ELSE db[d]]
      /\ \A d \in D : db[d] = snap[p][d]
      /\ snap' = [snap EXCEPT ![p] = None]
      /\ missed' \in [Txns -> SUBSET Docs]
      /\ SnapshotsAreExact'
  BY CommitEffect DEF Stores
<1>2. db \in [Docs -> Versions] /\ snap \in [Txns -> [Docs -> Versions] \cup {None}]
  BY DEF Stores, TypeOK
<1>3. db' \in [Docs -> Versions] /\ snap' \in [Txns -> [Docs -> Versions] \cup {None}]
  BY <1>1, <1>2
<1>4. UsersAreBorn'
  BY <1>1, UserDocs DEF UsersAreBorn, Stores
<1>5. GoneForGood'
  <2> SUFFICES ASSUME NEW q \in Txns, NEW u \in Users,
                      snap'[q] # None, snap'[q][u] \notin Pictures
               PROVE  db'[u] \notin Pictures
    BY DEF GoneForGood
  <2>1. q # p /\ snap'[q] = snap[q]
    BY <1>1, <1>2
  <2>2. db[u] \notin Pictures
    BY <2>1 DEF GoneForGood, Stores
  <2>3. u \notin D
    BY <1>1, <2>2
  <2> QED BY <1>1, <2>2, <2>3, UserDocs
<1> QED BY <1>1, <1>3, <1>4, <1>5 DEF DbOK

LEMMA RereadsKeepsDb ==
    ASSUME Stores, NEW p \in Txns, Rereads(p)
    PROVE  DbOK' /\ db' = db
BY RereadsEffect DEF DbOK, Stores, TypeOK

LEMMA UnchangedKeepsDb ==
    ASSUME Stores, UNCHANGED stores
    PROVE  DbOK' /\ db' = db
BY DEF DbOK, Stores, TypeOK, stores, SnapshotsAreExact, UsersAreBorn, GoneForGood

LEMMA BeginRereads ==
    ASSUME NEW p \in Txns
    PROVE  /\ Begin(p) => Rereads(p)
           /\ Abort(p) => Rereads(p)
BY DEF Begin, Abort, Rereads

-----------------------------------------------------------------------------
(* What a transaction that takes effect does.                              *)

\* What the document of a request names then.
Target(p) ==
    [f \in Fields |-> IF req[p].staged[f] # None THEN req[p].staged[f]
                      ELSE IF db[req[p].doc] \in Pictures THEN db[req[p].doc][f]
                      ELSE None]

Replacement(p) ==
    LET d == req[p].doc IN
    /\ db' = [db EXCEPT ![d] = Target(p)]
    /\ requested \subseteq requested'
    /\ requested' \ requested \subseteq NamesOf(db[d]) \ NamesOf(Target(p))
    /\ overtaken \subseteq overtaken' /\ overtaken' \subseteq Assets
    /\ \A a \in NamesOf(db[d]) \ NamesOf(Target(p)) :
         \/ a \in requested' \cup overtaken'
         \/ req[p].kind = "profile" /\ a = req[p].old

TooLate(p) ==
    /\ req[p].kind = "profile"
    /\ db[req[p].doc] \notin Pictures
    /\ db' = db /\ requested' = requested
    /\ overtaken' = overtaken \cup NamesOf(req[p].staged)

LEMMA TargetIsPictures ==
    ASSUME Stores, NEW p \in Txns
    PROVE  /\ Target(p) \in Pictures
           /\ req[p] \in Request /\ req[p].staged \in Pictures
           /\ req[p].old \in Assets \cup {None}
<1>1. req[p] \in Request
  BY DEF Stores, TypeOK
<1>2. req[p].staged \in Pictures /\ req[p].old \in Assets \cup {None}
  BY <1>1 DEF Request
<1>3. \A f \in Fields : Target(p)[f] \in Assets \cup {None}
  BY <1>2, KindsOfVersions DEF Target
<1> QED BY <1>1, <1>2, <1>3 DEF Pictures, Target

LEMMA WriteEffect ==
    ASSUME Stores, NEW p \in Txns, req[p].pc # "idle", NEW v \in Pictures, Write(p, v),
           snap[p][req[p].doc] \in Pictures \/ req[p].doc \notin Users
    PROVE  /\ DbOK'
           /\ db' = [db EXCEPT ![req[p].doc] = v]
           /\ db[req[p].doc] = snap[p][req[p].doc]
<1> DEFINE x == req[p].doc
           t == [snap[p] EXCEPT ![x] = v]
<1>1. x \in Docs
  BY DEF Stores, RequestsNameDocs
<1>2. Commit(p, t, {x})
  BY DEF Write
<1>3. snap[p] # None
  BY <1>2 DEF Commit
<1>4. snap[p] \in [Docs -> Versions] /\ db \in [Docs -> Versions]
  BY <1>3 DEF Stores, TypeOK
<1>5. t \in [Docs -> Versions] /\ t[x] = v /\ \A d \in Docs \ {x} : t[d] = snap[p][d]
  BY <1>1, <1>4 DEF Versions
<1> HIDE DEF t
<1>6. DbOK'
  BY <1>1, <1>2, <1>5, CommitKeepsDb
<1>7. /\ db' = [d \in Docs |-> IF d \in {x} THEN t[d] ELSE db[d]]
      /\ \A d \in {x} : db[d] = snap[p][d]
  BY <1>1, <1>2, <1>5, CommitEffect DEF Stores
<1> QED BY <1>4, <1>5, <1>6, <1>7

LEMMA ProfileEffect ==
    ASSUME Stores, NEW p \in Txns, req[p].pc # "idle", snap[p] # None, WriteProfile(p)
    PROVE  DbOK' /\ (Replacement(p) \/ TooLate(p))
<1> DEFINE x == req[p].doc
           v == snap[p][x]
           w == With(v, req[p].staged)
<1>1. req[p].kind = "profile" /\ x \in Users /\ x \in Docs
  BY UserDocs DEF WriteProfile, Stores, RequestsNameDocs
<1>2. req[p].staged \in Pictures
  BY TargetIsPictures
<1>3. requested' = requested
  BY DEF WriteProfile
<1>4. CASE v \in Pictures
  <2>1. Write(p, w)
    BY <1>4 DEF WriteProfile
  <2>2. w \in Pictures
    BY <1>2, <1>4 DEF With, Pictures
  <2>3. /\ DbOK'
        /\ db' = [db EXCEPT ![x] = w]
        /\ db[x] = v
    BY <1>4, <2>1, <2>2, WriteEffect
  <2>4. w = Target(p)
    BY <1>4, <2>3 DEF With, Target
  <2>5. overtaken' = overtaken \cup
          ({v[f] : f \in {g \in Fields : req[p].staged[g] # None}} \ {req[p].old, None})
    BY <1>4 DEF WriteProfile
  <2>6. overtaken' \subseteq Assets
    BY <1>4, <2>5, KindsOfVersions DEF Stores, TypeOK
  <2>7. ASSUME NEW a \in NamesOf(v) \ NamesOf(w)
        PROVE  a \in overtaken' \/ a = req[p].old
    <3>1. PICK f \in Fields : v[f] = a
      BY <2>7, NamesOfAre
    <3>2. a # None /\ w[f] # a
      BY <2>2, <2>7, NamesOfAre
    <3>3. req[p].staged[f] # None
      BY <3>1, <3>2 DEF With
    <3> QED BY <2>5, <3>1, <3>2, <3>3
  <2> QED BY <1>1, <1>3, <2>3, <2>4, <2>5, <2>6, <2>7 DEF Replacement
<1>5. CASE v \notin Pictures
  <2>1. Commit(p, snap[p], {})
    BY <1>5 DEF WriteProfile
  <2>2. snap[p] \in [Docs -> Versions] /\ db \in [Docs -> Versions]
    BY DEF Stores, TypeOK
  <2>3. DbOK'
    BY <2>1, <2>2, CommitKeepsDb
  <2>4. db' = [d \in Docs |-> IF d \in {} THEN snap[p][d] ELSE db[d]]
    BY <2>1, <2>2, CommitEffect DEF Stores
  <2>5. db' = db
    BY <2>2, <2>4
  <2>6. db[x] \notin Pictures
    BY <1>1, <1>5 DEF Stores, GoneForGood
  <2>7. overtaken' = overtaken \cup NamesOf(req[p].staged)
    BY <1>5 DEF WriteProfile
  <2> QED BY <1>1, <1>3, <2>3, <2>5, <2>6, <2>7 DEF TooLate
<1> QED BY <1>4, <1>5

LEMMA CommunityEffect ==
    ASSUME Stores, NEW p \in Txns, req[p].pc # "idle", snap[p] # None, WriteCommunity(p)
    PROVE  DbOK' /\ Replacement(p)
<1> DEFINE x == req[p].doc
           v == snap[p][x]
           w == With(v, req[p].staged)
<1>1. v \in Pictures /\ Write(p, w) /\ overtaken' = overtaken
  BY DEF WriteCommunity
<1>2. requested' = requested \cup (NamesOf(v) \ NamesOf(w))
  BY DEF WriteCommunity, Replaced
<1>3. w \in Pictures
  BY <1>1, TargetIsPictures DEF With, Pictures
<1>4. /\ DbOK'
      /\ db' = [db EXCEPT ![x] = w]
      /\ db[x] = v
  BY <1>1, <1>3, WriteEffect
<1>5. w = Target(p)
  BY <1>1, <1>4 DEF With, Target
<1>6. overtaken \subseteq Assets
  BY DEF Stores, TypeOK
<1> QED BY <1>1, <1>2, <1>4, <1>5, <1>6 DEF Replacement

LEMMA NewEffect ==
    ASSUME Stores, NEW p \in Txns, req[p].pc # "idle", snap[p] # None, WriteNew(p)
    PROVE  DbOK' /\ Replacement(p)
<1> DEFINE x == req[p].doc
           t == [snap[p] EXCEPT ![x] = req[p].staged]
<1>1. snap[p][x] \in {Unborn, Pending} /\ Write(p, req[p].staged)
  BY DEF WriteNew
<1>2. requested' = requested /\ overtaken' = overtaken
  BY DEF WriteNew
<1>3. x \in Docs /\ snap[p] \in [Docs -> Versions]
  BY DEF Stores, TypeOK, RequestsNameDocs
<1>4. db[x] = snap[p][x]
  <2>1. DOMAIN t = Docs /\ \A d \in Docs \ {x} : t[d] = snap[p][d]
    BY <1>3
  <2>2. Commit(p, t, {x})
    BY <1>1 DEF Write
  <2> HIDE DEF t
  <2> QED BY <1>3, <2>1, <2>2, CommitEffect DEF Stores
<1>5. x \notin Users
  BY <1>1, <1>4, KindsOfVersions, NamesAssumption DEF Stores, UsersAreBorn
<1>6. /\ DbOK'
      /\ db' = [db EXCEPT ![x] = req[p].staged]
  BY <1>1, <1>5, TargetIsPictures, WriteEffect
<1>7. db[x] \notin Pictures
  BY <1>1, <1>4, KindsOfVersions
<1>8. req[p].staged = Target(p)
  BY <1>7, TargetIsPictures DEF Target, Pictures
<1>9. overtaken \subseteq Assets /\ NamesOf(db[x]) = {}
  BY <1>7 DEF Stores, TypeOK, NamesOf
<1> QED BY <1>2, <1>6, <1>8, <1>9 DEF Replacement

LEMMA EffectTaken ==
    ASSUME Stores, NEW p \in Txns, req[p].pc # "idle", TakesEffect(p)
    PROVE  DbOK' /\ (Replacement(p) \/ TooLate(p))
BY ProfileEffect, CommunityEffect, NewEffect DEF TakesEffect

LEMMA EffectKeepsTypes ==
    ASSUME Stores, NEW p \in Txns, Replacement(p) \/ TooLate(p)
    PROVE  requested' \subseteq Assets /\ overtaken' \subseteq Assets
<1>1. requested \subseteq Assets /\ overtaken \subseteq Assets
  BY DEF Stores, TypeOK
<1>2. NamesOf(req[p].staged) \subseteq Assets /\ NamesOf(db[req[p].doc]) \subseteq Assets
  BY NamesOfAre, KindsOfVersions
<1>3. CASE Replacement(p)
  BY <1>1, <1>2, <1>3 DEF Replacement
<1>4. CASE TooLate(p)
  BY <1>1, <1>2, <1>4 DEF TooLate
<1> QED BY <1>3, <1>4

-----------------------------------------------------------------------------
(* What a removal does.                                                    *)

Emptied(D) ==
    /\ D \subseteq Docs
    /\ db' \in [Docs -> Versions]
    /\ \A d \in Docs \ D : db'[d] = db[d]
    /\ \A d \in D : NamesOf(db'[d]) = {}
    /\ requested' = requested \cup UNION {NamesOf(db[d]) : d \in D}
    /\ UNCHANGED <<asset, req, lost, overtaken>>

LEMMA RemoveEffect ==
    ASSUME Stores, NEW p \in Txns, NEW gone, NEW bare, snap[p] # None,
           gone \subseteq Docs, bare \subseteq Docs, Remove(p, gone, bare)
    PROVE  DbOK' /\ \E D \in SUBSET Docs : Emptied(D)
<1> DEFINE D == gone \cup bare
           t == [d \in Docs |-> IF d \in gone THEN Gone
                                ELSE IF d \in bare THEN NoPictures ELSE snap[p][d]]
<1>1. Commit(p, t, D)
  BY DEF Remove
<1>2. snap[p] \in [Docs -> Versions]
  BY DEF Stores, TypeOK
<1>3. t \in [Docs -> Versions]
  BY <1>2, KindsOfVersions DEF Versions
<1>4. /\ \A d \in Docs \ D : t[d] = snap[p][d]
      /\ \A d \in D : t[d] \in {Gone, NoPictures}
  OBVIOUS
<1>5. \A d \in D : snap[p][d] \in Pictures \cup {Pending}
  BY DEF Remove, Exists
<1>6. requested' = requested \cup UNION {NamesOf(snap[p][d]) : d \in D}
  BY DEF Remove
<1>7. UNCHANGED <<asset, req, lost, overtaken>>
  BY DEF Remove, history
<1> HIDE DEF t
<1>8. /\ db' = [d \in Docs |-> IF d \in D THEN t[d] ELSE db[d]]
      /\ \A d \in D : db[d] = snap[p][d]
  BY <1>1, <1>2, <1>3, <1>4, CommitEffect DEF Stores
<1>9. \A u \in D \cap Users : snap[p][u] \in Pictures /\ t[u] \in Pictures \cup {Gone}
  BY <1>4, <1>5, <1>8, KindsOfVersions, NamesAssumption DEF Stores, UsersAreBorn
<1>10. DbOK'
  BY <1>1, <1>3, <1>4, <1>9, CommitKeepsDb
<1>11. db' \in [Docs -> Versions]
  BY <1>10 DEF DbOK
<1>12. NamesOf(Gone) = {} /\ NamesOf(NoPictures) = {}
  BY KindsOfVersions, NamesOfAre DEF NamesOf, NoPictures
<1>13. \A d \in D : NamesOf(db'[d]) = {}
  BY <1>4, <1>8, <1>12
<1>14. requested' = requested \cup UNION {NamesOf(db[d]) : d \in D}
  BY <1>6, <1>8
<1>15. Emptied(D)
  BY <1>7, <1>8, <1>11, <1>13, <1>14 DEF Emptied
<1> QED BY <1>10, <1>15

LEMMA RemovalEffect ==
    ASSUME Stores, NEW p \in Txns, Removal(p)
    PROVE  /\ DbOK'
           /\ \/ UNCHANGED <<db, asset, requested, req, lost, overtaken>>
              \/ \E D \in SUBSET Docs : Emptied(D)
<1>1. CASE BeginRemoval(p)
  BY <1>1, BeginRereads, RereadsKeepsDb DEF BeginRemoval, history
<1>2. CASE RemovalFails(p)
  BY <1>2, BeginRereads, RereadsKeepsDb DEF RemovalFails, history
<1>3. CASE snap[p] # None /\ RemoveContents(p)
  <2>1. \E xs \in SUBSET Contents, ys \in SUBSET Contents : Remove(p, xs, ys)
    BY <1>3, UserDocs DEF RemoveContents
  <2> QED BY <1>3, <2>1, UserDocs, RemoveEffect
<1>4. CASE snap[p] # None /\ \E k \in Communities : RemoveCommunity(p, k)
  <2>1. PICK k \in Communities, xs \in SUBSET Contents : Remove(p, xs \cup {k}, {})
    BY <1>4 DEF RemoveCommunity
  <2> QED BY <1>4, <2>1, UserDocs, RemoveEffect
<1>5. CASE snap[p] # None /\ \E u \in Users : PurgeAccount(p, u)
  <2>1. PICK u \in Users, ds \in SUBSET (Contents \cup Communities), cs \in SUBSET Comments :
          Remove(p, ds, cs \cup {u}) \/ Remove(p, ds \cup {u}, cs)
    BY <1>5 DEF PurgeAccount
  <2>2. ds \subseteq Docs /\ cs \subseteq Docs /\ u \in Docs
    BY <2>1, UserDocs
  <2> QED BY <1>5, <2>1, <2>2, RemoveEffect
<1> QED BY <1>1, <1>2, <1>3, <1>4, <1>5 DEF Removal

-----------------------------------------------------------------------------
(* The forms a step can have.                                              *)

\* A request uploads and comes to hold what it uploaded.
Uploads(p, r) ==
    /\ At(p, "idle")
    /\ r \in Request /\ r.pc \in {"staged", "failed"}
    /\ r.doc \in Docs /\ (r.kind = "profile" => r.doc \in Users)
    /\ req' = [req EXCEPT ![p] = r]
    /\ asset' = [a \in Assets |-> IF a \in NamesOf(r.staged) THEN "stored" ELSE asset[a]]
    /\ \A a \in NamesOf(r.staged) : asset[a] = "new"
    /\ \A f, g \in Fields : r.staged[f] = r.staged[g] /\ r.staged[f] # None => f = g
    /\ r.old # None =>
         /\ db[r.doc] \in Pictures
         /\ \E f \in Fields : r.staged[f] # None /\ r.old = db[r.doc][f]
    /\ \A d \in Docs : db'[d] = db[d] \/ (db[d] \notin Pictures /\ db'[d] \notin Pictures)
    /\ UNCHANGED <<requested, lost, overtaken>>

\* An upload is answered to nobody.
Strays(a) ==
    /\ asset[a] = "new"
    /\ asset' = [asset EXCEPT ![a] = "stored"]
    /\ lost' = lost \cup {a}
    /\ UNCHANGED <<db, requested, req, overtaken>>

\* Nothing happens to pictures.
Rests ==
    /\ UNCHANGED <<db, asset, requested, req, overtaken>>
    /\ lost \subseteq lost' /\ lost' \subseteq Assets

\* The outcome of a transaction is a failure or unknown.
Fails(p) ==
    /\ At(p, "staged")
    /\ \E label \in {"failed", "undecided"} : Goto(p, label)
    /\ UNCHANGED <<db, asset, requested, lost, overtaken>>

\* The transaction of a request takes effect.
Settles(p) ==
    /\ req[p].pc \in {"staged", "undecided"}
    /\ Replacement(p) \/ TooLate(p)
    /\ lost \subseteq lost' /\ lost' \subseteq Assets
    /\ \/ Goto(p, "committed")
       \/ Ends(p) /\ (req[p].kind = "profile" /\ req[p].old # None => req[p].old \in lost')
    /\ UNCHANGED asset

\* A request ends; what it had in hand is deleted, asked for or lost.
GivesBack(p) ==
    /\ Ends(p)
    /\ requested \subseteq requested' /\ requested' \subseteq Assets
    /\ \A a \in requested' \ requested : Staged(p, a)
    /\ \E D \in SUBSET InHand(p) : asset' = [a \in Assets |-> IF a \in D THEN "deleted" ELSE asset[a]]
    /\ \A a \in InHand(p) : asset'[a] = "deleted" \/ a \in requested' \cup lost'
    /\ lost \subseteq lost' /\ lost' \subseteq Assets
    /\ UNCHANGED <<db, overtaken>>

CleansUp(a) ==
    /\ a \in requested
    /\ asset' = [asset EXCEPT ![a] = "deleted"]
    /\ UNCHANGED <<db, requested, req, lost, overtaken>>

Form ==
    \/ \E p \in Txns : \/ \E r \in Request : Uploads(p, r)
                       \/ Fails(p) \/ Settles(p) \/ GivesBack(p)
    \/ \E a \in Assets : Strays(a) \/ CleansUp(a)
    \/ \E D \in SUBSET Docs : Emptied(D)
    \/ Rests

LEMMA StageEffect ==
    ASSUME Stores, NEW p \in Txns, NEW kind \in Kinds, NEW d \in Docs, NEW fs,
           NEW old \in Assets \cup {None}, NEW label \in {"staged", "failed"},
           kind = "profile" => d \in Users,
           old # None => db[d] \in Pictures /\ \E f \in fs : old = db[d][f],
           \A e \in Docs : db'[e] = db[e] \/ (db[e] \notin Pictures /\ db'[e] \notin Pictures),
           Stage(p, kind, d, fs, old, label)
    PROVE  \E r \in Request : Uploads(p, r)
<1>1. fs \subseteq FieldsOf(d) /\ At(p, "idle")
  BY DEF Stage
<1>2. fs \subseteq Fields
  BY <1>1 DEF FieldsOf, Fields
<1>3. PICK up \in [fs -> {a \in Assets : asset[a] = "new"}] :
         /\ \A f, g \in fs : up[f] = up[g] => f = g
         /\ Uploaded({up[f] : f \in fs})
         /\ req' = [req EXCEPT ![p] =
              [pc |-> label, kind |-> kind, doc |-> d, old |-> old,
               staged |-> [f \in Fields |-> IF f \in fs THEN up[f] ELSE None]]]
  BY DEF Stage
<1> DEFINE staged == [f \in Fields |-> IF f \in fs THEN up[f] ELSE None]
           r == [pc |-> label, kind |-> kind, doc |-> d, old |-> old, staged |-> staged]
<1>4. staged \in Pictures
  BY <1>3 DEF Pictures
<1>5. \A f \in Fields : staged[f] = IF f \in fs THEN up[f] ELSE None
  OBVIOUS
<1>6. \A f \in fs : up[f] \in Assets /\ asset[up[f]] = "new" /\ up[f] # None
  BY <1>3, NamesAssumption
<1> HIDE DEF staged
<1>7. NamesOf(staged) = {up[f] : f \in fs}
  BY <1>2, <1>4, <1>5, <1>6, NamesOfAre
<1>8. r \in Request
  BY <1>4, UserDocs DEF Request
<1>9. /\ r.pc = label /\ r.kind = kind /\ r.doc = d /\ r.old = old /\ r.staged = staged
  OBVIOUS
<1>10. req' = [req EXCEPT ![p] = r]
  BY <1>3 DEF staged
<1> HIDE DEF r
<1>11. asset' = [a \in Assets |-> IF a \in NamesOf(r.staged) THEN "stored" ELSE asset[a]]
  BY <1>3, <1>7, <1>9 DEF Uploaded
<1>12. \A a \in NamesOf(r.staged) : asset[a] = "new"
  BY <1>6, <1>7, <1>9
<1>13. \A f, g \in Fields : r.staged[f] = r.staged[g] /\ r.staged[f] # None => f = g
  BY <1>3, <1>5, <1>9
<1>14. r.old # None =>
         /\ db[r.doc] \in Pictures
         /\ \E f \in Fields : r.staged[f] # None /\ r.old = db[r.doc][f]
  BY <1>2, <1>5, <1>6, <1>9
<1>15. UNCHANGED <<requested, lost, overtaken>>
  BY DEF Stage
<1>16. r.doc \in Docs /\ (r.kind = "profile" => r.doc \in Users) /\ r.pc \in {"staged", "failed"}
  BY <1>9
<1>17. Uploads(p, r)
  BY <1>1, <1>8, <1>10, <1>11, <1>12, <1>13, <1>14, <1>15, <1>16 DEF Uploads
<1> QED BY <1>8, <1>17

LEMMA StartEffect ==
    ASSUME Stores, NEW p \in Txns, StartRequest(p)
    PROVE  DbOK' /\ \E r \in Request : Uploads(p, r)
<1>1. ASSUME NEW u \in Users, NEW f \in Fields, StageProfile(p, u, f)
      PROVE  DbOK' /\ \E r \in Request : Uploads(p, r)
  <2>1. /\ db[u] \in Pictures
        /\ Stage(p, "profile", u, {f}, db[u][f], "staged")
        /\ UNCHANGED stores
    BY <1>1 DEF StageProfile
  <2>2. DbOK' /\ db' = db
    BY <2>1, UnchangedKeepsDb
  <2>3. db[u][f] \in Assets \cup {None}
    BY <2>1, KindsOfVersions
  <2> QED BY <2>1, <2>2, <2>3, UserDocs, StageEffect DEF Kinds
<1>2. ASSUME NEW k \in Communities, StageNewCommunity(p, k) \/ StageCommunity(p, k)
      PROVE  DbOK' /\ \E r \in Request : Uploads(p, r)
  <2>1. UNCHANGED stores
    BY <1>2 DEF StageNewCommunity, StageCommunity
  <2>2. \E kind \in {"newCommunity", "community"}, label \in {"staged", "failed"},
           fs \in {{"avatar"}} \cup SUBSET Fields : Stage(p, kind, k, fs, None, label)
    BY <1>2 DEF StageNewCommunity, StageCommunity
  <2>3. DbOK' /\ db' = db
    BY <2>1, UnchangedKeepsDb
  <2> QED BY <2>2, <2>3, UserDocs, StageEffect DEF Kinds
<1>3. ASSUME NEW x \in Contents, StageAttachment(p, x)
      PROVE  DbOK' /\ \E r \in Request : Uploads(p, r)
  <2>1. UNCHANGED stores /\ Stage(p, "attachment", x, {"image"}, None, "staged")
    BY <1>3 DEF StageAttachment
  <2>2. DbOK' /\ db' = db
    BY <2>1, UnchangedKeepsDb
  <2> QED BY <2>1, <2>2, UserDocs, StageEffect DEF Kinds
<1>4. ASSUME NEW x \in Posts, StagePost(p, x)
      PROVE  DbOK' /\ \E r \in Request : Uploads(p, r)
  <2>1. /\ db[x] = Unborn /\ WriteAlone(x, Pending)
        /\ Stage(p, "post", x, {"image"}, None, "staged")
    BY <1>4 DEF StagePost, IsFree
  <2>2. x \in Docs /\ x \notin Users
    BY UserDocs
  <2>3. /\ db' = [db EXCEPT ![x] = Pending] /\ snap' = snap
        /\ missed' \in [Txns -> SUBSET Docs] /\ SnapshotsAreExact'
    BY <2>1, <2>2, WriteAloneEffect DEF Stores
  <2>4. /\ db' \in [Docs -> Versions] /\ \A u \in Users : db'[u] = db[u]
        /\ \A d \in Docs : db'[d] = IF d = x THEN Pending ELSE db[d]
    BY <2>2, <2>3, UserDocs DEF Stores, TypeOK, Versions
  <2>5. UsersAreBorn' /\ GoneForGood'
    BY <2>3, <2>4 DEF Stores, UsersAreBorn, GoneForGood
  <2>6. DbOK'
    BY <2>3, <2>4, <2>5 DEF Stores, TypeOK, DbOK
  <2>7. \A e \in Docs : db'[e] = db[e] \/ (db[e] \notin Pictures /\ db'[e] \notin Pictures)
    BY <2>1, <2>4, KindsOfVersions
  <2> QED BY <2>1, <2>2, <2>6, <2>7, StageEffect DEF Kinds
<1> QED BY <1>1, <1>2, <1>3, <1>4 DEF StartRequest

LEMMA InHandAre ==
    ASSUME Stores, NEW p \in Txns
    PROVE  /\ InHand(p) \subseteq Assets
           /\ At(p, "idle") => InHand(p) = {}
           /\ At(p, "committed") => InHand(p) = {req[p].old} \ {None}
           /\ Holding(p) => InHand(p) = NamesOf(req[p].staged)
           /\ At(p, "idle") \/ At(p, "committed") \/ Holding(p)
           /\ \A a : Staged(p, a) /\ a # None => a \in InHand(p)
           /\ \A a \in InHand(p) :
                Staged(p, a) \/ (At(p, "committed") /\ a = req[p].old /\ a # None)
<1>1. req[p] \in Request /\ req[p].staged \in Pictures /\ req[p].old \in Assets \cup {None}
  BY TargetIsPictures
<1>2. req[p].pc \in {"idle", "staged", "undecided", "committed", "failed"}
  BY <1>1 DEF Request
<1>3. \A a : a \in NamesOf(req[p].staged) <=> a # None /\ \E f \in Fields : req[p].staged[f] = a
  BY <1>1, NamesOfAre
<1>4. NamesOf(req[p].staged) \subseteq Assets
  BY <1>1, <1>3, KindsOfVersions
<1>5. InHand(p) = IF req[p].pc = "idle" THEN {}
                  ELSE IF req[p].pc = "committed" THEN {req[p].old} \ {None}
                  ELSE NamesOf(req[p].staged)
  BY <1>2 DEF InHand, At
<1> QED BY <1>1, <1>2, <1>3, <1>4, <1>5 DEF At, Holding, Staged

LEMMA ProceedEffect ==
    ASSUME Stores, NEW p \in Txns, Proceed(p)
    PROVE  DbOK' /\ (Fails(p) \/ Settles(p) \/ GivesBack(p) \/ Rests)
<1> USE DEF history
<1>1. lost \subseteq Assets /\ requested \subseteq Assets
  BY DEF Stores, TypeOK
<1>2. CASE BeginTransaction(p)
  BY <1>1, <1>2, BeginRereads, RereadsKeepsDb DEF BeginTransaction, Rests
<1>3. CASE Committed(p)
  <2>1. req[p].pc = "staged" /\ TakesEffect(p) /\ UNCHANGED <<asset, lost>>
    BY <1>3 DEF Committed, At
  <2>2. DbOK' /\ (Replacement(p) \/ TooLate(p))
    BY <2>1, EffectTaken
  <2>3. Goto(p, "committed") \/ (Ends(p) /\ req[p].kind # "profile")
    BY <1>3 DEF Committed
  <2> QED BY <1>1, <2>1, <2>2, <2>3 DEF Settles
<1>4. CASE GivesUp(p)
  <2>1. DbOK' /\ db' = db
    BY <1>4, BeginRereads, RereadsKeepsDb, UnchangedKeepsDb DEF GivesUp
  <2> QED BY <1>4, <2>1 DEF GivesUp, Fails
<1>5. CASE CommitUnanswered(p)
  <2>1. DbOK' /\ db' = db
    BY <1>5, UnchangedKeepsDb DEF CommitUnanswered
  <2> QED BY <1>5, <2>1 DEF CommitUnanswered, Fails
<1>6. CASE Lands(p)
  <2>1. req[p].pc = "undecided" /\ TakesEffect(p) /\ UNCHANGED asset /\ Ends(p)
    BY <1>6 DEF Lands, At
  <2>2. DbOK' /\ (Replacement(p) \/ TooLate(p))
    BY <2>1, EffectTaken
  <2>3. lost' = lost \cup ({req[p].old} \ {None}) /\ req[p].old \in Assets \cup {None}
    BY <1>6, TargetIsPictures DEF Lands
  <2> QED BY <1>1, <2>1, <2>2, <2>3 DEF Settles
<1>7. CASE NeverLands(p)
  <2>1. DbOK' /\ db' = db
    BY <1>7, BeginRereads, RereadsKeepsDb DEF NeverLands
  <2>2. /\ At(p, "undecided") /\ Ends(p) /\ UNCHANGED <<asset, requested, overtaken>>
        /\ lost' = lost \cup NamesOf(req[p].staged)
    BY <1>7 DEF NeverLands
  <2>3. InHand(p) = NamesOf(req[p].staged) /\ InHand(p) \subseteq Assets
    BY <2>2, InHandAre DEF At, Holding
  <2>4. \E D \in SUBSET InHand(p) :
          asset' = [a \in Assets |-> IF a \in D THEN "deleted" ELSE asset[a]]
    <3>1. asset' = [a \in Assets |-> IF a \in {} THEN "deleted" ELSE asset[a]]
      BY <2>2 DEF Stores, TypeOK
    <3>2. {} \in SUBSET InHand(p)
      OBVIOUS
    <3> QED BY <3>1, <3>2
  <2> QED BY <1>1, <2>1, <2>2, <2>3, <2>4 DEF GivesBack
<1>8. CASE DeleteOld(p)
  <2>1. DbOK' /\ db' = db
    BY <1>8, UnchangedKeepsDb DEF DeleteOld
  <2>2. /\ At(p, "committed") /\ Ends(p) /\ UNCHANGED <<requested, overtaken>>
        /\ \/ Deleted({req[p].old} \ {None}) /\ UNCHANGED lost
           \/ lost' = lost \cup ({req[p].old} \ {None}) /\ UNCHANGED asset
    BY <1>8 DEF DeleteOld
  <2>3. InHand(p) = {req[p].old} \ {None} /\ InHand(p) \subseteq Assets
    BY <2>2, InHandAre
  <2>4. CASE Deleted(InHand(p)) /\ UNCHANGED lost
    <3>1. asset' = [a \in Assets |-> IF a \in InHand(p) THEN "deleted" ELSE asset[a]]
      BY <2>4 DEF Deleted
    <3> QED BY <1>1, <2>1, <2>2, <2>3, <2>4, <3>1 DEF GivesBack
  <2>5. CASE lost' = lost \cup InHand(p) /\ UNCHANGED asset
    <3>1. \E D \in SUBSET InHand(p) :
            asset' = [a \in Assets |-> IF a \in D THEN "deleted" ELSE asset[a]]
      <4>1. asset' = [a \in Assets |-> IF a \in {} THEN "deleted" ELSE asset[a]]
        BY <2>5 DEF Stores, TypeOK
      <4>2. {} \in SUBSET InHand(p)
        OBVIOUS
      <4> QED BY <4>1, <4>2
    <3> QED BY <1>1, <2>1, <2>2, <2>3, <2>5, <3>1 DEF GivesBack
  <2> QED BY <2>2, <2>3, <2>4, <2>5
<1>9. CASE Compensate(p)
  <2>1. DbOK' /\ db' = db
    BY <1>9, UnchangedKeepsDb DEF Compensate
  <2>2. At(p, "failed") /\ Ends(p) /\ UNCHANGED overtaken
    BY <1>9 DEF Compensate
  <2>3. InHand(p) = NamesOf(req[p].staged) /\ InHand(p) \subseteq Assets
    BY <2>2, InHandAre DEF At, Holding
  <2>4. PICK queued, deleted \in SUBSET InHand(p) :
          /\ requested' = requested \cup queued
          /\ Deleted(deleted)
          /\ lost' = lost \cup (InHand(p) \ (queued \cup deleted))
    BY <1>9, <2>3 DEF Compensate
  <2>5. asset' = [a \in Assets |-> IF a \in deleted THEN "deleted" ELSE asset[a]]
    BY <2>4 DEF Deleted
  <2>6. \A a \in queued : Staged(p, a)
    BY <2>2, <2>4, InHandAre DEF At
  <2>7. /\ requested \subseteq requested' /\ requested' \subseteq Assets
        /\ lost \subseteq lost' /\ lost' \subseteq Assets
        /\ \A a \in requested' \ requested : Staged(p, a)
        /\ \A a \in InHand(p) : asset'[a] = "deleted" \/ a \in requested' \cup lost'
    BY <1>1, <2>3, <2>4, <2>5, <2>6
  <2> QED BY <2>1, <2>2, <2>4, <2>5, <2>7 DEF GivesBack
<1> QED BY <1>2, <1>3, <1>4, <1>5, <1>6, <1>7, <1>8, <1>9 DEF Proceed

LEMMA CrashEffect ==
    ASSUME Stores, NEW p \in Txns, Crash(p)
    PROVE  DbOK' /\ GivesBack(p)
<1>1. DbOK' /\ db' = db
  BY BeginRereads, RereadsKeepsDb, UnchangedKeepsDb DEF Crash
<1>2. Ends(p) /\ UNCHANGED <<asset, requested, overtaken>>
  BY DEF Crash
<1>3. req[p].pc \in {"staged", "committed", "failed"}
  BY DEF Crash
<1>4. lost' = lost \cup InHand(p)
  <2>1. CASE At(p, "committed")
    BY <2>1, InHandAre DEF Crash
  <2>2. CASE ~At(p, "committed")
    <3>1. Holding(p)
      BY <1>3, <2>2 DEF At, Holding
    <3> QED BY <2>2, <3>1, InHandAre DEF Crash
  <2> QED BY <2>1, <2>2
<1>5. \E D \in SUBSET InHand(p) :
        asset' = [a \in Assets |-> IF a \in D THEN "deleted" ELSE asset[a]]
  <2>1. asset' = [a \in Assets |-> IF a \in {} THEN "deleted" ELSE asset[a]]
    BY <1>2 DEF Stores, TypeOK
  <2>2. {} \in SUBSET InHand(p)
    OBVIOUS
  <2> QED BY <2>1, <2>2
<1>6. lost \subseteq Assets /\ requested \subseteq Assets /\ InHand(p) \subseteq Assets
  BY InHandAre DEF Stores, TypeOK
<1> QED BY <1>1, <1>2, <1>4, <1>5, <1>6 DEF GivesBack

LEMMA StepsHaveForms ==
    ASSUME Stores, [Next]_vars
    PROVE  DbOK' /\ Form
<1>1. lost \subseteq Assets /\ requested \subseteq Assets
  BY DEF Stores, TypeOK
<1>2. ASSUME NEW p \in Txns, StartRequest(p) PROVE DbOK' /\ Form
  BY <1>2, StartEffect DEF Form
<1>3. ASSUME NEW p \in Txns, Proceed(p) PROVE DbOK' /\ Form
  BY <1>3, ProceedEffect DEF Form
<1>4. ASSUME NEW p \in Txns, RunAgain(p) PROVE DbOK' /\ Form
  <2>1. Rereads(p)
    BY <1>4 DEF RunAgain, Rereads
  <2> QED BY <1>1, <1>4, <2>1, RereadsKeepsDb DEF RunAgain, history, Rests, Form
<1>5. ASSUME NEW p \in Txns, Crash(p) PROVE DbOK' /\ Form
  BY <1>5, CrashEffect DEF Form
<1>6. ASSUME NEW p \in Txns, Removal(p) PROVE DbOK' /\ Form
  BY <1>1, <1>6, RemovalEffect DEF Form, Rests
<1>7. ASSUME NEW a \in Assets, UploadUnanswered(a) PROVE DbOK' /\ Form
  <2>1. DbOK' /\ db' = db
    BY <1>7, UnchangedKeepsDb DEF UploadUnanswered
  <2>2. asset' = [asset EXCEPT ![a] = "stored"]
    BY <1>7 DEF UploadUnanswered, Uploaded, Stores, TypeOK
  <2> QED BY <1>7, <2>1, <2>2 DEF UploadUnanswered, Strays, Form
<1>8. ASSUME NEW a \in Assets, CleanupEnds(a) PROVE DbOK' /\ Form
  <2>1. DbOK' /\ db' = db
    BY <1>8, UnchangedKeepsDb DEF CleanupEnds, Cleanup, CleanupFails
  <2>2. CASE Cleanup(a)
    <3>1. asset' = [asset EXCEPT ![a] = "deleted"]
      BY <2>2 DEF Cleanup, Deleted, Stores, TypeOK
    <3> QED BY <2>1, <2>2, <3>1 DEF Cleanup, history, CleansUp, Form
  <2>3. CASE CleanupFails(a)
    BY <1>1, <2>1, <2>3 DEF CleanupFails, Rests, Form
  <2> QED BY <1>8, <2>2, <2>3, <2>1 DEF CleanupEnds
<1>9. CASE UNCHANGED vars
  BY <1>1, <1>9, UnchangedKeepsDb DEF vars, stores, Rests, Form
<1> QED BY <1>2, <1>3, <1>4, <1>5, <1>6, <1>7, <1>8, <1>9 DEF Next

LEMMA FormsKeepRequests ==
    ASSUME Stores, Form
    PROVE  ReqOK'
<1>1. ReqOK
  BY StoresAre
<1>2. ASSUME NEW p \in Txns, NEW r \in Request, Uploads(p, r) PROVE ReqOK'
  <2>1. req' \in [Txns -> Request]
    BY <1>1, <1>2 DEF ReqOK, Uploads
  <2>2. asset' \in [Assets -> {"new", "stored", "deleted"}]
    BY <1>1, <1>2 DEF ReqOK, Uploads
  <2>3. RequestsNameDocs'
    BY <1>1, <1>2 DEF ReqOK, Uploads, RequestsNameDocs
  <2> QED BY <1>1, <1>2, <2>1, <2>2, <2>3 DEF ReqOK, Uploads
<1>3. ASSUME NEW p \in Txns, NEW label \in {"failed", "undecided", "committed"},
             Goto(p, label), req[p].pc \in {"staged", "undecided"}
      PROVE  req' \in [Txns -> Request] /\ RequestsNameDocs'
  <2>1. \A q \in Txns : req'[q] = IF q = p THEN [req[p] EXCEPT !.pc = label] ELSE req[q]
    BY <1>1, <1>3 DEF ReqOK, Goto
  <2>2. req' \in [Txns -> Request]
    BY <1>1, <1>3 DEF ReqOK, Goto, Request
  <2>3. req'[p].doc = req[p].doc /\ req'[p].kind = req[p].kind
    BY <1>1, <2>1 DEF ReqOK, Request
  <2>4. RequestsNameDocs'
    BY <1>1, <1>3, <2>1, <2>3 DEF ReqOK, RequestsNameDocs
  <2> QED BY <2>2, <2>4
<1>4. ASSUME NEW p \in Txns, Ends(p) PROVE req' \in [Txns -> Request] /\ RequestsNameDocs'
  <2>1. req' = [req EXCEPT ![p] = NoRequest]
    BY <1>4 DEF Ends
  <2> QED BY <1>1, <2>1, NoRequestIs DEF ReqOK, RequestsNameDocs
<1>5. ASSUME NEW p \in Txns, Fails(p) PROVE ReqOK'
  BY <1>1, <1>3, <1>5 DEF ReqOK, Fails, At
<1>6. ASSUME NEW p \in Txns, Settles(p) PROVE ReqOK'
  <2>1. requested' \subseteq Assets /\ overtaken' \subseteq Assets
    BY <1>6, EffectKeepsTypes DEF Settles
  <2> QED BY <1>1, <1>3, <1>4, <1>6, <2>1 DEF ReqOK, Settles
<1>7. ASSUME NEW p \in Txns, GivesBack(p) PROVE ReqOK'
  <2>1. PICK D \in SUBSET InHand(p) : asset' = [a \in Assets |-> IF a \in D THEN "deleted" ELSE asset[a]]
    BY <1>7 DEF GivesBack
  <2>2. asset' \in [Assets -> {"new", "stored", "deleted"}]
    BY <1>1, <2>1 DEF ReqOK
  <2> QED BY <1>1, <1>4, <1>7, <2>2 DEF ReqOK, GivesBack
<1>8. ASSUME NEW a \in Assets, Strays(a) \/ CleansUp(a) PROVE ReqOK'
  BY <1>1, <1>8 DEF ReqOK, Strays, CleansUp, RequestsNameDocs
<1>9. ASSUME NEW D \in SUBSET Docs, Emptied(D) PROVE ReqOK'
  <2>1. UNION {NamesOf(db[d]) : d \in D} \subseteq Assets
    BY NamesOfAre, KindsOfVersions
  <2> QED BY <1>1, <1>9, <2>1 DEF ReqOK, Emptied, RequestsNameDocs
<1>10. CASE Rests
  BY <1>1, <1>10 DEF ReqOK, Rests, RequestsNameDocs
<1> QED BY <1>2, <1>5, <1>6, <1>7, <1>8, <1>9, <1>10 DEF Form

LEMMA StepsKeepStores ==
    ASSUME Stores, [Next]_vars
    PROVE  Stores' /\ Form
BY StepsHaveForms, FormsKeepRequests, PrimedStoresAre

-----------------------------------------------------------------------------
(* Which places name a picture, and who holds it.                          *)

Named(d, f, a) == db[d] \in Pictures /\ db[d][f] = a /\ a # None

LEMMA NamedAre ==
    /\ \A a : a \in Names(db) <=> \E d \in Docs, f \in Fields : Named(d, f, a)
    /\ \A a : a \in Names(db)' <=> \E d \in Docs, f \in Fields : Named(d, f, a)'
    /\ \A d, a : a \in NamesOf(db[d]) <=> \E f \in Fields : Named(d, f, a)
    /\ \A d, a : a \in NamesOf(db'[d]) <=> \E f \in Fields : Named(d, f, a)'
BY NamesAre, NamesOfAre DEF Named

LEMMA OneNameIs ==
    /\ OneName <=> \A d, e \in Docs, f, g \in Fields : \A a :
                       Named(d, f, a) /\ Named(e, g, a) => d = e /\ f = g
    /\ OneName' <=> \A d, e \in Docs, f, g \in Fields : \A a :
                       Named(d, f, a)' /\ Named(e, g, a)' => d = e /\ f = g
BY DEF OneName, Named

LEMMA OldIsKnownIs ==
    /\ OldIsKnown <=> \A q \in Txns : \A old : Replaces(q) /\ req[q].old = old =>
         /\ asset[old] # "new"
         /\ \A o \in Txns : ~Staged(o, old)
         /\ At(q, "committed") => old \notin Names(db)
         /\ \A d \in Docs, f \in Fields :
              Named(d, f, old) => d = req[q].doc /\ req[q].staged[f] # None
    /\ OldIsKnown' <=> \A q \in Txns : \A old : Replaces(q)' /\ req'[q].old = old =>
         /\ asset'[old] # "new"
         /\ \A o \in Txns : ~Staged(o, old)'
         /\ At(q, "committed")' => old \notin Names(db)'
         /\ \A d \in Docs, f \in Fields :
              Named(d, f, old)' => d = req'[q].doc /\ req'[q].staged[f] # None
BY DEF OldIsKnown, Named, Replaces, Staged, At

\* The requests of the others are untouched, and so is what p uploaded unless
\* it no longer holds it.
LEMMA OthersHold ==
    ASSUME Stores, NEW p \in Txns,
           Ends(p) \/ \E label \in {"failed", "undecided", "committed"} : Goto(p, label)
    PROVE  /\ \A q \in Txns \ {p} : req'[q] = req[q]
           /\ \A q \in Txns : \A a : Staged(q, a)' /\ q # p => Staged(q, a)
           /\ Ends(p) \/ Goto(p, "committed") => ~Holding(p)'
           /\ Ends(p) => ~Replaces(p)' /\ ~At(p, "committed")'
           /\ ~Ends(p) => /\ req'[p].staged = req[p].staged
                          /\ req'[p].old = req[p].old /\ req'[p].doc = req[p].doc
<1>1. req \in [Txns -> Request]
  BY DEF Stores, TypeOK
<1>2. CASE Ends(p)
  <2>1. req' = [req EXCEPT ![p] = NoRequest]
    BY <1>2 DEF Ends
  <2>2. req'[p].pc = "idle" /\ \A q \in Txns \ {p} : req'[q] = req[q]
    BY <1>1, <2>1, NoRequestIs
  <2> QED BY <1>2, <2>2 DEF Staged, Holding, Replaces, At
<1>3. CASE ~Ends(p)
  <2>1. PICK label \in {"failed", "undecided", "committed"} : Goto(p, label)
    BY <1>3
  <2>2. req' = [req EXCEPT ![p].pc = label]
    BY <2>1 DEF Goto
  <2>3. \A q \in Txns \ {p} : req'[q] = req[q]
    BY <1>1, <2>2
  <2>4. /\ req'[p].staged = req[p].staged /\ req'[p].pc = label
        /\ req'[p].old = req[p].old /\ req'[p].doc = req[p].doc
    BY <1>1, <2>2 DEF Request
  <2>5. Goto(p, "committed") => label = "committed"
    BY <1>1, <2>4 DEF Goto, Request
  <2> QED BY <1>3, <2>3, <2>4, <2>5 DEF Staged, Holding
<1> QED BY <1>2, <1>3

-----------------------------------------------------------------------------
(* Every form of step keeps the ownership of pictures.                     *)

LEMMA UploadKeepsOwnership ==
    ASSUME IInv, NEW p \in Txns, NEW r \in Request, Uploads(p, r)
    PROVE  Ownership'
<1> USE DEF IInv, Ownership
<1>1. /\ \A d \in Docs, f \in Fields : \A a : Named(d, f, a)' <=> Named(d, f, a)
      /\ Names(db)' = Names(db)
  <2>1. \A d \in Docs, f \in Fields : \A a : Named(d, f, a)' <=> Named(d, f, a)
    BY DEF Uploads, Named
  <2> QED BY <2>1, NamedAre
<1>2. req'[p] = r /\ \A q \in Txns \ {p} : req'[q] = req[q]
  BY DEF Uploads, Stores, TypeOK
<1>3. r.pc \in {"staged", "failed"} /\ req[p].pc = "idle"
  BY DEF Uploads, At
<1>4. \A a : a \in NamesOf(r.staged) <=> a # None /\ \E f \in Fields : r.staged[f] = a
  BY NamesOfAre DEF Request
<1>5. /\ \A a \in Assets : Staged(p, a)' => a \in NamesOf(r.staged)
      /\ \A q \in Txns \ {p}, a \in Assets : Staged(q, a)' => Staged(q, a)
  BY <1>2, <1>4, NamesAssumption DEF Staged, Holding
<1>6. \A a \in NamesOf(r.staged) : asset[a] = "new"
  BY DEF Uploads
<1>7. \A a \in Assets : asset'[a] = IF a \in NamesOf(r.staged) THEN "stored" ELSE asset[a]
  BY DEF Uploads
<1>8. requested' = requested /\ requested \subseteq Assets
  BY DEF Uploads, Stores, TypeOK
<1>9. Names(db) \subseteq Assets
  BY NamesAreAssets
<1>10. OneName'
  BY <1>1, OneNameIs
<1>11. NamedIsKept' /\ RequestedWasUploaded'
  BY <1>1, <1>7, <1>8, <1>9 DEF NamedIsKept, RequestedWasUploaded
<1>12. StagedIsKept'
  <2> SUFFICES ASSUME NEW q \in Txns, NEW a \in Assets, Staged(q, a)'
               PROVE  /\ asset'[a] = "stored" /\ a \notin requested /\ a \notin Names(db)
                      /\ \A o \in Txns : Staged(o, a)' => o = q
    BY <1>1, <1>8 DEF StagedIsKept
  <2>1. CASE q = p
    <3>1. a \in NamesOf(r.staged) /\ asset[a] = "new"
      BY <1>5, <1>6, <2>1
    <3> QED BY <1>5, <1>7, <2>1, <3>1 DEF NamedIsKept, StagedIsKept, RequestedWasUploaded
  <2>2. CASE q # p
    <3>1. Staged(q, a) /\ asset[a] = "stored"
      BY <1>5, <2>2 DEF StagedIsKept
    <3>2. ~Staged(p, a)'
      BY <1>5, <1>6, <3>1
    <3> QED BY <1>5, <1>7, <2>2, <3>1, <3>2 DEF StagedIsKept
  <2> QED BY <2>1, <2>2
<1>13. StagedOnce'
  BY <1>2 DEF StagedOnce, Holding, Uploads
<1>14. OldIsKnown'
  <2> SUFFICES ASSUME NEW q \in Txns, NEW old, Replaces(q)', req'[q].old = old
               PROVE  /\ asset'[old] # "new"
                      /\ \A o \in Txns : ~Staged(o, old)'
                      /\ At(q, "committed")' => old \notin Names(db)
                      /\ \A d \in Docs, f \in Fields :
                           Named(d, f, old) => d = req'[q].doc /\ req'[q].staged[f] # None
    BY <1>1, OldIsKnownIs
  <2>1. CASE q # p
    <3>1. Replaces(q) /\ req'[q] = req[q] /\ (At(q, "committed")' => At(q, "committed"))
      BY <1>2, <2>1 DEF Replaces, At
    <3>2. old \in Assets
      BY <3>1, TargetIsPictures DEF Replaces
    <3>3. ~Staged(p, old)'
      BY <1>5, <1>6, <3>1, <3>2, OldIsKnownIs
    <3>4. \A o \in Txns : ~Staged(o, old)'
      BY <1>5, <3>1, <3>2, <3>3, OldIsKnownIs
    <3> QED BY <1>7, <3>1, <3>2, <3>4, OldIsKnownIs
  <2>2. CASE q = p
    <3>1. old = r.old /\ r.old # None /\ r.doc \in Docs
      BY <1>2, <2>2 DEF Uploads, Replaces
    <3>2. PICK f \in Fields : Named(r.doc, f, old) /\ r.staged[f] # None
      BY <3>1 DEF Uploads, Named
    <3>3. old \in Names(db) /\ old \in Assets /\ asset[old] = "stored"
      BY <1>9, <3>1, <3>2, NamedAre DEF NamedIsKept
    <3>4. \A o \in Txns : ~Staged(o, old)'
      BY <1>5, <1>6, <3>3 DEF StagedIsKept
    <3>5. \A d \in Docs, g \in Fields : Named(d, g, old) => d = r.doc /\ g = f
      BY <3>1, <3>2, OneNameIs
    <3>6. ~At(q, "committed")' /\ req'[q] = r
      BY <1>2, <1>3, <2>2 DEF At
    <3> QED BY <1>7, <3>2, <3>3, <3>4, <3>5, <3>6
  <2> QED BY <2>1, <2>2
<1> QED BY <1>10, <1>11, <1>12, <1>13, <1>14

\* Steps after which the same places name pictures, each document at most what
\* it named, and the requests are as before.
LEMMA QuietStepsKeepOwnership ==
    ASSUME IInv, Rests \/ \E a \in Assets : Strays(a) \/ CleansUp(a)
    PROVE  Ownership'
<1> USE DEF IInv, Ownership
<1>1. db' = db /\ req' = req /\ requested' = requested
  BY DEF Rests, Strays, CleansUp
<1>2. requested \subseteq Assets /\ Names(db) \subseteq Assets
  BY NamesAreAssets DEF Stores, TypeOK
<1>3. \A a \in Assets : /\ asset[a] = "stored" /\ a \notin requested => asset'[a] = "stored"
                        /\ asset[a] # "new" => asset'[a] # "new"
  BY DEF Rests, Strays, CleansUp, Stores, TypeOK
<1>4. /\ \A q \in Txns : \A a : Staged(q, a)' <=> Staged(q, a)
      /\ \A q \in Txns : Replaces(q)' <=> Replaces(q)
      /\ \A q \in Txns : At(q, "committed")' <=> At(q, "committed")
      /\ \A d, f, a : Named(d, f, a)' <=> Named(d, f, a)
      /\ Names(db)' = Names(db)
  BY <1>1 DEF Staged, Holding, Replaces, At, Named
<1>5. OneName' /\ StagedOnce'
  BY <1>1 DEF OneName, StagedOnce, Holding
<1>6. NamedIsKept' /\ StagedIsKept' /\ RequestedWasUploaded'
  BY <1>1, <1>2, <1>3, <1>4 DEF NamedIsKept, StagedIsKept, RequestedWasUploaded
<1>7. \A q \in Txns : Replaces(q) => req[q].old \in Assets
  BY TargetIsPictures DEF Replaces
<1>8. OldIsKnown'
  BY <1>1, <1>3, <1>4, <1>7, OldIsKnownIs
<1> QED BY <1>5, <1>6, <1>8

LEMMA FailureKeepsOwnership ==
    ASSUME IInv, NEW p \in Txns, Fails(p)
    PROVE  Ownership'
<1> USE DEF IInv, Ownership
<1>1. req[p].pc = "staged" /\ db' = db /\ asset' = asset /\ requested' = requested
  BY DEF Fails, At
<1>2. PICK label \in {"failed", "undecided"} : req' = [req EXCEPT ![p].pc = label]
  BY DEF Fails, Goto
<1>3. req \in [Txns -> Request]
  BY DEF Stores, TypeOK
<1>4. /\ \A q \in Txns \ {p} : req'[q] = req[q]
      /\ req'[p].staged = req[p].staged /\ req'[p].pc = label
      /\ req'[p].old = req[p].old /\ req'[p].doc = req[p].doc
  BY <1>2, <1>3 DEF Request
<1>5. /\ \A q \in Txns : \A a : Staged(q, a)' <=> Staged(q, a)
      /\ \A q \in Txns : Replaces(q)' => Replaces(q)
      /\ \A q \in Txns : At(q, "committed")' <=> At(q, "committed")
      /\ \A q \in Txns : Holding(q)' <=> Holding(q)
      /\ \A q \in Txns : /\ req'[q].staged = req[q].staged /\ req'[q].old = req[q].old
                         /\ req'[q].doc = req[q].doc
  BY <1>1, <1>4 DEF Staged, Holding, Replaces, At
<1>6. /\ \A d, f, a : Named(d, f, a)' <=> Named(d, f, a)
      /\ Names(db)' = Names(db)
  BY <1>1 DEF Named
<1>7. OneName' /\ NamedIsKept' /\ RequestedWasUploaded'
  BY <1>1 DEF OneName, NamedIsKept, RequestedWasUploaded
<1>8. StagedIsKept' /\ StagedOnce'
  BY <1>1, <1>5, <1>6 DEF StagedIsKept, StagedOnce
<1>9. OldIsKnown'
  BY <1>1, <1>5, <1>6, OldIsKnownIs
<1> QED BY <1>7, <1>8, <1>9

LEMMA GivingBackKeepsOwnership ==
    ASSUME IInv, NEW p \in Txns, GivesBack(p)
    PROVE  Ownership'
<1> USE DEF IInv, Ownership
<1>1. db' = db /\ Ends(p) /\ requested \subseteq requested' /\ requested' \subseteq Assets
  BY DEF GivesBack
<1>2. \A a \in requested' \ requested : Staged(p, a)
  BY DEF GivesBack
<1>3. PICK D \in SUBSET InHand(p) : asset' = [a \in Assets |-> IF a \in D THEN "deleted" ELSE asset[a]]
  BY DEF GivesBack
<1>4. \A a \in D : Staged(p, a) \/ (At(p, "committed") /\ a = req[p].old /\ Replaces(p))
  BY InHandAre DEF Replaces, At
<1>5. \A a \in D : a \notin Names(db) /\ \A q \in Txns : Staged(q, a) => q = p
  BY <1>4, InHandAre, OldIsKnownIs DEF StagedIsKept
<1>6. \A a \in Assets : /\ a \notin D => asset'[a] = asset[a]
                        /\ asset[a] # "new" => asset'[a] # "new"
  BY <1>3
<1>7. /\ \A d, f, a : Named(d, f, a)' <=> Named(d, f, a)
      /\ Names(db)' = Names(db) /\ Names(db) \subseteq Assets
  BY <1>1, NamesAreAssets DEF Named
<1>8. /\ \A q \in Txns \ {p} : req'[q] = req[q]
      /\ \A q \in Txns : \A a : Staged(q, a)' => q # p /\ Staged(q, a)
      /\ \A q \in Txns : Holding(q)' \/ Replaces(q)' => q # p
  BY <1>1, OthersHold DEF Staged
<1>9. OneName'
  BY <1>1 DEF OneName
<1>10. NamedIsKept'
  BY <1>2, <1>5, <1>6, <1>7 DEF NamedIsKept, StagedIsKept
<1>11. RequestedWasUploaded'
  BY <1>1, <1>2, <1>6 DEF RequestedWasUploaded, StagedIsKept
<1>12. StagedIsKept'
  BY <1>2, <1>5, <1>6, <1>7, <1>8 DEF StagedIsKept
<1>13. StagedOnce'
  BY <1>8 DEF StagedOnce, Holding
<1>14. OldIsKnown'
  <2>1. \A q \in Txns : Replaces(q) => req[q].old \in Assets
    BY TargetIsPictures DEF Replaces
  <2>2. \A q \in Txns : Replaces(q)' =>
            Replaces(q) /\ req'[q] = req[q] /\ (At(q, "committed")' => At(q, "committed"))
    BY <1>8 DEF Replaces, At
  <2> QED BY <1>6, <1>7, <1>8, <2>1, <2>2, OldIsKnownIs
<1> QED BY <1>9, <1>10, <1>11, <1>12, <1>13, <1>14

LEMMA EmptyingKeepsOwnership ==
    ASSUME IInv, NEW D \in SUBSET Docs, Emptied(D)
    PROVE  Ownership'
<1> USE DEF IInv, Ownership
<1>1. req' = req /\ asset' = asset
  BY DEF Emptied
<1>2. \A d \in Docs, f \in Fields : \A a : Named(d, f, a)' <=> d \notin D /\ Named(d, f, a)
  <2>1. \A d \in D, f \in Fields : \A a : ~Named(d, f, a)'
    BY NamedAre DEF Emptied
  <2> QED BY <2>1 DEF Emptied, Named
<1>3. Names(db)' \subseteq Names(db) /\ Names(db) \subseteq Assets
  BY <1>2, NamedAre, NamesAreAssets
<1>4. \A a : a \in requested' <=> a \in requested \/ \E d \in D, f \in Fields : Named(d, f, a)
  BY NamedAre DEF Emptied
<1>5. \A a : a \in requested' => a \in requested \cup Names(db)
  BY <1>4, NamedAre
<1>6. /\ \A q \in Txns : \A a : Staged(q, a)' <=> Staged(q, a)
      /\ \A q \in Txns : Replaces(q)' <=> Replaces(q)
      /\ \A q \in Txns : At(q, "committed")' <=> At(q, "committed")
  BY <1>1 DEF Staged, Holding, Replaces, At
<1>7. OneName'
  BY <1>2, OneNameIs
<1>8. NamedIsKept'
  <2> SUFFICES ASSUME NEW a \in Names(db)' PROVE asset'[a] = "stored" /\ a \notin requested'
    BY DEF NamedIsKept
  <2>1. PICK d \in Docs \ D, f \in Fields : Named(d, f, a)
    BY <1>2, NamedAre
  <2>2. \A e \in D, g \in Fields : ~Named(e, g, a)
    BY <2>1, OneNameIs
  <2> QED BY <1>1, <1>3, <1>4, <2>2 DEF NamedIsKept
<1>9. RequestedWasUploaded'
  BY <1>1, <1>5 DEF RequestedWasUploaded, NamedIsKept
<1>10. StagedIsKept'
  BY <1>1, <1>3, <1>5, <1>6 DEF StagedIsKept
<1>11. StagedOnce'
  BY <1>1 DEF StagedOnce, Holding
<1>12. OldIsKnown'
  BY <1>1, <1>2, <1>3, <1>6, OldIsKnownIs
<1> QED BY <1>7, <1>8, <1>9, <1>10, <1>11, <1>12

\* A transaction took effect and replaced the pictures of a document.
LEMMA ReplacementKeepsOwnership ==
    ASSUME IInv, NEW p \in Txns, Settles(p), Replacement(p)
    PROVE  Ownership'
<1> USE DEF IInv, Ownership
<1> DEFINE w == Target(p)
<1>0. PICK x : x = req[p].doc
  OBVIOUS
<1>1. req[p].pc \in {"staged", "undecided"} /\ asset' = asset /\ x \in Docs
  BY <1>0 DEF Settles, Stores, RequestsNameDocs
<1>2. Goto(p, "committed") \/ Ends(p)
  BY DEF Settles
<1>3. /\ \A q \in Txns \ {p} : req'[q] = req[q]
      /\ \A q \in Txns : \A a : Staged(q, a)' => q # p /\ Staged(q, a)
      /\ \A q \in Txns : Holding(q)' => q # p
      /\ Replaces(p)' => req'[p].old = req[p].old /\ req[p].old # None
  BY <1>2, OthersHold DEF Staged, Replaces
<1>4. w \in Pictures /\ db' = [db EXCEPT ![x] = w] /\ db \in [Docs -> Versions]
  BY <1>0, TargetIsPictures DEF Replacement, Stores, TypeOK
<1>5. \A f \in Fields : w[f] = IF req[p].staged[f] # None THEN req[p].staged[f]
                               ELSE IF db[x] \in Pictures THEN db[x][f] ELSE None
  BY <1>0 DEF Target
<1>6. Holding(p) /\ \A f \in Fields : req[p].staged[f] # None =>
          Staged(p, req[p].staged[f]) /\ req[p].staged[f] \in Assets
  BY <1>1, TargetIsPictures, KindsOfVersions DEF Staged, Holding
<1> HIDE DEF w
<1>7. \A d \in Docs, f \in Fields : \A a : Named(d, f, a)' <=>
          \/ d # x /\ Named(d, f, a)
          \/ d = x /\ req[p].staged[f] = None /\ Named(d, f, a)
          \/ d = x /\ req[p].staged[f] = a /\ a # None
  <2>1. \A d \in Docs \ {x} : db'[d] = db[d]
    BY <1>4
  <2>2. db'[x] = w
    BY <1>1, <1>4
  <2> QED BY <1>1, <1>4, <1>5, <2>1, <2>2 DEF Named
<1>8. \A a \in Names(db)' : a \in Names(db) \/ Staged(p, a)
  BY <1>1, <1>6, <1>7, NamedAre
<1>9. Names(db) \subseteq Assets /\ Names(db)' \subseteq Assets
  BY NamesAreAssets
<1>10. \A f \in Fields : \A a : req[p].staged[f] = a /\ a # None =>
           \A d \in Docs, g \in Fields : ~Named(d, g, a)
  BY <1>6, NamedAre DEF StagedIsKept
<1>11. requested \subseteq requested' /\ \A a \in requested' \ requested :
           a \in Names(db) /\ a \notin Names(db)'
  <2>1. requested \subseteq requested' /\ \A a \in requested' \ requested :
            a \in NamesOf(db[x]) /\ a \notin NamesOf(w)
    BY <1>0 DEF Replacement, w
  <2>2. \A a \in NamesOf(db[x]) : \A d \in Docs \ {x}, f \in Fields : ~Named(d, f, a)
    BY <1>1, NamedAre, OneNameIs
  <2>3. db'[x] = w
    BY <1>1, <1>4
  <2>4. \A a \in requested' \ requested : a \in Names(db) /\ \A f \in Fields : ~Named(x, f, a)'
    BY <1>1, <2>1, <2>3, NamedAre
  <2>5. \A a \in requested' \ requested : a \notin Names(db)'
    BY <1>7, <2>1, <2>2, <2>4, NamedAre
  <2> QED BY <2>1, <2>4, <2>5
<1>12. OneName'
  BY <1>1, <1>6, <1>7, <1>10, OneNameIs DEF StagedOnce
<1>13. NamedIsKept'
  BY <1>1, <1>8, <1>9, <1>11 DEF NamedIsKept, StagedIsKept
<1>14. RequestedWasUploaded'
  BY <1>1, <1>11 DEF RequestedWasUploaded, NamedIsKept
<1>15. StagedIsKept'
  BY <1>1, <1>3, <1>8, <1>11 DEF StagedIsKept
<1>16. StagedOnce'
  BY <1>3 DEF StagedOnce, Holding
<1>17. OldIsKnown'
  <2> SUFFICES ASSUME NEW q \in Txns, NEW old, Replaces(q)', req'[q].old = old
               PROVE  /\ asset'[old] # "new"
                      /\ \A o \in Txns : ~Staged(o, old)'
                      /\ At(q, "committed")' => old \notin Names(db)'
                      /\ \A d \in Docs, f \in Fields :
                           Named(d, f, old)' => d = req'[q].doc /\ req'[q].staged[f] # None
    BY OldIsKnownIs
  <2>1. old # None /\ Replaces(q) /\ req[q].old = old
    BY <1>1, <1>3 DEF Replaces
  <2>2. /\ asset[old] # "new"
        /\ \A o \in Txns : ~Staged(o, old)
        /\ At(q, "committed") => old \notin Names(db)
        /\ \A d \in Docs, f \in Fields :
             Named(d, f, old) => d = req[q].doc /\ req[q].staged[f] # None
    BY <2>1, OldIsKnownIs
  <2>3. \A d \in Docs, f \in Fields : Named(d, f, old)' =>
            /\ Named(d, f, old) /\ (d = x => req[p].staged[f] = None)
    BY <1>6, <1>7, <2>2
  <2>4. CASE q = p
    <3>1. \A d \in Docs, f \in Fields : ~Named(d, f, old)'
      BY <1>0, <2>2, <2>3, <2>4
    <3> QED BY <1>1, <1>3, <2>2, <3>1, NamedAre
  <2>5. CASE q # p
    <3>1. req'[q] = req[q] /\ (At(q, "committed")' => At(q, "committed"))
      BY <1>3, <2>5 DEF At
    <3>2. old \in Names(db)' => old \in Names(db)
      BY <2>3, NamedAre
    <3> QED BY <1>1, <1>3, <2>2, <2>3, <3>1, <3>2
  <2> QED BY <2>4, <2>5
<1> QED BY <1>12, <1>13, <1>14, <1>15, <1>16, <1>17

\* A transaction took effect after the account was gone.
LEMMA LatenessKeepsOwnership ==
    ASSUME IInv, NEW p \in Txns, Settles(p), TooLate(p)
    PROVE  Ownership'
<1> USE DEF IInv, Ownership
<1>1. /\ req[p].pc \in {"staged", "undecided"} /\ asset' = asset /\ db' = db
      /\ requested' = requested /\ db[req[p].doc] \notin Pictures
  BY DEF Settles, TooLate
<1>2. Goto(p, "committed") \/ Ends(p)
  BY DEF Settles
<1>3. /\ \A q \in Txns \ {p} : req'[q] = req[q]
      /\ \A q \in Txns : \A a : Staged(q, a)' => q # p /\ Staged(q, a)
      /\ \A q \in Txns : Holding(q)' => q # p
      /\ Replaces(p)' => /\ req'[p].old = req[p].old /\ req[p].old # None
                         /\ req'[p].doc = req[p].doc /\ req'[p].staged = req[p].staged
  BY <1>2, OthersHold DEF Staged, Replaces
<1>4. /\ \A d, f, a : Named(d, f, a)' <=> Named(d, f, a)
      /\ Names(db)' = Names(db)
  BY <1>1 DEF Named
<1>5. OneName' /\ NamedIsKept' /\ RequestedWasUploaded'
  BY <1>1 DEF OneName, NamedIsKept, RequestedWasUploaded
<1>6. StagedIsKept' /\ StagedOnce'
  BY <1>1, <1>3, <1>4 DEF StagedIsKept, StagedOnce, Holding
<1>7. OldIsKnown'
  <2>1. \A q \in Txns \ {p} : Replaces(q)' =>
            Replaces(q) /\ req'[q] = req[q] /\ (At(q, "committed")' => At(q, "committed"))
    BY <1>3 DEF Replaces, At
  <2>2. Replaces(p)' => Replaces(p)
    BY <1>1, <1>3 DEF Replaces
  <2>3. ASSUME NEW old, Replaces(p), req[p].old = old PROVE old \notin Names(db)
    BY <1>1, <2>3, OldIsKnownIs, NamedAre DEF Named
  <2> QED BY <1>1, <1>3, <1>4, <2>1, <2>2, <2>3, OldIsKnownIs
<1> QED BY <1>5, <1>6, <1>7

-----------------------------------------------------------------------------
(* The invariant holds.                                                    *)

LEMMA FormsKeepOwnership ==
    ASSUME IInv, Form
    PROVE  Ownership'
BY UploadKeepsOwnership, FailureKeepsOwnership, ReplacementKeepsOwnership,
   LatenessKeepsOwnership, GivingBackKeepsOwnership, QuietStepsKeepOwnership,
   EmptyingKeepsOwnership DEF Form, Settles

LEMMA InitHolds == Init => IInv /\ OrphansArePaidFor
<1> SUFFICES ASSUME Init PROVE IInv /\ OrphansArePaidFor
  OBVIOUS
<1>1. /\ db \in [Docs -> {Unborn, NoPictures}] /\ \A u \in Users : db[u] = NoPictures
      /\ snap = [p \in Txns |-> None] /\ missed = [p \in Txns |-> {}]
      /\ asset = [a \in Assets |-> "new"] /\ requested = {}
      /\ req = [p \in Txns |-> NoRequest] /\ lost = {} /\ overtaken = {}
  BY DEF Init
<1>2. TypeOK
  <2>1. db \in [Docs -> Versions]
    BY <1>1, KindsOfVersions DEF Versions
  <2>2. req \in [Txns -> Request]
    BY <1>1, NoRequestIs
  <2> QED BY <1>1, <2>1, <2>2 DEF TypeOK
<1>3. \A p \in Txns : snap[p] = None /\ req[p].pc = "idle"
  BY <1>1, NoRequestIs
<1>4. SnapshotsAreExact /\ GoneForGood /\ RequestsNameDocs
  BY <1>3 DEF SnapshotsAreExact, GoneForGood, RequestsNameDocs
<1>5. UsersAreBorn
  BY <1>1, KindsOfVersions DEF UsersAreBorn
<1>6. \A d \in Docs, f \in Fields : \A a : ~Named(d, f, a)
  BY <1>1, KindsOfVersions DEF Named, NoPictures
<1>7. Names(db) = {}
  BY <1>6, NamedAre
<1>8. OneName
  BY <1>6, OneNameIs
<1>9. NamedIsKept /\ RequestedWasUploaded
  BY <1>1, <1>7 DEF NamedIsKept, RequestedWasUploaded
<1>10. StagedIsKept /\ StagedOnce /\ OldIsKnown
  BY <1>3 DEF StagedIsKept, StagedOnce, OldIsKnown, Staged, Holding, Replaces
<1>11. OrphansArePaidFor
  BY <1>1 DEF OrphansArePaidFor
<1> QED BY <1>2, <1>4, <1>5, <1>8, <1>9, <1>10, <1>11 DEF IInv, Stores, Ownership

LEMMA StepsKeepIInv == IInv /\ [Next]_vars => IInv'
BY StepsKeepStores, FormsKeepOwnership DEF IInv

\* Every reachable state has the right types, a picture is named at one place,
\* what a request uploaded is its own until it is named, and the picture it
\* will delete is not one that a document comes to name meanwhile.
THEOREM Invariance == Spec => []IInv
<1>1. Init => IInv
  BY InitHolds
<1>2. IInv /\ [Next]_vars => IInv'
  BY StepsKeepIInv
<1> QED BY <1>1, <1>2, PTL DEF Spec

\* No document names a picture that was never stored or that was deleted, by
\* whomever: a request that replaces or compensates (deletePicture,
\* deleteAsset) or the worker that handles the clean-up events.
THEOREM PicturesAreKept == Spec => []NoDanglingPicture
<1>1. IInv => NoDanglingPicture
  BY DEF IInv, Ownership, NamedIsKept, NoDanglingPicture
<1> QED BY <1>1, Invariance, PTL

-----------------------------------------------------------------------------
(* Orphans.                                                                *)

\* What a request still has to name or to delete.
HandOf(r) ==
    IF r.pc = "idle" THEN {}
    ELSE IF r.pc = "committed" THEN {r.old} \ {None} ELSE NamesOf(r.staged)

LEMMA HandIs ==
    ASSUME NEW p
    PROVE  InHand(p) = HandOf(req[p]) /\ InHand(p)' = HandOf(req'[p])
BY DEF InHand, HandOf, At

\* Somebody answers for asset a.
Answered(a) ==
    \/ asset[a] # "stored"
    \/ a \in Names(db) \/ a \in requested
    \/ \E q \in Txns : a \in HandOf(req[q])
    \/ a \in lost \/ a \in overtaken

LEMMA AnsweredIs ==
    /\ OrphansArePaidFor <=> \A a \in Assets : Answered(a)
    /\ OrphansArePaidFor' <=> \A a \in Assets : Answered(a)'
BY HandIs DEF OrphansArePaidFor, Answered

LEMMA FormsKeepAnswers ==
    ASSUME Stores, Form, NEW a \in Assets, Answered(a)
    PROVE  Answered(a)'
<1>1. req \in [Txns -> Request] /\ asset \in [Assets -> {"new", "stored", "deleted"}]
  BY DEF Stores, TypeOK
<1>2. ASSUME NEW p \in Txns, NEW r \in Request, Uploads(p, r) PROVE Answered(a)'
  <2>1. req'[p] = r /\ req[p].pc = "idle" /\ \A q \in Txns \ {p} : req'[q] = req[q]
    BY <1>1, <1>2 DEF Uploads, At
  <2>2. HandOf(req[p]) = {} /\ HandOf(req'[p]) = NamesOf(r.staged)
    BY <1>2, <2>1 DEF HandOf, Uploads
  <2>3. asset'[a] = IF a \in NamesOf(r.staged) THEN "stored" ELSE asset[a]
    BY <1>2 DEF Uploads
  <2>4. Names(db)' = Names(db)
    <3>1. \A d \in Docs, f \in Fields : \A b : Named(d, f, b)' <=> Named(d, f, b)
      BY <1>2 DEF Uploads, Named
    <3> QED BY <3>1, NamedAre
  <2>5. UNCHANGED <<requested, lost, overtaken>>
    BY <1>2 DEF Uploads
  <2> QED BY <2>1, <2>2, <2>3, <2>4, <2>5 DEF Answered
<1>3. ASSUME NEW p \in Txns, Fails(p) PROVE Answered(a)'
  <2>1. PICK label \in {"failed", "undecided"} : req' = [req EXCEPT ![p].pc = label]
    BY <1>3 DEF Fails, Goto
  <2>2. /\ \A q \in Txns \ {p} : req'[q] = req[q]
        /\ req'[p].pc = label /\ req'[p].staged = req[p].staged /\ req[p].pc = "staged"
    BY <1>1, <1>3, <2>1 DEF Request, Fails, At
  <2>3. \A q \in Txns : HandOf(req'[q]) = HandOf(req[q])
    BY <2>2 DEF HandOf
  <2> QED BY <1>3, <2>3 DEF Fails, Answered
<1>4. ASSUME NEW p \in Txns, Settles(p) PROVE Answered(a)'
  <2>1. PICK x : x = req[p].doc
    OBVIOUS
  <2>2. /\ req[p].pc \in {"staged", "undecided"} /\ asset' = asset /\ lost \subseteq lost'
        /\ x \in Docs /\ HandOf(req[p]) = NamesOf(req[p].staged)
    BY <1>4, <2>1 DEF Settles, Stores, RequestsNameDocs, HandOf
  <2>3. \A q \in Txns \ {p} : req'[q] = req[q]
    BY <1>4, OthersHold DEF Settles
  <2>4. req[p].kind = "profile" /\ a = req[p].old => a \in HandOf(req'[p]) \/ a \in lost'
    <3>1. CASE Goto(p, "committed")
      <4>1. req' = [req EXCEPT ![p].pc = "committed"]
        BY <3>1 DEF Goto
      <4>2. req'[p].pc = "committed" /\ req'[p].old = req[p].old
        BY <1>1, <4>1 DEF Request
      <4> QED BY <4>2, NamesAssumption DEF HandOf
    <3>2. CASE req[p].kind = "profile" /\ req[p].old # None => req[p].old \in lost'
      BY <3>2, NamesAssumption
    <3> QED BY <1>4, <3>1, <3>2 DEF Settles
  <2>5. CASE Replacement(p)
    <3> DEFINE w == Target(p)
    <3>1. w \in Pictures /\ db' = [db EXCEPT ![x] = w] /\ db \in [Docs -> Versions]
      BY <2>1, <2>5, TargetIsPictures DEF Replacement, Stores, TypeOK
    <3>2. \A f \in Fields : req[p].staged[f] # None => w[f] = req[p].staged[f]
      BY DEF Target
    <3>3. /\ requested \subseteq requested' /\ overtaken \subseteq overtaken'
          /\ a \in NamesOf(db[x]) /\ a \notin NamesOf(w) =>
               \/ a \in requested' \cup overtaken'
               \/ req[p].kind = "profile" /\ a = req[p].old
      BY <2>1, <2>5 DEF Replacement
    <3> HIDE DEF w
    <3>4. db'[x] = w /\ \A d \in Docs \ {x} : db'[d] = db[d]
      BY <2>2, <3>1
    <3>5. NamesOf(w) \subseteq Names(db)'
      BY <2>2, <3>4, NamedAre
    <3>6. CASE a \in HandOf(req[p])
      <4>1. a \in NamesOf(w)
        BY <2>2, <3>1, <3>2, <3>6, NamesOfAre
      <4> QED BY <3>5, <4>1 DEF Answered
    <3>7. CASE a \in Names(db)
      <4>1. PICK d \in Docs, f \in Fields : Named(d, f, a)
        BY <3>7, NamedAre
      <4>2. CASE d # x
        <5>1. Named(d, f, a)'
          BY <3>4, <4>1, <4>2 DEF Named
        <5> QED BY <5>1, NamedAre DEF Answered
      <4>3. CASE d = x
        <5>1. a \in NamesOf(db[x])
          BY <4>1, <4>3, NamedAre
        <5> QED BY <2>4, <3>3, <3>5, <5>1 DEF Answered
      <4> QED BY <4>2, <4>3
    <3> QED BY <2>2, <2>3, <3>3, <3>6, <3>7 DEF Answered
  <2>6. CASE TooLate(p)
    BY <2>2, <2>3, <2>6 DEF TooLate, Answered
  <2> QED BY <1>4, <2>5, <2>6 DEF Settles
<1>5. ASSUME NEW p \in Txns, GivesBack(p) PROVE Answered(a)'
  <2>1. /\ \A q \in Txns \ {p} : req'[q] = req[q]
        /\ db' = db /\ overtaken' = overtaken
        /\ requested \subseteq requested' /\ lost \subseteq lost'
    BY <1>5, OthersHold DEF GivesBack
  <2>2. asset'[a] = asset[a] \/ asset'[a] = "deleted"
    BY <1>5 DEF GivesBack
  <2>3. a \in HandOf(req[p]) => asset'[a] = "deleted" \/ a \in requested' \cup lost'
    BY <1>5, HandIs DEF GivesBack
  <2> QED BY <2>1, <2>2, <2>3 DEF Answered
<1>6. ASSUME NEW b \in Assets, Strays(b) \/ CleansUp(b) PROVE Answered(a)'
  <2>1. \/ asset'[a] = asset[a] \/ asset'[a] = "deleted" \/ a \in lost'
    BY <1>1, <1>6 DEF Strays, CleansUp
  <2> QED BY <1>6, <2>1 DEF Strays, CleansUp, Answered
<1>7. ASSUME NEW D \in SUBSET Docs, Emptied(D) PROVE Answered(a)'
  <2>1. a \in Names(db) => a \in Names(db)' \/ a \in requested'
    <3> SUFFICES ASSUME NEW d \in Docs, NEW f \in Fields, Named(d, f, a)
                 PROVE  a \in Names(db)' \/ a \in requested'
      BY NamedAre
    <3>1. CASE d \in D
      BY <1>7, <3>1, NamedAre DEF Emptied
    <3>2. CASE d \notin D
      <4>1. Named(d, f, a)'
        BY <1>7, <3>2 DEF Emptied, Named
      <4> QED BY <4>1, NamedAre
    <3> QED BY <3>1, <3>2
  <2> QED BY <1>7, <2>1 DEF Emptied, Answered
<1>8. CASE Rests
  BY <1>8 DEF Rests, Answered
<1> QED BY <1>2, <1>3, <1>4, <1>5, <1>6, <1>7, <1>8 DEF Form

\* An asset that is stored although no document names it is somebody's to
\* delete, of a request or of a clean-up event, or was left behind by an upload
\* nobody learnt of, a deletion that failed, a process that died or a
\* concurrent change of the same profile.
THEOREM OrphansAreKnown == Spec => []OrphansArePaidFor
<1>1. Init => OrphansArePaidFor
  BY InitHolds
<1>2. IInv /\ OrphansArePaidFor /\ [Next]_vars => OrphansArePaidFor'
  BY StepsKeepStores, FormsKeepAnswers, AnsweredIs DEF IInv
<1> QED BY <1>1, <1>2, Invariance, PTL DEF Spec
=============================================================================
