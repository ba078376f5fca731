-------------------------- MODULE FeedPagesProofs --------------------------
(***************************************************************************)
(* Proofs about FeedPages for any number of posts, generations, faults and *)
(* page sizes: what a reader sees twice is explained, and at the end of a  *)
(* feed nothing that was there all the time has been left out.             *)
(***************************************************************************)
EXTENDS FeedPages, FiniteSetTheorems, SequenceTheorems, TLAPS

-----------------------------------------------------------------------------
(* Sequences.                                                              *)

LEMMA MinIs ==
    ASSUME NEW a \in Int, NEW b \in Int
    PROVE  Min({a, b}) = IF a <= b THEN a ELSE b
<1> DEFINE m == IF a <= b THEN a ELSE b
<1>1. m \in {a, b} /\ \A y \in {a, b} : m <= y
  OBVIOUS
<1>2. \A x \in {a, b} : (\A y \in {a, b} : x <= y) => x = m
  OBVIOUS
<1> HIDE DEF m
<1>3. Min({a, b}) = m
  BY <1>1, <1>2 DEF Min
<1> QED BY <1>3 DEF m

LEMMA TakeIs ==
    ASSUME NEW S, NEW s \in Seq(S), NEW n \in Nat, NEW t, t = Take(s, n)
    PROVE  /\ t \in Seq(S)
           /\ Len(t) = IF Len(s) <= n THEN Len(s) ELSE n
           /\ \A i \in 1 .. Len(t) : t[i] = s[i]
<1>1. Len(s) \in Nat
  OBVIOUS
<1> DEFINE m == IF Len(s) <= n THEN Len(s) ELSE n
<1>2. t = SubSeq(s, 1, m)
  BY <1>1, MinIs DEF Take
<1>3. m \in Nat /\ m <= Len(s)
  BY <1>1
<1> HIDE DEF m
<1>4. \A i \in 1 .. m : s[i] \in S
  BY <1>3
<1>5. /\ SubSeq(s, 1, m) \in Seq(S)
      /\ Len(SubSeq(s, 1, m)) = IF 1 <= m THEN m - 1 + 1 ELSE 0
      /\ \A i \in 1 .. m - 1 + 1 : SubSeq(s, 1, m)[i] = s[1 + i - 1]
  BY <1>3, <1>4, SubSeqProperties
<1>6. (IF 1 <= m THEN m - 1 + 1 ELSE 0) = m
  BY <1>3
<1>7. Len(t) = m
  BY <1>2, <1>5, <1>6
<1>8. \A i \in 1 .. m : t[i] = s[i]
  <2> TAKE i \in 1 .. m
  <2>1. i \in 1 .. m - 1 + 1 /\ 1 + i - 1 = i
    BY <1>3
  <2> QED BY <1>2, <1>5, <2>1
<1> QED BY <1>2, <1>5, <1>7, <1>8 DEF m

\* A finite set of numbers has an increasing enumeration: the number of smaller
\* members tells the place of each.
LEMMA OrderExists ==
    ASSUME NEW S \in SUBSET Nat, IsFiniteSet(S)
    PROVE  \E s \in [1 .. Cardinality(S) -> S] : \A i, j \in DOMAIN s : i < j => s[i] < s[j]
<1> DEFINE n == Cardinality(S)
           Below(x) == {y \in S : y < x}
           r == [x \in S |-> Cardinality(Below(x)) + 1]
<1>1. n \in Nat
  BY FS_CardinalityType
<1>2. ASSUME NEW x \in S
      PROVE  IsFiniteSet(Below(x)) /\ Cardinality(Below(x)) \in Nat /\ Cardinality(Below(x)) < n
  <2>1. Below(x) \in SUBSET S /\ Below(x) # S
    OBVIOUS
  <2> HIDE DEF Below
  <2> QED BY <1>1, <2>1, FS_Subset, FS_CardinalityType
<1>3. ASSUME NEW x \in S, NEW z \in S, x < z
      PROVE  Cardinality(Below(x)) < Cardinality(Below(z))
  <2>1. Below(x) \in SUBSET Below(z) /\ Below(x) # Below(z)
    <3>1. x \in Below(z) /\ x \notin Below(x)
      BY <1>3
    <3>2. \A y \in S : y < x => y < z
      <4>1. \A y, a, b \in Nat : y < a /\ a < b => y < b
        OBVIOUS
      <4> QED BY <1>3, <4>1
    <3> QED BY <3>1, <3>2
  <2>2. IsFiniteSet(Below(z)) /\ Cardinality(Below(x)) \in Nat /\ Cardinality(Below(z)) \in Nat
    BY <1>2
  <2> HIDE DEF Below
  <2> QED BY <2>1, <2>2, FS_Subset
<1> HIDE DEF Below
<1>4. ASSUME NEW x \in S, NEW z \in S, x < z PROVE r[x] < r[z]
  BY <1>2, <1>3, <1>4
<1>5. \A x \in S : r[x] \in 1 .. n
  BY <1>1, <1>2
<1>6. r \in Injection(S, 1 .. n)
  <2>1. r \in [S -> 1 .. n]
    BY <1>5
  <2>2. \A x, z \in S : r[x] = r[z] => x = z
    <3> SUFFICES ASSUME NEW x \in S, NEW z \in S, r[x] = r[z] PROVE x = z
      OBVIOUS
    <3> HIDE DEF r
    <3>1. r[x] \in Int /\ r[z] \in Int
      BY <1>5
    <3> QED BY <1>4, <3>1
  <2> HIDE DEF r
  <2> QED BY <2>1, <2>2 DEF Injection, IsInjective
<1>7. IsFiniteSet(1 .. n) /\ Cardinality(1 .. n) = n
  BY <1>1, FS_Interval
<1> HIDE DEF r
<1>8. r \in Surjection(S, 1 .. n)
  BY <1>6, <1>7, FS_Injection
<1> DEFINE s == [i \in 1 .. n |-> CHOOSE x \in S : r[x] = i]
<1>9. ASSUME NEW i \in 1 .. n PROVE s[i] \in S /\ r[s[i]] = i
  BY <1>8 DEF Surjection
<1> HIDE DEF s
<1>10. s \in [1 .. n -> S]
  BY <1>9 DEF s
<1>11. ASSUME NEW i \in 1 .. n, NEW j \in 1 .. n, i < j PROVE s[i] < s[j]
  <2>1. s[i] \in S /\ s[j] \in S /\ r[s[i]] = i /\ r[s[j]] = j
    BY <1>9
  <2>2. s[i] = s[j] \/ s[j] < s[i] \/ s[i] < s[j]
    <3>1. \A a, b \in Nat : a = b \/ b < a \/ a < b
      OBVIOUS
    <3> QED BY <2>1, <3>1
  <2>3. CASE s[j] < s[i]
    <3>1. r[s[j]] < r[s[i]]
      BY <1>4, <2>1, <2>3
    <3> QED BY <1>1, <1>11, <2>1, <3>1
  <2>4. CASE s[i] = s[j]
    BY <1>1, <1>11, <2>1, <2>4
  <2> QED BY <2>2, <2>3, <2>4
<1> QED BY <1>10, <1>11

LEMMA InOrderIs ==
    ASSUME NEW S \in SUBSET Nat, IsFiniteSet(S), NEW s, s = InOrder(S)
    PROVE  /\ s \in Seq(S)
           /\ Len(s) = Cardinality(S)
           /\ \A i, j \in 1 .. Len(s) : i < j => s[i] < s[j]
           /\ \A x \in S : \E i \in 1 .. Len(s) : s[i] = x
<1> DEFINE n == Cardinality(S)
<1>1. n \in Nat
  BY FS_CardinalityType
<1>2. s \in [1 .. n -> S] /\ \A i, j \in DOMAIN s : i < j => s[i] < s[j]
  BY OrderExists DEF InOrder
<1> HIDE DEF n
<1>3. s \in Seq(S) /\ Len(s) = n /\ DOMAIN s = 1 .. n
  BY <1>1, <1>2
<1>4. s \in Injection(1 .. n, S)
  <2>1. \A i, j \in DOMAIN s : s[i] = s[j] => i = j
    <3> SUFFICES ASSUME NEW i \in DOMAIN s, NEW j \in DOMAIN s, s[i] = s[j] PROVE i = j
      OBVIOUS
    <3>1. s[i] \in S /\ s[j] \in S /\ i \in Nat /\ j \in Nat
      BY <1>1, <1>2, <1>3
    <3>2. s[i] \in Nat /\ s[j] \in Nat
      BY <3>1
    <3>3. i < j => s[i] < s[j]
      BY <1>2
    <3>4. j < i => s[j] < s[i]
      BY <1>2
    <3> QED BY <3>1, <3>2, <3>3, <3>4
  <2> QED BY <1>2, <2>1 DEF Injection, IsInjective
<1>5. Cardinality(1 .. n) = n
  BY <1>1, FS_Interval
<1>6. s \in Surjection(1 .. n, S)
  BY <1>4, <1>5, FS_Injection DEF n
<1>7. \A x \in S : \E i \in 1 .. n : s[i] = x
  BY <1>6 DEF Surjection
<1> QED BY <1>2, <1>3, <1>7 DEF n

LEMMA GreatestExists ==
    ASSUME NEW S \in SUBSET Nat, IsFiniteSet(S), S # {}
    PROVE  \E x \in S : \A y \in S : y <= x
<1>1. PICK s : s = InOrder(S)
  OBVIOUS
<1>2. /\ s \in Seq(S)
      /\ \A i, j \in 1 .. Len(s) : i < j => s[i] < s[j]
      /\ \A x \in S : \E i \in 1 .. Len(s) : s[i] = x
  BY <1>1, InOrderIs
<1>3. Len(s) \in 1 .. Len(s)
  <2>1. PICK x \in S : TRUE
    OBVIOUS
  <2>2. PICK i \in 1 .. Len(s) : s[i] = x
    BY <1>2, <2>1
  <2>3. Len(s) \in Nat
    BY <1>2
  <2> QED BY <2>2, <2>3
<1>4. s[Len(s)] \in S /\ s[Len(s)] \in Nat
  <2>1. s[Len(s)] \in S
    BY <1>2, <1>3, ElementOfSeq
  <2> QED BY <2>1
<1>5. ASSUME NEW y \in S PROVE y <= s[Len(s)]
  <2>1. PICK i \in 1 .. Len(s) : s[i] = y
    BY <1>2
  <2>2. i = Len(s) \/ i < Len(s)
    <3>1. Len(s) \in Nat
      BY <1>2
    <3> QED BY <3>1
  <2>3. CASE i < Len(s)
    <3>1. s[i] < s[Len(s)]
      BY <1>2, <1>3, <2>3
    <3> QED BY <1>4, <2>1, <3>1
  <2>4. CASE i = Len(s)
    BY <1>4, <2>1, <2>4
  <2> QED BY <2>2, <2>3, <2>4
<1> QED BY <1>4, <1>5

LEMMA ReverseIs ==
    ASSUME NEW S, NEW s \in Seq(S), NEW t, t = Reverse(s)
    PROVE  /\ t \in Seq(S)
           /\ Len(t) = Len(s)
           /\ \A i \in 1 .. Len(s) : t[i] = s[Len(s) - i + 1] /\ Len(s) - i + 1 \in 1 .. Len(s)
<1>1. \A i \in 1 .. Len(s) : s[Len(s) - i + 1] \in S /\ Len(s) - i + 1 \in 1 .. Len(s)
  OBVIOUS
<1> QED BY <1>1 DEF Reverse

LEMMA Joined ==
    ASSUME NEW S, NEW s \in Seq(S), NEW t \in Seq(S)
    PROVE  ToSet(s \o t) = ToSet(s) \cup ToSet(t)
<1>1. s \o t \in Seq(S)
  OBVIOUS
<1>2. ASSUME NEW x \in ToSet(s \o t) PROVE x \in ToSet(s) \cup ToSet(t)
  <2>1. PICK i \in 1 .. Len(s) + Len(t) : (s \o t)[i] = x
    BY DEF ToSet
  <2>2. CASE i <= Len(s)
    BY <2>1, <2>2 DEF ToSet
  <2>3. CASE ~(i <= Len(s))
    <3>1. i - Len(s) \in 1 .. Len(t)
      BY <2>1, <2>3
    <3> QED BY <2>1, <2>3, <3>1 DEF ToSet
  <2> QED BY <2>2, <2>3
<1>3. ASSUME NEW i \in 1 .. Len(s) PROVE s[i] \in ToSet(s \o t)
  <2>1. i \in 1 .. Len(s \o t) /\ (s \o t)[i] = s[i]
    OBVIOUS
  <2> QED BY <2>1 DEF ToSet
<1>4. ASSUME NEW i \in 1 .. Len(t) PROVE t[i] \in ToSet(s \o t)
  <2>1. Len(s) + i \in 1 .. Len(s \o t) /\ (s \o t)[Len(s) + i] = t[i]
    OBVIOUS
  <2> QED BY <2>1 DEF ToSet
<1>5. DOMAIN s = 1 .. Len(s) /\ DOMAIN t = 1 .. Len(t)
  OBVIOUS
<1>6. ToSet(s) \subseteq ToSet(s \o t) /\ ToSet(t) \subseteq ToSet(s \o t)
  BY <1>3, <1>4, <1>5 DEF ToSet
<1> QED BY <1>2, <1>6

LEMMA JoinedTwice ==
    ASSUME NEW s \in Seq(Nat), NEW t \in Seq(Nat), NEW u \in Seq(Nat), NEW v, v = s \o t
    PROVE  v \in Seq(Nat) /\ s \o (t \o u) = v \o u
<1>1. (s \o t) \o u = s \o (t \o u) /\ s \o t \in Seq(Nat)
  OBVIOUS
<1> QED BY <1>1

LEMMA JoinedAt ==
    ASSUME NEW s \in Seq(Nat), NEW t \in Seq(Nat), NEW i \in DOMAIN (s \o t)
    PROVE  /\ i \in Nat /\ Len(s) \in Nat
           /\ \/ i \in DOMAIN s /\ i <= Len(s) /\ (s \o t)[i] = s[i]
              \/ \E k \in DOMAIN t : k \in Nat /\ k > 0 /\ i = Len(s) + k /\ (s \o t)[i] = t[k]
<1>1. /\ Len(s) \in Nat /\ Len(t) \in Nat /\ DOMAIN s = 1 .. Len(s) /\ DOMAIN t = 1 .. Len(t)
      /\ i \in 1 .. Len(s) + Len(t)
      /\ (s \o t)[i] = IF i <= Len(s) THEN s[i] ELSE t[i - Len(s)]
  OBVIOUS
<1>2. CASE i <= Len(s)
  BY <1>1, <1>2
<1>3. CASE ~(i <= Len(s))
  <2>1. i - Len(s) \in 1 .. Len(t) /\ i = Len(s) + (i - Len(s)) /\ i - Len(s) > 0
    BY <1>1, <1>3
  <2> QED BY <1>1, <1>3, <2>1
<1> QED BY <1>2, <1>3

LEMMA JoinedOnce ==
    ASSUME NEW s \in Seq(Nat), NEW t \in Seq(Nat),
           \A i, j \in DOMAIN s : s[i] = s[j] => i = j,
           \A i, j \in DOMAIN t : t[i] = t[j] => i = j,
           \A i \in DOMAIN s, j \in DOMAIN t : s[i] # t[j]
    PROVE  \A i, j \in DOMAIN (s \o t) : (s \o t)[i] = (s \o t)[j] => i = j
<1> SUFFICES ASSUME NEW i \in DOMAIN (s \o t), NEW j \in DOMAIN (s \o t),
                    (s \o t)[i] = (s \o t)[j]
             PROVE  i = j
  OBVIOUS
<1>1. \/ i \in DOMAIN s /\ (s \o t)[i] = s[i]
      \/ \E k \in DOMAIN t : i = Len(s) + k /\ (s \o t)[i] = t[k]
  BY JoinedAt, SMTT(30)
<1>2. \/ j \in DOMAIN s /\ (s \o t)[j] = s[j]
      \/ \E k \in DOMAIN t : j = Len(s) + k /\ (s \o t)[j] = t[k]
  BY JoinedAt, SMTT(30)
<1>3. \A k \in DOMAIN t : k \in Nat /\ k > 0
  OBVIOUS
<1>4. Len(s) \in Nat /\ \A k \in DOMAIN s : k \in Nat /\ k <= Len(s)
  OBVIOUS
<1>5. CASE i \in DOMAIN s /\ (s \o t)[i] = s[i]
  <2>1. CASE j \in DOMAIN s /\ (s \o t)[j] = s[j]
    BY <1>5, <2>1
  <2>2. ASSUME NEW k \in DOMAIN t, (s \o t)[j] = t[k] PROVE FALSE
    BY <1>5, <2>2
  <2> QED BY <1>2, <2>1, <2>2
<1>6. ASSUME NEW m \in DOMAIN t, i = Len(s) + m, (s \o t)[i] = t[m] PROVE i = j
  <2>1. CASE j \in DOMAIN s /\ (s \o t)[j] = s[j]
    BY <1>6, <2>1
  <2>2. ASSUME NEW k \in DOMAIN t, j = Len(s) + k, (s \o t)[j] = t[k] PROVE i = j
    <3>1. k = m
      BY <1>6, <2>2
    <3> QED BY <1>6, <2>2, <3>1
  <2> QED BY <1>2, <2>1, <2>2
<1> QED BY <1>1, <1>5, <1>6

-----------------------------------------------------------------------------
(* What the operators on posts say of a sequence p of them.                *)

LivingIn(p) == {x \in 1 .. Len(p) : p[x].status = "active"}
StandsFor(p, x) == IF p[x].of # 0 /\ ~p[x].quote THEN p[x].of ELSE x
StandInsFor(p, v) == {x \in LivingIn(p) : StandsFor(p, x) = v}
StoodFor(p) == {StandsFor(p, x) : x \in LivingIn(p)}
NewestIn(p, v) ==
    CHOOSE x \in LivingIn(p) :
        StandsFor(p, x) = v /\ \A y \in LivingIn(p) : StandsFor(p, y) = v => y <= x
LinkedIn(p) ==
    \A x \in 1 .. Len(p) :
        /\ p[x].of < x
        /\ p[x].of = 0 => ~p[x].quote
        /\ p[x].status = "pending" => p[x].of = 0
        /\ p[x].status = "active" /\ p[x].of # 0 => p[p[x].of].status = "active"

LEMMA HereAndNow ==
    /\ Ids = 1 .. Len(posts)
    /\ Active = LivingIn(posts)
    /\ Identities = StoodFor(posts)
    /\ \A x : Identity(x) = StandsFor(posts, x)
    /\ \A v : Newest(v) = NewestIn(posts, v)
    /\ PostsAreLinked <=> LinkedIn(posts)
BY DEF Ids, Active, IsActive, LivingIn, Identities, Identity, StoodFor, StandsFor, Newest, NewestIn,
       PostsAreLinked, LinkedIn

LEMMA HereAndThen ==
    /\ Ids' = 1 .. Len(posts')
    /\ Active' = LivingIn(posts')
    /\ Identities' = StoodFor(posts')
    /\ \A x : Identity(x)' = StandsFor(posts', x)
    /\ \A v : Newest(v)' = NewestIn(posts', v)
    /\ PostsAreLinked' <=> LinkedIn(posts')
BY DEF Ids, Active, IsActive, LivingIn, Identities, Identity, StoodFor, StandsFor, Newest, NewestIn,
       PostsAreLinked, LinkedIn

LEMMA LivingAre ==
    ASSUME NEW p \in Seq(Post)
    PROVE  /\ Len(p) \in Nat
           /\ \A x \in 1 .. Len(p) : p[x] \in Post
           /\ LivingIn(p) \in SUBSET Nat /\ LivingIn(p) \subseteq 1 .. Len(p)
           /\ IsFiniteSet(LivingIn(p))
<1>1. Len(p) \in Nat /\ \A x \in 1 .. Len(p) : p[x] \in Post
  OBVIOUS
<1>2. LivingIn(p) \subseteq 1 .. Len(p)
  BY DEF LivingIn
<1>3. IsFiniteSet(1 .. Len(p))
  BY <1>1, FS_Interval
<1>4. IsFiniteSet(LivingIn(p))
  BY <1>2, <1>3, FS_Subset
<1>5. \A x \in 1 .. Len(p) : x \in Nat
  BY <1>1
<1> QED BY <1>1, <1>2, <1>4, <1>5

LEMMA StandsForIs ==
    ASSUME NEW p \in Seq(Post), LinkedIn(p), NEW x \in 1 .. Len(p)
    PROVE  /\ StandsFor(p, x) \in 1 .. Len(p)
           /\ x \in LivingIn(p) => StandsFor(p, x) \in LivingIn(p)
<1>1. Len(p) \in Nat /\ p[x] \in Post
  BY LivingAre
<1>2. p[x].of \in Nat
  BY <1>1 DEF Post
<1>3. CASE StandsFor(p, x) = x
  BY <1>3
<1>4. CASE StandsFor(p, x) = p[x].of /\ p[x].of # 0
  <2>1. p[x].of \in 1 .. Len(p)
    BY <1>1, <1>2, <1>4 DEF LinkedIn
  <2> QED BY <1>4, <2>1 DEF LinkedIn, LivingIn
<1> QED BY <1>3, <1>4 DEF StandsFor

\* NewestIn is the greatest of the posts that stand for v, ...
LEMMA NewestIs ==
    ASSUME NEW p \in Seq(Post), NEW v \in StoodFor(p)
    PROVE  /\ NewestIn(p, v) \in StandInsFor(p, v)
           /\ \A y \in StandInsFor(p, v) : y <= NewestIn(p, v)
<1>1. StandInsFor(p, v) \in SUBSET LivingIn(p) /\ StandInsFor(p, v) # {}
  BY DEF StoodFor, StandInsFor
<1>2. IsFiniteSet(StandInsFor(p, v)) /\ StandInsFor(p, v) \in SUBSET Nat
  BY <1>1, LivingAre, FS_Subset
<1>3. PICK x \in StandInsFor(p, v) : \A y \in StandInsFor(p, v) : y <= x
  BY <1>1, <1>2, GreatestExists
<1>4. \E z \in LivingIn(p) :
        StandsFor(p, z) = v /\ \A y \in LivingIn(p) : StandsFor(p, y) = v => y <= z
  BY <1>3 DEF StandInsFor
<1>5. /\ NewestIn(p, v) \in LivingIn(p) /\ StandsFor(p, NewestIn(p, v)) = v
      /\ \A y \in LivingIn(p) : StandsFor(p, y) = v => y <= NewestIn(p, v)
  BY <1>4 DEF NewestIn
<1> QED BY <1>5 DEF StandInsFor

\* ... and depends on them only.
LEMMA SameNewest ==
    ASSUME NEW p \in Seq(Post), NEW q \in Seq(Post), NEW v \in StoodFor(p),
           StandInsFor(q, v) = StandInsFor(p, v)
    PROVE  v \in StoodFor(q) /\ NewestIn(q, v) = NewestIn(p, v)
<1>1. v \in StoodFor(q)
  BY DEF StoodFor, StandInsFor
<1>2. /\ NewestIn(p, v) \in StandInsFor(p, v) /\ NewestIn(q, v) \in StandInsFor(p, v)
      /\ NewestIn(p, v) <= NewestIn(q, v) /\ NewestIn(q, v) <= NewestIn(p, v)
  BY <1>1, NewestIs
<1>3. StandInsFor(p, v) \in SUBSET Nat
  BY LivingAre DEF StandInsFor
<1>4. NewestIn(p, v) \in Nat /\ NewestIn(q, v) \in Nat
  BY <1>2, <1>3
<1> QED BY <1>1, <1>2, <1>4

-----------------------------------------------------------------------------
(* The New feed.                                                           *)

\* Every identity that is not excluded and lies behind the place, once, by its
\* newest post, and the newest first.
IsNewFeed(seen, before, l) ==
    /\ l \in Seq(Nat)
    /\ \A i \in 1 .. Len(l) :
         /\ l[i] \in Active
         /\ Identity(l[i]) \in Identities \ seen
         /\ l[i] = Newest(Identity(l[i]))
         /\ before # 0 => l[i] < before
    /\ \A i, j \in 1 .. Len(l) : i < j => l[j] < l[i]
    /\ \A v \in Identities \ seen :
         before = 0 \/ Newest(v) < before => \E i \in 1 .. Len(l) : l[i] = Newest(v)

LEMMA NewFeedIs ==
    ASSUME TypeOK, NEW seen, NEW before \in Nat, NEW l, l = NewFeed(seen, before)
    PROVE  IsNewFeed(seen, before, l)
<1> DEFINE F == {x \in {Newest(v) : v \in Identities \ seen} : before # 0 => x < before}
           s == InOrder(F)
<1>1. posts \in Seq(Post)
  BY DEF TypeOK
<1>2. ASSUME NEW v \in Identities PROVE Newest(v) \in Active /\ Identity(Newest(v)) = v
  BY <1>1, NewestIs, HereAndNow DEF StandInsFor
<1>3. F \in SUBSET Active
  BY <1>2
<1>4. F \in SUBSET Nat /\ IsFiniteSet(F)
  BY <1>1, <1>3, LivingAre, HereAndNow, FS_Subset
<1>5. ASSUME NEW x \in F
      PROVE  /\ x \in Active /\ Identity(x) \in Identities \ seen /\ x = Newest(Identity(x))
             /\ before # 0 => x < before
  BY <1>2
<1>6. \A v \in Identities \ seen : before = 0 \/ Newest(v) < before => Newest(v) \in F
  OBVIOUS
<1>7. l = Reverse(s)
  BY DEF NewFeed
<1> HIDE DEF F
<1>8. /\ s \in Seq(F)
      /\ \A i, j \in 1 .. Len(s) : i < j => s[i] < s[j]
      /\ \A x \in F : \E i \in 1 .. Len(s) : s[i] = x
  BY <1>4, InOrderIs
<1> HIDE DEF s
<1>9. /\ l \in Seq(F) /\ Len(l) = Len(s) /\ Len(s) \in Nat
      /\ \A i \in 1 .. Len(s) : l[i] = s[Len(s) - i + 1] /\ Len(s) - i + 1 \in 1 .. Len(s)
  <2>1. s \in Seq(F)
    BY <1>8
  <2>2. /\ l \in Seq(F) /\ Len(l) = Len(s)
        /\ \A i \in 1 .. Len(s) : l[i] = s[Len(s) - i + 1] /\ Len(s) - i + 1 \in 1 .. Len(s)
    BY <1>7, <2>1, ReverseIs
  <2> QED BY <2>1, <2>2
<1>10. ASSUME NEW i \in 1 .. Len(l), NEW j \in 1 .. Len(l), i < j PROVE l[j] < l[i]
  <2>1. i \in 1 .. Len(s) /\ j \in 1 .. Len(s) /\ i \in Nat /\ j \in Nat
    BY <1>9
  <2> PICK a, b : a = Len(s) - j + 1 /\ b = Len(s) - i + 1
    OBVIOUS
  <2>2. l[i] = s[b] /\ l[j] = s[a] /\ a \in 1 .. Len(s) /\ b \in 1 .. Len(s)
    BY <1>9, <2>1
  <2>3. a < b
    BY <1>9, <1>10, <2>1
  <2>4. s[a] < s[b]
    BY <1>8, <2>2, <2>3
  <2> QED BY <2>2, <2>4
<1>11. ASSUME NEW x \in F PROVE \E i \in 1 .. Len(l) : l[i] = x
  <2>1. PICK k \in 1 .. Len(s) : s[k] = x
    BY <1>8
  <2> PICK a : a = Len(s) - k + 1
    OBVIOUS
  <2>2. a \in 1 .. Len(s) /\ Len(s) - a + 1 = k
    BY <1>9, <2>1
  <2>3. l[a] = s[Len(s) - a + 1] /\ a \in 1 .. Len(l)
    BY <1>9, <2>2
  <2> QED BY <2>1, <2>2, <2>3
<1>12. \A i \in 1 .. Len(l) : l[i] \in F
  BY <1>9
<1>13. l \in Seq(Nat)
  BY <1>4, <1>9, SeqMonotonic
<1> QED BY <1>5, <1>6, <1>10, <1>11, <1>12, <1>13 DEF IsNewFeed

\* A page of it is filled from the newest post on.  Either everything is on it
\* or its last post is the cursor.
IsNewPage(exclusion, before, page, d) ==
    /\ d \in Seq(Nat)
    /\ \A i \in 1 .. Len(d) :
         /\ d[i] \in Active
         /\ Identity(d[i]) \notin Excluded(exclusion)
         /\ d[i] = Newest(Identity(d[i]))
         /\ before # 0 => d[i] < before
    /\ \A i, j \in 1 .. Len(d) : i < j => d[j] < d[i]
    /\ \/ /\ page.cursor = None
          /\ \A v \in Identities \ Excluded(exclusion) :
               before = 0 \/ Newest(v) < before => Newest(v) \in ToSet(d)
       \/ \E m \in Nat \ {0} :
            /\ page.cursor = NewCursor(exclusion, m)
            /\ d # <<>>
            /\ \A x \in ToSet(d) : m <= x
            /\ \A v \in Identities \ Excluded(exclusion) :
                 before = 0 \/ Newest(v) < before => Newest(v) \in ToSet(d) \/ Newest(v) < m

LEMMA NewPageIs ==
    ASSUME TypeOK, NEW exclusion, NEW before \in Nat, NEW limit \in Nat \ {0},
           NEW page, page = NewPage(exclusion, before, limit), NEW d, d = page.data
    PROVE  IsNewPage(exclusion, before, page, d)
<1> PICK seen : seen = Excluded(exclusion)
  OBVIOUS
<1> PICK l : l = NewFeed(seen, before)
  OBVIOUS
<1>1. /\ d = Take(l, limit)
      /\ page.cursor = IF Len(l) > limit THEN NewCursor(exclusion, Last(d)) ELSE None
  BY DEF NewPage, Excluded
<1>2. /\ l \in Seq(Nat)
      /\ \A i \in 1 .. Len(l) :
           /\ l[i] \in Active
           /\ Identity(l[i]) \in Identities \ Excluded(exclusion)
           /\ l[i] = Newest(Identity(l[i]))
           /\ before # 0 => l[i] < before
      /\ \A i, j \in 1 .. Len(l) : i < j => l[j] < l[i]
      /\ \A v \in Identities \ Excluded(exclusion) :
           before = 0 \/ Newest(v) < before => \E i \in 1 .. Len(l) : l[i] = Newest(v)
  <2>1. IsNewFeed(seen, before, l)
    BY NewFeedIs
  <2> QED BY <2>1 DEF IsNewFeed
<1>3. /\ d \in Seq(Nat)
      /\ Len(d) = IF Len(l) <= limit THEN Len(l) ELSE limit
      /\ \A i \in 1 .. Len(d) : d[i] = l[i]
  BY <1>1, <1>2, TakeIs
<1>4. Len(l) \in Nat /\ Len(d) \in Nat /\ 1 .. Len(d) \subseteq 1 .. Len(l) /\ DOMAIN d = 1 .. Len(d)
  BY <1>2, <1>3
<1>5. \A i \in 1 .. Len(d) : d[i] \in ToSet(d)
  BY <1>4 DEF ToSet
<1>6. ASSUME Len(l) <= limit, NEW v \in Identities \ Excluded(exclusion),
             before = 0 \/ Newest(v) < before
      PROVE  Newest(v) \in ToSet(d)
  <2>1. PICK i \in 1 .. Len(l) : l[i] = Newest(v)
    BY <1>2, <1>6
  <2>2. i \in 1 .. Len(d) /\ d[i] = l[i]
    BY <1>3, <1>4, <1>6, <2>1
  <2> QED BY <1>5, <2>1, <2>2
<1> DEFINE Complete == /\ page.cursor = None
                       /\ \A v \in Identities \ Excluded(exclusion) :
                            before = 0 \/ Newest(v) < before => Newest(v) \in ToSet(d)
           Goes == \E m \in Nat \ {0} :
                     /\ page.cursor = NewCursor(exclusion, m)
                     /\ d # <<>>
                     /\ \A x \in ToSet(d) : m <= x
                     /\ \A v \in Identities \ Excluded(exclusion) :
                          before = 0 \/ Newest(v) < before => Newest(v) \in ToSet(d) \/ Newest(v) < m
<1>7. /\ \A i \in 1 .. Len(d) :
           /\ d[i] \in Active
           /\ Identity(d[i]) \notin Excluded(exclusion)
           /\ d[i] = Newest(Identity(d[i]))
           /\ before # 0 => d[i] < before
      /\ \A i, j \in 1 .. Len(d) : i < j => d[j] < d[i]
  <2>1. \A i \in 1 .. Len(d) : i \in 1 .. Len(l) /\ d[i] = l[i]
    BY <1>3, <1>4
  <2>2. ASSUME NEW i \in 1 .. Len(d)
        PROVE  /\ d[i] \in Active
               /\ Identity(d[i]) \notin Excluded(exclusion)
               /\ d[i] = Newest(Identity(d[i]))
               /\ before # 0 => d[i] < before
    <3>1. PICK k \in 1 .. Len(l) : k = i /\ d[i] = l[k]
      BY <2>1
    <3> QED BY <1>2, <3>1
  <2>3. ASSUME NEW i \in 1 .. Len(d), NEW j \in 1 .. Len(d), i < j PROVE d[j] < d[i]
    <3>1. i \in 1 .. Len(l) /\ j \in 1 .. Len(l) /\ d[i] = l[i] /\ d[j] = l[j]
      BY <2>1
    <3> QED BY <1>2, <2>3, <3>1
  <2> QED BY <2>2, <2>3
<1>8. ASSUME Len(l) <= limit PROVE Complete
  <2>1. page.cursor = None
    BY <1>1, <1>4, <1>8
  <2> QED BY <1>6, <1>8, <2>1
<1>9. ASSUME Len(l) > limit PROVE Goes
  <2>1. Len(d) = limit /\ limit \in 1 .. Len(d) /\ limit \in 1 .. Len(l)
    BY <1>3, <1>4, <1>9
  <2> DEFINE m == l[limit]
  <2>2. page.cursor = NewCursor(exclusion, m)
    BY <1>1, <1>3, <1>9, <2>1 DEF Last
  <2>3. m \in Nat \ {0}
    <3>1. m \in Active
      BY <1>2, <2>1
    <3>2. posts \in Seq(Post)
      BY DEF TypeOK
    <3>3. m \in 1 .. Len(posts)
      BY <3>1, <3>2, LivingAre, HereAndNow
    <3> QED BY <3>3
  <2>4. ASSUME NEW i \in 1 .. Len(l)
        PROVE  IF i <= limit THEN m <= l[i] ELSE l[i] < m
    <3>1. l[i] \in Nat /\ m \in Nat
      BY <1>2, <2>3
    <3>2. CASE i < limit
      BY <1>2, <2>1, <3>1, <3>2
    <3>3. CASE i = limit
      BY <3>1, <3>3
    <3>4. CASE i > limit
      BY <1>2, <2>1, <3>1, <3>4
    <3> QED BY <3>2, <3>3, <3>4
  <2>5. \A x \in ToSet(d) : m <= x
    <3> SUFFICES ASSUME NEW x \in ToSet(d) PROVE m <= x
      OBVIOUS
    <3>1. PICK i \in 1 .. Len(d) : d[i] = x
      BY <1>4 DEF ToSet
    <3> QED BY <1>3, <1>4, <2>1, <2>4, <3>1
  <2>6. ASSUME NEW v \in Identities \ Excluded(exclusion), before = 0 \/ Newest(v) < before
        PROVE  Newest(v) \in ToSet(d) \/ Newest(v) < m
    <3>1. PICK i \in 1 .. Len(l) : l[i] = Newest(v)
      BY <1>2, <2>6
    <3>2. CASE i <= limit
      <4>1. i \in 1 .. Len(d)
        BY <2>1, <3>2
      <4> QED BY <1>3, <1>5, <3>1, <4>1
    <3>3. CASE i > limit
      BY <2>4, <3>1, <3>3
    <3> QED BY <3>2, <3>3
  <2>7. d # <<>>
    BY <1>4, <2>1
  <2> HIDE DEF m
  <2>8. /\ page.cursor = NewCursor(exclusion, m)
        /\ d # <<>>
        /\ \A x \in ToSet(d) : m <= x
        /\ \A v \in Identities \ Excluded(exclusion) :
             before = 0 \/ Newest(v) < before => Newest(v) \in ToSet(d) \/ Newest(v) < m
    BY <2>2, <2>5, <2>6, <2>7
  <2> QED BY <2>3, <2>8
<1>10. Complete \/ Goes
  BY <1>4, <1>8, <1>9
<1> QED BY <1>3, <1>7, <1>10 DEF IsNewPage

-----------------------------------------------------------------------------
(* When posts change, what they refer to stays, and so do the posts of the *)
(* identities that are called steady.                                      *)

Evolved(p, q) ==
    /\ q \in Seq(Post)
    /\ LinkedIn(q)
    /\ Len(p) <= Len(q)
    /\ \A x \in 1 .. Len(p) :
        /\ q[x].of = p[x].of
        /\ q[x].quote = p[x].quote
        /\ p[x].status = "gone" => q[x].status = "gone"
        /\ p[x].status # "pending" => q[x].status # "pending"

\* The same for all that may change while the reader waits.  A snapshot is
\* taken, or expires when its generation is over.
Evolves ==
    /\ Evolved(posts, posts')
    /\ steady' \subseteq steady
    /\ \A v \in steady' : StandInsFor(posts', v) = StandInsFor(posts, v)
    /\ snapshots' \in [Sources -> [Generations -> Seq(Nat) \cup {None}]]
    /\ exclusions' \subseteq Exclusion
    /\ generation' \in Generations /\ generation <= generation'
    /\ faults' \in Nat
    /\ \A source \in Sources, g \in Generations :
        \/ snapshots'[source][g] = snapshots[source][g]
        \/ snapshots'[source][g] = None /\ g < generation'
        \/ /\ snapshots[source][g] = None /\ ~(g < generation)
           /\ IsRanking(source, snapshots'[source][g])
    /\ UNCHANGED <<feed, reader, shown>>

PostsEvolve ==
    /\ Evolved(posts, posts')
    /\ steady' \subseteq steady
    /\ \A v \in steady' : StandInsFor(posts', v) = StandInsFor(posts, v)
    /\ UNCHANGED <<snapshots, exclusions, generation, feed, reader, shown, faults>>

LEMMA PostsEvolveOnly == IInv /\ PostsEvolve => Evolves
<1> SUFFICES ASSUME IInv, PostsEvolve PROVE Evolves
  OBVIOUS
<1>1. /\ snapshots \in [Sources -> [Generations -> Seq(Nat) \cup {None}]]
      /\ exclusions \subseteq Exclusion /\ generation \in Generations /\ faults \in Nat
  BY DEF IInv, TypeOK
<1>2. generation <= generation
  BY <1>1, FeedAssumptions DEF Generations
<1> QED BY <1>1, <1>2 DEF PostsEvolve, Evolves

LEMMA AppendedEvolved ==
    ASSUME NEW p \in Seq(Post), LinkedIn(p), NEW r \in Post, r.of < Len(p) + 1,
           r.of = 0 => ~r.quote, r.status = "pending" => r.of = 0,
           r.status = "active" /\ r.of # 0 => p[r.of].status = "active",
           NEW q, q = Append(p, r)
    PROVE  /\ Evolved(p, q)
           /\ \A v \in StoodFor(p) :
                r.status = "pending" \/ (IF r.of # 0 /\ ~r.quote THEN r.of # v ELSE TRUE)
                    => StandInsFor(q, v) = StandInsFor(p, v)
<1> DEFINE n == Len(p) + 1
<1>1. Len(p) \in Nat /\ \A x \in 1 .. Len(p) : p[x] \in Post
  BY LivingAre
<1>2. /\ q \in Seq(Post) /\ Len(q) = n /\ q[n] = r
      /\ \A x \in 1 .. Len(p) : q[x] = p[x] /\ x # n /\ x \in 1 .. n
      /\ \A x \in 1 .. n : x # n => x \in 1 .. Len(p)
  BY <1>1
<1>3. n \in 1 .. n
  BY <1>1
<1> HIDE DEF n
<1>4. ASSUME NEW x \in 1 .. Len(p), p[x].of # 0 PROVE p[x].of \in 1 .. Len(p)
  <2>1. p[x].of \in Nat /\ p[x].of < x
    BY <1>1 DEF LinkedIn, Post
  <2> QED BY <1>1, <1>4, <2>1
<1>5. r.of # 0 => r.of \in 1 .. Len(p)
  <2>1. r.of \in Nat
    BY DEF Post
  <2> QED BY <1>1, <2>1
<1>6. LinkedIn(q)
  <2> SUFFICES ASSUME NEW x \in 1 .. n
               PROVE  /\ q[x].of < x
                      /\ q[x].of = 0 => ~q[x].quote
                      /\ q[x].status = "pending" => q[x].of = 0
                      /\ q[x].status = "active" /\ q[x].of # 0 => q[q[x].of].status = "active"
    BY <1>2 DEF LinkedIn
  <2>1. CASE x = n
    BY <1>2, <1>5, <2>1 DEF n
  <2>2. CASE x # n
    <3>1. x \in 1 .. Len(p) /\ q[x] = p[x]
      BY <1>2, <2>2
    <3> QED BY <1>2, <1>4, <3>1 DEF LinkedIn
  <2> QED BY <2>1, <2>2
<1>7. Evolved(p, q)
  <2>1. Len(p) <= Len(q)
    BY <1>1, <1>2 DEF n
  <2> QED BY <1>2, <1>6, <2>1 DEF Evolved
<1>8. ASSUME NEW v \in StoodFor(p),
             r.status = "pending" \/ (IF r.of # 0 /\ ~r.quote THEN r.of # v ELSE TRUE)
      PROVE  StandInsFor(q, v) = StandInsFor(p, v)
  <2>1. v \in 1 .. Len(p)
    <3>1. PICK x \in LivingIn(p) : v = StandsFor(p, x)
      BY DEF StoodFor
    <3> QED BY <3>1, StandsForIs, LivingAre
  <2>2. n \notin LivingIn(q) \/ StandsFor(q, n) # v
    BY <1>2, <1>8, <2>1 DEF LivingIn, StandsFor
  <2>3. \A x \in 1 .. Len(p) : /\ x \in LivingIn(q) <=> x \in LivingIn(p)
                               /\ StandsFor(q, x) = StandsFor(p, x)
    BY <1>2 DEF LivingIn, StandsFor
  <2>4. LivingIn(q) \subseteq 1 .. n /\ LivingIn(p) \subseteq 1 .. Len(p)
    BY <1>2 DEF LivingIn
  <2> QED BY <1>2, <2>2, <2>3, <2>4 DEF StandInsFor
<1> QED BY <1>7, <1>8

LEMMA EvolvedIs ==
    ASSUME NEW p \in Seq(Post), NEW q, Evolved(p, q), NEW x \in 1 .. Len(p)
    PROVE  x \in 1 .. Len(q) /\ StandsFor(q, x) = StandsFor(p, x)
<1>1. Len(p) \in Nat /\ Len(q) \in Nat
  BY DEF Evolved
<1>2. x \in 1 .. Len(q)
  BY <1>1 DEF Evolved
<1> QED BY <1>2 DEF Evolved, StandsFor

LEMMA SteadyAre ==
    ASSUME IInv
    PROVE  /\ posts \in Seq(Post) /\ LinkedIn(posts) /\ steady \subseteq StoodFor(posts)
           /\ steady \subseteq LivingIn(posts)
<1>1. posts \in Seq(Post) /\ LinkedIn(posts) /\ steady \subseteq StoodFor(posts)
  BY HereAndNow DEF IInv, TypeOK
<1>2. ASSUME NEW v \in StoodFor(posts) PROVE v \in LivingIn(posts)
  <2>1. PICK x \in LivingIn(posts) : v = StandsFor(posts, x)
    BY DEF StoodFor
  <2> QED BY <1>1, <2>1, StandsForIs, LivingAre
<1> QED BY <1>1, <1>2

LEMMA CreateEvolves == IInv /\ CreatePost => PostsEvolve
<1> SUFFICES ASSUME IInv, CreatePost PROVE PostsEvolve
  OBVIOUS
<1>1. posts \in Seq(Post) /\ LinkedIn(posts) /\ steady \subseteq StoodFor(posts)
  BY SteadyAre
<1> PICK r : r = [of |-> 0, quote |-> FALSE, status |-> "pending"]
  OBVIOUS
<1>2. posts' = Append(posts, r)
  BY DEF CreatePost, Publish
<1>3. r \in Post /\ r.of < Len(posts) + 1
  BY <1>1 DEF Post
<1>4. /\ Evolved(posts, posts')
      /\ \A v \in StoodFor(posts) : StandInsFor(posts', v) = StandInsFor(posts, v)
  BY <1>1, <1>2, <1>3, AppendedEvolved
<1> QED BY <1>1, <1>4 DEF CreatePost, PostsEvolve

LEMMA RepostEvolves ==
    ASSUME IInv, NEW x \in Ids, NEW quote \in BOOLEAN, Repost(x, quote)
    PROVE  PostsEvolve
<1>1. posts \in Seq(Post) /\ LinkedIn(posts) /\ steady \subseteq StoodFor(posts)
  BY SteadyAre
<1> PICK r : r = [of |-> x, quote |-> quote, status |-> "active"]
  OBVIOUS
<1>2. posts' = Append(posts, r)
  BY DEF Repost, Publish
<1>3. r \in Post /\ r.of < Len(posts) + 1 /\ r.of # 0 /\ posts[x].status = "active"
  BY <1>1 DEF Post, Ids, Repost, IsActive
<1>4. /\ Evolved(posts, posts')
      /\ \A v \in StoodFor(posts) :
           quote \/ x # v => StandInsFor(posts', v) = StandInsFor(posts, v)
  <2> PICK p, q : p = posts /\ q = posts'
    OBVIOUS
  <2>1. p \in Seq(Post) /\ LinkedIn(p) /\ q = Append(p, r)
    BY <1>1, <1>2
  <2>2. r \in Post /\ r.of < Len(p) + 1 /\ r.of # 0 /\ p[r.of].status = "active"
    BY <1>3
  <2>3. r.of = x /\ r.quote = quote /\ r.status = "active"
    OBVIOUS
  <2>4. /\ Evolved(p, q)
        /\ \A v \in StoodFor(p) :
             r.status = "pending" \/ (IF r.of # 0 /\ ~r.quote THEN r.of # v ELSE TRUE)
                 => StandInsFor(q, v) = StandInsFor(p, v)
    <3>1. r.of = 0 => ~r.quote
      BY <2>2
    <3>2. r.status = "pending" => r.of = 0
      BY <2>3
    <3>3. r.status = "active" /\ r.of # 0 => p[r.of].status = "active"
      BY <2>2
    <3> QED BY <2>1, <2>2, <3>1, <3>2, <3>3, AppendedEvolved, ZenonT(40)
  <2>5. \A v \in StoodFor(p) : quote \/ x # v => StandInsFor(q, v) = StandInsFor(p, v)
    BY <2>2, <2>3, <2>4
  <2> QED BY <2>4, <2>5
<1>5. steady' \subseteq steady /\ (quote \/ x \notin steady')
  BY DEF Repost
<1> QED BY <1>1, <1>4, <1>5 DEF Repost, PostsEvolve

LEMMA ActivateEvolves ==
    ASSUME IInv, NEW x \in Ids, ActivatePost(x)
    PROVE  PostsEvolve
<1> PICK p, q : p = posts /\ q = posts'
  OBVIOUS
<1>1. /\ p \in Seq(Post) /\ LinkedIn(p) /\ steady \subseteq StoodFor(p)
      /\ steady \subseteq LivingIn(p)
  BY SteadyAre
<1>2. x \in 1 .. Len(p) /\ p[x].status = "pending" /\ p[x].of = 0 /\ p[x] \in Post
  BY <1>1 DEF ActivatePost, Ids, LinkedIn
<1>3. q = [p EXCEPT ![x].status = "active"]
  BY DEF ActivatePost
<1>4. /\ q \in Seq(Post) /\ Len(q) = Len(p) /\ Len(p) \in Nat
      /\ \A y \in 1 .. Len(p) : y # x => q[y] = p[y]
      /\ q[x] = [p[x] EXCEPT !.status = "active"]
  <2>1. [p[x] EXCEPT !.status = "active"] \in Post
    BY <1>2 DEF Post
  <2>2. q = [p EXCEPT ![x] = [p[x] EXCEPT !.status = "active"]]
    BY <1>3
  <2> QED BY <1>1, <1>2, <2>1, <2>2
<1>5. q[x].of = 0 /\ q[x].quote = p[x].quote /\ q[x].status = "active"
  BY <1>2, <1>4 DEF Post
<1>6. LinkedIn(q)
  <2> SUFFICES ASSUME NEW y \in 1 .. Len(p)
               PROVE  /\ q[y].of < y
                      /\ q[y].of = 0 => ~q[y].quote
                      /\ q[y].status = "pending" => q[y].of = 0
                      /\ q[y].status = "active" /\ q[y].of # 0 => q[q[y].of].status = "active"
    BY <1>4 DEF LinkedIn
  <2>1. CASE y = x
    BY <1>1, <1>2, <1>5, <2>1 DEF LinkedIn
  <2>2. CASE y # x
    <3>1. q[y] = p[y]
      BY <1>4, <2>2
    <3>2. ASSUME q[y].status = "active", q[y].of # 0 PROVE q[q[y].of].status = "active"
      <4>1. p[y] \in Post /\ p[y].of < y /\ p[p[y].of].status = "active"
        BY <1>1, <3>1, <3>2 DEF LinkedIn
      <4>2. p[y].of \in Nat
        BY <4>1 DEF Post
      <4>3. p[y].of \in 1 .. Len(p)
        BY <1>4, <3>1, <3>2, <4>1, <4>2
      <4> PICK z : z = p[y].of
        OBVIOUS
      <4>4. z \in 1 .. Len(p) /\ p[z].status = "active" /\ q[y].of = z
        BY <3>1, <4>1, <4>3
      <4>5. q[z].status = "active"
        <5>1. CASE z = x
          BY <1>5, <5>1
        <5>2. CASE z # x
          BY <1>4, <4>4, <5>2
        <5> QED BY <5>1, <5>2
      <4> QED BY <4>4, <4>5
    <3> QED BY <1>1, <3>1, <3>2 DEF LinkedIn
  <2> QED BY <2>1, <2>2
<1>7. Evolved(p, q)
  <2>1. ASSUME NEW y \in 1 .. Len(p)
        PROVE  /\ q[y].of = p[y].of
               /\ q[y].quote = p[y].quote
               /\ p[y].status = "gone" => q[y].status = "gone"
               /\ p[y].status # "pending" => q[y].status # "pending"
    <3>1. CASE y = x
      BY <1>2, <1>5, <3>1
    <3>2. CASE y # x
      BY <1>4, <3>2
    <3> QED BY <3>1, <3>2
  <2>2. Len(p) <= Len(q)
    BY <1>4
  <2> QED BY <1>4, <1>6, <2>1, <2>2 DEF Evolved
<1>8. ASSUME NEW v \in steady PROVE StandInsFor(q, v) = StandInsFor(p, v)
  <2>1. v # x
    BY <1>1, <1>2 DEF LivingIn
  <2>2. StandsFor(q, x) = x /\ x \notin LivingIn(p)
    BY <1>2, <1>5 DEF StandsFor, LivingIn
  <2>3. \A y \in 1 .. Len(p) : y # x => /\ y \in LivingIn(q) <=> y \in LivingIn(p)
                                        /\ StandsFor(q, y) = StandsFor(p, y)
    BY <1>4 DEF LivingIn, StandsFor
  <2>4. LivingIn(q) \subseteq 1 .. Len(p) /\ LivingIn(p) \subseteq 1 .. Len(p)
    BY <1>4 DEF LivingIn
  <2> QED BY <2>1, <2>2, <2>3, <2>4 DEF StandInsFor
<1> QED BY <1>7, <1>8 DEF ActivatePost, PostsEvolve

\* The graph of a post holds it and every repost of its members, so that no
\* post that is left refers to one that is deleted.
LEMMA DeleteEvolves ==
    ASSUME IInv, NEW x \in Ids, DeletePost(x)
    PROVE  PostsEvolve
<1> PICK p, q, removed : p = posts /\ q = posts' /\ removed = Active \cap Graph(x)
  OBVIOUS
<1>1. p \in Seq(Post) /\ LinkedIn(p) /\ steady \subseteq StoodFor(p)
  BY SteadyAre
<1>2. Len(p) \in Nat /\ \A y \in 1 .. Len(p) : p[y] \in Post
  BY <1>1
<1>3. q = [y \in 1 .. Len(p) |-> IF y \in removed THEN [p[y] EXCEPT !.status = "gone"] ELSE p[y]]
  BY DEF DeletePost, Ids
<1>4. ASSUME NEW y \in 1 .. Len(p)
      PROVE  /\ q[y] \in Post
             /\ q[y].of = p[y].of /\ q[y].quote = p[y].quote
             /\ q[y].status = IF y \in removed THEN "gone" ELSE p[y].status
  <2>1. p[y] \in Post
    BY <1>2
  <2>2. CASE y \in removed
    <3>1. q[y] = [p[y] EXCEPT !.status = "gone"]
      BY <1>3, <2>2
    <3> QED BY <2>1, <2>2, <3>1 DEF Post
  <2>3. CASE y \notin removed
    <3>1. q[y] = p[y]
      BY <1>3, <2>3
    <3> QED BY <2>1, <2>3, <3>1
  <2> QED BY <2>2, <2>3
<1>5. q \in Seq(Post) /\ Len(q) = Len(p)
  <2>1. DOMAIN q = 1 .. Len(p) /\ q = [y \in 1 .. Len(p) |-> q[y]]
    BY <1>3
  <2> QED BY <1>2, <1>4, <2>1
<1>6. removed \subseteq LivingIn(p)
  BY HereAndNow
<1>7. LinkedIn(q)
  <2> SUFFICES ASSUME NEW y \in 1 .. Len(p)
               PROVE  /\ q[y].of < y
                      /\ q[y].of = 0 => ~q[y].quote
                      /\ q[y].status = "pending" => q[y].of = 0
                      /\ q[y].status = "active" /\ q[y].of # 0 => q[q[y].of].status = "active"
    BY <1>5 DEF LinkedIn
  <2>1. ASSUME q[y].status = "active", q[y].of # 0 PROVE q[q[y].of].status = "active"
    <3>1. y \notin removed /\ p[y].status = "active" /\ p[y].of # 0 /\ q[y].of = p[y].of
      BY <1>4, <2>1
    <3>2. p[y].of < y /\ p[p[y].of].status = "active" /\ p[y].of \in Nat
      BY <1>1, <1>2, <3>1 DEF LinkedIn, Post
    <3>3. p[y].of \in 1 .. Len(p)
      BY <1>2, <3>1, <3>2
    <3>4. p[y].of \notin removed
      <4>1. p[y].of \in Graph(x) => y \in Graph(x)
        BY DEF Graph, Ids
      <4> QED BY <3>1, <4>1 DEF Active, IsActive, Ids
    <3> QED BY <1>4, <3>1, <3>2, <3>3, <3>4
  <2> QED BY <1>1, <1>4, <2>1 DEF LinkedIn
<1>8. Evolved(p, q)
  <2>1. \A y \in removed : p[y].status = "active"
    BY <1>6 DEF LivingIn
  <2> QED BY <1>2, <1>4, <1>5, <1>7, <2>1 DEF Evolved
<1>9. ASSUME NEW v \in steady' PROVE StandInsFor(q, v) = StandInsFor(p, v)
  <2>1. \A y \in removed : StandsFor(p, y) # v
    BY HereAndNow DEF DeletePost
  <2>2. \A y \in 1 .. Len(p) : StandsFor(q, y) = StandsFor(p, y)
    BY <1>4 DEF StandsFor
  <2>3. LivingIn(q) = LivingIn(p) \ removed
    BY <1>4, <1>5 DEF LivingIn
  <2>4. LivingIn(p) \subseteq 1 .. Len(p)
    BY DEF LivingIn
  <2> QED BY <2>1, <2>2, <2>3, <2>4 DEF StandInsFor
<1>10. steady' \subseteq steady
  BY DEF DeletePost
<1> QED BY <1>8, <1>9, <1>10 DEF DeletePost, PostsEvolve

\* A post that was ever active.
IsOld(x) == x \in Ids /\ posts[x].status # "pending"

\* Only such posts are in the list and on the pages.
HasOld(data) == (\A x \in ToSet(reader.list) : IsOld(x)) /\ (\A x \in Got(data) : IsOld(x))

LEMMA OldStays ==
    ASSUME IInv, Evolves, NEW x, IsOld(x)
    PROVE  /\ x \in Ids /\ x \in 1 .. Len(posts')
           /\ posts'[x].of = posts[x].of
           /\ posts'[x].quote = posts[x].quote
           /\ posts[x].status = "gone" => posts'[x].status = "gone"
           /\ posts'[x].status # "pending"
           /\ posts'[x].status = "active" <=> posts[x].status = "active" /\ posts'[x].status # "gone"
<1>1. posts \in Seq(Post) /\ posts' \in Seq(Post) /\ Evolved(posts, posts') /\ x \in 1 .. Len(posts)
  BY SteadyAre DEF Evolves, Evolved, IsOld, Ids
<1>2. x \in 1 .. Len(posts')
  BY <1>1, EvolvedIs
<1>3. posts[x] \in Post /\ posts'[x] \in Post
  BY <1>1, <1>2
<1>4. /\ posts'[x].of = posts[x].of
      /\ posts'[x].quote = posts[x].quote
      /\ posts[x].status = "gone" => posts'[x].status = "gone"
      /\ posts'[x].status # "pending"
  BY <1>1 DEF Evolved, IsOld
<1>5. posts[x].status \in {"active", "gone"} /\ posts'[x].status \in {"active", "gone"}
  BY <1>3, <1>4 DEF Post, IsOld
<1>6. posts'[x].status = "active" <=> posts[x].status = "active" /\ posts'[x].status # "gone"
  BY <1>4, <1>5
<1> QED BY <1>1, <1>2, <1>4, <1>6 DEF Ids

LEMMA SteadyStays ==
    ASSUME IInv, Evolves, NEW v \in steady'
    PROVE  v \in steady /\ v \in Identities' /\ Newest(v)' = Newest(v)
<1>1. posts \in Seq(Post) /\ posts' \in Seq(Post) /\ steady \subseteq StoodFor(posts)
  BY SteadyAre DEF Evolves, Evolved
<1>2. v \in steady /\ StandInsFor(posts', v) = StandInsFor(posts, v)
  BY DEF Evolves
<1>3. v \in StoodFor(posts') /\ NewestIn(posts', v) = NewestIn(posts, v)
  BY <1>1, <1>2, SameNewest
<1> QED BY <1>2, <1>3, HereAndNow, HereAndThen

LEMMA RankingIs ==
    ASSUME TypeOK, NEW source, NEW l, IsRanking(source, l)
    PROVE  /\ DOMAIN l = 1 .. Len(l) /\ Len(l) \in Nat /\ l \in Seq(Nat)
           /\ \A i \in DOMAIN l : IsOld(l[i]) /\ l[i] \in ToSet(l)
           /\ \A x \in ToSet(l) : IsOld(x) /\ \E i \in DOMAIN l : l[i] = x
<1>1. l \in Seq(Ids) /\ Len(posts) \in Nat
  BY DEF TypeOK, IsRanking
<1>2. Ids \subseteq Nat
  BY <1>1 DEF Ids
<1>3. l \in Seq(Nat)
  BY <1>1, <1>2, SeqMonotonic
<1>4. DOMAIN l = 1 .. Len(l) /\ Len(l) \in Nat /\ \A i \in DOMAIN l : l[i] \in Ids
  BY <1>1
<1>5. \A i \in DOMAIN l : IsOld(l[i])
  BY <1>4 DEF IsOld, IsRanking
<1> QED BY <1>3, <1>4, <1>5 DEF ToSet

LEMMA RankingStays ==
    ASSUME IInv, Evolves, NEW source, NEW l, IsRanking(source, l)
    PROVE  IsRanking(source, l)'
<1>1. /\ DOMAIN l = 1 .. Len(l) /\ Len(l) \in Nat
      /\ \A i \in DOMAIN l : IsOld(l[i])
  BY RankingIs DEF IInv
<1>2. \A i \in DOMAIN l : /\ l[i] \in 1 .. Len(posts')
                          /\ posts'[l[i]].status # "pending"
                          /\ posts'[l[i]].of = posts[l[i]].of
                          /\ posts'[l[i]].quote = posts[l[i]].quote
  BY <1>1, OldStays
<1>3. l \in Seq(1 .. Len(posts'))
  <2>1. l = [i \in 1 .. Len(l) |-> l[i]]
    BY DEF IsRanking
  <2> QED BY <1>1, <1>2, <2>1
<1>4. source = "mongo" => \A i, j \in DOMAIN l : Identity(l[i])' = Identity(l[j])' => i = j
  <2>1. \A i \in DOMAIN l : Identity(l[i])' = Identity(l[i])
    BY <1>2 DEF Identity
  <2> QED BY <2>1 DEF IsRanking
<1> QED BY <1>2, <1>3, <1>4 DEF IsRanking, Ids

LEMMA ListStaysShown ==
    ASSUME IInv, Evolves, NEW place, NEW data, HasOld(data), place \in Nat,
           reader.list \in Seq(Nat), ListIsShown(place, data)
    PROVE  ListIsShown(place, data)'
<1>1. reader' = reader /\ shown' = shown
  BY DEF Evolves
<1>2. ASSUME NEW i \in 1 .. place, posts'[reader.list[i]].status = "active"
      PROVE  reader.list[i] \in Got(data)
  <2>1. reader.list[i] \in ToSet(reader.list)
    BY DEF ToSet, ListIsShown
  <2>2. IsOld(reader.list[i])
    BY <2>1 DEF HasOld
  <2>3. IsActive(reader.list[i])
    BY <1>2, <2>2, OldStays DEF IsActive
  <2> QED BY <2>3 DEF ListIsShown
<1>3. \A i \in 1 .. place : IsActive(reader.list[i])' => (reader.list[i])' \in Got(data)'
  BY <1>1, <1>2 DEF IsActive, Got
<1>4. place <= Len(reader.list)' /\ \A x \in Got(data)' : \E i \in 1 .. place : reader'.list[i] = x
  BY <1>1 DEF ListIsShown, Got
<1>5. \A i, j \in DOMAIN (shown \o data)' : (shown \o data)'[i] = (shown \o data)'[j] => i = j
  BY <1>1 DEF ListIsShown
<1> QED BY <1>1, <1>3, <1>4, <1>5 DEF ListIsShown

LEMMA ExplainedStays ==
    ASSUME IInv, Evolves, NEW data, HasOld(data), NEW v, IsExplained(v, data)
    PROVE  IsExplained(v, data)'
<1>1. reader' = reader /\ shown' = shown
  BY DEF Evolves
<1>2. CASE \E x \in Got(data) : Identity(x) = v
  <2>1. PICK x \in Got(data) : Identity(x) = v
    BY <1>2
  <2>2. posts'[x].of = posts[x].of /\ posts'[x].quote = posts[x].quote
    BY OldStays DEF HasOld
  <2> QED BY <1>1, <2>1, <2>2 DEF IsExplained, Identity, Got
<1>3. CASE Orphaned(v)
  <2>1. reader.source = "mongo"
    BY <1>3 DEF Orphaned
  <2>2. PICK x \in ToSet(reader.list) : Identity(x) = v /\ ~IsActive(x)
    BY <1>3 DEF Orphaned
  <2>3. /\ posts'[x].of = posts[x].of /\ posts'[x].quote = posts[x].quote
        /\ posts'[x].status # "active"
    BY <2>2, OldStays DEF HasOld, IsActive
  <2> QED BY <1>1, <2>1, <2>2, <2>3 DEF IsExplained, Orphaned, Identity, IsActive
<1>4. CASE \E x \in Got(data) : posts[x].quote /\ posts[x].of = v
  <2>1. PICK x \in Got(data) : posts[x].quote /\ posts[x].of = v
    BY <1>4
  <2>2. posts'[x].of = posts[x].of /\ posts'[x].quote = posts[x].quote
    BY OldStays DEF HasOld
  <2> QED BY <1>1, <2>1, <2>2 DEF IsExplained, Got
<1> QED BY <1>2, <1>3, <1>4 DEF IsExplained

LEMMA SeenStays ==
    ASSUME IInv, Evolves, HasOld(reader.data), SeenIsRight
    PROVE  SeenIsRight'
<1>1. reader' = reader /\ shown' = shown
  BY DEF Evolves
<1> PICK data, names : data = reader.data /\ names = reader.seen.ids \cup reader.seen.names
  OBVIOUS
<1>2. ASSUME NEW x \in Got(data)
      PROVE  \/ posts'[x].status = "gone"
             \/ Identity(x)' \in names
             \/ reader.source = "redis" /\ posts'[x].quote
  <2>1. /\ posts'[x].of = posts[x].of /\ posts'[x].quote = posts[x].quote
        /\ posts[x].status = "gone" => posts'[x].status = "gone"
    BY OldStays DEF HasOld
  <2> QED BY <2>1 DEF SeenIsRight, Gone, Identity
<1>3. \A v \in names : IsExplained(v, data)'
  BY ExplainedStays DEF SeenIsRight
<1>4. \A x \in Got(reader.data)' :
        \/ Gone(x)'
        \/ Identity(x)' \in (reader.seen.ids \cup reader.seen.names)'
        \/ reader'.source = "redis" /\ posts'[x].quote
  BY <1>1, <1>2 DEF Got, Gone, Identity
<1>5. \A v \in (reader.seen.ids \cup reader.seen.names)' : IsExplained(v, reader.data)'
  BY <1>1, <1>3 DEF IsExplained, Got, Orphaned
<1> QED BY <1>4, <1>5 DEF SeenIsRight

LEMMA LiveStaysShown ==
    ASSUME IInv, Evolves, NEW data, HasOld(data), NEW exclusion, NEW before,
           LiveIsShown(exclusion, before, data)
    PROVE  LiveIsShown(exclusion, before, data)'
<1>1. reader' = reader /\ shown' = shown /\ feed' = feed
  BY DEF Evolves
<1>2. ASSUME NEW x \in Got(data)
      PROVE  \/ posts'[x].status = "gone"
             \/ Identity(x)' \in Excluded(exclusion)
             \/ reader.source = "redis" /\ x \in ToSet(reader.list) /\ posts'[x].quote
             \/ before # 0 /\ before <= x
  <2>1. /\ posts'[x].of = posts[x].of /\ posts'[x].quote = posts[x].quote
        /\ posts[x].status = "gone" => posts'[x].status = "gone"
    BY OldStays DEF HasOld
  <2> QED BY <2>1 DEF LiveIsShown, Gone, Identity
<1>3. \A v \in Excluded(exclusion) : IsExplained(v, data)'
  BY ExplainedStays DEF LiveIsShown
<1>4. ASSUME NEW v \in steady'
      PROVE  \/ v \in Excluded(exclusion)
             \/ \E x \in Got(data) : Identity(x)' = v
             \/ before = 0
             \/ Newest(v)' < before
  <2>1. v \in steady /\ Newest(v)' = Newest(v)
    BY SteadyStays
  <2>2. \A x \in Got(data) : Identity(x)' = Identity(x)
    BY OldStays DEF HasOld, Identity
  <2> QED BY <2>1, <2>2 DEF LiveIsShown
<1>5. \A x \in Got(data)' :
        \/ Gone(x)'
        \/ Identity(x)' \in Excluded(exclusion)
        \/ reader'.source = "redis" /\ x \in ToSet(reader'.list) /\ posts'[x].quote
        \/ before # 0 /\ before <= x
  BY <1>1, <1>2 DEF Got, Gone, Identity
<1>6. \A v \in steady' :
        \/ v \in Excluded(exclusion)
        \/ \E x \in Got(data)' : Identity(x)' = v
        \/ before = 0
        \/ Newest(v)' < before
  BY <1>1, <1>4 DEF Got
<1>7. Excluded(exclusion) # {} => feed' = "trending"
  BY <1>1 DEF LiveIsShown
<1> QED BY <1>3, <1>5, <1>6, <1>7 DEF LiveIsShown, Excluded

LEMMA OldOnes ==
    ASSUME IInv, HasList
    PROVE  /\ reader.list \in Seq(Nat) /\ HasOld(reader.data) /\ HasOld(<<>>)
           /\ \A x \in ToSet(shown) : IsOld(x)
           /\ \A i \in DOMAIN shown : IsOld(shown[i])
<1>1. \A x \in ToSet(reader.list) : IsOld(x)
  BY RankingIs DEF IInv, RequestInv
<1>2. \A x \in Got(reader.data) : IsOld(x)
  BY DEF IInv, GotWereActive, IsOld
<1>3. ToSet(shown) \subseteq Got(reader.data) /\ Got(<<>>) \subseteq Got(reader.data)
  BY DEF Got, ToSet
<1>4. \A i \in DOMAIN shown : shown[i] \in ToSet(shown)
  BY DEF ToSet
<1>5. reader.list \in Seq(Nat)
  BY DEF IInv, TypeOK, Reader
<1> QED BY <1>1, <1>2, <1>3, <1>4, <1>5 DEF HasOld

LEMMA EvolvesKeepsProperties ==
    ASSUME IInv, Evolves
    PROVE  RepeatsAreExplained' /\ NothingIsSkipped'
<1>1. reader' = reader /\ shown' = shown /\ feed' = feed
  BY DEF Evolves
<1>2. CASE ~HasList
  <2>1. shown = <<>> /\ reader.pc # "end"
    BY <1>2 DEF HasList, IInv, CursorInv
  <2> QED BY <1>1, <2>1 DEF RepeatsAreExplained, NothingIsSkipped
<1>3. CASE HasList
  <2>1. /\ \A i \in DOMAIN shown : IsOld(shown[i])
        /\ \A x \in ToSet(shown) : IsOld(x)
        /\ \A x \in ToSet(reader.list) : IsOld(x)
    BY <1>3, OldOnes DEF HasOld
  <2>2. RepeatsAreExplained'
    <3> SUFFICES ASSUME NEW i \in DOMAIN shown, NEW j \in DOMAIN shown, Repeated(i, j)'
                 PROVE  \/ posts'[shown[i]].status = "gone"
                        \/ /\ reader.source = "redis"
                           /\ shown[i] \in ToSet(reader.list)
                           /\ \/ shown[j] \in ToSet(reader.list) \ {shown[i]}
                              \/ posts'[shown[i]].quote
      BY <1>1 DEF RepeatsAreExplained
    <3> PICK x, y : x = shown[i] /\ y = shown[j]
      OBVIOUS
    <3>1. /\ posts'[x].of = posts[x].of /\ posts'[x].quote = posts[x].quote
          /\ posts[x].status = "gone" => posts'[x].status = "gone"
      BY <2>1, OldStays
    <3>2. posts'[y].of = posts[y].of /\ posts'[y].quote = posts[y].quote
      BY <2>1, OldStays
    <3>3. Repeated(i, j)
      BY <1>1, <3>1, <3>2 DEF Repeated, Identity
    <3> QED BY <3>1, <3>3 DEF IInv, RepeatsAreExplained
  <2>3. NothingIsSkipped'
    <3> SUFFICES ASSUME reader.pc = "end", NEW v \in steady'
                 PROVE  \/ \E x \in ToSet(shown) : Identity(x)' = v
                        \/ feed = "ranked" /\ ~Ranked(v)'
                        \/ Orphaned(v)'
                        \/ feed = "trending" /\ Quoted(v)'
      BY <1>1 DEF NothingIsSkipped
    <3>1. v \in steady
      BY SteadyStays
    <3>2. \A x \in ToSet(shown) : Identity(x)' = Identity(x) /\ posts'[x].quote = posts[x].quote
                                  /\ posts'[x].of = posts[x].of
      BY <2>1, OldStays DEF Identity
    <3>3. \A x \in ToSet(reader.list) :
            Identity(x)' = Identity(x) /\ (~IsActive(x) => ~IsActive(x)')
      BY <2>1, OldStays DEF Identity, IsActive
    <3>4. Ranked(v)' => Ranked(v)
      BY <1>1, <3>3 DEF Ranked
    <3>5. Orphaned(v) => Orphaned(v)'
      BY <1>1, <3>3 DEF Orphaned
    <3>6. Quoted(v) => Quoted(v)'
      BY <1>1, <3>2 DEF Quoted
    <3>7. \/ \E x \in ToSet(shown) : Identity(x) = v
          \/ feed = "ranked" /\ ~Ranked(v)
          \/ Orphaned(v)
          \/ feed = "trending" /\ Quoted(v)
      BY <3>1 DEF IInv, NothingIsSkipped
    <3> QED BY <3>2, <3>4, <3>5, <3>6, <3>7
  <2> QED BY <2>2, <2>3
<1> QED BY <1>2, <1>3

LEMMA EvolvesKeepsRequest ==
    ASSUME IInv, Evolves
    PROVE  CursorInv' /\ RequestInv'
<1>1. reader' = reader /\ shown' = shown /\ feed' = feed
  BY DEF Evolves
<1>2. HasList /\ IsKept => IsKept'
  <2> SUFFICES ASSUME HasList, IsKept PROVE IsKept'
    OBVIOUS
  <2> PICK source, g, l : source = reader.source /\ g = reader.generation /\ l = reader.list
    OBVIOUS
  <2>1. source \in Sources /\ g \in Generations /\ l \in Seq(Nat) /\ l # None
    BY FeedAssumptions DEF IInv, TypeOK, Reader
  <2>2. generation \in Int /\ generation' \in Int /\ g \in Int /\ generation <= generation'
    BY <2>1, FeedAssumptions DEF IInv, TypeOK, Generations, Evolves
  <2>3. \/ snapshots'[source][g] = snapshots[source][g]
        \/ snapshots'[source][g] = None /\ g < generation'
        \/ snapshots[source][g] = None /\ ~(g < generation)
    BY <2>1 DEF Evolves
  <2>4. snapshots[source][g] = l \/ (snapshots[source][g] = None /\ g < generation)
    BY DEF IsKept
  <2>5. snapshots'[source][g] = l \/ (snapshots'[source][g] = None /\ g < generation')
    BY <2>1, <2>2, <2>3, <2>4
  <2> QED BY <1>1, <2>5 DEF IsKept
<1> PICK r : r = reader
  OBVIOUS
<1>3. r \in Reader /\ CursorInv /\ RequestInv
  BY DEF IInv, TypeOK
<1>4. r.offset \in Nat
  BY <1>3 DEF Reader
<1>5. CASE ~HasList
  <2>1. r.pc \in {"idle", "build"} /\ r.cursor = None /\ None \notin ListCursor \cup LiveCursor
    BY <1>5, FeedAssumptions DEF HasList
  <2>2. CursorInv'
    BY <1>1, <1>3, <2>1 DEF CursorInv
  <2>3. RequestInv'
    BY <1>1, <1>3, <2>1 DEF RequestInv, HasList
  <2> QED BY <2>2, <2>3
<1>6. CASE HasList
  <2>1. /\ r.list \in Seq(Nat) /\ HasOld(r.data) /\ HasOld(<<>>)
        /\ IsRanking(r.source, r.list)
    BY <1>6, OldOnes DEF IInv, RequestInv
  <2>2. ASSUME r.cursor \in ListCursor PROVE ListIsShown(reader.cursor.offset, <<>>)'
    <3>1. r.cursor.offset \in Nat
      BY <2>2 DEF ListCursor
    <3>2. ListIsShown(r.cursor.offset, <<>>)
      BY <2>2, <1>3 DEF CursorInv
    <3>3. ListIsShown(r.cursor.offset, <<>>)'
      BY <2>1, <3>1, <3>2, ListStaysShown
    <3> QED BY <1>1, <3>3 DEF ListIsShown, Got
  <2>3. ASSUME r.cursor \in LiveCursor
        PROVE  LiveIsShown(reader.cursor.exclusion, reader.cursor.before, <<>>)'
    <3>1. LiveIsShown(r.cursor.exclusion, r.cursor.before, <<>>)
      BY <2>3, <1>3 DEF CursorInv
    <3>2. LiveIsShown(r.cursor.exclusion, r.cursor.before, <<>>)'
      BY <2>1, <3>1, LiveStaysShown
    <3> QED BY <1>1, <3>2 DEF LiveIsShown, Excluded, Got, IsExplained
  <2>4. CursorInv'
    <3>1. /\ r.cursor = None /\ r.pc # "end" => shown = <<>>
          /\ r.pc = "end" => r.cursor = None
          /\ r.cursor \in ListCursor =>
              /\ r.pc \notin {"build", "store"}
              /\ feed # "new"
              /\ r.cursor.source = r.source
              /\ r.cursor.generation = r.generation
              /\ r.cursor.offset < Len(r.list)
              /\ IsKept
          /\ r.cursor \in LiveCursor => r.pc \in {"idle", "refused"} /\ feed # "ranked"
      BY <1>3 DEF CursorInv
    <3> QED BY <1>1, <1>2, <1>6, <2>2, <2>3, <3>1 DEF CursorInv
  <2>5. IsRanking(reader.source, reader.list)'
    <3>1. IsRanking(r.source, r.list)'
      BY <2>1, RankingStays
    <3> QED BY <1>1, <3>1 DEF IsRanking
  <2>6. ASSUME r.pc \in {"read", "collect", "resolve", "fill"}
        PROVE  ListIsShown(reader.offset, reader.data)'
    <3>1. ListIsShown(r.offset, r.data)
      BY <2>6, <1>3 DEF RequestInv
    <3>2. ListIsShown(r.offset, r.data)'
      BY <1>4, <2>1, <3>1, ListStaysShown
    <3> QED BY <1>1, <3>2 DEF ListIsShown, Got
  <2>7. ASSUME r.pc = "resolve" PROVE SeenIsRight'
    BY <1>3, <2>1, <2>7, SeenStays DEF RequestInv
  <2>8. ASSUME r.pc = "fill" PROVE LiveIsShown(reader.exclusion, 0, reader.data)'
    <3>1. LiveIsShown(r.exclusion, 0, r.data)
      BY <2>8, <1>3 DEF RequestInv
    <3>2. LiveIsShown(r.exclusion, 0, r.data)'
      BY <2>1, <3>1, LiveStaysShown
    <3> QED BY <1>1, <3>2 DEF LiveIsShown, Excluded, Got, IsExplained
  <2>9. RequestInv'
    <3>1. /\ r.source = "redis" => feed = "trending"
          /\ feed = "new" => r.list = <<>>
          /\ r.pc \in {"build", "store", "read"} => feed # "new"
          /\ r.pc \in {"collect", "resolve"} => feed = "trending"
          /\ r.pc = "fill" => feed # "ranked"
          /\ r.pc \notin {"collect", "resolve", "fill"} => r.data = <<>>
          /\ r.pc # "fill" => r.exclusion = None
          /\ r.pc \in {"build", "store"} => r.offset = 0
          /\ r.pc \notin {"idle", "end", "refused"} => r.limit # 0
          /\ r.pc \in {"read", "collect"} => IsKept
      BY <1>3 DEF RequestInv
    <3> QED BY <1>1, <1>2, <1>6, <2>5, <2>6, <2>7, <2>8, <3>1 DEF RequestInv
  <2> QED BY <2>4, <2>9
<1> QED BY <1>5, <1>6

LEMMA EvolvesKeeps == IInv /\ Evolves => IInv'
<1> SUFFICES ASSUME IInv, Evolves PROVE IInv'
  OBVIOUS
<1>1. reader' = reader /\ shown' = shown /\ feed' = feed
  BY DEF Evolves
<1>2. TypeOK'
  <2>1. /\ posts' \in Seq(Post) /\ steady' \subseteq steady
        /\ snapshots' \in [Sources -> [Generations -> Seq(Nat) \cup {None}]]
        /\ exclusions' \subseteq Exclusion /\ generation' \in Generations /\ faults' \in Nat
    BY DEF Evolves, Evolved
  <2>2. steady' \subseteq Nat
    BY <2>1 DEF IInv, TypeOK
  <2> QED BY <1>1, <2>1, <2>2 DEF IInv, TypeOK
<1>3. PostsAreLinked'
  BY HereAndThen DEF Evolves, Evolved
<1>4. SnapshotsAreRankings'
  <2> SUFFICES ASSUME NEW source \in Sources, NEW g \in Generations, snapshots'[source][g] # None
               PROVE  IsRanking(source, snapshots[source][g])'
    BY DEF SnapshotsAreRankings
  <2> PICK l : l = snapshots'[source][g]
    OBVIOUS
  <2>1. IsRanking(source, l)
    <3>1. l = snapshots[source][g] \/ IsRanking(source, l)
      BY DEF Evolves
    <3> QED BY <3>1 DEF IInv, SnapshotsAreRankings
  <2>2. IsRanking(source, l)'
    BY <2>1, RankingStays
  <2> QED BY <1>1, <2>2 DEF IsRanking
<1>5. steady' \subseteq Identities'
  BY SteadyStays
<1>6. GotWereActive'
  <2>1. \A x \in Got(reader.data) : IsOld(x)
    BY DEF IInv, GotWereActive, IsOld
  <2>2. \A x \in Got(reader.data) : x \in 1 .. Len(posts') /\ posts'[x].status # "pending"
    BY <2>1, OldStays
  <2> QED BY <1>1, <2>2 DEF GotWereActive, Got, Ids
<1> QED BY <1>2, <1>3, <1>4, <1>5, <1>6, EvolvesKeepsRequest, EvolvesKeepsProperties DEF IInv

LEMMA PostsChangeKeeps == IInv /\ PostsChange => IInv'
<1> SUFFICES ASSUME IInv, PostsChange PROVE PostsEvolve
  BY PostsEvolveOnly, EvolvesKeeps
<1>1. CASE CreatePost
  BY <1>1, CreateEvolves
<1>2. CASE \E x \in Ids : ActivatePost(x) \/ DeletePost(x)
  BY <1>2, ActivateEvolves, DeleteEvolves
<1>3. CASE \E x \in Ids, quote \in BOOLEAN : Repost(x, quote)
  BY <1>3, RepostEvolves
<1> QED BY <1>1, <1>2, <1>3 DEF PostsChange

-----------------------------------------------------------------------------
(* Snapshots hold rankings, and one that is in use stays until it expires. *)

LEMMA RankingsAre ==
    ASSUME TypeOK, NEW source \in Sources, NEW l \in Rankings(source)
    PROVE  IsRanking(source, l)
<1> DEFINE T == IF source = "redis" THEN {x \in Ids : posts[x].status # "pending"} ELSE Active
<1>1. Len(posts) \in Nat
  BY DEF TypeOK
<1>2. T \subseteq Ids /\ \A x \in T : posts[x].status # "pending"
  BY DEF Active, IsActive
<1>3. IsFiniteSet(T)
  <2>1. IsFiniteSet(Ids)
    BY <1>1, FS_Interval DEF Ids
  <2> QED BY <1>2, <2>1, FS_Subset
<1>4. l \in SetToAllKPermutations(T)
  BY DEF Rankings, RedisRankings, MongoRankings
<1>5. source = "mongo" => \A i, j \in DOMAIN l : Identity(l[i]) = Identity(l[j]) => i = j
  BY DEF Rankings, MongoRankings
<1> HIDE DEF T
<1>6. PICK s \in SUBSET T : l \in SetToSeqs(s)
  BY <1>4 DEF SetToAllKPermutations
<1> PICK n : n = Cardinality(s)
  OBVIOUS
<1>7. n \in Nat
  BY <1>3, FS_Subset, FS_CardinalityType
<1>8. l \in [1 .. n -> s] /\ \A i, j \in 1 .. n : i # j => l[i] # l[j]
  BY <1>6 DEF SetToSeqs
<1>9. l \in Seq(Ids) /\ DOMAIN l = 1 .. n
  BY <1>2, <1>7, <1>8
<1>10. \A i \in DOMAIN l : posts[l[i]].status # "pending"
  BY <1>2, <1>8
<1> QED BY <1>5, <1>8, <1>9, <1>10 DEF IsRanking

LEMMA StillEvolved ==
    ASSUME IInv
    PROVE  /\ Evolved(posts, posts)
           /\ snapshots \in [Sources -> [Generations -> Seq(Nat) \cup {None}]]
           /\ exclusions \subseteq Exclusion
           /\ generation \in Generations /\ generation \in Int /\ generation <= generation
           /\ faults \in Nat
<1>1. posts \in Seq(Post) /\ LinkedIn(posts) /\ Len(posts) <= Len(posts)
  BY SteadyAre
<1>2. generation \in Generations /\ generation \in Int /\ generation <= generation
  BY FeedAssumptions DEF IInv, TypeOK, Generations
<1> QED BY <1>1, <1>2 DEF Evolved, IInv, TypeOK

\* Every snapshot is the one before or a ranking that was stored where there
\* was none.
LEMMA StoredIs ==
    ASSUME IInv, NEW source \in Sources, NEW g \in Generations, NEW list, IsRanking(source, list),
           NEW new, new = Stored(source, g, list)
    PROVE  /\ new \in [Sources -> [Generations -> Seq(Nat) \cup {None}]]
           /\ \A s \in Sources, h \in Generations :
               \/ new[s][h] = snapshots[s][h]
               \/ s = source /\ h = g /\ snapshots[s][h] = None /\ IsRanking(s, new[s][h])
           /\ new[source][g] = IF snapshots[source][g] = None THEN list ELSE snapshots[source][g]
<1>1. snapshots \in [Sources -> [Generations -> Seq(Nat) \cup {None}]] /\ list \in Seq(Nat)
  BY RankingIs DEF IInv, TypeOK
<1>2. CASE snapshots[source][g] = None
  <2>1. new = [snapshots EXCEPT ![source][g] = list]
    BY <1>2 DEF Stored
  <2>2. new \in [Sources -> [Generations -> Seq(Nat) \cup {None}]]
    BY <1>1, <2>1
  <2>3. new[source][g] = list
    BY <1>1, <2>1
  <2>4. ASSUME NEW s \in Sources, NEW h \in Generations, s # source \/ h # g
        PROVE  new[s][h] = snapshots[s][h]
    BY <1>1, <2>1, <2>4
  <2> QED BY <1>2, <2>2, <2>3, <2>4
<1>3. CASE snapshots[source][g] # None
  BY <1>1, <1>3 DEF Stored
<1> QED BY <1>2, <1>3

LEMMA AnotherBuildsKeeps ==
    ASSUME IInv, NEW source \in Sources, AnotherBuilds(source)
    PROVE  IInv'
<1>1. PICK list \in Rankings(source) : snapshots' = Stored(source, generation, list)
  BY DEF AnotherBuilds
<1>2. IsRanking(source, list)
  BY RankingsAre DEF IInv
<1>3. generation \in Generations /\ ~(generation < generation)
  BY StillEvolved
<1> PICK new : new = snapshots'
  OBVIOUS
<1>4. /\ new \in [Sources -> [Generations -> Seq(Nat) \cup {None}]]
      /\ \A s \in Sources, h \in Generations :
          \/ new[s][h] = snapshots[s][h]
          \/ s = source /\ h = generation /\ snapshots[s][h] = None /\ IsRanking(s, new[s][h])
  BY <1>1, <1>2, <1>3, StoredIs
<1>5. Evolves
  BY <1>3, <1>4, StillEvolved DEF AnotherBuilds, content, Evolves
<1> QED BY <1>5, EvolvesKeeps

LEMMA NextGenerationKeeps == IInv /\ NextGeneration => IInv'
<1> SUFFICES ASSUME IInv, NextGeneration PROVE Evolves
  BY EvolvesKeeps
<1>1. generation' \in Generations /\ generation <= generation'
  BY StillEvolved, FeedAssumptions DEF NextGeneration, Generations
<1> QED BY <1>1, StillEvolved DEF NextGeneration, Evolves

LEMMA ExpireKeeps ==
    ASSUME IInv, NEW source \in Sources, NEW g \in Generations, Expire(source, g)
    PROVE  IInv'
<1>1. /\ snapshots' = [snapshots EXCEPT ![source][g] = None] /\ g < generation
      /\ snapshots \in [Sources -> [Generations -> Seq(Nat) \cup {None}]]
  BY StillEvolved DEF Expire
<1>2. snapshots' \in [Sources -> [Generations -> Seq(Nat) \cup {None}]]
  BY <1>1
<1>3. \A s \in Sources, h \in Generations :
        \/ snapshots'[s][h] = snapshots[s][h]
        \/ snapshots'[s][h] = None /\ h < generation
  BY <1>1
<1>4. generation' = generation
  BY DEF Expire, content
<1>5. Evolves
  BY <1>2, <1>3, <1>4, StillEvolved DEF Expire, content, Evolves
<1> QED BY <1>5, EvolvesKeeps

LEMMA SnapshotsChangeKeeps == IInv /\ SnapshotsChange => IInv'
<1> SUFFICES ASSUME IInv, SnapshotsChange PROVE IInv'
  OBVIOUS
<1>1. CASE NextGeneration
  BY <1>1, NextGenerationKeeps
<1>2. CASE \E source \in Sources :
             AnotherBuilds(source) \/ \E g \in Generations : Expire(source, g)
  BY <1>2, AnotherBuildsKeeps, ExpireKeeps
<1>3. CASE \E e \in exclusions : ExpireExclusion(e)
  <2>1. exclusions' \subseteq exclusions
    BY <1>3 DEF ExpireExclusion
  <2>2. Evolves
    BY <1>3, <2>1, StillEvolved DEF ExpireExclusion, content, Evolves
  <2> QED BY <2>2, EvolvesKeeps
<1> QED BY <1>1, <1>2, <1>3 DEF SnapshotsChange


-----------------------------------------------------------------------------
(* The pages of a ranking: what the reader has comes from the part of the  *)
(* list up to a place, each entry once, and with every post of that part   *)
(* that exists.                                                            *)

\* The places behind one and up to another with posts that exist, in order.
ArePlaces(pl, a, b) ==
    /\ pl \in Seq(Nat) /\ Len(pl) \in Nat
    /\ \A i, j \in 1 .. Len(pl) : i < j => pl[i] < pl[j]
    /\ \A i \in 1 .. Len(pl) : pl[i] \in a + 1 .. b /\ IsActive(reader.list[pl[i]])
    /\ \A c \in a + 1 .. b : IsActive(reader.list[c]) => \E i \in 1 .. Len(pl) : pl[i] = c

LEMMA PlacesAreShown ==
    ASSUME IInv, IsRanking(reader.source, reader.list), NEW place \in Nat, ListIsShown(place, <<>>),
           NEW next \in Nat, place <= next, next <= Len(reader.list),
           NEW pl, ArePlaces(pl, place, next), NEW data, data = Entries(pl)
    PROVE  /\ data \in Seq(Nat) /\ ListIsShown(next, data)
           /\ \A x \in ToSet(data) : IsOld(x)
<1> PICK l : l = reader.list
  OBVIOUS
<1>1. /\ DOMAIN l = 1 .. Len(l) /\ Len(l) \in Nat /\ l \in Seq(Nat)
      /\ \A i \in DOMAIN l : IsOld(l[i]) /\ l[i] \in Nat
      /\ \A i, j \in DOMAIN l : l[i] = l[j] => i = j
  <2>1. /\ DOMAIN l = 1 .. Len(l) /\ Len(l) \in Nat /\ l \in Seq(Nat)
        /\ \A i \in DOMAIN l : IsOld(l[i])
    BY RankingIs DEF IInv
  <2>2. \A i, j \in DOMAIN l : l[i] = l[j] => i = j
    BY DEF IsRanking
  <2> QED BY <2>1, <2>2
<1>2. /\ pl \in Seq(Nat) /\ Len(pl) \in Nat /\ DOMAIN pl = 1 .. Len(pl)
      /\ \A i, j \in 1 .. Len(pl) : i < j => pl[i] < pl[j]
      /\ \A i \in 1 .. Len(pl) : pl[i] \in place + 1 .. next
      /\ \A a \in place + 1 .. next : IsActive(l[a]) => \E i \in 1 .. Len(pl) : pl[i] = a
  BY DEF ArePlaces
<1>3. ASSUME NEW i \in 1 .. Len(pl)
      PROVE  /\ pl[i] \in DOMAIN l /\ pl[i] \in 1 .. next /\ place < pl[i] /\ pl[i] \in Nat
             /\ l[pl[i]] \in Nat
  <2> PICK a : a = pl[i]
    OBVIOUS
  <2>1. a \in place + 1 .. next
    BY <1>2
  <2>2. a \in Nat /\ place < a /\ a \in 1 .. next /\ a \in 1 .. Len(l)
    BY <1>1, <2>1
  <2>3. a \in DOMAIN l /\ l[a] \in Nat
    BY <1>1, <2>2
  <2> QED BY <2>2, <2>3
<1>4. data = [i \in 1 .. Len(pl) |-> l[pl[i]]]
  BY <1>2 DEF Entries
<1>5. data \in Seq(Nat) /\ Len(data) = Len(pl) /\ DOMAIN data = 1 .. Len(pl)
  BY <1>2, <1>3, <1>4
<1>6. \A i \in 1 .. Len(pl) : data[i] = l[pl[i]] /\ data[i] \in ToSet(data)
  BY <1>4, <1>5 DEF ToSet
<1>7. ASSUME NEW x \in ToSet(data) PROVE \E i \in 1 .. Len(pl) : x = data[i]
  BY <1>5 DEF ToSet
<1> HIDE DEF Entries
<1>8. \A x \in ToSet(data) : IsOld(x) /\ \E a \in 1 .. next : l[a] = x
  BY <1>1, <1>3, <1>6, <1>7
<1>9. shown \in Seq(Nat) /\ shown \o <<>> = shown /\ Got(<<>>) = ToSet(shown)
  BY DEF IInv, TypeOK, Got, ToSet
<1>10. \A x \in ToSet(shown) : \E a \in 1 .. place : l[a] = x
  BY <1>9 DEF ListIsShown
<1>11. \A x \in Got(data) : \E a \in 1 .. next : l[a] = x
  <2>1. 1 .. place \subseteq 1 .. next
    OBVIOUS
  <2> QED BY <1>8, <1>10, <2>1 DEF Got
<1>12. ASSUME NEW a \in 1 .. next, IsActive(l[a]) PROVE l[a] \in Got(data)
  <2>1. CASE a <= place
    <3>1. a \in 1 .. place
      BY <2>1
    <3> QED BY <1>9, <1>12, <3>1 DEF ListIsShown, Got
  <2>2. CASE ~(a <= place)
    <3>1. a \in place + 1 .. next
      BY <2>2
    <3>2. PICK i \in 1 .. Len(pl) : pl[i] = a
      BY <1>2, <1>12, <3>1
    <3> QED BY <1>6, <3>2 DEF Got
  <2> QED BY <2>1, <2>2
<1>13. ASSUME NEW i \in 1 .. Len(pl), NEW j \in 1 .. Len(pl), data[i] = data[j] PROVE i = j
  <2>1. pl[i] = pl[j]
    <3>1. pl[i] \in DOMAIN l /\ pl[j] \in DOMAIN l
      BY <1>3
    <3>2. l[pl[i]] = l[pl[j]]
      BY <1>6, <1>13
    <3>3. \A a, b \in DOMAIN l : l[a] = l[b] => a = b
      BY <1>1
    <3> QED BY <3>1, <3>2, <3>3
  <2>2. pl[i] \in Nat /\ pl[j] \in Nat /\ (i < j => pl[i] < pl[j]) /\ (j < i => pl[j] < pl[i])
    BY <1>2, <1>3
  <2>3. i \in Int /\ j \in Int
    BY <1>2
  <2> QED BY <2>1, <2>2, <2>3
<1>14. ASSUME NEW i \in DOMAIN shown, NEW j \in 1 .. Len(pl) PROVE shown[i] # data[j]
  <2>1. PICK a \in 1 .. place : l[a] = shown[i]
    BY <1>10 DEF ToSet
  <2>2. pl[j] \in DOMAIN l /\ place < pl[j] /\ pl[j] \in Nat /\ data[j] = l[pl[j]]
    BY <1>3, <1>6
  <2>3. a \in DOMAIN l
    BY <1>1
  <2>4. a # pl[j]
    BY <2>2
  <2> QED BY <1>1, <2>1, <2>2, <2>3, <2>4
<1>15. \A i, j \in DOMAIN (shown \o data) : (shown \o data)[i] = (shown \o data)[j] => i = j
  <2>1. \A i, j \in DOMAIN shown : shown[i] = shown[j] => i = j
    BY <1>9 DEF ListIsShown
  <2>2. \A i, j \in DOMAIN data : data[i] = data[j] => i = j
    BY <1>5, <1>13
  <2>3. \A i \in DOMAIN shown, j \in DOMAIN data : shown[i] # data[j]
    BY <1>5, <1>14
  <2>4. shown \in Seq(Nat) /\ data \in Seq(Nat)
    BY <1>5, <1>9
  <2> QED BY <2>1, <2>2, <2>3, <2>4, JoinedOnce
<1> QED BY <1>5, <1>8, <1>11, <1>12, <1>15 DEF ListIsShown


LEMMA ExistingIs ==
    ASSUME NEW a \in Nat, NEW b \in Nat, NEW pl, pl = Existing(a + 1 .. b)
    PROVE  ArePlaces(pl, a, b)
<1> DEFINE S == {i \in a + 1 .. b : IsActive(reader.list[i])}
<1>1. S \subseteq a + 1 .. b /\ \A i \in S : IsActive(reader.list[i])
  OBVIOUS
<1>2. \A c \in a + 1 .. b : IsActive(reader.list[c]) => c \in S
  OBVIOUS
<1>3. a + 1 .. b \subseteq Nat /\ IsFiniteSet(a + 1 .. b)
  <2>1. a + 1 .. b \subseteq Nat
    OBVIOUS
  <2>2. a + 1 .. b \subseteq 1 .. b
    OBVIOUS
  <2>3. IsFiniteSet(1 .. b)
    BY FS_Interval
  <2> QED BY <2>1, <2>2, <2>3, FS_Subset
<1>4. pl = InOrder(S)
  BY DEF Existing
<1> HIDE DEF S
<1>5. S \in SUBSET Nat /\ IsFiniteSet(S)
  BY <1>1, <1>3, FS_Subset
<1>6. /\ pl \in Seq(S)
      /\ \A i, j \in 1 .. Len(pl) : i < j => pl[i] < pl[j]
      /\ \A x \in S : \E i \in 1 .. Len(pl) : pl[i] = x
  BY <1>4, <1>5, InOrderIs
<1>7. \A i \in 1 .. Len(pl) : pl[i] \in S
  BY <1>6
<1>8. pl \in Seq(Nat) /\ Len(pl) \in Nat
  <2>1. S \subseteq Nat /\ pl \in Seq(S)
    BY <1>5, <1>6
  <2>2. pl \in Seq(Nat)
    BY <2>1, SeqMonotonic
  <2> QED BY <2>2
<1> QED BY <1>1, <1>2, <1>6, <1>7, <1>8 DEF ArePlaces

\* A page goes up to its next place, behind where it began if there is more, and
\* without more nothing is left behind it.
PageIsRight(page) ==
    /\ page.data \in Seq(Nat)
    /\ \A x \in ToSet(page.data) : IsOld(x)
    /\ page.next \in Nat
    /\ ListIsShown(page.next, page.data)
    /\ page.more \in BOOLEAN
    /\ page.more => reader.offset < page.next /\ page.next < Len(reader.list)
    /\ ~page.more =>
        \A i \in 1 .. Len(reader.list) :
            IsActive(reader.list[i]) => reader.list[i] \in Got(page.data)

LEMMA RedisPageIs ==
    ASSUME IInv, IsRanking(reader.source, reader.list), ListIsShown(reader.offset, <<>>),
           reader.limit # 0, NEW page, page = RedisPage
    PROVE  PageIsRight(page)
<1> PICK l, place, limit : l = reader.list /\ place = reader.offset /\ limit = reader.limit
  OBVIOUS
<1>1. place \in Nat /\ limit \in Nat \ {0} /\ Len(l) \in Nat /\ place <= Len(l)
  BY DEF IInv, TypeOK, Reader, ListIsShown
<1>2. PICK end : end = Min({Len(l), place + limit})
  OBVIOUS
<1>3. end = IF Len(l) <= place + limit THEN Len(l) ELSE place + limit
  BY <1>1, <1>2, MinIs
<1>4. end \in Nat /\ place <= end /\ end <= Len(l)
  BY <1>1, <1>3
<1> PICK pl : pl = Existing(place + 1 .. end)
  OBVIOUS
<1> PICK data : data = Entries(pl)
  OBVIOUS
<1>5. page = [data |-> data, next |-> end, more |-> end < Len(l)]
  BY <1>2 DEF RedisPage
<1>6. ArePlaces(pl, place, end)
  BY <1>1, <1>4, ExistingIs
<1>7. data \in Seq(Nat) /\ ListIsShown(end, data) /\ \A x \in ToSet(data) : IsOld(x)
  BY <1>1, <1>4, <1>6, PlacesAreShown
<1>8. ASSUME ~(end < Len(l))
      PROVE  \A i \in 1 .. Len(l) : IsActive(l[i]) => l[i] \in Got(data)
  <2>1. end = Len(l)
    BY <1>1, <1>4, <1>8
  <2> QED BY <1>7, <2>1 DEF ListIsShown
<1>9. page.data = data /\ page.next = end /\ page.more \in BOOLEAN /\ (page.more <=> end < Len(l))
  <2>1. (end < Len(l)) \in BOOLEAN
    OBVIOUS
  <2> PICK more : more = (end < Len(l))
    OBVIOUS
  <2>2. page = [data |-> data, next |-> end, more |-> more]
    BY <1>5
  <2>3. page.data = data /\ page.next = end /\ page.more = more
    BY <2>2
  <2> QED BY <2>1, <2>3, Zenon
<1>10. end < Len(l) => place < end
  BY <1>1, <1>3
<1> QED BY <1>4, <1>7, <1>8, <1>9, <1>10 DEF PageIsRight

LEMMA MongoPageIs ==
    ASSUME IInv, IsRanking(reader.source, reader.list), ListIsShown(reader.offset, <<>>),
           reader.limit # 0, NEW page, page = MongoPage
    PROVE  PageIsRight(page)
<1> PICK l, place, limit : l = reader.list /\ place = reader.offset /\ limit = reader.limit
  OBVIOUS
<1>1. place \in Nat /\ limit \in Nat \ {0} /\ Len(l) \in Nat /\ place <= Len(l)
  BY DEF IInv, TypeOK, Reader, ListIsShown
<1> PICK found : found = Existing(place + 1 .. Len(l))
  OBVIOUS
<1> PICK pl : pl = Take(found, limit)
  OBVIOUS
<1> PICK data : data = Entries(pl)
  OBVIOUS
<1> PICK next : next = IF pl = <<>> THEN Len(l) ELSE Last(pl)
  OBVIOUS
<1>2. page = [data |-> data, next |-> next, more |-> Len(found) > limit]
  BY DEF MongoPage
<1>3. ArePlaces(found, place, Len(l))
  BY <1>1, ExistingIs
<1>4. /\ found \in Seq(Nat) /\ Len(found) \in Nat
      /\ \A i, j \in 1 .. Len(found) : i < j => found[i] < found[j]
      /\ \A i \in 1 .. Len(found) : found[i] \in place + 1 .. Len(l) /\ IsActive(l[found[i]])
      /\ \A c \in place + 1 .. Len(l) :
           IsActive(l[c]) => \E i \in 1 .. Len(found) : found[i] = c
  BY <1>3 DEF ArePlaces
<1>5. /\ pl \in Seq(Nat)
      /\ Len(pl) = IF Len(found) <= limit THEN Len(found) ELSE limit
      /\ \A i \in 1 .. Len(pl) : pl[i] = found[i]
  BY <1>1, <1>4, TakeIs
<1> PICK n : n = Len(pl)
  OBVIOUS
<1>6. n \in Nat /\ n <= Len(found) /\ (n = 0 <=> pl = <<>>) /\ (n # 0 => n \in 1 .. n)
  BY <1>4, <1>5
<1>7. \A i \in 1 .. n : i \in 1 .. Len(found) /\ pl[i] = found[i] /\ i \in Nat
  BY <1>4, <1>5, <1>6
<1>8. n # 0 => next = found[n]
  BY <1>6, <1>7 DEF Last
<1>9. next \in Nat /\ place <= next /\ next <= Len(l)
  <2>1. CASE n = 0
    BY <1>1, <1>6, <2>1
  <2>2. CASE n # 0
    <3>1. found[n] \in place + 1 .. Len(l)
      BY <1>4, <1>6, <1>7, <2>2
    <3> QED BY <1>1, <1>8, <2>2, <3>1
  <2> QED BY <2>1, <2>2
<1>10. ASSUME NEW i \in 1 .. n PROVE pl[i] \in place + 1 .. next /\ IsActive(l[pl[i]])
  <2>1. found[i] \in place + 1 .. Len(l) /\ IsActive(l[found[i]]) /\ found[i] \in Nat
    BY <1>1, <1>4, <1>7
  <2>2. i = n \/ i < n
    BY <1>6
  <2>3. n \in 1 .. n /\ n # 0
    BY <1>6
  <2>4. found[i] <= found[n]
    <3>1. i < n => found[i] < found[n]
      BY <1>4, <1>7, <2>3
    <3>2. found[n] \in Nat
      BY <1>8, <1>9, <2>3
    <3> QED BY <2>1, <2>2, <3>1, <3>2
  <2>5. next = found[n]
    BY <1>8, <2>3
  <2>6. found[i] \in place + 1 .. next
    BY <1>1, <1>9, <2>1, <2>4, <2>5
  <2> QED BY <1>7, <2>1, <2>6
<1>11. \A i, j \in 1 .. n : i < j => pl[i] < pl[j]
  BY <1>4, <1>7
<1>12. ASSUME NEW c \in place + 1 .. next, IsActive(l[c]) PROVE \E i \in 1 .. n : pl[i] = c
  <2>1. c \in place + 1 .. Len(l) /\ c \in Nat /\ c <= next
    BY <1>1, <1>9
  <2>2. PICK i \in 1 .. Len(found) : found[i] = c
    BY <1>4, <1>12, <2>1
  <2>3. i <= n
    <3>1. CASE n = 0
      <4>1. Len(found) = 0
        BY <1>1, <1>4, <1>5, <3>1
      <4> QED BY <2>2, <4>1
    <3>2. CASE n # 0
      <4>1. next = found[n] /\ n \in 1 .. Len(found)
        BY <1>4, <1>6, <1>8, <3>2
      <4>2. n < i => found[n] < found[i]
        BY <1>4, <4>1
      <4>3. ~(n < i)
        BY <1>9, <2>1, <2>2, <4>1, <4>2
      <4> QED BY <1>6, <4>3
    <3> QED BY <3>1, <3>2
  <2>4. i \in 1 .. n
    BY <1>6, <2>3
  <2> QED BY <1>7, <2>2, <2>4
<1>13. data \in Seq(Nat) /\ ListIsShown(next, data) /\ \A x \in ToSet(data) : IsOld(x)
  <2>1. ArePlaces(pl, place, next)
    BY <1>5, <1>6, <1>10, <1>11, <1>12 DEF ArePlaces
  <2> QED BY <1>1, <1>9, <2>1, PlacesAreShown
<1>14. ASSUME Len(found) > limit PROVE place < next /\ next < Len(l)
  <2>1. n = limit /\ n # 0 /\ n \in 1 .. Len(found) /\ n + 1 \in 1 .. Len(found) /\ n < n + 1
    BY <1>1, <1>4, <1>5, <1>14
  <2>2. /\ found[n] < found[n + 1] /\ found[n + 1] \in place + 1 .. Len(l)
        /\ found[n] \in place + 1 .. Len(l)
    BY <1>4, <2>1
  <2> QED BY <1>1, <1>8, <1>9, <2>1, <2>2
<1>15. ASSUME ~(Len(found) > limit), NEW i \in 1 .. Len(l), IsActive(l[i])
       PROVE  l[i] \in Got(data)
  <2>1. n = Len(found)
    BY <1>1, <1>4, <1>5, <1>15
  <2>2. i <= next
    <3>1. CASE i <= place
      BY <1>1, <1>9, <3>1
    <3>2. CASE ~(i <= place)
      <4>1. i \in place + 1 .. Len(l)
        BY <1>1, <3>2
      <4>2. PICK k \in 1 .. n : found[k] = i
        BY <1>4, <1>15, <2>1, <4>1
      <4>3. pl[k] = i /\ pl[k] \in place + 1 .. next
        BY <1>7, <1>10, <4>2
      <4> QED BY <4>3
    <3> QED BY <3>1, <3>2
  <2>3. i \in 1 .. next
    BY <1>9, <2>2
  <2> QED BY <1>13, <1>15, <2>3 DEF ListIsShown
<1>16. /\ page.data = data /\ page.next = next
       /\ page.more \in BOOLEAN /\ (page.more <=> Len(found) > limit)
  <2>1. (Len(found) > limit) \in BOOLEAN
    OBVIOUS
  <2> PICK more : more = (Len(found) > limit)
    OBVIOUS
  <2>2. page = [data |-> data, next |-> next, more |-> more]
    BY <1>2
  <2>3. page.data = data /\ page.next = next /\ page.more = more
    BY <2>2
  <2> QED BY <2>1, <2>3, Zenon
<1> QED BY <1>9, <1>13, <1>14, <1>15, <1>16 DEF PageIsRight


\* What RepeatsAreExplained says of the pages so far, of any sequence of posts.
RepeatsIn(s) ==
    \A i, j \in DOMAIN s : i < j /\ Identity(s[i]) = Identity(s[j]) =>
        \/ posts[s[i]].status = "gone"
        \/ /\ reader.source = "redis"
           /\ s[i] \in ToSet(reader.list)
           /\ \/ s[j] \in ToSet(reader.list) \ {s[i]}
              \/ posts[s[i]].quote

\* The ranking of MongoDB has one post of an identity, and the entries of any
\* ranking come once.
LEMMA ListRepeats ==
    ASSUME IInv, IsRanking(reader.source, reader.list), NEW place \in Nat, NEW d \in Seq(Nat),
           ListIsShown(place, d)
    PROVE  RepeatsIn(shown \o d)
<1> PICK l, s : l = reader.list /\ s = shown \o d
  OBVIOUS
<1>1. /\ DOMAIN l = 1 .. Len(l) /\ Len(l) \in Nat /\ place <= Len(l)
      /\ \A i \in DOMAIN l : l[i] \in ToSet(l)
      /\ \A i, j \in DOMAIN s : s[i] = s[j] => i = j
  <2>1. DOMAIN l = 1 .. Len(l) /\ Len(l) \in Nat /\ \A i \in DOMAIN l : l[i] \in ToSet(l)
    BY RankingIs DEF IInv
  <2> QED BY <2>1 DEF ListIsShown
<1>2. ToSet(s) = Got(d) /\ DOMAIN s \subseteq Nat
  <2>1. shown \in Seq(Nat)
    BY DEF IInv, TypeOK
  <2>2. ToSet(s) = Got(d)
    BY <2>1, Joined DEF Got
  <2> QED BY <2>1, <2>2
<1>3. \A x \in ToSet(s) : \E a \in DOMAIN l : l[a] = x
  <2>1. 1 .. place \subseteq DOMAIN l
    BY <1>1
  <2> QED BY <1>2, <2>1 DEF ListIsShown
<1>4. ASSUME NEW i \in DOMAIN s, NEW j \in DOMAIN s, i < j, Identity(s[i]) = Identity(s[j])
      PROVE  reader.source = "redis" /\ s[i] \in ToSet(l) /\ s[j] \in ToSet(l) \ {s[i]}
  <2>1. s[i] # s[j]
    BY <1>1, <1>2, <1>4
  <2>2. s[i] \in ToSet(s) /\ s[j] \in ToSet(s)
    BY DEF ToSet
  <2>3. PICK a \in DOMAIN l, b \in DOMAIN l : l[a] = s[i] /\ l[b] = s[j]
    BY <1>3, <2>2
  <2>4. reader.source # "mongo"
    BY <1>4, <2>1, <2>3 DEF IsRanking
  <2>5. reader.source \in Sources
    BY DEF IInv, TypeOK, Reader
  <2> QED BY <1>1, <2>1, <2>3, <2>4, <2>5 DEF Sources
<1> QED BY <1>4 DEF RepeatsIn

-----------------------------------------------------------------------------
(* Steps of the reader.  None changes posts, and the end of one is the     *)
(* beginning of the next.                                                  *)

\* What was true of the pages and the data of a request stays true of the pages
\* and the data after it, when it is the same posts.
SamePosts(d, e) ==
    /\ posts' = posts /\ feed' = feed
    /\ reader'.list = reader.list /\ reader'.source = reader.source
    /\ shown' \o e = shown \o d
    /\ ToSet(shown') \cup ToSet(e) = Got(d)

LEMMA SameList ==
    ASSUME NEW d, NEW e, SamePosts(d, e), NEW place, ListIsShown(place, d)
    PROVE  ListIsShown(place, e)'
<1>1. Got(e)' = Got(d)
  BY DEF SamePosts, Got
<1>2. /\ place <= Len(reader'.list)
      /\ \A x \in Got(e)' : \E i \in 1 .. place : reader'.list[i] = x
      /\ \A i \in 1 .. place : posts'[reader'.list[i]].status = "active" => reader'.list[i] \in Got(e)'
  BY <1>1 DEF SamePosts, ListIsShown, IsActive
<1>3. \A i, j \in DOMAIN (shown' \o e) : (shown' \o e)[i] = (shown' \o e)[j] => i = j
  BY DEF SamePosts, ListIsShown
<1> QED BY <1>2, <1>3 DEF ListIsShown, IsActive

LEMMA SameExplained ==
    ASSUME NEW d, NEW e, SamePosts(d, e), NEW v, IsExplained(v, d)
    PROVE  IsExplained(v, e)'
<1>1. ToSet(shown') \cup ToSet(e) = ToSet(shown) \cup ToSet(d)
  BY DEF SamePosts, Got
<1>2. posts' = posts /\ reader'.list = reader.list /\ reader'.source = reader.source
  BY DEF SamePosts
<1>3. Orphaned(v)' <=> Orphaned(v)
  BY <1>2 DEF Orphaned, Identity, IsActive
<1> QED BY <1>1, <1>2, <1>3 DEF IsExplained, Got, Identity

LEMMA SameLive ==
    ASSUME NEW d, NEW e, SamePosts(d, e), steady' = steady, NEW exclusion, NEW before,
           LiveIsShown(exclusion, before, d)
    PROVE  LiveIsShown(exclusion, before, e)'
<1>1. /\ posts' = posts /\ reader'.list = reader.list /\ reader'.source = reader.source
      /\ feed' = feed /\ Got(e)' = Got(d)
  BY DEF SamePosts, Got
<1>2. \A v \in Excluded(exclusion) : IsExplained(v, e)'
  BY SameExplained DEF LiveIsShown
<1>3. \A x \in Got(e)' :
        \/ Gone(x)'
        \/ Identity(x)' \in Excluded(exclusion)
        \/ reader'.source = "redis" /\ x \in ToSet(reader'.list) /\ posts'[x].quote
        \/ before # 0 /\ before <= x
  BY <1>1 DEF LiveIsShown, Gone, Identity
<1>4. \A v \in steady' :
        \/ v \in Excluded(exclusion)
        \/ \E x \in Got(e)' : Identity(x)' = v
        \/ before = 0
        \/ Newest(v)' < before
  <2>1. \A v : Newest(v)' = Newest(v)
    BY <1>1 DEF Newest, Active, IsActive, Identity, Ids
  <2> QED BY <1>1, <2>1 DEF LiveIsShown, Identity
<1>5. Excluded(exclusion) # {} => feed' = "trending"
  BY <1>1 DEF LiveIsShown
<1> QED BY <1>2, <1>3, <1>4, <1>5 DEF LiveIsShown, Excluded

LEMMA SameRepeats ==
    ASSUME NEW d, SamePosts(d, <<>>), shown' \in Seq(Nat), RepeatsIn(shown \o d)
    PROVE  RepeatsAreExplained'
<1>1. shown' = shown \o d
  BY DEF SamePosts
<1> PICK s : s = shown \o d
  OBVIOUS
<1>2. /\ posts' = posts /\ reader'.list = reader.list /\ reader'.source = reader.source
      /\ shown' = s /\ RepeatsIn(s)
  BY <1>1 DEF SamePosts
<1>3. \A x : Identity(x)' = Identity(x)
  BY <1>2 DEF Identity
<1> SUFFICES ASSUME NEW i \in DOMAIN s, NEW j \in DOMAIN s, i < j,
                    Identity(s[i]) = Identity(s[j])
             PROVE  \/ posts[s[i]].status = "gone"
                    \/ /\ reader.source = "redis"
                       /\ s[i] \in ToSet(reader.list)
                       /\ \/ s[j] \in ToSet(reader.list) \ {s[i]}
                          \/ posts[s[i]].quote
  BY <1>2, <1>3 DEF RepeatsAreExplained, Repeated
<1> QED BY <1>2 DEF RepeatsIn


LEMMA Staying ==
    ASSUME posts' = posts, feed' = feed, reader'.list = reader.list,
           reader'.source = reader.source, shown' = shown, NEW d
    PROVE  SamePosts(d, d)
BY DEF SamePosts, Got

LEMMA Passing ==
    ASSUME IInv, posts' = posts, feed' = feed, reader'.list = reader.list,
           reader'.source = reader.source, NEW d \in Seq(Nat), shown' = shown \o d
    PROVE  SamePosts(d, <<>>) /\ shown' \in Seq(Nat) /\ ToSet(shown') = Got(d)
<1>1. shown \in Seq(Nat)
  BY DEF IInv, TypeOK
<1>2. ToSet(shown \o d) = Got(d)
  BY <1>1, Joined DEF Got
<1>3. shown \o d \in Seq(Nat) /\ (shown \o d) \o <<>> = shown \o d
  BY <1>1
<1>4. ToSet(<<>>) = {}
  BY DEF ToSet
<1> QED BY <1>2, <1>3, <1>4 DEF SamePosts

\* What is left to show of a step that does not touch posts.
LEMMA ReaderStepKeeps ==
    ASSUME IInv, posts' = posts, generation' = generation, feed' = feed,
           steady' \subseteq Identities,
           snapshots' \in [Sources -> [Generations -> Seq(Nat) \cup {None}]], SnapshotsAreRankings',
           exclusions' \subseteq Exclusion, faults' \in Nat, reader' \in Reader, shown' \in Seq(Nat),
           \A x \in ToSet(shown') \cup ToSet(reader'.data) : IsOld(x),
           CursorInv', RequestInv', RepeatsAreExplained', NothingIsSkipped'
    PROVE  IInv'
<1>1. Identities' = Identities /\ Ids' = Ids
  BY DEF Identities, Active, IsActive, Identity, Ids
<1>2. Identities \subseteq Nat
  <2>1. posts \in Seq(Post) /\ LinkedIn(posts)
    BY SteadyAre
  <2>2. \A x \in LivingIn(posts) : StandsFor(posts, x) \in 1 .. Len(posts)
    BY <2>1, StandsForIs, LivingAre
  <2>3. Identities = StoodFor(posts) /\ Len(posts) \in Nat
    BY <2>1, HereAndNow, LivingAre
  <2> QED BY <2>2, <2>3 DEF StoodFor
<1>3. TypeOK'
  BY <1>2 DEF IInv, TypeOK
<1>4. PostsAreLinked'
  BY HereAndNow, HereAndThen DEF IInv
<1>5. steady' \subseteq Identities'
  BY <1>1
<1>6. GotWereActive'
  BY <1>1 DEF GotWereActive, Got, IsOld, Ids
<1> QED BY <1>3, <1>4, <1>5, <1>6 DEF IInv

\* Steps in the course of a request that keep its list.
LEMMA QuietStep ==
    ASSUME IInv, UNCHANGED <<posts, generation, steady, snapshots, feed, shown>>,
           exclusions' \subseteq Exclusion, faults' \in Nat,
           reader' \in Reader, reader'.cursor = reader.cursor, reader'.list = reader.list,
           reader'.source = reader.source, reader'.generation = reader.generation,
           reader.pc # "end", reader'.pc \notin {"build", "store", "end"},
           reader.cursor \in LiveCursor => reader'.pc \in {"idle", "refused"},
           \A x \in ToSet(reader'.data) : IsOld(x), RequestInv'
    PROVE  IInv'
<1>1. SamePosts(<<>>, <<>>)
  BY Staying
<1>2. IsKept' <=> IsKept
  BY DEF IsKept
<1> PICK cursor : cursor = reader.cursor
  OBVIOUS
<1>3. cursor \in ListCursor => ListIsShown(reader.cursor.offset, <<>>)'
  <2> SUFFICES ASSUME cursor \in ListCursor PROVE ListIsShown(reader.cursor.offset, <<>>)'
    OBVIOUS
  <2>1. ListIsShown(cursor.offset, <<>>)
    BY DEF IInv, CursorInv
  <2>2. ListIsShown(cursor.offset, <<>>)'
    BY <1>1, <2>1, SameList
  <2> QED BY <2>2 DEF ListIsShown, Got
<1>4. cursor \in LiveCursor =>
        LiveIsShown(reader.cursor.exclusion, reader.cursor.before, <<>>)'
  <2> SUFFICES ASSUME cursor \in LiveCursor
               PROVE  LiveIsShown(reader.cursor.exclusion, reader.cursor.before, <<>>)'
    OBVIOUS
  <2>1. LiveIsShown(cursor.exclusion, cursor.before, <<>>)
    BY DEF IInv, CursorInv
  <2>2. LiveIsShown(cursor.exclusion, cursor.before, <<>>)'
    BY <1>1, <2>1, SameLive
  <2> QED BY <2>2 DEF LiveIsShown, Excluded, Got, IsExplained
<1>5. CursorInv'
  <2>1. CursorInv
    BY DEF IInv
  <2> QED BY <1>2, <1>3, <1>4, <2>1 DEF CursorInv
<1>6. RepeatsAreExplained' /\ NothingIsSkipped'
  <2>1. RepeatsAreExplained
    BY DEF IInv
  <2> QED BY <2>1 DEF RepeatsAreExplained, Repeated, Identity, NothingIsSkipped
<1>7. \A x \in ToSet(shown') \cup ToSet(reader'.data) : IsOld(x)
  BY DEF IInv, GotWereActive, Got, IsOld
<1>8. SnapshotsAreRankings'
  BY DEF IInv, SnapshotsAreRankings, IsRanking, Ids, Identity
<1>9. /\ shown' \in Seq(Nat) /\ steady' \subseteq Identities
      /\ snapshots' \in [Sources -> [Generations -> Seq(Nat) \cup {None}]]
  BY DEF IInv, TypeOK
<1> QED BY <1>5, <1>6, <1>7, <1>8, <1>9, ReaderStepKeeps


LEMMA ReaderIs ==
    ASSUME IInv
    PROVE  /\ reader \in Reader
           /\ DOMAIN reader = {"pc", "cursor", "limit", "source", "generation", "list", "offset",
                               "data", "seen", "exclusion"}
           /\ reader.pc \in PcSet /\ reader.limit \in Nat /\ reader.source \in Sources
           /\ reader.generation \in Generations /\ reader.list \in Seq(Nat) /\ reader.offset \in Nat
           /\ reader.data \in Seq(Nat) /\ reader.seen \in [ids : SUBSET Nat, names : SUBSET Nat]
           /\ reader.exclusion \in Exclusion \cup {None}
           /\ reader.cursor \in ListCursor \cup LiveCursor \cup {None}
BY DEF IInv, TypeOK, Reader

\* The phase of a cursor tells what it is.
LEMMA CursorIs ==
    ASSUME IInv
    PROVE  /\ reader.cursor # None /\ reader.cursor.phase = "list" => reader.cursor \in ListCursor
           /\ reader.cursor # None /\ reader.cursor.phase = "new" => reader.cursor \in LiveCursor
           /\ None \notin ListCursor \cup LiveCursor
           /\ \A c \in ListCursor : c \notin LiveCursor
BY ReaderIs, FeedAssumptions DEF ListCursor, LiveCursor

LEMMA SameRanking ==
    ASSUME posts' = posts, NEW source, NEW l, IsRanking(source, l)
    PROVE  IsRanking(source, l)'
BY DEF IsRanking, Ids, Identity

LEMMA AbandonedKeeps ==
    ASSUME IInv, reader' = Abandoned, reader.pc # "end", faults' \in Nat,
           UNCHANGED <<posts, generation, steady, snapshots, exclusions, feed, shown>>
    PROVE  IInv'
<1>1. /\ reader' \in Reader
      /\ reader'.pc = "idle" /\ reader'.data = <<>> /\ reader'.exclusion = None
      /\ reader'.cursor = reader.cursor /\ reader'.list = reader.list
      /\ reader'.source = reader.source /\ reader'.generation = reader.generation
  <2>1. reader' = [reader EXCEPT !.pc = "idle", !.offset = 0, !.data = <<>>, !.exclusion = None]
    BY DEF Abandoned
  <2>2. reader' \in Reader
    <3>1. <<>> \in Seq(Nat) /\ None \in Exclusion \cup {None} /\ "idle" \in PcSet /\ 0 \in Nat
      BY DEF PcSet
    <3>2. reader \in Reader
      BY ReaderIs
    <3> QED BY <2>1, <3>1, <3>2 DEF Reader
  <2>3. /\ reader'.pc = "idle" /\ reader'.data = <<>> /\ reader'.exclusion = None
        /\ reader'.cursor = reader.cursor /\ reader'.list = reader.list
    BY <2>1, ReaderIs DEF Reader
  <2>4. reader'.source = reader.source /\ reader'.generation = reader.generation
    BY <2>1, ReaderIs DEF Reader
  <2> QED BY <2>2, <2>3, <2>4
<1>2. IsRanking(reader.source, reader.list)' \/ reader.cursor = None
  <2>1. IsRanking(reader.source, reader.list) \/ reader.cursor = None
    BY DEF IInv, RequestInv, HasList
  <2> PICK source, l : source = reader.source /\ l = reader.list
    OBVIOUS
  <2>2. IsRanking(source, l) => IsRanking(source, l)'
    BY SameRanking
  <2> QED BY <1>1, <2>1, <2>2 DEF IsRanking
<1>3. RequestInv'
  <2>1. /\ reader.source = "redis" => feed = "trending"
        /\ feed = "new" => reader.list = <<>>
    BY DEF IInv, RequestInv
  <2> QED BY <1>1, <1>2, <2>1 DEF RequestInv, HasList
<1>4. exclusions' \subseteq Exclusion /\ \A x \in ToSet(reader'.data) : IsOld(x)
  BY <1>1 DEF IInv, TypeOK, ToSet
<1> QED BY <1>1, <1>3, <1>4, QuietStep

LEMMA FailKeeps == IInv /\ Fail => IInv'
<1> SUFFICES ASSUME IInv, Fail PROVE IInv'
  OBVIOUS
<1>1. faults' \in Nat
  BY DEF Fail, IInv, TypeOK
<1> QED BY <1>1, AbandonedKeeps DEF Fail, content

\* A snapshot that a cursor names is the list the reader has.
LEMMA KeptIs ==
    ASSUME IInv, IsKept
    PROVE  \/ snapshots[reader.source][reader.generation] = None
           \/ snapshots[reader.source][reader.generation] = reader.list
BY DEF IsKept

LEMMA ContinueKeeps ==
    ASSUME IInv, NEW limit \in Limits, Continue(limit)
    PROVE  IInv'
<1> PICK cursor : cursor = reader.cursor
  OBVIOUS
<1>1. cursor \in ListCursor /\ reader.pc = "idle" /\ reader.cursor # None /\ cursor \notin LiveCursor
  BY CursorIs DEF Continue, Step, At
<1>2. /\ feed # "new"
      /\ cursor.source = reader.source /\ cursor.generation = reader.generation
      /\ cursor.offset \in Nat
      /\ ListIsShown(cursor.offset, <<>>) /\ IsKept
  BY <1>1 DEF IInv, CursorInv, ListCursor
<1>3. /\ reader.data = <<>> /\ reader.exclusion = None
      /\ reader.source = "redis" => feed = "trending"
      /\ IsRanking(reader.source, reader.list)
  BY <1>1 DEF IInv, RequestInv, HasList
<1>4. /\ posts' = posts /\ generation' = generation /\ steady' = steady
      /\ snapshots' = snapshots /\ exclusions' = exclusions /\ feed' = feed /\ shown' = shown
      /\ faults' = faults
  BY DEF Continue, ReaderOnly, content
<1>5. faults' \in Nat /\ exclusions' \subseteq Exclusion /\ limit \in Nat \ {0}
  BY <1>4, FeedAssumptions DEF IInv, TypeOK
<1> PICK list : list = snapshots[cursor.source][cursor.generation]
  OBVIOUS
<1>6. \/ list = None /\ reader' = Goto("refused")
      \/ /\ list # None
         /\ reader' = [reader EXCEPT !.pc = "read", !.limit = limit, !.list = list,
                                     !.source = cursor.source, !.offset = cursor.offset,
                                     !.generation = cursor.generation]
  BY DEF Continue, Step
<1>7. list = None \/ list = reader.list
  BY <1>2, KeptIs
<1>8. /\ reader' \in Reader
      /\ reader'.cursor = reader.cursor /\ reader'.list = reader.list
      /\ reader'.source = reader.source /\ reader'.generation = reader.generation
      /\ reader'.data = <<>> /\ reader'.exclusion = None
      /\ \/ reader'.pc = "refused"
         \/ reader'.pc = "read" /\ reader'.limit = limit /\ reader'.offset = cursor.offset
  <2>1. CASE reader' = Goto("refused")
    BY <1>3, <2>1, ReaderIs DEF Goto, Reader, PcSet
  <2>2. CASE reader' # Goto("refused")
    <3>1. reader' = [reader EXCEPT !.pc = "read", !.limit = limit, !.offset = cursor.offset]
      BY <1>2, <1>6, <1>7, <2>2, ReaderIs DEF Reader
    <3>2. reader' \in Reader
      BY <1>2, <1>5, <3>1, ReaderIs DEF Reader, PcSet
    <3> QED BY <1>3, <3>1, <3>2, ReaderIs DEF Reader
  <2> QED BY <2>1, <2>2
<1>9. IsRanking(reader.source, reader.list)'
  <2> PICK source, l : source = reader.source /\ l = reader.list
    OBVIOUS
  <2>1. IsRanking(source, l)'
    BY <1>3, <1>4, SameRanking
  <2> QED BY <1>8, <2>1 DEF IsRanking
<1>10. reader'.pc = "read" => ListIsShown(reader.offset, reader.data)'
  <2> SUFFICES ASSUME reader'.pc = "read" PROVE ListIsShown(reader.offset, reader.data)'
    OBVIOUS
  <2>1. SamePosts(<<>>, <<>>)
    BY <1>4, <1>8, Staying
  <2>2. ListIsShown(cursor.offset, <<>>)'
    BY <1>2, <2>1, SameList
  <2>3. reader'.offset = cursor.offset /\ reader'.data = <<>>
    BY <1>8
  <2> QED BY <2>2, <2>3 DEF ListIsShown, Got
<1>11. IsKept'
  BY <1>2, <1>4, <1>8 DEF IsKept
<1>12. RequestInv'
  <2>1. feed' # "new" /\ (reader'.source = "redis" => feed' = "trending")
    BY <1>2, <1>3, <1>4, <1>8
  <2>2. reader'.pc = "read" => reader'.limit # 0
    BY <1>5, <1>8
  <2> QED BY <1>8, <1>9, <1>10, <1>11, <2>1, <2>2 DEF RequestInv
<1>13. \A x \in ToSet(reader'.data) : IsOld(x)
  BY <1>8 DEF ToSet
<1> QED BY <1>1, <1>4, <1>5, <1>8, <1>12, <1>13, QuietStep


\* Steps before the first page.
LEMMA FreshStep ==
    ASSUME IInv, UNCHANGED <<posts, generation, exclusions, feed, shown>>, shown = <<>>,
           steady' \subseteq Identities,
           snapshots' \in [Sources -> [Generations -> Seq(Nat) \cup {None}]], SnapshotsAreRankings',
           faults' \in Nat, reader' \in Reader, reader'.cursor = None, reader'.pc # "end",
           reader'.data = <<>>, RequestInv'
    PROVE  IInv'
<1>1. CursorInv'
  BY CursorIs DEF CursorInv
<1>2. RepeatsAreExplained' /\ NothingIsSkipped'
  BY DEF RepeatsAreExplained, NothingIsSkipped
<1>3. \A x \in ToSet(shown') \cup ToSet(reader'.data) : IsOld(x)
  BY DEF ToSet
<1>4. exclusions' \subseteq Exclusion /\ shown' \in Seq(Nat)
  BY DEF IInv, TypeOK
<1> QED BY <1>1, <1>2, <1>3, <1>4, ReaderStepKeeps

LEMMA FreshList ==
    ASSUME posts' = posts, shown' = <<>>, reader'.list \in Seq(Nat)
    PROVE  ListIsShown(0, <<>>)' /\ IsRanking("mongo", <<>>)'
<1>1. ToSet(<<>>) = {} /\ <<>> \o <<>> = <<>> /\ DOMAIN <<>> = {} /\ 1 .. 0 = {}
  BY DEF ToSet
<1>2. Got(<<>>)' = {}
  BY <1>1 DEF Got
<1>3. <<>> \in Seq(Ids')
  OBVIOUS
<1>4. IsRanking("mongo", <<>>)'
  BY <1>1, <1>3 DEF IsRanking
<1>5. ListIsShown(0, <<>>)'
  BY <1>1, <1>2 DEF ListIsShown
<1> QED BY <1>4, <1>5


\* A request that builds or stores a snapshot is one for the first page.
LEMMA BuildingIs ==
    ASSUME IInv, reader.pc \in {"build", "store"}
    PROVE  /\ reader.cursor = None /\ shown = <<>> /\ feed # "new"
           /\ reader.data = <<>> /\ reader.exclusion = None /\ reader.offset = 0
           /\ reader.limit # 0
           /\ reader.source = "redis" => feed = "trending"
<1>1. reader.cursor \notin ListCursor /\ reader.cursor \notin LiveCursor
  BY DEF IInv, CursorInv
<1>2. reader.cursor = None
  BY <1>1, ReaderIs
<1> QED BY <1>2 DEF IInv, CursorInv, RequestInv

LEMMA BuildKeeps == IInv /\ Build => IInv'
<1> SUFFICES ASSUME IInv, Build PROVE IInv'
  OBVIOUS
<1>1. PICK list \in Rankings(reader.source) :
        reader.pc = "build" /\ reader' = [reader EXCEPT !.pc = "store", !.list = list]
  BY DEF Build, At
<1>2. IsRanking(reader.source, list)
  BY ReaderIs, RankingsAre DEF IInv
<1>3. list \in Seq(Nat)
  BY <1>2, RankingIs DEF IInv
<1>4. reader' \in Reader
  <2>1. "store" \in PcSet /\ reader \in Reader
    BY ReaderIs DEF PcSet
  <2> QED BY <1>1, <1>3, <2>1 DEF Reader
<1>5. /\ reader'.pc = "store" /\ reader'.list = list /\ reader'.source = reader.source
      /\ reader'.limit = reader.limit /\ reader'.offset = reader.offset
  BY <1>1, ReaderIs
<1>6. reader'.cursor = None /\ reader'.data = <<>> /\ reader'.exclusion = None
  BY <1>1, ReaderIs, BuildingIs
<1>7. /\ posts' = posts /\ generation' = generation /\ steady' = steady
      /\ snapshots' = snapshots /\ exclusions' = exclusions /\ feed' = feed /\ shown' = shown
      /\ faults' = faults
  BY DEF Build, ReaderOnly, content
<1>8. IsRanking(reader.source, reader.list)'
  <2> PICK source : source = reader.source
    OBVIOUS
  <2>1. IsRanking(source, list)'
    BY <1>2, <1>7, SameRanking
  <2> QED BY <1>5, <2>1 DEF IsRanking
<1>9. RequestInv'
  BY <1>1, <1>5, <1>6, <1>7, <1>8, BuildingIs DEF RequestInv
<1>10. /\ steady' \subseteq Identities /\ faults' \in Nat
       /\ snapshots' \in [Sources -> [Generations -> Seq(Nat) \cup {None}]]
  BY <1>7 DEF IInv, TypeOK
<1>11. SnapshotsAreRankings'
  BY <1>7 DEF IInv, SnapshotsAreRankings, IsRanking, Ids, Identity
<1> QED BY <1>1, <1>4, <1>5, <1>6, <1>7, <1>9, <1>10, <1>11, BuildingIs, FreshStep

LEMMA StoreKeeps == IInv /\ Store => IInv'
<1> SUFFICES ASSUME IInv, Store PROVE IInv'
  OBVIOUS
<1> PICK source, g, new : source = reader.source /\ g = reader.generation
                          /\ new = Stored(source, g, reader.list)
  OBVIOUS
<1>1. /\ reader.pc = "store" /\ snapshots' = new
      /\ reader' = [reader EXCEPT !.pc = "read", !.list = new[source][g]]
  BY DEF Store, Step, At
<1>2. IsRanking(source, reader.list) /\ source \in Sources /\ g \in Generations
  BY <1>1, ReaderIs DEF IInv, RequestInv, HasList
<1>3. /\ new \in [Sources -> [Generations -> Seq(Nat) \cup {None}]]
      /\ \A s \in Sources, h \in Generations :
          \/ new[s][h] = snapshots[s][h]
          \/ s = source /\ h = g /\ snapshots[s][h] = None /\ IsRanking(s, new[s][h])
      /\ new[source][g] = IF snapshots[source][g] = None THEN reader.list ELSE snapshots[source][g]
  BY <1>2, StoredIs
<1>4. \A s \in Sources, h \in Generations : new[s][h] # None => IsRanking(s, new[s][h])
  BY <1>3 DEF IInv, SnapshotsAreRankings
<1> PICK list : list = new[source][g]
  OBVIOUS
<1>5. IsRanking(source, list) /\ list \in Seq(Nat)
  <2>1. reader.list # None
    BY ReaderIs, FeedAssumptions
  <2>2. IsRanking(source, list)
    BY <1>2, <1>3, <1>4, <2>1
  <2> QED BY <2>2, RankingIs DEF IInv
<1>6. reader' \in Reader
  <2>1. "read" \in PcSet /\ reader \in Reader
    BY ReaderIs DEF PcSet
  <2> QED BY <1>1, <1>5, <2>1 DEF Reader
<1>7. /\ reader'.pc = "read" /\ reader'.list = list /\ reader'.source = source
      /\ reader'.generation = g /\ reader'.limit = reader.limit
  BY <1>1, ReaderIs
<1>8. /\ reader'.cursor = None /\ reader'.data = <<>> /\ reader'.exclusion = None
      /\ reader'.offset = 0
  BY <1>1, ReaderIs, BuildingIs
<1>9. /\ posts' = posts /\ generation' = generation /\ steady' = steady
      /\ exclusions' = exclusions /\ feed' = feed /\ shown' = shown /\ faults' = faults
  BY DEF Store, content
<1>10. IsRanking(reader.source, reader.list)'
  <2>1. IsRanking(source, list)'
    BY <1>5, <1>9, SameRanking
  <2> QED BY <1>7, <2>1 DEF IsRanking
<1>11. IsKept'
  BY <1>1, <1>7 DEF IsKept
<1>12. ListIsShown(reader.offset, reader.data)'
  <2>1. ListIsShown(0, <<>>)'
    BY <1>1, <1>5, <1>7, <1>9, BuildingIs, FreshList
  <2> QED BY <1>8, <2>1 DEF ListIsShown, Got
<1>13. RequestInv'
  BY <1>1, <1>7, <1>8, <1>9, <1>10, <1>11, <1>12, BuildingIs DEF RequestInv
<1>14. /\ steady' \subseteq Identities /\ faults' \in Nat
       /\ snapshots' \in [Sources -> [Generations -> Seq(Nat) \cup {None}]]
  BY <1>1, <1>3, <1>9 DEF IInv, TypeOK
<1>15. SnapshotsAreRankings'
  <2> SUFFICES ASSUME NEW s \in Sources, NEW h \in Generations, snapshots'[s][h] # None
               PROVE  IsRanking(s, snapshots[s][h])'
    BY DEF SnapshotsAreRankings
  <2> PICK l : l = new[s][h]
    OBVIOUS
  <2>1. IsRanking(s, l)
    BY <1>1, <1>4
  <2>2. IsRanking(s, l)'
    BY <1>9, <2>1, SameRanking
  <2>3. snapshots'[s][h] = l
    BY <1>1
  <2> QED BY <2>2, <2>3 DEF IsRanking
<1> QED BY <1>1, <1>6, <1>7, <1>8, <1>9, <1>13, <1>14, <1>15, BuildingIs, FreshStep


\* Looking for a snapshot begins the walk, or begins it again with the ranking
\* of MongoDB.
LEMMA LookUpKeeps ==
    ASSUME IInv, NEW source \in Sources, source = "redis" => feed = "trending",
           shown = <<>>, reader.cursor = None, reader.data = <<>>, reader.exclusion = None,
           NEW limit \in Nat \ {0}, reader' = [LookUp(source) EXCEPT !.limit = limit],
           UNCHANGED <<posts, generation, snapshots, exclusions, feed, shown>>,
           steady' \subseteq Identities, faults' \in Nat
    PROVE  IInv'
<1> PICK found : found = snapshots[source][generation]
  OBVIOUS
<1>1. generation \in Generations /\ found \in Seq(Nat) \cup {None}
  BY DEF IInv, TypeOK
<1>2. found # None => IsRanking(source, found)
  BY <1>1 DEF IInv, SnapshotsAreRankings
<1> PICK request : request = [reader EXCEPT !.source = source, !.generation = generation,
                                            !.offset = 0]
  OBVIOUS
<1>3. request \in Reader
  BY <1>1, ReaderIs DEF Reader
<1>4. /\ request.source = source /\ request.generation = generation /\ request.offset = 0
      /\ request.cursor = None /\ request.data = <<>> /\ request.exclusion = None
      /\ request.list = reader.list
  BY ReaderIs
<1>5. LookUp(source) =
        IF feed = "new" THEN [request EXCEPT !.pc = "fill"]
        ELSE IF found = None THEN [request EXCEPT !.pc = "build"]
        ELSE [request EXCEPT !.pc = "read", !.list = found]
  BY DEF LookUp
<1> PICK pc, list : pc = (IF feed = "new" THEN "fill" ELSE IF found = None THEN "build" ELSE "read")
                    /\ list = (IF pc = "read" THEN found ELSE reader.list)
  OBVIOUS
<1>6. list \in Seq(Nat) /\ pc \in {"fill", "build", "read"}
  BY <1>1, ReaderIs
<1>7. /\ reader' \in Reader
      /\ reader'.pc = pc /\ reader'.list = list /\ reader'.limit = limit
      /\ reader'.source = source /\ reader'.generation = generation /\ reader'.offset = 0
      /\ reader'.cursor = None /\ reader'.data = <<>> /\ reader'.exclusion = None
  <2>1. CASE feed = "new"
    <3>1. reader' = [request EXCEPT !.pc = "fill", !.limit = limit]
      BY <1>5, <2>1
    <3>2. "fill" \in PcSet
      BY DEF PcSet
    <3>3. reader' \in Reader
      BY <1>3, <3>1, <3>2 DEF Reader
    <3>4. pc = "fill" /\ list = reader.list
      BY <2>1
    <3> QED BY <1>3, <1>4, <3>1, <3>3, <3>4 DEF Reader
  <2>2. CASE feed # "new" /\ found = None
    <3>1. reader' = [request EXCEPT !.pc = "build", !.limit = limit]
      BY <1>5, <2>2
    <3>2. "build" \in PcSet
      BY DEF PcSet
    <3>3. reader' \in Reader
      BY <1>3, <3>1, <3>2 DEF Reader
    <3>4. pc = "build" /\ list = reader.list
      BY <2>2
    <3> QED BY <1>3, <1>4, <3>1, <3>3, <3>4 DEF Reader
  <2>3. CASE feed # "new" /\ found # None
    <3>1. reader' = [request EXCEPT !.pc = "read", !.list = found, !.limit = limit]
      BY <1>5, <2>3
    <3>2. "read" \in PcSet /\ found \in Seq(Nat)
      BY <1>1, <2>3 DEF PcSet
    <3>3. reader' \in Reader
      BY <1>3, <3>1, <3>2 DEF Reader
    <3>4. pc = "read" /\ list = found
      BY <2>3
    <3>5. DOMAIN request = {"pc", "cursor", "limit", "source", "generation", "list", "offset",
                            "data", "seen", "exclusion"}
      BY <1>3 DEF Reader
    <3>6. reader'.pc = "read" /\ reader'.list = found /\ reader'.limit = limit
      BY <3>1, <3>5
    <3>7. reader'.source = request.source /\ reader'.generation = request.generation
      BY <3>1, <3>5
    <3>8. /\ reader'.offset = request.offset /\ reader'.cursor = request.cursor
          /\ reader'.data = request.data /\ reader'.exclusion = request.exclusion
      BY <3>1, <3>5
    <3> QED BY <1>4, <3>3, <3>4, <3>6, <3>7, <3>8
  <2> QED BY <2>1, <2>2, <2>3
<1>8. ListIsShown(0, <<>>)' /\ IsRanking("mongo", <<>>)'
  BY <1>6, <1>7, FreshList
<1>9. pc # "build" => IsRanking(reader.source, reader.list)'
  <2>1. CASE pc = "read"
    <3>1. IsRanking(source, list)'
      BY <1>2, <2>1, SameRanking
    <3> QED BY <1>7, <3>1 DEF IsRanking
  <2>2. CASE pc = "fill"
    <3>1. feed = "new" /\ list = <<>> /\ source = "mongo"
      BY <2>2 DEF IInv, RequestInv, Sources
    <3>2. IsRanking(source, list)'
      BY <1>8, <3>1
    <3> QED BY <1>7, <3>2 DEF IsRanking
  <2> QED BY <1>6, <2>1, <2>2
<1>10. pc = "read" => IsKept'
  BY <1>7 DEF IsKept
<1>11. ListIsShown(reader.offset, reader.data)'
  BY <1>7, <1>8 DEF ListIsShown, Got
<1>12. LiveIsShown(reader.exclusion, 0, reader.data)'
  <2>1. Got(reader.data)' = {} /\ Excluded(reader.exclusion)' = {}
    BY <1>7 DEF Got, Excluded, ToSet
  <2> QED BY <2>1 DEF LiveIsShown
<1>13. feed = "new" => list = <<>>
  BY DEF IInv, RequestInv
<1>14. RequestInv'
  <2>1. pc = "fill" <=> feed = "new"
    OBVIOUS
  <2>2. reader'.cursor = None /\ feed' = feed
    BY <1>7
  <2> QED BY <1>6, <1>7, <1>9, <1>10, <1>11, <1>12, <1>13, <2>1, <2>2 DEF RequestInv, HasList
<1>15. snapshots' \in [Sources -> [Generations -> Seq(Nat) \cup {None}]]
  BY DEF IInv, TypeOK
<1>16. SnapshotsAreRankings'
  BY DEF IInv, SnapshotsAreRankings, IsRanking, Ids, Identity
<1>17. reader'.pc # "end"
  BY <1>6, <1>7
<1> QED BY <1>7, <1>14, <1>15, <1>16, <1>17, FreshStep

LEMMA OpenKeeps ==
    ASSUME IInv, NEW limit \in Limits, Open(limit) \/ OpenWithoutRanking(limit)
    PROVE  IInv'
<1>1. /\ shown = <<>> /\ reader.cursor = None /\ reader.data = <<>> /\ reader.exclusion = None
      /\ steady' = Identities
      /\ UNCHANGED <<posts, generation, snapshots, exclusions, feed, shown>>
  BY DEF Open, OpenWithoutRanking, Begins, At, IInv, CursorInv, RequestInv
<1>2. limit \in Nat \ {0} /\ faults' \in Nat
  BY FeedAssumptions DEF Open, OpenWithoutRanking, IInv, TypeOK
<1>3. PICK source \in Sources : /\ source = "redis" => feed = "trending"
                                /\ reader' = [LookUp(source) EXCEPT !.limit = limit]
  BY DEF Open, OpenWithoutRanking, FirstSource, Sources
<1> QED BY <1>1, <1>2, <1>3, LookUpKeeps

\* No cursor leads into an empty ranking, ...
LEMMA EmptyIsFirst ==
    ASSUME IInv, reader.pc = "read", reader.list = <<>>
    PROVE  reader.cursor = None
<1>1. reader.cursor \notin LiveCursor
  BY DEF IInv, CursorInv
<1>2. reader.cursor \notin ListCursor
  <2> SUFFICES ASSUME reader.cursor \in ListCursor PROVE FALSE
    OBVIOUS
  <2>1. reader.cursor.offset < Len(reader.list) /\ reader.cursor.offset \in Nat
    BY DEF IInv, CursorInv, ListCursor
  <2> QED BY <2>1
<1> QED BY <1>1, <1>2, ReaderIs

\* ... which has shown nothing.
LEMMA TurnToMongoKeeps == IInv /\ TurnToMongo => IInv'
<1> SUFFICES ASSUME IInv, TurnToMongo PROVE IInv'
  OBVIOUS
<1>1. /\ reader.pc = "read" /\ reader.list = <<>> /\ reader' = LookUp("mongo")
      /\ UNCHANGED <<posts, generation, snapshots, exclusions, feed, shown, steady, faults>>
  BY DEF TurnToMongo, RankingIsEmpty, Step, At, ReaderOnly, content
<1>2. /\ reader.data = <<>> /\ reader.exclusion = None /\ reader.limit # 0
      /\ ListIsShown(reader.offset, reader.data)
  BY <1>1 DEF IInv, RequestInv
<1>3. reader.offset \in Nat /\ reader.limit \in Nat /\ Len(reader.list) = 0
  BY <1>1, ReaderIs
<1>4. shown = <<>>
  <2>1. Got(<<>>) = {}
    BY <1>2, <1>3 DEF ListIsShown
  <2>2. shown \in Seq(Nat) /\ \A i \in DOMAIN shown : shown[i] \in Got(<<>>)
    BY DEF IInv, TypeOK, Got, ToSet
  <2> QED BY <2>1, <2>2
<1>5. reader.cursor = None
  BY <1>1, EmptyIsFirst
<1>6. reader' = [LookUp("mongo") EXCEPT !.limit = reader.limit]
  <2>1. reader = [reader EXCEPT !.limit = reader.limit]
    BY ReaderIs DEF Reader
  <2>2. ASSUME NEW l, NEW s, NEW g, NEW pc
        PROVE  /\ [reader EXCEPT !.source = s, !.generation = g, !.offset = 0, !.pc = pc] =
                    [reader EXCEPT !.source = s, !.generation = g, !.offset = 0, !.pc = pc,
                                   !.limit = reader.limit]
               /\ [reader EXCEPT !.source = s, !.generation = g, !.offset = 0, !.pc = pc,
                                 !.list = l] =
                    [reader EXCEPT !.source = s, !.generation = g, !.offset = 0, !.pc = pc,
                                   !.list = l, !.limit = reader.limit]
    BY ReaderIs DEF Reader
  <2> QED BY <1>1, <2>2 DEF LookUp
<1>7. steady' \subseteq Identities /\ faults' \in Nat /\ "mongo" \in Sources /\ "mongo" # "redis"
  BY <1>1 DEF IInv, TypeOK, Sources
<1>8. reader.limit \in Nat \ {0}
  BY <1>2, <1>3
<1> QED BY <1>1, <1>2, <1>4, <1>5, <1>6, <1>7, <1>8, LookUpKeeps


LEMMA PageIs ==
    ASSUME IInv, reader.pc = "read", NEW page, page = Page
    PROVE  PageIsRight(page) /\ IsRanking(reader.source, reader.list) /\ reader.data = <<>>
<1>1. /\ IsRanking(reader.source, reader.list) /\ ListIsShown(reader.offset, reader.data)
      /\ reader.data = <<>> /\ reader.limit # 0
  BY DEF IInv, RequestInv, HasList
<1>2. ListIsShown(reader.offset, <<>>)
  BY <1>1
<1>3. page = RedisPage \/ page = MongoPage
  BY DEF Page
<1> QED BY <1>1, <1>2, <1>3, RedisPageIs, MongoPageIs

\* In the course of a request there is no cursor of the New feed.
LEMMA ReadingIs ==
    ASSUME IInv, reader.pc \in {"read", "collect", "resolve", "fill"}
    PROVE  /\ reader.cursor \notin LiveCursor /\ reader.limit # 0
           /\ IsRanking(reader.source, reader.list)
           /\ ListIsShown(reader.offset, reader.data)
           /\ reader.source = "redis" => feed = "trending"
           /\ feed = "new" => reader.list = <<>>
           /\ \A x \in Got(reader.data) : IsOld(x)
BY DEF IInv, CursorInv, RequestInv, HasList, GotWereActive, IsOld

\* Those steps of a request leave everything but the request as it is.
LEMMA RequestStep ==
    ASSUME IInv, reader.pc \in {"read", "collect", "resolve", "fill"},
           NEW next \in Reader, reader' = next,
           next.cursor = reader.cursor, next.list = reader.list, next.source = reader.source,
           next.generation = reader.generation, next.limit = reader.limit,
           UNCHANGED <<posts, generation, steady, snapshots, feed, shown, faults>>,
           exclusions' \subseteq Exclusion,
           next.pc \in {"collect", "resolve", "fill"}, \A x \in ToSet(next.data) : IsOld(x),
           feed = "trending", next.pc # "fill" => next.exclusion = None,
           next.pc = "collect" => IsKept,
           ListIsShown(next.offset, next.data)',
           next.pc = "resolve" => SeenIsRight',
           next.pc = "fill" => LiveIsShown(next.exclusion, 0, next.data)'
    PROVE  IInv'
<1>1. IsRanking(reader.source, reader.list)'
  <2> PICK source, l : source = reader.source /\ l = reader.list
    OBVIOUS
  <2>1. IsRanking(source, l)'
    BY ReadingIs, SameRanking
  <2> QED BY <2>1 DEF IsRanking
<1>2. next.pc = "collect" => IsKept'
  BY DEF IsKept
<1>3. ListIsShown(reader.offset, reader.data)'
  BY DEF ListIsShown, Got
<1>4. next.pc = "fill" => LiveIsShown(reader.exclusion, 0, reader.data)'
  BY DEF LiveIsShown, Excluded, Got, IsExplained
<1>5. /\ reader'.pc = next.pc /\ next.pc \in {"collect", "resolve", "fill"} /\ reader'.limit # 0
      /\ next.pc # "fill" => reader'.exclusion = None
      /\ feed' = "trending"
  BY ReadingIs
<1>6. RequestInv'
  BY <1>1, <1>2, <1>3, <1>4, <1>5 DEF RequestInv
<1>7. /\ reader.pc # "end" /\ reader'.pc \notin {"build", "store", "end"} /\ faults' \in Nat
      /\ reader.cursor \notin LiveCursor
  BY ReadingIs DEF IInv, TypeOK
<1>8. /\ reader' \in Reader /\ reader'.cursor = reader.cursor /\ reader'.list = reader.list
      /\ reader'.source = reader.source /\ reader'.generation = reader.generation
      /\ \A x \in ToSet(reader'.data) : IsOld(x)
  OBVIOUS
<1> QED BY <1>6, <1>7, <1>8, QuietStep

LEMMA ReadLastPageKeeps == IInv /\ ReadLastPage => IInv'
<1> SUFFICES ASSUME IInv, ReadLastPage PROVE IInv'
  OBVIOUS
<1> PICK page : page = Page
  OBVIOUS
<1> PICK next : next = [reader EXCEPT !.pc = "collect", !.data = page.data, !.offset = page.next]
  OBVIOUS
<1>1. /\ reader.pc = "read" /\ feed = "trending" /\ reader' = next
      /\ UNCHANGED <<posts, generation, steady, snapshots, exclusions, feed, shown, faults>>
  BY DEF ReadLastPage, At, ReaderOnly, content
<1>2. /\ page.data \in Seq(Nat) /\ page.next \in Nat /\ ListIsShown(page.next, page.data)
      /\ \A x \in ToSet(page.data) : IsOld(x)
  BY <1>1, PageIs DEF PageIsRight
<1>3. next \in Reader
  <2>1. "collect" \in PcSet /\ reader \in Reader
    BY ReaderIs DEF PcSet
  <2> QED BY <1>2, <2>1 DEF Reader
<1>4. /\ next.pc = "collect" /\ next.data = page.data /\ next.offset = page.next
      /\ next.cursor = reader.cursor /\ next.list = reader.list
      /\ next.source = reader.source
  BY ReaderIs
<1>5. /\ next.generation = reader.generation /\ next.limit = reader.limit
      /\ next.exclusion = None
  <2>1. reader.exclusion = None
    BY <1>1 DEF IInv, RequestInv
  <2> QED BY <2>1, ReaderIs
<1>6. ListIsShown(next.offset, next.data)'
  <2> PICK d, place : d = next.data /\ place = next.offset
    OBVIOUS
  <2>1. SamePosts(d, d)
    BY <1>1, <1>4, Staying
  <2>2. ListIsShown(place, d)
    BY <1>2, <1>4
  <2>3. ListIsShown(place, d)'
    BY <2>1, <2>2, SameList
  <2> QED BY <2>3
<1>7. IsKept
  BY <1>1 DEF IInv, RequestInv
<1>8. exclusions' \subseteq Exclusion /\ \A x \in ToSet(next.data) : IsOld(x)
  BY <1>1, <1>2, <1>4 DEF IInv, TypeOK
<1>9. reader.pc \in {"read", "collect", "resolve", "fill"} /\ next.pc \in {"collect", "resolve", "fill"}
  BY <1>1, <1>4
<1> QED BY <1>1, <1>3, <1>4, <1>5, <1>6, <1>7, <1>8, <1>9, RequestStep


LEMMA OldIs ==
    ASSUME IInv, NEW x, IsOld(x)
    PROVE  /\ x \in Nat /\ Identity(x) \in Nat /\ NameOf(x) \in Nat
           /\ Gone(x) \/ IsActive(x)
           /\ NameOf(x) = Identity(x) \/ (posts[x].quote /\ posts[x].of = NameOf(x))
<1>1. posts \in Seq(Post) /\ x \in 1 .. Len(posts) /\ posts[x].status # "pending"
  BY SteadyAre DEF IsOld, Ids
<1>2. posts[x] \in Post /\ x \in Nat
  BY <1>1
<1>3. /\ posts[x].of \in Nat /\ posts[x].quote \in BOOLEAN
      /\ posts[x].status \in {"active", "gone"}
  BY <1>1, <1>2 DEF Post
<1> QED BY <1>2, <1>3 DEF Identity, NameOf, Gone, IsActive

\* SeenIsRight for what is about to be collected.
SeenCovers(seen, data) ==
    /\ \A x \in Got(data) :
        \/ Gone(x)
        \/ Identity(x) \in seen.ids \cup seen.names
        \/ reader.source = "redis" /\ posts[x].quote
    /\ \A v \in seen.ids \cup seen.names : IsExplained(v, data)

LEMMA SeenIs ==
    ASSUME IInv, IsRanking(reader.source, reader.list), NEW place \in Nat, NEW data,
           ListIsShown(place, data), \A x \in Got(data) : IsOld(x),
           NEW seen, seen = Seen(reader.source, Take(reader.list, place), data)
    PROVE  SeenCovers(seen, data) /\ seen \in [ids : SUBSET Nat, names : SUBSET Nat]
<1> PICK l, t : l = reader.list /\ t = Take(l, place)
  OBVIOUS
<1>1. /\ l \in Seq(Nat) /\ Len(l) \in Nat /\ DOMAIN l = 1 .. Len(l)
      /\ \A i \in DOMAIN l : IsOld(l[i]) /\ l[i] \in ToSet(l)
  BY RankingIs DEF IInv
<1>2. t \in Seq(Nat) /\ Len(t) = place /\ \A i \in 1 .. place : t[i] = l[i]
  <2>1. /\ t \in Seq(Nat) /\ Len(t) = IF Len(l) <= place THEN Len(l) ELSE place
        /\ \A i \in 1 .. Len(t) : t[i] = l[i]
    <3> SUFFICES ASSUME NEW s \in Seq(Nat), s = l
                 PROVE  /\ t \in Seq(Nat) /\ Len(t) = IF Len(s) <= place THEN Len(s) ELSE place
                        /\ \A i \in 1 .. Len(t) : t[i] = s[i]
      BY <1>1
    <3>1. t = Take(s, place)
      OBVIOUS
    <3> QED BY <3>1, TakeIs
  <2>2. place <= Len(l)
    BY DEF ListIsShown
  <2>3. Len(t) = place
    BY <1>1, <2>1, <2>2
  <2> QED BY <2>1, <2>3
<1>3. \A x \in ToSet(t) : \E i \in 1 .. place : l[i] = x
  BY <1>2 DEF ToSet
<1>4. \A i \in 1 .. place : l[i] \in ToSet(t)
  BY <1>2 DEF ToSet
<1>5. ASSUME NEW x \in ToSet(t)
      PROVE  IsOld(x) /\ x \in ToSet(l) /\ (IsActive(x) => x \in Got(data))
  <2>1. PICK i \in 1 .. place : l[i] = x
    BY <1>3
  <2>2. i \in DOMAIN l
    BY <1>1 DEF ListIsShown
  <2> QED BY <1>1, <2>1, <2>2 DEF ListIsShown
<1>6. \A x \in Got(data) : x \in ToSet(t)
  BY <1>4 DEF ListIsShown
<1>7. ToSet(data) \subseteq Got(data)
  BY DEF Got
<1>8. ASSUME NEW x \in Got(data) PROVE IsExplained(NameOf(x), data)
  <2>1. NameOf(x) = Identity(x) \/ (posts[x].quote /\ posts[x].of = NameOf(x))
    BY OldIs
  <2> QED BY <2>1 DEF IsExplained
<1>9. CASE reader.source = "mongo"
  <2>1. /\ seen.ids = {Identity(x) : x \in ToSet(t)} /\ seen.names = {NameOf(x) : x \in ToSet(data)}
        /\ seen = [ids |-> seen.ids, names |-> seen.names]
    BY <1>9 DEF Seen
  <2>2. seen.ids \in SUBSET Nat /\ seen.names \in SUBSET Nat
    BY <1>5, <1>7, <2>1, OldIs
  <2>3. \A x \in Got(data) : Identity(x) \in seen.ids
    BY <1>6, <2>1
  <2>4. ASSUME NEW x \in ToSet(t) PROVE IsExplained(Identity(x), data)
    <3>1. CASE IsActive(x)
      BY <1>5, <3>1 DEF IsExplained
    <3>2. CASE ~IsActive(x)
      BY <1>5, <1>9, <3>2 DEF IsExplained, Orphaned
    <3> QED BY <3>1, <3>2
  <2>5. \A v \in seen.ids \cup seen.names : IsExplained(v, data)
    BY <1>7, <1>8, <2>1, <2>4
  <2>6. seen \in [ids : SUBSET Nat, names : SUBSET Nat]
    BY <2>1, <2>2
  <2> QED BY <2>3, <2>5, <2>6 DEF SeenCovers
<1>10. CASE reader.source = "redis"
  <2> DEFINE Named == {y \in ToSet(t) : IsActive(y)} \cup ToSet(data)
  <2>1. /\ seen.ids = {} /\ seen.names = {NameOf(x) : x \in Named}
        /\ seen = [ids |-> seen.ids, names |-> seen.names]
    BY <1>10 DEF Seen
  <2>2. Named \subseteq Got(data)
    BY <1>5, <1>7
  <2>3. ASSUME NEW x \in Got(data)
        PROVE  Gone(x) \/ Identity(x) \in seen.names \/ posts[x].quote
    <3>1. Gone(x) \/ IsActive(x)
      BY OldIs
    <3>2. CASE IsActive(x)
      <4>1. x \in Named
        BY <1>6, <3>2
      <4>2. NameOf(x) = Identity(x) \/ posts[x].quote
        BY OldIs
      <4>3. NameOf(x) \in seen.names
        BY <2>1, <4>1
      <4> QED BY <4>2, <4>3
    <3> QED BY <3>1, <3>2
  <2> HIDE DEF Named
  <2>4. seen.names \in SUBSET Nat
    BY <2>1, <2>2, OldIs
  <2>5. \A v \in seen.ids \cup seen.names : IsExplained(v, data)
    BY <1>8, <2>1, <2>2
  <2>6. seen \in [ids : SUBSET Nat, names : SUBSET Nat]
    BY <2>1, <2>4
  <2> QED BY <1>10, <2>3, <2>5, <2>6 DEF SeenCovers
<1> QED BY <1>9, <1>10, ReaderIs DEF Sources

\* The snapshot that is read again is the list, or has expired.
LEMMA CollectKeeps == IInv /\ Collect => IInv'
<1> SUFFICES ASSUME IInv, Collect PROVE IInv'
  OBVIOUS
<1>1. /\ reader.pc = "collect"
      /\ UNCHANGED <<posts, generation, steady, snapshots, exclusions, feed, shown, faults>>
  BY DEF Collect, Step, At, ReaderOnly, content
<1> PICK list : list = snapshots[reader.source][reader.generation]
  OBVIOUS
<1>2. CASE list = None
  <2>1. reader' = Abandoned
    BY <1>2 DEF Collect, Step
  <2>2. faults' \in Nat
    BY <1>1 DEF IInv, TypeOK
  <2> QED BY <1>1, <2>1, <2>2, AbandonedKeeps
<1>3. CASE list # None
  <2>1. list = reader.list
    BY <1>1, <1>3, KeptIs DEF IInv, RequestInv
  <2> PICK data, seen : /\ data = reader.data
                        /\ seen = Seen(reader.source, Take(reader.list, reader.offset), reader.data)
    OBVIOUS
  <2> PICK next : next = [reader EXCEPT !.pc = "resolve", !.seen = seen]
    OBVIOUS
  <2>2. reader' = next
    BY <1>3, <2>1 DEF Collect, Step
  <2>3. /\ reader.offset \in Nat /\ ListIsShown(reader.offset, data)
        /\ IsRanking(reader.source, reader.list) /\ \A x \in Got(data) : IsOld(x)
    BY <1>1, ReaderIs, ReadingIs
  <2>4. SeenCovers(seen, data) /\ seen \in [ids : SUBSET Nat, names : SUBSET Nat]
    BY <2>3, SeenIs
  <2>5. next \in Reader
    <3>1. "resolve" \in PcSet /\ reader \in Reader
      BY ReaderIs DEF PcSet
    <3> QED BY <2>4, <3>1 DEF Reader
  <2>6. /\ next.pc = "resolve" /\ next.seen = seen /\ next.data = data
        /\ next.offset = reader.offset /\ next.cursor = reader.cursor /\ next.list = reader.list
    BY ReaderIs
  <2>7. /\ next.source = reader.source /\ next.generation = reader.generation
        /\ next.limit = reader.limit /\ next.exclusion = None
    <3>1. reader.exclusion = None
      BY <1>1 DEF IInv, RequestInv
    <3> QED BY <3>1, ReaderIs
  <2>8. SamePosts(data, data)
    BY <1>1, <2>2, <2>6, <2>7, Staying
  <2>9. ListIsShown(next.offset, next.data)'
    <3> PICK place : place = reader.offset
      OBVIOUS
    <3>1. ListIsShown(place, data)'
      BY <2>3, <2>8, SameList
    <3>2. next.offset = place /\ next.data = data
      BY <2>6
    <3> QED BY <3>1, <3>2
  <2>10. SeenIsRight'
    <3>1. \A v \in seen.ids \cup seen.names : IsExplained(v, data)'
      BY <2>4, <2>8, SameExplained DEF SeenCovers
    <3>2. reader'.seen = seen /\ reader'.data = data /\ reader'.source = reader.source
      BY <2>2, <2>6, <2>7
    <3>3. \A v \in reader'.seen.ids \cup reader'.seen.names : IsExplained(v, reader.data)'
      BY <3>1, <3>2 DEF IsExplained, Got
    <3>4. \A x \in Got(reader.data)' :
            \/ Gone(x)'
            \/ Identity(x)' \in reader'.seen.ids \cup reader'.seen.names
            \/ reader'.source = "redis" /\ posts'[x].quote
      BY <1>1, <2>4, <3>2 DEF SeenCovers, Got, Gone, Identity
    <3> QED BY <3>3, <3>4 DEF SeenIsRight
  <2>11. exclusions' \subseteq Exclusion /\ \A x \in ToSet(next.data) : IsOld(x)
    BY <1>1, <2>3, <2>6 DEF IInv, TypeOK, Got
  <2>12. feed = "trending" /\ reader.pc \in {"read", "collect", "resolve", "fill"}
    BY <1>1 DEF IInv, RequestInv
  <2> QED BY <1>1, <2>2, <2>5, <2>6, <2>7, <2>9, <2>10, <2>11, <2>12, RequestStep
<1> QED BY <1>2, <1>3


\* Names of posts that no longer exist are dropped, which no post that is left
\* stands for.
LEMMA ResolveKeeps == IInv /\ Resolve => IInv'
<1> SUFFICES ASSUME IInv, Resolve PROVE IInv'
  OBVIOUS
<1> PICK data, seen : data = reader.data /\ seen = reader.seen
  OBVIOUS
<1> PICK ids : ids = seen.ids \cup {x \in seen.names : IsActive(x)}
  OBVIOUS
<1> PICK exclusion : exclusion = IF ids = {} THEN None ELSE [ids |-> ids, generation |-> generation]
  OBVIOUS
<1> PICK next : next = [reader EXCEPT !.pc = "fill", !.seen = NothingSeen, !.exclusion = exclusion]
  OBVIOUS
<1>1. /\ reader.pc = "resolve" /\ reader' = next
      /\ exclusions' = exclusions \cup ({exclusion} \ {None})
      /\ UNCHANGED <<posts, generation, steady, snapshots, feed, shown, faults>>
  BY DEF Resolve, Step, At, content
<1>2. /\ ListIsShown(reader.offset, data) /\ reader.offset \in Nat
      /\ IsRanking(reader.source, reader.list) /\ \A x \in Got(data) : IsOld(x)
      /\ SeenIsRight /\ feed = "trending"
  BY <1>1, ReaderIs, ReadingIs DEF IInv, RequestInv
<1>3. ids \in SUBSET Nat /\ generation \in Generations
  BY ReaderIs DEF IInv, TypeOK
<1>4. /\ exclusion \in Exclusion \cup {None} /\ {exclusion} \ {None} \subseteq Exclusion
      /\ Excluded(exclusion) = ids
  <2>1. CASE ids = {}
    BY <2>1 DEF Excluded
  <2>2. CASE ids # {}
    <3>1. exclusion = [ids |-> ids, generation |-> generation]
      BY <2>2
    <3>2. exclusion \in Exclusion
      BY <1>3, <3>1 DEF Exclusion
    <3>3. exclusion # None
      BY <3>2, FeedAssumptions
    <3> QED BY <3>1, <3>2, <3>3 DEF Excluded
  <2> QED BY <2>1, <2>2
<1>5. ASSUME NEW x \in Got(data)
      PROVE  \/ Gone(x)
             \/ Identity(x) \in ids
             \/ reader.source = "redis" /\ x \in ToSet(reader.list) /\ posts[x].quote
  <2>1. Gone(x) \/ IsActive(x)
    BY <1>2, OldIs
  <2>2. IsActive(x) => IsActive(Identity(x))
    <3>1. posts \in Seq(Post) /\ LinkedIn(posts) /\ x \in 1 .. Len(posts)
      BY <1>2, SteadyAre DEF IsOld, Ids
    <3>2. x \in LivingIn(posts) => StandsFor(posts, x) \in LivingIn(posts)
      BY <3>1, StandsForIs
    <3> QED BY <3>1, <3>2, HereAndNow DEF LivingIn, IsActive
  <2>3. x \in ToSet(reader.list)
    <3>1. PICK i \in 1 .. reader.offset : reader.list[i] = x
      BY <1>2 DEF ListIsShown
    <3>2. i \in DOMAIN reader.list
      BY <1>2, <3>1, ReaderIs DEF ListIsShown
    <3> QED BY <3>1, <3>2 DEF ToSet
  <2>4. \/ Gone(x)
        \/ Identity(x) \in seen.ids \cup seen.names
        \/ reader.source = "redis" /\ posts[x].quote
    BY <1>2 DEF SeenIsRight
  <2> QED BY <2>1, <2>2, <2>3, <2>4
<1>6. LiveIsShown(exclusion, 0, data)
  <2>1. \A v \in ids : IsExplained(v, data)
    BY <1>2 DEF SeenIsRight
  <2> QED BY <1>2, <1>4, <1>5, <2>1 DEF LiveIsShown
<1>7. next \in Reader
  <2>1. "fill" \in PcSet /\ reader \in Reader /\ NothingSeen \in [ids : SUBSET Nat, names : SUBSET Nat]
    BY ReaderIs DEF PcSet, NothingSeen
  <2> QED BY <1>4, <2>1 DEF Reader
<1>8. /\ next.pc = "fill" /\ next.exclusion = exclusion /\ next.data = data
      /\ next.offset = reader.offset /\ next.cursor = reader.cursor /\ next.list = reader.list
  BY ReaderIs
<1>9. /\ next.source = reader.source /\ next.generation = reader.generation
      /\ next.limit = reader.limit
  BY ReaderIs
<1>10. SamePosts(data, data)
  BY <1>1, <1>8, <1>9, Staying
<1>11. ListIsShown(next.offset, next.data)'
  <2> PICK place : place = reader.offset
    OBVIOUS
  <2>1. ListIsShown(place, data)'
    BY <1>2, <1>10, SameList
  <2>2. next.offset = place /\ next.data = data
    BY <1>8
  <2> QED BY <2>1, <2>2
<1>12. LiveIsShown(next.exclusion, 0, next.data)'
  <2>1. LiveIsShown(exclusion, 0, data)'
    BY <1>1, <1>6, <1>10, SameLive
  <2>2. next.exclusion = exclusion /\ next.data = data
    BY <1>8
  <2> QED BY <2>1, <2>2
<1>13. exclusions' \subseteq Exclusion
  BY <1>1, <1>4 DEF IInv, TypeOK
<1>14. \A x \in ToSet(next.data) : IsOld(x)
  BY <1>2, <1>8 DEF Got
<1>15. reader.pc \in {"read", "collect", "resolve", "fill"}
  BY <1>1
<1> QED BY <1>1, <1>2, <1>7, <1>8, <1>9, <1>11, <1>12, <1>13, <1>14, <1>15, RequestStep


-----------------------------------------------------------------------------
(* Answers.                                                                *)

\* Why an identity is not on any page at the end of the walk.
IsLeftOut(v, d) ==
    \/ \E x \in Got(d) : Identity(x) = v
    \/ feed = "ranked" /\ ~Ranked(v)
    \/ Orphaned(v)
    \/ feed = "trending" /\ \E x \in Got(d) : posts[x].quote /\ posts[x].of = v

LEMMA RespondKeeps ==
    ASSUME IInv, HasList, NEW d \in Seq(Nat), \A x \in ToSet(d) : IsOld(x),
           NEW cursor \in ListCursor \cup LiveCursor \cup {None}, Respond(d, cursor),
           RepeatsIn(shown \o d),
           cursor \in ListCursor =>
               /\ feed # "new" /\ cursor.source = reader.source
               /\ cursor.generation = reader.generation
               /\ cursor.offset < Len(reader.list) /\ ListIsShown(cursor.offset, d) /\ IsKept,
           cursor \in LiveCursor =>
               feed # "ranked" /\ LiveIsShown(cursor.exclusion, cursor.before, d),
           cursor = None => \A v \in steady : IsLeftOut(v, d)
    PROVE  IInv'
<1> PICK pc : pc = IF cursor = None THEN "end" ELSE "idle"
  OBVIOUS
<1>1. /\ reader' = [reader EXCEPT !.pc = pc, !.cursor = cursor, !.offset = 0, !.data = <<>>,
                                  !.exclusion = None]
      /\ shown' = shown \o d
      /\ UNCHANGED <<posts, generation, steady, snapshots, exclusions, feed, faults>>
  BY DEF Respond, content
<1>2. reader' \in Reader
  <2>1. pc \in PcSet /\ reader \in Reader /\ <<>> \in Seq(Nat)
    BY ReaderIs DEF PcSet
  <2> QED BY <1>1, <2>1 DEF Reader
<1>3. reader'.pc = pc /\ reader'.cursor = cursor /\ reader'.data = <<>>
  BY <1>1, ReaderIs
<1>4. reader'.list = reader.list /\ reader'.source = reader.source /\ reader'.exclusion = None
  BY <1>1, ReaderIs
<1>5. reader'.generation = reader.generation
  BY <1>1, ReaderIs
<1>6. SamePosts(d, <<>>) /\ shown' \in Seq(Nat) /\ ToSet(shown') = Got(d)
  BY <1>1, <1>4, Passing
<1>7. None \notin ListCursor \cup LiveCursor /\ (pc = "end" <=> cursor = None) /\ pc \in {"idle", "end"}
      /\ \A c \in ListCursor : c \notin LiveCursor
  BY CursorIs
<1>8. cursor \in ListCursor => ListIsShown(reader.cursor.offset, <<>>)' /\ IsKept'
  <2> SUFFICES ASSUME cursor \in ListCursor PROVE ListIsShown(reader.cursor.offset, <<>>)' /\ IsKept'
    OBVIOUS
  <2>1. ListIsShown(cursor.offset, <<>>)'
    BY <1>6, SameList
  <2>2. ListIsShown(reader.cursor.offset, <<>>)'
    BY <1>3, <2>1 DEF ListIsShown, Got
  <2>3. IsKept'
    BY <1>1, <1>4, <1>5 DEF IsKept
  <2> QED BY <2>2, <2>3
<1>9. cursor \in LiveCursor =>
        LiveIsShown(reader.cursor.exclusion, reader.cursor.before, <<>>)'
  <2> SUFFICES ASSUME cursor \in LiveCursor
               PROVE  LiveIsShown(reader.cursor.exclusion, reader.cursor.before, <<>>)'
    OBVIOUS
  <2>1. LiveIsShown(cursor.exclusion, cursor.before, <<>>)'
    BY <1>1, <1>6, SameLive
  <2> QED BY <1>3, <2>1 DEF LiveIsShown, Excluded, Got, IsExplained
<1>10. CursorInv'
  <2>1. cursor \in ListCursor => /\ feed' # "new" /\ cursor.source = reader'.source
                                 /\ cursor.generation = reader'.generation
                                 /\ cursor.offset < Len(reader'.list)
    BY <1>1, <1>4, <1>5
  <2>2. cursor \in LiveCursor => feed' # "ranked"
    BY <1>1
  <2> QED BY <1>3, <1>7, <1>8, <1>9, <2>1, <2>2 DEF CursorInv
<1>11. RequestInv'
  <2>1. IsRanking(reader.source, reader.list)'
    <3> PICK source, l : source = reader.source /\ l = reader.list
      OBVIOUS
    <3>1. IsRanking(source, l)
      BY DEF IInv, RequestInv
    <3>2. IsRanking(source, l)'
      BY <1>1, <3>1, SameRanking
    <3> QED BY <1>4, <3>2 DEF IsRanking
  <2>2. /\ reader'.source = "redis" => feed' = "trending"
        /\ feed' = "new" => reader'.list = <<>>
    BY <1>1, <1>4 DEF IInv, RequestInv
  <2> QED BY <1>3, <1>4, <1>7, <2>1, <2>2 DEF RequestInv
<1>12. RepeatsAreExplained'
  BY <1>6, SameRepeats
<1>13. NothingIsSkipped'
  <2> SUFFICES ASSUME reader'.pc = "end", NEW v \in steady'
               PROVE  \/ \E x \in ToSet(shown') : Identity(x)' = v
                      \/ feed' = "ranked" /\ ~Ranked(v)'
                      \/ Orphaned(v)'
                      \/ feed' = "trending" /\ Quoted(v)'
    BY DEF NothingIsSkipped
  <2>1. IsLeftOut(v, d)
    BY <1>1, <1>3, <1>7
  <2>2. Ranked(v)' <=> Ranked(v)
    BY <1>1, <1>4 DEF Ranked, Identity
  <2>3. Orphaned(v)' <=> Orphaned(v)
    BY <1>1, <1>4 DEF Orphaned, Identity, IsActive
  <2>4. \A x : Identity(x)' = Identity(x)
    BY <1>1 DEF Identity
  <2>5. (\E x \in Got(d) : posts[x].quote /\ posts[x].of = v) => Quoted(v)'
    BY <1>1, <1>6 DEF Quoted
  <2> QED BY <1>1, <1>6, <2>1, <2>2, <2>3, <2>4, <2>5 DEF IsLeftOut
<1>14. \A x \in ToSet(shown') \cup ToSet(reader'.data) : IsOld(x)
  <2>1. \A x \in ToSet(shown) : IsOld(x)
    BY DEF IInv, GotWereActive, Got, IsOld
  <2>2. ToSet(reader'.data) = {}
    BY <1>3 DEF ToSet
  <2>3. ToSet(shown') = ToSet(shown) \cup ToSet(d)
    BY <1>6 DEF Got
  <2> QED BY <2>1, <2>2, <2>3
<1>15. /\ snapshots' \in [Sources -> [Generations -> Seq(Nat) \cup {None}]]
       /\ exclusions' \subseteq Exclusion /\ faults' \in Nat /\ steady' \subseteq Identities
  BY <1>1 DEF IInv, TypeOK
<1>16. SnapshotsAreRankings'
  BY <1>1 DEF IInv, SnapshotsAreRankings, IsRanking, Ids, Identity
<1> QED BY <1>1, <1>2, <1>6, <1>10, <1>11, <1>12, <1>13, <1>14, <1>15, <1>16, ReaderStepKeeps

\* A page of a ranking.  Only that of a feed that is nothing but a ranking ends
\* the walk.
LEMMA ReadPageKeeps == IInv /\ ReadPage => IInv'
<1> SUFFICES ASSUME IInv, ReadPage PROVE IInv'
  OBVIOUS
<1> PICK page : page = Page
  OBVIOUS
<1> PICK d, next : d = page.data /\ next = page.next
  OBVIOUS
<1> PICK cursor : cursor = [phase |-> "list", source |-> reader.source,
                            generation |-> reader.generation, offset |-> next]
  OBVIOUS
<1> PICK answer : answer = IF page.more THEN cursor ELSE None
  OBVIOUS
<1>1. reader.pc = "read" /\ (page.more \/ feed = "ranked") /\ Respond(d, answer)
  BY DEF ReadPage, At
<1>2. PageIsRight(page) /\ IsRanking(reader.source, reader.list)
  BY <1>1, PageIs
<1>3. /\ d \in Seq(Nat) /\ \A x \in ToSet(d) : IsOld(x)
      /\ next \in Nat /\ ListIsShown(next, d)
      /\ page.more => next < Len(reader.list)
  BY <1>2 DEF PageIsRight
<1>4. cursor \in ListCursor
  <2>1. reader.source \in Sources /\ reader.generation \in Generations
    BY ReaderIs
  <2> QED BY <1>3, <2>1 DEF ListCursor
<1>5. cursor.source = reader.source /\ cursor.generation = reader.generation /\ cursor.offset = next
  OBVIOUS
<1>6. answer \in ListCursor \cup LiveCursor \cup {None} /\ answer \notin LiveCursor
  BY <1>4, CursorIs
<1>7. answer \in ListCursor => answer = cursor /\ page.more
  BY CursorIs
<1>8. RepeatsIn(shown \o d)
  BY <1>2, <1>3, ListRepeats
<1>9. feed # "new" /\ IsKept /\ HasList
  BY <1>1 DEF IInv, RequestInv, HasList
<1>10. answer \in ListCursor =>
         /\ feed # "new" /\ answer.source = reader.source
         /\ answer.generation = reader.generation
         /\ answer.offset < Len(reader.list) /\ ListIsShown(answer.offset, d) /\ IsKept
  BY <1>3, <1>5, <1>7, <1>9
<1>11. ASSUME answer = None, NEW v \in steady PROVE IsLeftOut(v, d)
  <2>1. ~page.more
    BY <1>4, <1>11, CursorIs
  <2>2. feed = "ranked"
    BY <1>1, <2>1
  <2>3. \A i \in 1 .. Len(reader.list) : IsActive(reader.list[i]) => reader.list[i] \in Got(d)
    BY <1>2, <2>1 DEF PageIsRight
  <2>4. reader.source = "mongo"
    BY <2>2, ReaderIs DEF IInv, RequestInv, Sources
  <2>5. ASSUME Ranked(v) PROVE (\E x \in Got(d) : Identity(x) = v) \/ Orphaned(v)
    <3>1. PICK x \in ToSet(reader.list) : Identity(x) = v
      BY <2>5 DEF Ranked
    <3>2. CASE IsActive(x)
      <4>1. PICK i \in DOMAIN reader.list : reader.list[i] = x
        BY DEF ToSet
      <4>2. i \in 1 .. Len(reader.list)
        BY ReaderIs
      <4> QED BY <2>3, <3>1, <3>2, <4>1, <4>2
    <3>3. CASE ~IsActive(x)
      BY <2>4, <3>1, <3>3 DEF Orphaned
    <3> QED BY <3>2, <3>3
  <2> QED BY <2>2, <2>5 DEF IsLeftOut
<1> QED BY <1>1, <1>3, <1>6, <1>8, <1>9, <1>10, <1>11, RespondKeeps

-----------------------------------------------------------------------------
(* Pages of the New feed.                                                  *)

\* The newest post of a living identity stands for it.
LEMMA NewestStands ==
    ASSUME IInv
    PROVE  /\ \A v \in Identities : Newest(v) \in Active /\ Identity(Newest(v)) = v
           /\ \A x \in Active : x \in Nat /\ Newest(Identity(x)) \in Nat /\ x <= Newest(Identity(x))
<1>1. posts \in Seq(Post)
  BY SteadyAre
<1>2. ASSUME NEW v \in Identities
      PROVE  /\ Newest(v) \in Active /\ Identity(Newest(v)) = v /\ Newest(v) \in Nat
             /\ \A x \in Active : Identity(x) = v => x <= Newest(v)
  <2>1. /\ NewestIn(posts, v) \in StandInsFor(posts, v)
        /\ \A y \in StandInsFor(posts, v) : y <= NewestIn(posts, v)
    BY <1>1, HereAndNow, NewestIs
  <2>2. LivingIn(posts) \in SUBSET Nat
    BY <1>1, LivingAre
  <2> QED BY <2>1, <2>2, HereAndNow DEF StandInsFor
<1>3. ASSUME NEW x \in Active
      PROVE  x \in Nat /\ Newest(Identity(x)) \in Nat /\ x <= Newest(Identity(x))
  <2>1. Identity(x) \in Identities /\ x \in Nat
    <3>1. LivingIn(posts) \in SUBSET Nat
      BY <1>1, LivingAre
    <3> QED BY <3>1, HereAndNow DEF Identities
  <2> QED BY <1>2, <2>1
<1> QED BY <1>2, <1>3

\* The request has what LiveIsShown says, and reads this page.
IsLivePage(exclusion, before, data, page, d) ==
    /\ data \in Seq(Nat) /\ \A x \in Got(data) : IsOld(x)
    /\ LiveIsShown(exclusion, before, data)
    /\ before \in Nat
    /\ RepeatsIn(shown \o data)
    /\ d = page.data
    /\ \E limit \in Nat \ {0} : page = NewPage(exclusion, before, limit)

LEMMA LivePageIs ==
    ASSUME IInv, NEW exclusion, NEW before, NEW data, NEW page, NEW d,
           IsLivePage(exclusion, before, data, page, d)
    PROVE  /\ d \in Seq(Nat) /\ data \o d \in Seq(Nat)
           /\ \A x \in ToSet(d) :
                /\ x \in Nat /\ x \in Active
                /\ Identity(x) \notin Excluded(exclusion)
                /\ x = Newest(Identity(x))
                /\ before # 0 => x < before
           /\ \A i, j \in DOMAIN d : i < j => d[j] < d[i]
           /\ Got(data \o d) = Got(data) \cup ToSet(d)
           /\ \A x \in ToSet(data \o d) : IsOld(x)
           /\ \/ /\ page.cursor = None
                 /\ \A v \in Identities \ Excluded(exclusion) :
                      before = 0 \/ Newest(v) < before => Newest(v) \in ToSet(d)
              \/ \E m \in Nat \ {0} :
                   /\ page.cursor = NewCursor(exclusion, m)
                   /\ d # <<>>
                   /\ \A x \in ToSet(d) : m <= x
                   /\ \A v \in Identities \ Excluded(exclusion) :
                        before = 0 \/ Newest(v) < before => Newest(v) \in ToSet(d) \/ Newest(v) < m
<1> PICK limit \in Nat \ {0} : page = NewPage(exclusion, before, limit)
  BY DEF IsLivePage
<1>1. data \in Seq(Nat) /\ before \in Nat /\ d = page.data /\ TypeOK
  BY DEF IsLivePage, IInv
<1>2. /\ d \in Seq(Nat)
      /\ \A i \in 1 .. Len(d) :
           /\ d[i] \in Active
           /\ Identity(d[i]) \notin Excluded(exclusion)
           /\ d[i] = Newest(Identity(d[i]))
           /\ before # 0 => d[i] < before
      /\ \A i, j \in 1 .. Len(d) : i < j => d[j] < d[i]
      /\ \/ /\ page.cursor = None
            /\ \A v \in Identities \ Excluded(exclusion) :
                 before = 0 \/ Newest(v) < before => Newest(v) \in ToSet(d)
         \/ \E m \in Nat \ {0} :
              /\ page.cursor = NewCursor(exclusion, m)
              /\ d # <<>>
              /\ \A x \in ToSet(d) : m <= x
              /\ \A v \in Identities \ Excluded(exclusion) :
                   before = 0 \/ Newest(v) < before => Newest(v) \in ToSet(d) \/ Newest(v) < m
  <2>1. IsNewPage(exclusion, before, page, d)
    BY <1>1, NewPageIs
  <2> QED BY <2>1 DEF IsNewPage
<1>3. DOMAIN d = 1 .. Len(d) /\ \A x \in ToSet(d) : \E i \in 1 .. Len(d) : d[i] = x
  BY <1>2 DEF ToSet
<1>4. \A x \in ToSet(d) : /\ x \in Nat /\ x \in Active
                          /\ Identity(x) \notin Excluded(exclusion)
                          /\ x = Newest(Identity(x))
                          /\ before # 0 => x < before
  BY <1>2, <1>3
<1>5. data \o d \in Seq(Nat) /\ ToSet(data \o d) = ToSet(data) \cup ToSet(d)
  BY <1>1, <1>2, Joined
<1>6. Got(data \o d) = Got(data) \cup ToSet(d)
  BY <1>5 DEF Got
<1>7. \A x \in Active : IsOld(x)
  BY DEF Active, IsActive, IsOld
<1>8. \A x \in ToSet(data \o d) : IsOld(x)
  BY <1>4, <1>5, <1>7 DEF IsLivePage, Got
<1> QED BY <1>2, <1>3, <1>4, <1>5, <1>6, <1>8

\* What the page shows was not there before, unless that is explained: it is
\* read behind the last place, without what is excluded.
LEMMA LiveRepeats ==
    ASSUME IInv, NEW exclusion, NEW before, NEW data, NEW page, NEW d,
           IsLivePage(exclusion, before, data, page, d)
    PROVE  RepeatsIn(shown \o (data \o d))
<1>1. /\ d \in Seq(Nat) /\ \A i, j \in DOMAIN d : i < j => d[j] < d[i]
      /\ \A x \in ToSet(d) : /\ x \in Nat /\ x \in Active
                             /\ Identity(x) \notin Excluded(exclusion)
                             /\ x = Newest(Identity(x))
                             /\ before # 0 => x < before
  BY LivePageIs
<1>2. /\ data \in Seq(Nat) /\ \A x \in Got(data) : IsOld(x)
      /\ before \in Nat /\ RepeatsIn(shown \o data)
      /\ \A x \in Got(data) :
          \/ Gone(x)
          \/ Identity(x) \in Excluded(exclusion)
          \/ reader.source = "redis" /\ x \in ToSet(reader.list) /\ posts[x].quote
          \/ before # 0 /\ before <= x
  BY DEF IsLivePage, LiveIsShown
<1>3. ASSUME NEW x \in Got(data), NEW y \in ToSet(d), Identity(x) = Identity(y)
      PROVE  \/ posts[x].status = "gone"
             \/ reader.source = "redis" /\ x \in ToSet(reader.list) /\ posts[x].quote
  <2>1. Gone(x) \/ IsActive(x)
    BY <1>2, OldIs
  <2>2. ASSUME IsActive(x), before # 0, before <= x PROVE FALSE
    <3>1. x \in Active
      BY <1>2, <2>2 DEF IsOld, Active
    <3>2. x \in Nat /\ x <= Newest(Identity(x)) /\ y = Newest(Identity(x)) /\ y \in Nat
      BY <1>1, <1>3, <3>1, NewestStands
    <3>3. y < before
      BY <1>1, <2>2
    <3> QED BY <1>2, <2>2, <3>2, <3>3
  <2>3. Identity(x) \notin Excluded(exclusion)
    BY <1>1, <1>3
  <2> QED BY <1>2, <2>1, <2>2, <2>3 DEF Gone
<1> PICK s : s = shown \o data
  OBVIOUS
<1>4. s \in Seq(Nat) /\ ToSet(s) = Got(data) /\ shown \o (data \o d) = s \o d
  <2>1. shown \in Seq(Nat) /\ data \in Seq(Nat) /\ d \in Seq(Nat)
    BY <1>1, <1>2 DEF IInv, TypeOK
  <2>2. ToSet(s) = Got(data)
    BY <2>1, Joined DEF Got
  <2>3. s \in Seq(Nat) /\ shown \o (data \o d) = s \o d
    BY <2>1, JoinedTwice
  <2> QED BY <2>2, <2>3
<1>5. ASSUME NEW i \in DOMAIN (s \o d), NEW j \in DOMAIN (s \o d), i < j,
             Identity((s \o d)[i]) = Identity((s \o d)[j])
      PROVE  \/ posts[(s \o d)[i]].status = "gone"
             \/ /\ reader.source = "redis"
                /\ (s \o d)[i] \in ToSet(reader.list)
                /\ \/ (s \o d)[j] \in ToSet(reader.list) \ {(s \o d)[i]}
                   \/ posts[(s \o d)[i]].quote
  <2>1. /\ i \in Nat /\ Len(s) \in Nat
        /\ \/ i \in DOMAIN s /\ i <= Len(s) /\ (s \o d)[i] = s[i]
           \/ \E k \in DOMAIN d : k \in Nat /\ k > 0 /\ i = Len(s) + k /\ (s \o d)[i] = d[k]
    BY <1>1, <1>4, JoinedAt
  <2>2. /\ j \in Nat
        /\ \/ j \in DOMAIN s /\ j <= Len(s) /\ (s \o d)[j] = s[j]
           \/ \E k \in DOMAIN d : k \in Nat /\ k > 0 /\ j = Len(s) + k /\ (s \o d)[j] = d[k]
    BY <1>1, <1>4, JoinedAt
  <2>3. CASE i \in DOMAIN s /\ j \in DOMAIN s /\ (s \o d)[i] = s[i] /\ (s \o d)[j] = s[j]
    <3>1. RepeatsIn(s)
      BY <1>2
    <3> QED BY <1>5, <2>3, <3>1 DEF RepeatsIn
  <2>4. CASE /\ i \in DOMAIN s /\ (s \o d)[i] = s[i]
             /\ \E k \in DOMAIN d : (s \o d)[j] = d[k]
    <3>1. (s \o d)[i] \in Got(data) /\ (s \o d)[j] \in ToSet(d)
      BY <1>4, <2>4 DEF ToSet
    <3> QED BY <1>3, <1>5, <3>1
  <2>5. ASSUME NEW k \in DOMAIN d, k \in Nat, k > 0, i = Len(s) + k, (s \o d)[i] = d[k]
        PROVE  FALSE
    <3>1. PICK m \in DOMAIN d : m \in Nat /\ j = Len(s) + m /\ (s \o d)[j] = d[m]
      <4>1. ~(j <= Len(s))
        BY <1>5, <2>1, <2>2, <2>5
      <4> QED BY <2>2, <4>1
    <3>2. k < m
      BY <1>5, <2>1, <2>5, <3>1
    <3>3. d[m] < d[k]
      BY <1>1, <3>1, <3>2
    <3>4. d[k] \in ToSet(d) /\ d[m] \in ToSet(d)
      BY <3>1 DEF ToSet
    <3>5. d[k] = Newest(Identity(d[k])) /\ d[m] = Newest(Identity(d[m])) /\ d[k] \in Nat
      BY <1>1, <3>4
    <3>6. d[k] = d[m]
      BY <1>5, <2>5, <3>1, <3>5
    <3> QED BY <3>3, <3>5, <3>6
  <2> QED BY <2>1, <2>2, <2>3, <2>4, <2>5
<1> QED BY <1>4, <1>5 DEF RepeatsIn

\* What the place behind the page leaves to show.
LEMMA LiveGoesOn ==
    ASSUME IInv, NEW exclusion, NEW before, NEW data, NEW page, NEW d,
           IsLivePage(exclusion, before, data, page, d), page.cursor # None
    PROVE  \E m \in Nat \ {0} : /\ page.cursor = NewCursor(exclusion, m)
                                /\ LiveIsShown(exclusion, m, data \o d)
<1>1. PICK m \in Nat \ {0} :
        /\ page.cursor = NewCursor(exclusion, m)
        /\ d # <<>>
        /\ \A x \in ToSet(d) : m <= x
        /\ \A v \in Identities \ Excluded(exclusion) :
             before = 0 \/ Newest(v) < before => Newest(v) \in ToSet(d) \/ Newest(v) < m
  BY LivePageIs
<1>2. /\ d \in Seq(Nat) /\ Got(data \o d) = Got(data) \cup ToSet(d)
      /\ \A x \in ToSet(d) : x \in Nat /\ (before # 0 => x < before)
  BY LivePageIs
<1>3. /\ before \in Nat /\ \A x \in Got(data) : IsOld(x)
      /\ \A x \in Got(data) :
          \/ Gone(x)
          \/ Identity(x) \in Excluded(exclusion)
          \/ reader.source = "redis" /\ x \in ToSet(reader.list) /\ posts[x].quote
          \/ before # 0 /\ before <= x
      /\ \A v \in Excluded(exclusion) : IsExplained(v, data)
      /\ Excluded(exclusion) # {} => feed = "trending"
      /\ \A v \in steady :
          \/ v \in Excluded(exclusion)
          \/ \E x \in Got(data) : Identity(x) = v
          \/ before = 0
          \/ Newest(v) < before
  BY DEF IsLivePage, LiveIsShown
<1>4. ASSUME NEW x \in Got(data), before # 0, before <= x PROVE m <= x
  <2>1. d[1] \in ToSet(d)
    BY <1>1, <1>2 DEF ToSet
  <2>2. m <= d[1] /\ d[1] < before /\ d[1] \in Nat
    BY <1>1, <1>2, <1>4, <2>1
  <2>3. x \in Nat
    BY <1>3, OldIs
  <2> QED BY <1>3, <1>4, <2>2, <2>3
<1>5. \A x \in Got(data \o d) :
        \/ Gone(x)
        \/ Identity(x) \in Excluded(exclusion)
        \/ reader.source = "redis" /\ x \in ToSet(reader.list) /\ posts[x].quote
        \/ m # 0 /\ m <= x
  BY <1>1, <1>2, <1>3, <1>4
<1>6. \A v \in Excluded(exclusion) : IsExplained(v, data \o d)
  BY <1>2, <1>3 DEF IsExplained
<1>7. ASSUME NEW v \in steady
      PROVE  \/ v \in Excluded(exclusion)
             \/ \E x \in Got(data \o d) : Identity(x) = v
             \/ Newest(v) < m
  <2>1. v \in Identities /\ Identity(Newest(v)) = v
    BY NewestStands DEF IInv
  <2> QED BY <1>1, <1>2, <1>3, <2>1
<1>8. LiveIsShown(exclusion, m, data \o d)
  BY <1>3, <1>5, <1>6, <1>7 DEF LiveIsShown
<1> QED BY <1>1, <1>8

\* What the last page leaves out.
LEMMA LiveEnds ==
    ASSUME IInv, NEW exclusion, NEW before, NEW data, NEW page, NEW d,
           IsLivePage(exclusion, before, data, page, d), page.cursor = None,
           exclusion \in Exclusion \cup {None}, NEW v \in steady
    PROVE  IsLeftOut(v, data \o d)
<1>1. \A u \in Identities \ Excluded(exclusion) :
        before = 0 \/ Newest(u) < before => Newest(u) \in ToSet(d)
  <2>1. ASSUME NEW m \in Nat \ {0} PROVE page.cursor # NewCursor(exclusion, m)
    <3>1. NewCursor(exclusion, m) \in LiveCursor
      BY DEF NewCursor, LiveCursor
    <3> QED BY <3>1, CursorIs
  <2> QED BY <2>1, LivePageIs
<1>2. Got(data \o d) = Got(data) \cup ToSet(d)
  BY LivePageIs
<1>3. /\ \A u \in Excluded(exclusion) : IsExplained(u, data)
      /\ Excluded(exclusion) # {} => feed = "trending"
      /\ \/ v \in Excluded(exclusion)
         \/ \E x \in Got(data) : Identity(x) = v
         \/ before = 0
         \/ Newest(v) < before
  BY DEF IsLivePage, LiveIsShown
<1>4. v \in Identities /\ Identity(Newest(v)) = v
  BY NewestStands DEF IInv
<1>5. CASE v \in Excluded(exclusion)
  BY <1>2, <1>3, <1>5 DEF IsExplained, IsLeftOut
<1>6. CASE v \notin Excluded(exclusion)
  BY <1>1, <1>2, <1>3, <1>4, <1>6 DEF IsLeftOut
<1> QED BY <1>5, <1>6

LEMMA LiveAnswer ==
    ASSUME IInv, HasList, feed # "ranked", NEW exclusion \in Exclusion \cup {None}, NEW before,
           NEW data, NEW page, NEW d, IsLivePage(exclusion, before, data, page, d),
           Respond(data \o d, page.cursor)
    PROVE  IInv'
<1> PICK all, cursor : all = data \o d /\ cursor = page.cursor
  OBVIOUS
<1>1. all \in Seq(Nat) /\ (\A x \in ToSet(all) : IsOld(x)) /\ Respond(all, cursor)
  BY LivePageIs
<1>2. RepeatsIn(shown \o all)
  BY LiveRepeats
<1>3. cursor = None => \A v \in steady : IsLeftOut(v, all)
  BY LiveEnds
<1>4. ASSUME cursor # None
      PROVE  cursor \in LiveCursor /\ LiveIsShown(cursor.exclusion, cursor.before, all)
  <2>1. PICK m \in Nat \ {0} : cursor = NewCursor(exclusion, m) /\ LiveIsShown(exclusion, m, all)
    BY <1>4, LiveGoesOn
  <2>2. cursor \in LiveCursor /\ cursor.exclusion = exclusion /\ cursor.before = m
    BY <2>1 DEF NewCursor, LiveCursor
  <2> QED BY <2>1, <2>2
<1>5. cursor \in ListCursor \cup LiveCursor \cup {None} /\ cursor \notin ListCursor
  BY <1>4, CursorIs
<1>6. cursor \in LiveCursor => feed # "ranked" /\ LiveIsShown(cursor.exclusion, cursor.before, all)
  BY <1>4, CursorIs
<1> QED BY <1>1, <1>2, <1>3, <1>5, <1>6, RespondKeeps

\* What a page is filled up with follows what its first part leaves to show.
LEMMA FillingIs ==
    ASSUME IInv, reader.pc = "fill", NEW limit \in Nat \ {0},
           NEW page, page = NewPage(reader.exclusion, 0, limit), NEW d, d = page.data
    PROVE  /\ IsLivePage(reader.exclusion, 0, reader.data, page, d)
           /\ feed # "ranked" /\ HasList
           /\ RepeatsIn(shown \o reader.data)
<1>1. /\ reader.data \in Seq(Nat) /\ reader.offset \in Nat
      /\ ListIsShown(reader.offset, reader.data) /\ IsRanking(reader.source, reader.list)
      /\ \A x \in Got(reader.data) : IsOld(x)
  BY ReaderIs, ReadingIs
<1>2. RepeatsIn(shown \o reader.data)
  BY <1>1, ListRepeats
<1>3. LiveIsShown(reader.exclusion, 0, reader.data) /\ feed # "ranked" /\ HasList
  BY DEF IInv, RequestInv, HasList
<1> QED BY <1>1, <1>2, <1>3 DEF IsLivePage

LEMMA FillKeeps == IInv /\ Fill => IInv'
<1> SUFFICES ASSUME IInv, Fill PROVE IInv'
  OBVIOUS
<1> PICK page : page = NewPage(reader.exclusion, 0, Missing)
  OBVIOUS
<1> PICK exclusion, data, d : exclusion = reader.exclusion /\ data = reader.data /\ d = page.data
  OBVIOUS
<1>1. reader.pc = "fill" /\ Missing > 0 /\ Respond(data \o d, page.cursor)
  BY DEF Fill, At
<1>2. Missing \in Nat \ {0}
  <2>1. reader.limit \in Nat /\ Len(reader.data) \in Nat
    BY ReaderIs
  <2> QED BY <1>1, <2>1 DEF Missing
<1>3. IsLivePage(exclusion, 0, data, page, d) /\ feed # "ranked" /\ HasList
  BY <1>1, <1>2, FillingIs
<1>4. exclusion \in Exclusion \cup {None}
  BY ReaderIs
<1> QED BY <1>1, <1>3, <1>4, LiveAnswer

\* A full page ends the walk only if the New feed has nothing.
LEMMA PeekKeeps == IInv /\ Peek => IInv'
<1> SUFFICES ASSUME IInv, Peek PROVE IInv'
  OBVIOUS
<1> PICK page : page = NewPage(reader.exclusion, 0, 1)
  OBVIOUS
<1> PICK exclusion, data, d : exclusion = reader.exclusion /\ data = reader.data /\ d = page.data
  OBVIOUS
<1>1. /\ reader.pc = "fill"
      /\ IF d # <<>> /\ exclusion = None
         THEN reader' = Abandoned /\ ReaderOnly
         ELSE Respond(data, IF d # <<>> THEN NewCursor(exclusion, 0) ELSE None)
  BY DEF Peek, At
<1>2. /\ IsLivePage(exclusion, 0, data, page, d) /\ feed # "ranked" /\ HasList
      /\ RepeatsIn(shown \o data)
  BY <1>1, FillingIs
<1>3. exclusion \in Exclusion \cup {None} /\ data \in Seq(Nat) /\ \A x \in ToSet(data) : IsOld(x)
  <2>1. \A x \in Got(data) : IsOld(x)
    BY <1>2 DEF IsLivePage
  <2> QED BY <2>1, ReaderIs DEF Got
<1>4. CASE d # <<>> /\ exclusion = None
  <2>1. /\ reader' = Abandoned /\ faults' \in Nat
        /\ UNCHANGED <<posts, generation, steady, snapshots, exclusions, feed, shown>>
    BY <1>1, <1>4 DEF ReaderOnly, content, IInv, TypeOK
  <2> QED BY <1>1, <2>1, AbandonedKeeps
<1>5. CASE d # <<>> /\ exclusion # None
  <2> PICK cursor : cursor = NewCursor(exclusion, 0)
    OBVIOUS
  <2>1. Respond(data, cursor)
    BY <1>1, <1>5
  <2>2. cursor \in LiveCursor /\ cursor.exclusion = exclusion /\ cursor.before = 0
    BY <1>3 DEF NewCursor, LiveCursor
  <2>3. cursor \in ListCursor \cup LiveCursor \cup {None} /\ cursor # None /\ cursor \notin ListCursor
    BY <2>2, CursorIs
  <2>4. LiveIsShown(cursor.exclusion, cursor.before, data)
    BY <1>2, <2>2 DEF IsLivePage
  <2> QED BY <1>2, <1>3, <2>1, <2>3, <2>4, RespondKeeps
<1>6. CASE d = <<>>
  <2>1. Respond(data, None) /\ None \notin ListCursor \cup LiveCursor
    BY <1>1, <1>6, CursorIs
  <2>2. page.cursor = None
    BY <1>2, <1>6, LivePageIs
  <2>3. data \o d = data
    <3>1. data \in Seq(Nat)
      BY <1>3
    <3>2. data \o <<>> = data
      BY <3>1
    <3> QED BY <1>6, <3>2
  <2>4. ASSUME NEW v \in steady PROVE IsLeftOut(v, data)
    <3>1. IsLeftOut(v, data \o d)
      BY <1>2, <1>3, <2>2, LiveEnds
    <3> QED BY <2>3, <3>1
  <2> PICK cursor : cursor = None
    OBVIOUS
  <2> QED BY <1>2, <1>3, <2>1, <2>4, RespondKeeps
<1> QED BY <1>4, <1>5, <1>6

\* A page of the New feed follows the one before it.
LEMMA ContinueNewKeeps ==
    ASSUME IInv, NEW limit \in Limits, ContinueNew(limit)
    PROVE  IInv'
<1> PICK cursor : cursor = reader.cursor
  OBVIOUS
<1> PICK exclusion, before : exclusion = cursor.exclusion /\ before = cursor.before
  OBVIOUS
<1> PICK page : page = NewPage(exclusion, before, limit)
  OBVIOUS
<1> PICK d : d = page.data
  OBVIOUS
<1>1. /\ reader.pc = "idle" /\ cursor # None /\ cursor.phase = "new"
      /\ IF exclusion \in exclusions \cup {None}
         THEN Respond(d, page.cursor)
         ELSE reader' = Goto("refused") /\ ReaderOnly
  BY DEF ContinueNew, At
<1>2. cursor \in LiveCursor
  BY <1>1, CursorIs
<1>3. HasList /\ reader.data = <<>> /\ reader.exclusion = None /\ feed # "ranked"
  BY <1>1, <1>2 DEF HasList, IInv, RequestInv, CursorInv
<1>4. CASE exclusion \in exclusions \cup {None}
  <2>1. exclusion \in Exclusion \cup {None} /\ before \in Nat /\ limit \in Nat \ {0}
    BY <1>2, FeedAssumptions DEF LiveCursor
  <2>2. shown \in Seq(Nat) /\ <<>> \in Seq(Nat)
    BY DEF IInv, TypeOK
  <2>3. RepeatsIn(shown \o <<>>)
    <3>1. shown \o <<>> = shown
      BY <2>2
    <3>2. RepeatsIn(shown)
      BY DEF IInv, RepeatsAreExplained, Repeated, RepeatsIn
    <3> QED BY <3>1, <3>2
  <2>4. LiveIsShown(exclusion, before, <<>>)
    BY <1>2 DEF IInv, CursorInv
  <2>5. \A x \in Got(<<>>) : IsOld(x)
    BY <1>3 DEF IInv, GotWereActive, IsOld
  <2>6. IsLivePage(exclusion, before, <<>>, page, d)
    BY <2>1, <2>2, <2>3, <2>4, <2>5 DEF IsLivePage
  <2>7. <<>> \o d = d
    <3>1. d \in Seq(Nat)
      BY <2>6, LivePageIs
    <3> QED BY <3>1
  <2>8. Respond(<<>> \o d, page.cursor)
    BY <1>1, <1>4, <2>7
  <2> PICK data : data = <<>>
    OBVIOUS
  <2> QED BY <1>3, <2>1, <2>6, <2>8, LiveAnswer
<1>5. CASE ~(exclusion \in exclusions \cup {None})
  <2>1. /\ reader' = [reader EXCEPT !.pc = "refused"] /\ exclusions' \subseteq Exclusion
        /\ UNCHANGED <<posts, generation, steady, snapshots, feed, shown>> /\ faults' \in Nat
    BY <1>1, <1>5 DEF Goto, ReaderOnly, content, IInv, TypeOK
  <2>2. reader' \in Reader
    <3>1. "refused" \in PcSet /\ reader \in Reader
      BY ReaderIs DEF PcSet
    <3> QED BY <2>1, <3>1 DEF Reader
  <2>3. /\ reader'.pc = "refused" /\ reader'.cursor = reader.cursor /\ reader'.list = reader.list
        /\ reader'.source = reader.source /\ reader'.data = <<>>
    BY <1>3, <2>1, ReaderIs
  <2>4. reader'.generation = reader.generation /\ reader'.exclusion = None
    BY <1>3, <2>1, ReaderIs
  <2>5. RequestInv'
    <3>1. IsRanking(reader.source, reader.list)'
      <4> PICK source, l : source = reader.source /\ l = reader.list
        OBVIOUS
      <4>1. IsRanking(source, l)
        BY <1>3 DEF IInv, RequestInv
      <4>2. IsRanking(source, l)'
        BY <2>1, <4>1, SameRanking
      <4> QED BY <2>3, <4>2 DEF IsRanking
    <3>2. /\ reader'.source = "redis" => feed' = "trending"
          /\ feed' = "new" => reader'.list = <<>>
      BY <2>1, <2>3 DEF IInv, RequestInv
    <3> QED BY <2>3, <2>4, <3>1, <3>2 DEF RequestInv
  <2>6. reader.pc # "end" /\ reader'.pc \notin {"build", "store", "end"} /\ ToSet(reader'.data) = {}
    BY <1>1, <2>3 DEF ToSet
  <2> QED BY <2>1, <2>2, <2>3, <2>4, <2>5, <2>6, QuietStep
<1> QED BY <1>4, <1>5

-----------------------------------------------------------------------------
(* The invariant, and what follows from it.                                *)

LEMMA InitIsRight == Init => IInv
<1> SUFFICES ASSUME Init PROVE IInv
  OBVIOUS
<1>1. /\ posts = <<>> /\ exclusions = {} /\ generation = 1 /\ feed \in Feeds /\ shown = <<>>
      /\ snapshots = [source \in Sources |-> [g \in Generations |-> None]]
      /\ steady = {} /\ faults = 0
  BY DEF Init, InitWith
<1>2. reader = [pc |-> "idle", cursor |-> None, limit |-> 0, source |-> "mongo", generation |-> 1,
                list |-> <<>>, offset |-> 0, data |-> <<>>, seen |-> NothingSeen, exclusion |-> None]
  BY DEF Init, InitWith
<1>3. 1 \in Generations
  BY FeedAssumptions DEF Generations
<1>4. reader \in Reader
  <2>1. /\ "idle" \in PcSet /\ "mongo" \in Sources /\ NothingSeen \in [ids : SUBSET Nat, names : SUBSET Nat]
        /\ <<>> \in Seq(Nat)
    BY DEF PcSet, Sources, NothingSeen
  <2> QED BY <1>2, <1>3, <2>1 DEF Reader
<1>5. /\ reader.pc = "idle" /\ reader.cursor = None /\ reader.source = "mongo" /\ reader.list = <<>>
      /\ reader.data = <<>> /\ reader.exclusion = None
  BY <1>2
<1>6. None \notin ListCursor /\ None \notin LiveCursor
  BY FeedAssumptions
<1>7. TypeOK
  <2>1. posts \in Seq(Post) /\ shown \in Seq(Nat) /\ steady \subseteq Nat /\ faults \in Nat
    BY <1>1
  <2>2. snapshots \in [Sources -> [Generations -> Seq(Nat) \cup {None}]]
    BY <1>1
  <2> QED BY <1>1, <1>3, <1>4, <2>1, <2>2 DEF TypeOK
<1>8. PostsAreLinked
  BY <1>1 DEF PostsAreLinked, Ids
<1>9. SnapshotsAreRankings
  BY <1>1 DEF SnapshotsAreRankings
<1>10. GotWereActive
  BY <1>1, <1>5 DEF GotWereActive, Got, ToSet
<1>11. CursorInv
  BY <1>1, <1>5, <1>6 DEF CursorInv
<1>12. RequestInv
  BY <1>5 DEF RequestInv, HasList
<1>13. RepeatsAreExplained
  BY <1>1 DEF RepeatsAreExplained
<1>14. NothingIsSkipped /\ steady \subseteq Identities
  BY <1>1 DEF NothingIsSkipped
<1> QED BY <1>7, <1>8, <1>9, <1>10, <1>11, <1>12, <1>13, <1>14 DEF IInv

LEMMA StutteringKeeps == IInv /\ UNCHANGED vars => IInv'
<1> SUFFICES ASSUME IInv, UNCHANGED vars PROVE IInv'
  OBVIOUS
<1>1. UNCHANGED <<posts, snapshots, exclusions, generation, feed, reader, shown, steady, faults>>
  BY DEF vars
<1>2. Evolves
  BY <1>1, StillEvolved DEF Evolves
<1> QED BY <1>2, EvolvesKeeps

LEMMA StepKeeps == IInv /\ [Next]_vars => IInv'
<1> SUFFICES ASSUME IInv, [Next]_vars PROVE IInv'
  OBVIOUS
<1>1. CASE ReaderStep
  <2>1. ASSUME NEW limit \in Limits, Open(limit) PROVE IInv'
    BY <2>1, OpenKeeps
  <2>2. ASSUME NEW limit \in Limits, Continue(limit) PROVE IInv'
    BY <2>2, ContinueKeeps
  <2>3. ASSUME NEW limit \in Limits, ContinueNew(limit) PROVE IInv'
    BY <2>3, ContinueNewKeeps
  <2>4. CASE Build
    BY <2>4, BuildKeeps
  <2>5. CASE Store
    BY <2>5, StoreKeeps
  <2>6. CASE TurnToMongo
    BY <2>6, TurnToMongoKeeps
  <2>7. CASE ReadPage
    BY <2>7, ReadPageKeeps
  <2>8. CASE ReadLastPage
    BY <2>8, ReadLastPageKeeps
  <2>9. CASE Collect
    BY <2>9, CollectKeeps
  <2>10. CASE Resolve
    BY <2>10, ResolveKeeps
  <2>11. CASE Fill
    BY <2>11, FillKeeps
  <2>12. CASE Peek
    BY <2>12, PeekKeeps
  <2> QED
    BY <1>1, <2>1, <2>2, <2>3, <2>4, <2>5, <2>6, <2>7, <2>8, <2>9, <2>10, <2>11, <2>12 DEF ReaderStep
<1>2. CASE PostsChange
  BY <1>2, PostsChangeKeeps
<1>3. CASE SnapshotsChange
  BY <1>3, SnapshotsChangeKeeps
<1>4. ASSUME NEW limit \in Limits, OpenWithoutRanking(limit) PROVE IInv'
  BY <1>4, OpenKeeps
<1>5. CASE Fail
  BY <1>5, FailKeeps
<1>6. CASE UNCHANGED vars
  BY <1>6, StutteringKeeps
<1> QED BY <1>1, <1>2, <1>3, <1>4, <1>5, <1>6 DEF Next

\* A cursor names what the reader has been shown: the place in the snapshot, or
\* the last post and what is excluded (redis-feed.module.ts, FeedReadDao.ts,
\* getTrendingFeed.handler.ts).
THEOREM InvariantHolds == Spec => []IInv
<1> QED BY InitIsRight, StepKeeps, PTL DEF Spec

\* Posts, snapshots, cursors and requests have their types: no step goes on
\* with a snapshot that is not there (requireFeedCursorSnapshot, readScoreSnapshotPage).
THEOREM TypeCorrect == Spec => []TypeOK
<1>1. IInv => TypeOK
  BY DEF IInv
<1> QED BY <1>1, InvariantHolds, PTL

\* A traversal shows an identity again only where a deleted post makes room for
\* another one, or where the sorted set ranks both, or ranks a quote: the pages
\* of the trending feed and those of the New feed that continues it do not
\* overlap (completeWithNewFeed, getNewFeedWithCursor).
THEOREM RepeatsExplained == Spec => []RepeatsAreExplained
<1>1. IInv => RepeatsAreExplained
  BY DEF IInv
<1> QED BY <1>1, InvariantHolds, PTL

\* Without a next cursor the traversal has shown every identity that was there
\* from the first page on and of which no post was made or deleted, but for
\* those the snapshot ranks with a post that was deleted and those that a shown
\* post quotes (collectVisibleInternalIds, readScoreSnapshotPage).
THEOREM NothingSkipped == Spec => []NothingIsSkipped
<1>1. IInv => NothingIsSkipped
  BY DEF IInv
<1> QED BY <1>1, InvariantHolds, PTL
-----------------------------------------------------------------------------
(* Cursors advance.                                                        *)

LEMMA InitReadsOnward == Init => ReadsOnward
BY DEF Init, InitWith, ReadsOnward

\* Steps that are not the reader's.
LEMMA OthersKeepCursor ==
    ASSUME ReadsOnward, reader' = reader, shown' = shown
    PROVE  ReadsOnward' /\ Advance
BY DEF ReadsOnward, Advance, Answered, At

\* Steps within a request, failures and the first look for a snapshot.
LEMMA RequestKeepsCursor ==
    ASSUME shown' = shown, reader'.cursor = reader.cursor,
           reader.pc \notin {"end", "refused"},
           reader.pc = "read" /\ reader'.pc = "idle" => faults' # faults,
           reader'.pc = "read" => reader.cursor = None \/ reader'.offset = reader.cursor.offset
    PROVE  ReadsOnward' /\ Advance
<1>1. ~Answered
  BY DEF Answered, At
<1> QED BY <1>1 DEF ReadsOnward, Advance

LEMMA AnswerAdvances ==
    ASSUME reader.pc \notin {"end", "refused"}, reader \in Reader,
           NEW data, NEW cursor, Respond(data, cursor),
           reader.cursor = None \/ cursor = None \/ Further(reader.cursor, cursor)
    PROVE  ReadsOnward' /\ Advance
<1>1. reader'.cursor = cursor /\ reader'.pc = IF cursor = None THEN "end" ELSE "idle"
  BY DEF Respond, Reader
<1>2. ReadsOnward'
  BY <1>1 DEF ReadsOnward
<1>3. Advance
  BY <1>1 DEF Advance, At
<1> QED BY <1>2, <1>3

LEMMA LookUpAdvances ==
    ASSUME IInv, NEW source \in Sources, shown' = shown, reader.cursor = None,
           reader.pc \in {"idle", "read"},
           \/ reader' = LookUp(source)
           \/ \E limit \in Limits : reader' = [LookUp(source) EXCEPT !.limit = limit]
    PROVE  ReadsOnward' /\ Advance
<1> PICK request : request = [reader EXCEPT !.source = source, !.generation = generation,
                                            !.offset = 0]
  OBVIOUS
<1> PICK next : next = LookUp(source)
  OBVIOUS
<1>1. DOMAIN request = DOMAIN reader /\ request.cursor = None
  BY ReaderIs
<1>2. \E found, pc : /\ pc \in {"fill", "build", "read"}
                     /\ \/ next = [request EXCEPT !.pc = pc]
                        \/ next = [request EXCEPT !.pc = pc, !.list = found]
  BY DEF LookUp
<1>3. DOMAIN next = DOMAIN reader /\ next.cursor = None /\ next.pc \in {"fill", "build", "read"}
  BY <1>1, <1>2, ReaderIs
<1>4. reader' = next \/ \E limit \in Limits : reader' = [next EXCEPT !.limit = limit]
  OBVIOUS
<1>5. reader'.cursor = None /\ reader'.pc \in {"fill", "build", "read"}
  BY <1>3, <1>4, ReaderIs
<1> QED BY <1>5, RequestKeepsCursor

LEMMA OpenAdvances ==
    ASSUME IInv, NEW limit \in Limits, Open(limit) \/ OpenWithoutRanking(limit)
    PROVE  ReadsOnward' /\ Advance
<1>1. shown' = shown /\ reader.cursor = None /\ reader.pc = "idle"
  BY DEF Open, OpenWithoutRanking, Begins, At
<1>2. \E source \in Sources : reader' = [LookUp(source) EXCEPT !.limit = limit]
  BY DEF Open, OpenWithoutRanking, FirstSource, Sources
<1> QED BY <1>1, <1>2, LookUpAdvances

LEMMA TurnToMongoAdvances == IInv /\ TurnToMongo => ReadsOnward' /\ Advance
<1> SUFFICES ASSUME IInv, TurnToMongo PROVE ReadsOnward' /\ Advance
  OBVIOUS
<1>1. /\ reader.pc = "read" /\ reader.list = <<>> /\ reader' = LookUp("mongo")
      /\ shown' = shown /\ "mongo" \in Sources
  BY DEF TurnToMongo, RankingIsEmpty, Step, At, ReaderOnly, Sources
<1> QED BY <1>1, EmptyIsFirst, LookUpAdvances

LEMMA ContinueAdvances ==
    ASSUME IInv, NEW limit \in Limits, Continue(limit)
    PROVE  ReadsOnward' /\ Advance
<1> PICK cursor, list : cursor = reader.cursor /\ list = snapshots[cursor.source][cursor.generation]
  OBVIOUS
<1>1. /\ reader.pc = "idle" /\ shown' = shown
      /\ \/ reader' = Goto("refused")
         \/ reader' = [reader EXCEPT !.pc = "read", !.limit = limit, !.list = list,
                                     !.source = cursor.source, !.offset = cursor.offset,
                                     !.generation = cursor.generation]
  BY DEF Continue, Step, At, ReaderOnly
<1>2. /\ reader'.cursor = reader.cursor
      /\ reader'.pc = "read" => reader'.offset = reader.cursor.offset
  BY <1>1, ReaderIs DEF Goto, Reader
<1> QED BY <1>1, <1>2, RequestKeepsCursor

LEMMA ReadPageAdvances == IInv /\ ReadsOnward /\ ReadPage => ReadsOnward' /\ Advance
<1> SUFFICES ASSUME IInv, ReadsOnward, ReadPage PROVE ReadsOnward' /\ Advance
  OBVIOUS
<1> PICK page : page = Page
  OBVIOUS
<1> PICK cursor : cursor = [phase |-> "list", source |-> reader.source,
                            generation |-> reader.generation, offset |-> page.next]
  OBVIOUS
<1>1. reader.pc = "read" /\ Respond(page.data, IF page.more THEN cursor ELSE None)
  BY DEF ReadPage, At
<1>2. page.more => reader.offset < page.next
  BY <1>1, PageIs DEF PageIsRight
<1>3. ASSUME reader.cursor # None, page.more PROVE Further(reader.cursor, cursor)
  <2>1. reader.cursor \in ListCursor
    BY <1>1, <1>3, ReadingIs, ReaderIs
  <2>2. /\ reader.cursor.phase = "list"
        /\ reader.cursor.source = reader.source
        /\ reader.cursor.generation = reader.generation
        /\ reader.cursor.offset = reader.offset
    BY <1>1, <1>3, <2>1 DEF ListCursor, IInv, CursorInv, ReadsOnward
  <2> QED BY <1>2, <1>3, <2>2 DEF Further
<1> PICK answer : answer = IF page.more THEN cursor ELSE None
  OBVIOUS
<1>4. reader.cursor = None \/ answer = None \/ Further(reader.cursor, answer)
  BY <1>3
<1> QED BY <1>1, <1>4, ReaderIs, AnswerAdvances

\* The cursor of a page of the New feed names its last post.
LEMMA NewPageAdvances ==
    ASSUME IInv, NEW exclusion, NEW before \in Nat, NEW limit \in Nat \ {0},
           NEW page, page = NewPage(exclusion, before, limit)
    PROVE  \/ page.cursor = None
           \/ /\ page.cursor.phase = "new" /\ page.cursor.exclusion = exclusion
              /\ page.cursor.before # 0
              /\ before = 0 \/ page.cursor.before < before
<1> PICK d : d = page.data
  OBVIOUS
<1>1. TypeOK /\ IsNewPage(exclusion, before, page, d)
  BY NewPageIs DEF IInv
<1>2. d \in Seq(Nat)
  BY <1>1 DEF IsNewPage
<1>3. ASSUME NEW m \in Nat \ {0}, page.cursor = NewCursor(exclusion, m),
             d # <<>>, \A x \in ToSet(d) : m <= x
      PROVE  /\ page.cursor.phase = "new" /\ page.cursor.exclusion = exclusion
             /\ page.cursor.before # 0
             /\ before = 0 \/ page.cursor.before < before
  <2>1. 1 \in 1 .. Len(d) /\ d[1] \in ToSet(d) /\ d[1] \in Nat
    BY <1>2, <1>3 DEF ToSet
  <2>2. before # 0 => d[1] < before
    BY <1>1, <2>1 DEF IsNewPage
  <2>3. m <= d[1]
    BY <1>3, <2>1
  <2>4. before = 0 \/ m < before
    BY <2>1, <2>2, <2>3
  <2> QED BY <1>3, <2>4 DEF NewCursor
<1> QED BY <1>1, <1>3 DEF IsNewPage

\* It follows that of a snapshot, ...
LEMMA FillingAdvances ==
    ASSUME IInv, reader.pc = "fill", NEW data, NEW cursor, Respond(data, cursor),
           cursor = None \/ cursor.phase = "new"
    PROVE  ReadsOnward' /\ Advance
<1>1. reader.cursor = None \/ reader.cursor.phase = "list"
  BY ReadingIs, ReaderIs DEF ListCursor
<1>2. reader.cursor = None \/ cursor = None \/ Further(reader.cursor, cursor)
  BY <1>1 DEF Further
<1> QED BY <1>2, ReaderIs, AnswerAdvances

LEMMA FillAdvances == IInv /\ Fill => ReadsOnward' /\ Advance
<1> SUFFICES ASSUME IInv, Fill PROVE ReadsOnward' /\ Advance
  OBVIOUS
<1> PICK page : page = NewPage(reader.exclusion, 0, Missing)
  OBVIOUS
<1>1. reader.pc = "fill" /\ Missing > 0 /\ Respond(reader.data \o page.data, page.cursor)
  BY DEF Fill, At
<1>2. Missing \in Nat \ {0}
  <2>1. reader.limit \in Nat /\ Len(reader.data) \in Nat
    BY ReaderIs
  <2> QED BY <1>1, <2>1 DEF Missing
<1>3. page.cursor = None \/ page.cursor.phase = "new"
  BY <1>2, NewPageAdvances
<1> QED BY <1>1, <1>3, FillingAdvances

LEMMA PeekAdvances == IInv /\ Peek => ReadsOnward' /\ Advance
<1> SUFFICES ASSUME IInv, Peek PROVE ReadsOnward' /\ Advance
  OBVIOUS
<1> PICK isMore : isMore = (NewPage(reader.exclusion, 0, 1).data # <<>>)
  OBVIOUS
<1> PICK cursor : cursor = IF isMore THEN NewCursor(reader.exclusion, 0) ELSE None
  OBVIOUS
<1>1. /\ reader.pc = "fill"
      /\ (reader' = Abandoned /\ ReaderOnly) \/ Respond(reader.data, cursor)
  BY DEF Peek, At
<1>2. CASE reader' = Abandoned /\ ReaderOnly
  <2>1. shown' = shown /\ reader'.cursor = reader.cursor /\ reader'.pc = "idle"
    BY <1>2, ReaderIs DEF ReaderOnly, Abandoned, Reader
  <2> QED BY <1>1, <2>1, RequestKeepsCursor
<1>3. CASE Respond(reader.data, cursor)
  <2>1. cursor = None \/ cursor.phase = "new"
    BY DEF NewCursor
  <2> QED BY <1>1, <1>3, <2>1, FillingAdvances
<1> QED BY <1>1, <1>2, <1>3

\* ... or the one before it.
LEMMA ContinueNewAdvances ==
    ASSUME IInv, NEW limit \in Limits, ContinueNew(limit)
    PROVE  ReadsOnward' /\ Advance
<1> PICK cursor : cursor = reader.cursor
  OBVIOUS
<1> PICK page : page = NewPage(cursor.exclusion, cursor.before, limit)
  OBVIOUS
<1>1. /\ reader.pc = "idle" /\ cursor # None /\ cursor.phase = "new"
      /\ \/ Respond(page.data, page.cursor)
         \/ reader' = Goto("refused") /\ ReaderOnly
  BY DEF ContinueNew, At
<1>2. CASE Respond(page.data, page.cursor)
  <2>1. cursor.before \in Nat /\ limit \in Nat \ {0}
    BY <1>1, CursorIs, FeedAssumptions DEF LiveCursor
  <2>2. page.cursor = None \/ Further(cursor, page.cursor)
    BY <1>1, <2>1, NewPageAdvances DEF Further
  <2> QED BY <1>1, <1>2, <2>2, ReaderIs, AnswerAdvances
<1>3. CASE reader' = Goto("refused") /\ ReaderOnly
  <2>1. shown' = shown /\ reader'.cursor = reader.cursor /\ reader'.pc = "refused"
    BY <1>3, ReaderIs DEF ReaderOnly, Goto, Reader
  <2> QED BY <1>1, <2>1, RequestKeepsCursor
<1> QED BY <1>1, <1>2, <1>3

\* Steps within a request.
LEMMA WithinAdvances ==
    ASSUME IInv, ReadsOnward, Build \/ Store \/ ReadLastPage \/ Collect \/ Resolve \/ Fail
    PROVE  ReadsOnward' /\ Advance
<1>1. CASE Build \/ Store
  <2>1. /\ reader.pc \in {"build", "store"} /\ shown' = shown
        /\ reader'.cursor = reader.cursor
    BY <1>1, ReaderIs DEF Build, Store, Step, At, ReaderOnly, Reader
  <2>2. reader.cursor = None
    BY <2>1, BuildingIs
  <2> QED BY <2>1, <2>2, RequestKeepsCursor
<1>2. CASE ReadLastPage
  <2>1. /\ reader.pc = "read" /\ reader'.pc = "collect" /\ shown' = shown
        /\ reader'.cursor = reader.cursor
    BY <1>2, ReaderIs DEF ReadLastPage, At, ReaderOnly, Reader
  <2> QED BY <2>1, RequestKeepsCursor
<1>3. CASE Collect \/ Resolve
  <2>1. /\ reader.pc \in {"collect", "resolve"} /\ shown' = shown
        /\ reader'.cursor = reader.cursor
        /\ reader'.pc \in {"idle", "resolve", "fill"}
    BY <1>3, ReaderIs DEF Collect, Resolve, Step, At, ReaderOnly, Abandoned, Reader
  <2> QED BY <2>1, RequestKeepsCursor
<1>4. CASE Fail
  <2>1. /\ reader.pc \notin {"end", "refused"} /\ shown' = shown
        /\ reader'.cursor = reader.cursor /\ reader'.pc = "idle"
    BY <1>4, ReaderIs DEF Fail, Abandoned, Reader
  <2>2. faults' # faults
    BY <1>4 DEF Fail, IInv, TypeOK
  <2> QED BY <2>1, <2>2, RequestKeepsCursor
<1> QED BY <1>1, <1>2, <1>3, <1>4

LEMMA StepAdvances == IInv /\ ReadsOnward /\ [Next]_vars => ReadsOnward' /\ Advance
<1> SUFFICES ASSUME IInv, ReadsOnward, [Next]_vars PROVE ReadsOnward' /\ Advance
  OBVIOUS
<1>1. CASE ReaderStep
  <2>1. ASSUME NEW limit \in Limits, Open(limit) PROVE ReadsOnward' /\ Advance
    BY <2>1, OpenAdvances
  <2>2. ASSUME NEW limit \in Limits, Continue(limit) PROVE ReadsOnward' /\ Advance
    BY <2>2, ContinueAdvances
  <2>3. ASSUME NEW limit \in Limits, ContinueNew(limit) PROVE ReadsOnward' /\ Advance
    BY <2>3, ContinueNewAdvances
  <2>4. CASE Build \/ Store \/ ReadLastPage \/ Collect \/ Resolve
    BY <2>4, WithinAdvances
  <2>5. CASE TurnToMongo
    BY <2>5, TurnToMongoAdvances
  <2>6. CASE ReadPage
    BY <2>6, ReadPageAdvances
  <2>7. CASE Fill
    BY <2>7, FillAdvances
  <2>8. CASE Peek
    BY <2>8, PeekAdvances
  <2> QED BY <1>1, <2>1, <2>2, <2>3, <2>4, <2>5, <2>6, <2>7, <2>8 DEF ReaderStep
<1>2. CASE PostsChange
  BY <1>2, OthersKeepCursor DEF PostsChange, CreatePost, ActivatePost, DeletePost, Repost
<1>3. CASE SnapshotsChange
  BY <1>3, OthersKeepCursor DEF SnapshotsChange, NextGeneration, AnotherBuilds, Expire, ExpireExclusion
<1>4. ASSUME NEW limit \in Limits, OpenWithoutRanking(limit) PROVE ReadsOnward' /\ Advance
  BY <1>4, OpenAdvances
<1>5. CASE Fail
  BY <1>5, WithinAdvances
<1>6. CASE UNCHANGED vars
  BY <1>6, OthersKeepCursor DEF vars
<1> QED BY <1>1, <1>2, <1>3, <1>4, <1>5, <1>6 DEF Next

\* Every page that is answered either ends the walk or hands out a cursor that
\* is further on, and nothing follows the end: the offset grows within a
\* snapshot that stays as it is (paginateSnapshot, readScoreSnapshotPage),
\* the last post gets older in the New feed (getNewFeedWithCursor), and the New
\* feed follows the snapshot but never the other way round (completeWithNewFeed).
THEOREM CursorAdvances == Spec => CursorsAdvance
<1>1. Spec => []ReadsOnward
  BY InvariantHolds, InitReadsOnward, StepAdvances, PTL DEF Spec
<1>2. IInv /\ ReadsOnward /\ [Next]_vars => [Advance]_vars
  BY StepAdvances
<1> QED BY <1>1, <1>2, InvariantHolds, PTL DEF Spec, CursorsAdvance
=============================================================================
