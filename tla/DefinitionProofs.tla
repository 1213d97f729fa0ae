-------------------------- MODULE DefinitionProofs --------------------------
(***************************************************************************)
(* What is proved of a flow definition before anything runs, for           *)
(* definitions and contracts of any size.  Module Submission: validate()   *)
(* accepts exactly the flows, topological_order() gives the driver what it *)
(* relies on, and what the pipeline builder accepts the reactor runs.      *)
(* Module VersionCheck: the verdict on two versions of a contract is       *)
(* Breaking exactly when some client of the old version is not served by   *)
(* the new one, and reports additions exactly when, resources apart, some  *)
(* client of the new version is not served by the old one.  Module         *)
(* Assembly: the cycles that the builder and the linker report exist and   *)
(* none is missed, link() accepts exactly the pipelines it should and      *)
(* orders their components, and so does validate_pipeline.                 *)
(***************************************************************************)
EXTENDS Assembly, VersionCheck, NaturalRecursion, FiniteSetTheorems,
        SequenceTheorems, TLAPS

-----------------------------------------------------------------------------
(* Topologies and the states of the work-list loop.                        *)

(* Stages and connections are numbered from 1, and the connections join    *)
(* existing stages.                                                        *)
IsGraph(t) ==
  /\ Len(t.roles) \in Nat /\ DOMAIN t.roles = 1..Len(t.roles)
  /\ Len(t.conns) \in Nat /\ DOMAIN t.conns = 1..Len(t.conns)
  /\ \A i \in DOMAIN t.conns : t.conns[i].from \in StagesOf(t) /\ t.conns[i].to \in StagesOf(t)

Work(t) == [queue : Seq(StagesOf(t)), degree : [StagesOf(t) -> Int], order : Seq(StagesOf(t))]

In(k, s) == \E i \in 1..Len(s) : s[i] = k

Distinct(s) == \A i, j \in 1..Len(s) : s[i] = s[j] => i = j

(* What Relax changes.                                                     *)
LEMMA RelaxFacts ==
  ASSUME NEW t, NEW w \in Work(t), NEW k \in StagesOf(t)
  PROVE  /\ Relax(w, k) \in Work(t)
         /\ Relax(w, k).order = w.order
         /\ Relax(w, k).degree = [w.degree EXCEPT ![k] = w.degree[k] - 1]
         /\ Relax(w, k).queue = IF w.degree[k] = 1 THEN Append(w.queue, k) ELSE w.queue
<1>1. w.queue \in Seq(StagesOf(t)) /\ w.degree \in [StagesOf(t) -> Int]
  BY DEF Work
<1>2. Append(w.queue, k) \in Seq(StagesOf(t)) /\ w.degree[k] - 1 \in Int
  BY <1>1
<1>3. [w.degree EXCEPT ![k] = w.degree[k] - 1] \in [StagesOf(t) -> Int]
  BY <1>1, <1>2
<1> QED BY <1>1, <1>2, <1>3 DEF Relax, Work

(* The recursion over the connections is one.                              *)
LEMMA RelaxedFacts ==
  ASSUME NEW t, IsGraph(t), NEW w \in Work(t), NEW x
  PROVE  /\ Relaxed(t, x, w) \in [0..Len(t.conns) -> Work(t)]
         /\ Relaxed(t, x, w)[0] = w
         /\ \A i \in 1..Len(t.conns) :
              Relaxed(t, x, w)[i] = IF t.conns[i].from = x
                                    THEN Relax(Relaxed(t, x, w)[i - 1], t.conns[i].to)
                                    ELSE Relaxed(t, x, w)[i - 1]
<1> DEFINE N == Len(t.conns)
           d == [i \in 1..N |-> [v \in Work(t) |->
                   IF t.conns[i].from = x THEN Relax(v, t.conns[i].to) ELSE v]]
           Def(f) == f = [i \in 0..N |->
                       IF i = 0 THEN w
                       ELSE IF t.conns[i].from = x THEN Relax(f[i - 1], t.conns[i].to)
                       ELSE f[i - 1]]
           W == Work(t)
<1>1. N \in Nat /\ \A i \in 1..N : t.conns[i].to \in StagesOf(t)
  BY DEF IsGraph
<1>2. ASSUME NEW i \in 1..N, NEW v \in Work(t)
      PROVE  (IF t.conns[i].from = x THEN Relax(v, t.conns[i].to) ELSE v) \in Work(t)
  BY <1>1, <1>2, RelaxFacts
<1>3. d \in [1..N -> [W -> W]]
  BY <1>2
<1>4. PICK f : Computes(f, N, W, w, d)
  <2> HIDE DEF d, N, W
  <2>1. w \in W
    BY DEF W
  <2> QED BY <1>1, <1>3, <2>1, Recursion
<1>5. ASSUME NEW i \in 1..N PROVE f[i] = IF t.conns[i].from = x THEN Relax(f[i - 1], t.conns[i].to)
                                         ELSE f[i - 1]
  <2>1. i # 0 /\ i \in 0..N /\ i - 1 \in 0..N
    BY <1>1
  <2>2. f[i] = d[i][f[i - 1]] /\ f[i - 1] \in W
    <3> HIDE DEF d, N, W
    <3> QED BY <1>4, <2>1 DEF Computes
  <2> QED BY <2>2
<1>6. Def(f)
  <2>1. f = [i \in 0..N |-> f[i]] /\ f[0] = w
    <3> HIDE DEF d, N, W
    <3> QED BY <1>4 DEF Computes
  <2>2. \A i \in 0..N : i # 0 => i \in 1..N
    BY <1>1
  <2> HIDE DEF d, N, W
  <2> QED BY <1>5, <2>1, <2>2
<1>7. Def(Relaxed(t, x, w))
  <2>1. Relaxed(t, x, w) = CHOOSE g : Def(g)
    BY DEF Relaxed
  <2> HIDE DEF Def
  <2> QED BY <1>6, <2>1
<1> DEFINE r == Relaxed(t, x, w)
<1>8. /\ r = [i \in 0..N |-> r[i]] /\ r[0] = w
      /\ \A i \in 1..N : r[i] = IF t.conns[i].from = x THEN Relax(r[i - 1], t.conns[i].to)
                                ELSE r[i - 1]
  <2> HIDE DEF r, d, W
  <2>1. Def(r)
    BY <1>7 DEF r
  <2> QED BY <1>1, <2>1
<1> HIDE DEF r
<1>9. \A i \in 0..N : r[i] \in W
  <2> DEFINE S == {i \in 0..N : r[i] \in W}
  <2>1. 0 \in S
    BY <1>1, <1>8
  <2>2. ASSUME NEW i \in 0..(N - 1), i \in S PROVE i + 1 \in S
    <3>1. i + 1 \in 1..N /\ (i + 1) - 1 = i /\ i + 1 \in 0..N
      BY <1>1
    <3>2. r[i] \in W
      BY <2>2
    <3>3. r[i + 1] \in W
      BY <1>2, <1>8, <3>1, <3>2
    <3> QED BY <3>1, <3>3
  <2> HIDE DEF S, N
  <2>3. \A i \in 0..N : i \in S
    BY <1>1, <2>1, <2>2, Induction
  <2> QED BY <2>3 DEF S
<1> QED BY <1>8, <1>9 DEF r
-----------------------------------------------------------------------------
(* Kahn's algorithm.  What has been listed, in the order or in the queue,  *)
(* only grows: taking a node moves the boundary between the two.           *)

Listed(w) == w.order \o w.queue

Seed(t, k) == InEdges(t, k) = {}

SeedsFirst(t, s) == \A a, b \in 1..Len(s) : a < b /\ Seed(t, s[b]) => Seed(t, s[a])

(* The edges to k that do not come from s, and those from x that are still *)
(* to be looked at.                                                        *)
Left(t, s, k) == {j \in InEdges(t, k) : ~In(t.conns[j].from, s)}

LeftOver(t, s, x, i, k) ==
  {j \in InEdges(t, k) : ~In(t.conns[j].from, s) \/ (t.conns[j].from = x /\ j > i)}

(* What a stage of s gets it gets from before it in s.                     *)
Forward(t, s) ==
  \A j \in DOMAIN t.conns : \A b \in 1..Len(s) :
    s[b] = t.conns[j].to => \E a \in 1..(b - 1) : s[a] = t.conns[j].from

ListInv(t, w) ==
  /\ w \in Work(t)
  /\ Distinct(Listed(w)) /\ SeedsFirst(t, Listed(w))
  /\ \A k \in StagesOf(t) : In(k, Listed(w)) <=> w.degree[k] = 0

KahnInv(t, w) ==
  /\ ListInv(t, w)
  /\ \A k \in StagesOf(t) : w.degree[k] = Cardinality(Left(t, w.order, k))
  /\ Forward(t, w.order)

(* After the first i connections of the turn that takes x.                 *)
RelaxInv(t, s, x, i, v) ==
  /\ ListInv(t, v)
  /\ v.order = s
  /\ \A k \in StagesOf(t) : v.degree[k] = Cardinality(LeftOver(t, s, x, i, k))

(* Putting a stage at the end of the queue lists it last.                  *)
LEMMA ListedAppend ==
  ASSUME NEW K, NEW o \in Seq(K), NEW q \in Seq(K), NEW k \in K
  PROVE  o \o Append(q, k) = Append(o \o q, k)
OBVIOUS

(* A sequence with one more element.                                       *)
LEMMA AppendFacts ==
  ASSUME NEW K, NEW o \in Seq(K), NEW x \in K
  PROVE  /\ Append(o, x) \in Seq(K) /\ Len(o) \in Nat /\ Len(Append(o, x)) = Len(o) + 1
         /\ Append(o, x)[Len(o) + 1] = x
         /\ \A i \in 1..Len(o) : Append(o, x)[i] = o[i]
OBVIOUS

(* Where the front of a queue that follows an order is.                    *)
LEMMA ConcatHead ==
  ASSUME NEW K, NEW o \in Seq(K), NEW q \in Seq(K), q # <<>>
  PROVE  /\ Len(o \o q) = Len(o) + Len(q) /\ Len(o) \in Nat /\ Len(q) \in Nat \ {0}
         /\ (o \o q)[Len(o) + 1] = Head(q) /\ q[1] = Head(q) /\ Head(q) \in K
         /\ \A a \in 1..Len(o) : (o \o q)[a] = o[a]
<1>1. Len(o \o q) = Len(o) + Len(q) /\ Len(o) \in Nat /\ Len(q) \in Nat \ {0}
  OBVIOUS
<1>2. \A a \in 1..Len(o) : (o \o q)[a] = o[a]
  OBVIOUS
<1>3. (o \o q)[Len(o) + 1] = q[1] /\ q[1] = Head(q) /\ Head(q) \in K
  BY <1>1
<1> QED BY <1>1, <1>2, <1>3

(* Taking the front of the queue lists nothing new.                        *)
LEMMA ListedPop ==
  ASSUME NEW K, NEW o \in Seq(K), NEW q \in Seq(K), q # <<>>
  PROVE  Append(o, Head(q)) \o Tail(q) = o \o q
<1> DEFINE l == Append(o, Head(q)) \o Tail(q)
           r == o \o q
<1>1. Head(q) \in K /\ Tail(q) \in Seq(K) /\ Len(Tail(q)) = Len(q) - 1 /\ Len(q) \in Nat \ {0}
  OBVIOUS
<1>2. Append(o, Head(q)) \in Seq(K) /\ Len(Append(o, Head(q))) = Len(o) + 1
  BY <1>1
<1>3. l \in Seq(K) /\ r \in Seq(K) /\ Len(l) = Len(o) + Len(q) /\ Len(r) = Len(o) + Len(q)
  BY <1>1, <1>2
<1>4. ASSUME NEW i \in 1..(Len(o) + Len(q)) PROVE l[i] = r[i]
  <2>1. CASE i <= Len(o)
    BY <1>1, <1>2, <2>1
  <2>2. CASE i = Len(o) + 1
    BY <1>1, <1>2, <2>2
  <2>3. CASE i > Len(o) + 1
    <3>1. l[i] = Tail(q)[i - (Len(o) + 1)]
      BY <1>1, <1>2, <2>3
    <3>2. r[i] = q[i - Len(o)]
      BY <2>3
    <3>3. i - (Len(o) + 1) \in 1..(Len(q) - 1)
      BY <2>3
    <3> QED BY <3>1, <3>2, <3>3
  <2> QED BY <2>1, <2>2, <2>3
<1> HIDE DEF l, r
<1>5. l = r
  BY <1>3, <1>4
<1> QED BY <1>5 DEF l, r

(* Sets of connections are finite.                                         *)
LEMMA EdgesFinite ==
  ASSUME NEW t, IsGraph(t), NEW k
  PROVE  IsFiniteSet(InEdges(t, k))
<1>1. IsFiniteSet(1..Len(t.conns)) /\ InEdges(t, k) \subseteq 1..Len(t.conns)
  BY SMTT(30), FS_Interval DEF IsGraph, InEdges
<1> QED BY <1>1, FS_Subset

(* One more stage is listed, one that has inputs and was not listed yet.   *)
LEMMA ListMore ==
  ASSUME NEW t, NEW z \in Seq(StagesOf(t)), NEW k \in StagesOf(t),
         Distinct(z), SeedsFirst(t, z), ~In(k, z), ~Seed(t, k)
  PROVE  /\ Distinct(Append(z, k)) /\ SeedsFirst(t, Append(z, k))
         /\ \A l : In(l, Append(z, k)) <=> In(l, z) \/ l = k
<1> DEFINE y == Append(z, k)
<1>1. /\ y \in Seq(StagesOf(t)) /\ Len(y) = Len(z) + 1 /\ Len(z) \in Nat
      /\ y[Len(z) + 1] = k /\ \A i \in 1..Len(z) : y[i] = z[i]
  OBVIOUS
<1> HIDE DEF y
<1>2. \A i \in 1..Len(y) : i = Len(z) + 1 \/ i \in 1..Len(z)
  BY <1>1
<1>3. Distinct(y)
  BY <1>1, <1>2 DEF Distinct, In
<1>4. SeedsFirst(t, y)
  <2> SUFFICES ASSUME NEW a \in 1..Len(y), NEW b \in 1..Len(y), a < b, Seed(t, y[b])
               PROVE  Seed(t, y[a])
    BY DEF SeedsFirst
  <2>1. b \in 1..Len(z) /\ a \in 1..Len(z)
    BY <1>1, <1>2
  <2> QED BY <1>1, <2>1 DEF SeedsFirst
<1>5. \A l : In(l, y) <=> In(l, z) \/ l = k
  BY <1>1, <1>2 DEF In
<1> QED BY <1>3, <1>4, <1>5 DEF y

(* Looking at one connection of the node that is taken.                    *)
LEMMA RelaxStep ==
  ASSUME NEW t, IsGraph(t), NEW s, NEW x, NEW i \in 1..Len(t.conns), NEW v,
         In(x, s), RelaxInv(t, s, x, i - 1, v)
  PROVE  RelaxInv(t, s, x, i,
           IF t.conns[i].from = x THEN Relax(v, t.conns[i].to) ELSE v)
<1> DEFINE k == t.conns[i].to
           Before(l) == LeftOver(t, s, x, i - 1, l)
           After(l)  == LeftOver(t, s, x, i, l)
<1>1. i \in DOMAIN t.conns /\ k \in StagesOf(t) /\ DOMAIN t.conns \subseteq Nat
  BY DEF IsGraph
<1>2. ASSUME NEW l, l # k \/ t.conns[i].from # x
      PROVE  After(l) = Before(l)
  <2> SUFFICES ASSUME NEW j \in InEdges(t, l)
               PROVE  (t.conns[j].from = x /\ j > i) <=> (t.conns[j].from = x /\ j > i - 1)
    BY DEF LeftOver
  <2>1. j \in Nat /\ i \in Nat /\ t.conns[j].to = l
    BY <1>1 DEF InEdges
  <2>2. j = i => t.conns[j].from # x
    BY <1>2, <2>1
  <2> QED BY <2>1, <2>2
<1>3. CASE t.conns[i].from # x
  BY <1>2, <1>3 DEF RelaxInv
<1>4. CASE t.conns[i].from = x
  <2> DEFINE u == Relax(v, k)
             z == Listed(v)
  <2>1. v \in Work(t) /\ v.order = s
    BY DEF RelaxInv, ListInv
  <2>2. /\ u \in Work(t) /\ u.order = s
        /\ u.degree = [v.degree EXCEPT ![k] = v.degree[k] - 1]
        /\ u.queue = IF v.degree[k] = 1 THEN Append(v.queue, k) ELSE v.queue
    <3> HIDE DEF k
    <3> QED BY SMTT(30), <1>1, <2>1, RelaxFacts
  <2> HIDE DEF u
  <2>3. v.degree \in [StagesOf(t) -> Int]
    BY <2>1 DEF Work
  <2>4. i \in Before(k) /\ After(k) = Before(k) \ {i}
    <3>1. i \in Before(k)
      BY <1>1, <1>4 DEF LeftOver, InEdges
    <3>2. ASSUME NEW j \in InEdges(t, k) PROVE j > i <=> j > i - 1 /\ j # i
      <4>1. j \in Nat /\ i \in Nat
        BY <1>1 DEF InEdges
      <4> QED BY <4>1
    <3>3. After(k) = Before(k) \ {i}
      BY <1>4, <3>2 DEF LeftOver
    <3> QED BY <3>1, <3>3
  <2>5. IsFiniteSet(Before(k)) /\ Cardinality(Before(k)) \in Nat
    <3>1. Before(k) \subseteq InEdges(t, k)
      BY DEF LeftOver
    <3>2. IsFiniteSet(Before(k))
      <4> HIDE DEF Before
      <4> QED BY <3>1, EdgesFinite, FS_Subset
    <3> HIDE DEF Before
    <3> QED BY <3>2, FS_CardinalityType
  <2>6. Cardinality(After(k)) = Cardinality(Before(k)) - 1
    <3> HIDE DEF Before, After
    <3> QED BY ZenonT(40), <2>4, <2>5, FS_RemoveElement
  <2>7. v.degree[k] = Cardinality(Before(k)) /\ v.degree[k] \in Nat /\ v.degree[k] # 0
    <3>1. v.degree[k] = Cardinality(Before(k))
      BY <1>1 DEF RelaxInv
    <3>2. Before(k) # {}
      BY <2>4
    <3> HIDE DEF Before
    <3> QED BY <2>5, <3>1, <3>2, FS_EmptySet
  <2>8. \A l \in StagesOf(t) : u.degree[l] = Cardinality(After(l))
    <3> SUFFICES ASSUME NEW l \in StagesOf(t) PROVE u.degree[l] = Cardinality(After(l))
      OBVIOUS
    <3>1. CASE l = k
      <4>1. u.degree[k] = v.degree[k] - 1
        BY <1>1, <2>2, <2>3
      <4> HIDE DEF k, Before, After
      <4> QED BY <2>6, <2>7, <3>1, <4>1
    <3>2. CASE l # k
      <4>1. u.degree[l] = v.degree[l]
        BY <2>2, <2>3, <3>2
      <4>2. v.degree[l] = Cardinality(Before(l))
        BY DEF RelaxInv
      <4> QED BY <1>2, <3>2, <4>1, <4>2
    <3> QED BY <3>1, <3>2
  <2> HIDE DEF k, Before, After
  <2>9. /\ z \in Seq(StagesOf(t)) /\ Distinct(z) /\ SeedsFirst(t, z)
        /\ \A l \in StagesOf(t) : In(l, z) <=> v.degree[l] = 0
        /\ v.queue \in Seq(StagesOf(t)) /\ v.order \in Seq(StagesOf(t))
    <3>1. v.queue \in Seq(StagesOf(t)) /\ v.order \in Seq(StagesOf(t))
      BY <2>1 DEF Work
    <3> QED BY <3>1 DEF RelaxInv, ListInv, Listed
  <2>10. ~In(k, z) /\ ~Seed(t, k)
    BY <1>1, <2>4, <2>7, <2>9 DEF Seed, LeftOver, Before
  <2>11. CASE v.degree[k] = 1
    <3>1. Listed(u) = Append(z, k)
      <4>1. v.order \o Append(v.queue, k) = Append(v.order \o v.queue, k)
        <5> DEFINE o == v.order
                   q == v.queue
                   K == StagesOf(t)
        <5>1. o \in Seq(K) /\ q \in Seq(K) /\ k \in K
          BY <1>1, <2>9
        <5> HIDE DEF o, q, K
        <5>2. o \o Append(q, k) = Append(o \o q, k)
          BY <5>1, ListedAppend
        <5> QED BY <5>2 DEF o, q
      <4> QED BY <2>1, <2>2, <2>11, <4>1 DEF Listed
    <3> HIDE DEF z
    <3>2. /\ Distinct(Append(z, k)) /\ SeedsFirst(t, Append(z, k))
          /\ \A l : In(l, Append(z, k)) <=> In(l, z) \/ l = k
      BY <1>1, <2>9, <2>10, ListMore
    <3>3. \A l \in StagesOf(t) : In(l, Append(z, k)) <=> u.degree[l] = 0
      BY <1>1, <2>2, <2>3, <2>9, <2>11, <3>2
    <3> QED BY <1>4, <2>2, <2>8, <3>1, <3>2, <3>3 DEF RelaxInv, ListInv, After, k, u
  <2>12. CASE v.degree[k] # 1
    <3>1. Listed(u) = z
      BY <2>1, <2>2, <2>12 DEF Listed
    <3>2. \A l \in StagesOf(t) : In(l, z) <=> u.degree[l] = 0
      <4> HIDE DEF z
      <4> QED BY <1>1, <2>2, <2>3, <2>7, <2>9, <2>12
    <3> HIDE DEF z
    <3> QED BY <1>4, <2>2, <2>8, <2>9, <3>1, <3>2 DEF RelaxInv, ListInv, After, k, u
  <2> QED BY <2>11, <2>12
<1> QED BY <1>3, <1>4

(* What is listed up to a place of the order is in the order.              *)
LEMMA InConcat ==
  ASSUME NEW K, NEW o \in Seq(K), NEW q \in Seq(K), NEW k
  PROVE  In(k, o \o q) <=> In(k, o) \/ In(k, q)
<1>1. /\ Len(o \o q) = Len(o) + Len(q) /\ Len(o) \in Nat /\ Len(q) \in Nat
      /\ \A i \in 1..Len(o) : (o \o q)[i] = o[i]
      /\ \A i \in 1..Len(q) : (o \o q)[Len(o) + i] = q[i]
  OBVIOUS
<1> DEFINE z == o \o q
<1> HIDE DEF z
<1>2. /\ Len(z) = Len(o) + Len(q)
      /\ \A i \in 1..Len(o) : z[i] = o[i]
      /\ \A i \in 1..Len(q) : z[Len(o) + i] = q[i]
  BY <1>1 DEF z
<1>3. ASSUME In(k, o) PROVE In(k, z)
  <2>1. PICK i \in 1..Len(o) : o[i] = k
    BY <1>3 DEF In
  <2>2. i \in 1..Len(z) /\ z[i] = k
    BY <1>1, <1>2, <2>1
  <2> QED BY <2>2 DEF In
<1>4. ASSUME In(k, q) PROVE In(k, z)
  <2>1. PICK i \in 1..Len(q) : q[i] = k
    BY <1>4 DEF In
  <2>2. Len(o) + i \in 1..Len(z) /\ z[Len(o) + i] = k
    BY <1>1, <1>2, <2>1
  <2> QED BY <2>2 DEF In
<1>5. ASSUME In(k, z) PROVE In(k, o) \/ In(k, q)
  <2>1. PICK i \in 1..Len(z) : z[i] = k
    BY <1>5 DEF In
  <2>2. CASE i <= Len(o)
    <3>1. i \in 1..Len(o)
      BY <1>1, <2>2
    <3> QED BY <1>2, <2>1, <3>1 DEF In
  <2>3. CASE i > Len(o)
    <3>1. i - Len(o) \in 1..Len(q) /\ Len(o) + (i - Len(o)) = i
      BY <1>1, <1>2, <2>3
    <3> QED BY <1>2, <2>1, <3>1 DEF In
  <2> QED BY <1>1, <2>1, <2>2, <2>3
<1> QED BY <1>3, <1>4, <1>5 DEF z

(* The state in which a turn begins with the edges of the node it takes.   *)
Popped(w) == [w EXCEPT !.queue = Tail(@), !.order = Append(@, Head(w.queue))]

(* The node that is taken has no edge left, and was not in the order.      *)
LEMMA PopFacts ==
  ASSUME NEW t, IsGraph(t), NEW w, KahnInv(t, w), w.queue # <<>>
  PROVE  /\ Popped(w).order = Append(w.order, Head(w.queue))
         /\ In(Head(w.queue), Popped(w).order)
         /\ Forward(t, Popped(w).order)
         /\ RelaxInv(t, Popped(w).order, Head(w.queue), 0, Popped(w))
<1> DEFINE x == Head(w.queue)
           p == Popped(w)
           o == w.order
           q == w.queue
           K == StagesOf(t)
<1>1. o \in Seq(K) /\ q \in Seq(K) /\ w.degree \in [K -> Int] /\ w \in Work(t)
  BY DEF KahnInv, ListInv, Work
<1>2. /\ p \in Work(t) /\ p.order = Append(o, x) /\ p.queue = Tail(q) /\ p.degree = w.degree
      /\ x \in K
  <2>1. x \in K /\ Tail(q) \in Seq(K) /\ Append(o, x) \in Seq(K)
    BY <1>1
  <2> HIDE DEF x
  <2>2. p = [w EXCEPT !.queue = Tail(w.queue), !.order = Append(w.order, x)]
    BY <1>1 DEF Popped, Work, x
  <2> QED BY <1>1, <2>1, <2>2 DEF Work
<1> HIDE DEF p
<1>3. Listed(p) = Listed(w)
  BY <1>1, <1>2, ListedPop DEF Listed
<1>4. ListInv(t, p)
  BY <1>2, <1>3 DEF ListInv, KahnInv
<1>5. \A k : In(k, Append(o, x)) <=> In(k, o) \/ k = x
  <2>1. /\ Len(Append(o, x)) = Len(o) + 1 /\ Len(o) \in Nat /\ Append(o, x)[Len(o) + 1] = x
        /\ \A i \in 1..Len(o) : Append(o, x)[i] = o[i]
    BY <1>1
  <2> QED BY <2>1 DEF In
<1>6. ~In(x, o)
  <2> SUFFICES ASSUME NEW a \in 1..Len(o), o[a] = x PROVE FALSE
    BY DEF In
  <2> DEFINE z == o \o q
  <2>1. /\ Len(z) = Len(o) + Len(q) /\ Len(o) \in Nat /\ Len(q) \in Nat \ {0}
        /\ z[a] = x /\ z[Len(o) + 1] = x
    <3>1. q # <<>> /\ x = Head(q)
      OBVIOUS
    <3> HIDE DEF K, o, q, x
    <3> QED BY <1>1, <3>1, ConcatHead
  <2>2. Distinct(z)
    BY DEF KahnInv, ListInv, Listed
  <2> HIDE DEF z, o, q, x
  <2>3. a \in 1..Len(z) /\ Len(o) + 1 \in 1..Len(z) /\ a # Len(o) + 1
    BY <2>1
  <2> QED BY <2>1, <2>2, <2>3 DEF Distinct
<1>7. Left(t, o, x) = {}
  <2>1. In(x, q)
    BY <1>1 DEF In
  <2>2. In(x, Listed(w))
    BY <1>1, <2>1, InConcat DEF Listed
  <2>3. Cardinality(Left(t, o, x)) = 0
    BY <1>2, <2>2 DEF KahnInv, ListInv
  <2>4. Left(t, o, x) \subseteq InEdges(t, x)
    BY DEF Left
  <2>5. IsFiniteSet(Left(t, o, x))
    BY <2>4, EdgesFinite, FS_Subset
  <2> QED BY <2>3, <2>5, FS_EmptySet
<1>8. Forward(t, Append(o, x))
  <2> DEFINE y == Append(o, x)
  <2>1. /\ Len(o) \in Nat /\ Len(y) = Len(o) + 1 /\ y[Len(o) + 1] = x
        /\ \A i \in 1..Len(o) : y[i] = o[i]
    <3> HIDE DEF K, x
    <3> QED BY <1>1, <1>2, AppendFacts
  <2>2. Forward(t, o)
    BY DEF KahnInv
  <2> HIDE DEF y, o, x
  <2> SUFFICES ASSUME NEW j \in DOMAIN t.conns, NEW b \in 1..Len(y), y[b] = t.conns[j].to
               PROVE  \E a \in 1..(b - 1) : y[a] = t.conns[j].from
    BY DEF Forward, y
  <2>3. CASE b \in 1..Len(o)
    <3>1. o[b] = t.conns[j].to
      BY <2>1, <2>3
    <3>2. PICK a \in 1..(b - 1) : o[a] = t.conns[j].from
      BY <2>2, <2>3, <3>1 DEF Forward
    <3>3. a \in 1..Len(o)
      BY <2>1, <2>3
    <3> QED BY <2>1, <3>2, <3>3
  <2>4. CASE b = Len(o) + 1
    <3>1. t.conns[j].to = x
      BY <2>1, <2>4
    <3>2. In(t.conns[j].from, o)
      BY <1>7, <3>1 DEF Left, InEdges
    <3>3. PICK a \in 1..Len(o) : o[a] = t.conns[j].from
      BY <3>2 DEF In
    <3>4. a \in 1..(b - 1)
      BY <2>1, <2>4
    <3> QED BY <2>1, <3>3, <3>4
  <2>5. b \in 1..Len(o) \/ b = Len(o) + 1
    BY <2>1
  <2> QED BY <2>3, <2>4, <2>5
<1>9. \A k \in K : LeftOver(t, Append(o, x), x, 0, k) = Left(t, o, k)
  <2>1. \A j \in DOMAIN t.conns : j > 0
    BY DEF IsGraph
  <2> QED BY <1>5, <1>6, <2>1 DEF LeftOver, Left, InEdges
<1>10. \A k \in K : p.degree[k] = Cardinality(LeftOver(t, Append(o, x), x, 0, k))
  BY <1>2, <1>9 DEF KahnInv
<1> QED BY <1>2, <1>4, <1>5, <1>8, <1>10 DEF RelaxInv, p

(* A turn of the loop keeps the invariant and takes the front node.        *)
LEMMA TurnStep ==
  ASSUME NEW t, IsGraph(t), NEW w, KahnInv(t, w), w.queue # <<>>
  PROVE  /\ KahnInv(t, KahnTurn(t, w))
         /\ KahnTurn(t, w).order = Append(w.order, Head(w.queue))
<1> DEFINE x == Head(w.queue)
           p == Popped(w)
           s == p.order
           r == Relaxed(t, x, p)
           N == Len(t.conns)
<1>1. KahnTurn(t, w) = r[N]
  BY DEF KahnTurn, Popped
<1>2. s = Append(w.order, x) /\ In(x, s) /\ Forward(t, s) /\ RelaxInv(t, s, x, 0, p)
  BY PopFacts
<1>3. N \in Nat
  BY DEF IsGraph
<1>4. /\ r[0] = p
      /\ \A i \in 1..N : r[i] = IF t.conns[i].from = x THEN Relax(r[i - 1], t.conns[i].to)
                                ELSE r[i - 1]
  <2>1. p \in Work(t)
    BY <1>2 DEF RelaxInv, ListInv
  <2> HIDE DEF p, x
  <2> QED BY <2>1, RelaxedFacts
<1> HIDE DEF r, x, s, p, N
<1>5. RelaxInv(t, s, x, N, r[N])
  <2> DEFINE S == {i \in 0..N : RelaxInv(t, s, x, i, r[i])}
  <2>1. 0 \in S
    BY <1>2, <1>3, <1>4
  <2>2. ASSUME NEW i \in 0..(N - 1), i \in S PROVE i + 1 \in S
    <3>1. i + 1 \in 1..N /\ (i + 1) - 1 = i /\ i + 1 \in 0..N
      BY <1>3
    <3>2. RelaxInv(t, s, x, (i + 1) - 1, r[i])
      BY <2>2, <3>1
    <3>3. RelaxInv(t, s, x, i + 1, IF t.conns[i + 1].from = x THEN Relax(r[i], t.conns[i + 1].to)
                                   ELSE r[i])
      BY <1>2, <3>1, <3>2, RelaxStep DEF N
    <3> QED BY <1>4, <3>1, <3>3
  <2> HIDE DEF S
  <2>3. \A i \in 0..N : i \in S
    BY <1>3, <2>1, <2>2, Induction
  <2> QED BY <1>3, <2>3 DEF S
<1>6. \A k \in StagesOf(t) : LeftOver(t, s, x, N, k) = Left(t, s, k)
  <2>1. \A j \in DOMAIN t.conns : ~(j > N)
    BY DEF IsGraph, N
  <2> QED BY <2>1 DEF LeftOver, Left, InEdges
<1>7. KahnInv(t, r[N]) /\ r[N].order = s
  BY <1>2, <1>5, <1>6 DEF RelaxInv, KahnInv
<1> QED BY <1>1, <1>2, <1>7 DEF x
-----------------------------------------------------------------------------
(* The start of the loop, and its end.                                     *)

(* keys lists every stage once.                                            *)
IsListing(t, keys) ==
  /\ keys \in Seq(StagesOf(t)) /\ Distinct(keys) /\ Len(keys) = Len(t.roles)
  /\ \A k \in StagesOf(t) : In(k, keys)

(* The recursion over the keys.                                            *)
LEMMA SeedsFacts ==
  ASSUME NEW K, NEW keys \in Seq(K), NEW degree
  PROVE  /\ Seeds(keys, degree) \in [0..Len(keys) -> Seq(K)]
         /\ Seeds(keys, degree)[0] = <<>>
         /\ \A i \in 1..Len(keys) :
              Seeds(keys, degree)[i] = IF degree[keys[i]] = 0
                                       THEN Append(Seeds(keys, degree)[i - 1], keys[i])
                                       ELSE Seeds(keys, degree)[i - 1]
<1> DEFINE N == Len(keys)
           W == Seq(K)
           e == <<>>
           d == [i \in 1..N |-> [v \in W |->
                   IF degree[keys[i]] = 0 THEN Append(v, keys[i]) ELSE v]]
           Def(f) == f = [i \in 0..N |->
                       IF i = 0 THEN e
                       ELSE IF degree[keys[i]] = 0 THEN Append(f[i - 1], keys[i])
                       ELSE f[i - 1]]
<1>1. N \in Nat /\ e \in W /\ \A i \in 1..N : keys[i] \in K
  OBVIOUS
<1>2. ASSUME NEW i \in 1..N, NEW v \in W
      PROVE  (IF degree[keys[i]] = 0 THEN Append(v, keys[i]) ELSE v) \in W
  BY <1>1
<1> HIDE DEF e
<1>3. d \in [1..N -> [W -> W]]
  <2> HIDE DEF N, W
  <2> QED BY <1>2
<1>4. PICK f : Computes(f, N, W, e, d)
  <2> HIDE DEF d, N, W
  <2> QED BY <1>1, <1>3, Recursion
<1> HIDE DEF W, N
<1>5. ASSUME NEW i \in 1..N
      PROVE  f[i] = IF degree[keys[i]] = 0 THEN Append(f[i - 1], keys[i]) ELSE f[i - 1]
  <2>1. i # 0 /\ i \in 0..N /\ i - 1 \in 0..N
    BY <1>1
  <2>2. f[i] = d[i][f[i - 1]] /\ f[i - 1] \in W
    <3> HIDE DEF d
    <3> QED BY <1>4, <2>1 DEF Computes
  <2> QED BY <2>2
<1> HIDE DEF d
<1>6. Def(f)
  <2>1. f = [i \in 0..N |-> f[i]] /\ f[0] = e
    BY <1>4 DEF Computes
  <2>2. \A i \in 0..N : i # 0 => i \in 1..N
    BY <1>1
  <2> QED BY <1>5, <2>1, <2>2
<1>7. Def(Seeds(keys, degree))
  <2>1. Seeds(keys, degree) = CHOOSE g : Def(g)
    BY DEF Seeds, e, N
  <2> HIDE DEF Def
  <2> QED BY <1>6, <2>1
<1> DEFINE r == Seeds(keys, degree)
<1>8. /\ r = [i \in 0..N |-> r[i]] /\ r[0] = e
      /\ \A i \in 1..N : r[i] = IF degree[keys[i]] = 0 THEN Append(r[i - 1], keys[i]) ELSE r[i - 1]
  <2> HIDE DEF r
  <2>1. Def(r)
    BY <1>7 DEF r
  <2>2. r[0] = e
    BY <1>1, <2>1
  <2>3. r = [i \in 0..N |-> r[i]]
    BY <2>1
  <2>4. ASSUME NEW i \in 1..N
        PROVE  r[i] = IF degree[keys[i]] = 0 THEN Append(r[i - 1], keys[i]) ELSE r[i - 1]
    <3>1. i \in 0..N /\ i # 0
      BY <1>1
    <3> QED BY <2>1, <3>1
  <2> QED BY <2>2, <2>3, <2>4
<1> HIDE DEF r
<1>9. \A i \in 0..N : r[i] \in W
  <2> DEFINE S == {i \in 0..N : r[i] \in W}
  <2>1. 0 \in S
    BY <1>1, <1>8
  <2>2. ASSUME NEW i \in 0..(N - 1), i \in S PROVE i + 1 \in S
    <3>1. i + 1 \in 1..N /\ (i + 1) - 1 = i /\ i + 1 \in 0..N
      BY <1>1
    <3>2. r[i] \in W
      BY <2>2
    <3>3. r[i + 1] \in W
      BY ZenonT(40), <1>2, <1>8, <3>1, <3>2
    <3> QED BY <3>1, <3>3
  <2> HIDE DEF S
  <2>3. \A i \in 0..N : i \in S
    BY <1>1, <2>1, <2>2, Induction
  <2> QED BY <2>3 DEF S
<1> QED BY <1>8, <1>9 DEF r, W, N, e

(* The queue begins with the stages that no edge leads to, each once.      *)
LEMMA SeedsListed ==
  ASSUME NEW K, NEW keys \in Seq(K), Distinct(keys), NEW degree
  PROVE  LET q == Seeds(keys, degree)[Len(keys)]
         IN  /\ q \in Seq(K) /\ Distinct(q)
             /\ \A k : In(k, q) <=> In(k, keys) /\ degree[k] = 0
<1> DEFINE r == Seeds(keys, degree)
           N == Len(keys)
           Upto(i, k) == \E j \in 1..i : keys[j] = k
           Good(i) == Distinct(r[i]) /\ \A k : In(k, r[i]) <=> Upto(i, k) /\ degree[k] = 0
           S == {i \in 0..N : Good(i)}
<1>1. N \in Nat /\ \A i \in 1..N : keys[i] \in K
  OBVIOUS
<1>2. /\ \A i \in 0..N : r[i] \in Seq(K)
      /\ r[0] = <<>>
      /\ \A i \in 1..N : r[i] = IF degree[keys[i]] = 0 THEN Append(r[i - 1], keys[i]) ELSE r[i - 1]
  BY SeedsFacts
<1> HIDE DEF r, N
<1>3. 0 \in S
  <2>1. Distinct(<<>>) /\ \A k : ~In(k, <<>>) /\ ~Upto(0, k)
    BY DEF Distinct, In
  <2> QED BY <1>1, <1>2, <2>1
<1>4. ASSUME NEW i \in 0..(N - 1), i \in S PROVE i + 1 \in S
  <2> DEFINE x == keys[i + 1]
             a == r[i]
             b == r[i + 1]
  <2>1. i + 1 \in 1..N /\ i \in 0..N /\ (i + 1) - 1 = i /\ i + 1 \in 0..N /\ x \in K
    BY <1>1
  <2>2. Distinct(a) /\ \A k : In(k, a) <=> Upto(i, k) /\ degree[k] = 0
    BY <1>4
  <2>3. \A k : Upto(i + 1, k) <=> Upto(i, k) \/ k = x
    BY <1>1
  <2>4. ~Upto(i, x)
    BY <1>1, <2>1 DEF Distinct, N
  <2>5. b = IF degree[x] = 0 THEN Append(a, x) ELSE a
    BY <1>2, <2>1
  <2>6. a \in Seq(K)
    BY <1>2, <2>1
  <2> HIDE DEF x, a, b, Upto
  <2>7. CASE degree[x] # 0
    <3>1. Distinct(b) /\ \A k : In(k, b) <=> Upto(i + 1, k) /\ degree[k] = 0
      BY <2>2, <2>3, <2>5, <2>7
    <3> QED BY <2>1, <3>1 DEF b
  <2>8. CASE degree[x] = 0
    <3>1. ~In(x, a)
      BY <2>2, <2>4
    <3>2. b = Append(a, x)
      BY <2>5, <2>8
    <3>3. /\ Len(b) = Len(a) + 1 /\ Len(a) \in Nat /\ b[Len(a) + 1] = x
          /\ \A j \in 1..Len(a) : b[j] = a[j]
      BY <2>1, <2>6, <3>2, AppendFacts
    <3>4. \A j \in 1..Len(b) : j = Len(a) + 1 \/ j \in 1..Len(a)
      BY <3>3
    <3>5. \A k : In(k, b) <=> In(k, a) \/ k = x
      BY <3>3, <3>4 DEF In
    <3>6. Distinct(b)
      BY <2>2, <3>1, <3>3, <3>4 DEF Distinct, In
    <3>7. \A k : In(k, b) <=> Upto(i + 1, k) /\ degree[k] = 0
      BY <2>2, <2>3, <2>8, <3>5
    <3> QED BY <2>1, <3>6, <3>7 DEF b
  <2> QED BY <2>7, <2>8
<1> HIDE DEF S
<1>5. \A i \in 0..N : i \in S
  BY <1>1, <1>3, <1>4, Induction
<1>6. N \in S /\ N \in 0..N
  BY <1>1, <1>5
<1>7. \A k : Upto(N, k) <=> In(k, keys)
  BY DEF In, N
<1> HIDE DEF Upto
<1>8. Good(N) /\ r[N] \in Seq(K)
  BY <1>2, <1>6 DEF S
<1> QED BY <1>7, <1>8 DEF r, N

(* A list without repetition is no longer than there are stages, and as    *)
(* long only if it has all of them.                                        *)
LEMMA DistinctBound ==
  ASSUME NEW N \in Nat, NEW s \in Seq(1..N), Distinct(s)
  PROVE  /\ Len(s) \in 0..N
         /\ Len(s) = N <=> \A k \in 1..N : In(k, s)
<1> DEFINE D == 1..Len(s)
           K == 1..N
<1>1. Len(s) \in Nat /\ s \in [D -> K]
  OBVIOUS
<1>2. s \in Injection(D, K)
  BY <1>1 DEF Injection, IsInjective, Distinct
<1>3. IsFiniteSet(K) /\ Cardinality(K) = N /\ Cardinality(D) = Len(s)
  <2>1. \A n \in Nat : IsFiniteSet(1..n) /\ Cardinality(1..n) = IF 1 > n THEN 0 ELSE n - 1 + 1
    BY FS_Interval
  <2>2. \A n \in Nat : (IF 1 > n THEN 0 ELSE n - 1 + 1) = n
    OBVIOUS
  <2> QED BY <1>1, <2>1, <2>2
<1>4. s \in Surjection(D, K) <=> \A k \in 1..N : In(k, s)
  BY <1>1 DEF Surjection, In
<1> HIDE DEF D, K
<1>5. Cardinality(D) <= Cardinality(K) /\ (Cardinality(D) = Cardinality(K) <=> s \in Surjection(D, K))
  BY <1>2, <1>3, FS_Injection
<1> QED BY <1>1, <1>3, <1>4, <1>5

(* A turn leads from a state of the loop to another.                       *)
LEMMA TurnType ==
  ASSUME NEW t, IsGraph(t), NEW w \in Work(t)
  PROVE  KahnTurn(t, w) \in Work(t)
<1>1. CASE w.queue = <<>>
  BY <1>1 DEF KahnTurn
<1>2. CASE w.queue # <<>>
  <2> DEFINE x == Head(w.queue)
             p == Popped(w)
             N == Len(t.conns)
  <2>1. w.queue \in Seq(StagesOf(t)) /\ w.order \in Seq(StagesOf(t))
    BY DEF Work
  <2>2. x \in StagesOf(t) /\ Tail(w.queue) \in Seq(StagesOf(t)) /\ Append(w.order, x) \in Seq(StagesOf(t))
    BY <1>2, <2>1
  <2>3. p \in Work(t)
    BY <2>2 DEF Popped, Work
  <2>4. KahnTurn(t, w) = Relaxed(t, x, p)[N]
    BY <1>2 DEF KahnTurn, Popped
  <2>5. N \in 0..N
    BY DEF IsGraph
  <2> HIDE DEF p, x
  <2> QED BY <2>3, <2>4, <2>5, RelaxedFacts
<1> QED BY <1>1, <1>2

(* The loop begins with the invariant.                                     *)
LEMMA StartInv ==
  ASSUME NEW t, IsGraph(t), NEW keys, IsListing(t, keys)
  PROVE  KahnInv(t, KahnStart(t, keys))
<1> DEFINE q == Seeds(keys, InDegree(t))[Len(keys)]
           w == KahnStart(t, keys)
           K == StagesOf(t)
<1>1. w = [queue |-> q, degree |-> InDegree(t), order |-> <<>>]
  BY DEF KahnStart
<1>2. q \in Seq(K) /\ Distinct(q) /\ \A k : In(k, q) <=> In(k, keys) /\ InDegree(t)[k] = 0
  <2>1. keys \in Seq(K) /\ Distinct(keys)
    BY DEF IsListing
  <2> HIDE DEF K
  <2> QED BY <2>1, SeedsListed
<1> HIDE DEF q
<1>3. \A k \in K : InDegree(t)[k] = Cardinality(InEdges(t, k)) /\ InDegree(t)[k] \in Nat
  BY EdgesFinite, FS_CardinalityType DEF InDegree
<1>4. \A k \in K : InDegree(t)[k] = 0 <=> Seed(t, k)
  BY <1>3, EdgesFinite, FS_EmptySet DEF Seed
<1>5. InDegree(t) \in [K -> Int]
  BY <1>3 DEF InDegree
<1>6. w \in Work(t) /\ w.order = <<>> /\ w.degree = InDegree(t) /\ Listed(w) = q
  <2>1. <<>> \in Seq(K) /\ <<>> \o q = q
    BY <1>2
  <2> QED BY <1>1, <1>2, <1>5, <2>1 DEF Work, Listed
<1> HIDE DEF w
<1>7. \A k \in K : In(k, q) <=> w.degree[k] = 0
  BY <1>2, <1>6 DEF IsListing
<1>8. SeedsFirst(t, q)
  <2>1. \A a \in 1..Len(q) : Seed(t, q[a])
    <3> SUFFICES ASSUME NEW a \in 1..Len(q) PROVE Seed(t, q[a])
      OBVIOUS
    <3>1. q[a] \in K /\ In(q[a], q)
      BY <1>2 DEF In
    <3> QED BY <1>2, <1>4, <3>1
  <2> QED BY <2>1 DEF SeedsFirst
<1>9. \A k \in K : w.degree[k] = Cardinality(Left(t, w.order, k))
  <2>1. \A k \in K : Left(t, <<>>, k) = InEdges(t, k)
    BY DEF Left, In
  <2> QED BY <1>3, <1>6, <2>1
<1>10. Forward(t, w.order)
  BY <1>6 DEF Forward
<1> QED BY <1>2, <1>6, <1>7, <1>8, <1>9, <1>10 DEF KahnInv, ListInv, w

(* The recursion over the turns.                                           *)
LEMMA TurnsFacts ==
  ASSUME NEW t, IsGraph(t), NEW keys, IsListing(t, keys)
  PROVE  /\ KahnTurns(t, keys)[0] = KahnStart(t, keys)
         /\ \A n \in 1..Len(keys) :
              KahnTurns(t, keys)[n] = KahnTurn(t, KahnTurns(t, keys)[n - 1])
<1> DEFINE N == Len(keys)
           W == Work(t)
           e == KahnStart(t, keys)
           d == [i \in 1..N |-> [v \in W |-> KahnTurn(t, v)]]
           Def(f) == f = [n \in 0..N |-> IF n = 0 THEN e ELSE KahnTurn(t, f[n - 1])]
           r == KahnTurns(t, keys)
<1>1. N \in Nat /\ e \in W
  BY StartInv DEF IsListing, KahnInv, ListInv
<1>2. \A v \in W : KahnTurn(t, v) \in W
  BY TurnType
<1> HIDE DEF e, W, N
<1>3. d \in [1..N -> [W -> W]]
  BY <1>2
<1>4. PICK f : Computes(f, N, W, e, d)
  <2> HIDE DEF d
  <2> QED BY <1>1, <1>3, Recursion
<1>5. ASSUME NEW i \in 1..N
      PROVE  f[i] = KahnTurn(t, f[i - 1])
  <2>1. i # 0 /\ i \in 0..N /\ i - 1 \in 0..N
    BY <1>1
  <2>2. f[i] = d[i][f[i - 1]] /\ f[i - 1] \in W
    <3> HIDE DEF d
    <3> QED BY <1>4, <2>1 DEF Computes
  <2> QED BY <2>2
<1> HIDE DEF d
<1>6. Def(f)
  <2>1. f = [i \in 0..N |-> f[i]] /\ f[0] = e
    BY <1>4 DEF Computes
  <2>2. \A i \in 0..N : i # 0 => i \in 1..N
    BY <1>1
  <2> QED BY <1>5, <2>1, <2>2
<1>7. Def(r)
  <2>1. r = CHOOSE g : Def(g)
    BY DEF KahnTurns, e, N
  <2> HIDE DEF Def, r
  <2> QED BY <1>6, <2>1
<1> HIDE DEF r
<1>8. r[0] = e
  BY <1>1, <1>7
<1>9. ASSUME NEW i \in 1..N
      PROVE  r[i] = KahnTurn(t, r[i - 1])
  <2>1. i \in 0..N /\ i # 0
    BY <1>1
  <2> QED BY <1>7, <2>1
<1> QED BY <1>8, <1>9 DEF r, e, N

(* When the loop ends, the queue is empty.                                 *)
LEMMA KahnEnd ==
  ASSUME NEW t, IsGraph(t), NEW keys, IsListing(t, keys)
  PROVE  KahnInv(t, KahnFrom(t, keys)) /\ KahnFrom(t, keys).queue = <<>>
<1> DEFINE r == KahnTurns(t, keys)
           N == Len(keys)
           Good(n) == KahnInv(t, r[n]) /\ (Len(r[n].order) = n \/ r[n].queue = <<>>)
           S == {n \in 0..N : Good(n)}
<1>1. N \in Nat /\ N = Len(t.roles)
  BY DEF IsListing
<1>2. r[0] = KahnStart(t, keys) /\ \A n \in 1..N : r[n] = KahnTurn(t, r[n - 1])
  BY TurnsFacts
<1>3. r[0].order = <<>>
  BY <1>2 DEF KahnStart
<1> HIDE DEF r, N
<1>4. 0 \in S
  BY <1>1, <1>2, <1>3, StartInv
<1>5. ASSUME NEW n \in 0..(N - 1), n \in S PROVE n + 1 \in S
  <2>1. n + 1 \in 1..N /\ n + 1 \in 0..N /\ (n + 1) - 1 = n
    BY <1>1
  <2>2. r[n + 1] = KahnTurn(t, r[n])
    BY <1>2, <2>1
  <2> DEFINE w == r[n]
  <2>3. KahnInv(t, w) /\ (Len(w.order) = n \/ w.queue = <<>>)
    BY <1>5
  <2> HIDE DEF w
  <2>4. CASE w.queue = <<>>
    <3>1. KahnTurn(t, w) = w
      BY <2>4 DEF KahnTurn
    <3>2. Good(n + 1)
      BY <2>2, <2>3, <2>4, <3>1 DEF w
    <3> QED BY <2>1, <3>2
  <2>5. CASE w.queue # <<>>
    <3> DEFINE u == KahnTurn(t, w)
               x == Head(w.queue)
    <3>1. KahnInv(t, u) /\ u.order = Append(w.order, x)
      BY <2>3, <2>5, TurnStep
    <3>2. w.order \in Seq(StagesOf(t)) /\ w.queue \in Seq(StagesOf(t))
      BY <2>3 DEF KahnInv, ListInv, Work
    <3>3. x \in StagesOf(t)
      BY <2>5, <3>2
    <3> HIDE DEF u, x
    <3>4. Len(u.order) = n + 1
      <4> DEFINE o == w.order
      <4>1. u.order = Append(o, x) /\ o \in Seq(StagesOf(t)) /\ Len(o) = n
        BY <2>3, <2>5, <3>1, <3>2
      <4> HIDE DEF o
      <4> QED BY <3>3, <4>1, AppendFacts
    <3>5. Good(n + 1)
      BY <2>2, <3>1, <3>4 DEF u, w
    <3> QED BY <2>1, <3>5
  <2> QED BY <2>4, <2>5
<1> HIDE DEF S
<1>6. \A n \in 0..N : n \in S
  BY <1>1, <1>4, <1>5, Induction
<1>7. N \in S /\ KahnFrom(t, keys) = r[N]
  BY <1>1, <1>6 DEF KahnFrom, r, N
<1> DEFINE w == r[N]
<1>8. KahnInv(t, w) /\ (Len(w.order) = N \/ w.queue = <<>>)
  BY <1>7 DEF S
<1> HIDE DEF w
<1>9. w.queue = <<>>
  <2> DEFINE o == w.order
             q == w.queue
             K == StagesOf(t)
  <2> SUFFICES ASSUME q # <<>> PROVE FALSE
    OBVIOUS
  <2>1. o \in Seq(K) /\ q \in Seq(K) /\ Distinct(o \o q) /\ K = 1..N /\ Len(o) = N /\ q # <<>>
    BY <1>1, <1>8 DEF KahnInv, ListInv, Work, Listed, IsGraph, StagesOf
  <2> HIDE DEF o, q, K
  <2>2. o \o q \in Seq(K) /\ Len(o \o q) = Len(o) + Len(q) /\ Len(q) \in Nat \ {0}
    <3>1. o \in Seq(K) /\ q \in Seq(K) /\ q # <<>>
      BY <2>1
    <3>2. o \o q \in Seq(K)
      BY <3>1
    <3>3. Len(o \o q) = Len(o) + Len(q) /\ Len(q) \in Nat \ {0}
      BY <3>1, ConcatHead
    <3> QED BY <3>2, <3>3
  <2> DEFINE z == o \o q
  <2> HIDE DEF z
  <2>3. z \in Seq(1..N) /\ Distinct(z) /\ Len(z) = N + Len(q)
    BY <2>1, <2>2 DEF z
  <2>4. Len(z) \in 0..N
    BY <1>1, <2>3, DistinctBound
  <2> QED BY <1>1, <2>2, <2>3, <2>4
<1> QED BY <1>7, <1>8, <1>9 DEF w

(* The order takes every stage just when no stages feed each other.        *)
LEMMA OrderComplete ==
  ASSUME NEW t, IsGraph(t), NEW keys, IsListing(t, keys)
  PROVE  LET o == KahnFrom(t, keys).order
         IN  /\ o \in Seq(StagesOf(t)) /\ Distinct(o) /\ Forward(t, o) /\ SeedsFirst(t, o)
             /\ Len(o) = Len(t.roles) <=> \A k \in StagesOf(t) : In(k, o)
             /\ Len(o) = Len(t.roles) <=> IsAcyclic(t)
<1> DEFINE w == KahnFrom(t, keys)
           o == w.order
           K == StagesOf(t)
           N == Len(t.roles)
<1>1. KahnInv(t, w) /\ w.queue = <<>>
  BY KahnEnd
<1> HIDE DEF w
<1>2. o \in Seq(K) /\ w.degree \in [K -> Int] /\ N \in Nat /\ K = 1..N
  BY <1>1 DEF KahnInv, ListInv, Work, IsGraph, StagesOf
<1>3. Listed(w) = o
  BY <1>1, <1>2 DEF Listed
<1>4. /\ Distinct(o) /\ SeedsFirst(t, o) /\ Forward(t, o)
      /\ \A k \in K : In(k, o) <=> w.degree[k] = 0
      /\ \A k \in K : w.degree[k] = Cardinality(Left(t, o, k))
  BY <1>1, <1>3 DEF KahnInv, ListInv
<1> HIDE DEF o, K, N
<1>5. Len(o) = N <=> \A k \in K : In(k, o)
  BY <1>2, <1>4, DistinctBound
<1>6. ASSUME IsAcyclic(t), NEW x \in K, ~In(x, o) PROVE FALSE
  <2> DEFINE S == {k \in K : ~In(k, o)}
  <2>1. S \in SUBSET StagesOf(t) /\ S # {}
    BY <1>6 DEF K
  <2>2. PICK k \in S : \A e \in EdgesOf(t) : e[2] = k => e[1] \notin S
    <3> HIDE DEF S
    <3> QED BY <1>6, <2>1 DEF IsAcyclic
  <2>3. Left(t, o, k) = {}
    <3> SUFFICES ASSUME NEW j \in DOMAIN t.conns, t.conns[j].to = k, ~In(t.conns[j].from, o)
                 PROVE  FALSE
      BY DEF Left, InEdges
    <3> DEFINE e == <<t.conns[j].from, t.conns[j].to>>
    <3>1. e \in EdgesOf(t) /\ e[2] = k /\ e[1] = t.conns[j].from
      BY DEF EdgesOf
    <3>2. t.conns[j].from \in S
      BY DEF IsGraph, K
    <3> HIDE DEF e, S
    <3> QED BY <2>2, <3>1, <3>2
  <2>4. w.degree[k] = 0
    BY <1>4, <2>3, FS_EmptySet
  <2> QED BY <1>4, <2>4
<1>7. ASSUME \A k \in K : In(k, o) PROVE IsAcyclic(t)
  <2> SUFFICES ASSUME NEW S \in SUBSET StagesOf(t), S # {}
               PROVE  \E k \in S : \A e \in EdgesOf(t) : e[2] = k => e[1] \notin S
    BY DEF IsAcyclic
  <2> DEFINE P == {a \in 1..Len(o) : o[a] \in S}
  <2>1. P \in SUBSET Nat /\ P # {}
    <3>1. PICK k \in S : In(k, o)
      BY <1>7 DEF K
    <3> QED BY <3>1 DEF In
  <2>2. PICK m \in P : \A n \in P : m <= n
    <3> HIDE DEF P
    <3> QED BY <2>1, LeastNatural
  <2>3. m \in 1..Len(o) /\ o[m] \in S /\ Len(o) \in Nat
    BY <1>2
  <2>4. ASSUME NEW e \in EdgesOf(t), e[2] = o[m], e[1] \in S PROVE FALSE
    <3>1. PICK j \in DOMAIN t.conns : e = <<t.conns[j].from, t.conns[j].to>>
      BY DEF EdgesOf
    <3>2. t.conns[j].to = o[m] /\ t.conns[j].from \in S
      BY <2>4, <3>1
    <3>3. PICK a \in 1..(m - 1) : o[a] = t.conns[j].from
      BY <1>4, <2>3, <3>2 DEF Forward
    <3>4. a \in P /\ a < m
      BY <2>3, <3>2, <3>3
    <3> QED BY <2>2, <2>3, <3>4
  <2> QED BY <2>3, <2>4
<1> QED BY <1>2, <1>4, <1>5, <1>6, <1>7 DEF o, w, K, N
-----------------------------------------------------------------------------
(* The marking from the sources.                                           *)

(* A spread stays among the stages and loses none.                         *)
LEMMA SpreadFacts ==
  ASSUME NEW t, IsGraph(t), NEW M \in SUBSET StagesOf(t)
  PROVE  Spread(t, M) \in SUBSET StagesOf(t) /\ M \subseteq Spread(t, M)
BY DEF Spread, IsGraph

(* The recursion over the spreads.                                         *)
LEMMA MarkingFacts ==
  ASSUME NEW t, IsGraph(t)
  PROVE  /\ \A n \in 0..Len(t.roles) : Marking(t)[n] \in SUBSET StagesOf(t)
         /\ Marking(t)[0] = Sources(t)
         /\ \A n \in 1..Len(t.roles) : Marking(t)[n] = Spread(t, Marking(t)[n - 1])
<1> DEFINE N == Len(t.roles)
           W == SUBSET StagesOf(t)
           e == Sources(t)
           d == [i \in 1..N |-> [v \in W |-> Spread(t, v)]]
           Def(f) == f = [n \in 0..N |-> IF n = 0 THEN e ELSE Spread(t, f[n - 1])]
           r == Marking(t)
<1>1. N \in Nat /\ e \in W
  BY DEF IsGraph, Sources
<1>2. \A v \in W : Spread(t, v) \in W
  BY SpreadFacts
<1> HIDE DEF e, W, N
<1>3. d \in [1..N -> [W -> W]]
  BY <1>2
<1>4. PICK f : Computes(f, N, W, e, d)
  <2> HIDE DEF d
  <2> QED BY <1>1, <1>3, Recursion
<1>5. ASSUME NEW i \in 1..N
      PROVE  f[i] = Spread(t, f[i - 1])
  <2>1. i # 0 /\ i \in 0..N /\ i - 1 \in 0..N
    BY <1>1
  <2>2. f[i] = d[i][f[i - 1]] /\ f[i - 1] \in W
    <3> HIDE DEF d
    <3> QED BY <1>4, <2>1 DEF Computes
  <2> QED BY <2>2
<1> HIDE DEF d
<1>6. Def(f)
  <2>1. f = [i \in 0..N |-> f[i]] /\ f[0] = e
    BY <1>4 DEF Computes
  <2>2. \A i \in 0..N : i # 0 => i \in 1..N
    BY <1>1
  <2> QED BY <1>5, <2>1, <2>2
<1>7. Def(r)
  <2>1. r = CHOOSE g : Def(g)
    BY DEF Marking, e, N
  <2> HIDE DEF Def, r
  <2> QED BY <1>6, <2>1
<1> HIDE DEF r
<1>8. r[0] = e
  BY <1>1, <1>7
<1>9. ASSUME NEW i \in 1..N
      PROVE  r[i] = Spread(t, r[i - 1])
  <2>1. i \in 0..N /\ i # 0
    BY <1>1
  <2> QED BY <1>7, <2>1
<1>10. \A n \in 0..N : r[n] \in W
  <2> DEFINE S == {n \in 0..N : r[n] \in W}
  <2>1. 0 \in S
    BY <1>1, <1>8
  <2>2. ASSUME NEW n \in 0..(N - 1), n \in S PROVE n + 1 \in S
    <3>1. n + 1 \in 1..N /\ n + 1 \in 0..N /\ (n + 1) - 1 = n
      BY <1>1
    <3>2. r[n + 1] = Spread(t, r[n])
      BY <1>9, <3>1
    <3> QED BY <1>2, <2>2, <3>1, <3>2
  <2> HIDE DEF S
  <2>3. \A n \in 0..N : n \in S
    BY <1>1, <2>1, <2>2, Induction
  <2> QED BY <2>3 DEF S
<1> QED BY <1>8, <1>9, <1>10 DEF r, e, N, W

(* A set of stages that has the sources and what its members feed.         *)
Closed(t, S) == Sources(t) \subseteq S /\ \A e \in EdgesOf(t) : e[1] \in S => e[2] \in S

(* What is fed is in every closed set.                                     *)
LEMMA FedIsClosed ==
  ASSUME NEW t, NEW k
  PROVE  IsFed(t, k) <=> \A S \in SUBSET StagesOf(t) : Closed(t, S) => k \in S
<1>1. \A S : Sources(t) \subseteq S <=> \A j \in StagesOf(t) : t.roles[j] = "Source" => j \in S
  BY DEF Sources
<1> QED BY <1>1 DEF IsFed, Closed

(* A set that no spread enlarges has what its members feed.                *)
LEMMA SpreadClosed ==
  ASSUME NEW t, NEW M
  PROVE  Spread(t, M) \subseteq M <=> \A e \in EdgesOf(t) : e[1] \in M => e[2] \in M
<1> DEFINE Fed == \A j \in DOMAIN t.conns : t.conns[j].from \in M => t.conns[j].to \in M
<1>1. Spread(t, M) \subseteq M <=> Fed
  BY DEF Spread
<1>2. Fed <=> \A e \in EdgesOf(t) : e[1] \in M => e[2] \in M
  <2>1. ASSUME Fed, NEW e \in EdgesOf(t), e[1] \in M PROVE e[2] \in M
    <3>1. PICK j \in DOMAIN t.conns : e = <<t.conns[j].from, t.conns[j].to>>
      BY DEF EdgesOf
    <3> QED BY <2>1, <3>1
  <2>2. ASSUME \A e \in EdgesOf(t) : e[1] \in M => e[2] \in M,
               NEW j \in DOMAIN t.conns, t.conns[j].from \in M
        PROVE  t.conns[j].to \in M
    <3> DEFINE e == <<t.conns[j].from, t.conns[j].to>>
    <3>1. e \in EdgesOf(t) /\ e[1] = t.conns[j].from /\ e[2] = t.conns[j].to
      BY DEF EdgesOf
    <3> HIDE DEF e
    <3> QED BY <2>2, <3>1
  <2> QED BY <2>1, <2>2
<1> QED BY <1>1, <1>2

(* What is marked is what a path from a source leads to.                   *)
LEMMA ReachableIsFed ==
  ASSUME NEW t, IsGraph(t)
  PROVE  Reachable(t) = {k \in StagesOf(t) : IsFed(t, k)}
<1> DEFINE N == Len(t.roles)
           K == StagesOf(t)
           r == Marking(t)
<1>1. N \in Nat /\ K = 1..N
  BY DEF IsGraph, StagesOf
<1>2. /\ \A n \in 0..N : r[n] \in SUBSET K
      /\ r[0] = Sources(t)
      /\ \A n \in 1..N : r[n] = Spread(t, r[n - 1])
  BY MarkingFacts
<1> HIDE DEF r, N
<1>3. Reachable(t) = r[N] /\ N \in 0..N
  BY <1>1 DEF Reachable, r, N
<1>4. ASSUME NEW A \in SUBSET K, Closed(t, A) PROVE r[N] \subseteq A
  <2> DEFINE S == {n \in 0..N : r[n] \subseteq A}
  <2>1. 0 \in S
    BY <1>1, <1>2, <1>4 DEF Closed
  <2>2. ASSUME NEW n \in 0..(N - 1), n \in S PROVE n + 1 \in S
    <3>1. n + 1 \in 1..N /\ n + 1 \in 0..N /\ (n + 1) - 1 = n
      BY <1>1
    <3>2. r[n + 1] = Spread(t, r[n]) /\ r[n] \subseteq A
      BY <1>2, <2>2, <3>1
    <3>3. Spread(t, A) \subseteq A
      BY <1>4, SpreadClosed DEF Closed
    <3>4. Spread(t, r[n]) \subseteq Spread(t, A)
      BY <3>2 DEF Spread
    <3> QED BY <3>1, <3>2, <3>3, <3>4
  <2> HIDE DEF S
  <2>3. \A n \in 0..N : n \in S
    BY <1>1, <2>1, <2>2, Induction
  <2> QED BY <1>3, <2>3 DEF S
<1>5. /\ \A n \in 0..N : IsFiniteSet(r[n]) /\ Cardinality(r[n]) \in Nat
      /\ IsFiniteSet(K) /\ Cardinality(K) = N
  <2>1. IsFiniteSet(1..N) /\ Cardinality(1..N) = IF 1 > N THEN 0 ELSE N - 1 + 1
    BY <1>1, FS_Interval
  <2>2. IsFiniteSet(K) /\ Cardinality(K) = N
    BY <1>1, <2>1
  <2> HIDE DEF K
  <2>3. \A n \in 0..N : IsFiniteSet(r[n])
    BY <1>2, <2>2, FS_Subset
  <2> QED BY <2>2, <2>3, FS_CardinalityType
<1> HIDE DEF K
<1>6. Sources(t) \subseteq r[N] /\ Spread(t, r[N]) = r[N]
  <2> DEFINE Good(n) == /\ Sources(t) \subseteq r[n]
                        /\ Cardinality(r[n]) >= n \/ Spread(t, r[n]) = r[n]
             S == {n \in 0..N : Good(n)}
  <2>1. 0 \in S
    BY <1>1, <1>2, <1>5
  <2>2. ASSUME NEW n \in 0..(N - 1), n \in S PROVE n + 1 \in S
    <3> DEFINE a == r[n]
               b == r[n + 1]
    <3>1. n + 1 \in 1..N /\ n \in 0..N /\ n + 1 \in 0..N /\ (n + 1) - 1 = n /\ n \in Nat
      BY <1>1
    <3>2. b = Spread(t, a)
      BY <1>2, <3>1
    <3>3. a \subseteq b
      BY <1>2, <3>1, <3>2, SpreadFacts DEF K
    <3>4. Sources(t) \subseteq a /\ (Cardinality(a) >= n \/ Spread(t, a) = a)
      BY <2>2
    <3>5. /\ IsFiniteSet(a) /\ IsFiniteSet(b) /\ Cardinality(a) \in Nat /\ Cardinality(b) \in Nat
      BY <1>5, <3>1
    <3> HIDE DEF a, b
    <3>6. CASE b = a
      <4>1. Sources(t) \subseteq b /\ Spread(t, b) = b
        BY <3>2, <3>4, <3>6
      <4> QED BY <3>1, <4>1 DEF b
    <3>7. CASE b # a
      <4>1. Cardinality(a) <= Cardinality(b) /\ Cardinality(a) # Cardinality(b)
        BY <3>3, <3>5, <3>7, FS_Subset
      <4>2. Cardinality(a) >= n
        BY <3>2, <3>4, <3>7
      <4>3. Cardinality(b) >= n + 1
        BY <3>1, <3>5, <4>1, <4>2
      <4>4. Sources(t) \subseteq b
        BY <3>3, <3>4
      <4> QED BY <3>1, <4>3, <4>4 DEF b
    <3> QED BY <3>6, <3>7
  <2> HIDE DEF S
  <2>3. \A n \in 0..N : n \in S
    BY <1>1, <2>1, <2>2, Induction
  <2>4. Good(N)
    BY <1>3, <2>3 DEF S
  <2>5. CASE Cardinality(r[N]) >= N
    <3>1. r[N] \in SUBSET K /\ Cardinality(r[N]) \in Nat
      BY <1>2, <1>3, <1>5
    <3>2. r[N] = K
      <4>1. Cardinality(r[N]) <= Cardinality(K)
        BY <1>5, <3>1, FS_Subset
      <4>2. Cardinality(r[N]) = Cardinality(K)
        BY <1>1, <1>5, <2>5, <3>1, <4>1
      <4> QED BY <1>5, <3>1, <4>2, FS_Subset
    <3>3. Spread(t, r[N]) \in SUBSET K /\ r[N] \subseteq Spread(t, r[N])
      BY <3>1, SpreadFacts DEF K
    <3> QED BY <2>4, <3>2, <3>3
  <2> QED BY <2>4, <2>5
<1>7. Closed(t, r[N]) /\ r[N] \in SUBSET K
  <2>1. Spread(t, r[N]) \subseteq r[N]
    BY <1>6
  <2> QED BY <1>2, <1>3, <1>6, <2>1, SpreadClosed DEF Closed
<1>8. \A k : IsFed(t, k) => k \in r[N]
  BY <1>7, FedIsClosed DEF Closed, K
<1>9. ASSUME NEW k \in r[N] PROVE k \in K /\ IsFed(t, k)
  BY <1>4, <1>7, FedIsClosed DEF Closed, K
<1> QED BY <1>3, <1>8, <1>9 DEF K
-----------------------------------------------------------------------------
(* validate() and the order of the stages.                                 *)

(* The stages and the connections are numbered from 1.                     *)
Numbered(t) ==
  /\ t.roles \in Seq(RoleName)
  /\ Len(t.roles) \in Nat /\ DOMAIN t.roles = 1..Len(t.roles)
  /\ Len(t.conns) \in Nat /\ DOMAIN t.conns = 1..Len(t.conns)

(* The stages in the order of their indices.                               *)
LEMMA KeysListing ==
  ASSUME NEW t, Numbered(t)
  PROVE  IsListing(t, [k \in StagesOf(t) |-> k])
<1> DEFINE N == Len(t.roles)
           keys == [k \in 1..N |-> k]
<1>1. N \in Nat /\ StagesOf(t) = 1..N
  BY DEF Numbered, StagesOf
<1>2. keys \in Seq(1..N) /\ Len(keys) = N
  BY <1>1
<1>3. \A i \in 1..N : keys[i] = i
  OBVIOUS
<1> HIDE DEF keys, N
<1>4. Distinct(keys) /\ \A k \in 1..N : In(k, keys)
  BY <1>2, <1>3 DEF Distinct, In
<1> QED BY <1>1, <1>2, <1>4 DEF IsListing, keys, N

(* A connection is an edge.                                                *)
LEMMA EdgeOfConn ==
  ASSUME NEW t, NEW j \in DOMAIN t.conns
  PROVE  <<t.conns[j].from, t.conns[j].to>> \in EdgesOf(t)
BY DEF EdgesOf

(* An edge is a connection.                                                *)
LEMMA ConnOfEdge ==
  ASSUME NEW t, NEW e \in EdgesOf(t)
  PROVE  \E j \in DOMAIN t.conns : e[1] = t.conns[j].from /\ e[2] = t.conns[j].to
<1>1. PICK j \in DOMAIN t.conns : e = <<t.conns[j].from, t.conns[j].to>>
  BY DEF EdgesOf
<1> QED BY <1>1

(* A stage has inputs or outputs when an edge leads to it or from it.      *)
LEMMA EdgesAt ==
  ASSUME NEW t, NEW k
  PROVE  /\ InEdges(t, k) = {} <=> \A e \in EdgesOf(t) : e[2] # k
         /\ OutEdges(t, k) = {} <=> \A e \in EdgesOf(t) : e[1] # k
<1>1. ASSUME NEW e \in EdgesOf(t)
      PROVE  (e[2] = k => InEdges(t, k) # {}) /\ (e[1] = k => OutEdges(t, k) # {})
  <2>1. PICK j \in DOMAIN t.conns : e[1] = t.conns[j].from /\ e[2] = t.conns[j].to
    BY ConnOfEdge
  <2> QED BY <2>1 DEF InEdges, OutEdges
<1>2. ASSUME NEW j \in DOMAIN t.conns
      PROVE  \E e \in EdgesOf(t) : e[1] = t.conns[j].from /\ e[2] = t.conns[j].to
  <2> DEFINE e == <<t.conns[j].from, t.conns[j].to>>
  <2>1. e \in EdgesOf(t) /\ e[1] = t.conns[j].from /\ e[2] = t.conns[j].to
    BY EdgeOfConn
  <2> HIDE DEF e
  <2> QED BY <2>1
<1> QED BY <1>1, <1>2 DEF InEdges, OutEdges

(* Connections that join stages are edges that do.                         *)
LEMMA GraphEdges ==
  ASSUME NEW t, Numbered(t)
  PROVE  IsGraph(t) <=> EdgesOf(t) \subseteq StagesOf(t) \X StagesOf(t)
<1>1. ASSUME IsGraph(t), NEW e \in EdgesOf(t) PROVE e \in StagesOf(t) \X StagesOf(t)
  <2>1. PICK j \in DOMAIN t.conns : e = <<t.conns[j].from, t.conns[j].to>>
    BY DEF EdgesOf
  <2> QED BY <1>1, <2>1 DEF IsGraph
<1>2. ASSUME EdgesOf(t) \subseteq StagesOf(t) \X StagesOf(t), NEW j \in DOMAIN t.conns
      PROVE  t.conns[j].from \in StagesOf(t) /\ t.conns[j].to \in StagesOf(t)
  <2>1. <<t.conns[j].from, t.conns[j].to>> \in StagesOf(t) \X StagesOf(t)
    BY <1>2, EdgeOfConn
  <2> QED BY <2>1
<1> QED BY <1>1, <1>2 DEF IsGraph, Numbered

(* No stage of an acyclic topology feeds itself.                           *)
LEMMA NoSelfLoop ==
  ASSUME NEW t, IsGraph(t), IsAcyclic(t), NEW j \in DOMAIN t.conns
  PROVE  t.conns[j].from # t.conns[j].to
<1> SUFFICES ASSUME t.conns[j].from = t.conns[j].to PROVE FALSE
  OBVIOUS
<1> DEFINE x == t.conns[j].from
           e == <<t.conns[j].from, t.conns[j].to>>
           S == {x}
<1>1. S \in SUBSET StagesOf(t) /\ S # {}
  BY DEF IsGraph
<1>2. e \in EdgesOf(t) /\ e[1] = x /\ e[2] = x
  BY EdgeOfConn
<1> HIDE DEF e, S, x
<1>3. PICK k \in S : \A f \in EdgesOf(t) : f[2] = k => f[1] \notin S
  BY <1>1 DEF IsAcyclic
<1> QED BY <1>2, <1>3 DEF S

(* The conditions that validate() checks, one after the other.             *)
LEMMA ValidateOk ==
  ASSUME NEW t
  PROVE  Validate(t) = "Ok" <=>
           /\ t.roles # <<>>
           /\ \E k \in StagesOf(t) : t.roles[k] = "Source"
           /\ \E k \in StagesOf(t) : t.roles[k] = "Sink"
           /\ \A i \in DOMAIN t.conns :
                /\ t.conns[i].from \in StagesOf(t) /\ t.conns[i].to \in StagesOf(t)
                /\ t.conns[i].from # t.conns[i].to
           /\ \A k \in StagesOf(t) : /\ t.roles[k] = "Source" => InEdges(t, k) = {}
                                     /\ t.roles[k] = "Sink" => OutEdges(t, k) = {}
           /\ Len(TopologicalOrder(t)) = Len(t.roles)
           /\ Reachable(t) = StagesOf(t)
BY DEF Validate

(* validate() accepts exactly the flows.                                   *)
LEMMA ValidateIsFlow ==
  ASSUME NEW t, Numbered(t)
  PROVE  Validate(t) = "Ok" <=> IsFlow(t)
<1> DEFINE K == StagesOf(t)
           keys == [k \in K |-> k]
<1>1. ASSUME IsGraph(t)
      PROVE  /\ Len(TopologicalOrder(t)) = Len(t.roles) <=> IsAcyclic(t)
             /\ Reachable(t) = K <=> \A k \in K : IsFed(t, k)
  <2>1. IsListing(t, keys)
    BY KeysListing
  <2>2. TopologicalOrder(t) = KahnFrom(t, keys).order
    BY DEF TopologicalOrder, Kahn
  <2> HIDE DEF keys
  <2>3. Len(TopologicalOrder(t)) = Len(t.roles) <=> IsAcyclic(t)
    BY <1>1, <2>1, <2>2, OrderComplete
  <2>4. Reachable(t) = {k \in K : IsFed(t, k)}
    BY <1>1, ReachableIsFed
  <2> QED BY <2>3, <2>4
<1>2. \A k \in K : t.roles[k] = "Source" => IsFed(t, k)
  BY FedIsClosed DEF Closed, Sources
<1>3. ASSUME Validate(t) = "Ok" PROVE IsFlow(t)
  <2>1. IsGraph(t)
    BY <1>3, ValidateOk DEF IsGraph, Numbered
  <2>2. IsAcyclic(t) /\ \A k \in K : IsFed(t, k)
    BY <1>1, <1>3, <2>1, ValidateOk
  <2>3. \A k \in K : /\ t.roles[k] = "Source" => \A e \in EdgesOf(t) : e[2] # k
                     /\ t.roles[k] = "Sink" => \A e \in EdgesOf(t) : e[1] # k
    <3>1. \A k \in K : /\ t.roles[k] = "Source" => InEdges(t, k) = {}
                       /\ t.roles[k] = "Sink" => OutEdges(t, k) = {}
      BY <1>3, ValidateOk
    <3> QED BY <3>1, EdgesAt
  <2> QED BY <1>3, <2>1, <2>2, <2>3, ValidateOk, GraphEdges DEF IsFlow
<1>4. ASSUME IsFlow(t) PROVE Validate(t) = "Ok"
  <2>1. IsGraph(t) /\ IsAcyclic(t)
    BY <1>4, GraphEdges DEF IsFlow
  <2>2. \A k \in K : IsFed(t, k)
    BY <1>2, <1>4 DEF IsFlow
  <2>3. Len(TopologicalOrder(t)) = Len(t.roles) /\ Reachable(t) = K
    BY <1>1, <2>1, <2>2
  <2>4. \A k \in K : /\ t.roles[k] = "Source" => InEdges(t, k) = {}
                     /\ t.roles[k] = "Sink" => OutEdges(t, k) = {}
    BY <1>4, EdgesAt DEF IsFlow
  <2>5. /\ \E k \in K : t.roles[k] = "Source"
        /\ \E k \in K : t.roles[k] = "Sink"
    BY <1>4 DEF IsFlow
  <2>6. t.roles # <<>>
    BY <2>5 DEF StagesOf
  <2>7. \A i \in DOMAIN t.conns :
          /\ t.conns[i].from \in StagesOf(t) /\ t.conns[i].to \in StagesOf(t)
          /\ t.conns[i].from # t.conns[i].to
    BY <2>1, NoSelfLoop DEF IsGraph
  <2> QED BY <2>3, <2>4, <2>5, <2>6, <2>7, ValidateOk
<1> QED BY <1>3, <1>4

(* A stage that is fed and is not a source has an input.                   *)
LEMMA FedHasInput ==
  ASSUME NEW t, IsGraph(t), NEW y \in StagesOf(t), IsFed(t, y), t.roles[y] # "Source"
  PROVE  InEdges(t, y) # {}
<1> DEFINE S == StagesOf(t) \ {y}
<1>1. S \in SUBSET StagesOf(t) /\ Sources(t) \subseteq S /\ y \notin S
  BY DEF Sources
<1> HIDE DEF S
<1>2. PICK e \in EdgesOf(t) : e[1] \in S /\ e[2] \notin S
  BY <1>1, FedIsClosed DEF Closed
<1>3. PICK c \in DOMAIN t.conns : e[1] = t.conns[c].from /\ e[2] = t.conns[c].to
  BY ConnOfEdge
<1>4. t.conns[c].to = y
  BY <1>2, <1>3 DEF IsGraph, S
<1>5. c \in InEdges(t, y)
  BY <1>4 DEF InEdges
<1> QED BY <1>5

(* The order of the stages of a flow.                                      *)
LEMMA OrderOfFlow ==
  ASSUME NEW t, Numbered(t), IsFlow(t)
  PROVE  LET o == TopologicalOrder(t)
         IN  /\ o \in Seq(StagesOf(t)) /\ Len(o) = Len(t.roles)
             /\ \A k \in StagesOf(t) : In(k, o)
             /\ \A i, j \in DOMAIN o :
                  /\ <<o[i], o[j]>> \in EdgesOf(t) => i < j
                  /\ t.roles[o[i]] = "Source" /\ t.roles[o[j]] # "Source" => i < j
<1> DEFINE K == StagesOf(t)
           keys == [k \in K |-> k]
           o == TopologicalOrder(t)
<1>1. IsGraph(t) /\ IsAcyclic(t)
  BY GraphEdges DEF IsFlow
<1>2. /\ o \in Seq(K) /\ Distinct(o) /\ Forward(t, o) /\ SeedsFirst(t, o)
      /\ Len(o) = Len(t.roles) /\ \A k \in K : In(k, o)
  <2>1. IsListing(t, keys)
    BY KeysListing
  <2>2. o = KahnFrom(t, keys).order
    BY DEF TopologicalOrder, Kahn
  <2> HIDE DEF keys, o
  <2> QED BY <1>1, <2>1, <2>2, OrderComplete
<1> HIDE DEF o
<1>3. Len(o) \in Nat /\ DOMAIN o = 1..Len(o) /\ \A i \in 1..Len(o) : o[i] \in K
  BY <1>2
<1>4. ASSUME NEW i \in 1..Len(o), NEW j \in 1..Len(o), <<o[i], o[j]>> \in EdgesOf(t)
      PROVE  i < j
  <2>1. PICK c \in DOMAIN t.conns : o[i] = t.conns[c].from /\ o[j] = t.conns[c].to
    <3> DEFINE e == <<o[i], o[j]>>
    <3>1. e \in EdgesOf(t) /\ e[1] = o[i] /\ e[2] = o[j]
      BY <1>4
    <3> HIDE DEF e
    <3> QED BY <3>1, ConnOfEdge
  <2>2. PICK a \in 1..(j - 1) : o[a] = t.conns[c].from
    BY <1>2, <2>1 DEF Forward
  <2>3. a \in 1..Len(o) /\ a < j
    BY <1>3
  <2>4. a = i
    BY <1>2, <2>1, <2>2, <2>3 DEF Distinct
  <2> QED BY <2>3, <2>4
<1>5. ASSUME NEW i \in 1..Len(o), NEW j \in 1..Len(o),
             t.roles[o[i]] = "Source", t.roles[o[j]] # "Source"
      PROVE  i < j
  <2>1. Seed(t, o[i])
    BY <1>3, <1>5, EdgesAt DEF IsFlow, Seed
  <2>2. ~Seed(t, o[j])
    <3>1. o[j] \in K /\ IsFed(t, o[j])
      BY <1>3, <1>5 DEF IsFlow
    <3> QED BY <1>1, <1>5, <3>1, FedHasInput DEF Seed
  <2>3. ~(j < i)
    BY <1>2, <2>1, <2>2 DEF SeedsFirst
  <2>4. i # j
    BY <1>5
  <2> QED BY <2>3, <2>4
<1> QED BY <1>2, <1>3, <1>4, <1>5 DEF o
-----------------------------------------------------------------------------
(* The pipeline builder.                                                   *)

(* A definition is numbered from 1.                                        *)
LEMMA DefinitionNumbered ==
  ASSUME NEW d \in Definition
  PROVE  Numbered(d)
<1>1. d.roles \in Seq(RoleName) /\ d.conns \in Seq(Connection)
  BY DEF Definition
<1> QED BY <1>1 DEF Numbered

(* Names that are resolved without an error are those of stages.           *)
LEMMA NodeIndexFacts ==
  ASSUME NEW d, NEW n, Named(d, n), StagesOf(d) \subseteq Nat,
         \A j, k \in StagesOf(d) : d.names[j] = d.names[k] => j = k
  PROVE  NodeIndex(d, n) \in StagesOf(d)
<1>1. PICK k \in StagesOf(d) : d.names[k] = n
  BY DEF Named
<1>2. \A j \in StagesOf(d) : d.names[j] = n => j <= k
  <2>1. \A j \in StagesOf(d) : d.names[j] = n => j = k
    BY <1>1
  <2>2. k \in Nat
    OBVIOUS
  <2> QED BY <2>1, <2>2
<1> QED BY <1>1, <1>2 DEF NodeIndex

(* What is built without construction errors is a graph of stages.         *)
LEMMA ResolvedIsGraph ==
  ASSUME NEW d \in Definition, ConstructionErrors(d) = {}
  PROVE  LET t == ResolvedEdges(d)
         IN  t.roles = d.roles /\ Numbered(t) /\ IsGraph(t)
<1> DEFINE t == ResolvedEdges(d)
           N == Len(d.conns)
           Resolved(c) == [c EXCEPT !.from = NodeIndex(d, c.from), !.to = NodeIndex(d, c.to)]
           C == [i \in DOMAIN d.conns |-> Resolved(d.conns[i])]
<1>1. /\ d.roles \in Seq(RoleName) /\ d.conns \in Seq(Connection)
      /\ N \in Nat /\ DOMAIN d.conns = 1..N
      /\ StagesOf(d) = 1..Len(d.roles) /\ Len(d.roles) \in Nat
      /\ \A i \in 1..N : d.conns[i] \in Connection
  BY DEF Definition, StagesOf
<1>2. t.roles = d.roles /\ t.conns = C
  <2>1. \A i \in DOMAIN d.conns :
          [d.conns[i] EXCEPT !.from = NodeIndex(d, @), !.to = NodeIndex(d, @)] = Resolved(d.conns[i])
    BY <1>1 DEF Connection
  <2>2. t = [d EXCEPT !.conns = C]
    BY <2>1 DEF ResolvedEdges
  <2> HIDE DEF t, C
  <2> QED BY <2>2 DEF Definition
<1>3. ASSUME NEW i \in 1..N
      PROVE  Resolved(d.conns[i]).from \in StagesOf(d) /\ Resolved(d.conns[i]).to \in StagesOf(d)
  <2> DEFINE c == d.conns[i]
  <2>1. c \in Connection
    BY <1>1
  <2>2. Named(d, c.from) /\ Named(d, c.to)
    BY <1>1 DEF ConstructionErrors, When
  <2>3. \A j, k \in StagesOf(d) : d.names[j] = d.names[k] => j = k
    BY DEF ConstructionErrors, When
  <2>4. NodeIndex(d, c.from) \in StagesOf(d) /\ NodeIndex(d, c.to) \in StagesOf(d)
    <3>1. StagesOf(d) \subseteq Nat
      BY <1>1
    <3> HIDE DEF c
    <3> QED BY <2>2, <2>3, <3>1, NodeIndexFacts
  <2> HIDE DEF c
  <2>5. Resolved(c).from = NodeIndex(d, c.from) /\ Resolved(c).to = NodeIndex(d, c.to)
    BY <2>1 DEF Connection
  <2> QED BY <2>4, <2>5 DEF c
<1> HIDE DEF t, Resolved
<1>4. Len(C) = N /\ DOMAIN C = 1..N /\ \A i \in 1..N : C[i] = Resolved(d.conns[i])
  BY <1>1
<1> HIDE DEF C, N
<1>5. StagesOf(t) = StagesOf(d)
  BY <1>2 DEF StagesOf
<1>6. \A i \in 1..N : t.conns[i].from \in StagesOf(t) /\ t.conns[i].to \in StagesOf(t)
  BY <1>2, <1>3, <1>4, <1>5
<1>7. IsGraph(t)
  BY <1>1, <1>2, <1>4, <1>6 DEF IsGraph, StagesOf
<1>8. Numbered(t)
  BY <1>1, <1>2, <1>7 DEF Numbered, IsGraph
<1> QED BY <1>2, <1>7, <1>8 DEF t

(* The conditions under which the validation finds no error.               *)
LEMMA NoErrors ==
  ASSUME NEW t, ValidateTopology(t).errors = {}
  PROVE  /\ t.roles # <<>>
         /\ \E k \in StagesOf(t) : t.roles[k] = "Source"
         /\ \E k \in StagesOf(t) : t.roles[k] = "Sink"
         /\ \A k \in StagesOf(t) : RoleConsistent(t, k)
         /\ Len(TopologicalOrder(t)) = Len(t.roles)
         /\ Reachable(t) = StagesOf(t)
         /\ ValidateTopology(t).order = TopologicalOrder(t)
BY DEF ValidateTopology, When, TopologicalOrder

(* What the builder accepts.                                               *)
LEMMA BuiltFlow ==
  ASSUME NEW d \in Definition, Build(d).errors = {}
  PROVE  LET t == ResolvedEdges(d) IN
         /\ Validate(t) = "Ok"
         /\ Build(d).order = TopologicalOrder(t)
         /\ \A k \in StagesOf(t) :
              /\ t.roles[k] = "Source" <=> \A e \in EdgesOf(t) : e[2] # k
              /\ t.roles[k] = "Sink" <=>
                   t.roles[k] # "Source" /\ \A e \in EdgesOf(t) : e[1] # k
<1> DEFINE t == ResolvedEdges(d)
           K == StagesOf(t)
<1>1. ConstructionErrors(d) = {} /\ Build(d) = ValidateTopology(t)
  BY DEF Build
<1>2. Numbered(t) /\ IsGraph(t)
  BY <1>1, ResolvedIsGraph
<1> HIDE DEF t
<1>3. /\ t.roles # <<>>
      /\ \E k \in K : t.roles[k] = "Source"
      /\ \E k \in K : t.roles[k] = "Sink"
      /\ \A k \in K : RoleConsistent(t, k)
      /\ Len(TopologicalOrder(t)) = Len(t.roles)
      /\ Reachable(t) = K
      /\ Build(d).order = TopologicalOrder(t)
  BY <1>1, NoErrors
<1>4. IsAcyclic(t)
  <2> DEFINE keys == [k \in K |-> k]
  <2>1. IsListing(t, keys)
    BY <1>2, KeysListing
  <2>2. TopologicalOrder(t) = KahnFrom(t, keys).order
    BY DEF TopologicalOrder, Kahn
  <2> HIDE DEF keys
  <2> QED BY <1>2, <1>3, <2>1, <2>2, OrderComplete
<1>5. \A i \in DOMAIN t.conns :
        /\ t.conns[i].from \in K /\ t.conns[i].to \in K
        /\ t.conns[i].from # t.conns[i].to
  BY <1>2, <1>4, NoSelfLoop DEF IsGraph
<1>6. \A k \in K : /\ t.roles[k] = "Source" => InEdges(t, k) = {}
                   /\ t.roles[k] = "Sink" => OutEdges(t, k) = {}
                   /\ t.roles[k] \notin {"Source", "Sink"} => OutEdges(t, k) # {}
  BY <1>3 DEF RoleConsistent
<1>7. Validate(t) = "Ok"
  BY <1>3, <1>5, <1>6, ValidateOk
<1>8. \A k \in K : t.roles[k] # "Source" => InEdges(t, k) # {}
  <2>1. \A k \in K : IsFed(t, k)
    <3>1. Reachable(t) = {k \in StagesOf(t) : IsFed(t, k)}
      BY <1>2, ReachableIsFed
    <3> QED BY <1>3, <3>1
  <2> QED BY <1>2, <2>1, FedHasInput
<1>9. \A k \in K : /\ t.roles[k] = "Source" <=> InEdges(t, k) = {}
                   /\ t.roles[k] = "Sink" <=> t.roles[k] # "Source" /\ OutEdges(t, k) = {}
  BY <1>6, <1>8
<1>10. \A k \in K :
         /\ t.roles[k] = "Source" <=> \A e \in EdgesOf(t) : e[2] # k
         /\ t.roles[k] = "Sink" <=> t.roles[k] # "Source" /\ \A e \in EdgesOf(t) : e[1] # k
  BY <1>9, EdgesAt
<1> QED BY <1>3, <1>7, <1>10 DEF t
-----------------------------------------------------------------------------
(* What a submission holds at any time.                                    *)
SubmissionInv ==
  /\ topo \in Definition
  /\ verdict = "None" \/ verdict = Validate(topo)
  /\ order = <<>> \/ (verdict = "Ok" /\ order = TopologicalOrder(topo))
  /\ built = NotBuilt \/ built = Build(topo)

(* SubmissionInv holds from the submission on, whatever is asked for and   *)
(* in whatever order.                                                      *)
THEOREM SubmissionInvHolds == SubmitSpec => []SubmissionInv
<1>1. SubmitInit => SubmissionInv
  BY DEF SubmitInit, SubmissionInv
<1>2. SubmissionInv /\ [SubmitNext]_submission => SubmissionInv'
  <2> SUFFICES ASSUME SubmissionInv, [SubmitNext]_submission PROVE SubmissionInv'
    OBVIOUS
  <2>1. CASE ValidateFlow
    BY <2>1 DEF ValidateFlow, SubmissionInv
  <2>2. CASE OrderStages
    BY <2>2 DEF OrderStages, SubmissionInv
  <2>3. CASE BuildPipeline
    BY <2>3 DEF BuildPipeline, SubmissionInv
  <2>4. CASE UNCHANGED submission
    BY <2>4 DEF submission, SubmissionInv
  <2> QED BY <2>1, <2>2, <2>3, <2>4 DEF SubmitNext
<1> QED BY <1>1, <1>2, PTL DEF SubmitSpec

(* validate() accepts a definition of any size exactly when it is a flow:  *)
(* acyclic, with a source and a sink, sources without input, sinks without *)
(* output, every other stage on a path from a source.                      *)
THEOREM ValidateExactHolds == SubmitSpec => []ValidateExact
<1>1. SubmissionInv => ValidateExact
  BY DefinitionNumbered, ValidateIsFlow DEF SubmissionInv, ValidateExact
<1> QED BY <1>1, SubmissionInvHolds, PTL

(* topological_order() of an accepted definition of any size has every     *)
(* stage once, connections forward, and all sources before all others.     *)
THEOREM OrderFeedsDriverHolds == SubmitSpec => []OrderFeedsDriver
<1>1. SubmissionInv => OrderFeedsDriver
  <2> SUFFICES ASSUME SubmissionInv, order # <<>>
               PROVE  /\ Len(order) = Len(topo.roles)
                      /\ ToSet(order) = StagesOf(topo)
                      /\ \A i, j \in DOMAIN order :
                           /\ <<order[i], order[j]>> \in EdgesOf(topo) => i < j
                           /\ topo.roles[order[i]] = "Source" /\ topo.roles[order[j]] # "Source"
                                => i < j
    BY DEF OrderFeedsDriver
  <2>1. Numbered(topo) /\ order = TopologicalOrder(topo) /\ Validate(topo) = "Ok"
    BY DefinitionNumbered DEF SubmissionInv
  <2>2. IsFlow(topo)
    BY <2>1, ValidateIsFlow
  <2>3. /\ order \in Seq(StagesOf(topo)) /\ Len(order) = Len(topo.roles)
        /\ \A k \in StagesOf(topo) : In(k, order)
        /\ \A i, j \in DOMAIN order :
             /\ <<order[i], order[j]>> \in EdgesOf(topo) => i < j
             /\ topo.roles[order[i]] = "Source" /\ topo.roles[order[j]] # "Source" => i < j
    BY <2>1, <2>2, OrderOfFlow
  <2>4. ToSet(order) = StagesOf(topo)
    <3>1. DOMAIN order = 1..Len(order) /\ \A i \in DOMAIN order : order[i] \in StagesOf(topo)
      BY <2>3
    <3> QED BY <2>3, <3>1 DEF ToSet, In
  <2> QED BY <2>3, <2>4
<1> QED BY <1>1, SubmissionInvHolds, PTL

(* What the pipeline builder accepts, of any size, the reactor accepts,    *)
(* with the order in which it will drive it; the stages without inputs are *)
(* the sources and those without outputs the sinks.                        *)
THEOREM BuiltFeedsReactorHolds == SubmitSpec => []BuiltFeedsReactor
<1>1. SubmissionInv => BuiltFeedsReactor
  <2> SUFFICES ASSUME SubmissionInv, built # NotBuilt, built.errors = {}
               PROVE  BuiltFeedsReactor
    BY DEF BuiltFeedsReactor
  <2>1. topo \in Definition /\ built = Build(topo)
    BY DEF SubmissionInv
  <2> QED BY <2>1, BuiltFlow DEF BuiltFeedsReactor
<1> QED BY <1>1, SubmissionInvHolds, PTL

-----------------------------------------------------------------------------
(* Contracts.  Each lemma says when one of the comparisons reports a       *)
(* breaking change, or an addition; the theorems put them together along   *)
(* the structure of a package.                                             *)

Breaks(changes) == \E c \in changes : c.severity = "Breaking"

(* A set of changes breaks if one of its parts does.                       *)
LEMMA BreaksUnion ==
  ASSUME NEW S, NEW T
  PROVE  Breaks(S \cup T) <=> Breaks(S) \/ Breaks(T)
BY DEF Breaks

(* Marking every name of a set as broken breaks unless the set is empty.   *)
LEMMA MarkedBreaks ==
  ASSUME NEW S, NEW path
  PROVE  Breaks({Change("Breaking", Append(path, n)) : n \in S}) <=> S # {}
<1> DEFINE M == {Change("Breaking", Append(path, n)) : n \in S}
<1>1. ASSUME NEW n \in S
      PROVE  Breaks(M)
  <2>1. Change("Breaking", Append(path, n)) \in M
    OBVIOUS
  <2>2. Change("Breaking", Append(path, n)).severity = "Breaking"
    BY DEF Change
  <2> HIDE DEF M
  <2> QED  BY <2>1, <2>2, Zenon DEF Breaks
<1>2. S = {} => ~Breaks(M)
  BY DEF Breaks
<1> HIDE DEF M
<1> QED  BY <1>1, <1>2 DEF M

(* A missing name is a breaking change, and the only one of Removed.       *)
LEMMA RemovedBreaks ==
  ASSUME NEW old, NEW new, NEW path
  PROVE  Breaks(Removed(old, new, path)) <=> ~(old \subseteq new)
<1> DEFINE S == old \ new
<1>1. Removed(old, new, path) = {Change("Breaking", Append(path, n)) : n \in S}
  BY DEF Removed
<1>2. Breaks(Removed(old, new, path)) <=> S # {}
  <2> HIDE DEF S
  <2> QED  BY <1>1, MarkedBreaks
<1> QED  BY <1>2

(* A new name is never a breaking change of Added.                         *)
LEMMA AddedSafe ==
  ASSUME NEW old, NEW new, NEW path
  PROVE  ~Breaks(Added(old, new, path))
<1>1. ASSUME NEW c \in Added(old, new, path)
      PROVE  c.severity # "Breaking"
  <2>1. PICK n \in new \ old : c = Change("Minor", Append(path, n))
    BY <1>1 DEF Added
  <2>2. c.severity = "Minor"
    BY <2>1 DEF Change
  <2> QED  BY <2>2
<1> QED  BY <1>1, Zenon DEF Breaks

(* A common name with another value is.                                    *)
LEMMA ChangedBreaks ==
  ASSUME NEW old, NEW new, NEW path
  PROVE  Breaks(Changed(old, new, path)) <=>
           \E m \in DOMAIN old \cap DOMAIN new : old[m] # new[m]
<1> DEFINE S == {m \in DOMAIN old \cap DOMAIN new : old[m] # new[m]}
<1>1. Changed(old, new, path) = {Change("Breaking", Append(path, n)) : n \in S}
  BY DEF Changed
<1>2. Breaks(Changed(old, new, path)) <=> S # {}
  <2> HIDE DEF S
  <2> QED  BY <1>1, MarkedBreaks
<1> QED  BY <1>2

(* Two signatures are compared without a breaking change only if they are  *)
(* equal.                                                                  *)
LEMMA SignatureBreaks ==
  ASSUME NEW old \in [params : Seq(Type), result : Type \cup {NoType}],
         NEW new \in [params : Seq(Type), result : Type \cup {NoType}],
         NEW path
  PROVE  Breaks(CompareSignatures(old, new, path)) <=> old # new
<1> DEFINE P == IF Len(old.params) # Len(new.params) THEN {Change("Breaking", path)}
                ELSE {Change("Breaking", Append(path, n)) :
                        n \in {m \in 1..Len(old.params) : old.params[m] # new.params[m]}}
           R == IF old.result # new.result THEN {Change("Breaking", path)} ELSE {}
<1>1. old.params \in Seq(Type) /\ new.params \in Seq(Type)
  OBVIOUS
<1>2. Breaks(P) <=> old.params # new.params
  <2>1. CASE Len(old.params) # Len(new.params)
    BY <1>1, <2>1 DEF Breaks, Change
  <2>2. CASE Len(old.params) = Len(new.params)
    <3> DEFINE D == {m \in 1..Len(old.params) : old.params[m] # new.params[m]}
    <3>1. Breaks(P) <=> \E m \in 1..Len(old.params) : old.params[m] # new.params[m]
      <4>1. P = {Change("Breaking", Append(path, n)) : n \in D}
        BY <2>2
      <4>2. Breaks(P) <=> D # {}
        <5> HIDE DEF P, D
        <5> QED  BY <4>1, MarkedBreaks
      <4> QED  BY <4>2
    <3>2. old.params # new.params =>
            \E m \in 1..Len(old.params) : old.params[m] # new.params[m]
      BY <1>1, <2>2
    <3> QED  BY <3>1, <3>2
  <2> QED  BY <2>1, <2>2
<1>3. Breaks(R) <=> old.result # new.result
  BY DEF Breaks, Change
<1>4. old = new <=> old.params = new.params /\ old.result = new.result
  OBVIOUS
<1>5. CompareSignatures(old, new, path) = P \cup R
  BY DEF CompareSignatures
<1> HIDE DEF P, R
<1> QED  BY <1>2, <1>3, <1>4, <1>5, BreaksUnion

(* What the parser guarantees of a type definition.                        *)
IsTypeDef(d) ==
  /\ d.kind \in Kinds
  /\ d.members \in [DOMAIN d.members -> Type \cup {NoType}]
  /\ d.kind \in {"enum", "flags"} => \A m \in DOMAIN d.members : d.members[m] = NoType

(* What a version fits, unrolled: records by shape, variants and enums by  *)
(* their cases, the rest by kind.                                          *)
FitsType(new, old) ==
  /\ new.kind = old.kind
  /\ old.kind = "record" => new.members = old.members
  /\ old.kind \in {"variant", "enum"} =>
       \A m \in DOMAIN old.members :
         m \in DOMAIN new.members /\ new.members[m] = old.members[m]

FitsInterface(new, old) ==
  /\ \A f \in DOMAIN old.functions :
       f \in DOMAIN new.functions /\ new.functions[f] = old.functions[f]
  /\ \A t \in DOMAIN old.types :
       t \in DOMAIN new.types /\ FitsType(new.types[t], old.types[t])

(* It is what Serves says of the examined parts.                           *)
LEMMA ExaminedFits ==
  ASSUME NEW old, NEW new
  PROVE  ServesType(ExaminedType(new), ExaminedType(old)) <=> FitsType(new, old)
<1> DEFINE o == ExaminedType(old)
           n == ExaminedType(new)
<1>1. /\ o.kind = old.kind /\ n.kind = new.kind /\ o.target = NoType /\ n.target = NoType
      /\ old.kind \in {"flags", "alias"} => DOMAIN o.members = {}
      /\ old.kind \notin {"flags", "alias"} => o.members = old.members
      /\ new.kind \notin {"flags", "alias"} => n.members = new.members
  BY DEF ExaminedType
<1> HIDE DEF o, n
<1>2. ServesType(n, o) <=> FitsType(new, old)
  BY <1>1 DEF ServesType, FitsType
<1> QED BY <1>2 DEF o, n

(* To fit, spelled out item by item.                                      *)
LEMMA FitsUnrolled ==
  ASSUME NEW old, NEW new
  PROVE  Fits(new, old) <=>
           /\ old.worlds \subseteq new.worlds
           /\ \A i \in DOMAIN old.interfaces :
                i \in DOMAIN new.interfaces
                /\ FitsInterface(new.interfaces[i], old.interfaces[i])
<1> DEFINE O == Examined(old)
           N == Examined(new)
<1>1. /\ O.worlds = old.worlds /\ N.worlds = new.worlds
      /\ DOMAIN O.interfaces = DOMAIN old.interfaces
      /\ DOMAIN N.interfaces = DOMAIN new.interfaces
  BY DEF Examined
<1>2. ASSUME NEW i \in DOMAIN old.interfaces, i \in DOMAIN new.interfaces
      PROVE  ServesInterface(N.interfaces[i], O.interfaces[i])
               <=> FitsInterface(new.interfaces[i], old.interfaces[i])
  <2> DEFINE oi == O.interfaces[i]
             ni == N.interfaces[i]
             ot == old.interfaces[i].types
             nt == new.interfaces[i].types
  <2>1. /\ oi.functions = old.interfaces[i].functions
        /\ ni.functions = new.interfaces[i].functions
        /\ DOMAIN oi.types = DOMAIN ot /\ \A t \in DOMAIN ot : oi.types[t] = ExaminedType(ot[t])
        /\ DOMAIN ni.types = DOMAIN nt /\ \A t \in DOMAIN nt : ni.types[t] = ExaminedType(nt[t])
    BY <1>2 DEF Examined
  <2> HIDE DEF oi, ni
  <2>2. \A t \in DOMAIN ot : t \in DOMAIN nt =>
          (ServesType(ni.types[t], oi.types[t]) <=> FitsType(nt[t], ot[t]))
    BY <2>1, ExaminedFits
  <2>3. (\A t \in DOMAIN oi.types : t \in DOMAIN ni.types /\ ServesType(ni.types[t], oi.types[t]))
          <=> \A t \in DOMAIN ot : t \in DOMAIN nt /\ FitsType(nt[t], ot[t])
    BY <2>1, <2>2
  <2>4. ServesInterface(ni, oi) <=> FitsInterface(new.interfaces[i], old.interfaces[i])
    BY <2>1, <2>3 DEF ServesInterface, FitsInterface
  <2> QED BY <2>4 DEF oi, ni
<1> HIDE DEF O, N
<1>3. Serves(N, O) <=>
           /\ old.worlds \subseteq new.worlds
           /\ \A i \in DOMAIN old.interfaces :
                i \in DOMAIN new.interfaces
                /\ FitsInterface(new.interfaces[i], old.interfaces[i])
  BY <1>1, <1>2 DEF Serves
<1> QED BY <1>3 DEF Fits, O, N

(* Who is served is fitted: what is not looked at can only be in the way.  *)
LEMMA ServesFits ==
  ASSUME NEW old, NEW new, Serves(new, old)
  PROVE  Fits(new, old)
<1>1. ASSUME NEW i \in DOMAIN old.interfaces
      PROVE  i \in DOMAIN new.interfaces /\ FitsInterface(new.interfaces[i], old.interfaces[i])
  <2>1. i \in DOMAIN new.interfaces /\ ServesInterface(new.interfaces[i], old.interfaces[i])
    BY <1>1 DEF Serves
  <2> DEFINE O == old.interfaces[i]
             N == new.interfaces[i]
  <2>2. \A t \in DOMAIN O.types :
          ServesType(N.types[t], O.types[t]) => FitsType(N.types[t], O.types[t])
    BY DEF ServesType, FitsType
  <2>3. ServesInterface(N, O)
    BY <2>1
  <2> HIDE DEF O, N
  <2>4. FitsInterface(N, O)
    BY <2>2, <2>3 DEF ServesInterface, FitsInterface
  <2> QED BY <2>1, <2>4 DEF O, N
<1>2. old.worlds \subseteq new.worlds
  BY DEF Serves
<1> QED BY <1>1, <1>2, FitsUnrolled

(* The comparison of two types breaks exactly when the new one does not    *)
(* fit the clients of the old one.                                         *)
LEMMA TypeDefBreaks ==
  ASSUME NEW old, NEW new, NEW path, IsTypeDef(old), IsTypeDef(new)
  PROVE  Breaks(CompareTypeDefs(ConvertTypeDef(old), ConvertTypeDef(new), path))
           <=> ~FitsType(new, old)
<1> DEFINE C == CompareTypeDefs(ConvertTypeDef(old), ConvertTypeDef(new), path)
<1>1. CASE old.kind # new.kind
  <2>1. C = {Change("Breaking", path)}
    BY <1>1 DEF CompareTypeDefs, ConvertTypeDef
  <2> QED  BY <1>1, <2>1 DEF Breaks, Change, FitsType
<1>2. CASE old.kind = new.kind /\ old.kind = "record"
  <2>1. C = CompareRecordFields(old.members, new.members, path)
    BY <1>2 DEF CompareTypeDefs, ConvertTypeDef
  <2> DEFINE A == {Change("Breaking", Append(path, n)) :
                     n \in DOMAIN new.members \ DOMAIN old.members}
  <2>2. Breaks(A) <=> ~(DOMAIN new.members \subseteq DOMAIN old.members)
    <3>1. Breaks(A) <=> DOMAIN new.members \ DOMAIN old.members # {}
      BY MarkedBreaks
    <3> QED  BY <3>1
  <2>3. Breaks(C) <=> \/ ~(DOMAIN old.members \subseteq DOMAIN new.members)
                      \/ ~(DOMAIN new.members \subseteq DOMAIN old.members)
                      \/ \E m \in DOMAIN old.members \cap DOMAIN new.members :
                           old.members[m] # new.members[m]
    <3>1. C = (Removed(DOMAIN old.members, DOMAIN new.members, path) \cup A)
              \cup Changed(old.members, new.members, path)
      BY <2>1 DEF CompareRecordFields
    <3> DEFINE R == Removed(DOMAIN old.members, DOMAIN new.members, path)
               X == Changed(old.members, new.members, path)
    <3>2. Breaks(R) <=> ~(DOMAIN old.members \subseteq DOMAIN new.members)
      BY RemovedBreaks
    <3>3. Breaks(X) <=> \E m \in DOMAIN old.members \cap DOMAIN new.members :
                          old.members[m] # new.members[m]
      BY ChangedBreaks
    <3>4. C = (R \cup A) \cup X
      BY <3>1
    <3> HIDE DEF A, C, R, X
    <3>5. Breaks(C) <=> Breaks(R \cup A) \/ Breaks(X)
      BY <3>4, BreaksUnion
    <3>6. Breaks(R \cup A) <=> Breaks(R) \/ Breaks(A)
      BY BreaksUnion
    <3> QED  BY <2>2, <3>2, <3>3, <3>5, <3>6
  <2>4. old.members = new.members <=>
          /\ DOMAIN old.members = DOMAIN new.members
          /\ \A m \in DOMAIN old.members : old.members[m] = new.members[m]
    BY DEF IsTypeDef
  <2> HIDE DEF A, C
  <2>5. FitsType(new, old) <=> new.members = old.members
    BY <1>2 DEF FitsType
  <2> QED  BY <2>3, <2>4, <2>5 DEF C
<1>3. CASE old.kind = new.kind /\ old.kind = "variant"
  <2>1. C = CompareVariantCases(old.members, new.members, path)
    BY <1>3 DEF CompareTypeDefs, ConvertTypeDef
  <2>2. C = (Removed(DOMAIN old.members, DOMAIN new.members, path)
             \cup Added(DOMAIN old.members, DOMAIN new.members, path))
            \cup Changed(old.members, new.members, path)
    BY <2>1 DEF CompareVariantCases
  <2>3. Breaks(C) <=> \/ ~(DOMAIN old.members \subseteq DOMAIN new.members)
                      \/ \E m \in DOMAIN old.members \cap DOMAIN new.members :
                           old.members[m] # new.members[m]
    <3> DEFINE R == Removed(DOMAIN old.members, DOMAIN new.members, path)
               A == Added(DOMAIN old.members, DOMAIN new.members, path)
               X == Changed(old.members, new.members, path)
    <3>1. Breaks(R) <=> ~(DOMAIN old.members \subseteq DOMAIN new.members)
      BY RemovedBreaks
    <3>2. ~Breaks(A)
      BY AddedSafe
    <3>3. Breaks(X) <=> \E m \in DOMAIN old.members \cap DOMAIN new.members :
                          old.members[m] # new.members[m]
      BY ChangedBreaks
    <3> HIDE DEF A, C, R, X
    <3>4. Breaks(C) <=> Breaks(R) \/ Breaks(A) \/ Breaks(X)
      BY ZenonT(40), <2>2, BreaksUnion DEF A, R, X
    <3> QED  BY <3>1, <3>2, <3>3, <3>4
  <2> HIDE DEF C
  <2> QED  BY <1>3, <2>3 DEF FitsType, C
<1>4. CASE old.kind = new.kind /\ old.kind = "enum"
  <2>1. C = Removed(DOMAIN old.members, DOMAIN new.members, path)
            \cup Added(DOMAIN old.members, DOMAIN new.members, path)
    BY <1>4 DEF CompareTypeDefs, ConvertTypeDef
  <2>2. Breaks(C) <=> ~(DOMAIN old.members \subseteq DOMAIN new.members)
    <3> HIDE DEF C
    <3> QED  BY <2>1, BreaksUnion, RemovedBreaks, AddedSafe
  <2>3. \A m \in DOMAIN old.members \cap DOMAIN new.members : old.members[m] = new.members[m]
    BY <1>4 DEF IsTypeDef
  <2> HIDE DEF C
  <2> QED  BY <1>4, <2>2, <2>3 DEF FitsType, C
<1>5. CASE old.kind = new.kind /\ old.kind \notin {"record", "variant", "enum"}
  <2>1. C = {}
    BY <1>5 DEF CompareTypeDefs, ConvertTypeDef
  <2> QED  BY <1>5, <2>1 DEF Breaks, FitsType
<1> QED  BY <1>1, <1>2, <1>3, <1>4, <1>5

(* What the parser guarantees of an interface.                             *)
IsInterface(i) ==
  /\ \A f \in DOMAIN i.functions :
       i.functions[f] \in [params : Seq(Type), result : Type \cup {NoType}]
  /\ \A t \in DOMAIN i.types : IsTypeDef(i.types[t])

(* The contents of two interfaces.  Resources are compared as names, apart *)
(* from the other types; a resource that becomes another type, or the      *)
(* reverse, is a name that is missing from one of the two.                 *)
LEMMA InterfaceBreaks ==
  ASSUME NEW old, NEW new, NEW path, IsInterface(old), IsInterface(new)
  PROVE  Breaks(CompareInterfaceContents(ConvertInterface(old), ConvertInterface(new), path))
           <=> ~FitsInterface(new, old)
<1> DEFINE o == ConvertInterface(old)
           n == ConvertInterface(new)
           NotRes(i) == {t \in DOMAIN i.types : i.types[t].kind # "resource"}
           F == UNION {CompareSignatures(o.functions[f], n.functions[f], Append(path, f)) :
                         f \in DOMAIN o.functions \cap DOMAIN n.functions}
           T == UNION {CompareTypeDefs(o.types[t], n.types[t], Append(path, t)) :
                         t \in DOMAIN o.types \cap DOMAIN n.types}
<1>1. /\ o.functions = old.functions /\ n.functions = new.functions
      /\ o.resources = DOMAIN old.types \ NotRes(old)
      /\ n.resources = DOMAIN new.types \ NotRes(new)
      /\ DOMAIN o.types = NotRes(old) /\ DOMAIN n.types = NotRes(new)
      /\ \A t \in NotRes(old) : o.types[t] = ConvertTypeDef(old.types[t])
      /\ \A t \in NotRes(new) : n.types[t] = ConvertTypeDef(new.types[t])
  BY DEF ConvertInterface
<1>2. Breaks(F) <=> \E f \in DOMAIN old.functions \cap DOMAIN new.functions :
                      old.functions[f] # new.functions[f]
  <2>1. Breaks(F) <=> \E f \in DOMAIN old.functions \cap DOMAIN new.functions :
                        Breaks(CompareSignatures(old.functions[f], new.functions[f],
                                                 Append(path, f)))
    BY <1>1 DEF Breaks
  <2>2. \A f \in DOMAIN old.functions \cap DOMAIN new.functions :
          Breaks(CompareSignatures(old.functions[f], new.functions[f], Append(path, f)))
            <=> old.functions[f] # new.functions[f]
    BY SignatureBreaks DEF IsInterface
  <2> HIDE DEF F
  <2> QED  BY <2>1, <2>2
<1>3. Breaks(T) <=> \E t \in NotRes(old) \cap NotRes(new) :
                      ~FitsType(new.types[t], old.types[t])
  <2>1. Breaks(T) <=> \E t \in NotRes(old) \cap NotRes(new) :
                        Breaks(CompareTypeDefs(ConvertTypeDef(old.types[t]),
                                               ConvertTypeDef(new.types[t]), Append(path, t)))
    BY <1>1 DEF Breaks
  <2>2. \A t \in NotRes(old) \cap NotRes(new) :
          Breaks(CompareTypeDefs(ConvertTypeDef(old.types[t]),
                                 ConvertTypeDef(new.types[t]), Append(path, t)))
            <=> ~FitsType(new.types[t], old.types[t])
    BY TypeDefBreaks DEF IsInterface
  <2> HIDE DEF T
  <2> QED  BY <2>1, <2>2
<1>4. Breaks(CompareInterfaceContents(o, n, path)) <=>
        \/ ~(DOMAIN old.functions \subseteq DOMAIN new.functions)
        \/ Breaks(F)
        \/ ~(o.resources \subseteq n.resources)
        \/ ~(DOMAIN o.types \subseteq DOMAIN n.types)
        \/ Breaks(T)
  <2> DEFINE RF == Removed(DOMAIN o.functions, DOMAIN n.functions, path)
             AF == Added(DOMAIN o.functions, DOMAIN n.functions, path)
             RR == Removed(o.resources, n.resources, path)
             RT == Removed(DOMAIN o.types, DOMAIN n.types, path)
             AT == Added(DOMAIN o.types, DOMAIN n.types, path)
             All == CompareInterfaceContents(o, n, path)
  <2>1. All = (((((RF \cup AF) \cup F) \cup RR) \cup RT) \cup T) \cup AT
    BY DEF CompareInterfaceContents
  <2>2. Breaks(RF) <=> ~(DOMAIN old.functions \subseteq DOMAIN new.functions)
    <3>1. o.functions = old.functions /\ n.functions = new.functions
      BY <1>1
    <3> HIDE DEF o, n
    <3> QED  BY <3>1, RemovedBreaks
  <2>3. Breaks(RR) <=> ~(o.resources \subseteq n.resources)
    BY RemovedBreaks
  <2>4. Breaks(RT) <=> ~(DOMAIN o.types \subseteq DOMAIN n.types)
    BY RemovedBreaks
  <2>5. ~Breaks(AF) /\ ~Breaks(AT)
    BY AddedSafe
  <2> HIDE DEF F, T, RF, AF, RR, RT, AT, All
  <2>6. Breaks(All) <=> Breaks(((((RF \cup AF) \cup F) \cup RR) \cup RT) \cup T) \/ Breaks(AT)
    BY <2>1, BreaksUnion
  <2>7. Breaks(((((RF \cup AF) \cup F) \cup RR) \cup RT) \cup T) <=>
          Breaks((((RF \cup AF) \cup F) \cup RR) \cup RT) \/ Breaks(T)
    BY BreaksUnion
  <2>8. Breaks((((RF \cup AF) \cup F) \cup RR) \cup RT) <=>
          Breaks(((RF \cup AF) \cup F) \cup RR) \/ Breaks(RT)
    BY BreaksUnion
  <2>9. Breaks(((RF \cup AF) \cup F) \cup RR) <=>
          Breaks(RF) \/ Breaks(AF) \/ Breaks(F) \/ Breaks(RR)
    BY ZenonT(40), BreaksUnion
  <2> HIDE DEF o, n
  <2> QED  BY <2>2, <2>3, <2>4, <2>5, <2>6, <2>7, <2>8, <2>9 DEF All
<1>5. FitsInterface(new, old) <=>
        /\ DOMAIN old.functions \subseteq DOMAIN new.functions
        /\ \A f \in DOMAIN old.functions \cap DOMAIN new.functions :
             old.functions[f] = new.functions[f]
        /\ DOMAIN old.types \subseteq DOMAIN new.types
        /\ \A t \in DOMAIN old.types \cap DOMAIN new.types :
             FitsType(new.types[t], old.types[t])
  BY DEF FitsInterface
<1>6. /\ o.resources \subseteq n.resources
      /\ DOMAIN o.types \subseteq DOMAIN n.types
      /\ \A t \in NotRes(old) \cap NotRes(new) : FitsType(new.types[t], old.types[t])
      <=>
      /\ DOMAIN old.types \subseteq DOMAIN new.types
      /\ \A t \in DOMAIN old.types \cap DOMAIN new.types :
           FitsType(new.types[t], old.types[t])
  <2>1. \A t \in DOMAIN old.types \cap DOMAIN new.types :
          /\ old.types[t].kind = "resource" =>
               (FitsType(new.types[t], old.types[t]) <=> new.types[t].kind = "resource")
          /\ FitsType(new.types[t], old.types[t]) =>
               new.types[t].kind = old.types[t].kind
    BY DEF FitsType
  <2>2. o.resources = DOMAIN old.types \ NotRes(old) /\ n.resources = DOMAIN new.types \ NotRes(new)
        /\ DOMAIN o.types = NotRes(old) /\ DOMAIN n.types = NotRes(new)
    BY <1>1
  <2> HIDE DEF o, n
  <2> QED  BY <2>1, <2>2
<1> HIDE DEF F, T, o, n
<1> QED  BY <1>2, <1>3, <1>4, <1>5, <1>6 DEF o, n

(* check_compatibility judges a new version Breaking exactly when it does  *)
(* not fit some client of the old version, for every two packages the      *)
(* parser can deliver.                                                     *)
THEOREM BreakingExact ==
  ASSUME NEW old, NEW new, WellFormed(old), WellFormed(new)
  PROVE  CheckCompatibility(old, new) = "Breaking" <=> ~Fits(new, old)
<1> DEFINE O == old.interfaces
           N == new.interfaces
           U == UNION {CompareInterfaceContents(ConvertInterface(O[i]), ConvertInterface(N[i]), <<i>>) :
                         i \in DOMAIN O \cap DOMAIN N}
<1>1. CheckCompatibility(old, new) = "Breaking" <=> Breaks(Changes(old, new))
  BY DEF CheckCompatibility, Verdict, Breaks
<1>2. \A i \in DOMAIN O : IsInterface(O[i])
  BY DEF WellFormed, IsInterface, IsTypeDef
<1>3. \A i \in DOMAIN N : IsInterface(N[i])
  BY DEF WellFormed, IsInterface, IsTypeDef
<1>4. Breaks(U) <=> \E i \in DOMAIN O \cap DOMAIN N : ~FitsInterface(N[i], O[i])
  <2>1. Breaks(U) <=> \E i \in DOMAIN O \cap DOMAIN N :
          Breaks(CompareInterfaceContents(ConvertInterface(O[i]), ConvertInterface(N[i]), <<i>>))
    BY DEF Breaks
  <2>2. \A i \in DOMAIN O \cap DOMAIN N :
          Breaks(CompareInterfaceContents(ConvertInterface(O[i]), ConvertInterface(N[i]), <<i>>))
            <=> ~FitsInterface(N[i], O[i])
    BY <1>2, <1>3, InterfaceBreaks
  <2> HIDE DEF U
  <2> QED  BY <2>1, <2>2
<1>5. Breaks(Changes(old, new)) <=>
        \/ ~(DOMAIN O \subseteq DOMAIN N)
        \/ Breaks(U)
        \/ ~(old.worlds \subseteq new.worlds)
  <2> DEFINE RI == Removed(DOMAIN O, DOMAIN N, <<>>)
             AI == Added(DOMAIN O, DOMAIN N, <<>>)
             RW == Removed(old.worlds, new.worlds, <<"world">>)
             AW == Added(old.worlds, new.worlds, <<"world">>)
  <2>1. Changes(old, new) = ((RI \cup AI) \cup U) \cup (RW \cup AW)
    BY DEF Changes, CompareInterfaces, CompareWorlds
  <2>2. Breaks(RI) <=> ~(DOMAIN O \subseteq DOMAIN N)
    BY RemovedBreaks
  <2>3. Breaks(RW) <=> ~(old.worlds \subseteq new.worlds)
    BY RemovedBreaks
  <2>4. ~Breaks(AI) /\ ~Breaks(AW)
    BY AddedSafe
  <2> HIDE DEF U, O, N, RI, AI, RW, AW
  <2>5. Breaks(Changes(old, new)) <=> Breaks((RI \cup AI) \cup U) \/ Breaks(RW \cup AW)
    BY <2>1, BreaksUnion
  <2>6. Breaks((RI \cup AI) \cup U) <=> Breaks(RI) \/ Breaks(AI) \/ Breaks(U)
    BY BreaksUnion
  <2>7. Breaks(RW \cup AW) <=> Breaks(RW) \/ Breaks(AW)
    BY BreaksUnion
  <2> QED  BY <2>2, <2>3, <2>4, <2>5, <2>6, <2>7
<1> HIDE DEF U
<1> QED  BY <1>1, <1>4, <1>5, FitsUnrolled

(* To serve the clients of a version is transitive.                        *)
LEMMA ServesTransitive ==
  ASSUME NEW p, NEW q, NEW r, Serves(q, p), Serves(r, q)
  PROVE  Serves(r, p)
<1>1. p.worlds \subseteq r.worlds
  BY DEF Serves
<1>2. ASSUME NEW i \in DOMAIN p.interfaces
      PROVE  i \in DOMAIN r.interfaces /\ ServesInterface(r.interfaces[i], p.interfaces[i])
  <2>1. /\ i \in DOMAIN r.interfaces
        /\ ServesInterface(q.interfaces[i], p.interfaces[i])
        /\ ServesInterface(r.interfaces[i], q.interfaces[i])
    BY <1>2 DEF Serves
  <2> DEFINE P == p.interfaces[i]
             Q == q.interfaces[i]
             R == r.interfaces[i]
  <2>2. \A f \in DOMAIN P.functions :
          f \in DOMAIN R.functions /\ R.functions[f] = P.functions[f]
    BY SMTT(30), <2>1 DEF ServesInterface
  <2>3. ASSUME NEW t \in DOMAIN P.types
        PROVE  t \in DOMAIN R.types /\ ServesType(R.types[t], P.types[t])
    <3>1. /\ t \in DOMAIN R.types
          /\ ServesType(Q.types[t], P.types[t])
          /\ ServesType(R.types[t], Q.types[t])
      BY <2>1, <2>3 DEF ServesInterface
    <3> QED  BY <3>1 DEF ServesType
  <2> QED  BY <2>1, <2>2, <2>3 DEF ServesInterface
<1> QED  BY <1>1, <1>2 DEF Serves

(* A contract that grows by versions none of which is judged breaking can  *)
(* be upgraded from any of them to any later one: verdicts compose.        *)
THEOREM UpgradesCompose ==
  ASSUME NEW p, NEW q, NEW r, WellFormed(p), WellFormed(q), WellFormed(r),
         CheckCompatibility(p, q) # "Breaking", CheckCompatibility(q, r) # "Breaking"
  PROVE  CheckCompatibility(p, r) # "Breaking"
BY BreakingExact, ServesTransitive DEF Fits
-----------------------------------------------------------------------------
(* Additions.                                                              *)

Grows(changes) == \E c \in changes : c.severity = "Minor"

(* A set of changes has an addition if one of its parts does.              *)
LEMMA GrowsUnion ==
  ASSUME NEW S, NEW T
  PROVE  Grows(S \cup T) <=> Grows(S) \/ Grows(T)
BY DEF Grows

(* Marking names as broken adds nothing.                                   *)
LEMMA MarkedGrowsNot ==
  ASSUME NEW S, NEW path
  PROVE  ~Grows({Change("Breaking", Append(path, n)) : n \in S})
<1> DEFINE M == {Change("Breaking", Append(path, n)) : n \in S}
<1>1. ASSUME NEW c \in M
      PROVE  c.severity # "Minor"
  <2>1. PICK n \in S : c = Change("Breaking", Append(path, n))
    BY <1>1
  <2>2. c.severity = "Breaking"
    BY <2>1 DEF Change
  <2> QED  BY <2>2
<1> HIDE DEF M
<1>2. ~Grows(M)
  BY <1>1, Zenon DEF Grows
<1> QED  BY <1>2 DEF M

(* A name that is gone, or a member that differs, is no addition.          *)
LEMMA RemovedGrowsNot ==
  ASSUME NEW old, NEW new, NEW path
  PROVE  ~Grows(Removed(old, new, path))
<1> DEFINE S == old \ new
<1>1. Removed(old, new, path) = {Change("Breaking", Append(path, n)) : n \in S}
  BY DEF Removed
<1> HIDE DEF S
<1> QED  BY <1>1, MarkedGrowsNot

(* A member that differs is no addition.                                   *)
LEMMA ChangedGrowsNot ==
  ASSUME NEW old, NEW new, NEW path
  PROVE  ~Grows(Changed(old, new, path))
<1> DEFINE S == {m \in DOMAIN old \cap DOMAIN new : old[m] # new[m]}
<1>1. Changed(old, new, path) = {Change("Breaking", Append(path, n)) : n \in S}
  BY DEF Changed
<1> HIDE DEF S
<1> QED  BY <1>1, MarkedGrowsNot

(* A new name is an addition, and the only one of Added.                   *)
LEMMA AddedGrows ==
  ASSUME NEW old, NEW new, NEW path
  PROVE  Grows(Added(old, new, path)) <=> ~(new \subseteq old)
<1> DEFINE A == Added(old, new, path)
<1>1. ASSUME NEW n \in new, n \notin old
      PROVE  Grows(A)
  <2>1. Change("Minor", Append(path, n)) \in A
    BY <1>1 DEF Added
  <2>2. Change("Minor", Append(path, n)).severity = "Minor"
    BY DEF Change
  <2> HIDE DEF A
  <2> QED  BY <2>1, <2>2, Zenon DEF Grows
<1>2. new \subseteq old => ~Grows(A)
  BY DEF Grows, Added
<1> HIDE DEF A
<1> QED  BY <1>1, <1>2 DEF A

(* Signatures differ by breaking changes only.                             *)
LEMMA SignatureGrowsNot ==
  ASSUME NEW old, NEW new, NEW path
  PROVE  ~Grows(CompareSignatures(old, new, path))
<1> DEFINE S == {m \in 1..Len(old.params) : old.params[m] # new.params[m]}
           M == {Change("Breaking", Append(path, n)) : n \in S}
           B == {Change("Breaking", path)}
           C == CompareSignatures(old, new, path)
<1>1. C = (IF Len(old.params) # Len(new.params) THEN B ELSE M)
          \cup (IF old.result # new.result THEN B ELSE {})
  BY DEF CompareSignatures
<1>2. ~Grows(M)
  <2> HIDE DEF S
  <2> QED  BY MarkedGrowsNot
<1>3. ~Grows(B) /\ ~Grows({})
  BY DEF Grows, Change
<1> HIDE DEF M, B, C
<1>4. ~Grows(C)
  BY <1>1, <1>2, <1>3, GrowsUnion
<1> QED  BY <1>4 DEF C

(* Of two types of one kind, the new one adds to the old exactly when it   *)
(* is a variant or an enum with a case that the old one does not have.     *)
LEMMA TypeDefGrows ==
  ASSUME NEW old, NEW new, NEW path
  PROVE  Grows(CompareTypeDefs(ConvertTypeDef(old), ConvertTypeDef(new), path))
           <=> /\ old.kind = new.kind /\ old.kind \in {"variant", "enum"}
               /\ ~(DOMAIN new.members \subseteq DOMAIN old.members)
<1> DEFINE C == CompareTypeDefs(ConvertTypeDef(old), ConvertTypeDef(new), path)
           R == Removed(DOMAIN old.members, DOMAIN new.members, path)
           A == Added(DOMAIN old.members, DOMAIN new.members, path)
           X == Changed(old.members, new.members, path)
           S == DOMAIN new.members \ DOMAIN old.members
           M == {Change("Breaking", Append(path, n)) : n \in S}
<1>1. ~Grows(R) /\ ~Grows(X) /\ (Grows(A) <=> ~(DOMAIN new.members \subseteq DOMAIN old.members))
  BY RemovedGrowsNot, ChangedGrowsNot, AddedGrows
<1>2. ~Grows(M)
  <2> HIDE DEF S
  <2> QED  BY MarkedGrowsNot
<1>3. CASE old.kind # new.kind
  <2>1. C = {Change("Breaking", path)}
    BY <1>3 DEF CompareTypeDefs, ConvertTypeDef
  <2> QED  BY <1>3, <2>1 DEF Grows, Change
<1>4. CASE old.kind = new.kind /\ old.kind = "record"
  <2>1. C = (R \cup M) \cup X
    BY <1>4 DEF CompareTypeDefs, ConvertTypeDef, CompareRecordFields
  <2> HIDE DEF C, R, M, X
  <2>2. ~Grows(C)
    BY <1>1, <1>2, <2>1, GrowsUnion
  <2> QED  BY <1>4, <2>2 DEF C
<1>5. CASE old.kind = new.kind /\ old.kind = "variant"
  <2>1. C = (R \cup A) \cup X
    BY <1>5 DEF CompareTypeDefs, ConvertTypeDef, CompareVariantCases
  <2> HIDE DEF C, R, A, X
  <2>2. Grows(C) <=> Grows(A)
    BY <1>1, <2>1, GrowsUnion
  <2> QED  BY <1>1, <1>5, <2>2 DEF C
<1>6. CASE old.kind = new.kind /\ old.kind = "enum"
  <2>1. C = R \cup A
    BY <1>6 DEF CompareTypeDefs, ConvertTypeDef
  <2> HIDE DEF C, R, A
  <2>2. Grows(C) <=> Grows(A)
    BY <1>1, <2>1, GrowsUnion
  <2> QED  BY <1>1, <1>6, <2>2 DEF C
<1>7. CASE old.kind = new.kind /\ old.kind \notin {"record", "variant", "enum"}
  <2>1. C = {}
    BY <1>7 DEF CompareTypeDefs, ConvertTypeDef
  <2> QED  BY <1>7, <2>1 DEF Grows
<1> QED  BY <1>3, <1>4, <1>5, <1>6, <1>7

(* The types of an interface that are not resources, and the interface     *)
(* with these alone.                                                       *)
NamedTypes(i) == {t \in DOMAIN i.types : i.types[t].kind # "resource"}

Plain(i) == [functions |-> i.functions, types |-> [t \in NamedTypes(i) |-> i.types[t]]]

(* Of a type that fits the clients of another, the other fits its own      *)
(* clients unless it lacks a case.                                         *)
LEMMA FitsTypeBack ==
  ASSUME NEW old, NEW new, FitsType(new, old)
  PROVE  FitsType(old, new) <=>
           ~(/\ old.kind = new.kind /\ old.kind \in {"variant", "enum"}
             /\ ~(DOMAIN new.members \subseteq DOMAIN old.members))
BY DEF FitsType

(* The contents of an interface whose clients the new one fits: there are  *)
(* additions exactly when the old one, resources apart, does not fit the   *)
(* clients of the new one.                                                 *)
LEMMA InterfaceGrows ==
  ASSUME NEW old, NEW new, NEW path, FitsInterface(new, old)
  PROVE  Grows(CompareInterfaceContents(ConvertInterface(old), ConvertInterface(new), path))
           <=> ~FitsInterface(old, Plain(new))
<1> DEFINE o == ConvertInterface(old)
           n == ConvertInterface(new)
           F == UNION {CompareSignatures(o.functions[f], n.functions[f], Append(path, f)) :
                         f \in DOMAIN o.functions \cap DOMAIN n.functions}
           T == UNION {CompareTypeDefs(o.types[t], n.types[t], Append(path, t)) :
                         t \in DOMAIN o.types \cap DOMAIN n.types}
           Both == NamedTypes(old) \cap NamedTypes(new)
<1>1. /\ o.functions = old.functions /\ n.functions = new.functions
      /\ DOMAIN o.types = NamedTypes(old) /\ DOMAIN n.types = NamedTypes(new)
      /\ \A t \in NamedTypes(old) : o.types[t] = ConvertTypeDef(old.types[t])
      /\ \A t \in NamedTypes(new) : n.types[t] = ConvertTypeDef(new.types[t])
  BY DEF ConvertInterface, NamedTypes
<1>2. ~Grows(F)
  <2> SUFFICES ASSUME NEW f, Grows(CompareSignatures(o.functions[f], n.functions[f], Append(path, f)))
               PROVE  FALSE
    BY DEF Grows
  <2> HIDE DEF o, n
  <2> QED  BY SignatureGrowsNot
<1>3. Grows(T) <=> \E t \in Both :
                     Grows(CompareTypeDefs(ConvertTypeDef(old.types[t]),
                                           ConvertTypeDef(new.types[t]), Append(path, t)))
  BY <1>1 DEF Grows
<1>4. \A t \in DOMAIN old.types : t \in DOMAIN new.types /\ FitsType(new.types[t], old.types[t])
  BY DEF FitsInterface
<1>5. \A t \in Both :
        Grows(CompareTypeDefs(ConvertTypeDef(old.types[t]), ConvertTypeDef(new.types[t]),
                              Append(path, t)))
          <=> ~FitsType(old.types[t], new.types[t])
  <2> SUFFICES ASSUME NEW t \in Both
               PROVE  Grows(CompareTypeDefs(ConvertTypeDef(old.types[t]),
                                            ConvertTypeDef(new.types[t]), Append(path, t)))
                        <=> ~FitsType(old.types[t], new.types[t])
    OBVIOUS
  <2>1. FitsType(new.types[t], old.types[t])
    BY <1>4 DEF NamedTypes
  <2> QED  BY <2>1, FitsTypeBack, TypeDefGrows
<1>6. Grows(CompareInterfaceContents(o, n, path)) <=>
        \/ ~(DOMAIN new.functions \subseteq DOMAIN old.functions)
        \/ ~(NamedTypes(new) \subseteq NamedTypes(old))
        \/ Grows(T)
  <2> DEFINE RF == Removed(DOMAIN o.functions, DOMAIN n.functions, path)
             AF == Added(DOMAIN o.functions, DOMAIN n.functions, path)
             RR == Removed(o.resources, n.resources, path)
             RT == Removed(DOMAIN o.types, DOMAIN n.types, path)
             AT == Added(DOMAIN o.types, DOMAIN n.types, path)
             All == CompareInterfaceContents(o, n, path)
  <2>1. All = (((((RF \cup AF) \cup F) \cup RR) \cup RT) \cup T) \cup AT
    BY DEF CompareInterfaceContents
  <2>2. ~Grows(RF) /\ ~Grows(RR) /\ ~Grows(RT)
    BY RemovedGrowsNot
  <2>3. Grows(AF) <=> ~(DOMAIN n.functions \subseteq DOMAIN o.functions)
    <3> HIDE DEF o, n
    <3> QED  BY AddedGrows
  <2>4. Grows(AT) <=> ~(DOMAIN n.types \subseteq DOMAIN o.types)
    <3> HIDE DEF o, n
    <3> QED  BY AddedGrows
  <2> HIDE DEF F, T, RF, AF, RR, RT, AT, All, o, n
  <2>5. Grows(All) <=> Grows(((((RF \cup AF) \cup F) \cup RR) \cup RT) \cup T) \/ Grows(AT)
    BY <2>1, GrowsUnion
  <2>6. Grows(((((RF \cup AF) \cup F) \cup RR) \cup RT) \cup T) <=>
          Grows((((RF \cup AF) \cup F) \cup RR) \cup RT) \/ Grows(T)
    BY GrowsUnion
  <2>7. Grows((((RF \cup AF) \cup F) \cup RR) \cup RT) <=>
          Grows(((RF \cup AF) \cup F) \cup RR) \/ Grows(RT)
    BY GrowsUnion
  <2>8. Grows(((RF \cup AF) \cup F) \cup RR) <=>
          Grows(RF) \/ Grows(AF) \/ Grows(F) \/ Grows(RR)
    BY ZenonT(40), GrowsUnion
  <2> QED  BY <1>1, <1>2, <2>2, <2>3, <2>4, <2>5, <2>6, <2>7, <2>8 DEF All
<1>7. FitsInterface(old, Plain(new)) <=>
        /\ \A f \in DOMAIN new.functions :
             f \in DOMAIN old.functions /\ old.functions[f] = new.functions[f]
        /\ \A t \in NamedTypes(new) :
             t \in DOMAIN old.types /\ FitsType(old.types[t], new.types[t])
  <2>1. /\ Plain(new).functions = new.functions /\ DOMAIN Plain(new).types = NamedTypes(new)
        /\ \A t \in NamedTypes(new) : Plain(new).types[t] = new.types[t]
    BY DEF Plain
  <2> QED  BY <2>1 DEF FitsInterface
<1>8. (\A f \in DOMAIN new.functions :
         f \in DOMAIN old.functions /\ old.functions[f] = new.functions[f])
        <=> DOMAIN new.functions \subseteq DOMAIN old.functions
  BY DEF FitsInterface
<1>9. (\A t \in NamedTypes(new) : t \in DOMAIN old.types /\ FitsType(old.types[t], new.types[t]))
        <=> /\ NamedTypes(new) \subseteq NamedTypes(old)
            /\ \A t \in Both : FitsType(old.types[t], new.types[t])
  <2>1. \A t \in NamedTypes(new) : t \in DOMAIN old.types => t \in NamedTypes(old)
    BY <1>4 DEF FitsType, NamedTypes
  <2>2. NamedTypes(old) \subseteq DOMAIN old.types
    BY DEF NamedTypes
  <2> QED  BY <2>1, <2>2
<1> HIDE DEF F, T, o, n
<1>10. Grows(T) <=> ~(\A t \in Both : FitsType(old.types[t], new.types[t]))
  BY <1>3, <1>5
<1> QED  BY <1>6, <1>7, <1>8, <1>9, <1>10 DEF o, n

(* A new version that fits every client of the old one is judged plainly   *)
(* compatible exactly when the old one, resources apart, fits every client *)
(* of the new one.                                                         *)
THEOREM AdditionsExact ==
  ASSUME NEW old, NEW new, WellFormed(old), WellFormed(new), Fits(new, old)
  PROVE  CheckCompatibility(old, new) = IF Fits(old, WithoutResources(new)) THEN "Compatible"
                                        ELSE "CompatibleWithAdditions"
<1> DEFINE O == old.interfaces
           N == new.interfaces
           U == UNION {CompareInterfaceContents(ConvertInterface(O[i]), ConvertInterface(N[i]), <<i>>) :
                         i \in DOMAIN O \cap DOMAIN N}
<1>1. CheckCompatibility(old, new) = IF Grows(Changes(old, new)) THEN "CompatibleWithAdditions"
                                     ELSE "Compatible"
  <2>1. CheckCompatibility(old, new) # "Breaking"
    BY BreakingExact
  <2> QED  BY <2>1 DEF CheckCompatibility, Verdict, Grows
<1>2. DOMAIN O \subseteq DOMAIN N /\ \A i \in DOMAIN O : FitsInterface(N[i], O[i])
  BY FitsUnrolled
<1>3. Grows(U) <=> \E i \in DOMAIN O : ~FitsInterface(O[i], Plain(N[i]))
  <2>1. Grows(U) <=> \E i \in DOMAIN O \cap DOMAIN N :
          Grows(CompareInterfaceContents(ConvertInterface(O[i]), ConvertInterface(N[i]), <<i>>))
    BY DEF Grows
  <2>2. \A i \in DOMAIN O :
          Grows(CompareInterfaceContents(ConvertInterface(O[i]), ConvertInterface(N[i]), <<i>>))
            <=> ~FitsInterface(O[i], Plain(N[i]))
    BY <1>2, InterfaceGrows
  <2> HIDE DEF U
  <2> QED  BY <1>2, <2>1, <2>2
<1>4. Grows(Changes(old, new)) <=>
        \/ ~(DOMAIN N \subseteq DOMAIN O)
        \/ Grows(U)
        \/ ~(new.worlds \subseteq old.worlds)
  <2> DEFINE RI == Removed(DOMAIN O, DOMAIN N, <<>>)
             AI == Added(DOMAIN O, DOMAIN N, <<>>)
             RW == Removed(old.worlds, new.worlds, <<"world">>)
             AW == Added(old.worlds, new.worlds, <<"world">>)
  <2>1. Changes(old, new) = ((RI \cup AI) \cup U) \cup (RW \cup AW)
    BY DEF Changes, CompareInterfaces, CompareWorlds
  <2>2. ~Grows(RI) /\ ~Grows(RW)
    BY RemovedGrowsNot
  <2>3. Grows(AI) <=> ~(DOMAIN N \subseteq DOMAIN O)
    BY AddedGrows
  <2>4. Grows(AW) <=> ~(new.worlds \subseteq old.worlds)
    BY AddedGrows
  <2> HIDE DEF U, O, N, RI, AI, RW, AW
  <2>5. Grows(Changes(old, new)) <=> Grows((RI \cup AI) \cup U) \/ Grows(RW \cup AW)
    BY <2>1, GrowsUnion
  <2>6. Grows((RI \cup AI) \cup U) <=> Grows(RI) \/ Grows(AI) \/ Grows(U)
    BY GrowsUnion
  <2>7. Grows(RW \cup AW) <=> Grows(RW) \/ Grows(AW)
    BY GrowsUnion
  <2> QED  BY <2>2, <2>3, <2>4, <2>5, <2>6, <2>7
<1>5. Fits(old, WithoutResources(new)) <=>
        /\ new.worlds \subseteq old.worlds
        /\ \A i \in DOMAIN N : i \in DOMAIN O /\ FitsInterface(O[i], Plain(N[i]))
  <2> DEFINE W == WithoutResources(new)
  <2>1. /\ W.worlds = new.worlds /\ DOMAIN W.interfaces = DOMAIN N
        /\ \A i \in DOMAIN N : W.interfaces[i] = Plain(N[i])
    BY DEF WithoutResources, Plain, NamedTypes
  <2> HIDE DEF W
  <2>2. Fits(old, W) <=> /\ W.worlds \subseteq old.worlds
                           /\ \A i \in DOMAIN W.interfaces :
                                i \in DOMAIN O /\ FitsInterface(O[i], W.interfaces[i])
    BY FitsUnrolled
  <2> QED  BY <2>1, <2>2 DEF W
<1> HIDE DEF U
<1>6. Fits(old, WithoutResources(new)) <=> ~Grows(Changes(old, new))
  <2> HIDE DEF O, N
  <2> QED  BY <1>2, <1>3, <1>4, <1>5
<1> QED  BY <1>1, <1>6
-----------------------------------------------------------------------------
(* What a comparison holds at any time.                                    *)
ComparisonInv ==
  versions # <<>> =>
    \E old, new \in Version : versions = <<old, new>> /\ finding = CheckCompatibility(old, new)

(* Whichever packages are compared, Breaking is never said of a version    *)
(* that serves every client of the old one, and the verdict is the one     *)
(* that the clients of the two versions would give as far as               *)
(* check_compatibility looks at them.                                      *)
THEOREM CompatibilityExactHolds == CompareSpec => []CompatibilityExact
<1>1. CompareInit => ComparisonInv
  BY DEF CompareInit, ComparisonInv
<1>2. ComparisonInv /\ [CompareNext]_comparison => ComparisonInv'
  BY DEF ComparisonInv, CompareNext, CompareVersions, comparison
<1>3. ComparisonInv => CompatibilityExact
  <2> SUFFICES ASSUME ComparisonInv, versions # <<>>
               PROVE  /\ finding = "Breaking" => ~Serves(versions[2], versions[1])
                      /\ finding = IF ~Fits(versions[2], versions[1]) THEN "Breaking"
                                   ELSE IF Fits(versions[1], WithoutResources(versions[2]))
                                   THEN "Compatible" ELSE "CompatibleWithAdditions"
    BY DEF CompatibilityExact
  <2>1. PICK old, new \in Version :
          versions = <<old, new>> /\ finding = CheckCompatibility(old, new)
    BY DEF ComparisonInv
  <2>2. WellFormed(old) /\ WellFormed(new) /\ versions[1] = old /\ versions[2] = new
    BY <2>1, VersionAssumption
  <2>3. finding = IF ~Fits(new, old) THEN "Breaking"
                  ELSE IF Fits(old, WithoutResources(new)) THEN "Compatible"
                  ELSE "CompatibleWithAdditions"
    BY <2>1, <2>2, BreakingExact, AdditionsExact
  <2>4. finding = "Breaking" => ~Serves(new, old)
    BY <2>1, <2>2, BreakingExact, ServesFits
  <2> QED  BY <2>2, <2>3, <2>4
<1> QED  BY <1>1, <1>2, <1>3, PTL DEF CompareSpec
-----------------------------------------------------------------------------
(* Depth-first search.  The linker and the pipeline builder search for a   *)
(* cycle in different ways; what they have in common is a graph g, whose   *)
(* node x has the arcs g.out[x], looked at in ascending order, and arc i   *)
(* leads to g.to[i]; the nodes done; and a stack of the nodes under way.   *)

Frames(g) == [node : g.node, index : Nat]

IsSearchable(g) ==
  /\ g.out \in [g.node -> SUBSET (Nat \ {0})]
  /\ \A x \in g.node : \A i \in g.out[x] : g.to[i] \in g.node

IsArc(g, x, y) == \E i \in g.out[x] : g.to[i] = y

OnStack(st, x) == \E f \in 1..Len(st) : st[f].node = x

(* Of any of the nodes B one has no arc from the others.                   *)
Grounded(g, B) == \A S \in SUBSET B : S # {} => \E k \in S : \A x \in S : ~IsArc(g, x, k)

(* The nodes under way are a path; what is done leads only to what is      *)
(* done; and an arc behind the one to look at next leads to what is done,  *)
(* or to the next node of the path.                                        *)
SearchInv(g, B, st) ==
  /\ B \subseteq g.node /\ st \in Seq(Frames(g))
  /\ \A i, j \in 1..Len(st) : st[i].node = st[j].node => i = j
  /\ \A i \in 1..Len(st) : st[i].node \notin B
  /\ \A i \in 1..(Len(st) - 1) : IsArc(g, st[i].node, st[i + 1].node)
  /\ \A x \in B : \A i \in g.out[x] : g.to[i] \in B
  /\ Grounded(g, B)
  /\ \A f \in 1..Len(st) : \A i \in g.out[st[f].node] :
       i < st[f].index => \/ g.to[i] \in B
                          \/ f < Len(st) /\ g.to[i] = st[f + 1].node

(* u is st with the arcs of the node on top looked at up to i.             *)
Advanced(g, st, u, i) ==
  /\ u \in Seq(Frames(g)) /\ Len(u) = Len(st) /\ Len(st) > 0
  /\ \A f \in 1..(Len(st) - 1) : u[f] = st[f]
  /\ u[Len(st)].node = st[Len(st)].node /\ u[Len(st)].index = i + 1
  /\ i \in g.out[st[Len(st)].node] /\ i >= st[Len(st)].index
  /\ \A j \in g.out[st[Len(st)].node] : st[Len(st)].index <= j => i <= j

(* u is st with node x put on top.                                         *)
Pushed(g, st, u, x) ==
  /\ x \in g.node /\ u \in Seq(Frames(g)) /\ Len(u) = Len(st) + 1
  /\ \A f \in 1..Len(st) : u[f] = st[f]
  /\ u[Len(u)].node = x /\ u[Len(u)].index = 1

(* The fields of a frame.                                                  *)
LEMMA FrameFacts ==
  ASSUME NEW g, NEW st \in Seq(Frames(g)), NEW f \in 1..Len(st)
  PROVE  st[f].node \in g.node /\ st[f].index \in Nat
<1>1. st[f] \in Frames(g)
  OBVIOUS
<1> QED BY <1>1 DEF Frames

(* An arc to what is done is passed by.                                    *)
LEMMA SearchOn ==
  ASSUME NEW g, IsSearchable(g), NEW B, NEW st, SearchInv(g, B, st),
         NEW u, NEW i, Advanced(g, st, u, i), g.to[i] \in B
  PROVE  SearchInv(g, B, u)
<1> DEFINE n == Len(st)
<1>1. n \in Nat /\ n > 0 /\ Len(u) = n /\ st \in Seq(Frames(g)) /\ u \in Seq(Frames(g))
  BY DEF SearchInv, Advanced
<1>2. \A f \in 1..n : st[f].node \in g.node /\ st[f].index \in Nat /\ u[f].node = st[f].node
  <2> SUFFICES ASSUME NEW f \in 1..n
               PROVE  st[f].node \in g.node /\ st[f].index \in Nat /\ u[f].node = st[f].node
    OBVIOUS
  <2>1. st[f].node \in g.node /\ st[f].index \in Nat
    BY <1>1, FrameFacts
  <2>2. f = n \/ f \in 1..(n - 1)
    BY <1>1
  <2> QED BY <2>1, <2>2 DEF Advanced
<1>3. \A x \in g.node : \A j \in g.out[x] : j \in Nat
  BY DEF IsSearchable
<1>4. ASSUME NEW f \in 1..n, NEW j \in g.out[u[f].node], j < u[f].index
      PROVE  g.to[j] \in B \/ (f < n /\ g.to[j] = u[f + 1].node)
  <2>1. j \in Nat /\ i \in Nat
    <3>1. u[f].node \in g.node /\ st[n].node \in g.node /\ i \in g.out[st[n].node]
      BY <1>1, <1>2 DEF Advanced
    <3> QED BY <1>3, <3>1
  <2>2. CASE f < n
    <3>1. u[f] = st[f] /\ f + 1 \in 1..n
      BY <1>1, <2>2 DEF Advanced
    <3>2. g.to[j] \in B \/ g.to[j] = st[f + 1].node
      BY <1>4, <2>2, <3>1 DEF SearchInv
    <3> QED BY <1>2, <2>2, <3>1, <3>2
  <2>3. CASE f = n
    <3>1. CASE j < st[n].index
      BY <1>1, <1>2, <1>4, <2>3, <3>1 DEF SearchInv
    <3>2. CASE st[n].index <= j
      <4>1. j = i
        BY <1>1, <1>2, <1>4, <2>1, <2>3, <3>2 DEF Advanced
      <4> QED BY <4>1
    <3> QED BY <1>1, <1>2, <2>1, <3>1, <3>2
  <2> QED BY <1>1, <2>2, <2>3
<1>5. \A k, j \in 1..n : u[k].node = u[j].node => k = j
  BY <1>1, <1>2 DEF SearchInv
<1>6. \A k \in 1..n : u[k].node \notin B
  BY <1>1, <1>2 DEF SearchInv
<1>7. \A k \in 1..(n - 1) : IsArc(g, u[k].node, u[k + 1].node)
  BY <1>1, <1>2 DEF SearchInv
<1> QED BY <1>1, <1>4, <1>5, <1>6, <1>7 DEF SearchInv

(* A search begins with any node that is not done.                         *)
LEMMA SearchBegin ==
  ASSUME NEW g, IsSearchable(g), NEW B, NEW st, SearchInv(g, B, st), st = <<>>,
         NEW u, NEW x, x \notin B, Pushed(g, st, u, x)
  PROVE  SearchInv(g, B, u)
<1>1. Len(st) = 0 /\ Len(u) = 1 /\ u \in Seq(Frames(g)) /\ u[1].node = x /\ u[1].index = 1
  BY DEF Pushed
<1>2. \A j \in g.out[x] : j \in Nat \ {0}
  BY DEF IsSearchable, Pushed
<1> QED BY <1>1, <1>2 DEF SearchInv

(* An arc to a new node is followed.                                       *)
LEMMA SearchDown ==
  ASSUME NEW g, IsSearchable(g), NEW B, NEW st, SearchInv(g, B, st),
         NEW v, NEW u, NEW i, Advanced(g, st, v, i), Pushed(g, v, u, g.to[i]),
         g.to[i] \notin B, ~OnStack(st, g.to[i])
  PROVE  SearchInv(g, B, u)
<1> DEFINE n == Len(st)
           x == g.to[i]
<1>1. /\ n \in Nat /\ n > 0 /\ Len(v) = n /\ Len(u) = n + 1
      /\ st \in Seq(Frames(g)) /\ u \in Seq(Frames(g)) /\ v \in Seq(Frames(g))
  BY DEF SearchInv, Advanced, Pushed
<1>2. /\ \A f \in 1..n : st[f].node \in g.node /\ st[f].index \in Nat /\ u[f].node = st[f].node
      /\ \A f \in 1..(n - 1) : u[f] = st[f]
      /\ u[n].index = i + 1 /\ u[n + 1].node = x /\ u[n + 1].index = 1 /\ x \in g.node
  <2>1. \A f \in 1..n : st[f].node \in g.node /\ st[f].index \in Nat
    BY <1>1, FrameFacts
  <2>2. \A f \in 1..n : u[f] = v[f] /\ (f = n \/ f \in 1..(n - 1))
    BY <1>1 DEF Pushed
  <2>3. (\A f \in 1..(n - 1) : v[f] = st[f]) /\ v[n].node = st[n].node /\ v[n].index = i + 1
    BY DEF Advanced
  <2>4. u[n + 1].node = x /\ u[n + 1].index = 1 /\ x \in g.node
    BY <1>1 DEF Pushed
  <2> QED BY <1>1, <2>1, <2>2, <2>3, <2>4
<1>3. \A y \in g.node : \A j \in g.out[y] : j \in Nat \ {0}
  BY DEF IsSearchable
<1>4. i \in g.out[st[n].node] /\ i \in Nat
  BY <1>1, <1>2, <1>3 DEF Advanced
<1>5. ASSUME NEW f \in 1..(n + 1), NEW j \in g.out[u[f].node], j < u[f].index
      PROVE  g.to[j] \in B \/ (f < n + 1 /\ g.to[j] = u[f + 1].node)
  <2>2. CASE f < n
    BY <1>1, <1>2, <1>5, <2>2 DEF SearchInv
  <2>3. CASE f = n
    <3>0. j \in Nat
      BY <1>1, <1>2, <1>3, <2>3
    <3>1. CASE j < st[n].index
      BY <1>1, <1>2, <1>5, <2>3, <3>1 DEF SearchInv
    <3>2. CASE st[n].index <= j
      <4>1. j = i
        BY <1>1, <1>2, <1>4, <1>5, <2>3, <3>0, <3>2 DEF Advanced
      <4> QED BY <1>1, <1>2, <2>3, <4>1
    <3> QED BY <1>1, <1>2, <3>0, <3>1, <3>2
  <2>4. CASE f = n + 1
    BY <1>2, <1>3, <1>5, <2>4
  <2> QED BY <1>1, <2>2, <2>3, <2>4
<1>6. \A k \in 1..n : st[k].node # x
  BY DEF OnStack
<1>7. \A k, j \in 1..(n + 1) : u[k].node = u[j].node => k = j
  BY <1>1, <1>2, <1>6 DEF SearchInv
<1>8. \A k \in 1..(n + 1) : u[k].node \notin B
  BY <1>1, <1>2 DEF SearchInv
<1>9. \A k \in 1..((n + 1) - 1) : IsArc(g, u[k].node, u[k + 1].node)
  <2> SUFFICES ASSUME NEW k \in 1..n PROVE IsArc(g, u[k].node, u[k + 1].node)
    BY <1>1
  <2>1. CASE k < n
    BY <1>1, <1>2, <2>1 DEF SearchInv
  <2>2. CASE k = n
    BY <1>1, <1>2, <1>4, <2>2 DEF IsArc
  <2> QED BY <1>1, <2>1, <2>2
<1> QED BY <1>1, <1>5, <1>7, <1>8, <1>9 DEF SearchInv

(* A node whose arcs have been looked at is done.                          *)
LEMMA SearchUp ==
  ASSUME NEW g, IsSearchable(g), NEW B, NEW st, SearchInv(g, B, st), Len(st) > 0,
         \A i \in g.out[st[Len(st)].node] : i < st[Len(st)].index,
         NEW u \in Seq(Frames(g)), Len(u) = Len(st) - 1, \A f \in 1..Len(u) : u[f] = st[f]
  PROVE  SearchInv(g, B \cup {st[Len(st)].node}, u)
<1> DEFINE n == Len(st)
           x == st[n].node
           C == B \cup {x}
<1>1. n \in Nat /\ n > 0 /\ Len(u) = n - 1 /\ st \in Seq(Frames(g))
  BY DEF SearchInv
<1>2. \A f \in 1..n : st[f].node \in g.node /\ st[f].index \in Nat
  BY <1>1, FrameFacts
<1>3. \A i \in g.out[x] : g.to[i] \in B
  BY <1>1 DEF SearchInv
<1>4. x \in g.node /\ x \notin B
  BY <1>1, <1>2 DEF SearchInv
<1>5. Grounded(g, C)
  <2> SUFFICES ASSUME NEW S \in SUBSET C, S # {}
               PROVE  \E k \in S : \A y \in S : ~IsArc(g, y, k)
    BY DEF Grounded
  <2>1. CASE x \in S
    <3>1. ASSUME NEW y \in S PROVE ~IsArc(g, y, x)
      <4>1. \A i \in g.out[y] : g.to[i] \in B
        BY <1>3 DEF SearchInv
      <4> QED BY <1>4, <4>1 DEF IsArc
    <3> QED BY <2>1, <3>1
  <2>2. CASE x \notin S
    BY <2>2 DEF SearchInv, Grounded
  <2> QED BY <2>1, <2>2
<1>6. \A k \in 1..(n - 1) : u[k].node \notin C
  BY <1>1 DEF SearchInv
<1>7. ASSUME NEW f \in 1..(n - 1), NEW j \in g.out[u[f].node], j < u[f].index
      PROVE  g.to[j] \in C \/ (f < n - 1 /\ g.to[j] = u[f + 1].node)
  <2>1. f < n /\ f \in 1..n /\ u[f] = st[f]
    BY <1>1
  <2>2. g.to[j] \in B \/ g.to[j] = st[f + 1].node
    BY <1>7, <2>1 DEF SearchInv
  <2>3. CASE f < n - 1
    BY <1>1, <2>2, <2>3
  <2>4. CASE f = n - 1
    BY <1>1, <2>2, <2>4
  <2> QED BY <1>1, <2>3, <2>4
<1>8. \A k, j \in 1..(n - 1) : u[k].node = u[j].node => k = j
  BY <1>1 DEF SearchInv
<1>9. \A k \in 1..((n - 1) - 1) : IsArc(g, u[k].node, u[k + 1].node)
  BY <1>1 DEF SearchInv
<1>10. C \subseteq g.node /\ \A y \in C : \A i \in g.out[y] : g.to[i] \in C
  BY <1>3, <1>4 DEF SearchInv
<1> HIDE DEF C
<1>11. SearchInv(g, C, u)
  BY <1>1, <1>5, <1>6, <1>7, <1>8, <1>9, <1>10 DEF SearchInv
<1> QED BY <1>11 DEF C

(* What has been done: a node begun is 0, a node left -1, an arc looked at *)
(* its number.                                                             *)
Tasks(g) == {p \in g.node \X Int : p[2] \in {-1, 0} \cup g.out[p[1]]}

Done(g, B, st) ==
  {p \in Tasks(g) :
     \/ p[1] \in B
     \/ \E f \in 1..Len(st) : st[f].node = p[1] /\ -1 < p[2] /\ p[2] < st[f].index}

(* More has been done.                                                     *)
Grew(D, C) == D \subseteq C /\ \E p \in C : p \notin D

(* An arc looked at is one more.                                           *)
LEMMA DoneOn ==
  ASSUME NEW g, IsSearchable(g), NEW B, NEW st, SearchInv(g, B, st),
         NEW u, NEW i, Advanced(g, st, u, i)
  PROVE  Grew(Done(g, B, st), Done(g, B, u))
<1> DEFINE n == Len(st)
           x == st[n].node
           p == <<x, i>>
<1>1. n \in Nat /\ n > 0 /\ Len(u) = n /\ st \in Seq(Frames(g)) /\ u \in Seq(Frames(g))
  BY DEF SearchInv, Advanced
<1>2. \A f \in 1..n : st[f].index \in Nat /\ (f = n \/ f \in 1..(n - 1))
  BY <1>1, FrameFacts
<1>3. x \in g.node /\ i \in Nat /\ i \in g.out[x] /\ i >= st[n].index
  <2>1. x \in g.node
    BY <1>1, FrameFacts
  <2> QED BY <2>1 DEF Advanced, IsSearchable
<1>4. \A f \in 1..n : u[f].node = st[f].node /\ st[f].index <= u[f].index
  BY <1>1, <1>2, <1>3 DEF Advanced
<1>5. \A f \in 1..n : u[f].index \in Nat
  BY <1>1, FrameFacts
<1>6. ASSUME NEW q \in Done(g, B, st) PROVE q \in Done(g, B, u)
  <2>1. q \in Tasks(g) /\ q[2] \in Int
    BY DEF Done, Tasks
  <2>2. CASE q[1] \in B
    BY <2>1, <2>2 DEF Done
  <2>3. CASE \E f \in 1..n : st[f].node = q[1] /\ -1 < q[2] /\ q[2] < st[f].index
    <3>1. PICK f \in 1..n : st[f].node = q[1] /\ -1 < q[2] /\ q[2] < st[f].index
      BY <2>3
    <3>2. u[f].node = q[1] /\ q[2] < u[f].index
      BY <1>2, <1>4, <1>5, <2>1, <3>1
    <3> QED BY <1>1, <2>1, <3>1, <3>2 DEF Done
  <2> QED BY <2>2, <2>3 DEF Done
<1>7. p \in Tasks(g) /\ p[1] = x /\ p[2] = i
  BY <1>3 DEF Tasks
<1> HIDE DEF p
<1>8. p \in Done(g, B, u)
  <2>1. n \in 1..n /\ u[n].node = p[1] /\ -1 < p[2] /\ p[2] < u[n].index
    BY <1>1, <1>3, <1>7 DEF Advanced
  <2> QED BY <1>1, <1>7, <2>1 DEF Done
<1>9. p \notin Done(g, B, st)
  <2>1. p[1] \notin B
    BY <1>1, <1>7 DEF SearchInv
  <2>2. ASSUME NEW f \in 1..n, st[f].node = p[1] PROVE ~(p[2] < st[f].index)
    <3>1. f = n
      BY <1>1, <1>7, <2>2 DEF SearchInv
    <3> QED BY <1>2, <1>3, <1>7, <3>1
  <2> QED BY <2>1, <2>2 DEF Done
<1> QED BY <1>6, <1>8, <1>9 DEF Grew

(* A node begun is one more.                                               *)
LEMMA DonePush ==
  ASSUME NEW g, IsSearchable(g), NEW B, NEW st, st \in Seq(Frames(g)),
         NEW u, NEW x, Pushed(g, st, u, x), x \notin B, ~OnStack(st, x)
  PROVE  Grew(Done(g, B, st), Done(g, B, u))
<1> DEFINE n == Len(st)
           p == <<x, 0>>
<1>1. n \in Nat /\ Len(u) = n + 1 /\ x \in g.node /\ \A f \in 1..n : u[f] = st[f]
  BY DEF Pushed
<1>2. ASSUME NEW q \in Done(g, B, st) PROVE q \in Done(g, B, u)
  <2>1. q \in Tasks(g)
    BY DEF Done
  <2>2. CASE q[1] \in B
    BY <2>1, <2>2 DEF Done
  <2>3. CASE \E f \in 1..n : st[f].node = q[1] /\ -1 < q[2] /\ q[2] < st[f].index
    <3>1. PICK f \in 1..n : st[f].node = q[1] /\ -1 < q[2] /\ q[2] < st[f].index
      BY <2>3
    <3>2. f \in 1..(n + 1) /\ u[f].node = q[1] /\ q[2] < u[f].index
      BY <1>1, <3>1
    <3> QED BY <1>1, <2>1, <3>1, <3>2 DEF Done
  <2> QED BY <2>2, <2>3 DEF Done
<1>3. p \in Tasks(g) /\ p[1] = x /\ p[2] = 0
  BY <1>1 DEF Tasks
<1> HIDE DEF p
<1>4. p \in Done(g, B, u)
  <2>1. n + 1 \in 1..(n + 1) /\ u[n + 1].node = p[1] /\ -1 < p[2] /\ p[2] < u[n + 1].index
    BY <1>1, <1>3 DEF Pushed
  <2> QED BY <1>1, <1>3, <2>1 DEF Done
<1>5. p \notin Done(g, B, st)
  BY <1>3 DEF Done, OnStack
<1> QED BY <1>2, <1>4, <1>5 DEF Grew

(* A node left is one more.                                                *)
LEMMA DoneUp ==
  ASSUME NEW g, NEW B, NEW st, SearchInv(g, B, st), Len(st) > 0,
         NEW u, Len(u) = Len(st) - 1, \A f \in 1..Len(u) : u[f] = st[f]
  PROVE  Grew(Done(g, B, st), Done(g, B \cup {st[Len(st)].node}, u))
<1> DEFINE n == Len(st)
           x == st[n].node
           p == <<x, -1>>
           C == B \cup {x}
<1>1. n \in Nat /\ n > 0 /\ x \in g.node /\ x \notin B
  <2>1. n \in Nat /\ n > 0 /\ st \in Seq(Frames(g))
    BY DEF SearchInv
  <2> QED BY <2>1, FrameFacts DEF SearchInv
<1>2. ASSUME NEW q \in Done(g, B, st) PROVE q \in Done(g, C, u)
  <2>1. q \in Tasks(g)
    BY DEF Done
  <2>2. CASE q[1] \in C
    BY <2>1, <2>2 DEF Done
  <2>3. CASE q[1] \notin C
    <3>1. PICK f \in 1..n : st[f].node = q[1] /\ -1 < q[2] /\ q[2] < st[f].index
      BY <2>3 DEF Done
    <3>2. f \in 1..(n - 1)
      BY <1>1, <2>3, <3>1
    <3>3. f \in 1..Len(u) /\ u[f].node = q[1] /\ q[2] < u[f].index
      BY <1>1, <3>1, <3>2
    <3> QED BY <2>1, <3>1, <3>3 DEF Done
  <2> QED BY <2>2, <2>3
<1>3. p \in Tasks(g) /\ p[1] = x /\ p[2] = -1
  BY <1>1 DEF Tasks
<1> HIDE DEF p
<1>4. p \in Done(g, C, u)
  BY <1>3 DEF Done
<1>5. p \notin Done(g, B, st)
  BY <1>1, <1>3 DEF Done
<1> HIDE DEF C
<1>6. Grew(Done(g, B, st), Done(g, C, u))
  BY <1>2, <1>4, <1>5 DEF Grew
<1> QED BY <1>6 DEF C

(* A set that grows among finitely many elements has a greater number.     *)
LEMMA GrewMore ==
  ASSUME NEW D, NEW C, NEW T, IsFiniteSet(T), C \subseteq T, Grew(D, C)
  PROVE  /\ Cardinality(D) \in Nat /\ Cardinality(C) \in Nat /\ Cardinality(T) \in Nat
         /\ Cardinality(D) + 1 <= Cardinality(C) /\ Cardinality(C) <= Cardinality(T)
<1>1. D \subseteq C /\ D # C
  BY DEF Grew
<1>2. IsFiniteSet(C) /\ Cardinality(C) <= Cardinality(T)
  BY FS_Subset
<1>3. IsFiniteSet(D) /\ Cardinality(D) <= Cardinality(C) /\ Cardinality(D) # Cardinality(C)
  BY <1>1, <1>2, FS_Subset
<1> QED BY <1>2, <1>3, FS_CardinalityType

(* More and more.                                                          *)
LEMMA GrewOn ==
  ASSUME NEW A, NEW B, NEW C, Grew(A, B), Grew(B, C)
  PROVE  Grew(A, C)
BY DEF Grew

(* Before anything is done.                                                *)
LEMMA SearchNothing ==
  ASSUME NEW g
  PROVE  SearchInv(g, {}, <<>>)
<1> DEFINE st == <<>>
<1>1. st \in Seq(Frames(g)) /\ Len(st) = 0
  OBVIOUS
<1>2. (\A i \in 1..Len(st) : FALSE) /\ (\A i \in 1..(Len(st) - 1) : FALSE)
  BY <1>1
<1>3. Grounded(g, {})
  BY DEF Grounded
<1> HIDE DEF st
<1>4. SearchInv(g, {}, st)
  BY <1>1, <1>2, <1>3 DEF SearchInv
<1> QED BY <1>4 DEF st

-----------------------------------------------------------------------------
(* A closed walk.                                                          *)

(* The arcs are edges.                                                     *)
IsAlong(g, t) == \A x, y \in g.node : IsArc(g, x, y) => <<x, y>> \in EdgesOf(t)

(* The path from its place j on, and back.                                 *)
ClosesAt(c, st, j) ==
  /\ j \in 1..Len(st) /\ Len(c) = Len(st) - j + 2 /\ c[Len(c)] = st[j].node
  /\ \A i \in 1..(Len(st) - j + 1) : c[i] = st[j + i - 1].node

(* An arc back to the path closes a cycle.                                 *)
LEMMA BackArc ==
  ASSUME NEW t, NEW g, NEW B, NEW st, SearchInv(g, B, st), IsAlong(g, t),
         NEW j, NEW c, ClosesAt(c, st, j), IsArc(g, st[Len(st)].node, st[j].node)
  PROVE  IsCycle(t, c)
<1> DEFINE n == Len(st)
           m == n - j + 1
<1>1. n \in Nat /\ j \in 1..n /\ m \in Nat /\ m > 0 /\ Len(c) = m + 1 /\ st \in Seq(Frames(g))
  BY DEF SearchInv, ClosesAt
<1>2. \A i \in 1..m : j + i - 1 \in 1..n /\ c[i] = st[j + i - 1].node
  BY <1>1 DEF ClosesAt
<1>3. \A f \in 1..n : st[f].node \in g.node
  BY <1>1, FrameFacts
<1>4. c[1] = c[m + 1] /\ j + m - 1 = n /\ j + 1 - 1 = j
  BY <1>1, <1>2 DEF ClosesAt
<1>5. ASSUME NEW i \in 1..m PROVE <<c[i], c[i + 1]>> \in EdgesOf(t)
  <2> DEFINE h == j + i - 1
  <2>0. h \in 1..n /\ c[i] = st[h].node /\ st[h].node \in g.node
    BY <1>2, <1>3
  <2>1. CASE i < m
    <3>1. i + 1 \in 1..m /\ j + (i + 1) - 1 = h + 1 /\ h \in 1..(n - 1) /\ h + 1 \in 1..n
      BY <1>1, <2>1
    <3>2. c[i + 1] = st[j + (i + 1) - 1].node
      BY <1>2, <3>1
    <3>3. c[i + 1] = st[h + 1].node /\ st[h + 1].node \in g.node
      BY <1>3, <3>1, <3>2
    <3> HIDE DEF h
    <3>4. IsArc(g, st[h].node, st[h + 1].node)
      BY <3>1 DEF SearchInv
    <3> QED BY <2>0, <3>3, <3>4 DEF IsAlong
  <2>2. CASE i = m
    <3>1. h = n /\ c[i + 1] = st[j].node /\ st[j].node \in g.node
      BY <1>1, <1>3, <1>4, <2>2 DEF ClosesAt
    <3>2. IsArc(g, st[h].node, st[j].node)
      BY <3>1
    <3> DEFINE x == st[h].node
               y == st[j].node
    <3>3. x \in g.node /\ y \in g.node /\ IsArc(g, x, y)
      BY <2>0, <3>1, <3>2
    <3>4. <<x, y>> \in EdgesOf(t)
      <4> HIDE DEF x, y
      <4> QED BY <3>3 DEF IsAlong
    <3>5. c[i] = x /\ c[i + 1] = y
      BY <2>0, <3>1
    <3> HIDE DEF x, y
    <3> QED BY <3>4, <3>5
  <2>3. i < m \/ i = m
    <3> HIDE DEF m
    <3> QED BY <1>1
  <2> QED BY <2>1, <2>2, <2>3
<1>6. ASSUME NEW i \in 1..m, NEW k \in 1..m, c[i] = c[k] PROVE i = k
  <2> DEFINE a == j + i - 1
             b == j + k - 1
  <2>0. a \in 1..n /\ b \in 1..n /\ st[a].node = st[b].node
    BY <1>2, <1>6
  <2>1. a = b
    <3> HIDE DEF a, b
    <3> QED BY <2>0 DEF SearchInv
  <2> QED BY <1>1, <2>1
<1>7. (m + 1) - 1 = m /\ m + 1 > 1
  BY <1>1
<1> HIDE DEF m
<1> QED BY <1>1, <1>4, <1>5, <1>6, <1>7 DEF IsCycle

(* There is none where no stages feed each other.                          *)
LEMMA CycleFeeds ==
  ASSUME NEW t, EdgesOf(t) \subseteq StagesOf(t) \X StagesOf(t),
         NEW c, Len(c) \in Nat, IsCycle(t, c)
  PROVE  ~IsAcyclic(t)
<1> DEFINE m == Len(c) - 1
           S == {c[i] : i \in 1..m}
<1>1. m \in Nat /\ m > 0 /\ c[1] = c[m + 1] /\ \A i \in 1..m : <<c[i], c[i + 1]>> \in EdgesOf(t)
  BY DEF IsCycle
<1> HIDE DEF m
<1>2. S \in SUBSET StagesOf(t) /\ S # {}
  <2>1. \A i \in 1..m : c[i] \in StagesOf(t)
    BY <1>1
  <2> QED BY <1>1, <2>1
<1>3. ASSUME NEW k \in S PROVE \E e \in EdgesOf(t) : e[2] = k /\ e[1] \in S
  <2>1. PICK i \in 1..m : k = c[i]
    OBVIOUS
  <2> DEFINE h == IF i = 1 THEN m ELSE i - 1
             e == <<c[h], c[h + 1]>>
  <2>2. h \in 1..m /\ c[h + 1] = k
    BY <1>1, <2>1
  <2> HIDE DEF h
  <2>3. e \in EdgesOf(t) /\ e[2] = k /\ e[1] = c[h] /\ c[h] \in S
    BY <1>1, <2>2
  <2> HIDE DEF e
  <2> QED BY <2>3
<1> HIDE DEF S
<1> QED BY <1>2, <1>3 DEF IsAcyclic

(* The least number of a set.                                              *)
LEMMA MinFacts ==
  ASSUME NEW S \in SUBSET Nat, S # {}
  PROVE  Min(S) \in S /\ \A n \in S : Min(S) <= n
<1>1. PICK m \in S : \A n \in S : m <= n
  BY LeastNatural
<1> QED BY <1>1 DEF Min

(* Stacks: going on at the top, adding to it, and taking it away.          *)
LEMMA StackFacts ==
  ASSUME NEW F, NEW st \in Seq(F)
  PROVE  /\ \A x \in F : LET u == Append(st, x)
                          IN  /\ u \in Seq(F) /\ Len(u) = Len(st) + 1 /\ u[Len(u)] = x
                              /\ \A f \in 1..Len(st) : u[f] = st[f]
         /\ Len(st) > 0 =>
              LET u == Front(st)
              IN  u \in Seq(F) /\ Len(u) = Len(st) - 1 /\ \A f \in 1..Len(u) : u[f] = st[f]
<1>1. ASSUME NEW x \in F
      PROVE  LET u == Append(st, x)
             IN  /\ u \in Seq(F) /\ Len(u) = Len(st) + 1 /\ u[Len(u)] = x
                 /\ \A f \in 1..Len(st) : u[f] = st[f]
  OBVIOUS
<1>2. ASSUME Len(st) > 0
      PROVE  LET u == Front(st)
             IN  u \in Seq(F) /\ Len(u) = Len(st) - 1 /\ \A f \in 1..Len(u) : u[f] = st[f]
  <2> DEFINE m == Len(st) - 1
             u == SubSeq(st, 1, m)
  <2>1. m \in Nat /\ 1 \in Int /\ \A i \in 1..m : st[i] \in F
    BY <1>2
  <2>2. /\ u \in Seq(F)
        /\ Len(u) = IF 1 <= m THEN m - 1 + 1 ELSE 0
        /\ \A i \in 1..(m - 1 + 1) : u[i] = st[1 + i - 1]
    <3> HIDE DEF m
    <3> QED BY <2>1, SubSeqProperties
  <2>3. Front(st) = u
    BY DEF Front
  <2> HIDE DEF u, m
  <2>4. Len(u) = m /\ \A i \in 1..m : u[i] = st[i]
    BY <2>1, <2>2
  <2> QED BY <2>2, <2>3, <2>4 DEF m
<1> QED BY <1>1, <1>2

(* Going on at the top of the stack.                                       *)
LEMMA AdvanceFacts ==
  ASSUME NEW g, NEW st \in Seq(Frames(g)), Len(st) > 0, NEW i \in Nat,
         i \in g.out[st[Len(st)].node], i >= st[Len(st)].index,
         \A j \in g.out[st[Len(st)].node] : st[Len(st)].index <= j => i <= j
  PROVE  Advanced(g, st, [st EXCEPT ![Len(st)].index = i + 1], i)
<1> DEFINE n == Len(st)
           u == [st EXCEPT ![n].index = i + 1]
           x == [st[n] EXCEPT !.index = i + 1]
<1>1. n \in Nat /\ n \in 1..n /\ DOMAIN st = 1..n /\ st[n] \in Frames(g)
  OBVIOUS
<1>2. x \in Frames(g) /\ x.node = st[n].node /\ x.index = i + 1
  BY <1>1 DEF Frames
<1>3. u = [st EXCEPT ![n] = x]
  OBVIOUS
<1> HIDE DEF x
<1>4. u \in Seq(Frames(g)) /\ Len(u) = n /\ u[n] = x /\ \A f \in 1..(n - 1) : u[f] = st[f]
  BY <1>1, <1>2, <1>3
<1> HIDE DEF u
<1> QED BY <1>1, <1>2, <1>4 DEF Advanced, u

(* A loop that does at least one thing more with every turn ends when      *)
(* there is no more to do.                                                 *)
LEMMA LoopEnds ==
  ASSUME NEW N \in Nat, NEW T, IsFiniteSet(T), Cardinality(T) <= N,
         NEW D, \A n \in 0..N : D[n] \in SUBSET T,
         NEW over, \A n \in 0..(N - 1) : \/ n + 1 \in over
                                         \/ n \notin over /\ Grew(D[n], D[n + 1]),
         N \notin over => D[N] # T
  PROVE  N \in over
<1> DEFINE S == {n \in 0..N : n \in over \/ n <= Cardinality(D[n])}
<1>1. \A n \in 0..N : IsFiniteSet(D[n]) /\ Cardinality(D[n]) \in Nat
  BY FS_Subset, FS_CardinalityType
<1>2. 0 \in S
  BY <1>1
<1>3. ASSUME NEW n \in 0..(N - 1), n \in S PROVE n + 1 \in S
  <2>1. n + 1 \in 0..N /\ n \in 0..N
    OBVIOUS
  <2>2. CASE n + 1 \in over
    BY <2>1, <2>2
  <2>3. CASE n \notin over /\ Grew(D[n], D[n + 1])
    <3> DEFINE A == D[n]
               C == D[n + 1]
    <3>1. C \subseteq T /\ Grew(A, C)
      BY <2>1, <2>3
    <3>2. Cardinality(A) + 1 <= Cardinality(C)
      <4> HIDE DEF A, C
      <4> QED BY <3>1, GrewMore
    <3>3. n <= Cardinality(A) /\ Cardinality(A) \in Nat /\ Cardinality(C) \in Nat
      BY <1>1, <1>3, <2>1, <2>3
    <3>4. n + 1 <= Cardinality(C)
      BY <3>2, <3>3
    <3> QED BY <2>1, <3>4
  <2> QED BY <2>2, <2>3
<1> HIDE DEF S
<1>4. \A n \in 0..N : n \in S
  BY <1>2, <1>3, Induction
<1>5. N \in S /\ N \in 0..N
  BY <1>4
<1> SUFFICES ASSUME N \notin over PROVE FALSE
  OBVIOUS
<1> DEFINE C == D[N]
<1>6. N <= Cardinality(C) /\ C \in SUBSET T /\ C # T /\ Cardinality(C) \in Nat
  BY <1>1, <1>5 DEF S
<1> HIDE DEF C
<1>7. Cardinality(C) <= Cardinality(T) /\ Cardinality(C) # Cardinality(T) /\ Cardinality(T) \in Nat
  BY <1>6, FS_Subset, FS_CardinalityType
<1> QED BY <1>6, <1>7

(* When everything is done, so is every node, and none is under way.       *)
LEMMA AllDone ==
  ASSUME NEW g, NEW B, NEW st, SearchInv(g, B, st), Done(g, B, st) = Tasks(g)
  PROVE  st = <<>> /\ B = g.node
<1>1. ASSUME NEW x \in g.node PROVE x \in B
  <2> DEFINE p == <<x, -1>>
  <2>1. p \in Tasks(g) /\ p[1] = x /\ p[2] = -1
    BY DEF Tasks
  <2> HIDE DEF p
  <2> QED BY <2>1 DEF Done
<1>2. st \in Seq(Frames(g)) /\ \A i \in 1..Len(st) : st[i].node \in g.node
  BY FrameFacts DEF SearchInv
<1>3. Len(st) = 0
  <2> SUFFICES ASSUME Len(st) # 0 PROVE FALSE
    OBVIOUS
  <2>1. 1 \in 1..Len(st)
    BY <1>2
  <2> QED BY <1>1, <1>2, <2>1 DEF SearchInv
<1> QED BY <1>1, <1>2, <1>3 DEF SearchInv
-----------------------------------------------------------------------------
(* The linker's search for a cycle.                                        *)

(* The connections and the keys are numbered from 1.                       *)
Wired(t, keys) ==
  /\ Len(t.conns) \in Nat /\ DOMAIN t.conns = 1..Len(t.conns)
  /\ Len(keys) \in Nat /\ DOMAIN keys = 1..Len(keys)

LinkGraph(t, keys) ==
  [node |-> NodesOf(t, keys),
   out  |-> [x \in NodesOf(t, keys) |-> OutEdges(t, x)],
   to   |-> [i \in DOMAIN t.conns |-> t.conns[i].to]]

Walks(t, keys) ==
  [visited : SUBSET NodesOf(t, keys),
   stack   : Seq(Frames(LinkGraph(t, keys))),
   cycle   : Seq(NodesOf(t, keys))]

(* A node that was visited and is not under way is done.                   *)
Returned(w) == {x \in w.visited : ~OnStack(w.stack, x)}

DfsInv(t, keys, w) ==
  /\ w \in Walks(t, keys)
  /\ \A f \in 1..Len(w.stack) : w.stack[f].node \in w.visited
  /\ SearchInv(LinkGraph(t, keys), Returned(w), w.stack)
  /\ w.cycle # <<>> => IsCycle(t, w.cycle)

(* The search has ended.                                                   *)
Over(keys, w) ==
  w.cycle # <<>> \/ (w.stack = <<>> /\ \A i \in DOMAIN keys : keys[i] \in w.visited)

DfsDone(t, keys, w) == Done(LinkGraph(t, keys), Returned(w), w.stack)

(* What a turn brings about.                                               *)
DfsGoes(t, keys, w, u) ==
  DfsInv(t, keys, u) /\ (u.cycle # <<>> \/ Grew(DfsDone(t, keys, w), DfsDone(t, keys, u)))

(* The graph of the connections.                                           *)
LEMMA LinkGraphFacts ==
  ASSUME NEW t, NEW keys, Wired(t, keys)
  PROVE  LET g == LinkGraph(t, keys)
         IN  /\ IsSearchable(g) /\ g.node = NodesOf(t, keys)
             /\ \A x \in g.node : g.out[x] = OutEdges(t, x)
             /\ \A i \in DOMAIN t.conns : g.to[i] = t.conns[i].to /\ g.to[i] \in g.node
             /\ \A x, y \in g.node : IsArc(g, x, y) <=> <<x, y>> \in EdgesOf(t)
             /\ \A i \in DOMAIN keys : keys[i] \in g.node
<1> DEFINE g == LinkGraph(t, keys)
<1>1. /\ g.node = NodesOf(t, keys)
      /\ g.out = [x \in NodesOf(t, keys) |-> OutEdges(t, x)]
      /\ g.to = [i \in DOMAIN t.conns |-> t.conns[i].to]
  BY DEF LinkGraph
<1> HIDE DEF g
<1>2. \A x : OutEdges(t, x) \in SUBSET (Nat \ {0}) /\ OutEdges(t, x) \subseteq DOMAIN t.conns
  BY DEF OutEdges, Wired
<1>3. \A i \in DOMAIN t.conns : g.to[i] = t.conns[i].to /\ g.to[i] \in g.node
  BY <1>1 DEF NodesOf
<1>4. IsSearchable(g)
  BY <1>1, <1>2, <1>3 DEF IsSearchable
<1>5. ASSUME NEW x \in g.node, NEW y \in g.node
      PROVE  IsArc(g, x, y) <=> <<x, y>> \in EdgesOf(t)
  <2>1. ASSUME IsArc(g, x, y) PROVE <<x, y>> \in EdgesOf(t)
    <3>1. PICK i \in OutEdges(t, x) : g.to[i] = y
      BY <1>1, <2>1 DEF IsArc
    <3>2. i \in DOMAIN t.conns /\ t.conns[i].from = x /\ t.conns[i].to = y
      BY <1>3, <3>1 DEF OutEdges
    <3> QED BY <3>2 DEF EdgesOf
  <2>2. ASSUME <<x, y>> \in EdgesOf(t) PROVE IsArc(g, x, y)
    <3>1. PICK i \in DOMAIN t.conns : <<x, y>> = <<t.conns[i].from, t.conns[i].to>>
      BY <2>2 DEF EdgesOf
    <3>2. i \in OutEdges(t, x) /\ g.to[i] = y
      BY <1>3, <3>1 DEF OutEdges
    <3> QED BY <1>1, <3>2 DEF IsArc
  <2> QED BY <2>1, <2>2
<1>6. \A i \in DOMAIN keys : keys[i] \in g.node
  BY <1>1 DEF NodesOf, ToSet
<1> QED BY <1>1, <1>3, <1>4, <1>5, <1>6 DEF g

(* A call returns.                                                         *)
LEMMA DfsReturns ==
  ASSUME NEW t, NEW keys, Wired(t, keys), NEW w, DfsInv(t, keys, w), w.stack # <<>>,
         \A i \in OutEdges(t, w.stack[Len(w.stack)].node) : i < w.stack[Len(w.stack)].index
  PROVE  DfsGoes(t, keys, w, [w EXCEPT !.stack = Front(@)])
<1> DEFINE g == LinkGraph(t, keys)
           st == w.stack
           s == Front(st)
           u == [w EXCEPT !.stack = Front(@)]
           x == st[Len(st)].node
<1>1. /\ IsSearchable(g) /\ g.node = NodesOf(t, keys)
      /\ \A y \in g.node : g.out[y] = OutEdges(t, y)
  BY LinkGraphFacts
<1>2. st \in Seq(Frames(g)) /\ SearchInv(g, Returned(w), st) /\ w.visited \subseteq g.node
  BY <1>1 DEF DfsInv, Walks
<1>3. u.stack = s /\ u.visited = w.visited /\ u.cycle = w.cycle
  BY DEF DfsInv, Walks
<1> HIDE DEF g
<1>4. Len(st) \in Nat /\ Len(st) > 0
  BY <1>2
<1>5. s \in Seq(Frames(g)) /\ Len(s) = Len(st) - 1 /\ \A f \in 1..Len(s) : s[f] = st[f]
  <2> HIDE DEF st
  <2> QED BY <1>2, <1>4, StackFacts
<1>6. u \in Walks(t, keys)
  <2>1. u = [visited |-> w.visited, stack |-> s, cycle |-> w.cycle]
    BY DEF DfsInv, Walks
  <2> HIDE DEF s
  <2> QED BY <1>5, <2>1 DEF DfsInv, Walks, g
<1> HIDE DEF s, u
<1>7. x \in g.node /\ x \in w.visited
  <2>1. Len(st) \in 1..Len(st)
    BY <1>4
  <2> QED BY <1>2, <2>1, FrameFacts DEF DfsInv
<1>8. Returned(u) = Returned(w) \cup {x}
  <2>1. \A y : OnStack(st, y) <=> OnStack(s, y) \/ y = x
    <3> SUFFICES ASSUME NEW y PROVE OnStack(st, y) <=> OnStack(s, y) \/ y = x
      OBVIOUS
    <3>1. \A f \in 1..Len(st) : f \in 1..Len(s) \/ f = Len(st)
      BY <1>4, <1>5
    <3>2. \A f \in 1..Len(s) : f \in 1..Len(st)
      BY <1>4, <1>5
    <3>3. Len(st) \in 1..Len(st)
      BY <1>4
    <3> QED BY <1>5, <3>1, <3>2, <3>3 DEF OnStack
  <2>2. ~OnStack(s, x)
    <3>1. \A f \in 1..Len(s) : f \in 1..Len(st) /\ f # Len(st) /\ Len(st) \in 1..Len(st)
      BY <1>4, <1>5
    <3> QED BY <1>2, <1>5, <3>1 DEF SearchInv, OnStack
  <2> HIDE DEF st
  <2> QED BY <1>3, <1>7, <2>1, <2>2 DEF Returned, st
<1>9. \A i \in g.out[x] : i < st[Len(st)].index
  BY <1>1, <1>7
<1>10. SearchInv(g, Returned(w) \cup {x}, s)
  BY <1>1, <1>2, <1>4, <1>5, <1>9, SearchUp
<1>11. Grew(Done(g, Returned(w), st), Done(g, Returned(w) \cup {x}, s))
  BY <1>2, <1>4, <1>5, DoneUp
<1>12. \A f \in 1..Len(s) : s[f].node \in w.visited
  <2>1. \A f \in 1..Len(s) : f \in 1..Len(st)
    BY <1>4, <1>5
  <2> QED BY <1>5, <2>1 DEF DfsInv
<1>13. DfsInv(t, keys, u)
  BY <1>3, <1>6, <1>8, <1>10, <1>12 DEF DfsInv, g
<1>14. Grew(DfsDone(t, keys, w), DfsDone(t, keys, u))
  BY <1>3, <1>8, <1>11 DEF DfsDone, g
<1> QED BY <1>13, <1>14 DEF DfsGoes, u

(* A node is entered: what is done stays as it is.                         *)
LEMMA EnterFacts ==
  ASSUME NEW t, NEW keys, Wired(t, keys), NEW w \in Walks(t, keys), NEW n \in NodesOf(t, keys),
         n \notin w.visited, \A f \in 1..Len(w.stack) : w.stack[f].node \in w.visited
  PROVE  LET u == Enter(w, n)
             g == LinkGraph(t, keys)
         IN  /\ u \in Walks(t, keys) /\ u.cycle = w.cycle
             /\ \A f \in 1..Len(u.stack) : u.stack[f].node \in u.visited
             /\ Pushed(g, w.stack, u.stack, n) /\ ~OnStack(w.stack, n)
             /\ Returned(u) = Returned(w) /\ n \notin Returned(w)
<1> DEFINE g == LinkGraph(t, keys)
           st == w.stack
           fr == [node |-> n, index |-> 1]
           s == Append(st, fr)
           u == Enter(w, n)
<1>1. g.node = NodesOf(t, keys)
  BY LinkGraphFacts
<1>2. u = [visited |-> w.visited \cup {n}, stack |-> s, cycle |-> w.cycle]
  <2>1. u = [w EXCEPT !.visited = w.visited \cup {n}, !.stack = s]
    BY DEF Enter, Walks
  <2> HIDE DEF s, u
  <2> QED BY <2>1 DEF Walks
<1>3. fr \in Frames(g) /\ fr.node = n /\ fr.index = 1
  BY <1>1 DEF Frames
<1>4. st \in Seq(Frames(g))
  BY DEF Walks
<1> HIDE DEF g, fr, st
<1>5. s \in Seq(Frames(g)) /\ Len(s) = Len(st) + 1 /\ s[Len(s)] = fr /\ \A f \in 1..Len(st) : s[f] = st[f]
  BY <1>3, <1>4, StackFacts
<1>6. Len(st) \in Nat
  BY <1>4
<1> HIDE DEF s
<1>7. u \in Walks(t, keys)
  BY <1>2, <1>5 DEF Walks, g
<1>8. u.stack = s /\ u.visited = w.visited \cup {n} /\ u.cycle = w.cycle
  BY <1>2
<1> HIDE DEF u
<1>9. Pushed(g, st, s, n)
  BY <1>1, <1>3, <1>5 DEF Pushed
<1>10. ~OnStack(st, n)
  BY DEF OnStack, st
<1>11. \A f \in 1..Len(s) : f \in 1..Len(st) \/ f = Len(s)
  BY <1>5, <1>6
<1>12. \A f \in 1..Len(st) : f \in 1..Len(s)
  BY <1>5, <1>6
<1>13. \A f \in 1..Len(s) : s[f].node \in u.visited
  BY <1>3, <1>5, <1>8, <1>11 DEF st
<1>14. \A y : OnStack(s, y) <=> OnStack(st, y) \/ y = n
  <2>1. Len(s) \in 1..Len(s)
    BY <1>5, <1>6
  <2> QED BY <1>3, <1>5, <1>11, <1>12, <2>1 DEF OnStack
<1>15. Returned(u) = Returned(w) /\ n \notin Returned(w)
  BY <1>8, <1>14 DEF Returned, st
<1> QED BY <1>7, <1>8, <1>9, <1>10, <1>13, <1>15 DEF u, g, st

(* The search begins with a key.                                           *)
LEMMA DfsBegins ==
  ASSUME NEW t, NEW keys, Wired(t, keys), NEW w, DfsInv(t, keys, w), w.stack = <<>>,
         w.cycle = <<>>, NEW n \in NodesOf(t, keys), n \notin w.visited
  PROVE  DfsGoes(t, keys, w, Enter(w, n))
<1> DEFINE g == LinkGraph(t, keys)
           u == Enter(w, n)
           B == Returned(w)
<1>1. /\ u \in Walks(t, keys) /\ u.cycle = w.cycle
      /\ \A f \in 1..Len(u.stack) : u.stack[f].node \in u.visited
      /\ Pushed(g, w.stack, u.stack, n) /\ ~OnStack(w.stack, n)
      /\ Returned(u) = B /\ n \notin B
  BY EnterFacts DEF DfsInv
<1>2. IsSearchable(g)
  BY LinkGraphFacts
<1>3. SearchInv(g, B, w.stack) /\ w.stack \in Seq(Frames(g))
  BY DEF DfsInv, Walks
<1> HIDE DEF g, u, B
<1>4. SearchInv(g, B, u.stack)
  BY <1>1, <1>2, <1>3, SearchBegin
<1>5. Grew(Done(g, B, w.stack), Done(g, B, u.stack))
  BY <1>1, <1>2, <1>3, DonePush
<1>6. DfsInv(t, keys, u)
  BY <1>1, <1>4 DEF DfsInv, g, B
<1>7. Grew(DfsDone(t, keys, w), DfsDone(t, keys, u))
  BY <1>1, <1>5 DEF DfsDone, g, B
<1> QED BY <1>6, <1>7 DEF DfsGoes, u

(* The path has the nodes of the stack.                                    *)
LEMMA PathFacts ==
  ASSUME NEW F, NEW st \in Seq(F)
  PROVE  /\ Len(PathOf(st)) = Len(st) /\ DOMAIN PathOf(st) = 1..Len(st)
         /\ \A i \in 1..Len(st) : PathOf(st)[i] = st[i].node
         /\ \A x : x \in ToSet(PathOf(st)) <=> OnStack(st, x)
<1> DEFINE p == PathOf(st)
<1>1. p = [i \in 1..Len(st) |-> st[i].node]
  BY DEF PathOf
<1>2. Len(st) \in Nat
  OBVIOUS
<1> HIDE DEF p
<1>3. Len(p) = Len(st) /\ DOMAIN p = 1..Len(st) /\ \A i \in 1..Len(st) : p[i] = st[i].node
  BY <1>1, <1>2
<1>4. \A x : x \in ToSet(p) <=> OnStack(st, x)
  BY <1>3 DEF ToSet, OnStack
<1> QED BY <1>3, <1>4 DEF p

(* A connection back to the path is a cycle.                               *)
LEMMA DfsCloses ==
  ASSUME NEW t, NEW keys, Wired(t, keys), NEW w, DfsInv(t, keys, w), w.stack # <<>>,
         NEW i \in OutEdges(t, w.stack[Len(w.stack)].node),
         OnStack(w.stack, t.conns[i].to)
  PROVE  DfsGoes(t, keys, w, [w EXCEPT !.cycle = CycleFrom(PathOf(w.stack), t.conns[i].to)])
<1> DEFINE g == LinkGraph(t, keys)
           st == w.stack
           p == PathOf(st)
           y == t.conns[i].to
           c == CycleFrom(p, y)
           u == [w EXCEPT !.cycle = c]
           x == st[Len(st)].node
           K == NodesOf(t, keys)
<1>1. /\ IsSearchable(g) /\ g.node = K
      /\ \A z \in g.node : g.out[z] = OutEdges(t, z)
      /\ \A k \in DOMAIN t.conns : g.to[k] = t.conns[k].to /\ g.to[k] \in g.node
      /\ \A a, b \in g.node : IsArc(g, a, b) <=> <<a, b>> \in EdgesOf(t)
  BY LinkGraphFacts
<1>2. st \in Seq(Frames(g)) /\ SearchInv(g, Returned(w), st)
  BY DEF DfsInv, Walks
<1>3. Len(st) \in Nat /\ Len(st) > 0
  BY <1>2
<1>4. i \in DOMAIN t.conns
  BY DEF OutEdges
<1> HIDE DEF g
<1>5. /\ Len(p) = Len(st) /\ DOMAIN p = 1..Len(st)
      /\ \A k \in 1..Len(st) : p[k] = st[k].node
  <2> HIDE DEF st
  <2> QED BY <1>2, PathFacts
<1>6. PICK j \in 1..Len(st) : c = Append(SubSeq(p, j, Len(p)), y) /\ p[j] = y
  <2> DEFINE j == CHOOSE k \in DOMAIN p : p[k] = y
  <2>1. \E k \in DOMAIN p : p[k] = y
    BY <1>5 DEF OnStack
  <2>2. j \in DOMAIN p /\ p[j] = y
    <3> HIDE DEF p, y
    <3> QED BY <2>1
  <2>3. c = Append(SubSeq(p, j, Len(p)), y)
    BY DEF CycleFrom
  <2> HIDE DEF j
  <2> QED BY <1>5, <2>2, <2>3
<1>7. x \in K /\ y \in K
  <2>1. Len(st) \in 1..Len(st)
    BY <1>3
  <2> QED BY <1>1, <1>2, <1>4, <2>1, FrameFacts
<1>8. \A k \in 1..Len(st) : p[k] \in K
  BY <1>1, <1>2, <1>5, FrameFacts
<1> HIDE DEF p, y, c, K
<1> DEFINE m == Len(st) - j + 1
           s == SubSeq(p, j, Len(p))
<1>9. m \in Nat /\ m > 0 /\ Len(st) \in Int /\ j \in Int
  BY <1>3
<1>10. s \in Seq(K) /\ Len(s) = m /\ \A k \in 1..m : s[k] = p[j + k - 1]
  <2> DEFINE n == Len(st)
  <2>1. n \in Int /\ j \in Int /\ (j <= n) /\ \A k \in j..n : p[k] \in K
    BY <1>3, <1>8
  <2> HIDE DEF n
  <2>2. /\ SubSeq(p, j, n) \in Seq(K)
        /\ Len(SubSeq(p, j, n)) = IF j <= n THEN n - j + 1 ELSE 0
        /\ \A k \in 1..(n - j + 1) : SubSeq(p, j, n)[k] = p[j + k - 1]
    BY <2>1, SubSeqProperties
  <2> QED BY <1>5, <2>1, <2>2 DEF n
<1> HIDE DEF s
<1>11. c \in Seq(K) /\ Len(c) = m + 1 /\ c[m + 1] = y /\ \A k \in 1..m : c[k] = s[k]
  <2> HIDE DEF m
  <2>1. c = Append(s, y)
    BY <1>6 DEF s
  <2> QED BY <1>7, <1>9, <1>10, <2>1
<1>12. IsCycle(t, c)
  <2>1. Len(c) = Len(st) - j + 2 /\ c[Len(c)] = st[j].node
    BY <1>5, <1>6, <1>9, <1>11
  <2>2. \A k \in 1..(Len(st) - j + 1) : c[k] = st[j + k - 1].node
    <3> SUFFICES ASSUME NEW k \in 1..m PROVE c[k] = st[j + k - 1].node
      OBVIOUS
    <3>1. j + k - 1 \in 1..Len(st)
      BY <1>3
    <3>2. c[k] = p[j + k - 1]
      BY <1>10, <1>11
    <3> QED BY <1>5, <3>1, <3>2
  <2>3. IsArc(g, st[Len(st)].node, st[j].node)
    <3>1. st[j].node = y /\ i \in g.out[x] /\ g.to[i] = y
      BY <1>1, <1>4, <1>5, <1>6, <1>7 DEF y
    <3> QED BY <3>1 DEF IsArc
  <2>4. IsAlong(g, t)
    BY <1>1 DEF IsAlong
  <2>5. ClosesAt(c, st, j)
    BY <2>1, <2>2 DEF ClosesAt
  <2> HIDE DEF st
  <2> QED BY <1>2, <2>3, <2>4, <2>5, BackArc
<1>13. u = [visited |-> w.visited, stack |-> st, cycle |-> c]
  BY DEF DfsInv, Walks
<1>14. u \in Walks(t, keys)
  BY <1>11, <1>13 DEF DfsInv, Walks, K
<1>15. u.visited = w.visited /\ u.stack = st /\ u.cycle = c /\ Returned(u) = Returned(w)
  BY <1>13 DEF Returned
<1> HIDE DEF u
<1>16. DfsInv(t, keys, u)
  BY <1>12, <1>14, <1>15 DEF DfsInv
<1>17. c # <<>>
  BY <1>9, <1>11
<1> QED BY <1>15, <1>16, <1>17 DEF DfsGoes, u, c, y, p

(* The call on top has looked at connection i.                             *)
LEMMA LookFacts ==
  ASSUME NEW t, NEW keys, Wired(t, keys), NEW w, DfsInv(t, keys, w), w.stack # <<>>,
         NEW i \in OutEdges(t, w.stack[Len(w.stack)].node), i >= w.stack[Len(w.stack)].index,
         \A j \in OutEdges(t, w.stack[Len(w.stack)].node) : w.stack[Len(w.stack)].index <= j => i <= j
  PROVE  LET v == [w EXCEPT !.stack[Len(w.stack)].index = i + 1]
         IN  /\ v \in Walks(t, keys) /\ v.visited = w.visited /\ v.cycle = w.cycle
             /\ Advanced(LinkGraph(t, keys), w.stack, v.stack, i)
             /\ \A f \in 1..Len(v.stack) : v.stack[f].node \in v.visited
             /\ Returned(v) = Returned(w)
             /\ \A x : OnStack(v.stack, x) <=> OnStack(w.stack, x)
<1> DEFINE g == LinkGraph(t, keys)
           st == w.stack
           n == Len(st)
           s == [st EXCEPT ![n].index = i + 1]
           v == [w EXCEPT !.stack[Len(w.stack)].index = i + 1]
<1>1. /\ IsSearchable(g) /\ g.node = NodesOf(t, keys)
      /\ \A y \in g.node : g.out[y] = OutEdges(t, y)
  BY LinkGraphFacts
<1>2. st \in Seq(Frames(g)) /\ i \in Nat
  BY DEF DfsInv, Walks, OutEdges, Wired
<1>3. v = [visited |-> w.visited, stack |-> s, cycle |-> w.cycle]
  <2>1. v = [w EXCEPT !.stack = s]
    BY DEF DfsInv, Walks
  <2> HIDE DEF s, v
  <2> QED BY <2>1 DEF DfsInv, Walks
<1> HIDE DEF g
<1>4. n \in Nat /\ n > 0 /\ n \in 1..n
  BY <1>2
<1>5. st[n].node \in g.node /\ g.out[st[n].node] = OutEdges(t, st[n].node)
  BY <1>1, <1>2, <1>4, FrameFacts
<1>6. Advanced(g, st, s, i)
  <2>1. i \in g.out[st[n].node] /\ i >= st[n].index
    BY <1>5
  <2>2. \A j \in g.out[st[n].node] : st[n].index <= j => i <= j
    BY <1>5
  <2> HIDE DEF st
  <2> QED BY <1>2, <1>4, <2>1, <2>2, AdvanceFacts
<1> HIDE DEF s
<1>7. s \in Seq(Frames(g)) /\ Len(s) = n /\ \A f \in 1..n : s[f].node = st[f].node
  <2>1. \A f \in 1..n : f \in 1..(n - 1) \/ f = n
    BY <1>4
  <2> QED BY <1>6, <2>1 DEF Advanced
<1>8. v \in Walks(t, keys) /\ v.visited = w.visited /\ v.cycle = w.cycle /\ v.stack = s
  BY <1>3, <1>7 DEF DfsInv, Walks, g
<1> HIDE DEF v
<1>9. \A x : OnStack(s, x) <=> OnStack(st, x)
  BY <1>7 DEF OnStack
<1>10. Returned(v) = Returned(w)
  BY <1>8, <1>9 DEF Returned
<1>11. \A f \in 1..Len(s) : s[f].node \in v.visited
  BY <1>7, <1>8 DEF DfsInv
<1> QED BY <1>6, <1>8, <1>9, <1>10, <1>11 DEF v, g

(* The next connection is looked at.                                       *)
LEMMA DfsFollows ==
  ASSUME NEW t, NEW keys, Wired(t, keys), NEW w, DfsInv(t, keys, w), w.stack # <<>>,
         w.cycle = <<>>,
         NEW i \in OutEdges(t, w.stack[Len(w.stack)].node), i >= w.stack[Len(w.stack)].index,
         \A j \in OutEdges(t, w.stack[Len(w.stack)].node) : w.stack[Len(w.stack)].index <= j => i <= j
  PROVE  DfsGoes(t, keys, w, FollowConn(t, w, i))
<1> DEFINE g == LinkGraph(t, keys)
           st == w.stack
           y == t.conns[i].to
           v == [w EXCEPT !.stack[Len(w.stack)].index = i + 1]
           B == Returned(w)
<1>1. /\ IsSearchable(g) /\ g.node = NodesOf(t, keys)
      /\ \A k \in DOMAIN t.conns : g.to[k] = t.conns[k].to /\ g.to[k] \in g.node
  BY LinkGraphFacts
<1>2. i \in DOMAIN t.conns
  BY DEF OutEdges
<1>3. g.to[i] = y /\ y \in NodesOf(t, keys)
  BY <1>1, <1>2
<1>4. SearchInv(g, B, st) /\ st \in Seq(Frames(g))
  BY DEF DfsInv, Walks
<1>5. /\ v \in Walks(t, keys) /\ v.visited = w.visited /\ v.cycle = w.cycle
      /\ Advanced(g, st, v.stack, i)
      /\ \A f \in 1..Len(v.stack) : v.stack[f].node \in v.visited
      /\ Returned(v) = B
      /\ \A x : OnStack(v.stack, x) <=> OnStack(st, x)
  BY LookFacts
<1>6. \A x : x \in ToSet(PathOf(st)) <=> OnStack(st, x)
  <2> HIDE DEF st, g
  <2> QED BY <1>4, PathFacts
<1>7. v.stack \in Seq(Frames(g))
  BY <1>5 DEF Advanced
<1>8. FollowConn(t, w, i) =
        IF y \notin w.visited THEN Enter(v, y)
        ELSE IF y \in ToSet(PathOf(st)) THEN [w EXCEPT !.cycle = CycleFrom(PathOf(st), y)]
        ELSE v
  BY DEF FollowConn
<1>9. Grew(Done(g, B, st), Done(g, B, v.stack))
  <2> HIDE DEF g, st, B, v
  <2> QED BY <1>1, <1>4, <1>5, DoneOn
<1>10. CASE y \notin w.visited
  <2> DEFINE u == Enter(v, y)
  <2>1. /\ u \in Walks(t, keys) /\ u.cycle = v.cycle
        /\ \A f \in 1..Len(u.stack) : u.stack[f].node \in u.visited
        /\ Pushed(g, v.stack, u.stack, y) /\ ~OnStack(v.stack, y)
        /\ Returned(u) = Returned(v) /\ y \notin Returned(v)
    <3>1. y \notin v.visited
      BY <1>5, <1>10
    <3> HIDE DEF v, y
    <3> QED BY <1>3, <1>5, <3>1, EnterFacts
  <2> HIDE DEF u, v, g, B, st, y
  <2>2. Pushed(g, v.stack, u.stack, g.to[i]) /\ g.to[i] \notin B /\ ~OnStack(st, g.to[i])
    BY <1>3, <1>5, <2>1
  <2>3. SearchInv(g, B, u.stack)
    BY <1>1, <1>4, <1>5, <2>2, SearchDown
  <2>4. Grew(Done(g, B, v.stack), Done(g, B, u.stack))
    BY <1>1, <1>5, <1>7, <2>1, DonePush
  <2>5. Grew(Done(g, B, st), Done(g, B, u.stack))
    BY <1>9, <2>4, GrewOn
  <2>6. DfsInv(t, keys, u)
    BY <1>5, <2>1, <2>3 DEF DfsInv, g, B
  <2>7. Grew(DfsDone(t, keys, w), DfsDone(t, keys, u))
    BY <1>5, <2>1, <2>5 DEF DfsDone, g, B, st
  <2> QED BY <1>8, <1>10, <2>6, <2>7 DEF DfsGoes, u
<1>11. CASE y \in w.visited /\ OnStack(st, y)
  BY <1>6, <1>8, <1>11, DfsCloses
<1>12. CASE y \in w.visited /\ ~OnStack(st, y)
  <2>1. g.to[i] \in B
    BY <1>3, <1>12 DEF Returned
  <2> HIDE DEF v, g, B, st, y
  <2>2. SearchInv(g, B, v.stack)
    BY <1>1, <1>4, <1>5, <2>1, SearchOn
  <2>3. DfsInv(t, keys, v)
    BY <1>5, <2>2 DEF DfsInv, g, B
  <2>4. Grew(DfsDone(t, keys, w), DfsDone(t, keys, v))
    BY <1>5, <1>9 DEF DfsDone, g, B, st
  <2> QED BY <1>6, <1>8, <1>12, <2>3, <2>4 DEF DfsGoes
<1> QED BY <1>10, <1>11, <1>12

(* A turn of the search.                                                   *)
LEMMA DfsTurnFacts ==
  ASSUME NEW t, NEW keys, Wired(t, keys), NEW w, DfsInv(t, keys, w)
  PROVE  /\ Over(keys, w) => DfsTurn(t, keys, w) = w
         /\ ~Over(keys, w) => DfsGoes(t, keys, w, DfsTurn(t, keys, w))
<1> DEFINE st == w.stack
           top == st[Len(st)]
           ahead == {i \in OutEdges(t, top.node) : i >= top.index}
           roots == {i \in DOMAIN keys : keys[i] \notin w.visited}
           u == DfsTurn(t, keys, w)
<1>1. u = IF w.cycle # <<>> THEN w
          ELSE IF st # <<>>
          THEN IF ahead = {} THEN [w EXCEPT !.stack = Front(@)] ELSE FollowConn(t, w, Min(ahead))
          ELSE IF roots = {} THEN w ELSE Enter(w, keys[Min(roots)])
  BY DEF DfsTurn
<1>2. Over(keys, w) <=> w.cycle # <<>> \/ (st = <<>> /\ roots = {})
  BY DEF Over
<1>3. ahead \in SUBSET Nat /\ roots \in SUBSET Nat
  BY DEF OutEdges, Wired
<1> HIDE DEF u
<1>4. CASE w.cycle = <<>> /\ st # <<>> /\ ahead = {}
  <2>1. \A i \in OutEdges(t, top.node) : i < top.index
    <3>1. st \in Seq(Frames(LinkGraph(t, keys))) /\ Len(st) \in 1..Len(st)
      BY <1>4 DEF DfsInv, Walks
    <3>2. top.index \in Nat
      BY <3>1, FrameFacts
    <3>3. \A i \in OutEdges(t, top.node) : i \in Nat /\ ~(i >= top.index)
      BY <1>4 DEF OutEdges, Wired
    <3> QED BY <3>2, <3>3
  <2>2. DfsGoes(t, keys, w, [w EXCEPT !.stack = Front(@)])
    BY <1>4, <2>1, DfsReturns
  <2> QED BY <1>1, <1>2, <1>4, <2>2 DEF u
<1>5. CASE w.cycle = <<>> /\ st # <<>> /\ ahead # {}
  <2> DEFINE i == Min(ahead)
  <2>1. i \in ahead /\ \A j \in ahead : i <= j
    <3> HIDE DEF ahead
    <3> QED BY <1>3, <1>5, MinFacts
  <2> HIDE DEF i
  <2>2. i \in OutEdges(t, top.node) /\ i >= top.index
    BY <2>1
  <2>3. \A j \in OutEdges(t, top.node) : top.index <= j => i <= j
    <3>1. st \in Seq(Frames(LinkGraph(t, keys))) /\ Len(st) \in 1..Len(st)
      BY <1>5 DEF DfsInv, Walks
    <3>2. top.index \in Nat
      BY <3>1, FrameFacts
    <3>3. \A j \in OutEdges(t, top.node) : j \in Nat
      BY DEF OutEdges, Wired
    <3> QED BY <2>1, <3>2, <3>3
  <2>4. DfsGoes(t, keys, w, FollowConn(t, w, i))
    BY <1>5, <2>2, <2>3, DfsFollows
  <2> QED BY <1>1, <1>2, <1>5, <2>4 DEF u, i
<1>6. CASE w.cycle = <<>> /\ st = <<>> /\ roots # {}
  <2> DEFINE k == Min(roots)
  <2>1. k \in roots
    <3> HIDE DEF roots
    <3> QED BY <1>3, <1>6, MinFacts
  <2> HIDE DEF k
  <2>2. keys[k] \in NodesOf(t, keys) /\ keys[k] \notin w.visited
    BY <2>1 DEF NodesOf, ToSet
  <2>3. DfsGoes(t, keys, w, Enter(w, keys[k]))
    BY <1>6, <2>2, DfsBegins
  <2> QED BY <1>1, <1>2, <1>6, <2>3 DEF u, k
<1>7. CASE Over(keys, w)
  BY <1>1, <1>2, <1>7 DEF u
<1> QED BY <1>2, <1>4, <1>5, <1>6, <1>7 DEF u

(* How much there is to do.                                                *)
LEMMA LinkTasks ==
  ASSUME NEW t, NEW keys, Wired(t, keys)
  PROVE  LET g   == LinkGraph(t, keys)
             max == 2 * Cardinality(NodesOf(t, keys)) + Len(t.conns)
         IN  IsFiniteSet(Tasks(g)) /\ max \in Nat /\ Cardinality(Tasks(g)) <= max
<1> DEFINE g == LinkGraph(t, keys)
           K == NodesOf(t, keys)
           N == Len(t.conns)
           A == K \X {-1, 0}
           E == {p \in K \X Int : p[2] \in g.out[p[1]]}
<1>1. /\ IsSearchable(g) /\ g.node = K
      /\ \A x \in K : g.out[x] = OutEdges(t, x)
  BY LinkGraphFacts
<1>2. N \in Nat /\ IsFiniteSet(1..N) /\ Cardinality(1..N) = N
  <2>1. \A n \in Nat : IsFiniteSet(1..n) /\ Cardinality(1..n) = IF 1 > n THEN 0 ELSE n - 1 + 1
    BY FS_Interval
  <2>2. \A n \in Nat : (IF 1 > n THEN 0 ELSE n - 1 + 1) = n
    OBVIOUS
  <2> QED BY <2>1, <2>2 DEF Wired
<1>3. IsFiniteSet(K) /\ Cardinality(K) \in Nat
  <2> DEFINE Q == {t.conns[i].to : i \in DOMAIN t.conns}
             P == ToSet(keys)
             q == [i \in DOMAIN t.conns |-> t.conns[i].to]
             p == [i \in DOMAIN keys |-> keys[i]]
  <2>1. q \in Surjection(DOMAIN t.conns, Q)
    BY DEF Surjection
  <2>2. p \in Surjection(DOMAIN keys, P)
    BY DEF Surjection, ToSet
  <2>3. IsFiniteSet(DOMAIN t.conns) /\ IsFiniteSet(DOMAIN keys)
    BY FS_Interval DEF Wired
  <2>4. K = P \cup Q
    BY DEF NodesOf
  <2> HIDE DEF p, q, P, Q, K
  <2>5. IsFiniteSet(P) /\ IsFiniteSet(Q)
    BY <2>1, <2>2, <2>3, FS_Surjection
  <2> QED BY <2>4, <2>5, FS_Union, FS_CardinalityType
<1>4. IsFiniteSet(A) /\ Cardinality(A) = 2 * Cardinality(K)
  <2> DEFINE two == {-1, 0}
  <2>1. IsFiniteSet(two) /\ Cardinality(two) = 2
    <3>1. two = {0} \cup {-1} /\ -1 \notin {0}
      OBVIOUS
    <3>2. IsFiniteSet({0}) /\ Cardinality({0}) = 1
      BY FS_Singleton
    <3>3. /\ IsFiniteSet({0} \cup {-1})
          /\ Cardinality({0} \cup {-1}) = IF -1 \in {0} THEN Cardinality({0}) ELSE Cardinality({0}) + 1
      BY <3>2, FS_AddElement
    <3> QED BY <3>1, <3>2, <3>3
  <2> HIDE DEF two, K
  <2>2. IsFiniteSet(K \X two) /\ Cardinality(K \X two) = Cardinality(K) * Cardinality(two)
    BY <1>3, <2>1, FS_Product
  <2>3. Cardinality(K) * Cardinality(two) = 2 * Cardinality(K)
    BY <1>3, <2>1
  <2> QED BY <2>2, <2>3 DEF two
<1> HIDE DEF g, K
<1>5. IsFiniteSet(E) /\ Cardinality(E) <= N
  <2> DEFINE f == [p \in E |-> p[2]]
  <2>1. ASSUME NEW p \in E PROVE p[2] \in 1..N /\ p[1] = t.conns[p[2]].from /\ p = <<p[1], p[2]>>
    <3>1. p[1] \in K /\ p[2] \in g.out[p[1]] /\ p = <<p[1], p[2]>>
      OBVIOUS
    <3>2. p[2] \in OutEdges(t, p[1])
      BY <1>1, <3>1
    <3> QED BY <3>1, <3>2 DEF OutEdges, Wired
  <2> HIDE DEF E, N
  <2>2. f \in [E -> 1..N]
    BY <2>1
  <2>3. ASSUME NEW p \in E, NEW r \in E, f[p] = f[r] PROVE p = r
    <3>1. p[2] = r[2]
      BY <2>3
    <3>2. p[1] = r[1]
      BY <2>1, <3>1
    <3> QED BY <2>1, <3>1, <3>2
  <2> HIDE DEF f
  <2>4. f \in Injection(E, 1..N)
    BY <2>2, <2>3 DEF Injection, IsInjective
  <2> QED BY <1>2, <2>4, FS_Injection
<1>6. Tasks(g) = A \cup E
  <2>1. ASSUME NEW p \in Tasks(g) PROVE p \in A \cup E
    <3>1. p \in K \X Int /\ (p[2] \in {-1, 0} \/ p[2] \in g.out[p[1]])
      BY <1>1 DEF Tasks
    <3> QED BY <3>1
  <2>2. ASSUME NEW p \in A PROVE p \in Tasks(g)
    BY <1>1 DEF Tasks
  <2>3. ASSUME NEW p \in E PROVE p \in Tasks(g)
    BY <1>1 DEF Tasks
  <2> QED BY <2>1, <2>2, <2>3
<1> HIDE DEF A, E
<1>7. /\ IsFiniteSet(A \cup E) /\ IsFiniteSet(A \cap E)
      /\ Cardinality(A \cup E) = Cardinality(A) + Cardinality(E) - Cardinality(A \cap E)
  BY <1>4, <1>5, FS_Union, FS_Intersection
<1>8. Cardinality(A) \in Nat /\ Cardinality(E) \in Nat /\ Cardinality(A \cap E) \in Nat
  BY <1>4, <1>5, <1>7, FS_CardinalityType
<1>9. IsFiniteSet(Tasks(g)) /\ Cardinality(Tasks(g)) <= 2 * Cardinality(K) + N
  BY <1>2, <1>3, <1>4, <1>5, <1>6, <1>7, <1>8
<1> QED BY <1>2, <1>3, <1>9 DEF g, K

(* The search begins with nothing done.                                    *)
LEMMA DfsStart ==
  ASSUME NEW t, NEW keys, Wired(t, keys)
  PROVE  DfsInv(t, keys, [visited |-> {}, stack |-> <<>>, cycle |-> <<>>])
<1> DEFINE w == [visited |-> {}, stack |-> <<>>, cycle |-> <<>>]
           g == LinkGraph(t, keys)
<1>1. w.visited = {} /\ w.stack = <<>> /\ w.cycle = <<>> /\ w \in Walks(t, keys)
  BY DEF Walks
<1> HIDE DEF w, g
<1>2. Returned(w) = {} /\ Len(w.stack) = 0
  BY <1>1 DEF Returned
<1>3. SearchInv(g, {}, <<>>)
  BY SearchNothing
<1>4. \A f \in 1..Len(w.stack) : FALSE
  BY <1>2
<1>5. DfsInv(t, keys, w)
  BY <1>1, <1>2, <1>3, <1>4 DEF DfsInv, g
<1> QED BY <1>5 DEF w

(* The recursion over the turns.                                           *)
LEMMA DfsTurnsFacts ==
  ASSUME NEW t, NEW keys, Wired(t, keys), NEW N \in Nat
  PROVE  LET r == DfsTurns(t, keys, N)
         IN  /\ r[0] = [visited |-> {}, stack |-> <<>>, cycle |-> <<>>]
             /\ \A n \in 0..N : DfsInv(t, keys, r[n])
             /\ \A n \in 1..N : r[n] = DfsTurn(t, keys, r[n - 1])
<1> DEFINE W == {w \in Walks(t, keys) : DfsInv(t, keys, w)}
           e == [visited |-> {}, stack |-> <<>>, cycle |-> <<>>]
           d == [i \in 1..N |-> [v \in W |-> DfsTurn(t, keys, v)]]
           Def(f) == f = [n \in 0..N |-> IF n = 0 THEN e ELSE DfsTurn(t, keys, f[n - 1])]
           r == DfsTurns(t, keys, N)
<1>1. e \in W
  BY DfsStart DEF DfsInv
<1>2. \A v \in W : DfsTurn(t, keys, v) \in W
  <2> SUFFICES ASSUME NEW v \in W PROVE DfsTurn(t, keys, v) \in W
    OBVIOUS
  <2>1. CASE Over(keys, v)
    BY <2>1, DfsTurnFacts
  <2>2. CASE ~Over(keys, v)
    BY <2>2, DfsTurnFacts DEF DfsGoes, DfsInv
  <2> QED BY <2>1, <2>2
<1>3. \A v \in W : DfsInv(t, keys, v)
  OBVIOUS
<1> HIDE DEF e, W
<1>4. d \in [1..N -> [W -> W]]
  BY <1>2
<1>5. PICK f : Computes(f, N, W, e, d)
  <2> HIDE DEF d
  <2> QED BY <1>1, <1>4, Recursion
<1>6. ASSUME NEW i \in 1..N
      PROVE  f[i] = DfsTurn(t, keys, f[i - 1])
  <2>1. i # 0 /\ i \in 0..N /\ i - 1 \in 0..N
    OBVIOUS
  <2>2. f[i] = d[i][f[i - 1]] /\ f[i - 1] \in W
    <3> HIDE DEF d
    <3> QED BY <1>5, <2>1 DEF Computes
  <2> QED BY <2>2
<1> HIDE DEF d
<1>7. Def(f)
  <2>1. f = [i \in 0..N |-> f[i]] /\ f[0] = e
    BY <1>5 DEF Computes
  <2>2. \A i \in 0..N : i # 0 => i \in 1..N
    OBVIOUS
  <2> QED BY <1>6, <2>1, <2>2
<1>8. Def(r)
  <2>1. r = CHOOSE g : Def(g)
    BY DEF DfsTurns, e
  <2> HIDE DEF Def, r
  <2> QED BY <1>7, <2>1
<1> HIDE DEF r
<1>9. r[0] = e
  BY <1>8
<1>10. ASSUME NEW i \in 1..N
       PROVE  r[i] = DfsTurn(t, keys, r[i - 1])
  <2>1. i \in 0..N /\ i # 0
    OBVIOUS
  <2> QED BY <1>8, <2>1
<1>11. \A n \in 0..N : r[n] \in W
  <2> DEFINE S == {n \in 0..N : r[n] \in W}
  <2>1. 0 \in S
    BY <1>1, <1>9
  <2>2. ASSUME NEW n \in 0..(N - 1), n \in S PROVE n + 1 \in S
    <3>1. n + 1 \in 1..N /\ n + 1 \in 0..N /\ (n + 1) - 1 = n
      OBVIOUS
    <3>2. r[n + 1] = DfsTurn(t, keys, r[n])
      BY <1>10, <3>1
    <3> QED BY <1>2, <2>2, <3>1, <3>2
  <2> HIDE DEF S
  <2>3. \A n \in 0..N : n \in S
    BY <2>1, <2>2, Induction
  <2> QED BY <2>3 DEF S
<1> QED BY <1>3, <1>9, <1>10, <1>11 DEF r, e

(* After so many turns the search has ended.                               *)
LEMMA DfsEnd ==
  ASSUME NEW t, NEW keys, Wired(t, keys)
  PROVE  LET max == 2 * Cardinality(NodesOf(t, keys)) + Len(t.conns)
             w   == DfsTurns(t, keys, max)[max]
         IN  DfsInv(t, keys, w) /\ Over(keys, w)
<1> DEFINE N == 2 * Cardinality(NodesOf(t, keys)) + Len(t.conns)
           r == DfsTurns(t, keys, N)
           g == LinkGraph(t, keys)
           T == Tasks(g)
           D == [n \in 0..N |-> DfsDone(t, keys, r[n])]
           over == {n \in 0..N : Over(keys, r[n])}
<1>1. IsFiniteSet(T) /\ N \in Nat /\ Cardinality(T) <= N
  BY LinkTasks
<1> HIDE DEF N
<1>2. /\ \A n \in 0..N : DfsInv(t, keys, r[n])
      /\ \A n \in 1..N : r[n] = DfsTurn(t, keys, r[n - 1])
  BY <1>1, DfsTurnsFacts
<1> HIDE DEF r
<1>3. \A n \in 0..N : D[n] \in SUBSET T
  BY DEF DfsDone, Done
<1>4. ASSUME NEW n \in 0..(N - 1)
      PROVE  n + 1 \in over \/ (n \notin over /\ Grew(D[n], D[n + 1]))
  <2>1. n + 1 \in 1..N /\ n + 1 \in 0..N /\ (n + 1) - 1 = n /\ n \in 0..N
    BY <1>1
  <2>2. DfsInv(t, keys, r[n]) /\ r[n + 1] = DfsTurn(t, keys, r[n])
    BY <1>2, <2>1
  <2>3. CASE Over(keys, r[n])
    BY <2>1, <2>2, <2>3, DfsTurnFacts
  <2>4. CASE ~Over(keys, r[n])
    <3>1. r[n + 1].cycle # <<>> \/ Grew(DfsDone(t, keys, r[n]), DfsDone(t, keys, r[n + 1]))
      BY <2>2, <2>4, DfsTurnFacts DEF DfsGoes
    <3> QED BY <2>1, <2>4, <3>1 DEF Over
  <2> QED BY <2>3, <2>4
<1>5. ASSUME D[N] = T PROVE N \in over
  <2> DEFINE w == r[N]
  <2>1. N \in 0..N /\ DfsInv(t, keys, w) /\ DfsDone(t, keys, w) = T
    BY <1>1, <1>2, <1>5
  <2> HIDE DEF w
  <2>2. w.stack = <<>> /\ Returned(w) = g.node
    BY <2>1, AllDone DEF DfsInv, DfsDone
  <2>3. \A i \in DOMAIN keys : keys[i] \in g.node
    BY LinkGraphFacts
  <2>4. Over(keys, w)
    BY <2>2, <2>3 DEF Over, Returned
  <2> QED BY <2>1, <2>4 DEF w
<1> HIDE DEF D, over, T
<1>6. N \in over
  BY <1>1, <1>3, <1>4, <1>5, LoopEnds
<1>7. N \in 0..N
  BY <1>1
<1> QED BY <1>2, <1>6, <1>7 DEF over, r, N

(* The cycle that is found is one, and one is found where stages feed each *)
(* other.                                                                  *)
LEMMA DetectCycleFacts ==
  ASSUME NEW t, NEW keys, Wired(t, keys), \A k \in StagesOf(t) : \E i \in DOMAIN keys : keys[i] = k
  PROVE  /\ Len(DetectCycle(t, keys)) \in Nat
         /\ DetectCycle(t, keys) # <<>> => IsCycle(t, DetectCycle(t, keys))
         /\ ~IsAcyclic(t) => DetectCycle(t, keys) # <<>>
<1> DEFINE max == 2 * Cardinality(NodesOf(t, keys)) + Len(t.conns)
           w == DfsTurns(t, keys, max)[max]
           g == LinkGraph(t, keys)
           B == Returned(w)
<1>1. DetectCycle(t, keys) = w.cycle
  BY DEF DetectCycle
<1>2. DfsInv(t, keys, w) /\ Over(keys, w)
  BY DfsEnd
<1> HIDE DEF w
<1>3. w.cycle \in Seq(NodesOf(t, keys)) /\ (w.cycle # <<>> => IsCycle(t, w.cycle))
  BY <1>2 DEF DfsInv, Walks
<1>4. ASSUME w.cycle = <<>> PROVE IsAcyclic(t)
  <2> SUFFICES ASSUME NEW S \in SUBSET StagesOf(t), S # {}
               PROVE  \E k \in S : \A e \in EdgesOf(t) : e[2] = k => e[1] \notin S
    BY DEF IsAcyclic
  <2>1. w.stack = <<>> /\ \A i \in DOMAIN keys : keys[i] \in w.visited
    BY <1>2, <1>4 DEF Over
  <2>2. \A x \in w.visited : x \in B
    BY <2>1 DEF Returned, OnStack
  <2>3. S \in SUBSET B /\ B \subseteq g.node /\ Grounded(g, B)
    BY <1>2, <2>1, <2>2 DEF DfsInv, SearchInv
  <2>4. \A x, y \in g.node : IsArc(g, x, y) <=> <<x, y>> \in EdgesOf(t)
    BY LinkGraphFacts
  <2> HIDE DEF B, g
  <2>5. PICK k \in S : \A x \in S : ~IsArc(g, x, k)
    BY <2>3 DEF Grounded
  <2>6. ASSUME NEW e \in EdgesOf(t), e[2] = k, e[1] \in S PROVE FALSE
    <3>1. PICK j \in DOMAIN t.conns : e = <<t.conns[j].from, t.conns[j].to>>
      BY DEF EdgesOf
    <3> DEFINE x == t.conns[j].from
    <3>2. x \in S /\ t.conns[j].to = k /\ <<x, k>> \in EdgesOf(t)
      BY <2>6, <3>1
    <3> HIDE DEF x
    <3>3. x \in g.node /\ k \in g.node
      BY <2>3, <3>2
    <3> QED BY <2>4, <2>5, <3>2, <3>3
  <2> QED BY <2>6
<1> QED BY <1>1, <1>3, <1>4
-----------------------------------------------------------------------------
(* The pipeline builder's search for a cycle.                              *)

BuildGraph(t) ==
  [node |-> StagesOf(t),
   out  |-> [x \in StagesOf(t) |-> {j \in StagesOf(t) : OutEdges(t, x) \cap InEdges(t, j) # {}}],
   to   |-> [j \in StagesOf(t) |-> j]]

Searches(t) ==
  [color  : [StagesOf(t) -> {"white", "gray", "black"}],
   parent : [StagesOf(t) -> StagesOf(t) \cup {NoParent}],
   stack  : Seq(Frames(BuildGraph(t))),
   cycle  : Seq(StagesOf(t))]

Black(t, w) == {k \in StagesOf(t) : w.color[k] = "black"}

(* The nodes under way are gray.                                           *)
IsGray(t, w) == \A k \in StagesOf(t) : w.color[k] = "gray" <=> OnStack(w.stack, k)

(* The parent of a node under way is the node below it.                    *)
IsTraced(w) == \A i \in 1..(Len(w.stack) - 1) : w.parent[w.stack[i + 1].node] = w.stack[i].node

ColorInv(t, w) ==
  /\ w \in Searches(t)
  /\ IsGray(t, w) /\ IsTraced(w)
  /\ SearchInv(BuildGraph(t), Black(t, w), w.stack)
  /\ w.cycle # <<>> => IsCycle(t, w.cycle)

Ended(t, degree, w) ==
  \/ w.cycle # <<>>
  \/ w.stack = <<>> /\ \A k \in StagesOf(t) : degree[k] # 0 => w.color[k] # "white"

ColorDone(t, w) == Done(BuildGraph(t), Black(t, w), w.stack)

ColorGoes(t, w, u) ==
  ColorInv(t, u) /\ (u.cycle # <<>> \/ Grew(ColorDone(t, w), ColorDone(t, u)))

(* The graph of the stages.                                                *)
LEMMA BuildGraphFacts ==
  ASSUME NEW t, IsGraph(t)
  PROVE  LET g == BuildGraph(t)
         IN  /\ IsSearchable(g) /\ g.node = StagesOf(t)
             /\ \A x \in g.node : g.out[x] = {j \in StagesOf(t) : OutEdges(t, x) \cap InEdges(t, j) # {}}
             /\ \A j \in g.node : g.to[j] = j
             /\ \A x, y \in g.node : IsArc(g, x, y) <=> <<x, y>> \in EdgesOf(t)
<1> DEFINE g == BuildGraph(t)
           K == StagesOf(t)
<1>1. /\ g.node = K
      /\ g.out = [x \in K |-> {j \in K : OutEdges(t, x) \cap InEdges(t, j) # {}}]
      /\ g.to = [j \in K |-> j]
  BY DEF BuildGraph
<1>2. K \subseteq Nat \ {0}
  BY DEF IsGraph, StagesOf
<1> HIDE DEF g, K
<1>3. IsSearchable(g)
  <2>1. \A x \in K : g.out[x] \in SUBSET K
    BY <1>1
  <2>2. g.out \in [K -> SUBSET (Nat \ {0})]
    <3> DEFINE P == Nat \ {0}
               o == g.out
    <3>1. \A x \in K : o[x] \in SUBSET P
      BY <1>2, <2>1
    <3>2. o = [x \in K |-> o[x]]
      BY <1>1
    <3> HIDE DEF o, P
    <3>3. o \in [K -> SUBSET P]
      BY <3>1, <3>2
    <3> QED BY <3>3 DEF o, P
  <2> QED BY <1>1, <2>1, <2>2 DEF IsSearchable
<1>4. ASSUME NEW x \in K, NEW y \in K
      PROVE  IsArc(g, x, y) <=> <<x, y>> \in EdgesOf(t)
  <2>1. IsArc(g, x, y) <=> y \in g.out[x]
    BY <1>1 DEF IsArc
  <2>2. y \in g.out[x] <=> \E i \in DOMAIN t.conns : t.conns[i].from = x /\ t.conns[i].to = y
    BY <1>1 DEF OutEdges, InEdges
  <2>3. <<x, y>> \in EdgesOf(t) <=> \E i \in DOMAIN t.conns : t.conns[i].from = x /\ t.conns[i].to = y
    BY DEF EdgesOf
  <2> QED BY <2>1, <2>2, <2>3
<1> QED BY <1>1, <1>3, <1>4 DEF g, K

(* A node is left.                                                         *)
LEMMA ColorReturns ==
  ASSUME NEW t, IsGraph(t), NEW w, ColorInv(t, w), w.stack # <<>>,
         \A j \in BuildGraph(t).out[w.stack[Len(w.stack)].node] : j < w.stack[Len(w.stack)].index
  PROVE  ColorGoes(t, w, [w EXCEPT !.color[w.stack[Len(w.stack)].node] = "black", !.stack = Front(@)])
<1> DEFINE g == BuildGraph(t)
           K == StagesOf(t)
           st == w.stack
           s == Front(st)
           x == st[Len(st)].node
           c == [w.color EXCEPT ![x] = "black"]
           u == [w EXCEPT !.color[w.stack[Len(w.stack)].node] = "black", !.stack = Front(@)]
           B == Black(t, w)
<1>1. IsSearchable(g) /\ g.node = K
  BY BuildGraphFacts
<1>2. st \in Seq(Frames(g)) /\ SearchInv(g, B, st)
  BY DEF ColorInv, Searches
<1>3. u = [color |-> c, parent |-> w.parent, stack |-> s, cycle |-> w.cycle]
  <2>1. u = [w EXCEPT !.color = c, !.stack = s]
    BY DEF ColorInv, Searches
  <2> HIDE DEF c, s, u
  <2> QED BY <2>1 DEF ColorInv, Searches
<1> HIDE DEF g
<1>4. Len(st) \in Nat /\ Len(st) > 0 /\ Len(st) \in 1..Len(st)
  BY <1>2
<1>5. s \in Seq(Frames(g)) /\ Len(s) = Len(st) - 1 /\ \A f \in 1..Len(s) : s[f] = st[f]
  <2> HIDE DEF st
  <2> QED BY <1>2, <1>4, StackFacts
<1>6. x \in K
  BY <1>1, <1>2, <1>4, FrameFacts
<1>7. /\ c \in [K -> {"white", "gray", "black"}] /\ c[x] = "black"
      /\ \A k \in K : k # x => c[k] = w.color[k]
  <2> HIDE DEF x
  <2> QED BY <1>6 DEF ColorInv, Searches
<1> HIDE DEF s, c
<1>8. u \in Searches(t)
  BY <1>3, <1>5, <1>7 DEF ColorInv, Searches, g, K
<1>9. u.color = c /\ u.parent = w.parent /\ u.stack = s /\ u.cycle = w.cycle
  BY <1>3
<1> HIDE DEF u
<1>10. \A y : OnStack(s, y) <=> OnStack(st, y) /\ y # x
  <2>1. \A f \in 1..Len(st) : f \in 1..Len(s) \/ f = Len(st)
    BY <1>4, <1>5
  <2>2. \A f \in 1..Len(s) : f \in 1..Len(st) /\ f # Len(st)
    BY <1>4, <1>5
  <2>3. \A f \in 1..Len(s) : s[f].node = st[f].node /\ st[f].node # x
    BY <1>2, <1>4, <1>5, <2>2 DEF SearchInv
  <2> QED BY <2>1, <2>2, <2>3 DEF OnStack
<1>11. IsGray(t, u)
  BY <1>7, <1>9, <1>10 DEF ColorInv, IsGray
<1>12. IsTraced(u)
  <2> SUFFICES ASSUME NEW i \in 1..(Len(s) - 1)
               PROVE  w.parent[s[i + 1].node] = s[i].node
    BY <1>9 DEF IsTraced
  <2>1. i \in 1..(Len(st) - 1) /\ i \in 1..Len(s) /\ i + 1 \in 1..Len(s)
    BY <1>4, <1>5
  <2> QED BY <1>5, <2>1 DEF ColorInv, IsTraced
<1>13. Black(t, u) = B \cup {x}
  BY <1>6, <1>7, <1>9 DEF Black
<1>14. SearchInv(g, B \cup {x}, s)
  <2>1. \A j \in g.out[x] : j < st[Len(st)].index
    BY DEF g
  <2> HIDE DEF st, B
  <2> QED BY <1>1, <1>2, <1>4, <1>5, <2>1, SearchUp
<1>15. Grew(Done(g, B, st), Done(g, B \cup {x}, s))
  BY <1>2, <1>4, <1>5, DoneUp
<1>16. ColorInv(t, u)
  BY <1>8, <1>9, <1>11, <1>12, <1>13, <1>14 DEF ColorInv, g
<1>17. Grew(ColorDone(t, w), ColorDone(t, u))
  BY <1>9, <1>13, <1>15 DEF ColorDone, g
<1> QED BY <1>16, <1>17 DEF ColorGoes, u

(* A white node is begun.                                                  *)
LEMMA BeginFacts ==
  ASSUME NEW t, IsGraph(t), NEW w \in Searches(t), NEW n \in StagesOf(t),
         IsGray(t, w), w.color[n] = "white"
  PROVE  LET u == Begin(w, n)
             g == BuildGraph(t)
         IN  /\ u \in Searches(t) /\ u.cycle = w.cycle /\ u.parent = w.parent
             /\ Pushed(g, w.stack, u.stack, n) /\ ~OnStack(w.stack, n)
             /\ IsGray(t, u) /\ Black(t, u) = Black(t, w) /\ n \notin Black(t, w)
<1> DEFINE g == BuildGraph(t)
           K == StagesOf(t)
           st == w.stack
           fr == [node |-> n, index |-> 1]
           s == Append(st, fr)
           c == [w.color EXCEPT ![n] = "gray"]
           u == Begin(w, n)
<1>1. g.node = K
  BY BuildGraphFacts
<1>2. u = [color |-> c, parent |-> w.parent, stack |-> s, cycle |-> w.cycle]
  <2>1. u = [w EXCEPT !.color = c, !.stack = s]
    BY DEF Begin, Searches
  <2> HIDE DEF s, c, u
  <2> QED BY <2>1 DEF Searches
<1>3. fr \in Frames(g) /\ fr.node = n /\ fr.index = 1
  BY <1>1 DEF Frames
<1>4. st \in Seq(Frames(g))
  BY DEF Searches
<1>5. /\ c \in [K -> {"white", "gray", "black"}] /\ c[n] = "gray"
      /\ \A k \in K : k # n => c[k] = w.color[k]
  BY DEF Searches
<1> HIDE DEF g, fr, st, c
<1>6. s \in Seq(Frames(g)) /\ Len(s) = Len(st) + 1 /\ s[Len(s)] = fr /\ \A f \in 1..Len(st) : s[f] = st[f]
  BY <1>3, <1>4, StackFacts
<1>7. Len(st) \in Nat
  BY <1>4
<1> HIDE DEF s
<1>8. u \in Searches(t)
  BY <1>2, <1>5, <1>6 DEF Searches, g, K
<1>9. u.color = c /\ u.parent = w.parent /\ u.stack = s /\ u.cycle = w.cycle
  BY <1>2
<1> HIDE DEF u
<1>10. Pushed(g, st, s, n)
  BY <1>1, <1>3, <1>6 DEF Pushed
<1>11. ~OnStack(st, n)
  BY DEF IsGray, st
<1>12. \A y : OnStack(s, y) <=> OnStack(st, y) \/ y = n
  <2>1. \A f \in 1..Len(s) : f \in 1..Len(st) \/ f = Len(s)
    BY <1>6, <1>7
  <2>2. \A f \in 1..Len(st) : f \in 1..Len(s)
    BY <1>6, <1>7
  <2>3. Len(s) \in 1..Len(s)
    BY <1>6, <1>7
  <2> QED BY <1>3, <1>6, <2>1, <2>2, <2>3 DEF OnStack
<1>13. IsGray(t, u)
  BY <1>5, <1>9, <1>12 DEF IsGray, st
<1>14. Black(t, u) = Black(t, w) /\ n \notin Black(t, w)
  BY <1>5, <1>9 DEF Black
<1> QED BY <1>8, <1>9, <1>10, <1>11, <1>13, <1>14 DEF u, g, st

(* The search begins with a stage that the sort has left over.             *)
LEMMA ColorBegins ==
  ASSUME NEW t, IsGraph(t), NEW w, ColorInv(t, w), w.stack = <<>>,
         w.cycle = <<>>, NEW n \in StagesOf(t), w.color[n] = "white"
  PROVE  ColorGoes(t, w, Begin(w, n))
<1> DEFINE g == BuildGraph(t)
           u == Begin(w, n)
           B == Black(t, w)
<1>1. /\ u \in Searches(t) /\ u.cycle = w.cycle /\ u.parent = w.parent
      /\ Pushed(g, w.stack, u.stack, n) /\ ~OnStack(w.stack, n)
      /\ IsGray(t, u) /\ Black(t, u) = B /\ n \notin B
  BY BeginFacts DEF ColorInv
<1>2. IsSearchable(g)
  BY BuildGraphFacts
<1>3. SearchInv(g, B, w.stack) /\ w.stack \in Seq(Frames(g))
  BY DEF ColorInv, Searches
<1> HIDE DEF g, u, B
<1>4. SearchInv(g, B, u.stack)
  BY <1>1, <1>2, <1>3, SearchBegin
<1>5. Grew(Done(g, B, w.stack), Done(g, B, u.stack))
  BY <1>1, <1>2, <1>3, DonePush
<1>6. IsTraced(u)
  <2>1. Len(u.stack) = 1
    BY <1>1 DEF Pushed
  <2> QED BY <2>1 DEF IsTraced
<1>7. ColorInv(t, u)
  BY <1>1, <1>4, <1>6 DEF ColorInv, g, B
<1>8. Grew(ColorDone(t, w), ColorDone(t, u))
  BY <1>1, <1>5 DEF ColorDone, g, B
<1> QED BY <1>7, <1>8 DEF ColorGoes, u

(* The node on top has been asked for its neighbour j.                     *)
LEMMA AskFacts ==
  ASSUME NEW t, IsGraph(t), NEW w, ColorInv(t, w), w.stack # <<>>,
         NEW j \in BuildGraph(t).out[w.stack[Len(w.stack)].node], j >= w.stack[Len(w.stack)].index,
         \A k \in BuildGraph(t).out[w.stack[Len(w.stack)].node] : w.stack[Len(w.stack)].index <= k => j <= k
  PROVE  LET v == [w EXCEPT !.stack[Len(w.stack)].index = j + 1]
         IN  /\ v \in Searches(t) /\ v.color = w.color /\ v.parent = w.parent /\ v.cycle = w.cycle
             /\ Advanced(BuildGraph(t), w.stack, v.stack, j)
             /\ IsGray(t, v) /\ IsTraced(v) /\ Black(t, v) = Black(t, w)
             /\ \A x : OnStack(v.stack, x) <=> OnStack(w.stack, x)
<1> DEFINE g == BuildGraph(t)
           st == w.stack
           n == Len(st)
           s == [st EXCEPT ![n].index = j + 1]
           v == [w EXCEPT !.stack[Len(w.stack)].index = j + 1]
<1>1. IsSearchable(g) /\ g.node = StagesOf(t)
  BY BuildGraphFacts
<1>2. st \in Seq(Frames(g))
  BY DEF ColorInv, Searches
<1>3. v = [color |-> w.color, parent |-> w.parent, stack |-> s, cycle |-> w.cycle]
  <2>1. v = [w EXCEPT !.stack = s]
    BY DEF ColorInv, Searches
  <2> HIDE DEF s, v
  <2> QED BY <2>1 DEF ColorInv, Searches
<1>4. n \in Nat /\ n > 0 /\ n \in 1..n
  BY <1>2
<1>5. st[n].node \in g.node /\ j \in Nat
  <2> HIDE DEF g
  <2>1. st[n].node \in g.node
    BY <1>2, <1>4, FrameFacts
  <2> QED BY <1>1, <2>1 DEF IsSearchable, g
<1>6. Advanced(g, st, s, j)
  <2>1. j \in g.out[st[n].node] /\ j >= st[n].index
    OBVIOUS
  <2>2. \A k \in g.out[st[n].node] : st[n].index <= k => j <= k
    OBVIOUS
  <2> HIDE DEF st, g
  <2> QED BY <1>2, <1>4, <1>5, <2>1, <2>2, AdvanceFacts
<1> HIDE DEF s, g
<1>7. s \in Seq(Frames(g)) /\ Len(s) = n /\ \A f \in 1..n : s[f].node = st[f].node
  <2>1. \A f \in 1..n : f \in 1..(n - 1) \/ f = n
    BY <1>4
  <2> QED BY <1>6, <2>1 DEF Advanced
<1>8. /\ v \in Searches(t) /\ v.color = w.color /\ v.parent = w.parent
      /\ v.cycle = w.cycle /\ v.stack = s
  BY <1>3, <1>7 DEF ColorInv, Searches, g
<1> HIDE DEF v
<1>9. \A x : OnStack(s, x) <=> OnStack(st, x)
  BY <1>7 DEF OnStack
<1>10. IsGray(t, v) /\ Black(t, v) = Black(t, w)
  BY <1>8, <1>9 DEF ColorInv, IsGray, Black
<1>11. IsTraced(v)
  <2>1. \A i \in 1..(n - 1) : i \in 1..n /\ i + 1 \in 1..n
    BY <1>4
  <2> QED BY <1>7, <1>8, <2>1 DEF ColorInv, IsTraced
<1> QED BY <1>6, <1>8, <1>9, <1>10, <1>11 DEF v, g

(* A white neighbour is begun.                                             *)
LEMMA ColorDescends ==
  ASSUME NEW t, IsGraph(t), NEW w, ColorInv(t, w), w.cycle = <<>>,
         NEW v \in Searches(t), NEW j \in StagesOf(t), w.color[j] = "white",
         v.color = w.color, v.parent = w.parent, v.cycle = w.cycle,
         Advanced(BuildGraph(t), w.stack, v.stack, j),
         IsGray(t, v), IsTraced(v), Black(t, v) = Black(t, w)
  PROVE  ColorGoes(t, w, Descend(v, w.stack[Len(w.stack)].node, j))
<1> DEFINE g == BuildGraph(t)
           st == w.stack
           x == st[Len(st)].node
           q == [v EXCEPT !.parent[j] = x]
           u == Begin(q, j)
           B == Black(t, w)
           p == [v.parent EXCEPT ![j] = x]
           K == StagesOf(t)
<1>1. IsSearchable(g) /\ g.node = K /\ g.to[j] = j
  BY BuildGraphFacts
<1>2. st \in Seq(Frames(g)) /\ SearchInv(g, B, st) /\ v.stack \in Seq(Frames(g))
  BY DEF ColorInv, Searches
<1>3. Len(st) \in Nat /\ Len(st) > 0 /\ Len(st) \in 1..Len(st) /\ Len(v.stack) = Len(st)
  <2> HIDE DEF st, g
  <2> QED BY <1>2 DEF Advanced, st, g
<1>4. x \in K
  <2> HIDE DEF g
  <2> QED BY <1>1, <1>2, <1>3, FrameFacts
<1> HIDE DEF x
<1>5. /\ p \in [K -> K \cup {NoParent}] /\ p[j] = x
      /\ \A k \in K : k # j => p[k] = w.parent[k]
  BY <1>4 DEF Searches
<1>6. q = [color |-> v.color, parent |-> p, stack |-> v.stack, cycle |-> v.cycle]
  BY SMTT(30) DEF Searches
<1> HIDE DEF p
<1>7. q \in Searches(t)
  BY <1>5, <1>6 DEF Searches, K
<1>8. q.color = w.color /\ q.parent = p /\ q.stack = v.stack /\ q.cycle = w.cycle
  BY <1>6
<1> HIDE DEF q
<1>9. IsGray(t, q) /\ Black(t, q) = B
  BY <1>8 DEF IsGray, Black
<1>10. /\ u \in Searches(t) /\ u.cycle = w.cycle /\ u.parent = p
       /\ Pushed(g, v.stack, u.stack, j) /\ ~OnStack(v.stack, j)
       /\ IsGray(t, u) /\ Black(t, u) = B /\ j \notin B
  BY <1>7, <1>8, <1>9, BeginFacts
<1>11. ~OnStack(st, j)
  BY DEF ColorInv, IsGray
<1> HIDE DEF u, g, B
<1>12. SearchInv(g, B, u.stack)
  <2>1. Advanced(g, st, v.stack, j)
    BY DEF g
  <2> HIDE DEF st
  <2> QED BY <1>1, <1>2, <1>10, <1>11, <2>1, SearchDown
<1>13. Grew(Done(g, B, st), Done(g, B, u.stack))
  <2>1. Advanced(g, st, v.stack, j)
    BY DEF g
  <2> HIDE DEF st
  <2>2. Grew(Done(g, B, st), Done(g, B, v.stack))
    BY <1>1, <1>2, <2>1, DoneOn
  <2>3. Grew(Done(g, B, v.stack), Done(g, B, u.stack))
    BY <1>1, <1>2, <1>10, DonePush
  <2> QED BY <2>2, <2>3, GrewOn
<1>14. IsTraced(u)
  <2> SUFFICES ASSUME NEW i \in 1..(Len(u.stack) - 1)
               PROVE  u.parent[u.stack[i + 1].node] = u.stack[i].node
    BY DEF IsTraced
  <2> DEFINE m == Len(st)
             z == v.stack
             y == u.stack
  <2>1. /\ Len(y) = m + 1 /\ Len(z) = m /\ (\A f \in 1..m : y[f] = z[f])
        /\ y[m + 1].node = j /\ z[m].node = x
    BY <1>3, <1>10 DEF Pushed, Advanced, x
  <2>2. \A f \in 1..m : z[f].node \in K /\ z[f].node # j
    <3> HIDE DEF z
    <3>1. \A f \in 1..m : z[f].node \in K
      BY <1>1, <1>2, <2>1, FrameFacts DEF z
    <3>2. \A f \in 1..m : z[f].node # j
      BY <1>10, <2>1 DEF OnStack, z
    <3> QED BY <3>1, <3>2
  <2>3. CASE i = m
    BY <1>3, <1>5, <1>10, <2>1, <2>3
  <2>4. CASE i < m
    <3>1. i \in 1..m /\ i + 1 \in 1..m /\ i \in 1..(m - 1)
      BY <1>3, <2>1, <2>4
    <3>2. w.parent[z[i + 1].node] = z[i].node
      BY <2>1, <3>1 DEF IsTraced
    <3>3. p[z[i + 1].node] = z[i].node
      BY <1>5, <2>2, <3>1, <3>2
    <3> QED BY <1>10, <2>1, <3>1, <3>3
  <2> QED BY <1>3, <2>1, <2>3, <2>4
<1>15. ColorInv(t, u)
  BY <1>10, <1>12, <1>14 DEF ColorInv, g, B
<1>16. Grew(ColorDone(t, w), ColorDone(t, u))
  BY <1>10, <1>13 DEF ColorDone, g, B
<1> QED BY <1>15, <1>16 DEF ColorGoes, u, q, x, Descend

(* Tracing back: what a step of it gives.                                  *)
Back(parent, stop, x) == IF x \in {stop, NoParent} THEN stop ELSE parent[x]

(* The nodes b along the parents are what is traced.                       *)
IsBack(t, parent, cur, stop, b) ==
  /\ b[0] = cur /\ \A n \in 1..Len(t.roles) : b[n] = Back(parent, stop, b[n - 1])
  /\ Traced(t, parent, cur, stop) =
       LET ends == {n \in 0..Len(t.roles) : b[n] \in {stop, NoParent}}
       IN  [i \in 1..Min(ends) |-> b[Min(ends) - i]]

(* The recursion along the parents.                                        *)
LEMMA BackFacts ==
  ASSUME NEW t, IsGraph(t), NEW parent \in [StagesOf(t) -> StagesOf(t) \cup {NoParent}],
         NEW cur \in StagesOf(t), NEW stop \in StagesOf(t)
  PROVE  \E b : IsBack(t, parent, cur, stop, b)
<1> DEFINE N == Len(t.roles)
           V == StagesOf(t) \cup {NoParent}
           d == [i \in 1..N |-> [v \in V |-> Back(parent, stop, v)]]
           Def(f) == f = [n \in 0..N |->
                            IF n = 0 THEN cur
                            ELSE IF f[n - 1] \in {stop, NoParent} THEN stop ELSE parent[f[n - 1]]]
           b == CHOOSE f : Def(f)
<1>1. N \in Nat /\ cur \in V
  BY DEF IsGraph
<1>2. \A v \in V : Back(parent, stop, v) \in V
  BY DEF Back
<1> HIDE DEF V, N
<1>3. d \in [1..N -> [V -> V]]
  BY <1>2
<1>4. PICK f : Computes(f, N, V, cur, d)
  <2> HIDE DEF d
  <2> QED BY <1>1, <1>3, Recursion
<1>5. ASSUME NEW i \in 1..N
      PROVE  f[i] = Back(parent, stop, f[i - 1])
  <2>1. i # 0 /\ i \in 0..N /\ i - 1 \in 0..N
    BY <1>1
  <2>2. f[i] = d[i][f[i - 1]] /\ f[i - 1] \in V
    <3> HIDE DEF d
    <3> QED BY <1>4, <2>1 DEF Computes
  <2> QED BY <2>2
<1> HIDE DEF d
<1>6. Def(f)
  <2>1. f = [i \in 0..N |-> f[i]] /\ f[0] = cur
    BY <1>4 DEF Computes
  <2>2. \A i \in 0..N : i # 0 => i \in 1..N
    BY <1>1
  <2> QED BY <1>5, <2>1, <2>2 DEF Back
<1>7. Def(b)
  <2> HIDE DEF Def
  <2> QED BY <1>6
<1>8. Traced(t, parent, cur, stop) =
        LET ends == {n \in 0..N : b[n] \in {stop, NoParent}}
        IN  [i \in 1..Min(ends) |-> b[Min(ends) - i]]
  BY DEF Traced, N
<1> HIDE DEF b
<1>9. b[0] = cur
  BY <1>1, <1>7
<1>10. ASSUME NEW i \in 1..N
       PROVE  b[i] = Back(parent, stop, b[i - 1])
  <2>1. i \in 0..N /\ i # 0
    BY <1>1
  <2> QED BY <1>7, <2>1 DEF Back
<1> HIDE DEF Def
<1>11. IsBack(t, parent, cur, stop, b)
  BY <1>8, <1>9, <1>10 DEF IsBack, N
<1> QED BY <1>11

(* What is traced back is the path above the place of stop.                *)
LEMMA TracedPath ==
  ASSUME NEW t, IsGraph(t), NEW w, ColorInv(t, w), NEW j \in 1..Len(w.stack)
  PROVE  LET st == w.stack
             p  == Traced(t, w.parent, st[Len(st)].node, st[j].node)
         IN  /\ p \in Seq(StagesOf(t)) /\ Len(p) = Len(st) - j
             /\ \A i \in 1..(Len(st) - j) : p[i] = st[j + i].node
<1> DEFINE g == BuildGraph(t)
           K == StagesOf(t)
           N == Len(t.roles)
           st == w.stack
           n == Len(st)
           m == n - j
           stop == st[j].node
           cur == st[n].node
           p == Traced(t, w.parent, cur, stop)
<1>1. g.node = K /\ K = 1..N /\ N \in Nat /\ NoParent \notin K
  <2>1. g.node = K
    BY BuildGraphFacts
  <2>2. K = 1..N /\ N \in Nat
    BY DEF IsGraph, StagesOf
  <2> HIDE DEF g, K, N
  <2> QED BY <2>1, <2>2 DEF NoParent
<1>2. /\ st \in Seq(Frames(g)) /\ SearchInv(g, Black(t, w), st)
      /\ w.parent \in [K -> K \cup {NoParent}]
  BY DEF ColorInv, Searches
<1> HIDE DEF g
<1>3. n \in Nat /\ n \in 1..n /\ j \in 1..n /\ m \in Nat /\ n \in Int /\ j \in Int
  BY <1>2
<1>4. \A f \in 1..n : st[f].node \in K
  BY <1>1, <1>2, FrameFacts
<1>5. n <= N
  <2> DEFINE q == [f \in 1..n |-> st[f].node]
  <2>1. q \in Seq(1..N) /\ Len(q) = n
    <3> HIDE DEF n, st
    <3> QED BY <1>1, <1>3, <1>4
  <2>2. \A f \in 1..n : q[f] = st[f].node
    OBVIOUS
  <2>3. \A f, h \in 1..n : st[f].node = st[h].node => f = h
    BY <1>2 DEF SearchInv
  <2> HIDE DEF q
  <2>4. Distinct(q)
    BY <2>1, <2>2, <2>3 DEF Distinct
  <2> QED BY <1>1, <2>1, <2>4, DistinctBound
<1>6. PICK b : /\ b[0] = cur /\ \A i \in 1..N : b[i] = Back(w.parent, stop, b[i - 1])
               /\ p = LET ends == {i \in 0..N : b[i] \in {stop, NoParent}}
                      IN  [i \in 1..Min(ends) |-> b[Min(ends) - i]]
  <2>1. cur \in K /\ stop \in K
    BY <1>3, <1>4
  <2> DEFINE par == w.parent
  <2>2. par \in [K -> K \cup {NoParent}]
    BY <1>2
  <2> HIDE DEF cur, stop, par
  <2>3. PICK b : IsBack(t, par, cur, stop, b)
    BY <2>1, <2>2, BackFacts
  <2> QED BY <2>3 DEF IsBack, par
<1> HIDE DEF p
<1> DEFINE S == {i \in 0..m : b[i] = st[n - i].node}
<1>7. 0 \in S
  BY <1>3, <1>6
<1>8. ASSUME NEW i \in 0..(m - 1), i \in S PROVE i + 1 \in S
  <2>1. /\ i + 1 \in 1..N /\ i + 1 \in 0..m /\ (i + 1) - 1 = i
        /\ n - i \in 1..n /\ n - i # j /\ n - (i + 1) \in 1..(n - 1) /\ (n - (i + 1)) + 1 = n - i
    BY <1>1, <1>3, <1>5
  <2>2. b[i] = st[n - i].node /\ b[i + 1] = Back(w.parent, stop, b[i])
    BY <1>6, <1>8, <2>1
  <2> DEFINE h == n - (i + 1)
  <2>3. h \in 1..(n - 1) /\ h + 1 = n - i /\ h + 1 \in 1..n /\ h + 1 # j
    BY <2>1
  <2> HIDE DEF h
  <2>4. b[i] = st[h + 1].node /\ b[i] # stop /\ b[i] # NoParent
    <3>1. b[i] = st[h + 1].node
      BY <2>2, <2>3
    <3>2. st[h + 1].node \in K
      BY <1>4, <2>3
    <3>3. st[h + 1].node # st[j].node
      BY <1>2, <1>3, <2>3 DEF SearchInv
    <3> HIDE DEF K
    <3> QED BY <1>1, <3>1, <3>2, <3>3
  <2>5. w.parent[st[h + 1].node] = st[h].node
    BY <2>3 DEF ColorInv, IsTraced
  <2>6. b[i + 1] = st[h].node
    BY <2>2, <2>4, <2>5 DEF Back
  <2> QED BY <2>1, <2>6 DEF h
<1> HIDE DEF S
<1>9. \A i \in 0..m : i \in S
  BY <1>3, <1>7, <1>8, Induction
<1>10. \A i \in 0..m : b[i] = st[n - i].node /\ n - i \in 1..n
  BY <1>3, <1>9 DEF S
<1> DEFINE ends == {i \in 0..N : b[i] \in {stop, NoParent}}
<1>11. Min(ends) = m
  <2>1. n - m = j /\ m \in 0..m /\ m \in 0..N
    BY <1>1, <1>3, <1>5
  <2>2. m \in ends
    BY <1>10, <2>1
  <2>3. ASSUME NEW i \in ends PROVE ~(i < m)
    <3> SUFFICES ASSUME i < m PROVE FALSE
      OBVIOUS
    <3>1. i \in 0..m /\ n - i \in 1..n /\ n - i # j
      BY <1>1, <1>3
    <3>2. b[i] = st[n - i].node /\ b[i] \in K /\ b[i] # stop
      BY <1>2, <1>3, <1>4, <1>10, <3>1 DEF SearchInv
    <3> QED BY <1>1, <3>2
  <2>4. ends \in SUBSET Nat /\ ends # {}
    BY <1>1, <2>2
  <2> DEFINE e == Min(ends)
  <2>5. e \in ends /\ e <= m
    <3> HIDE DEF ends
    <3> QED BY <2>2, <2>4, MinFacts
  <2>6. e \in Nat /\ ~(e < m)
    BY <2>3, <2>4, <2>5
  <2> HIDE DEF e
  <2>7. e = m
    BY <1>3, <2>5, <2>6
  <2> QED BY <2>7 DEF e
<1>12. p = [i \in 1..m |-> b[m - i]]
  BY <1>6, <1>11
<1>13. \A i \in 1..m : b[m - i] = st[j + i].node /\ j + i \in 1..n
  <2> SUFFICES ASSUME NEW i \in 1..m PROVE b[m - i] = st[j + i].node /\ j + i \in 1..n
    OBVIOUS
  <2>1. m - i \in 0..m /\ n - (m - i) = j + i /\ j + i \in 1..n
    <3> HIDE DEF n
    <3> QED BY <1>3
  <2>2. b[m - i] = st[n - (m - i)].node
    BY <1>10, <2>1
  <2> QED BY <2>1, <2>2
<1>14. \A i \in 1..m : p[i] = st[j + i].node /\ b[m - i] \in K
  BY <1>4, <1>12, <1>13
<1> HIDE DEF m
<1>15. p \in Seq(K) /\ Len(p) = m
  BY <1>3, <1>12, <1>14
<1> QED BY <1>14, <1>15 DEF p, m

(* The cycle that a gray neighbour y of the node on top closes.            *)
Loop(t, w, y) == <<y>> \o Traced(t, w.parent, w.stack[Len(w.stack)].node, y) \o <<y>>

(* A gray neighbour closes a cycle.                                        *)
LEMMA ColorCloses ==
  ASSUME NEW t, IsGraph(t), NEW w, ColorInv(t, w), w.stack # <<>>,
         NEW y \in StagesOf(t), w.color[y] = "gray",
         IsArc(BuildGraph(t), w.stack[Len(w.stack)].node, y)
  PROVE  ColorGoes(t, w, [w EXCEPT !.cycle = Loop(t, w, y)])
<1> DEFINE g == BuildGraph(t)
           K == StagesOf(t)
           st == w.stack
           n == Len(st)
           p == Traced(t, w.parent, st[n].node, y)
           c == Loop(t, w, y)
           u == [w EXCEPT !.cycle = c]
<1>1. IsSearchable(g) /\ g.node = K /\ IsAlong(g, t)
  BY BuildGraphFacts DEF IsAlong
<1>2. st \in Seq(Frames(g)) /\ SearchInv(g, Black(t, w), st)
  BY DEF ColorInv, Searches
<1>3. PICK j \in 1..n : st[j].node = y
  BY DEF ColorInv, IsGray, OnStack
<1>4. p \in Seq(K) /\ Len(p) = n - j /\ \A i \in 1..(n - j) : p[i] = st[j + i].node
  <2> DEFINE z == Traced(t, w.parent, st[n].node, st[j].node)
  <2>1. z \in Seq(K) /\ Len(z) = n - j /\ \A i \in 1..(n - j) : z[i] = st[j + i].node
    BY TracedPath
  <2>2. z = p
    BY <1>3
  <2> HIDE DEF z
  <2> QED BY <2>1, <2>2
<1>5. n \in Nat /\ j \in Int
  BY <1>2
<1> HIDE DEF p, c
<1>6. /\ c \in Seq(K) /\ Len(c) = n - j + 2 /\ c[1] = y /\ c[n - j + 2] = y
      /\ \A i \in 1..(n - j) : c[i + 1] = p[i]
  <2> DEFINE a == <<y>>
             q == a \o p
             m == n - j
  <2>0. m \in Nat /\ p \in Seq(K) /\ Len(p) = m
    BY <1>4, <1>5
  <2> HIDE DEF m
  <2>1. a \in Seq(K) /\ Len(a) = 1 /\ a[1] = y
    OBVIOUS
  <2>2. q \in Seq(K) /\ Len(q) = 1 + m /\ q[1] = y /\ \A i \in 1..m : q[i + 1] = p[i]
    <3> HIDE DEF a
    <3>1. /\ q \in Seq(K) /\ Len(q) = Len(a) + Len(p)
          /\ \A i \in 1..(Len(a) + Len(p)) : q[i] = IF i <= Len(a) THEN a[i] ELSE p[i - Len(a)]
      BY <2>0, <2>1, ConcatProperties
    <3>2. Len(a) + Len(p) = 1 + m /\ 1 \in 1..(1 + m) /\ \A i \in 1..m : i + 1 \in 1..(1 + m) /\ (i + 1) - 1 = i
      BY <2>0, <2>1
    <3>3. ASSUME NEW i \in 1..m PROVE q[i + 1] = p[i]
      BY <2>1, <3>1, <3>2
    <3> HIDE DEF q
    <3> QED BY <2>1, <3>1, <3>2, <3>3
  <2> HIDE DEF q
  <2>3. c = Append(q, y)
    <3>1. c = q \o <<y>>
      BY DEF q, p, c, Loop
    <3> QED BY <2>2, <3>1
  <2>4. c \in Seq(K) /\ Len(c) = (1 + m) + 1 /\ c[(1 + m) + 1] = y /\ \A i \in 1..(1 + m) : c[i] = q[i]
    BY <2>0, <2>2, <2>3
  <2>5. (1 + m) + 1 = m + 2 /\ 1 \in 1..(1 + m) /\ \A i \in 1..m : i + 1 \in 1..(1 + m)
    BY <2>0
  <2>6. /\ c \in Seq(K) /\ Len(c) = m + 2 /\ c[1] = y /\ c[m + 2] = y
        /\ \A i \in 1..m : c[i + 1] = p[i]
    BY <2>2, <2>4, <2>5
  <2> QED BY <2>6 DEF m
<1>7. IsCycle(t, c)
  <2>1. ASSUME NEW i \in 1..(n - j + 1) PROVE c[i] = st[j + i - 1].node
    <3>1. CASE i = 1
      <4>1. j + i - 1 = j
        BY <1>5, <3>1
      <4> QED BY <1>3, <1>6, <3>1, <4>1
    <3>2. CASE i # 1
      <4> DEFINE h == i - 1
      <4>1. h \in 1..(n - j) /\ i = h + 1 /\ j + i - 1 = j + h
        BY <1>5, <3>2
      <4> HIDE DEF h
      <4> QED BY <1>4, <1>6, <4>1
    <3> QED BY <3>1, <3>2
  <2>2. ClosesAt(c, st, j)
    BY <1>3, <1>6, <2>1 DEF ClosesAt
  <2>3. IsArc(g, st[Len(st)].node, st[j].node)
    BY <1>3
  <2> HIDE DEF st, g
  <2> QED BY <1>1, <1>2, <2>2, <2>3, BackArc
<1>8. u = [color |-> w.color, parent |-> w.parent, stack |-> st, cycle |-> c]
  BY DEF ColorInv, Searches
<1>9. u \in Searches(t)
  BY <1>6, <1>8 DEF ColorInv, Searches
<1>10. u.color = w.color /\ u.parent = w.parent /\ u.stack = st /\ u.cycle = c
  BY <1>8
<1> HIDE DEF u
<1>11. IsGray(t, u) /\ IsTraced(u) /\ Black(t, u) = Black(t, w)
  BY <1>10 DEF ColorInv, IsGray, IsTraced, Black
<1>12. ColorInv(t, u)
  BY <1>7, <1>9, <1>10, <1>11 DEF ColorInv
<1>13. c # <<>>
  BY <1>3, <1>5, <1>6
<1> QED BY <1>10, <1>12, <1>13 DEF ColorGoes, u, c

(* The next neighbour is looked at.                                        *)
LEMMA ColorFollows ==
  ASSUME NEW t, IsGraph(t), NEW w, ColorInv(t, w), w.stack # <<>>, w.cycle = <<>>,
         NEW j \in BuildGraph(t).out[w.stack[Len(w.stack)].node], j >= w.stack[Len(w.stack)].index,
         \A k \in BuildGraph(t).out[w.stack[Len(w.stack)].node] : w.stack[Len(w.stack)].index <= k => j <= k
  PROVE  ColorGoes(t, w, FollowEdge(t, w, w.stack[Len(w.stack)].node, j))
<1> DEFINE g == BuildGraph(t)
           K == StagesOf(t)
           st == w.stack
           x == st[Len(st)].node
           v == [w EXCEPT !.stack[Len(w.stack)].index = j + 1]
           B == Black(t, w)
<1>1. IsSearchable(g) /\ g.node = K /\ \A k \in g.node : g.to[k] = k
  BY BuildGraphFacts
<1>2. st \in Seq(Frames(g)) /\ SearchInv(g, B, st)
  BY DEF ColorInv, Searches
<1>3. x \in K /\ j \in K /\ g.to[j] = j /\ IsArc(g, x, j)
  <2>1. Len(st) \in 1..Len(st)
    BY <1>2
  <2>2. x \in g.node
    <3> HIDE DEF g, st
    <3> QED BY <1>2, <2>1, FrameFacts
  <2>3. g.out[x] \in SUBSET K
    BY <2>2, BuildGraphFacts
  <2>4. j \in K /\ g.to[j] = j /\ j \in g.out[x]
    BY <1>1, <2>3
  <2> HIDE DEF g
  <2> QED BY <1>1, <2>2, <2>4 DEF IsArc
<1>4. /\ v \in Searches(t) /\ v.color = w.color /\ v.parent = w.parent /\ v.cycle = w.cycle
      /\ Advanced(g, st, v.stack, j)
      /\ IsGray(t, v) /\ IsTraced(v) /\ Black(t, v) = B
  BY AskFacts
<1>5. w.color[j] \in {"white", "gray", "black"}
  BY <1>3 DEF ColorInv, Searches
<1>6. CASE w.color[j] = "gray"
  <2>1. FollowEdge(t, w, x, j) = [w EXCEPT !.cycle = Loop(t, w, j)]
    BY <1>6 DEF FollowEdge, Loop
  <2> QED BY <1>3, <1>6, <2>1, ColorCloses
<1>7. CASE w.color[j] = "white"
  <2>1. FollowEdge(t, w, x, j) = Descend(v, x, j)
    BY <1>7 DEF FollowEdge
  <2>2. ColorGoes(t, w, Descend(v, x, j))
    <3> HIDE DEF v
    <3> QED BY <1>3, <1>4, <1>7, ColorDescends
  <2> QED BY <2>1, <2>2
<1>8. CASE w.color[j] = "black"
  <2>1. FollowEdge(t, w, x, j) = v
    BY <1>8 DEF FollowEdge
  <2>2. g.to[j] \in B
    BY <1>3, <1>8 DEF Black
  <2> HIDE DEF v, g, B, st
  <2>3. SearchInv(g, B, v.stack)
    BY <1>1, <1>2, <1>4, <2>2, SearchOn
  <2>4. Grew(Done(g, B, st), Done(g, B, v.stack))
    BY <1>1, <1>2, <1>4, DoneOn
  <2>5. ColorInv(t, v)
    BY <1>4, <2>3 DEF ColorInv, g, B
  <2>6. Grew(ColorDone(t, w), ColorDone(t, v))
    BY <1>4, <2>4 DEF ColorDone, g, B, st
  <2> QED BY <2>1, <2>5, <2>6 DEF ColorGoes, st
<1> QED BY <1>5, <1>6, <1>7, <1>8

(* A turn of the search.                                                   *)
LEMMA SearchTurnFacts ==
  ASSUME NEW t, IsGraph(t), NEW degree, NEW w, ColorInv(t, w)
  PROVE  /\ Ended(t, degree, w) => SearchTurn(t, degree, w) = w
         /\ ~Ended(t, degree, w) => ColorGoes(t, w, SearchTurn(t, degree, w))
<1> DEFINE g == BuildGraph(t)
           K == StagesOf(t)
           st == w.stack
           top == st[Len(st)]
           ahead == {j \in K : j >= top.index /\ OutEdges(t, top.node) \cap InEdges(t, j) # {}}
           starts == {k \in K : degree[k] # 0 /\ w.color[k] = "white"}
           u == SearchTurn(t, degree, w)
<1>1. u = IF w.cycle # <<>> THEN w
          ELSE IF st # <<>>
          THEN IF ahead = {} THEN [w EXCEPT !.color[top.node] = "black", !.stack = Front(@)]
               ELSE FollowEdge(t, w, top.node, Min(ahead))
          ELSE IF starts = {} THEN w ELSE Begin(w, Min(starts))
  BY DEF SearchTurn
<1>2. Ended(t, degree, w) <=> w.cycle # <<>> \/ (st = <<>> /\ starts = {})
  BY DEF Ended
<1>3. K \subseteq Nat /\ ahead \in SUBSET Nat /\ starts \in SUBSET Nat
  BY DEF IsGraph, StagesOf
<1>4. st \in Seq(Frames(g))
  BY DEF ColorInv, Searches
<1>5. ASSUME st # <<>>
      PROVE  /\ top.index \in Nat
             /\ \A j : j \in ahead <=> j \in g.out[top.node] /\ j >= top.index
             /\ \A j \in g.out[top.node] : j \in Nat
  <2>1. Len(st) \in 1..Len(st)
    BY <1>4, <1>5
  <2>2. top.node \in g.node /\ top.index \in Nat
    <3> HIDE DEF g, st
    <3> QED BY <1>4, <2>1, FrameFacts
  <2>3. g.out[top.node] = {j \in K : OutEdges(t, top.node) \cap InEdges(t, j) # {}}
    BY <2>2, BuildGraphFacts
  <2> HIDE DEF g
  <2> QED BY <1>3, <2>2, <2>3
<1> HIDE DEF u
<1>6. CASE w.cycle = <<>> /\ st # <<>> /\ ahead = {}
  <2>1. \A j \in g.out[top.node] : j < top.index
    BY SMTT(30), <1>5, <1>6
  <2>2. ColorGoes(t, w, [w EXCEPT !.color[top.node] = "black", !.stack = Front(@)])
    BY <1>6, <2>1, ColorReturns
  <2> QED BY <1>1, <1>2, <1>6, <2>2 DEF u
<1>7. CASE w.cycle = <<>> /\ st # <<>> /\ ahead # {}
  <2> DEFINE j == Min(ahead)
  <2>1. j \in ahead /\ \A k \in ahead : j <= k
    <3> HIDE DEF ahead
    <3> QED BY <1>3, <1>7, MinFacts
  <2> HIDE DEF j
  <2>2. j \in g.out[top.node] /\ j >= top.index
    BY <1>5, <1>7, <2>1
  <2>3. \A k \in g.out[top.node] : top.index <= k => j <= k
    BY <1>5, <1>7, <2>1
  <2>4. ColorGoes(t, w, FollowEdge(t, w, top.node, j))
    BY <1>7, <2>2, <2>3, ColorFollows
  <2> QED BY <1>1, <1>2, <1>7, <2>4 DEF u, j
<1>8. CASE w.cycle = <<>> /\ st = <<>> /\ starts # {}
  <2> DEFINE k == Min(starts)
  <2>1. k \in starts
    <3> HIDE DEF starts
    <3> QED BY <1>3, <1>8, MinFacts
  <2> HIDE DEF k
  <2>2. ColorGoes(t, w, Begin(w, k))
    BY <1>8, <2>1, ColorBegins
  <2> QED BY <1>1, <1>2, <1>8, <2>2 DEF u, k
<1>9. CASE Ended(t, degree, w)
  BY <1>1, <1>2, <1>9 DEF u
<1> QED BY <1>2, <1>6, <1>7, <1>8, <1>9 DEF u

(* The search begins with all nodes white.                                 *)
SearchStart(t) ==
  [color  |-> [k \in StagesOf(t) |-> "white"],
   parent |-> [k \in StagesOf(t) |-> NoParent],
   stack  |-> <<>>,
   cycle  |-> <<>>]

(* Nothing is done at the start.                                           *)
LEMMA ColorStart ==
  ASSUME NEW t, IsGraph(t)
  PROVE  ColorInv(t, SearchStart(t))
<1> DEFINE w == SearchStart(t)
           g == BuildGraph(t)
<1>1. w.stack = <<>> /\ w.cycle = <<>> /\ (\A k \in StagesOf(t) : w.color[k] = "white")
  BY DEF SearchStart
<1>2. w \in Searches(t)
  BY DEF Searches, SearchStart
<1> HIDE DEF w, g
<1>3. Black(t, w) = {} /\ Len(w.stack) = 0
  BY <1>1 DEF Black
<1>4. SearchInv(g, {}, <<>>)
  BY SearchNothing
<1>5. IsGray(t, w) /\ IsTraced(w)
  BY <1>1, <1>3 DEF IsGray, IsTraced, OnStack
<1>6. ColorInv(t, w)
  BY <1>1, <1>2, <1>3, <1>4, <1>5 DEF ColorInv, g
<1> QED BY <1>6 DEF w

(* The recursion over the turns.                                           *)
LEMMA SearchTurnsFacts ==
  ASSUME NEW t, IsGraph(t), NEW degree
  PROVE  LET r == SearchTurns(t, degree)
             N == Len(t.roles) * (Len(t.roles) + 2)
         IN  /\ N \in Nat
             /\ \A n \in 0..N : ColorInv(t, r[n])
             /\ \A n \in 1..N : r[n] = SearchTurn(t, degree, r[n - 1])
<1> DEFINE L == Len(t.roles)
           N == L * (L + 2)
           W == {w \in Searches(t) : ColorInv(t, w)}
           e == SearchStart(t)
           d == [i \in 1..N |-> [v \in W |-> SearchTurn(t, degree, v)]]
           Def(f) == f = [n \in 0..N |-> IF n = 0 THEN e ELSE SearchTurn(t, degree, f[n - 1])]
           r == SearchTurns(t, degree)
<1>0. N \in Nat
  <2>1. L \in Nat
    BY DEF IsGraph
  <2> HIDE DEF L
  <2> QED BY <2>1
<1>1. e \in W
  BY ColorStart DEF ColorInv
<1>2. \A v \in W : SearchTurn(t, degree, v) \in W
  <2> SUFFICES ASSUME NEW v \in W PROVE SearchTurn(t, degree, v) \in W
    OBVIOUS
  <2>1. CASE Ended(t, degree, v)
    BY <2>1, SearchTurnFacts
  <2>2. CASE ~Ended(t, degree, v)
    BY <2>2, SearchTurnFacts DEF ColorGoes, ColorInv
  <2> QED BY <2>1, <2>2
<1>3. \A v \in W : ColorInv(t, v)
  OBVIOUS
<1> HIDE DEF e, W, N
<1>4. d \in [1..N -> [W -> W]]
  BY <1>2
<1>5. PICK f : Computes(f, N, W, e, d)
  <2> HIDE DEF d
  <2> QED BY <1>0, <1>1, <1>4, Recursion
<1>6. ASSUME NEW i \in 1..N
      PROVE  f[i] = SearchTurn(t, degree, f[i - 1])
  <2>1. i # 0 /\ i \in 0..N /\ i - 1 \in 0..N
    BY <1>0
  <2>2. f[i] = d[i][f[i - 1]] /\ f[i - 1] \in W
    <3> HIDE DEF d
    <3> QED BY <1>5, <2>1 DEF Computes
  <2> QED BY <2>2
<1> HIDE DEF d
<1>7. Def(f)
  <2>1. f = [i \in 0..N |-> f[i]] /\ f[0] = e
    BY <1>5 DEF Computes
  <2>2. \A i \in 0..N : i # 0 => i \in 1..N
    BY <1>0
  <2> QED BY <1>6, <2>1, <2>2
<1>8. Def(r)
  <2>1. r = CHOOSE g : Def(g)
    BY DEF SearchTurns, SearchStart, e, N
  <2> HIDE DEF Def, r
  <2> QED BY <1>7, <2>1
<1> HIDE DEF r
<1>9. r[0] = e
  BY <1>0, <1>8
<1>10. ASSUME NEW i \in 1..N
       PROVE  r[i] = SearchTurn(t, degree, r[i - 1])
  <2>1. i \in 0..N /\ i # 0
    BY <1>0
  <2> QED BY <1>8, <2>1
<1>11. \A n \in 0..N : r[n] \in W
  <2> DEFINE S == {n \in 0..N : r[n] \in W}
  <2>1. 0 \in S
    BY <1>0, <1>1, <1>9
  <2>2. ASSUME NEW n \in 0..(N - 1), n \in S PROVE n + 1 \in S
    <3>1. n + 1 \in 1..N /\ n + 1 \in 0..N /\ (n + 1) - 1 = n
      BY <1>0
    <3>2. r[n + 1] = SearchTurn(t, degree, r[n])
      BY <1>10, <3>1
    <3> QED BY <1>2, <2>2, <3>1, <3>2
  <2> HIDE DEF S
  <2>3. \A n \in 0..N : n \in S
    BY <1>0, <2>1, <2>2, Induction
  <2> QED BY <2>3 DEF S
<1> QED BY <1>0, <1>3, <1>10, <1>11 DEF r, N

(* How much there is to do.                                                *)
LEMMA BuildTasks ==
  ASSUME NEW t, IsGraph(t)
  PROVE  LET T == Tasks(BuildGraph(t))
         IN  IsFiniteSet(T) /\ Cardinality(T) <= Len(t.roles) * (Len(t.roles) + 2)
<1> DEFINE g == BuildGraph(t)
           K == StagesOf(t)
           N == Len(t.roles)
           R == (-1)..N
<1>1. N \in Nat /\ K = 1..N /\ -1 \in Int
  BY DEF IsGraph, StagesOf
<1>2. IsFiniteSet(K) /\ Cardinality(K) = N
  <2>1. \A n \in Nat : IsFiniteSet(1..n) /\ Cardinality(1..n) = IF 1 > n THEN 0 ELSE n - 1 + 1
    BY FS_Interval
  <2>2. \A n \in Nat : (IF 1 > n THEN 0 ELSE n - 1 + 1) = n
    OBVIOUS
  <2> HIDE DEF K, N
  <2> QED BY <1>1, <2>1, <2>2
<1>3. IsFiniteSet(R) /\ Cardinality(R) = N + 2
  <2> DEFINE a == -1
  <2>1. a \in Int /\ N \in Int /\ ~(a > N) /\ N - a + 1 = N + 2
    BY <1>1
  <2> HIDE DEF a, N
  <2>2. IsFiniteSet(a..N) /\ Cardinality(a..N) = IF a > N THEN 0 ELSE N - a + 1
    BY <2>1, FS_Interval
  <2> QED BY <2>1, <2>2 DEF a
<1>4. ASSUME NEW p \in Tasks(g) PROVE p \in K \X R
  <2>1. /\ g.node = K
        /\ \A x \in g.node : g.out[x] = {j \in K : OutEdges(t, x) \cap InEdges(t, j) # {}}
    BY BuildGraphFacts
  <2> HIDE DEF g
  <2>2. p \in K \X Int /\ p[1] \in K /\ p[2] \in {-1, 0} \cup g.out[p[1]]
    BY <2>1 DEF Tasks
  <2>3. p[2] \in {-1, 0} \cup K
    BY <2>1, <2>2
  <2>4. p[2] \in R
    BY <1>1, <2>3
  <2> HIDE DEF K, R
  <2> QED BY <2>2, <2>4
<1> HIDE DEF K, R, N
<1>5. IsFiniteSet(K \X R) /\ Cardinality(K \X R) = N * (N + 2)
  BY <1>2, <1>3, FS_Product
<1>6. Tasks(g) \in SUBSET (K \X R)
  BY <1>4
<1> QED BY <1>5, <1>6, FS_Subset DEF N

(* After so many turns the search has ended.                               *)
LEMMA SearchEnd ==
  ASSUME NEW t, IsGraph(t), NEW degree
  PROVE  LET w == SearchTurns(t, degree)[Len(t.roles) * (Len(t.roles) + 2)]
         IN  ColorInv(t, w) /\ Ended(t, degree, w)
<1> DEFINE N == Len(t.roles) * (Len(t.roles) + 2)
           r == SearchTurns(t, degree)
           g == BuildGraph(t)
           T == Tasks(g)
           D == [n \in 0..N |-> ColorDone(t, r[n])]
           over == {n \in 0..N : Ended(t, degree, r[n])}
<1>1. IsFiniteSet(T) /\ Cardinality(T) <= N
  BY BuildTasks
<1>2. /\ N \in Nat
      /\ \A n \in 0..N : ColorInv(t, r[n])
      /\ \A n \in 1..N : r[n] = SearchTurn(t, degree, r[n - 1])
  BY SearchTurnsFacts
<1> HIDE DEF N, r
<1>3. \A n \in 0..N : D[n] \in SUBSET T
  BY DEF ColorDone, Done
<1>4. ASSUME NEW n \in 0..(N - 1)
      PROVE  n + 1 \in over \/ (n \notin over /\ Grew(D[n], D[n + 1]))
  <2>1. n + 1 \in 1..N /\ n + 1 \in 0..N /\ (n + 1) - 1 = n /\ n \in 0..N
    BY <1>2
  <2>2. ColorInv(t, r[n]) /\ r[n + 1] = SearchTurn(t, degree, r[n])
    BY <1>2, <2>1
  <2>3. CASE Ended(t, degree, r[n])
    BY <2>1, <2>2, <2>3, SearchTurnFacts
  <2>4. CASE ~Ended(t, degree, r[n])
    <3>1. r[n + 1].cycle # <<>> \/ Grew(ColorDone(t, r[n]), ColorDone(t, r[n + 1]))
      BY <2>2, <2>4, SearchTurnFacts DEF ColorGoes
    <3> QED BY <2>1, <2>4, <3>1 DEF Ended
  <2> QED BY <2>3, <2>4
<1>5. ASSUME D[N] = T PROVE N \in over
  <2> DEFINE w == r[N]
  <2>1. N \in 0..N /\ ColorInv(t, w) /\ ColorDone(t, w) = T
    BY <1>2, <1>5
  <2> HIDE DEF w
  <2>2. w.stack = <<>> /\ Black(t, w) = g.node
    BY <2>1, AllDone DEF ColorInv, ColorDone
  <2>3. g.node = StagesOf(t)
    BY BuildGraphFacts
  <2>4. Ended(t, degree, w)
    BY <2>2, <2>3 DEF Ended, Black
  <2> QED BY <2>1, <2>4 DEF w
<1> HIDE DEF D, over, T
<1>6. N \in over
  BY <1>1, <1>2, <1>3, <1>4, <1>5, LoopEnds
<1>7. N \in 0..N
  BY <1>2
<1> QED BY <1>2, <1>6, <1>7 DEF over, r, N

(* When the sort does not take every stage, a cycle is found among those   *)
(* it leaves over.                                                         *)
LEMMA FindCycleFacts ==
  ASSUME NEW t, IsGraph(t), Numbered(t), Len(Kahn(t).order) # Len(t.roles)
  PROVE  IsCycle(t, FindCycle(t, Kahn(t).degree))
<1> DEFINE z == Kahn(t)
           K == StagesOf(t)
           N == Len(t.roles)
           keys == [k \in K |-> k]
           g == BuildGraph(t)
           w == SearchTurns(t, z.degree)[N * (N + 2)]
           B == Black(t, w)
           L == {k \in K : ~In(k, z.order)}
<1>1. KahnInv(t, z) /\ z.queue = <<>>
  <2>1. IsListing(t, keys) /\ z = KahnFrom(t, keys)
    BY KeysListing DEF Kahn
  <2> HIDE DEF keys, z
  <2> QED BY <2>1, KahnEnd
<1>2. FindCycle(t, z.degree) = w.cycle
  BY DEF FindCycle
<1>3. ColorInv(t, w) /\ Ended(t, z.degree, w)
  BY SearchEnd
<1> HIDE DEF z, w
<1>4. z.order \in Seq(K) /\ N \in Nat /\ K = 1..N
  BY <1>1 DEF KahnInv, ListInv, Work, IsGraph, StagesOf
<1>5. Listed(z) = z.order
  BY <1>1, <1>4 DEF Listed
<1>6. /\ Distinct(z.order)
      /\ \A k \in K : In(k, z.order) <=> z.degree[k] = 0
      /\ \A k \in K : z.degree[k] = Cardinality(Left(t, z.order, k))
  BY <1>1, <1>5 DEF KahnInv, ListInv
<1>7. L # {}
  <2> DEFINE o == z.order
  <2>1. o \in Seq(1..N) /\ Distinct(o) /\ Len(o) # N /\ N \in Nat
    BY <1>4, <1>6 DEF z
  <2> HIDE DEF o, N
  <2>2. ~(\A k \in 1..N : In(k, o))
    BY <2>1, DistinctBound
  <2> QED BY <1>4, <2>2 DEF o
<1>8. w.cycle # <<>>
  <2> SUFFICES ASSUME w.cycle = <<>> PROVE FALSE
    OBVIOUS
  <2>1. w.stack = <<>> /\ \A k \in K : z.degree[k] # 0 => w.color[k] # "white"
    BY <1>3 DEF Ended
  <2>2. \A k \in K : w.color[k] \in {"white", "gray", "black"} /\ w.color[k] # "gray"
    BY <1>3, <2>1 DEF ColorInv, Searches, IsGray, OnStack
  <2>3. L \in SUBSET B
    BY <1>6, <2>1, <2>2 DEF Black
  <2>4. Grounded(g, B)
    BY <1>3 DEF ColorInv, SearchInv
  <2> HIDE DEF B, L
  <2>5. PICK k \in L : \A x \in L : ~IsArc(g, x, k)
    BY <1>7, <2>3, <2>4 DEF Grounded
  <2>6. k \in K /\ ~In(k, z.order)
    BY DEF L
  <2>7. Left(t, z.order, k) # {}
    BY <1>6, <2>6, FS_EmptySet
  <2>8. PICK i \in InEdges(t, k) : ~In(t.conns[i].from, z.order)
    BY <2>7 DEF Left
  <2> DEFINE x == t.conns[i].from
  <2>9. i \in DOMAIN t.conns /\ t.conns[i].to = k /\ x \in K
    BY <2>8 DEF InEdges, IsGraph
  <2>10. x \in L
    BY <2>8, <2>9 DEF L
  <2>11. <<x, k>> \in EdgesOf(t)
    BY <2>9 DEF EdgesOf
  <2> HIDE DEF x
  <2>12. IsArc(g, x, k)
    BY <2>6, <2>9, <2>11, BuildGraphFacts
  <2> QED BY <2>5, <2>10, <2>12
<1>9. IsCycle(t, w.cycle)
  BY <1>3, <1>8 DEF ColorInv
<1> QED BY <1>2, <1>9 DEF z
-----------------------------------------------------------------------------
(* Assembly.                                                               *)

(* Any order of the map lists every stage.                                 *)
LEMMA ListingFacts ==
  ASSUME NEW t, Numbered(t), NEW keys \in Listings(t)
  PROVE  /\ IsListing(t, keys) /\ Wired(t, keys)
         /\ \A k \in StagesOf(t) : \E i \in DOMAIN keys : keys[i] = k
<1> DEFINE N == Len(t.roles)
           K == StagesOf(t)
<1>1. N \in Nat /\ K = 1..N
  BY DEF Numbered, StagesOf
<1>2. keys \in [K -> K] /\ \A j, k \in K : keys[j] = keys[k] => j = k
  BY DEF Listings
<1> HIDE DEF N, K
<1>3. keys \in Seq(1..N) /\ Len(keys) = N /\ DOMAIN keys = 1..N
  BY <1>1, <1>2
<1>4. Distinct(keys)
  BY <1>1, <1>2, <1>3 DEF Distinct
<1>5. \A k \in 1..N : In(k, keys)
  BY <1>1, <1>3, <1>4, DistinctBound
<1>6. IsListing(t, keys)
  BY <1>1, <1>3, <1>4, <1>5 DEF IsListing, N, K
<1>7. Wired(t, keys)
  BY <1>1, <1>3 DEF Wired, Numbered
<1> QED BY <1>1, <1>3, <1>5, <1>6, <1>7 DEF In, K

(* The cycle in the builder's report.                                      *)
LEMMA BuiltCycle ==
  ASSUME NEW d \in Definition
  PROVE  /\ "Cycle" \in Build(d).errors => IsCycle(ResolvedEdges(d), Build(d).cycle)
         /\ ConstructionErrors(d) = {} /\ ~IsAcyclic(ResolvedEdges(d)) => "Cycle" \in Build(d).errors
<1> DEFINE t == ResolvedEdges(d)
<1>1. CASE ConstructionErrors(d) # {}
  <2>1. "Cycle" \notin ConstructionErrors(d)
    BY DEF ConstructionErrors, When
  <2> QED BY <1>1, <2>1 DEF Build
<1>2. CASE ConstructionErrors(d) = {}
  <2>1. Numbered(t) /\ IsGraph(t) /\ Build(d) = ValidateTopology(t)
    BY <1>2, ResolvedIsGraph DEF Build
  <2> HIDE DEF t
  <2>2. /\ "Cycle" \in ValidateTopology(t).errors <=>
             t.roles # <<>> /\ Len(Kahn(t).order) # Len(t.roles)
        /\ Len(Kahn(t).order) # Len(t.roles) =>
             ValidateTopology(t).cycle = FindCycle(t, Kahn(t).degree)
    BY DEF ValidateTopology, When
  <2>3. Len(Kahn(t).order) = Len(t.roles) <=> IsAcyclic(t)
    <3> DEFINE keys == [k \in StagesOf(t) |-> k]
    <3>1. IsListing(t, keys) /\ Kahn(t) = KahnFrom(t, keys)
      BY <2>1, KeysListing DEF Kahn
    <3> HIDE DEF keys
    <3> QED BY <2>1, <3>1, OrderComplete
  <2>4. ~IsAcyclic(t) => t.roles # <<>>
    BY DEF IsAcyclic, StagesOf
  <2>5. Len(Kahn(t).order) # Len(t.roles) => IsCycle(t, FindCycle(t, Kahn(t).degree))
    BY <2>1, FindCycleFacts
  <2> QED BY <2>1, <2>2, <2>3, <2>4, <2>5 DEF t
<1> QED BY <1>1, <1>2

(* The cycle in the linker's report.                                       *)
LEMMA LinkedCycle ==
  ASSUME NEW t, Numbered(t), NEW keys \in Listings(t), NEW w
  PROVE  LET c == Link(t, keys, w).cycle
         IN  /\ c # <<>> => IsCycle(t, c)
             /\ ~IsAcyclic(t) => c # <<>>
             /\ c = IF t.roles = <<>> THEN <<>> ELSE DetectCycle(t, keys)
<1> DEFINE c == IF t.roles = <<>> THEN <<>> ELSE DetectCycle(t, keys)
           x == DetectCycle(t, keys)
<1>1. Link(t, keys, w).cycle = c
  BY DEF Link, ValidLink
<1>2. /\ x # <<>> => IsCycle(t, x)
      /\ ~IsAcyclic(t) => x # <<>>
  BY ListingFacts, DetectCycleFacts
<1>3. ~IsAcyclic(t) => t.roles # <<>>
  BY DEF IsAcyclic, StagesOf
<1> HIDE DEF x
<1>4. c = IF t.roles = <<>> THEN <<>> ELSE x
  BY DEF x
<1> HIDE DEF c
<1> QED BY <1>1, <1>2, <1>3, <1>4 DEF c

(* What is known of an assembly at any time.                               *)
AssemblyInv ==
  /\ SubmissionInv
  /\ \/ linked = NotLinked
     \/ wit \in Wits(topo) /\ \E keys \in Listings(topo) : linked = Link(topo, keys, wit)
  /\ \/ lint = NotLinted
     \/ contracts \in Contracts(topo) /\ lint = ValidatePipeline(topo, contracts)

(* AssemblyInv holds from the submission on, whichever checks are asked    *)
(* for and in whatever order.                                              *)
THEOREM AssemblyInvHolds == AssembleSpec => []AssemblyInv
<1>1. AssembleInit => AssemblyInv
  BY DEF AssembleInit, AssemblyInv, SubmitInit, SubmissionInv
<1>2. AssemblyInv /\ [AssembleNext]_assembly => AssemblyInv'
  <2> SUFFICES ASSUME AssemblyInv, [AssembleNext]_assembly PROVE AssemblyInv'
    OBVIOUS
  <2>0. SubmissionInv /\ [SubmitNext]_submission => SubmissionInv' /\ topo' = topo
    <3> SUFFICES ASSUME SubmissionInv, [SubmitNext]_submission PROVE SubmissionInv' /\ topo' = topo
      OBVIOUS
    <3>1. CASE ValidateFlow
      BY <3>1 DEF ValidateFlow, SubmissionInv
    <3>2. CASE OrderStages
      BY <3>2 DEF OrderStages, SubmissionInv
    <3>3. CASE BuildPipeline
      BY <3>3 DEF BuildPipeline, SubmissionInv
    <3>4. CASE UNCHANGED submission
      BY <3>4 DEF submission, SubmissionInv
    <3> QED BY <3>1, <3>2, <3>3, <3>4 DEF SubmitNext
  <2>1. CASE SubmitNext /\ UNCHANGED <<linkVars, contractVars>>
    <3>1. SubmissionInv' /\ topo' = topo
      BY <2>0, <2>1 DEF AssemblyInv
    <3> QED BY <2>1, <3>1 DEF AssemblyInv, linkVars, contractVars
  <2>2. CASE \E keys \in Listings(topo), w \in Wits(topo) : LinkPipeline(keys, w)
    <3>1. PICK keys \in Listings(topo), w \in Wits(topo) : LinkPipeline(keys, w)
      BY <2>2
    <3>2. SubmissionInv' /\ topo' = topo
      BY <2>0, <3>1 DEF AssemblyInv, LinkPipeline, submission
    <3> QED BY <3>1, <3>2 DEF AssemblyInv, LinkPipeline, contractVars
  <2>3. CASE \E c \in Contracts(topo) : CheckContracts(c)
    <3>1. PICK c \in Contracts(topo) : CheckContracts(c)
      BY <2>3
    <3>2. SubmissionInv' /\ topo' = topo
      BY <2>0, <3>1 DEF AssemblyInv, CheckContracts, submission
    <3> QED BY <3>1, <3>2 DEF AssemblyInv, CheckContracts, linkVars
  <2>4. CASE UNCHANGED assembly
    <3>1. SubmissionInv' /\ topo' = topo
      BY <2>0, <2>4 DEF AssemblyInv, assembly, submission
    <3> QED BY <2>4, <3>1 DEF AssemblyInv, assembly, linkVars, contractVars
  <2> QED BY <2>1, <2>2, <2>3, <2>4 DEF AssembleNext
<1> QED BY <1>1, <1>2, PTL DEF AssembleSpec

(* The cycle that find_cycle or detect_cycle reports, for a definition of  *)
(* any size and any order of the map, is a closed walk along connections   *)
(* through distinct stages, and both report one whenever there is one.     *)
THEOREM ReportedCycleRealHolds == AssembleSpec => []ReportedCycleReal
<1>1. AssemblyInv => ReportedCycleReal
  <2> SUFFICES ASSUME AssemblyInv PROVE ReportedCycleReal
    OBVIOUS
  <2>1. topo \in Definition /\ Numbered(topo)
    BY DefinitionNumbered DEF AssemblyInv, SubmissionInv
  <2>2. /\ "Cycle" \in built.errors => IsCycle(ResolvedEdges(topo), built.cycle)
        /\ built # NotBuilt /\ ConstructionErrors(topo) = {} /\ ~IsAcyclic(ResolvedEdges(topo)) =>
             "Cycle" \in built.errors
    <3>1. CASE built = NotBuilt
      BY <3>1 DEF NotBuilt
    <3>2. CASE built = Build(topo)
      BY <2>1, <3>2, BuiltCycle
    <3> QED BY <3>1, <3>2 DEF AssemblyInv, SubmissionInv
  <2>3. /\ linked.cycle # <<>> => IsCycle(topo, linked.cycle)
        /\ linked # NotLinked /\ ~IsAcyclic(topo) => linked.cycle # <<>>
    <3>1. CASE linked = NotLinked
      BY <3>1 DEF NotLinked
    <3>2. CASE linked # NotLinked
      <4>1. PICK keys \in Listings(topo) : linked = Link(topo, keys, wit)
        BY <3>2 DEF AssemblyInv
      <4> QED BY <2>1, <4>1, LinkedCycle
    <3> QED BY <3>1, <3>2
  <2> QED BY <2>2, <2>3 DEF ReportedCycleReal
<1> QED BY <1>1, AssemblyInvHolds, PTL
-----------------------------------------------------------------------------
(* What the linker and the contract check make of a definition.            *)

(* The conditions of the two checks on a topology, by connections and by   *)
(* the result of the search, are those of a composed pipeline.             *)
LEMMA ComposedExact ==
  ASSUME NEW t, Numbered(t), NEW keys, Wired(t, keys),
         \A k \in StagesOf(t) : \E i \in DOMAIN keys : keys[i] = k
  PROVE  IsComposed(t) <=>
           /\ \A i \in DOMAIN t.conns : {t.conns[i].from, t.conns[i].to} \subseteq StagesOf(t)
           /\ \A k \in StagesOf(t) :
                /\ OutEdges(t, k) # {} \/ InEdges(t, k) # {}
                /\ t.roles[k] = "Source" => InEdges(t, k) = {}
                /\ t.roles[k] = "Sink" => OutEdges(t, k) = {}
           /\ DetectCycle(t, keys) = <<>>
<1> DEFINE K == StagesOf(t)
           c == DetectCycle(t, keys)
<1>1. (\A i \in DOMAIN t.conns : {t.conns[i].from, t.conns[i].to} \subseteq K)
        <=> EdgesOf(t) \subseteq K \X K
  <2>1. IsGraph(t) <=> \A i \in DOMAIN t.conns : {t.conns[i].from, t.conns[i].to} \subseteq K
    BY DEF IsGraph, Numbered
  <2> QED BY <2>1, GraphEdges
<1>2. EdgesOf(t) \subseteq K \X K => (c = <<>> <=> IsAcyclic(t))
  <2>1. Len(c) \in Nat /\ (c # <<>> => IsCycle(t, c)) /\ (~IsAcyclic(t) => c # <<>>)
    BY DetectCycleFacts
  <2> HIDE DEF c
  <2> QED BY <2>1, CycleFeeds
<1>3. ASSUME NEW k \in K
      PROVE  /\ (OutEdges(t, k) # {} \/ InEdges(t, k) # {}) <=> \E e \in EdgesOf(t) : k \in {e[1], e[2]}
             /\ InEdges(t, k) = {} <=> \A e \in EdgesOf(t) : e[2] # k
             /\ OutEdges(t, k) = {} <=> \A e \in EdgesOf(t) : e[1] # k
  <2>1. /\ InEdges(t, k) = {} <=> \A e \in EdgesOf(t) : e[2] # k
        /\ OutEdges(t, k) = {} <=> \A e \in EdgesOf(t) : e[1] # k
    BY EdgesAt
  <2> QED BY <2>1
<1> HIDE DEF c
<1> QED BY <1>1, <1>2, <1>3 DEF IsComposed, c

(* The fan limits, port by port.                                           *)
LEMMA FanExact ==
  ASSUME NEW t
  PROVE  WithinFan(t) <=> \A i \in DOMAIN t.conns : LinkFan(t, t.conns[i])
<1>1. ASSUME NEW c
      PROVE  /\ {j \in DOMAIN t.conns : t.conns[j].from = c.from /\ t.conns[j].out = c.out}
                  = {i \in OutEdges(t, c.from) : t.conns[i].out = c.out}
             /\ {j \in DOMAIN t.conns : t.conns[j].to = c.to /\ t.conns[j].in = c.in}
                  = {i \in InEdges(t, c.to) : t.conns[i].in = c.in}
  BY DEF OutEdges, InEdges
<1>2. ASSUME NEW i \in DOMAIN t.conns
      PROVE  /\ {j \in DOMAIN t.conns : t.conns[j].from = t.conns[i].from /\ t.conns[j].out = t.conns[i].out}
                  = {j \in OutEdges(t, t.conns[i].from) : t.conns[j].out = t.conns[i].out}
             /\ {j \in DOMAIN t.conns : t.conns[j].to = t.conns[i].to /\ t.conns[j].in = t.conns[i].in}
                  = {j \in InEdges(t, t.conns[i].to) : t.conns[j].in = t.conns[i].in}
  BY <1>1
<1> QED BY <1>2 DEF WithinFan, LinkFan

(* validate() of the linker.                                               *)
LEMMA ValidLinkExact ==
  ASSUME NEW t, Numbered(t), NEW keys \in Listings(t)
  PROVE  LET cycle == IF t.roles = <<>> THEN <<>> ELSE DetectCycle(t, keys)
         IN  ValidLink(t, cycle) <=> t.roles # <<>> /\ IsComposed(t) /\ WithinFan(t)
<1>1. Wired(t, keys) /\ \A k \in StagesOf(t) : \E i \in DOMAIN keys : keys[i] = k
  BY ListingFacts
<1>2. IsComposed(t) <=>
           /\ \A i \in DOMAIN t.conns : {t.conns[i].from, t.conns[i].to} \subseteq StagesOf(t)
           /\ \A k \in StagesOf(t) :
                /\ OutEdges(t, k) # {} \/ InEdges(t, k) # {}
                /\ t.roles[k] = "Source" => InEdges(t, k) = {}
                /\ t.roles[k] = "Sink" => OutEdges(t, k) = {}
           /\ DetectCycle(t, keys) = <<>>
  BY <1>1, ComposedExact
<1>3. WithinFan(t) <=> \A i \in DOMAIN t.conns : LinkFan(t, t.conns[i])
  BY FanExact
<1> QED BY <1>2, <1>3 DEF ValidLink

(* The order of the components of a composed pipeline.                     *)
LEMMA LinkOrderFacts ==
  ASSUME NEW t, Numbered(t), NEW keys \in Listings(t), IsComposed(t)
  PROVE  LET o == LinkOrder(t, keys)
         IN  /\ Len(o) = Len(t.roles) /\ ToSet(o) = StagesOf(t)
             /\ \A i, j \in DOMAIN o : <<o[i], o[j]>> \in EdgesOf(t) => i < j
<1> DEFINE K == StagesOf(t)
           o == LinkOrder(t, keys)
<1>1. IsGraph(t) /\ IsAcyclic(t) /\ IsListing(t, keys)
  BY GraphEdges, ListingFacts DEF IsComposed
<1>2. /\ o \in Seq(K) /\ Distinct(o) /\ Forward(t, o)
      /\ Len(o) = Len(t.roles) /\ \A k \in K : In(k, o)
  BY <1>1, OrderComplete DEF LinkOrder
<1> HIDE DEF o
<1>3. ToSet(o) = K
  BY <1>2 DEF ToSet, In
<1>4. ASSUME NEW i \in DOMAIN o, NEW j \in DOMAIN o, <<o[i], o[j]>> \in EdgesOf(t)
      PROVE  i < j
  <2>1. PICK n \in DOMAIN t.conns : o[i] = t.conns[n].from /\ o[j] = t.conns[n].to
    BY <1>4 DEF EdgesOf
  <2> QED BY <1>2, <1>4, <2>1 DEF Forward, Distinct
<1> QED BY <1>2, <1>3, <1>4 DEF o
(* An import fails to resolve just when the host does not provide it and   *)
(* the connections that bring it in are not one.                           *)
LEMMA ResolveExact ==
  ASSUME NEW t, Numbered(t), NEW w, NEW k, NEW i
  PROVE  ResolveImport(t, w, k, i)[1] \in {"unresolved", "ambiguous"} <=>
           ~ \/ i \in HostWasi \cup HostTorvyn
             \/ Cardinality({c \in DOMAIN t.conns :
                               t.conns[c].to = k /\ i \in w[t.conns[c].from].exports}) = 1
<1> DEFINE P == Providers(t, w, k, i)
           n == Cardinality(P)
           first == t.conns[Min(P)].from
<1>1. P = {c \in DOMAIN t.conns : t.conns[c].to = k /\ i \in w[t.conns[c].from].exports}
  BY DEF Providers, InEdges
<1>2. IsFiniteSet(P)
  <2>1. IsFiniteSet(DOMAIN t.conns)
    BY FS_Interval DEF Numbered
  <2> QED BY <1>1, <2>1, FS_Subset
<1>3. n \in Nat /\ (n = 0 <=> P = {})
  BY <1>2, FS_CardinalityType, FS_EmptySet
<1>4. ResolveImport(t, w, k, i) =
        IF i \in HostWasi \cup HostTorvyn THEN <<"host">>
        ELSE IF P = {} THEN <<"unresolved">>
        ELSE <<IF n > 1 THEN "ambiguous" ELSE "stream", first>>
  BY DEF ResolveImport
<1> HIDE DEF P, n, first
<1>5. CASE i \in HostWasi \cup HostTorvyn
  BY <1>4, <1>5
<1>6. CASE i \notin HostWasi \cup HostTorvyn /\ P = {}
  <2>1. ResolveImport(t, w, k, i)[1] = "unresolved"
    BY <1>4, <1>6
  <2>2. n # 1
    BY <1>3, <1>6
  <2> QED BY <1>1, <1>6, <2>1, <2>2 DEF n
<1>7. CASE i \notin HostWasi \cup HostTorvyn /\ P # {}
  <2>1. ResolveImport(t, w, k, i)[1] = IF n > 1 THEN "ambiguous" ELSE "stream"
    BY <1>4, <1>7
  <2>2. n > 1 <=> n # 1
    BY <1>3, <1>7
  <2> QED BY <1>1, <1>7, <2>1, <2>2 DEF n
<1> QED BY <1>5, <1>6, <1>7

(* The imports and the grants of a pipeline suffice just when what each    *)
(* component imports is provided.                                          *)
LEMMA ProvidedExact ==
  ASSUME NEW t, Numbered(t), NEW w
  PROVE  (\E k \in StagesOf(t) :
            \/ ~GrantsSuffice(w, k)
            \/ \E i \in w[k].imports : ResolveImport(t, w, k, i)[1] \in {"unresolved", "ambiguous"})
         <=> ~ \A k \in StagesOf(t) : IsProvided(t, w, k)
<1>1. ASSUME NEW k
      PROVE  IsProvided(t, w, k) <=>
               /\ GrantsSuffice(w, k)
               /\ \A i \in w[k].imports :
                    ~ (ResolveImport(t, w, k, i)[1] \in {"unresolved", "ambiguous"})
  <2> DEFINE Bad(i)  == ResolveImport(t, w, k, i)[1] \in {"unresolved", "ambiguous"}
             Good(i) == \/ i \in HostWasi \cup HostTorvyn
                        \/ Cardinality({c \in DOMAIN t.conns :
                             t.conns[c].to = k /\ i \in w[t.conns[c].from].exports}) = 1
  <2>1. \A i : Bad(i) <=> ~Good(i)
    BY ResolveExact
  <2>2. IsProvided(t, w, k) <=>
          \A i \in w[k].imports : Good(i) /\ (i \in DOMAIN Needs => Needs[i] \in w[k].grants)
    BY DEF IsProvided
  <2>3. GrantsSuffice(w, k) <=>
          \A i \in w[k].imports : i \in DOMAIN Needs => Needs[i] \in w[k].grants
    BY DEF GrantsSuffice
  <2> HIDE DEF Bad, Good
  <2>4. IsProvided(t, w, k) <=> GrantsSuffice(w, k) /\ \A i \in w[k].imports : ~Bad(i)
    BY <2>1, <2>2, <2>3
  <2> QED BY <2>4 DEF Bad
<1> QED BY <1>1

(* What link() returns.                                                    *)
LEMMA LinkFacts ==
  ASSUME NEW t, Numbered(t), NEW keys \in Listings(t), NEW w
  PROVE  LET sound    == t.roles # <<>> /\ IsComposed(t) /\ WithinFan(t)
             provided == \A k \in StagesOf(t) : IsProvided(t, w, k)
             l        == Link(t, keys, w)
         IN  /\ l.result = IF ~sound THEN "invalid" ELSE IF provided THEN "linked" ELSE "unlinked"
             /\ sound => l.order = LinkOrder(t, keys)
<1> DEFINE sound    == t.roles # <<>> /\ IsComposed(t) /\ WithinFan(t)
           provided == \A k \in StagesOf(t) : IsProvided(t, w, k)
           cycle    == IF t.roles = <<>> THEN <<>> ELSE DetectCycle(t, keys)
           o        == LinkOrder(t, keys)
           imports  == [k \in StagesOf(t) |->
                          [import \in w[k].imports |-> ResolveImport(t, w, k, import)]]
           failed   == \E k \in StagesOf(t) :
                         \/ ~GrantsSuffice(w, k)
                         \/ \E import \in w[k].imports :
                              imports[k][import][1] \in {"unresolved", "ambiguous"}
           l        == Link(t, keys, w)
<1>1. ValidLink(t, cycle) <=> sound
  BY ValidLinkExact
<1>2. failed <=> ~provided
  <2>1. \A k \in StagesOf(t) : \A i \in w[k].imports : imports[k][i] = ResolveImport(t, w, k, i)
    OBVIOUS
  <2>2. failed <=> \E k \in StagesOf(t) :
            \/ ~GrantsSuffice(w, k)
            \/ \E i \in w[k].imports : ResolveImport(t, w, k, i)[1] \in {"unresolved", "ambiguous"}
    <3> HIDE DEF imports
    <3> QED BY <2>1
  <2> QED BY <2>2, ProvidedExact
<1>3. sound => Len(o) = Len(t.roles)
  BY LinkOrderFacts
<1>4. l = IF ~ValidLink(t, cycle)
          THEN [result |-> "invalid", cycle |-> cycle, order |-> <<>>, imports |-> <<>>]
          ELSE [result |-> IF Len(o) # Len(t.roles) THEN "unordered"
                           ELSE IF failed THEN "unlinked" ELSE "linked",
                cycle |-> <<>>, order |-> o, imports |-> imports]
  BY DEF Link
<1> HIDE DEF sound, provided, cycle, o, imports, failed, l
<1>5. /\ l.result = IF ~sound THEN "invalid" ELSE IF provided THEN "linked" ELSE "unlinked"
      /\ sound => l.order = o
  BY <1>1, <1>2, <1>3, <1>4
<1> QED BY <1>5 DEF sound, provided, o, l

(* link() accepts exactly the composed pipelines within the fan limits     *)
(* whose imports are provided, for a definition of any size and any order  *)
(* of the map, and orders their components along the connections.          *)
THEOREM LinkExactHolds == AssembleSpec => []LinkExact
<1>1. AssemblyInv => LinkExact
  <2> SUFFICES ASSUME AssemblyInv, linked # NotLinked PROVE LinkExact
    BY DEF LinkExact
  <2>1. topo \in Definition /\ Numbered(topo)
    BY DefinitionNumbered DEF AssemblyInv, SubmissionInv
  <2>2. PICK keys \in Listings(topo) : linked = Link(topo, keys, wit)
    BY DEF AssemblyInv
  <2> DEFINE sound    == topo.roles # <<>> /\ IsComposed(topo) /\ WithinFan(topo)
             provided == \A k \in StagesOf(topo) : IsProvided(topo, wit, k)
  <2>3. /\ linked.result = IF ~sound THEN "invalid" ELSE IF provided THEN "linked" ELSE "unlinked"
        /\ sound => linked.order = LinkOrder(topo, keys)
    BY <2>1, <2>2, LinkFacts
  <2>4. sound => /\ ToSet(linked.order) = StagesOf(topo)
                 /\ \A i, j \in DOMAIN linked.order :
                      <<linked.order[i], linked.order[j]>> \in EdgesOf(topo) => i < j
    BY <2>1, <2>3, LinkOrderFacts
  <2> QED BY <2>3, <2>4 DEF LinkExact
<1> QED BY <1>1, AssemblyInvHolds, PTL
-----------------------------------------------------------------------------
(* validate_pipeline.                                                      *)

(* The check of the topology.                                              *)
LEMMA TopologyExact ==
  ASSUME NEW t, Numbered(t)
  PROVE  TopologyErrors(t) = {} <=> IsComposed(t)
<1> DEFINE K == StagesOf(t)
           keys == [k \in K |-> k]
           c == DetectCycle(t, keys)
<1>1. Wired(t, keys) /\ \A k \in K : \E i \in DOMAIN keys : keys[i] = k
  <2>1. \A k \in K : k \in DOMAIN keys /\ keys[k] = k
    OBVIOUS
  <2>2. IsListing(t, keys)
    BY KeysListing
  <2> HIDE DEF keys
  <2>3. Len(keys) \in Nat /\ DOMAIN keys = 1..Len(keys)
    BY <2>2 DEF IsListing
  <2> QED BY <2>1, <2>3 DEF Wired, Numbered
<1>2. IsComposed(t) <=>
           /\ \A i \in DOMAIN t.conns : {t.conns[i].from, t.conns[i].to} \subseteq K
           /\ \A k \in K :
                /\ OutEdges(t, k) # {} \/ InEdges(t, k) # {}
                /\ t.roles[k] = "Source" => InEdges(t, k) = {}
                /\ t.roles[k] = "Sink" => OutEdges(t, k) = {}
           /\ c = <<>>
  <2> HIDE DEF keys
  <2> QED BY <1>1, ComposedExact
<1>3. TopologyErrors(t) = {} <=>
           /\ ~ \E i \in DOMAIN t.conns : ~({t.conns[i].from, t.conns[i].to} \subseteq K)
           /\ ~ \E k \in K : OutEdges(t, k) = {} /\ InEdges(t, k) = {}
           /\ ~ \E k \in K : t.roles[k] = "Source" /\ InEdges(t, k) # {}
           /\ ~ \E k \in K : t.roles[k] = "Sink" /\ OutEdges(t, k) # {}
           /\ c = <<>>
  BY DEF TopologyErrors, HasCycle, When
<1> HIDE DEF c
<1> QED BY <1>2, <1>3

(* Without its worlds a package is a package.                              *)
LEMMA InterfaceOnlyFacts ==
  ASSUME NEW p, WellFormed(p)
  PROVE  WellFormed(InterfaceOnly(p))
<1>1. /\ DOMAIN InterfaceOnly(p) = DOMAIN p
      /\ "interfaces" \in DOMAIN p
  BY DEF InterfaceOnly, WellFormed
<1>2. InterfaceOnly(p).interfaces = p.interfaces
  BY <1>1 DEF InterfaceOnly
<1> QED BY <1>1, <1>2 DEF WellFormed

(* The packages of the components.                                         *)
PackagesOf(c, k) == ToSet(c[k].packages)
NamesOf(t, c)    == UNION {{p.name : p \in ToSet(c[k].packages)} : k \in StagesOf(t)}

(* They are well-formed, and numbered from 1.                              *)
LEMMA ContractsFacts ==
  ASSUME NEW t, NEW c \in Contracts(t)
  PROVE  /\ DOMAIN c = StagesOf(t)
         /\ \A k \in StagesOf(t) :
              /\ DOMAIN c[k].packages \subseteq Nat
              /\ \A p \in PackagesOf(c, k) : WellFormed(p) /\ p.name \in NamesOf(t, c)
<1>1. DOMAIN c = StagesOf(t) /\ \A k \in StagesOf(t) : c[k].packages \in Seq(Carried)
  BY DEF Contracts
<1>2. ASSUME NEW k \in StagesOf(t)
      PROVE  /\ DOMAIN c[k].packages \subseteq Nat
             /\ \A p \in PackagesOf(c, k) : WellFormed(p) /\ p.name \in NamesOf(t, c)
  <2> DEFINE s == c[k].packages
  <2>1. s \in Seq(Carried)
    BY <1>1
  <2>2. \A p \in PackagesOf(c, k) : p.name \in NamesOf(t, c)
    BY DEF PackagesOf, NamesOf
  <2>3. PackagesOf(c, k) = {s[i] : i \in DOMAIN s}
    BY DEF PackagesOf, ToSet
  <2> HIDE DEF s
  <2>4. DOMAIN s \subseteq Nat /\ \A p \in PackagesOf(c, k) : p \in Carried
    BY <2>1, <2>3
  <2> QED BY <2>2, <2>4, CarriedAssumption DEF s
<1> QED BY <1>1, <1>2

(* Stage b fits the clients of every package that a has in common with it. *)
Inherits(c, a, b) ==
  \A p \in PackagesOf(c, a), q \in PackagesOf(c, b) :
    p.name = q.name => Fits(InterfaceOnly(q), InterfaceOnly(p))

(* The comparison across the connections.                                  *)
LEMMA InheritsExact ==
  ASSUME NEW t, NEW c \in Contracts(t), EdgesOf(t) \subseteq StagesOf(t) \X StagesOf(t)
  PROVE  CompatibilityErrors(t, c) = {} <=> \A e \in EdgesOf(t) : Inherits(c, e[1], e[2])
<1> DEFINE K == StagesOf(t)
           Fails(a, b) == \E up \in PackagesOf(c, a), down \in PackagesOf(c, b) :
                             up.name = down.name /\ ~Compatible(up, down)
<1>1. ASSUME NEW a \in K, NEW b \in K
      PROVE  ~Fails(a, b) <=> Inherits(c, a, b)
  <2>1. \A p \in PackagesOf(c, a), q \in PackagesOf(c, b) :
          Compatible(p, q) <=> Fits(InterfaceOnly(q), InterfaceOnly(p))
    BY <1>1, ContractsFacts, InterfaceOnlyFacts, BreakingExact DEF Compatible
  <2> QED BY <2>1 DEF Inherits
<1>2. CompatibilityErrors(t, c) = {} <=>
        ~ \E i \in DOMAIN t.conns :
            {t.conns[i].from, t.conns[i].to} \subseteq K /\ Fails(t.conns[i].from, t.conns[i].to)
  <2>1. CompatibilityErrors(t, c) = {} <=>
          ~ \E x \in ToSet(t.conns) : {x.from, x.to} \subseteq K /\ Fails(x.from, x.to)
    BY DEF CompatibilityErrors, When, PackagesOf
  <2> HIDE DEF Fails
  <2>2. ToSet(t.conns) = {t.conns[i] : i \in DOMAIN t.conns}
    BY DEF ToSet
  <2> QED BY <2>1, <2>2
<1> HIDE DEF Fails
<1>3. \A i \in DOMAIN t.conns : t.conns[i].from \in K /\ t.conns[i].to \in K
  <2> SUFFICES ASSUME NEW i \in DOMAIN t.conns PROVE t.conns[i].from \in K /\ t.conns[i].to \in K
    OBVIOUS
  <2>1. <<t.conns[i].from, t.conns[i].to>> \in K \X K
    BY EdgeOfConn
  <2> QED BY <2>1
<1>4. ASSUME NEW i \in DOMAIN t.conns
      PROVE  \E e \in EdgesOf(t) : e[1] = t.conns[i].from /\ e[2] = t.conns[i].to
  <2> DEFINE e == <<t.conns[i].from, t.conns[i].to>>
  <2>1. e \in EdgesOf(t) /\ e[1] = t.conns[i].from /\ e[2] = t.conns[i].to
    BY EdgeOfConn
  <2> HIDE DEF e
  <2> QED BY <2>1
<1>5. (\A e \in EdgesOf(t) : Inherits(c, e[1], e[2])) <=>
        \A i \in DOMAIN t.conns : Inherits(c, t.conns[i].from, t.conns[i].to)
  BY <1>4, ConnOfEdge
<1> QED BY <1>1, <1>2, <1>3, <1>5

(* The grants.                                                             *)
LEMMA GrantsExact ==
  ASSUME NEW t, NEW c \in Contracts(t)
  PROVE  CapabilityErrors(c) = {} <=> \A k \in StagesOf(t) : c[k].required \subseteq c[k].grants
BY ContractsFacts DEF CapabilityErrors, When

(* A set of places has a first.                                            *)
LEMMA FirstOfFacts ==
  ASSUME NEW V, V # {}, \A a \in V : a \in Nat \X Nat
  PROVE  FirstOf(V) \in V
<1>1. \A a \in V : a[1] \in Nat /\ a[2] \in Nat
  OBVIOUS
<1> DEFINE A == {a[1] : a \in V}
<1>2. PICK m \in A : \A n \in A : m <= n
  <2>1. A \in SUBSET Nat /\ A # {}
    BY <1>1
  <2> HIDE DEF A
  <2> QED BY <2>1, LeastNatural
<1> DEFINE B == {a[2] : a \in {b \in V : b[1] = m}}
<1>3. PICK l \in B : \A n \in B : l <= n
  <2>1. B \in SUBSET Nat /\ B # {}
    BY <1>1, <1>2
  <2> HIDE DEF B
  <2> QED BY <2>1, LeastNatural
<1>4. PICK a \in V : a[1] = m /\ a[2] = l
  BY <1>3
<1>5. \A b \in V : a[1] < b[1] \/ (a[1] = b[1] /\ a[2] <= b[2])
  <2> SUFFICES ASSUME NEW b \in V PROVE a[1] < b[1] \/ (a[1] = b[1] /\ a[2] <= b[2])
    OBVIOUS
  <2>1. m <= b[1]
    BY <1>2
  <2>2. b[1] = m => l <= b[2]
    BY <1>3
  <2>3. m \in Nat /\ b[1] \in Nat
    BY <1>1, <1>4
  <2> QED BY <1>4, <2>1, <2>2, <2>3
<1> QED BY <1>5 DEF FirstOf

(* The versions of a package: all agree with the first just when every two *)
(* agree.                                                                  *)
LEMMA VersionsExact ==
  ASSUME NEW t, Numbered(t), NEW c \in Contracts(t)
  PROVE  VersionErrors(c) = {} <=>
           \A j, k \in StagesOf(t) : \A p \in PackagesOf(c, j), q \in PackagesOf(c, k) :
             p.name = q.name /\ NoVersion \notin {p.major, q.major} => p.major = q.major
<1> DEFINE K == StagesOf(t)
           V(n) == Versioned(c, n)
           M(at) == MajorAt(c, at)
           At(at) == c[at[1]].packages[at[2]]
<1>1. /\ DOMAIN c = K /\ K \subseteq Nat
      /\ \A k \in K : DOMAIN c[k].packages \subseteq Nat
  BY ContractsFacts DEF Numbered, StagesOf
<1>2. ASSUME NEW n, NEW at \in V(n)
      PROVE  /\ at \in Nat \X Nat
             /\ at[1] \in K /\ at[2] \in DOMAIN c[at[1]].packages
             /\ At(at).name = n /\ M(at) = At(at).major /\ M(at) # NoVersion
  <2>1. PICK k \in DOMAIN c : at \in {k} \X DOMAIN c[k].packages
    BY <1>2 DEF Versioned
  <2>2. At(at).name = n /\ At(at).major # NoVersion
    BY <1>2 DEF Versioned
  <2>3. at = <<k, at[2]>> /\ at[1] = k /\ at[2] \in DOMAIN c[k].packages
    BY <2>1
  <2>4. k \in Nat /\ at[2] \in Nat
    BY <1>1, <2>3
  <2> QED BY <1>1, <2>2, <2>3, <2>4 DEF MajorAt
<1>3. ASSUME NEW k \in K, NEW p \in PackagesOf(c, k), p.major # NoVersion
      PROVE  \E at \in V(p.name) : M(at) = p.major
  <2>1. PICK i \in DOMAIN c[k].packages : p = c[k].packages[i]
    BY DEF PackagesOf, ToSet
  <2> DEFINE at == <<k, i>>
  <2>2. at[1] = k /\ at[2] = i /\ at \in {k} \X DOMAIN c[k].packages
    OBVIOUS
  <2> HIDE DEF at
  <2>3. at \in UNION {{j} \X DOMAIN c[j].packages : j \in DOMAIN c}
    BY <1>1, <2>2
  <2>4. At(at) = p
    BY <2>1, <2>2
  <2>5. at \in V(p.name) /\ M(at) = p.major
    BY <1>3, <2>3, <2>4 DEF Versioned, MajorAt
  <2> QED BY <2>5
<1>4. ASSUME NEW n, NEW at \in V(n)
      PROVE  \E k \in K : \E p \in PackagesOf(c, k) : p.name = n /\ p.major = M(at) /\ M(at) # NoVersion
  <2>1. /\ at[1] \in K /\ at[2] \in DOMAIN c[at[1]].packages
        /\ At(at).name = n /\ M(at) = At(at).major /\ M(at) # NoVersion
    BY <1>2, <1>4
  <2>2. At(at) \in PackagesOf(c, at[1])
    BY <2>1 DEF PackagesOf, ToSet
  <2> QED BY <2>1, <2>2
<1>5. \A n : V(n) # {} => FirstOf(V(n)) \in V(n)
  <2> SUFFICES ASSUME NEW n, V(n) # {} PROVE FirstOf(V(n)) \in V(n)
    OBVIOUS
  <2>1. \A at \in V(n) : at \in Nat \X Nat
    BY <1>2
  <2> HIDE DEF V
  <2> QED BY <2>1, FirstOfFacts
<1>6. VersionErrors(c) = {} <=>
        \A n \in NamesOf(t, c) : \A at \in V(n) : M(at) = M(FirstOf(V(n)))
  BY <1>1 DEF VersionErrors, When, NamesOf
<1>7. \A k \in K : \A p \in PackagesOf(c, k) : p.name \in NamesOf(t, c)
  BY ContractsFacts
<1> HIDE DEF V, M, At
<1>8. ASSUME VersionErrors(c) = {},
             NEW j \in K, NEW k \in K, NEW p \in PackagesOf(c, j), NEW q \in PackagesOf(c, k),
             p.name = q.name, NoVersion \notin {p.major, q.major}
      PROVE  p.major = q.major
  <2>1. PICK a \in V(p.name) : M(a) = p.major
    BY <1>3, <1>8
  <2>2. PICK b \in V(p.name) : M(b) = q.major
    BY <1>3, <1>8
  <2> QED BY <1>6, <1>7, <1>8, <2>1, <2>2
<1>9. ASSUME \A j, k \in K : \A p \in PackagesOf(c, j), q \in PackagesOf(c, k) :
               p.name = q.name /\ NoVersion \notin {p.major, q.major} => p.major = q.major,
             NEW n, NEW at \in V(n)
      PROVE  M(at) = M(FirstOf(V(n)))
  <2>1. PICK j \in K : \E p \in PackagesOf(c, j) : p.name = n /\ p.major = M(at) /\ M(at) # NoVersion
    BY <1>4
  <2> DEFINE f == FirstOf(V(n))
  <2>2. f \in V(n)
    BY <1>5
  <2> HIDE DEF f
  <2>3. PICK k \in K : \E p \in PackagesOf(c, k) : p.name = n /\ p.major = M(f) /\ M(f) # NoVersion
    BY <1>4, <2>2
  <2>4. M(at) = M(f)
    BY <1>9, <2>1, <2>3
  <2> QED BY <2>4 DEF f
<1> QED BY <1>6, <1>8, <1>9

(* To fit across every connection is to fit wherever packages meet.        *)
LEMMA MeetingFits ==
  ASSUME NEW t, NEW c
  PROVE  (\A e \in EdgesOf(t) : Inherits(c, e[1], e[2])) <=>
           \A m \in Meeting(t, c) : Fits(InterfaceOnly(m[2]), InterfaceOnly(m[1]))
<1>1. ASSUME \A e \in EdgesOf(t) : Inherits(c, e[1], e[2]), NEW m \in Meeting(t, c)
      PROVE  Fits(InterfaceOnly(m[2]), InterfaceOnly(m[1]))
  <2>1. PICK e \in EdgesOf(t) : /\ m \in PackagesOf(c, e[1]) \X PackagesOf(c, e[2])
                                /\ m[1].name = m[2].name
    BY DEF Meeting, PackagesOf
  <2>2. m[1] \in PackagesOf(c, e[1]) /\ m[2] \in PackagesOf(c, e[2])
    BY <2>1
  <2> QED BY <1>1, <2>1, <2>2 DEF Inherits
<1>2. ASSUME \A m \in Meeting(t, c) : Fits(InterfaceOnly(m[2]), InterfaceOnly(m[1])),
             NEW e \in EdgesOf(t), NEW p \in PackagesOf(c, e[1]), NEW q \in PackagesOf(c, e[2]),
             p.name = q.name
      PROVE  Fits(InterfaceOnly(q), InterfaceOnly(p))
  <2> DEFINE m == <<p, q>>
  <2>1. m \in PackagesOf(c, e[1]) \X PackagesOf(c, e[2]) /\ m[1] = p /\ m[2] = q
    OBVIOUS
  <2> HIDE DEF m
  <2>2. m \in Meeting(t, c)
    BY <1>2, <2>1 DEF Meeting, PackagesOf
  <2> QED BY <1>2, <2>1, <2>2
<1> QED BY <1>1, <1>2 DEF Inherits

(* validate_pipeline accepts no pipeline that is not composed, lacks a     *)
(* grant, mixes major versions of a package or connects contracts neither  *)
(* of which fits the other's clients, and rejects none without any of      *)
(* these whose connected contracts fit both ways, for a pipeline of any    *)
(* size and any contracts.                                                 *)
THEOREM PipelineSoundHolds == AssembleSpec => []PipelineSound
<1>1. AssemblyInv => PipelineSound
  <2> SUFFICES ASSUME AssemblyInv, lint # NotLinted PROVE PipelineSound
    BY DEF PipelineSound
  <2> DEFINE K == StagesOf(topo)
             c == contracts
             Alike == \A j, k \in K : \A p \in PackagesOf(c, j), q \in PackagesOf(c, k) :
                        p.name = q.name /\ NoVersion \notin {p.major, q.major} => p.major = q.major
             Granted == \A k \in K : c[k].required \subseteq c[k].grants
             Handed == \A e \in EdgesOf(topo) : Inherits(c, e[1], e[2])
             FitsUp(m)   == Fits(InterfaceOnly(m[1]), InterfaceOnly(m[2]))
             FitsDown(m) == Fits(InterfaceOnly(m[2]), InterfaceOnly(m[1]))
             Either == \A m \in Meeting(topo, c) : FitsUp(m) \/ FitsDown(m)
             Both == \A m \in Meeting(topo, c) : FitsUp(m) /\ FitsDown(m)
  <2>1. Numbered(topo) /\ c \in Contracts(topo) /\ lint = ValidatePipeline(topo, c)
    BY DefinitionNumbered DEF AssemblyInv, SubmissionInv
  <2>2. lint = {} <=> /\ TopologyErrors(topo) = {} /\ CompatibilityErrors(topo, c) = {}
                      /\ CapabilityErrors(c) = {} /\ VersionErrors(c) = {}
    BY <2>1 DEF ValidatePipeline
  <2>3. TopologyErrors(topo) = {} <=> IsComposed(topo)
    BY <2>1, TopologyExact
  <2>4. IsComposed(topo) => (CompatibilityErrors(topo, c) = {} <=> Handed)
    BY <2>1, InheritsExact DEF IsComposed
  <2>5. (CapabilityErrors(c) = {} <=> Granted) /\ (VersionErrors(c) = {} <=> Alike)
    BY <2>1, GrantsExact, VersionsExact
  <2>6. lint = {} <=> IsComposed(topo) /\ Granted /\ Alike /\ Handed
    BY <2>2, <2>3, <2>4, <2>5
  <2>7. Handed <=> \A m \in Meeting(topo, c) : FitsDown(m)
    BY MeetingFits
  <2> QED BY <2>6, <2>7 DEF PipelineSound, PackagesOf
<1> QED BY <1>1, AssemblyInvHolds, PTL
=============================================================================
