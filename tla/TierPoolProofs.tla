--------------------------- MODULE TierPoolProofs ---------------------------
(***************************************************************************)
(* Proofs about TierPool, for any number of threads and slots and any tag  *)
(* width: every slot has one owner, the free list stays intact, the tier   *)
(* implements FreeList, and the availability counter is exact when nobody  *)
(* is about to count.                                                      *)
(***************************************************************************)
EXTENDS TierPool, Integers, SequenceTheorems, FiniteSetTheorems, TLAPS

(* A successful compare-and-swap means that the head has not moved since   *)
(* the thread loaded it: an equal tag rules out an intermediate swing.     *)
LEMMA SwingFresh ==
  ASSUME TypeOK, TagInv, CopyInv, NEW t \in Thread, InWindow(t), freeTop = head[t]
  PROVE  age[t] = 0
<1>1. /\ head[t].tag \in Nat /\ TagMod \in Nat
      /\ age[t] \in 0..(TagMod - 1)
  BY PoolAssumption DEF TypeOK, HeadWord
<1>2. \/ head[t].tag = head[t].tag + age[t]
      \/ head[t].tag = head[t].tag + age[t] - TagMod
  BY DEF TagInv
<1> QED BY <1>1, <1>2

(* A freshly created tier is well typed and its slots are linked in order. *)
LEMMA InitInv == Init => IndInv
<1> SUFFICES ASSUME Init PROVE IndInv
  OBVIOUS
<1>1. TypeOK
  BY PoolAssumption DEF Init, TypeOK, HeadWord, NoHead, Index, Slot, None, Pcs
<1>2. Len(stack) = NumSlots /\ DOMAIN stack = 1..NumSlots
  BY PoolAssumption DEF Init
<1>3. SingleOwner
  <2>1. \A s \in Slot : s \in Free
    <3> SUFFICES ASSUME NEW s \in Slot PROVE \E i \in 1..NumSlots : stack[i] = s
      BY <1>2 DEF Free
    <3>1. NumSlots + 1 - s \in 1..NumSlots /\ stack[NumSlots + 1 - s] = s
      BY PoolAssumption DEF Slot, Init
    <3> QED BY <3>1
  <2>2. \A i, j \in DOMAIN stack : stack[i] = stack[j] => i = j
    BY PoolAssumption, <1>2 DEF Init
  <2>3. None \notin Free
    BY <1>1, <1>2 DEF TypeOK, Free, Slot, None
  <2> QED BY <2>1, <2>2, <2>3 DEF SingleOwner, Init
<1>4. ListIntact
  BY PoolAssumption, <1>2 DEF ListIntact, Top, Init, Slot, None
<1>5. HandInv /\ TagInv /\ CopyInv
  BY DEF Init, HandInv, TagInv, CopyInv, InWindow
<1> QED BY <1>1, <1>3, <1>4, <1>5 DEF IndInv

(* The tag of a swung head is a tag again.                                 *)
LEMMA SwungType ==
  ASSUME NEW h \in HeadWord, NEW i \in Index
  PROVE  Swung(h, i) \in HeadWord
  BY PoolAssumption DEF HeadWord, Swung

(* Every step keeps the types.                                             *)
LEMMA TypeStep ==
  ASSUME IndInv, NEW t \in Thread, Pop(t) \/ Push(t)
  PROVE  TypeOK'
<1> USE DEF IndInv
<1>a. /\ NoHead \in HeadWord /\ None \in Index /\ 0 \in 0..(TagMod - 1)
  BY PoolAssumption DEF NoHead, HeadWord, Index
<1>b. hand[t] # None => hand[t] \in Slot
  BY DEF TypeOK, Index
<1>1. CASE PopLoad(t) \/ PushLoad(t)
  <2>1. /\ head' \in [Thread -> HeadWord]
        /\ age' \in [Thread -> 0..(TagMod - 1)]
    BY <1>1, <1>a DEF TypeOK, PopLoad, PushLoad, LoadHead
  <2>2. pc' \in [Thread -> Pcs]
    BY <1>1 DEF TypeOK, PopLoad, PushLoad, Pcs
  <2> QED BY <1>1, <2>1, <2>2 DEF TypeOK, PopLoad, PushLoad
<1>2. CASE PopExhausted(t) \/ ReleaseFallback(t)
  BY <1>2, PoolAssumption DEF TypeOK, PopExhausted, ReleaseFallback, Pcs
<1>3. CASE PopNext(t)
  <2>1. head[t].index \in Slot
    BY <1>3 DEF TypeOK, CopyInv, PopNext, HeadWord, Index
  <2> QED BY <1>3, <2>1 DEF TypeOK, PopNext, Pcs
<1>4. CASE PopSwing(t)
  <2>1. freeTop' \in HeadWord
    BY <1>4, SwungType DEF TypeOK, PopSwing, Swing
  <2>2. age' \in [Thread -> 0..(TagMod - 1)]
    BY <1>4, PoolAssumption DEF TypeOK, PopSwing, Swing
  <2>3. stack' \in Seq(Slot)
    <3>1. stack \in Seq(Slot) /\ stack # <<>>
      BY <1>4 DEF TypeOK, CopyInv, ListIntact, Top, PopSwing, Swing
    <3> QED BY <1>4, <3>1 DEF PopSwing
  <2>4. head[t].index \in Index
    BY DEF TypeOK, HeadWord
  <2> QED BY <1>4, <1>a, <2>1, <2>2, <2>3, <2>4
          DEF TypeOK, PopSwing, Swing, Forget, Pcs
<1>5. CASE PopRetry(t) \/ PushRetry(t)
  <2>0. Miss(t)
    BY <1>5 DEF PopRetry, PushRetry
  <2>1. /\ head' \in [Thread -> HeadWord] /\ next' \in [Thread -> Index]
        /\ age' \in [Thread -> 0..(TagMod - 1)]
    BY <1>a, <2>0 DEF TypeOK, Miss, Forget
  <2>2. pc' \in [Thread -> Pcs]
    BY <1>5 DEF TypeOK, PopRetry, PushRetry, Pcs
  <2> QED BY <1>5, <2>1, <2>2 DEF TypeOK, PopRetry, PushRetry
<1>6. CASE PopCount(t)
  <2>1. hand[t] \in Slot
    BY <1>6, <1>b DEF PopCount, HandInv
  <2> QED BY <1>6, <1>a, <2>1, PoolAssumption DEF TypeOK, PopCount, Pcs
<1>7. CASE PushBegin(t)
  BY <1>7 DEF TypeOK, PushBegin, Pcs, Index
<1>8. CASE PushLink(t)
  <2>1. hand[t] \in Slot /\ head[t].index \in Index
    BY <1>8, <1>b DEF PushLink, HandInv, TypeOK, HeadWord
  <2> QED BY <1>8, <2>1 DEF TypeOK, PushLink, Pcs
<1>9. CASE PushSwing(t)
  <2>1. freeTop' \in HeadWord
    BY <1>9, SwungType DEF TypeOK, PushSwing, Swing
  <2>2. age' \in [Thread -> 0..(TagMod - 1)]
    BY <1>9, PoolAssumption DEF TypeOK, PushSwing, Swing
  <2>3. hand[t] \in Slot
    BY <1>9, <1>b DEF PushSwing, HandInv
  <2> QED BY <1>9, <1>a, <2>1, <2>2, <2>3 DEF TypeOK, PushSwing, Swing, Forget, Pcs
<1>10. CASE PushCount(t)
  BY <1>10, PoolAssumption DEF TypeOK, PushCount, Pcs
<1> QED BY <1>1, <1>2, <1>3, <1>4, <1>5, <1>6, <1>7, <1>8, <1>9, <1>10 DEF Pop, Push

(* The position below one of the free list is one of the free list.        *)
LEMMA BelowIndex ==
  ASSUME NEW n \in Nat, NEW i \in 1..n, i # 1
  PROVE  i - 1 \in 1..n
  OBVIOUS

(* A pop that swings the head takes the top of the free list, and the link *)
(* it read is the slot below.                                              *)
LEMMA PopTakesTop ==
  ASSUME IndInv, NEW t \in Thread, PopSwing(t)
  PROVE  /\ Len(stack) \in Nat \ {0} /\ stack \in Seq(Slot)
         /\ head[t].index = stack[Len(stack)]
         /\ next[t] = IF Len(stack) = 1 THEN None ELSE stack[Len(stack) - 1]
         /\ Len(stack') = Len(stack) - 1
         /\ \A i \in 1..(Len(stack) - 1) : stack'[i] = stack[i]
         /\ Free' = Free \ {stack[Len(stack)]}
<1> USE DEF IndInv
<1>1. age[t] = 0
  BY SwingFresh DEF PopSwing, Swing, InWindow
<1>2. /\ head[t].index = Top(stack) /\ head[t].index # None
      /\ next[t] = nextFree[head[t].index]
  BY <1>1 DEF PopSwing, Swing, CopyInv, ListIntact
<1>3. stack \in Seq(Slot) /\ stack # <<>> /\ Len(stack) \in Nat \ {0}
  BY <1>2 DEF TypeOK, Top
<1>4. head[t].index = stack[Len(stack)]
  BY <1>2, <1>3 DEF Top
<1>5. next[t] = IF Len(stack) = 1 THEN None ELSE stack[Len(stack) - 1]
  <2>1. Len(stack) \in DOMAIN stack
    BY <1>3
  <2>2. nextFree[stack[Len(stack)]]
          = IF Len(stack) = 1 THEN None ELSE stack[Len(stack) - 1]
    BY <2>1 DEF ListIntact
  <2> QED BY <1>2, <1>4, <2>2
<1>6. /\ Len(stack') = Len(stack) - 1
      /\ \A i \in 1..(Len(stack) - 1) : stack'[i] = stack[i]
  <2>1. stack' = SubSeq(stack, 1, Len(stack) - 1)
    BY DEF PopSwing
  <2>2. \A i \in 1..(Len(stack) - 1) : stack[i] \in Slot
    BY <1>3
  <2>3. Len(stack') = IF 1 <= Len(stack) - 1 THEN (Len(stack) - 1) - 1 + 1 ELSE 0
    BY <1>3, <2>1, <2>2, SubSeqProperties
  <2>4. \A i \in 1..((Len(stack) - 1) - 1 + 1) : stack'[i] = stack[1 + i - 1]
    BY <1>3, <2>1, <2>2, SubSeqProperties
  <2>5. Len(stack') = Len(stack) - 1
    <3> DEFINE n == Len(stack)
               m == Len(stack')
    <3>1. n \in Nat \ {0} /\ m = IF 1 <= n - 1 THEN (n - 1) - 1 + 1 ELSE 0
      BY <1>3, <2>3
    <3> HIDE DEF n, m
    <3>2. m = n - 1
      BY <3>1
    <3> QED BY <3>2 DEF n, m
  <2>6. ASSUME NEW i \in 1..(Len(stack) - 1) PROVE stack'[i] = stack[i]
    <3>1. i \in 1..((Len(stack) - 1) - 1 + 1) /\ 1 + i - 1 = i
      BY <1>3
    <3> QED BY <2>4, <3>1
  <2> QED BY <2>5, <2>6
<1>7. Free' = Free \ {stack[Len(stack)]}
  <2>1. DOMAIN stack = 1..Len(stack) /\ DOMAIN stack' = 1..(Len(stack) - 1)
    BY <1>3, <1>6 DEF PopSwing
  <2>2. \A i, j \in DOMAIN stack : stack[i] = stack[j] => i = j
    BY DEF SingleOwner
  <2>3. \A i \in DOMAIN stack : i \in DOMAIN stack' \/ i = Len(stack)
    BY <1>3, <2>1
  <2>4. \A i \in DOMAIN stack' : i \in DOMAIN stack /\ i # Len(stack)
                                  /\ stack'[i] = stack[i]
    BY <1>3, <1>6, <2>1
  <2>5. Len(stack) \in DOMAIN stack
    BY <1>3, <2>1
  <2> QED BY <2>2, <2>3, <2>4, <2>5 DEF Free
<1> QED BY <1>3, <1>4, <1>5, <1>6, <1>7

(* A push that swings the head puts its slot on top of the free list, and  *)
(* the slot is linked to the former top.                                   *)
LEMMA PushPutsTop ==
  ASSUME IndInv, NEW t \in Thread, PushSwing(t)
  PROVE  /\ Len(stack) \in Nat /\ hand[t] \in Slot
         /\ nextFree[hand[t]] = Top(stack)
         /\ stack' = Append(stack, hand[t])
         /\ Len(stack') = Len(stack) + 1
         /\ stack'[Len(stack) + 1] = hand[t]
         /\ \A i \in 1..Len(stack) : stack'[i] = stack[i]
         /\ Free' = Free \cup {hand[t]}
<1> USE DEF IndInv
<1>1. hand[t] \in Slot
  BY DEF PushSwing, HandInv, TypeOK, Index
<1>2. nextFree[hand[t]] = Top(stack)
  BY DEF PushSwing, Swing, CopyInv, ListIntact
<1>3. stack \in Seq(Slot) /\ Len(stack) \in Nat /\ stack' = Append(stack, hand[t])
  BY DEF TypeOK, PushSwing
<1>4. /\ Len(stack') = Len(stack) + 1
      /\ stack'[Len(stack) + 1] = hand[t]
      /\ \A i \in 1..Len(stack) : stack'[i] = stack[i]
      /\ DOMAIN stack = 1..Len(stack) /\ DOMAIN stack' = 1..(Len(stack) + 1)
  BY <1>1, <1>3
<1>5. Free' = Free \cup {hand[t]}
  <2>1. \A i \in DOMAIN stack' : i \in DOMAIN stack \/ i = Len(stack) + 1
    BY <1>3, <1>4
  <2>2. \A i \in DOMAIN stack : i \in DOMAIN stack' /\ stack'[i] = stack[i]
    BY <1>3, <1>4
  <2>3. Len(stack) + 1 \in DOMAIN stack'
    BY <1>3, <1>4
  <2> QED BY <1>4, <2>1, <2>2, <2>3 DEF Free
<1> QED BY <1>1, <1>2, <1>3, <1>4, <1>5

(* Every step keeps every slot in one place.                               *)
LEMMA OwnerStep ==
  ASSUME IndInv, NEW t \in Thread, Pop(t) \/ Push(t)
  PROVE  SingleOwner'
<1> USE DEF IndInv
<1>a. hand \in [Thread -> Index] /\ out \subseteq Slot /\ None \notin Slot
  BY DEF TypeOK, Slot, None
<1>b. Free \subseteq Slot
  BY DEF TypeOK, Free
<1>c. Free' \subseteq Slot
  BY TypeStep DEF TypeOK, Free
<1>1. CASE UNCHANGED <<stack, hand, out>>
  BY <1>1 DEF SingleOwner, Free
<1>2. CASE PopSwing(t)
  <2> DEFINE top == stack[Len(stack)]
  <2>1. Len(stack) \in DOMAIN stack /\ top \in Free
    BY <1>2, PopTakesTop DEF Free
  <2>2. /\ hand' = [hand EXCEPT ![t] = top] /\ out' = out
        /\ hand[t] = None
    BY <1>2, PopTakesTop DEF PopSwing, HandInv
  <2>3. Free' = Free \ {top}
    BY <1>2, PopTakesTop
  <2>4. \A i, j \in DOMAIN stack' : stack'[i] = stack'[j] => i = j
    <3>1. \A i \in DOMAIN stack' : i \in DOMAIN stack /\ stack'[i] = stack[i]
      <4>1. stack' \in Seq(Slot)
        BY TypeStep DEF TypeOK
      <4> QED BY <1>2, <4>1, PopTakesTop
    <3> QED BY <3>1 DEF SingleOwner
  <2> HIDE DEF top
  <2>5. \A u \in Thread : hand[u] # top
    BY <2>1 DEF SingleOwner
  <2>6. \A u, v \in Thread : hand'[u] = hand'[v] /\ hand'[u] # None => u = v
    BY <1>a, <2>2, <2>5 DEF SingleOwner
  <2>7. \A u \in Thread : hand'[u] \notin Free' /\ hand'[u] \notin out'
    BY <1>a, <1>b, <2>1, <2>2, <2>3 DEF SingleOwner
  <2>8. \A s \in Slot : s \in Free' \/ s \in out' \/ \E u \in Thread : hand'[u] = s
    <3> SUFFICES ASSUME NEW s \in Slot, s \notin Free', s \notin out'
                 PROVE  \E u \in Thread : hand'[u] = s
      OBVIOUS
    <3>1. CASE s = top
      BY <1>a, <2>2, <3>1
    <3>2. CASE s # top
      <4>1. PICK u \in Thread : hand[u] = s
        BY <2>2, <2>3, <3>2 DEF SingleOwner
      <4>2. u # t
        BY <1>a, <2>2, <4>1
      <4> QED BY <1>a, <2>2, <4>1, <4>2
    <3> QED BY <3>1, <3>2
  <2> QED BY <2>2, <2>3, <2>4, <2>6, <2>7, <2>8 DEF SingleOwner
<1>3. CASE PushSwing(t)
  <2>1. /\ hand' = [hand EXCEPT ![t] = None] /\ out' = out
        /\ hand[t] \in Slot /\ hand[t] \notin Free /\ hand[t] \notin out
    BY <1>3, PushPutsTop DEF PushSwing, SingleOwner
  <2>2. Free' = Free \cup {hand[t]}
    BY <1>3, PushPutsTop
  <2>3. \A i, j \in DOMAIN stack' : stack'[i] = stack'[j] => i = j
    <3>1. stack' \in Seq(Slot) /\ stack \in Seq(Slot)
      BY TypeStep DEF TypeOK
    <3>2. \A i \in DOMAIN stack' :
            \/ i \in DOMAIN stack /\ stack'[i] = stack[i]
            \/ i = Len(stack) + 1 /\ stack'[i] = hand[t]
      BY <1>3, <3>1, PushPutsTop
    <3>3. \A i \in DOMAIN stack : stack[i] # hand[t]
      BY <2>1 DEF Free
    <3> QED BY <3>2, <3>3 DEF SingleOwner
  <2>4. \A u, v \in Thread : hand'[u] = hand'[v] /\ hand'[u] # None => u = v
    BY <1>a, <2>1 DEF SingleOwner
  <2>5. \A u \in Thread : hand'[u] \notin Free' /\ hand'[u] \notin out'
    <3> SUFFICES ASSUME NEW u \in Thread, u # t
                 PROVE  hand'[u] \notin Free' /\ hand'[u] \notin out'
      BY <1>a, <1>c, <2>1
    <3>1. hand[u] # hand[t]
      BY <1>a, <2>1 DEF SingleOwner
    <3> QED BY <1>a, <2>1, <2>2, <3>1 DEF SingleOwner
  <2>6. \A s \in Slot : s \in Free' \/ s \in out' \/ \E u \in Thread : hand'[u] = s
    <3> SUFFICES ASSUME NEW s \in Slot, s \notin Free', s \notin out'
                 PROVE  \E u \in Thread : hand'[u] = s
      OBVIOUS
    <3>1. PICK u \in Thread : hand[u] = s
      BY <2>1, <2>2 DEF SingleOwner
    <3>2. s # hand[t]
      BY <2>2
    <3>3. u # t
      BY <3>1, <3>2
    <3> QED BY <1>a, <2>1, <3>1, <3>3
  <2> QED BY <2>1, <2>2, <2>3, <2>4, <2>5, <2>6 DEF SingleOwner
<1>4. CASE PopCount(t)
  <2>1. /\ hand' = [hand EXCEPT ![t] = None] /\ out' = out \cup {hand[t]}
        /\ stack' = stack /\ Free' = Free
        /\ hand[t] \in Slot /\ hand[t] \notin Free /\ hand[t] \notin out
    BY <1>4, <1>a DEF PopCount, HandInv, Free, SingleOwner, Index
  <2>2. \A u, v \in Thread : hand'[u] = hand'[v] /\ hand'[u] # None => u = v
    BY <1>a, <2>1 DEF SingleOwner
  <2>3. \A u \in Thread : hand'[u] \notin Free' /\ hand'[u] \notin out'
    <3> SUFFICES ASSUME NEW u \in Thread, u # t
                 PROVE  hand'[u] \notin Free' /\ hand'[u] \notin out'
      BY <1>a, <1>c, <2>1
    <3>1. hand[u] # hand[t]
      BY <1>a, <2>1 DEF SingleOwner
    <3> QED BY <1>a, <2>1, <3>1 DEF SingleOwner
  <2>4. \A s \in Slot : s \in Free' \/ s \in out' \/ \E u \in Thread : hand'[u] = s
    <3> SUFFICES ASSUME NEW s \in Slot, s \notin Free', s \notin out'
                 PROVE  \E u \in Thread : hand'[u] = s
      OBVIOUS
    <3>1. PICK u \in Thread : hand[u] = s
      BY <2>1 DEF SingleOwner
    <3>2. u # t
      BY <2>1, <3>1
    <3> QED BY <1>a, <2>1, <3>1, <3>2
  <2> QED BY <2>1, <2>2, <2>3, <2>4 DEF SingleOwner
<1>5. CASE PushBegin(t)
  <2>1. PICK s \in out : /\ hand' = [hand EXCEPT ![t] = s] /\ out' = out \ {s}
                         /\ stack' = stack /\ Free' = Free
    BY <1>5 DEF PushBegin, Free
  <2>2. hand[t] = None
    BY <1>5 DEF PushBegin, HandInv
  <2>3. \A u \in Thread : hand[u] # s
    BY DEF SingleOwner
  <2>4. \A u, v \in Thread : hand'[u] = hand'[v] /\ hand'[u] # None => u = v
    BY <1>a, <2>1, <2>3 DEF SingleOwner
  <2>5. \A u \in Thread : hand'[u] \notin Free' /\ hand'[u] \notin out'
    BY <1>a, <2>1 DEF SingleOwner
  <2>6. \A r \in Slot : r \in Free' \/ r \in out' \/ \E u \in Thread : hand'[u] = r
    <3> SUFFICES ASSUME NEW r \in Slot, r \notin Free', r \notin out'
                 PROVE  \E u \in Thread : hand'[u] = r
      OBVIOUS
    <3>1. CASE r = s
      BY <1>a, <2>1, <3>1
    <3>2. CASE r # s
      <4>1. PICK u \in Thread : hand[u] = r
        BY <2>1, <3>2 DEF SingleOwner
      <4> QED BY <1>a, <2>1, <2>2, <4>1
    <3> QED BY <3>1, <3>2
  <2> QED BY <2>1, <2>4, <2>5, <2>6 DEF SingleOwner
<1> QED BY <1>1, <1>2, <1>3, <1>4, <1>5
        DEF Pop, Push, PopLoad, PopExhausted, PopNext, PopRetry, ReleaseFallback,
            PushLoad, PushLink, PushRetry, PushCount

(* Every step keeps the head and the links of the free list.               *)
LEMMA ListStep ==
  ASSUME IndInv, NEW t \in Thread, Pop(t) \/ Push(t)
  PROVE  ListIntact'
<1> USE DEF IndInv
<1>a. stack \in Seq(Slot) /\ stack' \in Seq(Slot) /\ Len(stack) \in Nat
  BY TypeStep DEF TypeOK
<1>1. CASE UNCHANGED <<stack, freeTop, nextFree>>
  BY <1>1 DEF ListIntact, Top
<1>2. CASE PopSwing(t)
  <2>1. freeTop'.index = next[t] /\ nextFree' = nextFree
    BY <1>2 DEF PopSwing, Swing, Swung
  <2>2. next[t] = Top(stack')
    <3>1. CASE Len(stack) = 1
      <4>1. stack' = <<>>
        BY <1>2, <1>a, <3>1, PopTakesTop
      <4> QED BY <1>2, <3>1, <4>1, PopTakesTop DEF Top
    <3>2. CASE Len(stack) # 1
      <4>0. Len(stack') = Len(stack) - 1 /\ Len(stack) \in Nat \ {0}
        BY <1>2, PopTakesTop
      <4>1. /\ stack' # <<>> /\ Len(stack') = Len(stack) - 1
            /\ Len(stack) - 1 \in 1..(Len(stack) - 1)
        BY <1>a, <3>2, <4>0
      <4>2. stack'[Len(stack')] = stack[Len(stack) - 1]
        BY <1>2, <4>1, PopTakesTop
      <4> QED BY <1>2, <3>2, <4>1, <4>2, PopTakesTop DEF Top
    <3> QED BY <3>1, <3>2
  <2>3. ASSUME NEW i \in DOMAIN stack'
        PROVE  nextFree'[stack'[i]] = IF i = 1 THEN None ELSE stack'[i - 1]
    <3>1. i \in 1..(Len(stack) - 1) /\ i \in DOMAIN stack /\ stack'[i] = stack[i]
      BY <1>2, <1>a, PopTakesTop
    <3>2. i # 1 => i - 1 \in 1..(Len(stack) - 1)
      <4>1. Len(stack) - 1 \in Nat
        BY <1>2, PopTakesTop
      <4> QED BY <3>1, <4>1, BelowIndex
    <3>3. i # 1 => stack'[i - 1] = stack[i - 1]
      BY <1>2, <3>2, PopTakesTop
    <3> QED BY <2>1, <3>1, <3>3 DEF ListIntact
  <2> QED BY <2>1, <2>2, <2>3 DEF ListIntact
<1>3. CASE PushSwing(t)
  <2>1. freeTop'.index = hand[t] /\ nextFree' = nextFree
    BY <1>3 DEF PushSwing, Swing, Swung
  <2>2. hand[t] = Top(stack')
    <3>1. stack' # <<>>
      BY <1>3, <1>a, PushPutsTop
    <3> QED BY <1>3, <3>1, PushPutsTop DEF Top
  <2>3. ASSUME NEW i \in DOMAIN stack'
        PROVE  nextFree'[stack'[i]] = IF i = 1 THEN None ELSE stack'[i - 1]
    <3>1. CASE i = Len(stack) + 1
      <4>1. nextFree'[stack'[i]] = Top(stack)
        BY <1>3, <2>1, <3>1, PushPutsTop
      <4>2. CASE stack = <<>>
        <5>1. Len(stack) = 0
          BY <4>2
        <5>2. i = 1
          BY <3>1, <5>1
        <5> QED BY <4>1, <4>2, <5>2 DEF Top
      <4>3. CASE stack # <<>>
        <5>1. Len(stack) \in 1..Len(stack) /\ i # 1 /\ i - 1 = Len(stack)
          BY <1>a, <3>1, <4>3
        <5>2. stack'[i - 1] = stack[Len(stack)]
          BY <1>3, <5>1, PushPutsTop
        <5> QED BY <4>1, <4>3, <5>1, <5>2 DEF Top
      <4> QED BY <4>2, <4>3
    <3>2. CASE i # Len(stack) + 1
      <4>1. i \in 1..Len(stack) /\ i \in DOMAIN stack /\ stack'[i] = stack[i]
        BY <1>3, <1>a, <3>2, PushPutsTop
      <4>2. i # 1 => i - 1 \in 1..Len(stack)
        BY <1>a, <4>1, BelowIndex
      <4>3. i # 1 => stack'[i - 1] = stack[i - 1]
        BY <1>3, <4>2, PushPutsTop
      <4> QED BY <2>1, <4>1, <4>3 DEF ListIntact
    <3> QED BY <3>1, <3>2
  <2> QED BY <2>1, <2>2, <2>3 DEF ListIntact
<1>4. CASE PushLink(t)
  <2>1. /\ UNCHANGED <<stack, freeTop>> /\ hand[t] \notin Free
        /\ nextFree' = [nextFree EXCEPT ![hand[t]] = head[t].index]
    BY <1>4 DEF PushLink, SingleOwner
  <2>2. \A i \in DOMAIN stack : nextFree'[stack[i]] = nextFree[stack[i]]
    BY <1>a, <2>1 DEF Free, TypeOK
  <2> QED BY <2>1, <2>2 DEF ListIntact, Top
<1> QED BY <1>1, <1>2, <1>3, <1>4
        DEF Pop, Push, PopLoad, PopExhausted, PopNext, PopRetry, ReleaseFallback,
            PushLoad, PopCount, PushBegin, PushRetry, PushCount

(* Every step keeps hands where the thread's position says.                *)
LEMMA HandStep ==
  ASSUME IndInv, NEW t \in Thread, Pop(t) \/ Push(t)
  PROVE  HandInv'
<1> USE DEF IndInv
<1>a. hand \in [Thread -> Index] /\ pc \in [Thread -> Pcs] /\ None \notin Slot
  BY DEF TypeOK, Slot, None
<1>1. CASE PopLoad(t) \/ PopExhausted(t) \/ PopNext(t) \/ PopRetry(t)
           \/ ReleaseFallback(t) \/ PushLoad(t) \/ PushLink(t) \/ PushRetry(t)
           \/ PushCount(t)
  BY <1>1, <1>a DEF HandInv, PopLoad, PopExhausted, PopNext, PopRetry,
     ReleaseFallback, PushLoad, PushLink, PushRetry, PushCount
<1>2. CASE PopSwing(t)
  <2>1. head[t].index # None
    BY <1>2 DEF PopSwing, CopyInv
  <2> QED BY <1>2, <1>a, <2>1 DEF HandInv, PopSwing
<1>3. CASE PopCount(t) \/ PushSwing(t)
  BY <1>3, <1>a DEF HandInv, PopCount, PushSwing
<1>4. CASE PushBegin(t)
  <2>1. PICK s \in Slot : hand' = [hand EXCEPT ![t] = s]
    BY <1>4 DEF PushBegin, TypeOK
  <2> QED BY <1>4, <1>a, <2>1 DEF HandInv, PushBegin
<1> QED BY <1>1, <1>2, <1>3, <1>4 DEF Pop, Push

(* A swing ages every copy of the head but its own, and no copy is older   *)
(* than the tag can tell.                                                  *)
LEMMA SwingAges ==
  ASSUME IndInv, NEW t \in Thread, NEW i, Swing(t, i),
         NEW u \in Thread, u # t, InWindow(u)
  PROVE  /\ age'[u] = age[u] + 1 /\ age'[u] # 0
         /\ head'[u] = head[u]
         /\ \/ freeTop'.tag = head[u].tag + age'[u]
            \/ freeTop'.tag = head[u].tag + age'[u] - TagMod
<1> USE DEF IndInv
<1>1. /\ age[u] \in 0..(TagMod - 1) /\ age[u] < TagMod - 1
      /\ head \in [Thread -> HeadWord] /\ freeTop \in HeadWord
      /\ TagMod \in Nat \ {0}
  BY PoolAssumption DEF TypeOK, Swing
<1>2. age'[u] = age[u] + 1 /\ age'[u] # 0
  BY <1>1 DEF Swing
<1>3. head'[u] = head[u]
  BY <1>1 DEF Swing, Forget
<1>4. /\ freeTop.tag \in 0..(TagMod - 1) /\ head[u].tag \in 0..(TagMod - 1)
      /\ freeTop'.tag = IF freeTop.tag + 1 = TagMod THEN 0 ELSE freeTop.tag + 1
  BY <1>1 DEF Swing, Swung, HeadWord
<1>5. \/ freeTop.tag = head[u].tag + age[u]
      \/ freeTop.tag = head[u].tag + age[u] - TagMod
  BY DEF TagInv
<1>6. \/ freeTop'.tag = head[u].tag + age'[u]
      \/ freeTop'.tag = head[u].tag + age'[u] - TagMod
  BY <1>1, <1>2, <1>4, <1>5
<1> QED BY <1>2, <1>3, <1>6

(* Every step keeps the tag in step with the age of each copy.             *)
LEMMA TagStep ==
  ASSUME IndInv, NEW t \in Thread, Pop(t) \/ Push(t)
  PROVE  TagInv'
<1> USE DEF IndInv
<1> SUFFICES ASSUME NEW u \in Thread, InWindow(u)'
             PROVE  \/ freeTop'.tag = head'[u].tag + age'[u]
                    \/ freeTop'.tag = head'[u].tag + age'[u] - TagMod
  BY DEF TagInv
<1>a. /\ pc \in [Thread -> Pcs] /\ head \in [Thread -> HeadWord]
      /\ age \in [Thread -> 0..(TagMod - 1)] /\ freeTop \in HeadWord
      /\ TagMod \in Nat \ {0}
  BY PoolAssumption DEF TypeOK
<1>b. freeTop.tag \in Nat
  BY <1>a DEF HeadWord
<1>1. CASE PopSwing(t) \/ PushSwing(t)
  <2>1. u # t
    BY <1>1, <1>a DEF PopSwing, PushSwing, InWindow
  <2>2. InWindow(u)
    BY <1>1, <1>a, <2>1 DEF PopSwing, PushSwing, InWindow
  <2>3. PICK i : Swing(t, i)
    BY <1>1 DEF PopSwing, PushSwing
  <2>4. /\ head'[u] = head[u]
        /\ \/ freeTop'.tag = head[u].tag + age'[u]
           \/ freeTop'.tag = head[u].tag + age'[u] - TagMod
    BY <2>1, <2>2, <2>3, SwingAges
  <2> QED BY <2>4
<1>2. CASE PopLoad(t) \/ PushLoad(t)
  <2>1. CASE u = t
    <3>1. freeTop' = freeTop /\ head'[u] = freeTop /\ age'[u] = 0
      BY <1>2, <1>a, <2>1 DEF PopLoad, PushLoad, LoadHead
    <3> QED BY <1>b, <3>1
  <2>2. CASE u # t
    BY <1>2, <1>a, <2>2 DEF PopLoad, PushLoad, LoadHead, TagInv, InWindow
  <2> QED BY <2>1, <2>2
<1>3. CASE PopRetry(t) \/ PushRetry(t)
  <2>1. u # t
    BY <1>3, <1>a DEF PopRetry, PushRetry, InWindow
  <2> QED BY <1>3, <1>a, <2>1 DEF PopRetry, PushRetry, Miss, Forget, TagInv, InWindow
<1>4. CASE PopExhausted(t) \/ PopNext(t) \/ PopCount(t) \/ PushBegin(t)
           \/ ReleaseFallback(t) \/ PushLink(t) \/ PushCount(t)
  <2>1. InWindow(u) /\ UNCHANGED <<freeTop, head, age>>
    BY <1>4, <1>a DEF PopExhausted, PopNext, PopCount, PushBegin, ReleaseFallback,
       PushLink, PushCount, InWindow
  <2> QED BY <2>1 DEF TagInv
<1> QED BY <1>1, <1>2, <1>3, <1>4 DEF Pop, Push

(* Every step keeps the copies that no swing has aged exact, and the slot  *)
(* of a pushing thread linked to its copy.                                 *)
LEMMA CopyStep ==
  ASSUME IndInv, NEW t \in Thread, Pop(t) \/ Push(t)
  PROVE  CopyInv'
<1> USE DEF IndInv
<1> SUFFICES ASSUME NEW u \in Thread
             PROVE  /\ InWindow(u)' /\ age'[u] = 0 => head'[u] = freeTop'
                    /\ pc'[u] \in {"popNext", "popSwing"} => head'[u].index # None
                    /\ pc'[u] = "popSwing" /\ age'[u] = 0
                         => next'[u] = nextFree'[head'[u].index]
                    /\ pc'[u] = "pushSwing" => nextFree'[hand'[u]] = head'[u].index
  BY DEF CopyInv
<1>a. /\ pc \in [Thread -> Pcs] /\ head \in [Thread -> HeadWord]
      /\ age \in [Thread -> 0..(TagMod - 1)] /\ next \in [Thread -> Index]
      /\ hand \in [Thread -> Index] /\ nextFree \in [Slot -> Index]
  BY DEF TypeOK
<1>1. CASE PopSwing(t) \/ PushSwing(t)
  <2>1. /\ nextFree' = nextFree /\ pc' \in [Thread -> Pcs]
        /\ \A v \in Thread : v # t => /\ pc'[v] = pc[v] /\ hand'[v] = hand[v]
                                      /\ next'[v] = next[v]
        /\ pc'[t] \in {"popCount", "pushCount"}
    BY <1>1, <1>a DEF PopSwing, PushSwing, Swing, Forget, Pcs
  <2>2. PICK i : Swing(t, i)
    BY <1>1 DEF PopSwing, PushSwing
  <2>3. CASE u = t
    BY <2>1, <2>3 DEF InWindow
  <2>4. CASE u # t
    <3>1. InWindow(u)' => InWindow(u)
      BY <2>1, <2>4 DEF InWindow
    <3>2. InWindow(u) => age'[u] # 0 /\ head'[u] = head[u]
      BY <2>2, <2>4, SwingAges
    <3> QED BY <2>1, <2>4, <3>1, <3>2 DEF InWindow, CopyInv
  <2> QED BY <2>3, <2>4
<1>2. CASE PopLoad(t) \/ PushLoad(t)
  <2>1. CASE u = t
    BY <1>2, <1>a, <2>1 DEF PopLoad, PushLoad, LoadHead
  <2>2. CASE u # t
    BY <1>2, <1>a, <2>2 DEF PopLoad, PushLoad, LoadHead, CopyInv, InWindow
  <2> QED BY <2>1, <2>2
<1>3. CASE PopRetry(t) \/ PushRetry(t)
  <2>1. CASE u = t
    BY <1>3, <1>a, <2>1 DEF PopRetry, PushRetry, InWindow
  <2>2. CASE u # t
    BY <1>3, <1>a, <2>2 DEF PopRetry, PushRetry, Miss, Forget, CopyInv, InWindow
  <2> QED BY <2>1, <2>2
<1>4. CASE PopNext(t)
  <2>1. CASE u = t
    BY <1>4, <1>a, <2>1 DEF PopNext, CopyInv, InWindow
  <2>2. CASE u # t
    BY <1>4, <1>a, <2>2 DEF PopNext, CopyInv, InWindow
  <2> QED BY <2>1, <2>2
<1>5. CASE PushLink(t)
  <2>1. /\ nextFree' = [nextFree EXCEPT ![hand[t]] = head[t].index]
        /\ UNCHANGED <<freeTop, head, next, hand, age>>
        /\ pc' = [pc EXCEPT ![t] = "pushSwing"] /\ pc[t] = "pushLink"
        /\ hand[t] \in Slot
    BY <1>5, <1>a DEF PushLink, HandInv, Index
  <2>2. CASE u = t
    BY <1>a, <2>1, <2>2 DEF CopyInv, InWindow
  <2>3. CASE u # t
    <3>1. pc'[u] = pc[u] /\ hand'[u] = hand[u] /\ (InWindow(u)' <=> InWindow(u))
      BY <1>a, <2>1, <2>3 DEF InWindow
    <3>2. pc[u] = "popSwing" /\ age[u] = 0
            => nextFree'[head[u].index] = nextFree[head[u].index]
      <4> SUFFICES ASSUME pc[u] = "popSwing", age[u] = 0
                   PROVE  nextFree'[head[u].index] = nextFree[head[u].index]
        OBVIOUS
      <4>1. head[u].index = Top(stack) /\ head[u].index # None
        BY DEF CopyInv, InWindow, ListIntact
      <4>2. Top(stack) \in Free
        BY <4>1 DEF Top, Free, TypeOK
      <4>3. head[u].index # hand[t]
        BY <4>1, <4>2 DEF SingleOwner
      <4>4. head[u].index \in Slot
        BY <1>a, <4>1 DEF HeadWord, Index
      <4> QED BY <1>a, <2>1, <4>3, <4>4
    <3>3. pc[u] = "pushSwing" => nextFree'[hand[u]] = nextFree[hand[u]]
      <4> SUFFICES ASSUME pc[u] = "pushSwing"
                   PROVE  nextFree'[hand[u]] = nextFree[hand[u]]
        OBVIOUS
      <4>1. hand[u] \in Slot
        BY <1>a DEF HandInv, Index
      <4>2. hand[u] # hand[t]
        BY <2>1, <2>3, <4>1 DEF SingleOwner, Slot, None
      <4> QED BY <1>a, <2>1, <4>1, <4>2
    <3> QED BY <2>1, <3>1, <3>2, <3>3 DEF CopyInv
  <2> QED BY <2>2, <2>3
<1>6. CASE PopExhausted(t) \/ PopCount(t) \/ PushBegin(t) \/ ReleaseFallback(t)
           \/ PushCount(t)
  <2>1. CASE u = t
    BY <1>6, <1>a, <2>1 DEF PopExhausted, PopCount, PushBegin, ReleaseFallback,
       PushCount, InWindow
  <2>2. CASE u # t
    <3>1. /\ UNCHANGED <<freeTop, nextFree, head, next, age>>
          /\ pc'[u] = pc[u] /\ hand'[u] = hand[u]
      BY <1>6, <1>a, <2>2 DEF PopExhausted, PopCount, PushBegin, ReleaseFallback,
         PushCount
    <3> QED BY <3>1 DEF CopyInv, InWindow
  <2> QED BY <2>1, <2>2
<1> QED BY <1>1, <1>2, <1>3, <1>4, <1>5, <1>6 DEF Pop, Push

(* The conjunction is inductive.                                           *)
LEMMA IndInvStep == IndInv /\ [Next]_vars => IndInv'
<1> SUFFICES ASSUME IndInv, [Next]_vars PROVE IndInv'
  OBVIOUS
<1>1. CASE UNCHANGED vars
  BY <1>1 DEF vars, IndInv, TypeOK, SingleOwner, Free, ListIntact, Top, HandInv,
     TagInv, CopyInv, InWindow
<1>2. CASE Next
  <2>1. PICK t \in Thread : Pop(t) \/ Push(t)
    BY <1>2 DEF Next
  <2> QED BY <2>1, TypeStep, OwnerStep, ListStep, HandStep, TagStep, CopyStep
          DEF IndInv
<1> QED BY <1>1, <1>2

(* In every reachable state the inductive invariant holds.                 *)
THEOREM PoolInvariant == Spec => []IndInv
  BY InitInv, IndInvStep, PTL DEF Spec

(* The head word, the links and every thread's copies stay within their    *)
(* widths: no slot index is ever out of bounds of the slot array, and the  *)
(* tag wraps.                                                              *)
THEOREM PoolTypeCorrect == Spec => []TypeOK
<1>1. IndInv => TypeOK
  BY DEF IndInv
<1> QED BY PoolInvariant, <1>1, PTL

(* No buffer of the pool has two owners and none is leaked, for any number *)
(* of threads, slots and tags.                                             *)
THEOREM PoolSingleOwner == Spec => []SingleOwner
<1>1. IndInv => SingleOwner
  BY DEF IndInv
<1> QED BY PoolInvariant, <1>1, PTL

(* Following next_free from free_top always visits exactly the free slots. *)
THEOREM PoolListIntact == Spec => []ListIntact
<1>1. IndInv => ListIntact
  BY DEF IndInv
<1> QED BY PoolInvariant, <1>1, PTL

(* The free slots of FreeList are those of the stack.                      *)
LEMMA SameFree ==
  ASSUME IndInv
  PROVE  Ownership!Free = Free
<1>1. Free \subseteq Slot
  BY DEF IndInv, TypeOK, Free
<1>2. Ownership!Slot = Slot
  BY DEF Ownership!Slot, Slot
<1>3. \A s \in Slot : s \in Free <=> s \notin out /\ \A t \in Thread : hand[t] # s
  BY DEF IndInv, SingleOwner
<1> QED BY <1>1, <1>2, <1>3 DEF Ownership!Free

(* Every step of the lock-free stack is a step of FreeList or a stutter.   *)
LEMMA PoolSimulates ==
  ASSUME IndInv, NEW t \in Thread, Pop(t) \/ Push(t)
  PROVE  [Ownership!Next]_(Ownership!vars)
<1> USE DEF IndInv
<1>a. Ownership!None = None
  BY DEF Ownership!None, None
<1>1. CASE UNCHANGED <<hand, out, fallbacks>>
  BY <1>1 DEF Ownership!vars
<1>2. CASE PopSwing(t)
  <2>0. head[t].index \in Free
    <3>1. Len(stack) \in DOMAIN stack /\ head[t].index = stack[Len(stack)]
      BY <1>2, PopTakesTop
    <3> QED BY <3>1 DEF Free
  <2>1. /\ head[t].index \in Free /\ hand[t] = None
        /\ hand' = [hand EXCEPT ![t] = head[t].index] /\ UNCHANGED <<out, fallbacks>>
    BY <1>2, <2>0 DEF PopSwing, HandInv
  <2>2. Ownership!Take(t)
    BY <1>a, <2>1, SameFree DEF Ownership!Take
  <2> QED BY <2>2 DEF Ownership!Next
<1>3. CASE PopCount(t)
  <2>1. Ownership!HandOut(t)
    BY <1>3, <1>a DEF PopCount, HandInv, Ownership!HandOut
  <2> QED BY <2>1 DEF Ownership!Next
<1>4. CASE PushBegin(t)
  <2>1. Ownership!Claim(t)
    BY <1>4, <1>a DEF PushBegin, HandInv, Ownership!Claim
  <2> QED BY <2>1 DEF Ownership!Next
<1>5. CASE PushSwing(t)
  <2>1. Ownership!GiveBack(t)
    BY <1>5, <1>a DEF PushSwing, HandInv, Ownership!GiveBack
  <2> QED BY <2>1 DEF Ownership!Next
<1>6. CASE PopExhausted(t)
  <2>1. Free = {}
    <3>1. Top(stack) = None /\ stack \in Seq(Slot) /\ None \notin Slot
      BY <1>6 DEF PopExhausted, ListIntact, TypeOK, Slot, None
    <3>2. stack = <<>>
      BY <3>1 DEF Top
    <3> QED BY <3>2 DEF Free
  <2>2. Ownership!FallBack \/ UNCHANGED <<hand, out, fallbacks>>
    BY <1>6, <2>1, SameFree DEF PopExhausted, Ownership!FallBack
  <2> QED BY <2>2 DEF Ownership!Next, Ownership!vars
<1>7. CASE ReleaseFallback(t)
  <2>1. Ownership!FreeFallback
    BY <1>7 DEF ReleaseFallback, Ownership!FreeFallback
  <2> QED BY <2>1 DEF Ownership!Next
<1> QED BY <1>1, <1>2, <1>3, <1>4, <1>5, <1>6, <1>7
        DEF Pop, Push, PopLoad, PopNext, PopRetry, PushLoad, PushLink, PushRetry,
            PushCount

(* The lock-free tier implements the ownership specification: a pop takes  *)
(* a slot nobody has, and the system allocator is used only when no slot   *)
(* is free.                                                                *)
THEOREM PoolImplements == Spec => ImplementsFreeList
<1>1. Init => Ownership!Init
  BY DEF Init, Ownership!Init, None, Ownership!None
<1>2. IndInv /\ [Next]_vars => [Ownership!Next]_(Ownership!vars)
  <2> SUFFICES ASSUME IndInv, [Next]_vars
               PROVE  [Ownership!Next]_(Ownership!vars)
    OBVIOUS
  <2>1. CASE UNCHANGED vars
    BY <2>1 DEF vars, Ownership!vars
  <2>2. CASE Next
    BY <2>2, PoolSimulates DEF Next
  <2> QED BY <2>1, <2>2
<1> QED BY PoolInvariant, <1>1, <1>2, PTL DEF Spec, ImplementsFreeList, Ownership!Spec
-----------------------------------------------------------------------------
(* The availability counter.                                               *)

(* The threads whose swing has happened and whose count has not.           *)
At(c) == {t \in Thread : pc[t] = c}

(* The counter is behind the free list by the counts that are due, modulo  *)
(* its width; there are finitely many, as each takes a step to be due.     *)
CountInv ==
  /\ IsFiniteSet(At("popCount")) /\ IsFiniteSet(At("pushCount"))
  /\ \E k \in Int : available + Cardinality(At("pushCount")) =
                      Len(stack) + Cardinality(At("popCount")) + k * CountMod

(* One more thread is at c when one comes, and one less when it leaves.    *)
LEMMA AtComes ==
  ASSUME TypeOK, NEW t \in Thread, NEW c, pc' = [pc EXCEPT ![t] = c], pc[t] # c,
         IsFiniteSet(At(c))
  PROVE  /\ IsFiniteSet(At(c)') /\ Cardinality(At(c)) \in Nat
         /\ Cardinality(At(c)') = Cardinality(At(c)) + 1
<1>1. At(c)' = At(c) \cup {t} /\ t \notin At(c)
  BY DEF TypeOK, At
<1> QED BY <1>1, FS_AddElement, FS_CardinalityType

(* The same, of a thread that leaves.                                       *)
LEMMA AtLeaves ==
  ASSUME TypeOK, NEW t \in Thread, NEW c, pc[t] = c, NEW d, d # c, pc' = [pc EXCEPT ![t] = d],
         IsFiniteSet(At(c))
  PROVE  /\ IsFiniteSet(At(c)') /\ Cardinality(At(c)) \in Nat
         /\ Cardinality(At(c)') = Cardinality(At(c)) - 1
<1>1. At(c)' = At(c) \ {t} /\ t \in At(c)
  BY DEF TypeOK, At
<1> QED BY <1>1, FS_RemoveElement, FS_CardinalityType

(* The free list holds no slot twice, so it is no longer than the tier.    *)
LEMMA StackFits ==
  ASSUME IndInv
  PROVE  Len(stack) \in 0..NumSlots
<1>1. stack \in Seq(Slot) /\ Len(stack) \in Nat /\ DOMAIN stack = 1..Len(stack)
  BY DEF IndInv, TypeOK
<1>2. \A i, j \in 1..Len(stack) : stack[i] = stack[j] => i = j
  BY <1>1 DEF IndInv, SingleOwner
<1>3. stack \in [1..Len(stack) -> Slot]
  BY <1>1
<1>4. stack \in Injection(1..Len(stack), Slot)
  BY <1>2, <1>3 DEF Injection, IsInjective
<1>5. /\ IsFiniteSet(Slot) /\ Cardinality(Slot) = NumSlots
      /\ Cardinality(1..Len(stack)) = Len(stack)
  <2>1. NumSlots \in Nat /\ 1 \in Int /\ NumSlots \in Int /\ Len(stack) \in Int
    BY <1>1, PoolAssumption
  <2>2. /\ IsFiniteSet(1..NumSlots)
        /\ Cardinality(1..NumSlots) = IF 1 > NumSlots THEN 0 ELSE NumSlots - 1 + 1
    BY <2>1, FS_Interval
  <2>3. Cardinality(1..Len(stack)) = IF 1 > Len(stack) THEN 0 ELSE Len(stack) - 1 + 1
    BY <2>1, FS_Interval
  <2> QED BY <1>1, <2>1, <2>2, <2>3 DEF Slot
<1>6. Cardinality(1..Len(stack)) <= Cardinality(Slot)
  BY <1>4, <1>5, FS_Injection
<1> QED BY <1>1, <1>5, <1>6, PoolAssumption

(* A swing moves the free list and puts its count off; a count makes up    *)
(* for it, wrapping either way.                                            *)
LEMMA CountStep ==
  ASSUME IndInv, CountInv, [Next]_vars
  PROVE  CountInv'
<1> USE DEF IndInv
<1> DEFINE Due(c) == Cardinality(At(c))
<1>a. /\ available \in 0..(CountMod - 1) /\ CountMod \in Nat /\ CountMod > 0
      /\ Len(stack) \in Nat
  BY PoolAssumption DEF TypeOK
<1>b. PICK k \in Int : available + Due("pushCount") = Len(stack) + Due("popCount") + k * CountMod
  BY DEF CountInv
<1>c. IsFiniteSet(At("popCount")) /\ IsFiniteSet(At("pushCount"))
  BY DEF CountInv
<1>d. ASSUME NEW j \in Int, IsFiniteSet(At("popCount")'), IsFiniteSet(At("pushCount")'),
             available' + Due("pushCount")' = Len(stack') + Due("popCount")' + j * CountMod
      PROVE  CountInv'
  BY <1>d DEF CountInv
<1>e. k * CountMod \in Int /\ (k + 1) * CountMod = k * CountMod + CountMod
      /\ (k - 1) * CountMod = k * CountMod - CountMod
  BY <1>a
<1>1. CASE UNCHANGED vars
  BY <1>1 DEF vars, CountInv, At
<1>2. ASSUME NEW t \in Thread, Pop(t) \/ Push(t) PROVE CountInv'
  <2>1. CASE PopSwing(t)
    <3>1. pc[t] = "popSwing" /\ pc' = [pc EXCEPT ![t] = "popCount"] /\ UNCHANGED available
      BY <2>1 DEF PopSwing
    <3>2. Len(stack') = Len(stack) - 1
      BY <2>1, PopTakesTop
    <3>3. /\ IsFiniteSet(At("popCount")') /\ Due("popCount") \in Nat
          /\ Due("popCount")' = Due("popCount") + 1
      BY <1>c, <3>1, AtComes
    <3>4. /\ IsFiniteSet(At("pushCount")') /\ Due("pushCount") \in Nat
          /\ Due("pushCount")' = Due("pushCount")
      <4>1. At("pushCount")' = At("pushCount")
        BY <3>1 DEF TypeOK, At
      <4> QED BY <1>c, <4>1, FS_CardinalityType
    <3> HIDE DEF Due
    <3>5. available' + Due("pushCount")' = Len(stack') + Due("popCount")' + k * CountMod
      BY <1>a, <1>b, <1>e, <3>1, <3>2, <3>3, <3>4
    <3> QED BY <1>d, <3>3, <3>4, <3>5
  <2>2. CASE PushSwing(t)
    <3>1. pc[t] = "pushSwing" /\ pc' = [pc EXCEPT ![t] = "pushCount"] /\ UNCHANGED available
      BY <2>2 DEF PushSwing
    <3>2. Len(stack') = Len(stack) + 1
      BY <2>2, PushPutsTop
    <3>3. /\ IsFiniteSet(At("popCount")') /\ Due("popCount") \in Nat
          /\ Due("popCount")' = Due("popCount")
      <4>1. At("popCount")' = At("popCount")
        BY <3>1 DEF TypeOK, At
      <4> QED BY <1>c, <4>1, FS_CardinalityType
    <3>4. /\ IsFiniteSet(At("pushCount")') /\ Due("pushCount") \in Nat
          /\ Due("pushCount")' = Due("pushCount") + 1
      BY <1>c, <3>1, AtComes
    <3> HIDE DEF Due
    <3>5. available' + Due("pushCount")' = Len(stack') + Due("popCount")' + k * CountMod
      <4> DEFINE x == k * CountMod
                 n == Len(stack)
                 m == Len(stack')
                 q == Due("pushCount")
                 p == Due("popCount")
      <4>1. x \in Int /\ n \in Int /\ q \in Int /\ p \in Int /\ available \in Int
        BY <1>a, <1>e, <3>3, <3>4
      <4>2. available + q = n + p + x
        BY <1>b
      <4>3. m = n + 1 /\ available' = available /\ p' = p /\ q' = q + 1
        BY <3>1, <3>2, <3>3, <3>4
      <4> HIDE DEF x, n, m, p, q
      <4>4. available' + q' = m + p' + x
        BY <4>1, <4>2, <4>3
      <4> QED BY <4>4 DEF x, m, p, q
    <3> QED BY <1>d, <3>3, <3>4, <3>5
  <2>3. CASE PopCount(t)
    <3>1. /\ pc[t] = "popCount" /\ pc' = [pc EXCEPT ![t] = "idle"] /\ UNCHANGED stack
          /\ available' = IF available = 0 THEN CountMod - 1 ELSE available - 1
      BY <2>3 DEF PopCount
    <3>3. /\ IsFiniteSet(At("popCount")') /\ Due("popCount") \in Nat
          /\ Due("popCount")' = Due("popCount") - 1
      BY <1>c, <3>1, AtLeaves
    <3>4. /\ IsFiniteSet(At("pushCount")') /\ Due("pushCount") \in Nat
          /\ Due("pushCount")' = Due("pushCount")
      <4>1. At("pushCount")' = At("pushCount")
        BY <3>1 DEF TypeOK, At
      <4> QED BY <1>c, <4>1, FS_CardinalityType
    <3> HIDE DEF Due
    <3>5. CASE available = 0
      <4>1. available' + Due("pushCount")' = Len(stack') + Due("popCount")' + (k + 1) * CountMod
        BY <1>a, <1>b, <1>e, <3>1, <3>3, <3>4, <3>5
      <4> QED BY <1>d, <3>3, <3>4, <4>1
    <3>6. CASE available # 0
      <4>1. available' + Due("pushCount")' = Len(stack') + Due("popCount")' + k * CountMod
        <5> DEFINE x == k * CountMod
        <5>1. x \in Int /\ available + Due("pushCount") = Len(stack) + Due("popCount") + x
          BY <1>b, <1>e
        <5> HIDE DEF x
        <5>2. available' + Due("pushCount")' = Len(stack') + Due("popCount")' + x
          BY <1>a, <3>1, <3>3, <3>4, <3>6, <5>1
        <5> QED BY <5>2 DEF x
      <4> QED BY <1>d, <3>3, <3>4, <4>1
    <3> QED BY <3>5, <3>6
  <2>4. CASE PushCount(t)
    <3>1. /\ pc[t] = "pushCount" /\ pc' = [pc EXCEPT ![t] = "idle"] /\ UNCHANGED stack
          /\ available' = IF available = CountMod - 1 THEN 0 ELSE available + 1
      BY <2>4 DEF PushCount
    <3>3. /\ IsFiniteSet(At("popCount")') /\ Due("popCount") \in Nat
          /\ Due("popCount")' = Due("popCount")
      <4>1. At("popCount")' = At("popCount")
        BY <3>1 DEF TypeOK, At
      <4> QED BY <1>c, <4>1, FS_CardinalityType
    <3>4. /\ IsFiniteSet(At("pushCount")') /\ Due("pushCount") \in Nat
          /\ Due("pushCount")' = Due("pushCount") - 1
      BY <1>c, <3>1, AtLeaves
    <3> HIDE DEF Due
    <3>5. CASE available = CountMod - 1
      <4>1. available' + Due("pushCount")' = Len(stack') + Due("popCount")' + (k - 1) * CountMod
        BY <1>a, <1>b, <1>e, <3>1, <3>3, <3>4, <3>5
      <4> QED BY <1>d, <3>3, <3>4, <4>1
    <3>6. CASE available # CountMod - 1
      <4>1. available' + Due("pushCount")' = Len(stack') + Due("popCount")' + k * CountMod
        BY <1>a, <1>b, <1>e, <3>1, <3>3, <3>4, <3>6
      <4> QED BY <1>d, <3>3, <3>4, <4>1
    <3> QED BY <3>5, <3>6
  <2>5. CASE \/ PopLoad(t) \/ PopExhausted(t) \/ PopNext(t) \/ PopRetry(t)
             \/ PushBegin(t) \/ ReleaseFallback(t) \/ PushLoad(t) \/ PushLink(t) \/ PushRetry(t)
    <3>1. /\ UNCHANGED <<available, stack>>
          /\ At("popCount")' = At("popCount") /\ At("pushCount")' = At("pushCount")
      BY <2>5 DEF TypeOK, At, PopLoad, PopExhausted, PopNext, PopRetry, PushBegin,
                  ReleaseFallback, PushLoad, PushLink, PushRetry
    <3> QED BY <3>1 DEF CountInv
  <2> QED BY <1>2, <2>1, <2>2, <2>3, <2>4, <2>5 DEF Pop, Push
<1> QED BY <1>1, <1>2 DEF Next

(* When no thread is between its swing and its count, the counter is the   *)
(* length of the free list: it misses or repeats no count, whatever the    *)
(* interleaving and however often it wrapped below zero in between.        *)
THEOREM PoolAvailable == Spec => []AvailableExact
<1>1. Init => CountInv
  <2> SUFFICES ASSUME Init PROVE CountInv
    OBVIOUS
  <2>1. At("popCount") = {} /\ At("pushCount") = {}
    BY DEF Init, At
  <2>2. available = Len(stack) /\ Len(stack) \in Nat
    BY PoolAssumption DEF Init
  <2>3. Cardinality({}) = 0 /\ IsFiniteSet({})
    BY FS_EmptySet
  <2>4. available + 0 = Len(stack) + 0 + 0 * CountMod
    BY <2>2, PoolAssumption
  <2>5. 0 \in Int /\ IsFiniteSet(At("popCount")) /\ IsFiniteSet(At("pushCount"))
    BY <2>1, <2>3
  <2>6. available + Cardinality(At("pushCount")) =
          Len(stack) + Cardinality(At("popCount")) + 0 * CountMod
    BY <2>1, <2>3, <2>4
  <2> QED BY <2>5, <2>6 DEF CountInv
<1>2. IndInv /\ CountInv => AvailableExact
  <2> SUFFICES ASSUME IndInv, CountInv, \A t \in Thread : pc[t] \notin {"popCount", "pushCount"}
               PROVE  available = Len(stack)
    BY DEF AvailableExact
  <2>1. At("popCount") = {} /\ At("pushCount") = {} /\ Cardinality({}) = 0
    BY FS_EmptySet DEF At
  <2>2. PICK k \in Int : available = Len(stack) + k * CountMod
    <3>1. PICK k \in Int : available + 0 = Len(stack) + 0 + k * CountMod
      BY <2>1 DEF CountInv
    <3>2. available \in Int /\ Len(stack) \in Int /\ CountMod \in Int /\ k * CountMod \in Int
      BY StackFits, PoolAssumption DEF IndInv, TypeOK
    <3> QED BY <3>1, <3>2
  <2>3. /\ available \in 0..(CountMod - 1) /\ Len(stack) \in 0..(CountMod - 1)
        /\ CountMod \in Nat /\ CountMod > 0
    BY StackFits, PoolAssumption DEF IndInv, TypeOK
  <2>4. k = 0
    <3>1. k > 0 => k * CountMod >= CountMod
      BY <2>3
    <3>2. k < 0 => k * CountMod <= 0 - CountMod
      BY <2>3
    <3>3. k * CountMod \in Int
      BY <2>3
    <3> QED BY <2>2, <2>3, <3>1, <3>2, <3>3
  <2>5. k * CountMod = 0
    BY <2>3, <2>4
  <2> QED BY <2>2, <2>3, <2>5
<1>3. IndInv /\ CountInv /\ [Next]_vars => CountInv'
  BY CountStep
<1> QED BY PoolInvariant, <1>1, <1>2, <1>3, PTL DEF Spec
=============================================================================
