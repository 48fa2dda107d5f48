---------------------------- MODULE PointersProofs ----------------------------
(***************************************************************************)
(* Lemmas about the walks of Pointers, for any nodes: a walk that starts   *)
(* at the head of a chain visits the nodes of the chain in their order.    *)
(***************************************************************************)
EXTENDS Pointers, FiniteSetTheorems, SequenceTheorems, WellFoundedInduction, TLAPS

-----------------------------------------------------------------------------
(* Natural numbers.  Induction is over a set of them, so that it needs no *)
(* operator for what is proved.                                            *)

\* A set of natural numbers has a least element.
LEMMA LeastNat ==
  ASSUME NEW S, S \subseteq Nat, S # {}
  PROVE  \E n \in S : \A m \in S : n <= m
<1> DEFINE R == OpToRel(<, Nat)
<1>1. \A x, y \in Nat : <<x, y>> \in R <=> x < y
  BY DEF OpToRel
<1>2. IsWellFoundedOn(R, Nat)
  BY NatLessThanWellFounded
<1> HIDE DEF R
<1>3. PICK n \in S : \A m \in S : ~ (<<m, n>> \in R)
  BY <1>2, WFMin
<1>4. ASSUME NEW m \in S PROVE n <= m
  <2>1. n \in Nat /\ m \in Nat /\ ~ (m < n)
    BY <1>1, <1>3
  <2> QED  BY <2>1, SMT
<1> QED  BY <1>4

\* A set with 0 and with the successor of every number in it has every number.
LEMMA SetInduction ==
  ASSUME NEW S, 0 \in S, \A n \in Nat : n \in S => n + 1 \in S
  PROVE  Nat \subseteq S
<1> SUFFICES ASSUME Nat \ S # {} PROVE FALSE
  OBVIOUS
<1>1. PICK n \in Nat \ S : \A m \in Nat \ S : n <= m
  <2>1. Nat \ S \subseteq Nat
    OBVIOUS
  <2> QED  BY <2>1, LeastNat
<1>2. n # 0 /\ n - 1 \in Nat
  BY <1>1, SMT
<1>3. n - 1 \in S
  BY <1>1, <1>2, SMT
<1>4. (n - 1) + 1 = n
  BY <1>1, SMT
<1> QED  BY <1>1, <1>2, <1>3, <1>4

-----------------------------------------------------------------------------
(* Walks *)

\* A walk takes its steps: the recursive function exists.
LEMMA WalkSteps ==
  ASSUME NEW nx, NEW p, NEW most \in Nat
  PROVE  LET W == Walk(nx, p, most)
         IN /\ W[0] = p
            /\ \A n \in 1..most : W[n] = IF W[n - 1] = Null THEN Null ELSE nx[W[n - 1]]
<1> DEFINE After(q) == IF q = Null THEN Null ELSE nx[q]
           Steps(f, N) == f = [n \in 0..N |-> IF n = 0 THEN p ELSE After(f[n - 1])]
           S == {N \in Nat : \E f : Steps(f, N)}
<1>1. 0 \in S
  <2>1. Steps([n \in 0..0 |-> p], 0)
    BY SMT
  <2> QED  BY <2>1
<1>2. ASSUME NEW N \in Nat, N \in S PROVE N + 1 \in S
  <2>1. PICK f : Steps(f, N)
    BY <1>2
  <2> DEFINE g == [n \in 0..(N + 1) |-> IF n = N + 1 THEN After(f[N]) ELSE f[n]]
  <2>2. ASSUME NEW n \in 0..(N + 1) PROVE g[n] = IF n = 0 THEN p ELSE After(g[n - 1])
    <3>1. CASE n = N + 1
      <4>1. n # 0 /\ n - 1 = N /\ N \in 0..(N + 1) /\ N # N + 1
        BY <3>1, SMT
      <4> QED  BY <3>1, <4>1
    <3>2. CASE n # N + 1
      <4>1. n \in 0..N
        BY <3>2, SMT
      <4>2. f[n] = IF n = 0 THEN p ELSE After(f[n - 1])
        BY <2>1, <4>1
      <4>3. n # 0 => n - 1 \in 0..(N + 1) /\ n - 1 # N + 1
        BY SMT
      <4> QED  BY <3>2, <4>2, <4>3
    <3> QED  BY <3>1, <3>2
  <2>3. Steps(g, N + 1)
    BY <2>2
  <2>4. N + 1 \in Nat
    OBVIOUS
  <2> QED  BY <2>3, <2>4
<1>3. most \in S
  <2> HIDE DEF S
  <2> QED  BY <1>1, <1>2, SetInduction
<1> DEFINE W == Walk(nx, p, most)
<1>4. Steps(W, most)
  <2>1. W = CHOOSE f : Steps(f, most)
    BY DEF Walk
  <2> HIDE DEF W
  <2> QED  BY <1>3, <2>1
<1> HIDE DEF W
<1>5. 0 \in 0..most /\ \A n \in 1..most : n \in 0..most /\ n # 0
  BY SMT
<1>6. W[0] = p
  BY <1>4, <1>5
<1>7. \A n \in 1..most : W[n] = After(W[n - 1])
  BY <1>4, <1>5
<1> QED  BY <1>6, <1>7 DEF W

\* p points to the chain of the nodes in c.
Chained(nx, p, c) ==
  /\ p = Item(c, 1)
  /\ \A i \in 1..Len(c) : c[i] # Null /\ nx[c[i]] = Item(c, i + 1)

\* A walk along a chain is at one node after the other, then nowhere.
LEMMA WalkAlong ==
  ASSUME NEW nx, NEW p, NEW most \in Nat, NEW S, NEW c \in Seq(S), Chained(nx, p, c)
  PROVE  \A n \in 0..most : Walk(nx, p, most)[n] = Item(c, n + 1)
<1> DEFINE W == Walk(nx, p, most)
           T == {n \in Nat : n \in 0..most => W[n] = Item(c, n + 1)}
<1>1. 0 \in T
  BY WalkSteps DEF Chained
<1>2. ASSUME NEW n \in Nat, n \in T, n + 1 \in 0..most
      PROVE  W[n + 1] = Item(c, n + 2)
  <2>1. n + 1 \in 1..most /\ (n + 1) - 1 = n /\ n \in 0..most
    BY <1>2, SMT
  <2>2. W[n + 1] = IF W[n] = Null THEN Null ELSE nx[W[n]]
    BY <2>1, WalkSteps
  <2>3. W[n] = Item(c, n + 1)
    BY <1>2, <2>1
  <2>4. Len(c) \in Nat
    OBVIOUS
  <2>5. CASE n + 1 \in 1..Len(c)
    <3>1. W[n] = c[n + 1] /\ c[n + 1] # Null /\ nx[c[n + 1]] = Item(c, (n + 1) + 1)
      BY <2>3, <2>5 DEF Item, Chained
    <3>2. (n + 1) + 1 = n + 2
      BY SMT
    <3> QED  BY <2>2, <3>1, <3>2
  <2>6. CASE n + 1 \notin 1..Len(c)
    <3>1. W[n] = Null
      BY <2>3, <2>6 DEF Item
    <3>2. n + 2 \notin 1..Len(c)
      BY <2>4, <2>6, SMT
    <3> QED  BY <2>2, <3>1, <3>2 DEF Item
  <2> QED  BY <2>5, <2>6
<1>3. ASSUME NEW n \in Nat, n \in T PROVE n + 1 \in T
  <2>1. (n + 1) + 1 = n + 2 /\ n + 1 \in Nat
    BY SMT
  <2> HIDE DEF W
  <2> QED  BY <1>2, <1>3, <2>1
<1>4. Nat \subseteq T
  <2> HIDE DEF T
  <2> QED  BY <1>1, <1>3, SetInduction
<1> QED  BY <1>4, SMT DEF T

\* A walk with passes enough visits the nodes of the chain in their order.
LEMMA WalkVisits ==
  ASSUME NEW nx, NEW p, NEW most \in Nat, NEW S, NEW c \in Seq(S), Chained(nx, p, c),
         Len(c) <= most
  PROVE  Visits(nx, p, most) = c
<1> DEFINE W == Walk(nx, p, most)
           used == {i \in 0..(most - 1) : W[i] # Null}
<1>1. Len(c) \in Nat /\ c = [i \in 1..Len(c) |-> c[i]]
  OBVIOUS
<1>2. \A i \in 0..most : W[i] = Item(c, i + 1)
  BY WalkAlong
<1> HIDE DEF W
<1>3. used = 0..(Len(c) - 1)
  <2>1. ASSUME NEW i \in 0..(most - 1)
        PROVE  W[i] # Null <=> i \in 0..(Len(c) - 1)
    <3>1. i \in 0..most /\ (i + 1 \in 1..Len(c) <=> i \in 0..(Len(c) - 1))
      BY <1>1, SMT
    <3> QED  BY <1>2, <3>1 DEF Item, Chained
  <2>2. 0..(Len(c) - 1) \subseteq 0..(most - 1)
    BY <1>1, SMT
  <2> QED  BY <2>1, <2>2
<1> HIDE DEF used
<1>4. Cardinality(used) = Len(c)
  <2>1. Cardinality(0..(Len(c) - 1)) = IF 0 > Len(c) - 1 THEN 0 ELSE (Len(c) - 1) - 0 + 1
    <3>1. 0 \in Int /\ Len(c) - 1 \in Int
      BY <1>1, SMT
    <3> QED  BY <3>1, FS_Interval
  <2>2. Cardinality(used) = IF 0 > Len(c) - 1 THEN 0 ELSE (Len(c) - 1) - 0 + 1
    BY <1>3, <2>1, Zenon
  <2> QED  BY <1>1, <2>2, SMT
<1>5. CASE Len(c) = 0
  <2>1. c = <<>> /\ p = Null
    BY <1>5, SMT DEF Chained, Item
  <2> QED  BY <2>1 DEF Visits
<1>6. CASE Len(c) # 0
  <2>1. p # Null
    <3>1. 1 \in 1..Len(c)
      BY <1>1, <1>6, SMT
    <3> QED  BY <3>1 DEF Chained, Item
  <2>2. Visits(nx, p, most) = [n \in 1..Cardinality(used) |-> W[n - 1]]
    BY <2>1 DEF Visits, W, used
  <2>3. ASSUME NEW n \in 1..Len(c) PROVE W[n - 1] = c[n]
    <3>1. n - 1 \in 0..most /\ (n - 1) + 1 = n
      BY <1>1, SMT
    <3> QED  BY <1>2, <3>1 DEF Item
  <2> QED  BY <1>1, <1>4, <2>2, <2>3
<1> QED  BY <1>5, <1>6

\* A chain whose nodes are different has no more of them than there are.
LEMMA ChainFits ==
  ASSUME NEW S, IsFiniteSet(S), NEW c \in Seq(S),
         \A i, j \in 1..Len(c) : c[i] = c[j] => i = j
  PROVE  Len(c) <= Cardinality(S)
<1>1. Len(c) \in Nat /\ c \in [1..Len(c) -> S]
  OBVIOUS
<1>2. IsFiniteSet(1..Len(c)) /\ Cardinality(1..Len(c)) = Len(c)
  <2>1. 1 \in Int /\ Len(c) \in Int
    BY <1>1, SMT
  <2>2. /\ IsFiniteSet(1..Len(c))
        /\ Cardinality(1..Len(c)) = IF 1 > Len(c) THEN 0 ELSE Len(c) - 1 + 1
    BY <2>1, FS_Interval
  <2> QED  BY <1>1, <2>2, SMT
<1>3. Cardinality(S) \in Nat
  BY FS_CardinalityType
<1>4. ASSUME Cardinality(S) < Len(c) PROVE FALSE
  <2>1. \E i, j \in 1..Len(c) : i # j /\ c[i] = c[j]
    BY <1>1, <1>2, <1>4, FS_PigeonHole
  <2> QED  BY <2>1
<1> QED  BY <1>1, <1>3, <1>4, SMT

-----------------------------------------------------------------------------
(* Sequences: what the calls make of the list that a chain should be *)

\* s without its elements from i to j.
LEMMA CutElements ==
  ASSUME NEW S, NEW s \in Seq(S), NEW i \in 1..(Len(s) + 1), NEW j \in (i - 1)..Len(s)
  PROVE  LET t == SubSeq(s, 1, i - 1) \o SubSeq(s, j + 1, Len(s))
         IN /\ t \in Seq(S)
            /\ Len(t) = Len(s) - (j - i + 1)
            /\ \A n \in 1..Len(t) : t[n] = s[IF n < i THEN n ELSE n + (j - i + 1)]
<1> DEFINE a == SubSeq(s, 1, i - 1)
           b == SubSeq(s, j + 1, Len(s))
           t == a \o b
<1>1. Len(s) \in Nat /\ i \in Nat /\ j \in Nat /\ i >= 1 /\ i - 1 <= j /\ j <= Len(s)
  BY SMT
<1>2. /\ a \in Seq(S) /\ Len(a) = i - 1
      /\ \A n \in 1..(i - 1) : a[n] = s[n]
  <2>1. 1 \in 1..(Len(s) + 1) /\ i - 1 \in 0..Len(s)
    BY <1>1, SMT
  <2> QED  BY <1>1, <2>1, SMT
<1>3. /\ b \in Seq(S) /\ Len(b) = Len(s) - j
      /\ \A n \in 1..(Len(s) - j) : b[n] = s[j + n]
  BY <1>1, SMT
<1> HIDE DEF a, b
<1>4. /\ t \in Seq(S) /\ Len(t) = Len(a) + Len(b)
      /\ \A n \in 1..Len(t) : t[n] = IF n <= Len(a) THEN a[n] ELSE b[n - Len(a)]
  <2>1. /\ a \o b \in Seq(S) /\ Len(a \o b) = Len(a) + Len(b)
        /\ \A n \in 1..Len(a) + Len(b) : (a \o b)[n] = IF n <= Len(a) THEN a[n] ELSE b[n - Len(a)]
    BY <1>2, <1>3, ConcatProperties
  <2> QED  BY <2>1, Zenon
<1> HIDE DEF t
<1>5. ASSUME NEW n \in 1..Len(t) PROVE t[n] = s[IF n < i THEN n ELSE n + (j - i + 1)]
  <2>1. CASE n < i
    <3>1. n \in 1..(i - 1) /\ n <= Len(a)
      BY <1>1, <1>2, <2>1, SMT
    <3> QED  BY <1>2, <1>4, <2>1, <3>1
  <2>2. CASE ~(n < i)
    <3>1. ~(n <= Len(a)) /\ n - Len(a) \in 1..(Len(s) - j) /\ j + (n - Len(a)) = n + (j - i + 1)
      BY <1>1, <1>2, <1>3, <1>4, <2>2, SMT
    <3> QED  BY <1>3, <1>4, <2>2, <3>1
  <2> QED  BY <2>1, <2>2
<1>6. Len(t) = Len(s) - (j - i + 1)
  BY <1>1, <1>2, <1>3, <1>4, SMT
<1> QED  BY <1>4, <1>5, <1>6 DEF t, a, b

\* s with the elements of d after its first i.
LEMMA PutElements ==
  ASSUME NEW S, NEW s \in Seq(S), NEW d \in Seq(S), NEW i \in 0..Len(s)
  PROVE  LET t == SubSeq(s, 1, i) \o d \o SubSeq(s, i + 1, Len(s))
         IN /\ t \in Seq(S)
            /\ Len(t) = Len(s) + Len(d)
            /\ \A n \in 1..Len(t) :
                 t[n] = IF n <= i THEN s[n] ELSE IF n <= i + Len(d) THEN d[n - i] ELSE s[n - Len(d)]
<1> DEFINE a == SubSeq(s, 1, i)
           b == SubSeq(s, i + 1, Len(s))
           e == a \o d
           t == e \o b
<1>1. Len(s) \in Nat /\ Len(d) \in Nat /\ i \in Nat /\ i <= Len(s)
  BY SMT
<1>2. /\ a \in Seq(S) /\ Len(a) = i
      /\ \A n \in 1..i : a[n] = s[n]
  BY <1>1, SMT
<1>3. /\ b \in Seq(S) /\ Len(b) = Len(s) - i
      /\ \A n \in 1..(Len(s) - i) : b[n] = s[i + n]
  BY <1>1, SMT
<1> HIDE DEF a, b
<1>4. /\ e \in Seq(S) /\ Len(e) = i + Len(d)
      /\ \A n \in 1..Len(e) : e[n] = IF n <= i THEN a[n] ELSE d[n - i]
  <2>1. /\ a \o d \in Seq(S) /\ Len(a \o d) = Len(a) + Len(d)
        /\ \A n \in 1..Len(a) + Len(d) : (a \o d)[n] = IF n <= Len(a) THEN a[n] ELSE d[n - Len(a)]
    BY <1>2, ConcatProperties
  <2> QED  BY <1>2, <2>1, Zenon
<1> HIDE DEF e
<1>5. /\ t \in Seq(S) /\ Len(t) = Len(e) + Len(b)
      /\ \A n \in 1..Len(t) : t[n] = IF n <= Len(e) THEN e[n] ELSE b[n - Len(e)]
  <2>1. /\ e \o b \in Seq(S) /\ Len(e \o b) = Len(e) + Len(b)
        /\ \A n \in 1..Len(e) + Len(b) : (e \o b)[n] = IF n <= Len(e) THEN e[n] ELSE b[n - Len(e)]
    BY <1>3, <1>4, ConcatProperties
  <2> QED  BY <2>1, Zenon
<1> HIDE DEF t
<1>6. ASSUME NEW n \in 1..Len(t)
      PROVE  t[n] = IF n <= i THEN s[n] ELSE IF n <= i + Len(d) THEN d[n - i] ELSE s[n - Len(d)]
  <2>1. CASE n <= i
    <3>1. n \in 1..i /\ n \in 1..Len(e) /\ n <= Len(e)
      BY <1>1, <1>4, <2>1, SMT
    <3> QED  BY <1>2, <1>4, <1>5, <2>1, <3>1
  <2>2. CASE ~(n <= i) /\ n <= i + Len(d)
    <3>1. n \in 1..Len(e) /\ n <= Len(e)
      BY <1>1, <1>4, <2>2, SMT
    <3> QED  BY <1>4, <1>5, <2>2, <3>1
  <2>3. CASE ~(n <= i + Len(d))
    <3>1. ~(n <= i) /\ ~(n <= Len(e)) /\ n - Len(e) \in 1..(Len(s) - i) /\ i + (n - Len(e)) = n - Len(d)
      BY <1>1, <1>3, <1>4, <1>5, <2>3, SMTT(60)
    <3> QED  BY <1>3, <1>5, <2>3, <3>1
  <2> QED  BY <2>1, <2>2, <2>3
<1>7. Len(t) = Len(s) + Len(d)
  BY <1>1, <1>3, <1>4, <1>5, SMT
<1> QED  BY <1>5, <1>6, <1>7 DEF t, e, a, b

\* The same, by nodes: also nowhere is where it should be.
LEMMA CutItems ==
  ASSUME NEW S, NEW s \in Seq(S), NEW i \in 1..(Len(s) + 1), NEW j \in (i - 1)..Len(s)
  PROVE  LET t == SubSeq(s, 1, i - 1) \o SubSeq(s, j + 1, Len(s))
         IN /\ t \in Seq(S) /\ Len(t) = Len(s) - (j - i + 1)
            /\ \A n \in Nat : Item(t, n) = Item(s, IF n < i THEN n ELSE n + (j - i + 1))
<1> DEFINE t == SubSeq(s, 1, i - 1) \o SubSeq(s, j + 1, Len(s))
<1>1. /\ t \in Seq(S) /\ Len(t) = Len(s) - (j - i + 1)
      /\ \A n \in 1..Len(t) : t[n] = s[IF n < i THEN n ELSE n + (j - i + 1)]
  BY CutElements
<1> HIDE DEF t
<1>2. ASSUME NEW n \in Nat
      PROVE  n \in 1..Len(t) <=> (IF n < i THEN n ELSE n + (j - i + 1)) \in 1..Len(s)
  BY <1>1, SMT
<1>3. \A n \in Nat : Item(t, n) = Item(s, IF n < i THEN n ELSE n + (j - i + 1))
  BY <1>1, <1>2, Zenon DEF Item
<1> QED  BY <1>1, <1>3 DEF t

\* The items of s with d after its i-th.
LEMMA PutItems ==
  ASSUME NEW S, NEW s \in Seq(S), NEW d \in Seq(S), NEW i \in 0..Len(s)
  PROVE  LET t == SubSeq(s, 1, i) \o d \o SubSeq(s, i + 1, Len(s))
         IN /\ t \in Seq(S) /\ Len(t) = Len(s) + Len(d)
            /\ \A n \in Nat :
                 Item(t, n) = IF n <= i THEN Item(s, n)
                              ELSE IF n <= i + Len(d) THEN Item(d, n - i) ELSE Item(s, n - Len(d))
<1> DEFINE t == SubSeq(s, 1, i) \o d \o SubSeq(s, i + 1, Len(s))
<1>1. /\ t \in Seq(S) /\ Len(t) = Len(s) + Len(d)
      /\ \A n \in 1..Len(t) :
           t[n] = IF n <= i THEN s[n] ELSE IF n <= i + Len(d) THEN d[n - i] ELSE s[n - Len(d)]
  BY PutElements
<1> HIDE DEF t
<1>2. ASSUME NEW n \in Nat
      PROVE  /\ n <= i => (n \in 1..Len(t) <=> n \in 1..Len(s))
             /\ ~(n <= i) /\ n <= i + Len(d) => n \in 1..Len(t) /\ n - i \in 1..Len(d)
             /\ ~(n <= i) /\ ~(n <= i + Len(d)) => (n \in 1..Len(t) <=> n - Len(d) \in 1..Len(s))
  BY <1>1, SMT
<1>3. ASSUME NEW n \in Nat
      PROVE  Item(t, n) = IF n <= i THEN Item(s, n)
                          ELSE IF n <= i + Len(d) THEN Item(d, n - i) ELSE Item(s, n - Len(d))
  <2>1. CASE n \in 1..Len(t)
    BY <1>1, <1>2, <2>1, Zenon DEF Item
  <2>2. CASE n \notin 1..Len(t)
    BY <1>2, <2>2, Zenon DEF Item
  <2> QED  BY <2>1, <2>2
<1> QED  BY <1>1, <1>3 DEF t

\* The items of s without its i-th.
LEMMA RemoveItems ==
  ASSUME NEW S, NEW s \in Seq(S), NEW i \in 1..Len(s)
  PROVE  /\ RemoveAt(s, i) \in Seq(S) /\ Len(RemoveAt(s, i)) = Len(s) - 1
         /\ \A n \in Nat : Item(RemoveAt(s, i), n) = Item(s, IF n < i THEN n ELSE n + 1)
<1> DEFINE t == SubSeq(s, 1, i - 1) \o SubSeq(s, i + 1, Len(s))
<1>1. i \in 1..(Len(s) + 1) /\ i \in (i - 1)..Len(s) /\ i - i + 1 = 1
  BY SMT
<1>2. /\ t \in Seq(S) /\ Len(t) = Len(s) - (i - i + 1)
      /\ \A n \in Nat : Item(t, n) = Item(s, IF n < i THEN n ELSE n + (i - i + 1))
  BY <1>1, CutItems
<1>3. t = RemoveAt(s, i)
  BY DEF RemoveAt
<1> HIDE DEF t
<1> QED  BY <1>1, <1>2, <1>3, Zenon

\* The items of s with e after its i-th.
LEMMA InsertItems ==
  ASSUME NEW S, NEW s \in Seq(S), NEW i \in 0..Len(s), NEW e \in S
  PROVE  /\ InsertAt(s, i + 1, e) \in Seq(S) /\ Len(InsertAt(s, i + 1, e)) = Len(s) + 1
         /\ \A n \in Nat : Item(InsertAt(s, i + 1, e), n) =
                           IF n <= i THEN Item(s, n) ELSE IF n = i + 1 THEN e ELSE Item(s, n - 1)
<1> DEFINE t == SubSeq(s, 1, i) \o <<e>> \o SubSeq(s, i + 1, Len(s))
<1>1. <<e>> \in Seq(S) /\ Len(<<e>>) = 1 /\ Item(<<e>>, 1) = e
  BY SMT DEF Item
<1>2. /\ t \in Seq(S) /\ Len(t) = Len(s) + Len(<<e>>)
      /\ \A n \in Nat :
           Item(t, n) = IF n <= i THEN Item(s, n)
                        ELSE IF n <= i + Len(<<e>>) THEN Item(<<e>>, n - i) ELSE Item(s, n - Len(<<e>>))
  BY <1>1, PutItems
<1>3. t = InsertAt(s, i + 1, e)
  <2>1. (i + 1) - 1 = i
    BY SMT
  <2> QED  BY <2>1 DEF InsertAt
<1> HIDE DEF t
<1>4. ASSUME NEW n \in Nat, ~(n <= i) PROVE (n <= i + 1 <=> n = i + 1) /\ (n = i + 1 => n - i = 1)
  BY <1>4, SMT
<1>5. /\ t \in Seq(S) /\ Len(t) = Len(s) + 1
      /\ \A n \in Nat :
           Item(t, n) = IF n <= i THEN Item(s, n)
                        ELSE IF n <= i + 1 THEN Item(<<e>>, n - i) ELSE Item(s, n - 1)
  BY <1>1, <1>2, Zenon
<1>6. ASSUME NEW n \in Nat
      PROVE  Item(t, n) = IF n <= i THEN Item(s, n) ELSE IF n = i + 1 THEN e ELSE Item(s, n - 1)
  <2>1. CASE n <= i
    BY <1>5, <2>1, Zenon
  <2>2. CASE ~(n <= i) /\ n = i + 1
    <3>1. n <= i + 1 /\ n - i = 1
      BY <1>4, <2>2
    <3> QED  BY <1>1, <1>5, <2>2, <3>1, Zenon
  <2>3. CASE ~(n <= i) /\ n # i + 1
    BY <1>4, <1>5, <2>3, Zenon
  <2> QED  BY <2>1, <2>2, <2>3
<1> QED  BY <1>3, <1>5, <1>6, Zenon

\* The items of s with e at its end.
LEMMA AppendItems ==
  ASSUME NEW S, NEW s \in Seq(S), NEW e \in S
  PROVE  /\ Append(s, e) \in Seq(S) /\ Len(Append(s, e)) = Len(s) + 1
         /\ \A n \in Nat : Item(Append(s, e), n) = IF n = Len(s) + 1 THEN e ELSE Item(s, n)
<1> DEFINE t == Append(s, e)
<1>1. /\ t \in Seq(S) /\ Len(t) = Len(s) + 1 /\ Len(s) \in Nat
      /\ \A n \in 1..Len(s) : t[n] = s[n]
      /\ t[Len(s) + 1] = e
  BY AppendProperties
<1> HIDE DEF t
<1>2. ASSUME NEW n \in Nat PROVE n \in 1..Len(t) <=> n = Len(s) + 1 \/ n \in 1..Len(s)
  BY <1>1, SMT
<1>3. \A n \in Nat : Item(t, n) = IF n = Len(s) + 1 THEN e ELSE Item(s, n)
  BY <1>1, <1>2, Zenon DEF Item
<1> QED  BY <1>1, <1>3 DEF t

\* The items of s with e in front.
LEMMA PrependItems ==
  ASSUME NEW S, NEW s \in Seq(S), NEW e \in S
  PROVE  /\ <<e>> \o s \in Seq(S) /\ Len(<<e>> \o s) = Len(s) + 1
         /\ \A n \in Nat : Item(<<e>> \o s, n) = IF n = 1 THEN e ELSE Item(s, n - 1)
<1> DEFINE t == <<e>> \o s
<1>1. <<e>> \in Seq(S) /\ Len(<<e>>) = 1 /\ <<e>>[1] = e /\ Len(s) \in Nat
  OBVIOUS
<1>2. /\ t \in Seq(S) /\ Len(t) = 1 + Len(s)
      /\ \A n \in 1..1 + Len(s) : t[n] = IF n <= 1 THEN <<e>>[n] ELSE s[n - 1]
  BY <1>1, ConcatProperties
<1> HIDE DEF t
<1>3. ASSUME NEW n \in Nat
      PROVE  /\ n = 1 => n \in 1..1 + Len(s) /\ n <= 1
             /\ n # 1 => (n \in 1..1 + Len(s) <=> n - 1 \in 1..Len(s)) /\ (n \in 1..1 + Len(s) => ~(n <= 1))
  BY <1>1, SMT
<1>4. \A n \in Nat : Item(t, n) = IF n = 1 THEN e ELSE Item(s, n - 1)
  BY <1>1, <1>2, <1>3, Zenon DEF Item
<1>5. Len(t) = Len(s) + 1
  BY <1>1, <1>2, SMT
<1> QED  BY <1>2, <1>4, <1>5 DEF t

\* The items of s without its last.
LEMMA FrontItems ==
  ASSUME NEW S, NEW s \in Seq(S), Len(s) # 0
  PROVE  /\ Front(s) \in Seq(S) /\ Len(Front(s)) = Len(s) - 1
         /\ \A n \in Nat : Item(Front(s), n) = IF n = Len(s) THEN Null ELSE Item(s, n)
<1> DEFINE t == Front(s)
<1>1. Len(s) \in Nat /\ Len(s) >= 1
  BY SMT
<1>2. t \in Seq(S) /\ Len(t) = Len(s) - 1 /\ \A n \in 1..Len(s) - 1 : t[n] = s[n]
  <2>1. /\ \A n \in 1..Len(s) - 1 : s[n] \in S /\ 1 + n - 1 = n
        /\ 1 \in Int /\ Len(s) - 1 \in Int
    BY <1>1, SMT
  <2>2. /\ t \in Seq(S) /\ Len(t) = IF 1 <= Len(s) - 1 THEN (Len(s) - 1) - 1 + 1 ELSE 0
        /\ \A n \in 1..(Len(s) - 1) - 1 + 1 : t[n] = s[1 + n - 1]
    BY <2>1, SubSeqProperties DEF Front
  <2> HIDE DEF t
  <2>3. \A n \in Nat : n >= 1 => (IF 1 <= n - 1 THEN (n - 1) - 1 + 1 ELSE 0) = n - 1 /\ (n - 1) - 1 + 1 = n - 1
    BY SMT
  <2>4. /\ (IF 1 <= Len(s) - 1 THEN (Len(s) - 1) - 1 + 1 ELSE 0) = Len(s) - 1
        /\ (Len(s) - 1) - 1 + 1 = Len(s) - 1
    BY <1>1, <2>3, Zenon
  <2>5. \A n \in 1..Len(s) - 1 : t[n] = s[n]
    BY <2>1, <2>2, <2>4, Zenon
  <2> QED  BY <2>2, <2>4, <2>5, Zenon
<1> HIDE DEF t
<1>3. ASSUME NEW n \in Nat
      PROVE  /\ n = Len(s) => n \notin 1..Len(t)
             /\ n # Len(s) => (n \in 1..Len(t) <=> n \in 1..Len(s)) /\ (n \in 1..Len(t) => n \in 1..Len(s) - 1)
  BY <1>1, <1>2, SMT
<1>4. \A n \in Nat : Item(t, n) = IF n = Len(s) THEN Null ELSE Item(s, n)
  BY <1>2, <1>3, Zenon DEF Item
<1> QED  BY <1>2, <1>4 DEF t

\* The items of s without its first.
LEMMA TailItems ==
  ASSUME NEW S, NEW s \in Seq(S), Len(s) # 0
  PROVE  /\ Tail(s) \in Seq(S) /\ Len(Tail(s)) = Len(s) - 1
         /\ \A n \in Nat : Item(Tail(s), n) = IF n = 0 THEN Null ELSE Item(s, n + 1)
<1> DEFINE t == Tail(s)
<1>1. Len(s) \in Nat /\ Len(s) >= 1
  BY SMT
<1>2. t \in Seq(S) /\ Len(t) = Len(s) - 1 /\ \A n \in 1..Len(t) : t[n] = s[n + 1]
  <2>1. s # <<>>
    BY <1>1, SMT
  <2> QED  BY <2>1, HeadTailProperties
<1> HIDE DEF t
<1>3. ASSUME NEW n \in Nat
      PROVE  /\ n = 0 => n \notin 1..Len(t)
             /\ n # 0 => (n \in 1..Len(t) <=> n + 1 \in 1..Len(s))
  BY <1>1, <1>2, SMT
<1>4. \A n \in Nat : Item(t, n) = IF n = 0 THEN Null ELSE Item(s, n + 1)
  BY <1>2, <1>3, Zenon DEF Item
<1> QED  BY <1>2, <1>4 DEF t

\* From any node of a chain on there is a chain.
LEMMA ChainFrom ==
  ASSUME NEW nx, NEW p, NEW S, NEW c \in Seq(S), Chained(nx, p, c), NEW i \in 1..Len(c)
  PROVE  LET d == SubSeq(c, i, Len(c))
         IN /\ d \in Seq(S) /\ Len(d) = Len(c) - i + 1
            /\ \A n \in 1..Len(d) : d[n] = c[n + i - 1]
            /\ Chained(nx, c[i], d)
<1> DEFINE d == SubSeq(c, i, Len(c))
<1>1. d \in Seq(S) /\ Len(d) = Len(c) - i + 1 /\ \A n \in 1..Len(d) : d[n] = c[n + i - 1]
  BY SMT
<1> HIDE DEF d
<1>2. c[i] = Item(d, 1)
  <2>1. 1 \in 1..Len(d) /\ 1 + i - 1 = i
    BY <1>1, SMT
  <2> QED  BY <1>1, <2>1 DEF Item
<1>3. ASSUME NEW n \in 1..Len(d) PROVE d[n] # Null /\ nx[d[n]] = Item(d, n + 1)
  <2>1. n + i - 1 \in 1..Len(c) /\ (n + i - 1) + 1 = (n + 1) + i - 1
    BY <1>1, SMT
  <2>2. n + 1 \in 1..Len(d) <=> (n + i - 1) + 1 \in 1..Len(c)
    BY <1>1, SMT
  <2>3. c[n + i - 1] # Null /\ nx[c[n + i - 1]] = Item(c, (n + i - 1) + 1)
    BY <2>1 DEF Chained
  <2>4. Item(c, (n + i - 1) + 1) = Item(d, n + 1)
    <3>1. ASSUME n + 1 \in 1..Len(d) PROVE d[n + 1] = c[(n + i - 1) + 1]
      <4>1. d[n + 1] = c[(n + 1) + i - 1]
        BY <1>1, <3>1
      <4> QED  BY <2>1, <4>1, Zenon
    <3> QED  BY <2>2, <3>1, Zenon DEF Item
  <2> QED  BY <1>1, <2>3, <2>4
<1>4. Chained(nx, c[i], d)
  BY <1>2, <1>3 DEF Chained
<1> QED  BY <1>1, <1>4 DEF d

\* No node is in s twice.
Distinct(s) == \A i, j \in 1..Len(s) : s[i] = s[j] => i = j

\* What is said of the elements of s, said of its nodes at any place.
LEMMA ItemsOf ==
  ASSUME NEW S, Null \notin S, NEW s \in Seq(S)
  PROVE  /\ Len(s) \in Nat
         /\ \A i \in Nat : Item(s, i) \in S \cup {Null} /\ (Item(s, i) # Null <=> i \in 1..Len(s))
         /\ \A i \in 1..Len(s) : i \in Nat /\ s[i] \in S /\ s[i] = Item(s, i)
<1>1. Len(s) \in Nat /\ \A i \in 1..Len(s) : s[i] \in S /\ i \in Nat
  BY SMT
<1> QED  BY <1>1, Zenon DEF Item

\* Distinct and Chained, said of items: the forms the provers use best.
LEMMA DistinctItems ==
  ASSUME NEW S, Null \notin S, NEW s \in Seq(S)
  PROVE  Distinct(s) <=> \A i, j \in Nat : Item(s, i) # Null /\ Item(s, i) = Item(s, j) => i = j
<1>1. /\ \A i \in Nat : Item(s, i) # Null <=> i \in 1..Len(s)
      /\ \A i \in 1..Len(s) : i \in Nat /\ s[i] = Item(s, i)
  BY ItemsOf
<1>2. ASSUME Distinct(s), NEW i \in Nat, NEW j \in Nat, Item(s, i) # Null, Item(s, i) = Item(s, j)
      PROVE  i = j
  BY <1>1, <1>2 DEF Distinct
<1>3. ASSUME \A i, j \in Nat : Item(s, i) # Null /\ Item(s, i) = Item(s, j) => i = j
      PROVE  Distinct(s)
  BY <1>1, <1>3 DEF Distinct
<1> QED  BY <1>2, <1>3

\* What Chained says, of items.
LEMMA ChainedItems ==
  ASSUME NEW S, Null \notin S, NEW s \in Seq(S), NEW nx, NEW p
  PROVE  Chained(nx, p, s) <=>
           /\ p = Item(s, 1)
           /\ \A i \in Nat : Item(s, i) # Null => nx[Item(s, i)] = Item(s, i + 1)
<1>1. /\ \A i \in Nat : Item(s, i) # Null <=> i \in 1..Len(s)
      /\ \A i \in 1..Len(s) : i \in Nat /\ s[i] = Item(s, i)
  BY ItemsOf
<1>2. \A i \in 1..Len(s) : s[i] # Null
  BY <1>1
<1>3. ASSUME Chained(nx, p, s), NEW i \in Nat, Item(s, i) # Null
      PROVE  nx[Item(s, i)] = Item(s, i + 1)
  BY <1>1, <1>3 DEF Chained
<1>4. ASSUME p = Item(s, 1), \A i \in Nat : Item(s, i) # Null => nx[Item(s, i)] = Item(s, i + 1)
      PROVE  Chained(nx, p, s)
  BY <1>1, <1>2, <1>4 DEF Chained
<1>5. Chained(nx, p, s) => p = Item(s, 1)
  BY DEF Chained
<1> QED  BY <1>3, <1>4, <1>5

\* A chain of different nodes, and the same by nodes.
ChainOf(S, nx, p, s) == s \in Seq(S) /\ Distinct(s) /\ Chained(nx, p, s)

ItemsChained(S, nx, p, s) ==
  /\ s \in Seq(S) /\ p = Item(s, 1)
  /\ \A i \in Nat : Item(s, i) # Null => nx[Item(s, i)] = Item(s, i + 1)
  /\ \A i, j \in Nat : Item(s, i) # Null /\ Item(s, i) = Item(s, j) => i = j

\* What ChainOf says, of items.
LEMMA ChainOfItems ==
  ASSUME NEW S, Null \notin S, NEW s, NEW nx, NEW p
  PROVE  ChainOf(S, nx, p, s) <=> ItemsChained(S, nx, p, s)
BY DistinctItems, ChainedItems DEF ChainOf, ItemsChained

\* The elements of a sequence are its items.
LEMMA RangeItems ==
  ASSUME NEW S, Null \notin S, NEW s \in Seq(S), NEW n \in S
  PROVE  n \in Range(s) <=> \E i \in Nat : Item(s, i) = n
<1>1. DOMAIN s = 1..Len(s)
  OBVIOUS
<1>2. n \in Range(s) <=> \E i \in 1..Len(s) : s[i] = n
  BY <1>1 DEF Range
<1> QED  BY <1>2, ItemsOf, Zenon

\* t is s with n after its i-th node, and without its i-th node.
PutAfter(s, i, n, t) ==
  \A m \in Nat : Item(t, m) = IF m <= i THEN Item(s, m)
                              ELSE IF m = i + 1 THEN n ELSE Item(s, m - 1)

CutAt(s, i, t) == \A m \in Nat : Item(t, m) = Item(s, IF m < i THEN m ELSE m + 1)

\* What the stores that link n in after the i-th node of s make of the pointers, and those
\* that take the i-th node out.
LinkedIn(nx, p, s, i, n, nx2, p2) ==
  /\ p2 = IF i = 0 THEN n ELSE p
  /\ nx2[n] = Item(s, i + 1)
  /\ i # 0 => nx2[Item(s, i)] = n
  /\ \A m \in Nat : Item(s, m) # Null /\ m # i => nx2[Item(s, m)] = nx[Item(s, m)]

LinkedOut(nx, p, s, i, nx2, p2) ==
  /\ p2 = IF i = 1 THEN Item(s, 2) ELSE p
  /\ i # 1 => nx2[Item(s, i - 1)] = Item(s, i + 1)
  /\ \A m \in Nat : Item(s, m) # Null /\ m # i /\ m # i - 1 => nx2[Item(s, m)] = nx[Item(s, m)]

\* n linked in after the i-th node of a chain, at its front if i is 0.
LEMMA ChainPut ==
  ASSUME NEW S, Null \notin S, NEW nx, NEW p, NEW s, ItemsChained(S, nx, p, s),
         NEW i \in 0..Len(s), NEW n \in S, \A m \in Nat : Item(s, m) # n,
         NEW nx2, NEW p2, NEW t \in Seq(S), PutAfter(s, i, n, t),
         LinkedIn(nx, p, s, i, n, nx2, p2)
  PROVE  ItemsChained(S, nx2, p2, t)
<1> USE DEF PutAfter, LinkedIn
<1>1. /\ s \in Seq(S) /\ Len(s) \in Nat /\ n # Null
      /\ \A m \in Nat : Item(s, m) # Null <=> m \in 1..Len(s)
      /\ Item(s, 0) = Null
  <2>1. s \in Seq(S) /\ n # Null
    BY DEF ItemsChained
  <2>2. 0 \in Nat /\ 0 \notin 1..Len(s)
    BY <2>1, SMT
  <2> QED  BY <2>1, <2>2, ItemsOf, Zenon
<1>2. p2 = Item(t, 1)
  <2>1. 0 <= 0 /\ 0 + 1 = 1 /\ 1 \in Nat /\ (i # 0 => 1 <= i)
    BY SMT
  <2> QED  BY <1>1, <2>1, SMT DEF ItemsChained
<1>3. ASSUME NEW m \in Nat, Item(t, m) # Null PROVE nx2[Item(t, m)] = Item(t, m + 1)
  <2>1. CASE m < i
    <3>1. Item(t, m) = Item(s, m) /\ Item(t, m + 1) = Item(s, m + 1)
      BY <1>1, <2>1, SMT
    <3>2. nx2[Item(s, m)] = nx[Item(s, m)] /\ nx[Item(s, m)] = Item(s, m + 1)
      BY <1>3, <2>1, <3>1, SMT DEF ItemsChained
    <3> QED  BY <3>1, <3>2
  <2>2. CASE m = i
    <3>1. Item(t, m) = Item(s, i) /\ Item(t, m + 1) = n /\ i # 0
      BY <1>1, <1>3, <2>2, SMT
    <3> QED  BY <3>1
  <2>3. CASE m = i + 1
    <3>1. ~(m <= i) /\ ~(m + 1 <= i) /\ m + 1 # i + 1 /\ (m + 1) - 1 = i + 1 /\ m + 1 \in Nat
      BY <2>3, SMT
    <3>2. Item(t, m) = n /\ Item(t, m + 1) = Item(s, i + 1)
      BY <2>3, <3>1, Zenon
    <3> QED  BY <3>2
  <2>4. CASE i + 1 < m
    <3>1. /\ ~(m <= i) /\ ~(m + 1 <= i) /\ m # i + 1 /\ m + 1 # i + 1
          /\ (m + 1) - 1 = m /\ (m - 1) + 1 = m /\ m + 1 \in Nat /\ m - 1 \in Nat /\ m - 1 # i
      BY <2>4, SMT
    <3>2. Item(t, m) = Item(s, m - 1) /\ Item(t, m + 1) = Item(s, m)
      BY <3>1, Zenon
    <3>3. nx2[Item(s, m - 1)] = nx[Item(s, m - 1)] /\ nx[Item(s, m - 1)] = Item(s, (m - 1) + 1)
      BY <1>3, <3>1, <3>2, Zenon DEF ItemsChained
    <3> QED  BY <3>1, <3>2, <3>3
  <2> QED  BY <2>1, <2>2, <2>3, <2>4, SMT
<1>4. ASSUME NEW m \in Nat, NEW l \in Nat, Item(t, m) # Null, Item(t, m) = Item(t, l) PROVE m = l
  BY <1>1, <1>4, SMT DEF ItemsChained
<1> QED  BY <1>2, <1>3, <1>4 DEF ItemsChained

\* The i-th node taken out of a chain.
LEMMA ChainCut ==
  ASSUME NEW S, Null \notin S, NEW nx, NEW p, NEW s, ItemsChained(S, nx, p, s),
         NEW i \in 1..Len(s), NEW nx2, NEW p2, NEW t \in Seq(S), CutAt(s, i, t),
         LinkedOut(nx, p, s, i, nx2, p2)
  PROVE  ItemsChained(S, nx2, p2, t)
<1> USE DEF CutAt, LinkedOut
<1>1. /\ s \in Seq(S) /\ Len(s) \in Nat
      /\ \A m \in Nat : Item(s, m) # Null <=> m \in 1..Len(s)
  <2>1. s \in Seq(S)
    BY DEF ItemsChained
  <2> QED  BY <2>1, ItemsOf, Zenon
<1>2. p2 = Item(t, 1)
  <2>1. 1 \in Nat /\ 1 + 1 = 2 /\ (1 < i <=> i # 1)
    BY SMT
  <2> QED  BY <2>1, Zenon DEF ItemsChained
<1>3. ASSUME NEW m \in Nat, Item(t, m) # Null PROVE nx2[Item(t, m)] = Item(t, m + 1)
  <2>1. CASE m + 1 < i
    <3>1. m < i /\ m # i /\ m # i - 1 /\ m + 1 \in Nat
      BY <2>1, SMT
    <3> QED  BY <1>3, <2>1, <3>1, Zenon DEF ItemsChained
  <2>2. CASE m + 1 = i
    <3>1. m < i /\ ~(m + 1 < i) /\ i - 1 = m /\ (m + 1) + 1 = i + 1 /\ m + 1 \in Nat
      BY <2>2, SMT
    <3>2. i # 1
      BY <1>1, <1>3, <2>2, <3>1, SMT
    <3>3. Item(t, m) = Item(s, i - 1) /\ Item(t, m + 1) = Item(s, i + 1)
      BY <3>1, Zenon
    <3> QED  BY <3>2, <3>3
  <2>3. CASE ~(m < i)
    <3>1. ~(m + 1 < i) /\ m + 1 # i /\ m + 1 # i - 1 /\ m + 1 \in Nat
      BY <2>3, SMT
    <3> QED  BY <1>3, <2>3, <3>1, Zenon DEF ItemsChained
  <2> QED  BY <2>1, <2>2, <2>3, SMT
<1>4. ASSUME NEW m \in Nat, NEW l \in Nat, Item(t, m) # Null, Item(t, m) = Item(t, l) PROVE m = l
  <2>1. (IF m < i THEN m ELSE m + 1) \in Nat /\ (IF l < i THEN l ELSE l + 1) \in Nat
    BY SMT
  <2>2. (IF m < i THEN m ELSE m + 1) = (IF l < i THEN l ELSE l + 1)
    BY <1>4, <2>1, Zenon DEF ItemsChained
  <2> QED  BY <2>2, SMTT(60)
<1> QED  BY <1>2, <1>3, <1>4 DEF ItemsChained

\* A sequence with n put into it, and without its i-th node, by elements.
LEMMA PutMembers ==
  ASSUME NEW S, Null \notin S, NEW s \in Seq(S), NEW i \in 0..Len(s), NEW n \in S,
         NEW t \in Seq(S), PutAfter(s, i, n, t)
  PROVE  Range(t) = Range(s) \cup {n}
<1>1. Range(s) \subseteq S /\ Range(t) \subseteq S
  BY DEF Range
<1>2. ASSUME NEW x \in S PROVE x \in Range(t) <=> x \in Range(s) \/ x = n
  <2>1. ASSUME NEW m \in Nat, Item(t, m) = x PROVE x = n \/ \E l \in Nat : Item(s, l) = x
    <3>1. m <= i \/ m = i + 1 \/ m - 1 \in Nat
      BY SMT
    <3> QED  BY <2>1, <3>1 DEF PutAfter
  <2>2. ASSUME NEW m \in Nat, Item(s, m) = x PROVE \E l \in Nat : Item(t, l) = x
    <3>1. m <= i \/ (m + 1 \in Nat /\ ~(m + 1 <= i) /\ m + 1 # i + 1 /\ (m + 1) - 1 = m)
      BY SMT
    <3> QED  BY <2>2, <3>1 DEF PutAfter
  <2>3. Item(t, i + 1) = n /\ i + 1 \in Nat
    <3>1. i + 1 \in Nat /\ ~(i + 1 <= i)
      BY SMT
    <3> QED  BY <3>1 DEF PutAfter
  <2> QED  BY <2>1, <2>2, <2>3, RangeItems
<1> QED  BY <1>1, <1>2

\* Likewise for a node taken out.
LEMMA CutMembers ==
  ASSUME NEW S, Null \notin S, NEW s \in Seq(S), Distinct(s), NEW i \in 1..Len(s),
         NEW t \in Seq(S), CutAt(s, i, t)
  PROVE  Range(t) = Range(s) \ {s[i]}
<1>1. Range(s) \subseteq S /\ Range(t) \subseteq S /\ s[i] = Item(s, i) /\ s[i] # Null /\ i \in Nat
  BY ItemsOf DEF Range
<1>2. ASSUME NEW x \in S PROVE x \in Range(t) <=> x \in Range(s) /\ x # s[i]
  <2>1. ASSUME NEW m \in Nat, Item(t, m) = x PROVE x # s[i] /\ \E l \in Nat : Item(s, l) = x
    <3> DEFINE l == IF m < i THEN m ELSE m + 1
    <3>1. l \in Nat /\ l # i
      BY SMT
    <3>2. Item(s, l) = x
      BY <2>1 DEF CutAt
    <3> HIDE DEF l
    <3>3. Item(s, l) # Item(s, i)
      BY <1>1, <3>1, DistinctItems
    <3> QED  BY <1>1, <3>1, <3>2, <3>3
  <2>2. ASSUME NEW m \in Nat, Item(s, m) = x, x # s[i] PROVE \E l \in Nat : Item(t, l) = x
    <3>1. m # i
      BY <1>1, <2>2
    <3>2. m < i \/ (m - 1 \in Nat /\ ~(m - 1 < i) /\ (m - 1) + 1 = m)
      BY <3>1, SMT
    <3> QED  BY <2>2, <3>2 DEF CutAt
  <2> QED  BY <2>1, <2>2, RangeItems
<1> QED  BY <1>1, <1>2

\* InsertAt and RemoveAt put a node there, and cut one.
LEMMA InsertPuts ==
  ASSUME NEW S, NEW s \in Seq(S), NEW i \in 0..Len(s), NEW n \in S, NEW t, t = InsertAt(s, i + 1, n)
  PROVE  t \in Seq(S) /\ Len(t) = Len(s) + 1 /\ PutAfter(s, i, n, t)
BY InsertItems DEF PutAfter

\* Likewise.
LEMMA RemoveCuts ==
  ASSUME NEW S, NEW s \in Seq(S), NEW i \in 1..Len(s), NEW t, t = RemoveAt(s, i)
  PROVE  t \in Seq(S) /\ Len(t) = Len(s) - 1 /\ CutAt(s, i, t)
BY RemoveItems DEF CutAt
=============================================================================
