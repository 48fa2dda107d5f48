---------------------------- MODULE HashMapProofs ----------------------------
(***************************************************************************)
(* Theorems about hashmap.c for any keys, hashes and base size: no call    *)
(* loses an item or reaches a freed one, and the map is a dictionary.      *)
(***************************************************************************)
EXTENDS HashMap, PointersProofs

-----------------------------------------------------------------------------
(* The chains of a hash map *)

\* ch gives the items in the bucket each of the buckets points to; none is in two of them.
Threaded(cap, pool, nx, ch) ==
  /\ \A b \in 0..(cap - 1) : ChainOf(Keys, nx, pool[b], ch[b])
  /\ \A b, c \in 0..(cap - 1) : b # c => Range(ch[b]) \cap Range(ch[c]) = {}

\* What does not change outside bucket b, whose items may get other links.
Beside(cap, pool, nx, ch, b, pool2, nx2, ch2) ==
  \A c \in 0..(cap - 1) : c # b =>
    /\ ch2[c] = ch[c] /\ pool2[c] = pool[c]
    /\ \A x \in Range(ch[c]) : nx2[x] = nx[x]

\* Item k linked in after the i-th of bucket b, and the i-th taken out.
Inserted(cap, pool, nx, ch, b, i, k, pool2, nx2, ch2) ==
  /\ Beside(cap, pool, nx, ch, b, pool2, nx2, ch2)
  /\ ch2[b] \in Seq(Keys) /\ PutAfter(ch[b], i, k, ch2[b])
  /\ LinkedIn(nx, pool[b], ch[b], i, k, nx2, pool2[b])

Removed(cap, pool, nx, ch, b, i, pool2, nx2, ch2) ==
  /\ Beside(cap, pool, nx, ch, b, pool2, nx2, ch2)
  /\ ch2[b] \in Seq(Keys) /\ CutAt(ch[b], i, ch2[b])
  /\ LinkedOut(nx, pool[b], ch[b], i, nx2, pool2[b])

\* A chain is the same under pointers that agree on its items.
LEMMA ChainStays ==
  ASSUME NEW nx, NEW p, NEW s, ChainOf(Keys, nx, p, s), NEW nx2, \A x \in Range(s) : nx2[x] = nx[x]
  PROVE  ChainOf(Keys, nx2, p, s)
<1>1. s \in Seq(Keys) /\ \A i \in 1..Len(s) : s[i] \in Range(s)
  BY DEF ChainOf, Range
<1> QED  BY <1>1 DEF ChainOf, Chained

\* An item that was in no bucket, linked in.
LEMMA ThreadPut ==
  ASSUME NEW cap \in Nat, NEW pool, NEW nx, NEW ch, Threaded(cap, pool, nx, ch),
         NEW b \in 0..(cap - 1), NEW i \in 0..Len(ch[b]), NEW k \in Keys,
         \A c \in 0..(cap - 1) : k \notin Range(ch[c]),
         NEW pool2, NEW nx2, NEW ch2, Inserted(cap, pool, nx, ch, b, i, k, pool2, nx2, ch2)
  PROVE  Threaded(cap, pool2, nx2, ch2)
<1> USE DEF Inserted
<1>1. Null \notin Keys /\ ch[b] \in Seq(Keys) /\ ItemsChained(Keys, nx, pool[b], ch[b])
  BY KeysAssumption, ChainOfItems DEF Threaded, ChainOf
<1>2. \A m \in Nat : Item(ch[b], m) # k
  BY <1>1, RangeItems
<1>3. ItemsChained(Keys, nx2, pool2[b], ch2[b])
  BY <1>1, <1>2, ChainPut
<1>4. ChainOf(Keys, nx2, pool2[b], ch2[b])
  BY <1>1, <1>3, ChainOfItems
<1>5. Range(ch2[b]) = Range(ch[b]) \cup {k}
  BY <1>1, PutMembers
<1>6. ASSUME NEW c \in 0..(cap - 1), c # b PROVE ChainOf(Keys, nx2, pool2[c], ch2[c])
  BY <1>6, ChainStays DEF Threaded, Beside
<1>7. ASSUME NEW c \in 0..(cap - 1), NEW d \in 0..(cap - 1), c # d
      PROVE  Range(ch2[c]) \cap Range(ch2[d]) = {}
  <2>1. \A e \in 0..(cap - 1) : Range(ch2[e]) \subseteq Range(ch[e]) \cup {k} /\ (e # b => ch2[e] = ch[e])
    BY <1>5 DEF Beside
  <2>2. Range(ch[c]) \cap Range(ch[d]) = {} /\ k \notin Range(ch[c]) /\ k \notin Range(ch[d])
    BY <1>7 DEF Threaded
  <2> QED  BY <1>7, <2>1, <2>2
<1> QED  BY <1>4, <1>5, <1>6, <1>7 DEF Threaded

\* An item taken out.
LEMMA ThreadCut ==
  ASSUME NEW cap \in Nat, NEW pool, NEW nx, NEW ch, Threaded(cap, pool, nx, ch),
         NEW b \in 0..(cap - 1), NEW i \in 1..Len(ch[b]),
         NEW pool2, NEW nx2, NEW ch2, Removed(cap, pool, nx, ch, b, i, pool2, nx2, ch2)
  PROVE  Threaded(cap, pool2, nx2, ch2)
<1> USE DEF Removed
<1>1. /\ Null \notin Keys /\ ch[b] \in Seq(Keys) /\ Distinct(ch[b])
      /\ ItemsChained(Keys, nx, pool[b], ch[b])
  BY KeysAssumption, ChainOfItems DEF Threaded, ChainOf
<1>2. ItemsChained(Keys, nx2, pool2[b], ch2[b])
  BY <1>1, ChainCut
<1>3. ChainOf(Keys, nx2, pool2[b], ch2[b])
  BY <1>1, <1>2, ChainOfItems
<1>4. Range(ch2[b]) = Range(ch[b]) \ {ch[b][i]}
  BY <1>1, CutMembers
<1>5. ASSUME NEW c \in 0..(cap - 1), c # b PROVE ChainOf(Keys, nx2, pool2[c], ch2[c])
  BY <1>5, ChainStays DEF Threaded, Beside
<1>6. ASSUME NEW c \in 0..(cap - 1), NEW d \in 0..(cap - 1), c # d
      PROVE  Range(ch2[c]) \cap Range(ch2[d]) = {}
  <2>1. \A e \in 0..(cap - 1) : Range(ch2[e]) \subseteq Range(ch[e])
    BY <1>4 DEF Beside
  <2>2. Range(ch[c]) \cap Range(ch[d]) = {}
    BY <1>6 DEF Threaded
  <2> QED  BY <2>1, <2>2
<1> QED  BY <1>3, <1>4, <1>5, <1>6 DEF Threaded

\* The chains of well-typed pointers, every item of which is allocated.
Sound(cap, pool, nx, ch) ==
  /\ cap \in Nat
  /\ pool \in [0..(cap - 1) -> Keys \cup {Null}]
  /\ DOMAIN nx \subseteq Keys /\ nx \in [DOMAIN nx -> Keys \cup {Null}]
  /\ Threaded(cap, pool, nx, ch)
  /\ \A b \in 0..(cap - 1) : Range(ch[b]) \subseteq DOMAIN nx

\* What SetNext makes of the heads and of the links.
HeadSet(pool, b, prev, after) == IF prev = Null THEN [pool EXCEPT ![b] = after] ELSE pool
LinkSet(nx, prev, after) == IF prev = Null THEN nx ELSE [nx EXCEPT ![prev] = after]

\* What is known of a bucket of sound chains, and of its items.
LEMMA SoundNow ==
  ASSUME NEW cap, NEW pool, NEW nx, NEW ch, Sound(cap, pool, nx, ch), NEW b \in 0..(cap - 1)
  PROVE  /\ Null \notin Keys /\ b \in Nat
         /\ ch[b] \in Seq(Keys) /\ Distinct(ch[b]) /\ Len(ch[b]) \in Nat
         /\ ItemsChained(Keys, nx, pool[b], ch[b])
         /\ pool[b] = Item(ch[b], 1)
         /\ \A i \in Nat : Item(ch[b], i) \in Keys \cup {Null} /\ (Item(ch[b], i) # Null <=> i \in 1..Len(ch[b]))
         /\ \A i \in 1..Len(ch[b]) : i \in Nat /\ ch[b][i] \in Keys /\ ch[b][i] = Item(ch[b], i) /\ ch[b][i] \in Range(ch[b])
         /\ \A x \in Keys : x \in Range(ch[b]) <=> \E i \in Nat : Item(ch[b], i) = x
         /\ \A i \in Nat : Item(ch[b], i) # Null => Item(ch[b], i) \in DOMAIN nx /\ Item(ch[b], i) \in Range(ch[b])
<1>1. Null \notin Keys /\ cap \in Nat
  BY KeysAssumption DEF Sound
<1>2. ch[b] \in Seq(Keys) /\ Distinct(ch[b]) /\ ItemsChained(Keys, nx, pool[b], ch[b])
  BY <1>1, ChainOfItems DEF Sound, Threaded, ChainOf
<1>3. b \in Nat
  BY <1>1, SMT
<1>4. pool[b] = Item(ch[b], 1)
  BY <1>2 DEF ItemsChained
<1>5. \A i \in 1..Len(ch[b]) : ch[b][i] \in Range(ch[b])
  BY <1>2 DEF Range
<1>6. \A x \in Keys : x \in Range(ch[b]) <=> \E i \in Nat : Item(ch[b], i) = x
  BY <1>1, <1>2, RangeItems
<1>7. /\ Len(ch[b]) \in Nat
      /\ \A i \in Nat : Item(ch[b], i) \in Keys \cup {Null} /\ (Item(ch[b], i) # Null <=> i \in 1..Len(ch[b]))
      /\ \A i \in 1..Len(ch[b]) : i \in Nat /\ ch[b][i] \in Keys /\ ch[b][i] = Item(ch[b], i)
  BY <1>1, <1>2, ItemsOf
<1>8. \A i \in Nat : Item(ch[b], i) # Null => Item(ch[b], i) \in DOMAIN nx /\ Item(ch[b], i) \in Range(ch[b])
  BY <1>5, <1>7 DEF Sound
<1> QED  BY <1>1, <1>2, <1>3, <1>4, <1>5, <1>6, <1>7, <1>8

\* The items of the other buckets are none of this one's.
LEMMA SoundApart ==
  ASSUME NEW cap, NEW pool, NEW nx, NEW ch, Sound(cap, pool, nx, ch),
         NEW b \in 0..(cap - 1), NEW c \in 0..(cap - 1), b # c,
         NEW x \in Range(ch[c])
  PROVE  x \in DOMAIN nx /\ \A i \in Nat : x # Item(ch[b], i)
<1>1. x \in DOMAIN nx /\ x \notin Range(ch[b]) /\ x \in Keys /\ x # Null
  BY KeysAssumption DEF Sound, Threaded
<1> QED  BY <1>1, SoundNow

\* The stores that take the i-th item of bucket b out, whose items are s.
CutStores(pool, nx, b, s, i, pool2, nx2) ==
  /\ pool2 = HeadSet(pool, b, Item(s, i - 1), Item(s, i + 1))
  /\ nx2 \in [DOMAIN nx2 -> Keys \cup {Null}]
  /\ DOMAIN nx2 \subseteq DOMAIN nx /\ DOMAIN nx \ {s[i]} \subseteq DOMAIN nx2
  /\ \A y \in DOMAIN nx \ {s[i]} : nx2[y] = LinkSet(nx, Item(s, i - 1), Item(s, i + 1))[y]

Elsewhere(cap, ch, b, ch2) == \A c \in 0..(cap - 1) : c # b => ch2[c] = ch[c]

CutFrom(cap, pool, nx, ch, b, i, pool2, nx2, ch2) ==
  /\ CutStores(pool, nx, b, ch[b], i, pool2, nx2)
  /\ ch2[b] = RemoveAt(ch[b], i) /\ Elsewhere(cap, ch, b, ch2)

\* t is s without its i-th item.
ShorterBy(s, i, t) ==
  t \in Seq(Keys) /\ CutAt(s, i, t) /\ Len(t) = Len(s) - 1 /\ Range(t) = Range(s) \ {s[i]}

\* The item is taken out by the stores of hash_map_delete and of the rehash.
LEMMA SoundCut ==
  ASSUME NEW cap, NEW pool, NEW nx, NEW ch, Sound(cap, pool, nx, ch),
         NEW b \in 0..(cap - 1), NEW i \in 1..Len(ch[b]),
         NEW pool2, NEW nx2, NEW ch2, CutFrom(cap, pool, nx, ch, b, i, pool2, nx2, ch2)
  PROVE  Sound(cap, pool2, nx2, ch2) /\ ShorterBy(ch[b], i, ch2[b])
<1> USE DEF CutFrom, ShorterBy
<1> DEFINE p == Item(ch[b], i - 1)
           q == Item(ch[b], i + 1)
<1>1. /\ cap \in Nat /\ i \in Nat /\ i - 1 \in Nat /\ i + 1 \in Nat /\ (i - 1) + 1 = i
      /\ (i = 1 <=> i - 1 \notin 1..Len(ch[b])) /\ i + 1 # i /\ i - 1 # i /\ 1 + 1 = 2
  <2>1. cap \in Nat /\ Len(ch[b]) \in Nat
    BY SoundNow DEF Sound
  <2> QED  BY <2>1, SMT
<1>2. p \in Keys \cup {Null} /\ q \in Keys \cup {Null} /\ (p = Null <=> i = 1) /\ (p # Null => p \in DOMAIN nx)
  BY <1>1, SoundNow
<1>3. ch2[b] = RemoveAt(ch[b], i) /\ \A c \in 0..(cap - 1) : c # b => ch2[c] = ch[c]
  BY DEF Elsewhere
<1>4. ch2[b] \in Seq(Keys) /\ Len(ch2[b]) = Len(ch[b]) - 1 /\ CutAt(ch[b], i, ch2[b])
  <2>1. ch[b] \in Seq(Keys)
    BY SoundNow
  <2> QED  BY <1>3, <2>1, RemoveItems DEF CutAt
<1> HIDE DEF p, q
<1>5. \A y \in DOMAIN nx \ {ch[b][i]} : nx2[y] = IF y = p THEN q ELSE nx[y]
  <2>1. \A y \in DOMAIN nx : LinkSet(nx, p, q)[y] = IF y = p THEN q ELSE nx[y]
    <3>1. CASE p = Null
      <4>1. Null \notin DOMAIN nx
        BY KeysAssumption DEF Sound
      <4> QED  BY <3>1, <4>1 DEF LinkSet
    <3>2. CASE p # Null
      <4>1. nx \in [DOMAIN nx -> Keys \cup {Null}]
        BY DEF Sound
      <4> QED  BY <3>2, <4>1 DEF LinkSet
    <3> QED  BY <3>1, <3>2
  <2> QED  BY <2>1 DEF p, q, CutStores
<1>6. pool2 \in [0..(cap - 1) -> Keys \cup {Null}] /\ pool2[b] = (IF i = 1 THEN q ELSE pool[b])
      /\ \A c \in 0..(cap - 1) : c # b => pool2[c] = pool[c]
  <2>1. pool2 = IF i = 1 THEN [pool EXCEPT ![b] = q] ELSE pool
    BY <1>2 DEF HeadSet, p, q, CutStores
  <2> QED  BY <1>2, <2>1 DEF Sound
<1>7. \A m \in Nat : Item(ch[b], m) # Null /\ m # i => Item(ch[b], m) \in DOMAIN nx \ {ch[b][i]}
  BY <1>1, SoundNow DEF ItemsChained
<1>8. LinkedOut(nx, pool[b], ch[b], i, nx2, pool2[b])
  <2>1. i # 1 => nx2[p] = q
    BY <1>1, <1>2, <1>5, <1>7 DEF p
  <2>2. ASSUME NEW m \in Nat, Item(ch[b], m) # Null, m # i, m # i - 1
        PROVE  nx2[Item(ch[b], m)] = nx[Item(ch[b], m)]
    <3>1. Item(ch[b], m) # p
      BY <1>1, <2>2, SoundNow DEF p, ItemsChained
    <3> QED  BY <1>5, <1>7, <2>2, <3>1
  <2>3. i = 1 => q = Item(ch[b], 2)
    BY <1>1 DEF q
  <2> QED  BY <1>6, <2>1, <2>2, <2>3 DEF LinkedOut, p, q
<1>9. Beside(cap, pool, nx, ch, b, pool2, nx2, ch2)
  <2>1. ASSUME NEW c \in 0..(cap - 1), c # b, NEW x \in Range(ch[c]) PROVE nx2[x] = nx[x]
    <3>1. x # Item(ch[b], i - 1) /\ x # Item(ch[b], i) /\ x \in DOMAIN nx
      BY <1>1, <2>1, SoundApart
    <3> QED  BY <1>5, <3>1, SoundNow DEF p
  <2> QED  BY <1>3, <1>6, <2>1 DEF Beside
<1>10. Threaded(cap, pool2, nx2, ch2) /\ Range(ch2[b]) = Range(ch[b]) \ {ch[b][i]}
  <2>1. Threaded(cap, pool, nx, ch)
    BY DEF Sound
  <2>2. Removed(cap, pool, nx, ch, b, i, pool2, nx2, ch2)
    BY <1>4, <1>8, <1>9 DEF Removed
  <2>3. cap \in Nat
    BY <1>1
  <2>4. Threaded(cap, pool2, nx2, ch2)
    BY <2>1, <2>2, <2>3, ThreadCut
  <2>5. Range(ch2[b]) = Range(ch[b]) \ {ch[b][i]}
    <3>1. Null \notin Keys /\ ch[b] \in Seq(Keys) /\ Distinct(ch[b])
      BY SoundNow
    <3> QED  BY <1>4, <3>1, CutMembers
  <2> QED  BY <2>4, <2>5
<1>11. ASSUME NEW c \in 0..(cap - 1) PROVE Range(ch2[c]) \subseteq DOMAIN nx2
  <2>1. Range(ch2[c]) \subseteq DOMAIN nx /\ ch[b][i] \notin Range(ch2[c])
    <3>1. CASE c = b
      BY <1>10, <3>1 DEF Sound
    <3>2. CASE c # b
      <4>1. ch2[c] = ch[c] /\ Range(ch[c]) \subseteq DOMAIN nx
        BY <1>3, <3>2 DEF Sound
      <4>2. ch[b][i] \in Range(ch[b])
        BY SoundNow
      <4>3. Range(ch[b]) \cap Range(ch[c]) = {}
        BY <3>2 DEF Sound, Threaded
      <4> QED  BY <4>1, <4>2, <4>3
    <3> QED  BY <3>1, <3>2
  <2> QED  BY <2>1 DEF CutStores
<1>12. DOMAIN nx2 \subseteq Keys /\ nx2 \in [DOMAIN nx2 -> Keys \cup {Null}]
  BY DEF Sound, CutStores
<1> QED  BY <1>1, <1>3, <1>4, <1>6, <1>10, <1>11, <1>12 DEF Sound

\* The stores that link item k in after the i-th of bucket b, whose items are s.
PutStores(pool, nx, b, s, i, k, pool2, nx2) ==
  /\ pool2 = HeadSet(pool, b, Item(s, i), k)
  /\ nx2 \in [DOMAIN nx2 -> Keys \cup {Null}] /\ DOMAIN nx2 = DOMAIN nx \cup {k}
  /\ nx2[k] = Item(s, i + 1)
  /\ \A y \in DOMAIN nx \ {k} : nx2[y] = LinkSet(nx, Item(s, i), k)[y]

PutInto(cap, pool, nx, ch, b, i, k, pool2, nx2, ch2) ==
  /\ PutStores(pool, nx, b, ch[b], i, k, pool2, nx2)
  /\ ch2[b] = InsertAt(ch[b], i + 1, k) /\ Elsewhere(cap, ch, b, ch2)

\* t is s with k after its i-th item.
LongerBy(s, i, k, t) ==
  t \in Seq(Keys) /\ PutAfter(s, i, k, t) /\ Len(t) = Len(s) + 1 /\ Range(t) = Range(s) \cup {k}

\* The item is linked in by the stores of hash_map_insert and of the rehash.
LEMMA SoundPut ==
  ASSUME NEW cap, NEW pool, NEW nx, NEW ch, Sound(cap, pool, nx, ch),
         NEW b \in 0..(cap - 1), NEW i \in 0..Len(ch[b]), NEW k \in Keys,
         \A c \in 0..(cap - 1) : k \notin Range(ch[c]),
         NEW pool2, NEW nx2, NEW ch2, PutInto(cap, pool, nx, ch, b, i, k, pool2, nx2, ch2)
  PROVE  Sound(cap, pool2, nx2, ch2) /\ LongerBy(ch[b], i, k, ch2[b])
<1> USE DEF PutInto, LongerBy
<1> DEFINE p == Item(ch[b], i)
<1>1. /\ cap \in Nat /\ i \in Nat /\ i + 1 \in Nat /\ i + 1 # i /\ (i = 0 <=> i \notin 1..Len(ch[b]))
  <2>1. cap \in Nat /\ Len(ch[b]) \in Nat
    BY SoundNow DEF Sound
  <2> QED  BY <2>1, SMT
<1>2. p \in Keys \cup {Null} /\ (p = Null <=> i = 0) /\ (p # Null => p \in DOMAIN nx)
  BY <1>1, SoundNow
<1>3. ch2[b] = InsertAt(ch[b], i + 1, k) /\ \A c \in 0..(cap - 1) : c # b => ch2[c] = ch[c]
  BY DEF Elsewhere
<1>4. ch2[b] \in Seq(Keys) /\ Len(ch2[b]) = Len(ch[b]) + 1 /\ PutAfter(ch[b], i, k, ch2[b])
  <2>1. ch[b] \in Seq(Keys)
    BY SoundNow
  <2> DEFINE s == ch[b]
  <2>2. i \in 0..Len(s) /\ s \in Seq(Keys) /\ ch2[b] = InsertAt(s, i + 1, k)
    BY <1>3, <2>1
  <2> HIDE DEF s
  <2>3. ch2[b] \in Seq(Keys) /\ Len(ch2[b]) = Len(s) + 1 /\ PutAfter(s, i, k, ch2[b])
    BY <2>2, InsertPuts
  <2> QED  BY <2>3 DEF s
<1>5. \A m \in Nat : Item(ch[b], m) # Null => Item(ch[b], m) \in DOMAIN nx \ {k}
  BY SoundNow
<1> HIDE DEF p
<1>6. \A y \in DOMAIN nx \ {k} : nx2[y] = IF y = p THEN k ELSE nx[y]
  <2>1. \A y \in DOMAIN nx : LinkSet(nx, p, k)[y] = IF y = p THEN k ELSE nx[y]
    <3>1. CASE p = Null
      <4>1. Null \notin DOMAIN nx
        BY KeysAssumption DEF Sound
      <4> QED  BY <3>1, <4>1 DEF LinkSet
    <3>2. CASE p # Null
      <4>1. nx \in [DOMAIN nx -> Keys \cup {Null}]
        BY DEF Sound
      <4> QED  BY <3>2, <4>1 DEF LinkSet
    <3> QED  BY <3>1, <3>2
  <2> QED  BY <2>1 DEF p, PutStores
<1>7. pool2 \in [0..(cap - 1) -> Keys \cup {Null}] /\ pool2[b] = (IF i = 0 THEN k ELSE pool[b])
      /\ \A c \in 0..(cap - 1) : c # b => pool2[c] = pool[c]
  <2>1. pool2 = IF i = 0 THEN [pool EXCEPT ![b] = k] ELSE pool
    BY <1>2 DEF HeadSet, p, PutStores
  <2> QED  BY <2>1 DEF Sound
<1>8. LinkedIn(nx, pool[b], ch[b], i, k, nx2, pool2[b])
  <2>1. i # 0 => nx2[p] = k
    BY <1>1, <1>2, <1>5, <1>6 DEF p
  <2>2. ASSUME NEW m \in Nat, Item(ch[b], m) # Null, m # i
        PROVE  nx2[Item(ch[b], m)] = nx[Item(ch[b], m)]
    <3>1. Item(ch[b], m) # p
      BY <1>1, <2>2, SoundNow DEF p, ItemsChained
    <3> QED  BY <1>5, <1>6, <2>2, <3>1
  <2> QED  BY <1>7, <2>1, <2>2 DEF LinkedIn, p, PutStores
<1>9. Beside(cap, pool, nx, ch, b, pool2, nx2, ch2)
  <2>1. ASSUME NEW c \in 0..(cap - 1), c # b, NEW x \in Range(ch[c]) PROVE nx2[x] = nx[x]
    <3>1. x # Item(ch[b], i) /\ x # k /\ x \in DOMAIN nx
      BY <1>1, <2>1, SoundApart
    <3> QED  BY <1>6, <3>1 DEF p
  <2> QED  BY <1>3, <1>7, <2>1 DEF Beside
<1>10. Threaded(cap, pool2, nx2, ch2)
  <2>1. Threaded(cap, pool, nx, ch)
    BY DEF Sound
  <2>2. Inserted(cap, pool, nx, ch, b, i, k, pool2, nx2, ch2)
    BY <1>4, <1>8, <1>9 DEF Inserted
  <2>3. cap \in Nat
    BY <1>1
  <2> QED  BY <2>1, <2>2, <2>3, ThreadPut
<1>11. Range(ch2[b]) = Range(ch[b]) \cup {k}
  <2>1. Null \notin Keys /\ ch[b] \in Seq(Keys)
    BY SoundNow
  <2> QED  BY <1>4, <2>1, PutMembers
<1>12. ASSUME NEW c \in 0..(cap - 1) PROVE Range(ch2[c]) \subseteq DOMAIN nx2
  <2>1. Range(ch2[c]) \subseteq DOMAIN nx \cup {k}
    <3>1. CASE c = b
      BY <1>11, <3>1 DEF Sound
    <3>2. CASE c # b
      BY <1>3, <3>2 DEF Sound
    <3> QED  BY <3>1, <3>2
  <2> QED  BY <2>1 DEF PutStores
<1>13. DOMAIN nx2 \subseteq Keys /\ nx2 \in [DOMAIN nx2 -> Keys \cup {Null}]
  BY DEF Sound, PutStores
<1> QED  BY <1>1, <1>4, <1>7, <1>10, <1>11, <1>12, <1>13 DEF Sound

-----------------------------------------------------------------------------
(* Rehashing *)

\* A map and the state of the loop that relinks a chain, given by their fields.
Fields(c, n, p, x, v) == [capacity |-> c, count |-> n, pool |-> p, next |-> x, val |-> v]
LoopAt(m, prev, item) == [m |-> m, prev |-> prev, item |-> item]

\* What the fields of a map are, from the record it is.
LEMMA FieldsAre ==
  ASSUME NEW c, NEW n, NEW p, NEW x, NEW v, NEW m, m = Fields(c, n, p, x, v)
  PROVE  m.capacity = c /\ m.count = n /\ m.pool = p /\ m.next = x /\ m.val = v
BY DEF Fields

\* Two fields stored at a time.
WithLinks(m, nx, pl) == [m EXCEPT !.next = nx, !.pool = pl]
LoopOn(s, after, prev) == [s EXCEPT !.item = after, !.prev = prev]
LoopWith(s, after, m) == [s EXCEPT !.item = after, !.m = m]

\* Stores to the links and to the heads change those fields.
LEMMA FieldsPut ==
  ASSUME NEW c, NEW n, NEW p, NEW x, NEW v, NEW m, m = Fields(c, n, p, x, v), NEW nx, NEW pl
  PROVE  WithLinks(m, nx, pl) = Fields(c, n, pl, nx, v)
<1> DEFINE m1 == [m EXCEPT !.next = nx]
<1>1. m1 = Fields(c, n, p, nx, v)
  BY SMT DEF Fields
<1>2. WithLinks(m, nx, pl) = [m1 EXCEPT !.pool = pl]
  BY Zenon DEF WithLinks
<1> HIDE DEF m1
<1>3. [m1 EXCEPT !.pool = pl] = Fields(c, n, pl, nx, v)
  BY <1>1, SMT DEF Fields
<1> QED  BY <1>2, <1>3

\* Likewise for the loop.
LEMMA LoopPut ==
  ASSUME NEW m, NEW prev, NEW item, NEW s, s = LoopAt(m, prev, item), NEW after, NEW next
  PROVE  LoopOn(s, after, next) = LoopAt(m, next, after) /\ LoopWith(s, after, next) = LoopAt(next, prev, after)
<1> DEFINE s1 == [s EXCEPT !.item = after]
<1>1. s1 = LoopAt(m, prev, after)
  BY SMT DEF LoopAt
<1>2. LoopOn(s, after, next) = [s1 EXCEPT !.prev = next] /\ LoopWith(s, after, next) = [s1 EXCEPT !.m = next]
  BY Zenon DEF LoopOn, LoopWith
<1> HIDE DEF s1
<1>3. [s1 EXCEPT !.prev = next] = LoopAt(m, next, after)
  BY <1>1, SMT DEF LoopAt
<1>4. [s1 EXCEPT !.m = next] = LoopAt(next, prev, after)
  BY <1>1, SMT DEF LoopAt
<1> QED  BY <1>2, <1>3, <1>4

\* The stores of SetNext and of Prepend, field by field.
LEMMA SetNextFields ==
  ASSUME NEW c, NEW n, NEW p, NEW x, NEW v, NEW b, NEW prev, NEW after
  PROVE  SetNext(Fields(c, n, p, x, v), b, prev, after)
           = Fields(c, n, HeadSet(p, b, prev, after), LinkSet(x, prev, after), v)
BY DEF Fields, SetNext, HeadSet, LinkSet

\* The two stores of an item that becomes the head of a bucket.
LEMMA PrependFields ==
  ASSUME NEW c, NEW n, NEW p, NEW x, NEW v, NEW b, NEW k
  PROVE  Prepend(Fields(c, n, p, x, v), b, k)
           = Fields(c, n, [p EXCEPT ![b] = k], [x EXCEPT ![k] = p[b]], v)
<1> DEFINE m == Fields(c, n, p, x, v)
           nx == [x EXCEPT ![k] = p[b]]
           pl == [p EXCEPT ![b] = k]
<1>1. m.next = x /\ m.pool = p
  BY FieldsAre
<1>2. Prepend(m, b, k) = WithLinks(m, nx, pl)
  <2> HIDE DEF m
  <2> QED  BY <1>1, Zenon DEF Prepend, WithLinks
<1>3. WithLinks(m, nx, pl) = Fields(c, n, pl, nx, v)
  <2>1. m = Fields(c, n, p, x, v)
    OBVIOUS
  <2> HIDE DEF m, nx, pl
  <2> QED  BY <2>1, FieldsPut
<1> QED  BY <1>2, <1>3

\* One pass of the loop.
LEMMA RelinkIs ==
  ASSUME NEW m, NEW prev, NEW item, NEW pivot
  PROVE  Relink(LoopAt(m, prev, item), pivot) =
           IF Pos(m, item) = pivot THEN LoopAt(m, item, m.next[item])
           ELSE LoopAt(Prepend(SetNext(m, pivot, prev, m.next[item]), Pos(m, item), item),
                       prev, m.next[item])
<1> DEFINE s == LoopAt(m, prev, item)
           after == m.next[item]
           moved == Prepend(SetNext(m, pivot, prev, after), Pos(m, item), item)
<1>1. s.m = m /\ s.prev = prev /\ s.item = item
  BY DEF LoopAt
<1>2. Relink(s, pivot) = IF Pos(m, item) = pivot THEN LoopOn(s, after, item) ELSE LoopWith(s, after, moved)
  <2> HIDE DEF s
  <2> QED  BY <1>1, Zenon DEF Relink, LoopOn, LoopWith
<1>3. LoopOn(s, after, item) = LoopAt(m, item, after) /\ LoopWith(s, after, moved) = LoopAt(moved, prev, after)
  <2>1. s = LoopAt(m, prev, item)
    OBVIOUS
  <2> HIDE DEF s, after, moved
  <2> QED  BY <2>1, LoopPut
<1> QED  BY <1>2, <1>3

\* ch gives the items of the map's buckets: no allocated item is in none, and each is where
\* its hash says, but for those in the buckets of D.
Filed(m, ch, D) ==
  /\ m = Fields(m.capacity, m.count, m.pool, m.next, m.val)
  /\ Sound(m.capacity, m.pool, m.next, ch)
  /\ \A b \in 0..(m.capacity - 1) : \A x \in Range(ch[b]) : Pos(m, x) = b \/ b \in D
  /\ \A x \in DOMAIN m.next : \E b \in 0..(m.capacity - 1) : x \in Range(ch[b])

\* What a rehash leaves alone.
Alike(m, m0) ==
  /\ m.capacity = m0.capacity /\ m.count = m0.count /\ m.val = m0.val
  /\ DOMAIN m.next = DOMAIN m0.next

\* The loop that relinks the chain of `pivot', after j items that stay: s has the last of
\* them and the one that follows.
Passing(m0, pivot, D, s, m, ch, j) ==
  /\ Filed(m, ch, D) /\ Alike(m, m0)
  /\ j \in 0..Len(ch[pivot])
  /\ s = LoopAt(m, Item(ch[pivot], j), Item(ch[pivot], j + 1))
  /\ \A i \in Nat : i <= j /\ Item(ch[pivot], i) # Null => Pos(m, Item(ch[pivot], i)) = pivot

\* A key belongs in one of the buckets.
LEMMA PosType ==
  ASSUME NEW m, m.capacity \in Nat \ {0}, NEW k \in Keys
  PROVE  Pos(m, k) \in 0..(m.capacity - 1)
<1>1. Hash[k] \in Nat
  BY HashAssumption
<1>2. \A h \in Nat, c \in Nat \ {0} : h % c \in 0..(c - 1)
  BY SMT
<1> QED  BY <1>1, <1>2 DEF Pos

\* The stores of a pass that moves the item k after the j-th of bucket b, whose items are s,
\* to the head of bucket t.
MoveStores(pool, nx, b, t, s, j, k, pool2, nx2) ==
  LET pool1 == HeadSet(pool, b, Item(s, j), Item(s, j + 2))
      nx1 == LinkSet(nx, Item(s, j), Item(s, j + 2))
  IN pool2 = [pool1 EXCEPT ![t] = k] /\ nx2 = [nx1 EXCEPT ![k] = pool1[t]]

Moved(cap, nx, ch, b, t, j, k, pool2, nx2) ==
  \E ch2 :
    /\ DOMAIN nx2 = DOMAIN nx
    /\ Sound(cap, pool2, nx2, ch2)
    /\ ShorterBy(ch[b], j + 1, ch2[b]) /\ LongerBy(ch[t], 0, k, ch2[t])
    /\ \A c \in 0..(cap - 1) : c # b /\ c # t => ch2[c] = ch[c]

\* What they make of the chains.
LEMMA MoveKeeps ==
  ASSUME NEW cap, NEW pool, NEW nx, NEW ch, Sound(cap, pool, nx, ch),
         NEW b \in 0..(cap - 1), NEW t \in 0..(cap - 1), t # b,
         NEW j \in Nat, j + 1 \in 1..Len(ch[b]), NEW k, k = Item(ch[b], j + 1),
         NEW pool2, NEW nx2, MoveStores(pool, nx, b, t, ch[b], j, k, pool2, nx2)
  PROVE  Moved(cap, nx, ch, b, t, j, k, pool2, nx2)
<1> DEFINE pool1 == HeadSet(pool, b, Item(ch[b], j), Item(ch[b], j + 2))
           nx1 == LinkSet(nx, Item(ch[b], j), Item(ch[b], j + 2))
           ch1 == [c \in 0..(cap - 1) |-> IF c = b THEN RemoveAt(ch[b], j + 1) ELSE ch[c]]
           ch2 == [c \in 0..(cap - 1) |-> IF c = t THEN InsertAt(ch1[t], 0 + 1, k) ELSE ch1[c]]
<1>1. k \in Keys /\ k = ch[b][j + 1] /\ k \in DOMAIN nx /\ k \in Range(ch[b])
  BY SoundNow
<1>2. CutStores(pool, nx, b, ch[b], j + 1, pool1, nx1) /\ DOMAIN nx1 = DOMAIN nx
  <2>1. (j + 1) - 1 = j /\ (j + 1) + 1 = j + 2 /\ j + 2 \in Nat
    BY SMT
  <2>2. Item(ch[b], j + 2) \in Keys \cup {Null} /\ nx \in [DOMAIN nx -> Keys \cup {Null}]
    BY <2>1, SoundNow DEF Sound
  <2>3. nx1 \in [DOMAIN nx -> Keys \cup {Null}]
    BY <2>2 DEF LinkSet
  <2> QED  BY <2>1, <2>3, Zenon DEF CutStores
<1>3. ch1[b] = RemoveAt(ch[b], j + 1) /\ Elsewhere(cap, ch, b, ch1)
  BY DEF Elsewhere
<1>4. ch2[t] = InsertAt(ch1[t], 0 + 1, k) /\ Elsewhere(cap, ch1, t, ch2)
  BY DEF Elsewhere
<1>5. pool2 = [pool1 EXCEPT ![t] = k] /\ nx2 = [nx1 EXCEPT ![k] = pool1[t]]
  BY DEF MoveStores
<1> HIDE DEF pool1, nx1, ch1, ch2
<1>6. Sound(cap, pool1, nx1, ch1) /\ ShorterBy(ch[b], j + 1, ch1[b])
  <2>1. CutFrom(cap, pool, nx, ch, b, j + 1, pool1, nx1, ch1)
    BY <1>2, <1>3 DEF CutFrom
  <2> QED  BY <2>1, SoundCut
<1>7. \A c \in 0..(cap - 1) : k \notin Range(ch1[c])
  <2>1. ASSUME NEW c \in 0..(cap - 1), c # b PROVE k \notin Range(ch1[c])
    <3>1. ch1[c] = ch[c] /\ Range(ch[b]) \cap Range(ch[c]) = {}
      BY <1>3, <2>1 DEF Elsewhere, Sound, Threaded
    <3> QED  BY <1>1, <3>1
  <2> QED  BY <1>1, <1>6, <2>1 DEF ShorterBy
<1>8. PutStores(pool1, nx1, t, ch1[t], 0, k, pool2, nx2) /\ 0 \in 0..Len(ch1[t])
  <2>1. /\ Item(ch1[t], 0) = Null /\ pool1[t] = Item(ch1[t], 0 + 1) /\ 0 \in 0..Len(ch1[t])
        /\ pool1[t] \in Keys \cup {Null}
    <3>1. Len(ch1[t]) \in Nat /\ pool1[t] = Item(ch1[t], 1) /\ Item(ch1[t], 1) \in Keys \cup {Null}
      BY <1>6, SoundNow
    <3>2. 0 \notin 1..Len(ch1[t]) /\ 0 \in 0..Len(ch1[t]) /\ 0 + 1 = 1
      BY <3>1, SMT
    <3> QED  BY <3>1, <3>2 DEF Item
  <2>2. nx1 \in [DOMAIN nx1 -> Keys \cup {Null}] /\ k \in DOMAIN nx1
    BY <1>1, <1>2, <1>6 DEF Sound
  <2>3. /\ nx2 \in [DOMAIN nx1 -> Keys \cup {Null}] /\ nx2[k] = pool1[t]
        /\ \A y \in DOMAIN nx1 \ {k} : nx2[y] = nx1[y]
    BY <1>5, <2>1, <2>2
  <2>4. DOMAIN nx2 = DOMAIN nx1 \cup {k} /\ nx2 \in [DOMAIN nx2 -> Keys \cup {Null}]
    BY <2>2, <2>3
  <2>5. pool2 = HeadSet(pool1, t, Item(ch1[t], 0), k)
    BY <1>5, <2>1 DEF HeadSet
  <2>6. LinkSet(nx1, Item(ch1[t], 0), k) = nx1
    BY <2>1 DEF LinkSet
  <2> QED  BY <2>1, <2>3, <2>4, <2>5, <2>6, Zenon DEF PutStores
<1>9. Sound(cap, pool2, nx2, ch2) /\ LongerBy(ch1[t], 0, k, ch2[t])
  <2>1. PutInto(cap, pool1, nx1, ch1, t, 0, k, pool2, nx2, ch2)
    BY <1>4, <1>8 DEF PutInto
  <2> QED  BY <1>1, <1>6, <1>7, <1>8, <2>1, SoundPut
<1>10. ch2[b] = ch1[b] /\ ch1[t] = ch[t] /\ \A c \in 0..(cap - 1) : c # b /\ c # t => ch2[c] = ch[c]
  BY <1>3, <1>4 DEF Elsewhere
<1>11. DOMAIN nx2 = DOMAIN nx
  BY <1>2, <1>5
<1>12. ShorterBy(ch[b], j + 1, ch2[b]) /\ LongerBy(ch[t], 0, k, ch2[t])
  BY <1>6, <1>9, <1>10
<1> QED  BY <1>9, <1>10, <1>11, <1>12 DEF Moved

\* A pass moves one item on, or away.
LEMMA RelinkKeeps ==
  ASSUME NEW m0, NEW D, NEW pivot \in 0..(m0.capacity - 1),
         NEW s, NEW m, NEW ch, NEW j, Passing(m0, pivot, D, s, m, ch, j), s.item # Null
  PROVE  \E m2, ch2, j2 :
           /\ Passing(m0, pivot, D, Relink(s, pivot), m2, ch2, j2)
           /\ Len(ch2[pivot]) - j2 = Len(ch[pivot]) - j - 1
<1> DEFINE c == m.capacity
           k == Item(ch[pivot], j + 1)
           after == Item(ch[pivot], j + 2)
           prev == Item(ch[pivot], j)
           t == Pos(m, k)
<1>1. /\ m = Fields(c, m.count, m.pool, m.next, m.val) /\ Sound(c, m.pool, m.next, ch)
      /\ c = m0.capacity /\ c \in Nat /\ pivot \in 0..(c - 1) /\ Alike(m, m0)
      /\ j \in 0..Len(ch[pivot]) /\ s = LoopAt(m, prev, k)
  BY DEF Passing, Filed, Alike, Sound
<1>2. k # Null
  BY <1>1 DEF LoopAt
<1>3. /\ Len(ch[pivot]) \in Nat /\ ch[pivot] \in Seq(Keys)
      /\ ItemsChained(Keys, m.next, m.pool[pivot], ch[pivot])
      /\ \A i \in Nat : Item(ch[pivot], i) \in Keys \cup {Null} /\ (Item(ch[pivot], i) # Null <=> i \in 1..Len(ch[pivot]))
  BY <1>1, SoundNow
<1>4. j \in Nat /\ j + 1 \in Nat /\ (j + 1) + 1 = j + 2 /\ j + 2 \in Nat
  BY <1>1, <1>3, SMT
<1>5. j + 1 \in 1..Len(ch[pivot]) /\ k \in Keys
  BY <1>2, <1>3, <1>4
<1>6. k \in Range(ch[pivot]) /\ m.next[k] = after
  <2>1. Item(ch[pivot], j + 1) \in Range(ch[pivot])
    BY <1>1, <1>2, <1>4, SoundNow
  <2> QED  BY <1>2, <1>3, <1>4, <2>1 DEF ItemsChained
<1>7. t \in 0..(c - 1)
  <2>1. c \in Nat \ {0}
    BY <1>1, SMT
  <2> QED  BY <1>5, <2>1, PosType
<1>8. Relink(s, pivot) =
        IF t = pivot THEN LoopAt(m, k, after)
        ELSE LoopAt(Prepend(SetNext(m, pivot, prev, after), t, k), prev, after)
  <2> HIDE DEF k, prev, after, t
  <2>1. Relink(s, pivot) =
          IF Pos(m, k) = pivot THEN LoopAt(m, k, m.next[k])
          ELSE LoopAt(Prepend(SetNext(m, pivot, prev, m.next[k]), Pos(m, k), k), prev, m.next[k])
    BY <1>1, RelinkIs
  <2> QED  BY <1>6, <2>1 DEF t
<1>9. CASE t = pivot
  <2>1. Relink(s, pivot) = LoopAt(m, Item(ch[pivot], j + 1), Item(ch[pivot], (j + 1) + 1))
    BY <1>4, <1>8, <1>9
  <2>2. j + 1 \in 0..Len(ch[pivot]) /\ Len(ch[pivot]) - (j + 1) = Len(ch[pivot]) - j - 1
    BY <1>3, <1>4, <1>5, SMT
  <2>3. ASSUME NEW i \in Nat, i <= j + 1, Item(ch[pivot], i) # Null
        PROVE  Pos(m, Item(ch[pivot], i)) = pivot
    <3>1. i <= j \/ i = j + 1
      BY <1>4, <2>3, SMT
    <3> QED  BY <1>9, <2>3, <3>1 DEF Passing
  <2>4. Passing(m0, pivot, D, Relink(s, pivot), m, ch, j + 1)
    BY <2>1, <2>2, <2>3 DEF Passing
  <2> QED  BY <2>2, <2>4
<1>10. CASE t # pivot
  <2> DEFINE pool1 == HeadSet(m.pool, pivot, prev, after)
             nx1 == LinkSet(m.next, prev, after)
             pool2 == [pool1 EXCEPT ![t] = k]
             nx2 == [nx1 EXCEPT ![k] = pool1[t]]
             m2 == Fields(c, m.count, pool2, nx2, m.val)
  <2>1. Prepend(SetNext(m, pivot, prev, after), t, k) = m2
    <3> HIDE DEF c, k, prev, after, t
    <3>1. SetNext(m, pivot, prev, after) = Fields(c, m.count, pool1, nx1, m.val)
      BY <1>1, SetNextFields
    <3> HIDE DEF pool1, nx1
    <3> QED  BY <3>1, PrependFields
  <2>2. MoveStores(m.pool, m.next, pivot, t, ch[pivot], j, k, pool2, nx2)
    BY DEF MoveStores
  <2>3. /\ m2.capacity = c /\ m2.count = m.count /\ m2.pool = pool2 /\ m2.next = nx2 /\ m2.val = m.val
    <3> HIDE DEF c, pool2, nx2
    <3> QED  BY FieldsAre
  <2> HIDE DEF m2, pool2, nx2, c, k
  <2>4. Moved(c, m.next, ch, pivot, t, j, k, pool2, nx2)
    <3>1. k = Item(ch[pivot], j + 1)
      BY DEF k
    <3> HIDE DEF t, prev, after, pool1, nx1
    <3> QED  BY <1>1, <1>4, <1>5, <1>7, <1>10, <2>2, <3>1, MoveKeeps
  <2>5. PICK ch2 :
             /\ DOMAIN nx2 = DOMAIN m.next
             /\ Sound(c, pool2, nx2, ch2)
             /\ ShorterBy(ch[pivot], j + 1, ch2[pivot]) /\ LongerBy(ch[t], 0, k, ch2[t])
             /\ \A b \in 0..(c - 1) : b # pivot /\ b # t => ch2[b] = ch[b]
    BY <2>4 DEF Moved
  <2>6. \A x \in Keys : Pos(m2, x) = Pos(m, x)
    BY <2>3 DEF Pos, c
  <2>7. ch[pivot][j + 1] = k
    BY <1>1, <1>5, SoundNow DEF k
  <2>8. Filed(m2, ch2, D)
    <3>1. ASSUME NEW b \in 0..(c - 1), NEW x \in Range(ch2[b]) PROVE Pos(m2, x) = b \/ b \in D
      <4>1. x \in Range(ch[b]) \/ (b = t /\ x = k)
        BY <1>10, <2>5, <3>1 DEF ShorterBy, LongerBy
      <4>2. x \in Keys
        BY <1>1, <1>5, <4>1 DEF Sound
      <4>3. x \in Range(ch[b]) => Pos(m, x) = b \/ b \in D
        BY DEF Passing, Filed, c
      <4> QED  BY <2>6, <4>1, <4>2, <4>3 DEF t, k
    <3>2. ASSUME NEW x \in DOMAIN nx2 PROVE \E b \in 0..(c - 1) : x \in Range(ch2[b])
      <4>1. PICK b \in 0..(c - 1) : x \in Range(ch[b])
        BY <2>5, <3>2 DEF Passing, Filed, c
      <4>2. CASE x = k
        <5>1. x \in Range(ch2[t])
          BY <2>5, <4>2 DEF LongerBy
        <5> QED  BY <1>7, <5>1
      <4>3. CASE x # k
        BY <2>5, <2>7, <4>1, <4>3 DEF ShorterBy, LongerBy
      <4> QED  BY <4>2, <4>3
    <3> QED  BY <2>3, <2>5, <3>1, <3>2 DEF Filed, m2
  <2>9. Alike(m2, m0)
    BY <1>1, <2>3, <2>5 DEF Alike, c
  <2>10. j \in 0..Len(ch2[pivot]) /\ Len(ch2[pivot]) - j = Len(ch[pivot]) - j - 1
    <3>1. Len(ch2[pivot]) = Len(ch[pivot]) - 1
      BY <2>5 DEF ShorterBy
    <3> QED  BY <1>3, <1>4, <1>5, <3>1, SMT
  <2>11. \A i \in Nat : i <= j => Item(ch2[pivot], i) = Item(ch[pivot], i)
    <3>1. \A i \in Nat : i <= j => i < j + 1
      BY <1>4, SMT
    <3> QED  BY <2>5, <3>1 DEF ShorterBy, CutAt
  <2>12. Item(ch2[pivot], j + 1) = after
    <3>1. ~(j + 1 < j + 1)
      BY <1>4, SMT
    <3> QED  BY <1>4, <2>5, <3>1 DEF ShorterBy, CutAt
  <2>13. Relink(s, pivot) = LoopAt(m2, Item(ch2[pivot], j), Item(ch2[pivot], j + 1))
    <3>1. Item(ch2[pivot], j) = prev
      BY <1>4, <2>11, SMT
    <3> QED  BY <1>8, <1>10, <2>1, <2>12, <3>1 DEF k
  <2>14. ASSUME NEW i \in Nat, i <= j, Item(ch2[pivot], i) # Null
         PROVE  Pos(m2, Item(ch2[pivot], i)) = pivot
    <3>1. Item(ch2[pivot], i) = Item(ch[pivot], i) /\ Item(ch[pivot], i) \in Keys
      BY <1>3, <2>11, <2>14
    <3> QED  BY <2>6, <2>14, <3>1 DEF Passing
  <2>15. Passing(m0, pivot, D, Relink(s, pivot), m2, ch2, j)
    BY <2>8, <2>9, <2>10, <2>13, <2>14 DEF Passing
  <2> QED  BY <2>10, <2>15
<1> QED  BY <1>9, <1>10

\* The passes over one chain: the recursive function of RehashChain exists.
RelinkPass(q, pivot) == IF q.item = Null THEN q ELSE Relink(q, pivot)
FirstPass(m, pivot) == LoopAt(m, Null, m.pool[pivot])
PassesOf(f, N, m, pivot) ==
  f = [n \in 0..N |-> IF n = 0 THEN FirstPass(m, pivot) ELSE RelinkPass(f[n - 1], pivot)]

\* The passes of the relink loop are a function: each is defined by the one before.
LEMMA PassesExist ==
  ASSUME NEW m, NEW pivot, NEW most \in Nat
  PROVE  \E f : PassesOf(f, most, m, pivot)
<1> DEFINE S == {N \in Nat : \E f : PassesOf(f, N, m, pivot)}
<1>1. 0 \in S
  <2>1. PassesOf([n \in 0..0 |-> FirstPass(m, pivot)], 0, m, pivot)
    BY SMT DEF PassesOf
  <2> QED  BY <2>1
<1>2. ASSUME NEW N \in Nat, N \in S PROVE N + 1 \in S
  <2>1. PICK f : PassesOf(f, N, m, pivot)
    BY <1>2
  <2> DEFINE g == [n \in 0..(N + 1) |-> IF n = N + 1 THEN RelinkPass(f[N], pivot) ELSE f[n]]
  <2>2. ASSUME NEW n \in 0..(N + 1)
        PROVE  g[n] = IF n = 0 THEN FirstPass(m, pivot) ELSE RelinkPass(g[n - 1], pivot)
    <3>1. CASE n = N + 1
      <4>1. n # 0 /\ n - 1 = N /\ N \in 0..(N + 1) /\ N # N + 1
        BY <3>1, SMT
      <4> QED  BY <3>1, <4>1
    <3>2. CASE n # N + 1
      <4>1. n \in 0..N
        BY <3>2, SMT
      <4>2. f[n] = IF n = 0 THEN FirstPass(m, pivot) ELSE RelinkPass(f[n - 1], pivot)
        BY <2>1, <4>1 DEF PassesOf
      <4>3. n # 0 => n - 1 \in 0..(N + 1) /\ n - 1 # N + 1
        BY SMT
      <4> QED  BY <3>2, <4>2, <4>3
    <3> QED  BY <3>1, <3>2
  <2>3. PassesOf(g, N + 1, m, pivot)
    BY <2>2 DEF PassesOf
  <2>4. N + 1 \in Nat
    OBVIOUS
  <2> QED  BY <2>3, <2>4
<1>3. most \in S
  <2> HIDE DEF S
  <2> QED  BY <1>1, <1>2, SetInduction
<1> QED  BY <1>3

\* After the passes over its chain, a bucket has its own items only.
LEMMA RehashChainKeeps ==
  ASSUME NEW m, NEW ch, NEW D, Filed(m, ch, D), NEW pivot \in 0..(m.capacity - 1)
  PROVE  \E ch2 : Filed(RehashChain(m, pivot), ch2, D \ {pivot}) /\ Alike(RehashChain(m, pivot), m)
<1> DEFINE C == Cardinality(Keys)
           f == CHOOSE g : PassesOf(g, C, m, pivot)
<1>1. C \in Nat
  BY KeysAssumption, FS_CardinalityType
<1>2. RehashChain(m, pivot) = f[C].m
  BY DEF RehashChain, PassesOf, FirstPass, LoopAt, RelinkPass
<1>3. PassesOf(f, C, m, pivot)
  BY <1>1, PassesExist
<1> HIDE DEF f, C
<1>4. f[0] = FirstPass(m, pivot) /\ \A n \in Nat : n + 1 <= C => f[n + 1] = RelinkPass(f[n], pivot)
  <2>1. 0 \in 0..C /\ \A n \in Nat : n + 1 <= C => n + 1 \in 0..C /\ n + 1 # 0 /\ (n + 1) - 1 = n
    BY <1>1, SMT
  <2> QED  BY <1>3, <2>1 DEF PassesOf
<1> DEFINE Reached(n) == \E m2, ch2, j2 : /\ Passing(m, pivot, D, f[n], m2, ch2, j2)
                                          /\ Len(ch2[pivot]) - j2 <= C - n
           T == {n \in Nat : n <= C => Reached(n)}
<1>5. Reached(0)
  <2>1. /\ m.capacity \in Nat /\ ch[pivot] \in Seq(Keys) /\ Len(ch[pivot]) \in Nat
        /\ Distinct(ch[pivot]) /\ m.pool[pivot] = Item(ch[pivot], 1)
    BY SoundNow DEF Filed, Sound
  <2>2. Len(ch[pivot]) <= C
    BY <2>1, KeysAssumption, ChainFits DEF Distinct, C
  <2>3. 0 \in 0..Len(ch[pivot]) /\ Len(ch[pivot]) - 0 <= C - 0 /\ 0 + 1 = 1 /\ 0 \notin 1..Len(ch[pivot])
        /\ \A i \in Nat : i <= 0 => i = 0
    BY <1>1, <2>1, <2>2, SMT
  <2>4. Item(ch[pivot], 0) = Null
    BY <2>3 DEF Item
  <2>5. f[0] = LoopAt(m, Item(ch[pivot], 0), Item(ch[pivot], 0 + 1))
    BY <1>4, <2>1, <2>3, <2>4 DEF FirstPass
  <2>6. Passing(m, pivot, D, f[0], m, ch, 0)
    BY <2>3, <2>4, <2>5 DEF Passing, Alike
  <2> QED  BY <2>3, <2>6
<1>6. ASSUME NEW n \in Nat, n + 1 <= C, Reached(n) PROVE Reached(n + 1)
  <2>1. PICK m2, ch2, j2 : Passing(m, pivot, D, f[n], m2, ch2, j2) /\ Len(ch2[pivot]) - j2 <= C - n
    BY <1>6
  <2>2. f[n + 1] = RelinkPass(f[n], pivot)
    BY <1>4, <1>6
  <2>3. /\ Len(ch2[pivot]) \in Nat /\ j2 \in Nat /\ j2 <= Len(ch2[pivot])
        /\ \A i \in Nat : Item(ch2[pivot], i) # Null <=> i \in 1..Len(ch2[pivot])
    <3>1. Sound(m2.capacity, m2.pool, m2.next, ch2) /\ pivot \in 0..(m2.capacity - 1) /\ j2 \in 0..Len(ch2[pivot])
      BY <2>1 DEF Passing, Filed, Alike
    <3>2. Len(ch2[pivot]) \in Nat /\ \A i \in Nat : Item(ch2[pivot], i) # Null <=> i \in 1..Len(ch2[pivot])
      BY <3>1, SoundNow
    <3> QED  BY <3>1, <3>2, SMT
  <2>4. CASE f[n].item = Null
    <3>1. f[n + 1] = f[n]
      BY <2>2, <2>4 DEF RelinkPass
    <3>2. Item(ch2[pivot], j2 + 1) = Null
      BY <2>1, <2>4 DEF Passing, LoopAt
    <3>3. Len(ch2[pivot]) - j2 <= C - (n + 1)
      <4>1. j2 + 1 \in Nat /\ j2 + 1 \notin 1..Len(ch2[pivot])
        BY <2>3, <3>2
      <4> QED  BY <1>1, <1>6, <2>3, <4>1, SMT
    <3> QED  BY <2>1, <3>1, <3>3
  <2>5. CASE f[n].item # Null
    <3>1. f[n + 1] = Relink(f[n], pivot)
      BY <2>2, <2>5 DEF RelinkPass
    <3>2. PICK m3, ch3, j3 :
            /\ Passing(m, pivot, D, f[n + 1], m3, ch3, j3)
            /\ Len(ch3[pivot]) - j3 = Len(ch2[pivot]) - j2 - 1
      BY <2>1, <2>5, <3>1, RelinkKeeps
    <3>3. Len(ch2[pivot]) - j2 - 1 <= C - (n + 1)
      BY <1>1, <2>1, <2>3, SMT
    <3> QED  BY <3>2, <3>3
  <2> QED  BY <2>4, <2>5
<1>7. Reached(C)
  <2>1. \A n \in Nat : n + 1 <= C => n <= C
    BY <1>1, SMT
  <2>2. 0 \in T /\ \A n \in Nat : n \in T => n + 1 \in T
    <3> HIDE DEF Reached
    <3> QED  BY <1>5, <1>6, <2>1
  <2>3. C \in T /\ C <= C
    <3> HIDE DEF T
    <3> QED  BY <1>1, <2>2, SetInduction
  <2> HIDE DEF Reached
  <2> QED  BY <2>3
<1>8. PICK m2, ch2, j2 : Passing(m, pivot, D, f[C], m2, ch2, j2) /\ Len(ch2[pivot]) - j2 <= C - C
  BY <1>7
<1>9. f[C].m = m2
  BY <1>8 DEF Passing, LoopAt
<1>10. /\ m2.capacity = m.capacity /\ Sound(m2.capacity, m2.pool, m2.next, ch2) /\ pivot \in 0..(m2.capacity - 1)
       /\ j2 \in 0..Len(ch2[pivot])
  BY <1>8 DEF Passing, Filed, Alike
<1>11. ASSUME NEW x \in Range(ch2[pivot]) PROVE Pos(m2, x) = pivot
  <2>1. /\ Len(ch2[pivot]) \in Nat
        /\ \A y \in Keys : y \in Range(ch2[pivot]) <=> \E i \in Nat : Item(ch2[pivot], i) = y
        /\ \A i \in Nat : Item(ch2[pivot], i) # Null <=> i \in 1..Len(ch2[pivot])
    BY <1>10, SoundNow
  <2>2. x \in Keys /\ x # Null
    BY <1>10, KeysAssumption DEF Sound
  <2>3. PICK i \in Nat : Item(ch2[pivot], i) = x
    BY <2>1, <2>2
  <2>4. i \in 1..Len(ch2[pivot])
    BY <2>1, <2>2, <2>3
  <2>5. i <= j2
    BY <1>1, <1>8, <1>10, <2>1, <2>4, SMT
  <2> QED  BY <1>8, <2>2, <2>3, <2>5 DEF Passing
<1>12. Filed(m2, ch2, D \ {pivot}) /\ Alike(m2, m)
  BY <1>8, <1>11 DEF Passing, Filed
<1> QED  BY <1>2, <1>9, <1>12

\* The buckets when their number has doubled, and the loop over those that were there.
WidePool(m) == [b \in 0..(2 * m.capacity - 1) |-> IF b < m.capacity THEN m.pool[b] ELSE Null]
Wide(m) == [m EXCEPT !.capacity = 2 * m.capacity, !.pool = WidePool(m)]
RoundsOf(f, N, m) == f = [b \in 0..N |-> IF b = 0 THEN Wide(m) ELSE RehashChain(f[b - 1], b - 1)]

\* So are the rounds of the rehash.
LEMMA RoundsExist ==
  ASSUME NEW m, NEW most \in Nat
  PROVE  \E f : RoundsOf(f, most, m)
<1> DEFINE S == {N \in Nat : \E f : RoundsOf(f, N, m)}
<1>1. 0 \in S
  <2>1. RoundsOf([n \in 0..0 |-> Wide(m)], 0, m)
    BY SMT DEF RoundsOf
  <2> QED  BY <2>1
<1>2. ASSUME NEW N \in Nat, N \in S PROVE N + 1 \in S
  <2>1. PICK f : RoundsOf(f, N, m)
    BY <1>2
  <2> DEFINE g == [n \in 0..(N + 1) |-> IF n = N + 1 THEN RehashChain(f[N], N) ELSE f[n]]
  <2>2. ASSUME NEW n \in 0..(N + 1)
        PROVE  g[n] = IF n = 0 THEN Wide(m) ELSE RehashChain(g[n - 1], n - 1)
    <3>1. CASE n = N + 1
      <4>1. n # 0 /\ n - 1 = N /\ N \in 0..(N + 1) /\ N # N + 1
        BY <3>1, SMT
      <4> QED  BY <3>1, <4>1
    <3>2. CASE n # N + 1
      <4>1. n \in 0..N
        BY <3>2, SMT
      <4>2. f[n] = IF n = 0 THEN Wide(m) ELSE RehashChain(f[n - 1], n - 1)
        BY <2>1, <4>1 DEF RoundsOf
      <4>3. n # 0 => n - 1 \in 0..(N + 1) /\ n - 1 # N + 1
        BY SMT
      <4> QED  BY <3>2, <4>2, <4>3
    <3> QED  BY <3>1, <3>2
  <2>3. RoundsOf(g, N + 1, m)
    BY <2>2 DEF RoundsOf
  <2>4. N + 1 \in Nat
    OBVIOUS
  <2> QED  BY <2>3, <2>4
<1>3. most \in S
  <2> HIDE DEF S
  <2> QED  BY <1>1, <1>2, SetInduction
<1> QED  BY <1>3

\* The fields of the widened map.
LEMMA WideFields ==
  ASSUME NEW m, m = Fields(m.capacity, m.count, m.pool, m.next, m.val)
  PROVE  /\ Wide(m) = Fields(2 * m.capacity, m.count, WidePool(m), m.next, m.val)
         /\ Wide(m).capacity = 2 * m.capacity /\ Wide(m).count = m.count
         /\ Wide(m).pool = WidePool(m) /\ Wide(m).next = m.next /\ Wide(m).val = m.val
<1> DEFINE c == 2 * m.capacity
           pl == WidePool(m)
           m1 == [m EXCEPT !.capacity = c]
<1>1. m1 = Fields(c, m.count, m.pool, m.next, m.val)
  <2> HIDE DEF c
  <2> QED  BY SMT DEF Fields
<1>2. Wide(m) = [m1 EXCEPT !.pool = pl]
  <2> HIDE DEF c, pl
  <2>1. [m EXCEPT !.capacity = c, !.pool = pl] = [[m EXCEPT !.capacity = c] EXCEPT !.pool = pl]
    BY Zenon
  <2> QED  BY <2>1, Zenon DEF Wide, c, pl
<1>3. [m1 EXCEPT !.pool = pl] = Fields(c, m.count, pl, m.next, m.val)
  <2> HIDE DEF m1, pl, c
  <2> QED  BY <1>1, SMT DEF Fields
<1>4. Wide(m) = Fields(c, m.count, pl, m.next, m.val)
  BY <1>2, <1>3
<1> HIDE DEF c, pl
<1>5. Wide(m).capacity = c /\ Wide(m).count = m.count /\ Wide(m).pool = pl /\ Wide(m).next = m.next /\ Wide(m).val = m.val
  BY <1>4, FieldsAre
<1> QED  BY <1>4, <1>5 DEF c, pl

\* With twice the buckets the items are still in those they were in.
LEMMA WideFiled ==
  ASSUME NEW m, NEW ch, Filed(m, ch, {})
  PROVE  \E ch2 : Filed(Wide(m), ch2, 0..(m.capacity - 1))
<1> DEFINE c == m.capacity
           ch2 == [b \in 0..(2 * c - 1) |-> IF b < c THEN ch[b] ELSE <<>>]
           pl == WidePool(m)
<1>1. m = Fields(c, m.count, m.pool, m.next, m.val) /\ Sound(c, m.pool, m.next, ch) /\ c \in Nat
      /\ Null \notin Keys
  BY KeysAssumption DEF Filed, Sound
<1>2. /\ Wide(m) = Fields(2 * c, m.count, pl, m.next, m.val)
      /\ Wide(m).capacity = 2 * c /\ Wide(m).count = m.count
      /\ Wide(m).pool = pl /\ Wide(m).next = m.next /\ Wide(m).val = m.val
  BY <1>1, WideFields
<1>3. \A b \in 0..(2 * c - 1) : (b < c => b \in 0..(c - 1)) /\ (~(b < c) => b \notin 0..(c - 1))
  BY <1>1, SMT
<1>4. 2 * c \in Nat /\ \A b \in 0..(c - 1) : b \in 0..(2 * c - 1) /\ b < c
  BY <1>1, SMT
<1>5. \A b \in 0..(2 * c - 1) : /\ b < c => ch2[b] = ch[b] /\ pl[b] = m.pool[b]
                                /\ ~(b < c) => ch2[b] = <<>> /\ pl[b] = Null
  BY DEF WidePool
<1>6. pl \in [0..(2 * c - 1) -> Keys \cup {Null}]
  <2>1. \A b \in 0..(2 * c - 1) : pl[b] \in Keys \cup {Null}
    BY <1>1, <1>3, <1>5 DEF Sound
  <2> QED  BY <2>1 DEF WidePool
<1> HIDE DEF ch2, pl
<1>7. Range(<<>>) = {}
  BY DEF Range
<1>8. ASSUME NEW b \in 0..(2 * c - 1) PROVE ChainOf(Keys, m.next, pl[b], ch2[b])
  <2>1. CASE b < c
    BY <1>1, <1>3, <1>5, <2>1 DEF Sound, Threaded
  <2>2. CASE ~(b < c)
    <3>1. ChainOf(Keys, m.next, Null, <<>>)
      BY SMT DEF ChainOf, Distinct, Chained, Item
    <3> QED  BY <1>5, <2>2, <3>1
  <2> QED  BY <2>1, <2>2
<1>9. \A b \in 0..(2 * c - 1) : Range(ch2[b]) # {} => b \in 0..(c - 1) /\ ch2[b] = ch[b]
  BY <1>3, <1>5, <1>7
<1>10. Threaded(2 * c, pl, m.next, ch2)
  <2>1. ASSUME NEW b \in 0..(2 * c - 1), NEW d \in 0..(2 * c - 1), b # d, Range(ch2[b]) \cap Range(ch2[d]) # {}
        PROVE  FALSE
    <3>1. Range(ch2[b]) # {} /\ Range(ch2[d]) # {}
      BY <2>1
    <3>2. b \in 0..(c - 1) /\ d \in 0..(c - 1) /\ ch2[b] = ch[b] /\ ch2[d] = ch[d]
      BY <1>9, <3>1
    <3> QED  BY <1>1, <2>1, <3>2 DEF Sound, Threaded
  <2> QED  BY <1>8, <2>1 DEF Threaded
<1>11. ASSUME NEW b \in 0..(2 * c - 1), NEW x \in Range(ch2[b]) PROVE x \in DOMAIN m.next /\ b \in 0..(c - 1)
  <2>1. b \in 0..(c - 1) /\ ch2[b] = ch[b]
    BY <1>9, <1>11
  <2> QED  BY <1>1, <1>11, <2>1 DEF Sound
<1>12. Sound(2 * c, pl, m.next, ch2)
  BY <1>1, <1>4, <1>6, <1>10, <1>11 DEF Sound
<1>13. ASSUME NEW x \in DOMAIN m.next PROVE \E b \in 0..(2 * c - 1) : x \in Range(ch2[b])
  <2>1. PICK b \in 0..(c - 1) : x \in Range(ch[b])
    BY <1>13 DEF Filed
  <2> QED  BY <1>4, <1>5, <2>1
<1> QED  BY <1>2, <1>11, <1>12, <1>13 DEF Filed

\* A rehash doubles the buckets and puts every item where it belongs; it changes nothing else.
LEMMA RehashKeeps ==
  ASSUME NEW m, NEW ch, Filed(m, ch, {})
  PROVE  /\ \E ch2 : Filed(Rehash(m), ch2, {})
         /\ Rehash(m).capacity = 2 * m.capacity /\ Rehash(m).count = m.count /\ Rehash(m).val = m.val
         /\ DOMAIN Rehash(m).next = DOMAIN m.next
<1> DEFINE c == m.capacity
           f == CHOOSE g : RoundsOf(g, c, m)
<1>1. c \in Nat
  BY DEF Filed, Sound
<1>2. Rehash(m) = f[c]
  BY DEF Rehash, RoundsOf, Wide, WidePool
<1>3. RoundsOf(f, c, m)
  BY <1>1, RoundsExist
<1> HIDE DEF f
<1>4. f[0] = Wide(m) /\ \A n \in Nat : n + 1 <= c => f[n + 1] = RehashChain(f[n], n)
  <2>1. 0 \in 0..c /\ \A n \in Nat : n + 1 <= c => n + 1 \in 0..c /\ n + 1 # 0 /\ (n + 1) - 1 = n
    BY <1>1, SMT
  <2> QED  BY <1>3, <2>1 DEF RoundsOf
<1> DEFINE Reached(n) == /\ Alike(f[n], Wide(m))
                         /\ \E ch2 : Filed(f[n], ch2, n..(c - 1))
           T == {n \in Nat : n <= c => Reached(n)}
<1>5. Wide(m).capacity = 2 * c /\ Wide(m).count = m.count /\ Wide(m).next = m.next /\ Wide(m).val = m.val
  BY WideFields DEF Filed
<1>6. Reached(0)
  BY <1>4, WideFiled DEF Alike
<1>7. ASSUME NEW n \in Nat, n + 1 <= c, Reached(n) PROVE Reached(n + 1)
  <2>1. PICK ch2 : Filed(f[n], ch2, n..(c - 1))
    BY <1>7
  <2>2. n \in 0..(f[n].capacity - 1)
    <3>1. f[n].capacity = 2 * c
      BY <1>5, <1>7 DEF Alike
    <3> QED  BY <1>1, <1>7, <3>1, SMT
  <2>3. PICK ch3 : /\ Filed(RehashChain(f[n], n), ch3, (n..(c - 1)) \ {n})
                   /\ Alike(RehashChain(f[n], n), f[n])
    BY <2>1, <2>2, RehashChainKeeps
  <2>4. f[n + 1] = RehashChain(f[n], n)
    BY <1>4, <1>7
  <2>5. (n..(c - 1)) \ {n} = (n + 1)..(c - 1)
    BY <1>1, SMT
  <2>6. Filed(f[n + 1], ch3, (n + 1)..(c - 1))
    BY <2>3, <2>4, <2>5
  <2>7. Alike(f[n + 1], Wide(m))
    BY <1>7, <2>3, <2>4 DEF Alike
  <2> QED  BY <2>6, <2>7
<1>8. Reached(c)
  <2>1. \A n \in Nat : n + 1 <= c => n <= c
    BY <1>1, SMT
  <2>2. 0 \in T /\ \A n \in Nat : n \in T => n + 1 \in T
    <3> HIDE DEF Reached
    <3> QED  BY <1>6, <1>7, <2>1
  <2>3. c \in T /\ c <= c
    <3>1. c <= c
      BY <1>1, SMT
    <3> HIDE DEF T
    <3> QED  BY <1>1, <2>2, <3>1, SetInduction
  <2> HIDE DEF Reached
  <2> QED  BY <2>3
<1>9. c..(c - 1) = {}
  BY <1>1, SMT
<1>10. PICK ch2 : Filed(f[c], ch2, {})
  BY <1>8, <1>9
<1>11. Alike(f[c], Wide(m))
  BY <1>8
<1> QED  BY <1>2, <1>5, <1>10, <1>11 DEF Alike

-----------------------------------------------------------------------------
(* The calls *)

\* A map that is in use: every item is in the bucket of its hash, and has a value.
MapNow(m, ch) ==
  /\ Filed(m, ch, {}) /\ m.capacity # 0
  /\ m.val \in [DOMAIN m.next -> Vals]
  /\ m.count = Cardinality(DOMAIN m.next)

\* What a walk along a bucket's chain finds.
LEMMA ItemsNow ==
  ASSUME NEW m, NEW ch, NEW D, Filed(m, ch, D), NEW b \in 0..(m.capacity - 1)
  PROVE  ItemsFrom(m, m.pool[b]) = ch[b]
<1>1. /\ ch[b] \in Seq(Keys) /\ Distinct(ch[b]) /\ Chained(m.next, m.pool[b], ch[b])
  BY DEF Filed, Sound, Threaded, ChainOf
<1>2. Len(ch[b]) <= Cardinality(Keys) /\ Cardinality(Keys) \in Nat
  BY <1>1, KeysAssumption, ChainFits, FS_CardinalityType DEF Distinct
<1> QED  BY <1>1, <1>2, WalkVisits DEF ItemsFrom

\* hash_map_get finds the items there are.
LEMMA ChainNow ==
  ASSUME NEW m, NEW ch, MapNow(m, ch), NEW k \in Keys
  PROVE  /\ Pos(m, k) \in 0..(m.capacity - 1)
         /\ Chain(m, k) = ch[Pos(m, k)]
         /\ k \in Range(Chain(m, k)) <=> k \in DOMAIN m.next
<1>1. Filed(m, ch, {}) /\ Sound(m.capacity, m.pool, m.next, ch) /\ m.capacity \in Nat \ {0}
  BY DEF MapNow, Filed, Sound
<1>2. Pos(m, k) \in 0..(m.capacity - 1)
  BY <1>1, PosType
<1>3. Chain(m, k) = ch[Pos(m, k)]
  BY <1>1, <1>2, ItemsNow DEF Chain
<1>4. ASSUME k \in DOMAIN m.next PROVE k \in Range(ch[Pos(m, k)])
  <2>1. PICK b \in 0..(m.capacity - 1) : k \in Range(ch[b])
    BY <1>1, <1>4 DEF Filed
  <2>2. Pos(m, k) = b
    BY <1>1, <2>1 DEF Filed
  <2> QED  BY <2>1, <2>2
<1>5. ASSUME k \in Range(ch[Pos(m, k)]) PROVE k \in DOMAIN m.next
  BY <1>1, <1>2, <1>5 DEF Sound
<1> QED  BY <1>2, <1>3, <1>4, <1>5

\* The fields that an insertion and a deletion store together, and the value of an item.
WithItems(m, n2, x2, v2) == [m EXCEPT !.count = n2, !.next = x2, !.val = v2]
WithValues(m, v2) == [m EXCEPT !.val = v2]

\* A store to the count, the links and the values changes those fields.
LEMMA ItemsPut ==
  ASSUME NEW c, NEW n, NEW p, NEW x, NEW v, NEW m, m = Fields(c, n, p, x, v), NEW n2, NEW x2, NEW v2
  PROVE  WithItems(m, n2, x2, v2) = Fields(c, n2, p, x2, v2) /\ WithValues(m, v2) = Fields(c, n, p, x, v2)
<1> DEFINE m1 == [m EXCEPT !.count = n2]
           m2 == [m1 EXCEPT !.next = x2]
<1>1. m1 = Fields(c, n2, p, x, v) /\ WithValues(m, v2) = Fields(c, n, p, x, v2)
  BY SMT DEF Fields, WithValues
<1>2. WithItems(m, n2, x2, v2) = [m2 EXCEPT !.val = v2]
  BY Zenon DEF WithItems
<1> HIDE DEF m1
<1>3. m2 = Fields(c, n2, p, x2, v)
  BY <1>1, SMT DEF Fields
<1> HIDE DEF m2
<1>4. [m2 EXCEPT !.val = v2] = Fields(c, n2, p, x2, v2)
  BY <1>3, SMT DEF Fields
<1> QED  BY <1>1, <1>2, <1>4

\* An item linked in at the end of its chain, or its value replaced.
LEMMA LinkItemKeeps ==
  ASSUME NEW m, NEW ch, MapNow(m, ch), NEW k \in Keys, NEW v \in Vals
  PROVE  /\ \E ch2 : MapNow(LinkItem(m, k, v), ch2)
         /\ LinkItem(m, k, v).capacity = m.capacity
         /\ DOMAIN LinkItem(m, k, v).next = DOMAIN m.next \cup {k}
         /\ LinkItem(m, k, v).val = Bind(m.val, k, v)
<1> DEFINE c == m.capacity
           b == Pos(m, k)
           s == ch[b]
           m2 == LinkItem(m, k, v)
<1>1. /\ m = Fields(c, m.count, m.pool, m.next, m.val) /\ Sound(c, m.pool, m.next, ch) /\ c \in Nat /\ c # 0
      /\ Null \notin Keys /\ b \in 0..(c - 1) /\ Chain(m, k) = s
      /\ m.val \in [DOMAIN m.next -> Vals] /\ m.count = Cardinality(DOMAIN m.next)
      /\ k \in Range(s) <=> k \in DOMAIN m.next
  BY ChainNow, KeysAssumption DEF MapNow, Filed, Sound
<1>2. IsFiniteSet(DOMAIN m.next)
  BY <1>1, KeysAssumption, FS_Subset DEF Sound
<1>3. s \in Seq(Keys) /\ Len(s) \in Nat /\ \A i \in Nat : Item(s, i) # Null <=> i \in 1..Len(s)
  BY <1>1, SoundNow
<1>4. CASE k \in DOMAIN m.next
  <2> DEFINE v2 == [m.val EXCEPT ![k] = v]
  <2>1. m2 = WithValues(m, v2)
    BY <1>1, <1>4 DEF LinkItem, WithValues
  <2>2. v2 = Bind(m.val, k, v) /\ v2 \in [DOMAIN m.next -> Vals]
    BY <1>1, <1>4 DEF Bind
  <2> HIDE DEF v2, m2
  <2>3. m2 = Fields(c, m.count, m.pool, m.next, v2)
    BY <1>1, <2>1, ItemsPut
  <2>4. m2.capacity = c /\ m2.count = m.count /\ m2.pool = m.pool /\ m2.next = m.next /\ m2.val = v2
    BY <2>3, FieldsAre
  <2>5. MapNow(m2, ch)
    BY <1>1, <2>2, <2>3, <2>4 DEF MapNow, Filed, Pos
  <2>6. DOMAIN m.next = DOMAIN m.next \cup {k}
    BY <1>4
  <2> QED  BY <2>2, <2>4, <2>5, <2>6 DEF m2
<1>5. CASE k \notin DOMAIN m.next
  <2> DEFINE prev == Item(s, Len(s))
             pool2 == HeadSet(m.pool, b, prev, k)
             nx1 == LinkSet(m.next, prev, k)
             nx2 == Bind(nx1, k, Null)
             v2 == Bind(m.val, k, v)
             ch2 == [d \in 0..(c - 1) |-> IF d = b THEN InsertAt(s, Len(s) + 1, k) ELSE ch[d]]
  <2>1. (IF s = <<>> THEN Null ELSE Last(s)) = prev
    <3>1. CASE s = <<>>
      <4>1. Len(s) = 0 /\ 0 \notin 1..0
        BY <3>1, SMT
      <4> QED  BY <3>1, <4>1 DEF Item
    <3>2. CASE s # <<>>
      <4>1. Len(s) \in 1..Len(s)
        BY <1>3, <3>2, SMT
      <4> QED  BY <3>2, <4>1 DEF Item, Last
    <3> QED  BY <3>1, <3>2
  <2>2. SetNext(m, b, prev, k) = Fields(c, m.count, pool2, nx1, m.val)
    <3> HIDE DEF c, b, prev, pool2, nx1
    <3>1. SetNext(Fields(c, m.count, m.pool, m.next, m.val), b, prev, k)
            = Fields(c, m.count, HeadSet(m.pool, b, prev, k), LinkSet(m.next, prev, k), m.val)
      BY SetNextFields
    <3> QED  BY <1>1, <3>1 DEF pool2, nx1
  <2>3. m2 = WithItems(SetNext(m, b, prev, k), m.count + 1, nx2, v2)
    <3> DEFINE m1 == SetNext(m, b, prev, k)
    <3>1. m1.count = m.count /\ m1.next = nx1 /\ m1.val = m.val
      <4> HIDE DEF m1, pool2, nx1
      <4> QED  BY <2>2, FieldsAre DEF m1
    <3>2. m2 = [m1 EXCEPT !.count = m1.count + 1, !.next = Bind(m1.next, k, Null), !.val = Bind(m1.val, k, v)]
      <4>1. ~(k \in Range(Chain(m, k)))
        BY <1>1, <1>5
      <4>2. Chain(m, k) = s
        BY <1>1
      <4> HIDE DEF s, b, prev
      <4> QED  BY <2>1, <4>1, <4>2, Zenon DEF LinkItem, b
    <3>3. m2 = WithItems(m1, m.count + 1, nx2, v2)
      <4> HIDE DEF m1, nx1, m2, prev, pool2, b, s, ch2
      <4> QED  BY <3>1, <3>2, Zenon DEF WithItems
    <3> QED  BY <3>3
  <2> HIDE DEF m2
  <2>4. m2 = Fields(c, m.count + 1, pool2, nx2, v2)
    <3> HIDE DEF pool2, nx1, nx2, v2
    <3> QED  BY <2>2, <2>3, ItemsPut
  <2>5. m2.capacity = c /\ m2.count = m.count + 1 /\ m2.pool = pool2 /\ m2.next = nx2 /\ m2.val = v2
    <3> HIDE DEF pool2, nx2, v2
    <3> QED  BY <2>4, FieldsAre
  <2>6. PutStores(m.pool, m.next, b, s, Len(s), k, pool2, nx2) /\ Len(s) \in 0..Len(s)
        /\ DOMAIN nx2 = DOMAIN m.next \cup {k}
    <3>1. Len(s) \in 0..Len(s) /\ Len(s) + 1 \notin 1..Len(s) /\ Len(s) \in Nat /\ Len(s) + 1 \in Nat
      BY <1>3, SMT
    <3>2. Item(s, Len(s) + 1) = Null
      BY <1>3, <3>1
    <3>3. m.next \in [DOMAIN m.next -> Keys \cup {Null}]
      BY <1>1 DEF Sound
    <3>4. nx1 \in [DOMAIN m.next -> Keys \cup {Null}]
      <4> HIDE DEF prev
      <4> QED  BY <3>3 DEF LinkSet
    <3> HIDE DEF nx1
    <3>5. nx2 \in [DOMAIN m.next \cup {k} -> Keys \cup {Null}] /\ nx2[k] = Null /\ \A y \in DOMAIN m.next \ {k} : nx2[y] = nx1[y]
      BY <3>4 DEF Bind
    <3>6. DOMAIN nx2 = DOMAIN m.next \cup {k} /\ nx2 \in [DOMAIN nx2 -> Keys \cup {Null}]
      BY <3>5
    <3> HIDE DEF nx2
    <3>7. \A y \in DOMAIN m.next \ {k} : nx2[y] = LinkSet(m.next, Item(s, Len(s)), k)[y]
      BY <3>5 DEF nx1
    <3> HIDE DEF s, b
    <3> QED  BY <3>1, <3>2, <3>5, <3>6, <3>7 DEF PutStores
  <2>7. PutInto(c, m.pool, m.next, ch, b, Len(s), k, pool2, nx2, ch2)
    <3>1. ch2[b] = InsertAt(ch[b], Len(ch[b]) + 1, k)
      BY <1>1
    <3>2. \A d \in 0..(c - 1) : d # b => ch2[d] = ch[d]
      OBVIOUS
    <3> HIDE DEF pool2, nx2, ch2
    <3> QED  BY <2>6, <3>1, <3>2 DEF PutInto, Elsewhere
  <2>8. \A d \in 0..(c - 1) : k \notin Range(ch[d])
    BY <1>1, <1>5 DEF Sound
  <2>9. Sound(c, pool2, nx2, ch2) /\ LongerBy(ch[b], Len(s), k, ch2[b])
    <3> HIDE DEF pool2, nx2, ch2, b, c
    <3> QED  BY <1>1, <2>6, <2>7, <2>8, SoundPut
  <2> DEFINE E == DOMAIN m.next \cup {k}
  <2>10. Elsewhere(c, ch, b, ch2)
    BY <2>7 DEF PutInto
  <2>11. v2 \in [DOMAIN nx2 -> Vals]
    <3>1. v2 \in [E -> Vals]
      BY <1>1 DEF Bind
    <3> QED  BY <2>6, <3>1
  <2>12. m.count + 1 = Cardinality(DOMAIN nx2)
    BY <1>1, <1>2, <1>5, <2>6, FS_AddElement
  <2> HIDE DEF pool2, nx2, nx1, v2, ch2
  <2>13. Filed(m2, ch2, {})
    <3>1. ASSUME NEW d \in 0..(c - 1), NEW x \in Range(ch2[d]) PROVE Pos(m2, x) = d
      <4>1. x \in Range(ch[d]) \/ (d = b /\ x = k)
        BY <2>9, <2>10, <3>1 DEF LongerBy, Elsewhere
      <4>2. Pos(m2, x) = Pos(m, x)
        BY <2>5 DEF Pos
      <4> QED  BY <4>1, <4>2 DEF MapNow, Filed
    <3>2. ASSUME NEW x \in DOMAIN nx2 PROVE \E d \in 0..(c - 1) : x \in Range(ch2[d])
      <4>1. CASE x = k
        BY <1>1, <2>9, <4>1 DEF LongerBy
      <4>2. CASE x # k
        <5>1. PICK d \in 0..(c - 1) : x \in Range(ch[d])
          BY <2>6, <3>2, <4>2 DEF MapNow, Filed
        <5> QED  BY <2>9, <2>10, <5>1 DEF LongerBy, Elsewhere
      <4> QED  BY <4>1, <4>2
    <3> QED  BY <2>4, <2>5, <2>9, <3>1, <3>2 DEF Filed
  <2>14. MapNow(m2, ch2)
    BY <1>1, <2>5, <2>11, <2>12, <2>13 DEF MapNow
  <2> QED  BY <2>5, <2>6, <2>14 DEF m2, v2
<1> QED  BY <1>4, <1>5

\* hash_map_insert binds the key, after a rehash or without one.
LEMMA InsertKeeps ==
  ASSUME NEW m, NEW ch, MapNow(m, ch), NEW k \in Keys, NEW v \in Vals
  PROVE  /\ \E ch2 : MapNow(Insert(m, k, v), ch2)
         /\ DOMAIN Insert(m, k, v).next = DOMAIN m.next \cup {k}
         /\ Insert(m, k, v).val = Bind(m.val, k, v)
<1> DEFINE m1 == IF Dense(m) THEN Rehash(m) ELSE m
<1>1. /\ \E ch1 : MapNow(m1, ch1)
      /\ DOMAIN m1.next = DOMAIN m.next /\ m1.val = m.val
  <2>1. CASE Dense(m)
    <3>1. Filed(m, ch, {}) /\ m.capacity \in Nat /\ m.capacity # 0
      BY DEF MapNow, Filed, Sound
    <3>2. /\ m1.capacity = 2 * m.capacity /\ m1.count = m.count /\ m1.val = m.val
          /\ DOMAIN m1.next = DOMAIN m.next
      BY <2>1, <3>1, RehashKeeps
    <3>3. PICK ch1 : Filed(m1, ch1, {})
      BY <2>1, <3>1, RehashKeeps
    <3>4. 2 * m.capacity # 0
      BY <3>1, SMT
    <3> HIDE DEF m1
    <3>5. MapNow(m1, ch1)
      BY <3>2, <3>3, <3>4 DEF MapNow
    <3> QED  BY <3>2, <3>5
  <2>2. CASE ~Dense(m)
    BY <2>2
  <2> QED  BY <2>1, <2>2
<1>2. Insert(m, k, v) = LinkItem(m1, k, v)
  BY DEF Insert
<1> HIDE DEF m1
<1>3. PICK ch1 : MapNow(m1, ch1)
  BY <1>1
<1>4. \E ch2 : MapNow(LinkItem(m1, k, v), ch2)
  BY <1>3, LinkItemKeeps
<1>5. DOMAIN LinkItem(m1, k, v).next = DOMAIN m1.next \cup {k} /\ LinkItem(m1, k, v).val = Bind(m1.val, k, v)
  BY <1>3, LinkItemKeeps
<1> QED  BY <1>1, <1>2, <1>4, <1>5

\* What a deletion makes of the chains: one of them is shorter by the item.
DeletedFrom(cap, ch, k, ch2) ==
  \E b \in 0..(cap - 1) : \E at \in 1..Len(ch[b]) :
    ch[b][at] = k /\ ShorterBy(ch[b], at, ch2[b]) /\ Elsewhere(cap, ch, b, ch2)

\* hash_map_delete unlinks the item of the key, and frees it.
LEMMA DeleteKeeps ==
  ASSUME NEW m, NEW ch, MapNow(m, ch), NEW k \in DOMAIN m.next
  PROVE  /\ \E ch2 : MapNow(Delete(m, k), ch2) /\ DeletedFrom(m.capacity, ch, k, ch2)
         /\ Delete(m, k).capacity = m.capacity
         /\ DOMAIN Delete(m, k).next = DOMAIN m.next \ {k}
         /\ Delete(m, k).val = Restrict(m.val, DOMAIN m.val \ {k})
<1> DEFINE c == m.capacity
           b == Pos(m, k)
           s == ch[b]
           m2 == Delete(m, k)
           at == CHOOSE n \in DOMAIN Chain(m, k) : Chain(m, k)[n] = k
           prev == Item(s, at - 1)
           after == Item(s, at + 1)
           pool2 == HeadSet(m.pool, b, prev, after)
           nx1 == LinkSet(m.next, prev, after)
           nx2 == Restrict(nx1, DOMAIN nx1 \ {k})
           v2 == Restrict(m.val, DOMAIN m.val \ {k})
           ch2 == [d \in 0..(c - 1) |-> IF d = b THEN RemoveAt(s, at) ELSE ch[d]]
<1>1. k \in Keys
  BY DEF MapNow, Filed, Sound
<1>2. /\ m = Fields(c, m.count, m.pool, m.next, m.val) /\ Sound(c, m.pool, m.next, ch) /\ c \in Nat /\ c # 0
      /\ Null \notin Keys /\ b \in 0..(c - 1) /\ Chain(m, k) = s
      /\ m.val \in [DOMAIN m.next -> Vals] /\ m.count = Cardinality(DOMAIN m.next)
      /\ k \in Range(s)
  BY <1>1, ChainNow, KeysAssumption DEF MapNow, Filed, Sound
<1>3. IsFiniteSet(DOMAIN m.next)
  BY <1>2, KeysAssumption, FS_Subset DEF Sound
<1>4. /\ s \in Seq(Keys) /\ Len(s) \in Nat /\ DOMAIN s = 1..Len(s)
      /\ ItemsChained(Keys, m.next, m.pool[b], s)
      /\ \A i \in Nat : Item(s, i) \in Keys \cup {Null} /\ (Item(s, i) # Null <=> i \in 1..Len(s))
      /\ \A i \in 1..Len(s) : i \in Nat /\ s[i] = Item(s, i)
  BY <1>2, SoundNow
<1>5. at \in 1..Len(s) /\ s[at] = k
  <2>1. \E n \in DOMAIN s : s[n] = k
    BY <1>2 DEF Range
  <2>2. at = CHOOSE n \in DOMAIN s : s[n] = k
    <3> HIDE DEF s
    <3> QED  BY <1>2, Zenon
  <2> HIDE DEF at
  <2> QED  BY <1>4, <2>1, <2>2
<1> HIDE DEF at
<1>6. /\ at \in Nat /\ at - 1 \in Nat /\ at + 1 \in Nat /\ (at = 1 <=> at - 1 \notin 1..Len(s))
      /\ (at # 1 => at - 1 \in 1..Len(s))
  BY <1>4, <1>5, SMT
<1>7. (IF at = 1 THEN Null ELSE s[at - 1]) = prev /\ m.next[k] = after
  <2>1. at = 1 => prev = Null
    BY <1>6 DEF Item
  <2>2. at # 1 => prev = s[at - 1]
    BY <1>6 DEF Item
  <2>3. m.next[k] = after
    BY <1>4, <1>5, <1>6 DEF ItemsChained
  <2> HIDE DEF prev
  <2> QED  BY <2>1, <2>2, <2>3
<1>8. SetNext(m, b, prev, after) = Fields(c, m.count, pool2, nx1, m.val)
  <2> HIDE DEF c, b, prev, after, pool2, nx1
  <2>1. SetNext(Fields(c, m.count, m.pool, m.next, m.val), b, prev, after)
          = Fields(c, m.count, HeadSet(m.pool, b, prev, after), LinkSet(m.next, prev, after), m.val)
    BY SetNextFields
  <2> QED  BY <1>2, <2>1 DEF pool2, nx1
<1>9. m2 = WithItems(SetNext(m, b, prev, after), m.count - 1, nx2, v2)
  <2> DEFINE m1 == SetNext(m, b, prev, after)
  <2>1. m1.count = m.count /\ m1.next = nx1 /\ m1.val = m.val
    <3> HIDE DEF m1, pool2, nx1
    <3> QED  BY <1>8, FieldsAre DEF m1
  <2>2. m2 = [m1 EXCEPT !.count = m1.count - 1, !.next = Restrict(m1.next, DOMAIN m1.next \ {k}),
                        !.val = Restrict(m1.val, DOMAIN m1.val \ {k})]
    <3> DEFINE prev0 == IF at = 1 THEN Null ELSE Chain(m, k)[at - 1]
               m0 == SetNext(m, Pos(m, k), prev0, m.next[k])
    <3>1. k \in Range(Chain(m, k)) /\ Chain(m, k) = s
      BY <1>2
    <3>2. m2 = [m0 EXCEPT !.count = m0.count - 1, !.next = Restrict(m0.next, DOMAIN m0.next \ {k}),
                          !.val = Restrict(m0.val, DOMAIN m0.val \ {k})]
      BY <3>1, Zenon DEF Delete, at
    <3>3. m0 = m1
      <4>1. prev0 = prev
        <5> HIDE DEF s, prev
        <5> QED  BY <1>7, <3>1, Zenon
      <4> HIDE DEF prev0, prev, after
      <4> QED  BY <1>7, <4>1, Zenon
    <3> HIDE DEF m0, m1, m2
    <3> QED  BY <3>2, <3>3, Zenon
  <2>3. m2 = WithItems(m1, m.count - 1, nx2, v2)
    <3> HIDE DEF m1, nx1, m2, prev, after, pool2, b, s, ch2
    <3> QED  BY <2>1, <2>2, Zenon DEF WithItems
  <2> QED  BY <2>3
<1> HIDE DEF m2
<1>10. m2 = Fields(c, m.count - 1, pool2, nx2, v2)
  <2> HIDE DEF pool2, nx1, nx2, v2, prev, after
  <2> QED  BY <1>8, <1>9, ItemsPut
<1>11. m2.capacity = c /\ m2.count = m.count - 1 /\ m2.pool = pool2 /\ m2.next = nx2 /\ m2.val = v2
  <2> HIDE DEF pool2, nx2, v2
  <2> QED  BY <1>10, FieldsAre
<1>12. CutStores(m.pool, m.next, b, s, at, pool2, nx2) /\ DOMAIN nx2 = DOMAIN m.next \ {k}
  <2>1. m.next \in [DOMAIN m.next -> Keys \cup {Null}]
    BY <1>2 DEF Sound
  <2>2. after \in Keys \cup {Null}
    BY <1>4, <1>6
  <2>3. nx1 \in [DOMAIN m.next -> Keys \cup {Null}]
    <3> HIDE DEF prev, after
    <3> QED  BY <2>1, <2>2 DEF LinkSet
  <2>4. DOMAIN nx1 = DOMAIN m.next
    BY <2>3
  <2> HIDE DEF nx1
  <2>5. /\ nx2 \in [DOMAIN m.next \ {k} -> Keys \cup {Null}]
        /\ \A y \in DOMAIN m.next \ {k} : nx2[y] = nx1[y]
    BY <2>3, <2>4 DEF Restrict
  <2>6. DOMAIN nx2 = DOMAIN m.next \ {k} /\ nx2 \in [DOMAIN nx2 -> Keys \cup {Null}]
    BY <2>5
  <2> HIDE DEF nx2
  <2>7. /\ DOMAIN nx2 \subseteq DOMAIN m.next /\ DOMAIN m.next \ {s[at]} \subseteq DOMAIN nx2
        /\ \A y \in DOMAIN m.next \ {s[at]} : nx2[y] = nx1[y]
    BY <1>5, <2>5, <2>6
  <2>8. \A y \in DOMAIN m.next \ {s[at]} : nx2[y] = LinkSet(m.next, Item(s, at - 1), Item(s, at + 1))[y]
    BY <2>7 DEF nx1
  <2> HIDE DEF s, b
  <2> QED  BY <2>6, <2>7, <2>8 DEF CutStores
<1>13. CutFrom(c, m.pool, m.next, ch, b, at, pool2, nx2, ch2)
  <2>1. ch2[b] = RemoveAt(ch[b], at)
    BY <1>2
  <2>2. \A d \in 0..(c - 1) : d # b => ch2[d] = ch[d]
    OBVIOUS
  <2> HIDE DEF pool2, nx2, ch2
  <2> QED  BY <1>12, <2>1, <2>2 DEF CutFrom, Elsewhere
<1>14. Sound(c, pool2, nx2, ch2) /\ ShorterBy(ch[b], at, ch2[b])
  <2> HIDE DEF pool2, nx2, ch2, b, c
  <2> QED  BY <1>2, <1>5, <1>13, SoundCut
<1>15. Elsewhere(c, ch, b, ch2)
  BY <1>13 DEF CutFrom
<1> DEFINE E == DOMAIN m.next \ {k}
<1>16. v2 \in [DOMAIN nx2 -> Vals]
  <2>1. DOMAIN m.val = DOMAIN m.next
    BY <1>2
  <2>2. v2 \in [E -> Vals]
    BY <1>2, <2>1 DEF Restrict
  <2> QED  BY <1>12, <2>2
<1>17. m.count - 1 = Cardinality(DOMAIN nx2)
  BY <1>2, <1>3, <1>12, FS_RemoveElement
<1> HIDE DEF pool2, nx2, nx1, v2, ch2
<1>18. Filed(m2, ch2, {})
  <2>1. ASSUME NEW d \in 0..(c - 1), NEW x \in Range(ch2[d]) PROVE Pos(m2, x) = d
    <3>1. x \in Range(ch[d])
      BY <1>14, <1>15, <2>1 DEF ShorterBy, Elsewhere
    <3>2. Pos(m2, x) = Pos(m, x)
      BY <1>11 DEF Pos
    <3> QED  BY <3>1, <3>2 DEF MapNow, Filed
  <2>2. ASSUME NEW x \in DOMAIN nx2 PROVE \E d \in 0..(c - 1) : x \in Range(ch2[d])
    <3>1. PICK d \in 0..(c - 1) : x \in Range(ch[d])
      BY <1>12, <2>2 DEF MapNow, Filed
    <3>2. x # k
      BY <1>12, <2>2
    <3> QED  BY <1>5, <1>14, <1>15, <3>1, <3>2 DEF ShorterBy, Elsewhere
  <2> QED  BY <1>10, <1>11, <1>14, <2>1, <2>2 DEF Filed
<1>19. MapNow(m2, ch2)
  BY <1>2, <1>11, <1>16, <1>17, <1>18 DEF MapNow
<1>20. DeletedFrom(c, ch, k, ch2)
  BY <1>2, <1>5, <1>14, <1>15 DEF DeletedFrom
<1> QED  BY <1>11, <1>12, <1>19, <1>20 DEF m2, v2

-----------------------------------------------------------------------------
(* The iterator *)

\* The items ahead of an iterator: from the n-th of bucket b on, and all in the buckets
\* from pos on.
Ahead(cap, ch, b, n, pos) ==
  {k \in Keys : \/ \E j \in Nat : j >= n /\ Item(ch[b], j) = k
                \/ \E c \in pos..(cap - 1) : k \in Range(ch[c])}

\* An iterator that is at the n-th item of bucket b, or at none.
StandsAt(m, i, d, ch, b, n) ==
  /\ i.pos \in 0..m.capacity /\ i.cur \in Keys \cup {Null}
  /\ i.item = Item(ch[b], n) /\ (b < i.pos \/ i.item = Null)
  /\ d = Ahead(m.capacity, ch, b, n, i.pos)

IterNow(m, i, d, ch) ==
  \/ i = NoIt /\ d = {}
  \/ /\ i = [item |-> i.item, pos |-> i.pos, cur |-> i.cur]
     /\ \E b \in 0..(m.capacity - 1) : \E n \in Nat \ {0} : StandsAt(m, i, d, ch, b, n)

\* The inductive invariant: a map in use is chained soundly, and its iterator, if there is
\* one, holds the item that follows, with all that were not handed out ahead of it.
HashNow(m, i, d) ==
  /\ m.capacity \in Nat
  /\ \/ m.capacity = 0 /\ m = Fields(0, m.count, m.pool, m.next, m.val) /\ i = NoIt /\ d = {}
     \/ \E ch : MapNow(m, ch) /\ IterNow(m, i, d, ch)

HashInv == HashNow(map, it, due)

\* "none" is not a key, and so an iterator that has handed out a key is none at rest.
LEMMA AtRest ==
  ASSUME NEW m, NEW i, NEW d, NEW ch, IterNow(m, i, d, ch)
  PROVE  (i = NoIt <=> i.cur = "none") /\ (i = NoIt => d = {})
<1>1. NoIt.cur = "none"
  BY DEF NoIt
<1> QED  BY <1>1, KeysAssumption DEF IterNow, StandsAt

\* The empty map.
LEMMA EmptyNow ==
  \E ch : MapNow(EmptyMap, ch)
<1> DEFINE m == EmptyMap
           ch == [b \in 0..(BaseSize - 1) |-> <<>>]
<1>1. m = Fields(BaseSize, 0, [b \in 0..(BaseSize - 1) |-> Null], <<>>, <<>>)
  BY DEF EmptyMap, Fields
<1>2. m.capacity = BaseSize /\ m.count = 0 /\ m.pool = [b \in 0..(BaseSize - 1) |-> Null]
      /\ m.next = <<>> /\ m.val = <<>>
  BY <1>1, FieldsAre
<1> HIDE DEF m
<1>3. DOMAIN <<>> = {} /\ Range(<<>>) = {}
  BY DEF Range
<1>4. <<>> \in [{} -> Keys \cup {Null}] /\ <<>> \in [{} -> Vals]
  <2>1. 1..0 = {}
    BY SMT
  <2>2. <<>> \in [1..0 -> Keys \cup {Null}] /\ <<>> \in [1..0 -> Vals]
    OBVIOUS
  <2> QED  BY <2>1, <2>2
<1>5. ChainOf(Keys, <<>>, Null, <<>>)
  BY SMT DEF ChainOf, Distinct, Chained, Item
<1>6. Threaded(BaseSize, [b \in 0..(BaseSize - 1) |-> Null], <<>>, ch)
  BY <1>3, <1>5 DEF Threaded
<1>7. Sound(BaseSize, [b \in 0..(BaseSize - 1) |-> Null], <<>>, ch)
  BY <1>3, <1>4, <1>6, BaseSizeAssumption DEF Sound
<1>8. Filed(m, ch, {})
  BY <1>1, <1>2, <1>3, <1>7 DEF Filed
<1>9. Cardinality(DOMAIN <<>>) = 0
  BY <1>3, FS_EmptySet
<1>10. MapNow(m, ch)
  BY <1>2, <1>3, <1>4, <1>8, <1>9, BaseSizeAssumption DEF MapNow
<1> QED  BY <1>10 DEF m

\* A deletion of what is not ahead of the iterator leaves it at the same item.
LEMMA DeleteIter ==
  ASSUME NEW m, NEW ch, MapNow(m, ch), NEW i, NEW d, IterNow(m, i, d, ch), NEW k \in Keys, k \notin d,
         NEW m2, NEW ch2, m2.capacity = m.capacity, DeletedFrom(m.capacity, ch, k, ch2)
  PROVE  IterNow(m2, i, d, ch2)
<1> DEFINE cap == m.capacity
<1>1. Sound(cap, m.pool, m.next, ch) /\ cap \in Nat
  BY DEF MapNow, Filed, Sound
<1>2. CASE i = NoIt /\ d = {}
  BY <1>2 DEF IterNow
<1>3. CASE /\ i = [item |-> i.item, pos |-> i.pos, cur |-> i.cur]
           /\ \E b \in 0..(cap - 1) : \E n \in Nat \ {0} : StandsAt(m, i, d, ch, b, n)
  <2>1. PICK b \in 0..(cap - 1), n \in Nat \ {0} : StandsAt(m, i, d, ch, b, n)
    BY <1>3
  <2>2. PICK e \in 0..(cap - 1) : \E at \in 1..Len(ch[e]) :
          ch[e][at] = k /\ ShorterBy(ch[e], at, ch2[e]) /\ Elsewhere(cap, ch, e, ch2)
    BY DEF DeletedFrom
  <2>3. PICK at \in 1..Len(ch[e]) :
          ch[e][at] = k /\ ShorterBy(ch[e], at, ch2[e]) /\ Elsewhere(cap, ch, e, ch2)
    BY <2>2
  <2>4. at \in Nat \ {0} /\ Item(ch[e], at) = k /\ k \in Range(ch[e])
    <3>1. Len(ch[e]) \in Nat /\ \A j \in 1..Len(ch[e]) : j \in Nat /\ ch[e][j] = Item(ch[e], j) /\ ch[e][j] \in Range(ch[e])
      BY <1>1, SoundNow
    <3> QED  BY <2>3, <3>1, SMT
  <2>5. d = Ahead(cap, ch, b, n, i.pos)
    BY <2>1 DEF StandsAt
  <2>6. e \notin i.pos..(cap - 1) /\ ~(e = b /\ at >= n)
    BY <2>4, <2>5 DEF Ahead
  <2>7. \A c \in i.pos..(cap - 1) : ch2[c] = ch[c]
    <3>1. \A c \in i.pos..(cap - 1) : c \in 0..(cap - 1) /\ c # e
      BY <1>1, <2>1, <2>6, SMT DEF StandsAt
    <3> QED  BY <2>3, <3>1 DEF Elsewhere
  <2>8. CASE e # b
    <3>1. ch2[b] = ch[b]
      BY <2>3, <2>8 DEF Elsewhere
    <3>2. Ahead(cap, ch2, b, n, i.pos) = Ahead(cap, ch, b, n, i.pos)
      BY <2>7, <3>1 DEF Ahead
    <3>3. StandsAt(m2, i, d, ch2, b, n)
      BY <2>1, <2>5, <3>1, <3>2 DEF StandsAt
    <3> QED  BY <1>3, <3>3 DEF IterNow
  <2>9. CASE e = b
    <3>1. at < n /\ n - 1 \in Nat \ {0} /\ ~(n - 1 < at) /\ (n - 1) + 1 = n
      BY <2>4, <2>6, <2>9, SMT
    <3>2. \A j \in Nat : ~(j < at) => Item(ch2[b], j) = Item(ch[b], j + 1)
      BY <2>3, <2>9 DEF ShorterBy, CutAt
    <3>3. Item(ch2[b], n - 1) = Item(ch[b], n)
      BY <3>1, <3>2
    <3>4. ASSUME NEW x PROVE (\E j \in Nat : j >= n - 1 /\ Item(ch2[b], j) = x) <=> (\E j \in Nat : j >= n /\ Item(ch[b], j) = x)
      <4>1. ASSUME NEW j \in Nat, j >= n - 1, Item(ch2[b], j) = x PROVE \E l \in Nat : l >= n /\ Item(ch[b], l) = x
        <5>1. ~(j < at) /\ j + 1 \in Nat /\ j + 1 >= n
          BY <2>4, <3>1, <4>1, SMT
        <5> QED  BY <3>2, <4>1, <5>1
      <4>2. ASSUME NEW j \in Nat, j >= n, Item(ch[b], j) = x PROVE \E l \in Nat : l >= n - 1 /\ Item(ch2[b], l) = x
        <5>1. j - 1 \in Nat /\ ~(j - 1 < at) /\ j - 1 >= n - 1 /\ (j - 1) + 1 = j
          BY <2>4, <3>1, <4>2, SMT
        <5> QED  BY <3>2, <4>2, <5>1
      <4> QED  BY <4>1, <4>2
    <3>5. Ahead(cap, ch2, b, n - 1, i.pos) = Ahead(cap, ch, b, n, i.pos)
      BY <2>7, <3>4 DEF Ahead
    <3>6. StandsAt(m2, i, d, ch2, b, n - 1)
      BY <2>1, <2>5, <3>3, <3>5 DEF StandsAt
    <3> QED  BY <1>3, <3>1, <3>6 DEF IterNow
  <2> QED  BY <2>8, <2>9
<1> QED  BY <1>2, <1>3 DEF IterNow

\* foreach starts with every item ahead of the iterator.
LEMMA BeginIter ==
  ASSUME NEW m, NEW ch, MapNow(m, ch)
  PROVE  IterNow(m, ItInit, DOMAIN m.next, ch)
<1> DEFINE cap == m.capacity
           n == Len(ch[0]) + 1
<1>1. Sound(cap, m.pool, m.next, ch) /\ cap \in Nat /\ 0 \in 0..(cap - 1) /\ 0 \in 0..cap
  <2>1. Sound(cap, m.pool, m.next, ch) /\ cap \in Nat /\ cap # 0
    BY DEF MapNow, Filed, Sound
  <2> QED  BY <2>1, SMT
<1>2. Len(ch[0]) \in Nat /\ \A j \in Nat : Item(ch[0], j) \in Keys \cup {Null} /\ (Item(ch[0], j) # Null <=> j \in 1..Len(ch[0]))
  BY <1>1, SoundNow
<1>3. n \in Nat \ {0} /\ \A j \in Nat : j >= n => j \notin 1..Len(ch[0])
  BY <1>2, SMT
<1>4. \A j \in Nat : j >= n => Item(ch[0], j) = Null
  BY <1>2, <1>3
<1>5. n >= n
  BY <1>3, SMT
<1> HIDE DEF n
<1>6. ItInit.item = Null /\ ItInit.pos = 0 /\ ItInit.cur = Null
      /\ ItInit = [item |-> ItInit.item, pos |-> ItInit.pos, cur |-> ItInit.cur]
  BY DEF ItInit
<1>7. \A k \in Keys : k \in DOMAIN m.next <=> \E c \in 0..(cap - 1) : k \in Range(ch[c])
  BY <1>1 DEF MapNow, Filed, Sound
<1>8. DOMAIN m.next = Ahead(cap, ch, 0, n, 0)
  <2>1. \A k \in DOMAIN m.next : k \in Keys /\ k # Null
    BY <1>1, KeysAssumption DEF Sound
  <2>2. \A k \in Keys : k \in Ahead(cap, ch, 0, n, 0) <=> k \in DOMAIN m.next
    BY <1>4, <1>7, KeysAssumption DEF Ahead
  <2> QED  BY <2>1, <2>2 DEF Ahead
<1>9. StandsAt(m, ItInit, DOMAIN m.next, ch, 0, n)
  BY <1>1, <1>3, <1>4, <1>5, <1>6, <1>8 DEF StandsAt
<1> QED  BY <1>1, <1>3, <1>6, <1>9 DEF IterNow

\* hash_map_it_next hands out an item that was ahead, and has it ahead no more; it ends the
\* iteration when there is none.
LEMMA NextIter ==
  ASSUME NEW m, NEW ch, MapNow(m, ch), NEW i, NEW d, IterNow(m, i, d, ch), i # NoIt
  PROVE  \/ ItNext(m, i).cur = Null /\ d = {}
         \/ /\ ItNext(m, i).cur \in d /\ ItNext(m, i).cur \in Keys
            /\ IterNow(m, ItNext(m, i), d \ {ItNext(m, i).cur}, ch)
<1> DEFINE cap == m.capacity
           used == {c \in i.pos..(cap - 1) : m.pool[c] # Null}
           i2 == ItNext(m, i)
<1>1. Sound(cap, m.pool, m.next, ch) /\ cap \in Nat /\ Null \notin Keys
  BY KeysAssumption DEF MapNow, Filed, Sound
<1>2. i = [item |-> i.item, pos |-> i.pos, cur |-> i.cur]
  BY DEF IterNow
<1>3. PICK b \in 0..(cap - 1), n \in Nat \ {0} : StandsAt(m, i, d, ch, b, n)
  BY DEF IterNow
<1>4. i.pos \in 0..cap /\ i.item = Item(ch[b], n) /\ (b < i.pos \/ i.item = Null)
      /\ d = Ahead(cap, ch, b, n, i.pos)
  BY <1>3 DEF StandsAt
<1>5. n + 1 \in Nat \ {0} /\ (\A j \in Nat : j >= n <=> j = n \/ j >= n + 1) /\ ~(n >= n + 1)
  BY SMT
<1>6. \A c \in i.pos..(cap - 1) : c \in 0..(cap - 1) /\ c \in Nat
  BY <1>1, <1>4, SMT
<1>7. /\ \A j \in Nat : Item(ch[b], j) \in Keys \cup {Null}
      /\ \A j \in Nat : Item(ch[b], j) # Null => m.next[Item(ch[b], j)] = Item(ch[b], j + 1)
                                               /\ Item(ch[b], j) \in Range(ch[b])
      /\ \A j, l \in Nat : Item(ch[b], j) # Null /\ Item(ch[b], j) = Item(ch[b], l) => j = l
  <2>1. ItemsChained(Keys, m.next, m.pool[b], ch[b])
    BY <1>1, SoundNow
  <2> QED  BY <1>1, <2>1, SoundNow DEF ItemsChained
<1>8. CASE i.item # Null
  <2>1. i2 = [item |-> m.next[i.item], pos |-> i.pos, cur |-> i.item]
    <3>1. i2 = [i EXCEPT !.cur = i.item, !.item = m.next[i.item]]
      BY <1>8, Zenon DEF ItNext
    <3>2. [i EXCEPT !.cur = i.item, !.item = m.next[i.item]]
            = [[i EXCEPT !.cur = i.item] EXCEPT !.item = m.next[i.item]]
      BY Zenon
    <3>3. [i EXCEPT !.cur = i.item] = [item |-> i.item, pos |-> i.pos, cur |-> i.item]
      BY <1>2, SMT
    <3> DEFINE i1 == [i EXCEPT !.cur = i.item]
               x == m.next[i.item]
    <3>4. i1 = [item |-> i.item, pos |-> i.pos, cur |-> i.item]
      BY <3>3
    <3>5. [i1 EXCEPT !.item = x] = [item |-> x, pos |-> i.pos, cur |-> i.item]
      <4> HIDE DEF i1, x, i2
      <4> QED  BY <3>4, SMT
    <3> HIDE DEF i2
    <3> QED  BY <3>1, <3>2, <3>5, Zenon
  <2> HIDE DEF i2
  <2>2. i2.item = m.next[i.item] /\ i2.pos = i.pos /\ i2.cur = i.item
        /\ i2 = [item |-> i2.item, pos |-> i2.pos, cur |-> i2.cur]
    BY <2>1
  <2>3. i.item \in Keys /\ i.item \in Range(ch[b]) /\ m.next[i.item] = Item(ch[b], n + 1)
    BY <1>4, <1>7, <1>8
  <2>4. i.item \in d
    <3>1. n >= n
      BY SMT
    <3> QED  BY <1>4, <2>3, <3>1 DEF Ahead
  <2>5. \A c \in i.pos..(cap - 1) : i.item \notin Range(ch[c])
    <3>1. \A c \in i.pos..(cap - 1) : c # b
      BY <1>1, <1>4, <1>8, SMT
    <3> QED  BY <1>1, <1>6, <2>3, <3>1 DEF Sound, Threaded
  <2>6. \A j \in Nat : j >= n + 1 => Item(ch[b], j) # i.item
    BY <1>4, <1>5, <1>7, <1>8
  <2>7. d \ {i.item} = Ahead(cap, ch, b, n + 1, i.pos)
    BY <1>4, <1>5, <2>5, <2>6 DEF Ahead
  <2>8. StandsAt(m, i2, d \ {i.item}, ch, b, n + 1)
    BY <1>4, <1>8, <2>2, <2>3, <2>7 DEF StandsAt
  <2> QED  BY <1>5, <2>2, <2>3, <2>4, <2>8 DEF IterNow, i2
<1>9. ASSUME i.item = Null PROVE \A k \in Keys : k \in d <=> \E c \in i.pos..(cap - 1) : k \in Range(ch[c])
  <2>1. \A j \in Nat : j >= n => Item(ch[b], j) = Null
    <3>1. Len(ch[b]) \in Nat /\ \A j \in Nat : Item(ch[b], j) # Null <=> j \in 1..Len(ch[b])
      BY <1>1, SoundNow
    <3>2. n \notin 1..Len(ch[b])
      BY <1>4, <1>9, <3>1
    <3>3. \A j \in Nat : j >= n => j \notin 1..Len(ch[b])
      <4> DEFINE L == Len(ch[b])
      <4> HIDE DEF L
      <4>1. L \in Nat /\ n \notin 1..L
        BY <3>1, <3>2 DEF L
      <4>2. \A j \in Nat : j >= n => j \notin 1..L
        BY <4>1, SMT
      <4> QED  BY <4>2 DEF L
    <3> QED  BY <3>1, <3>3
  <2> QED  BY <1>1, <1>4, <2>1 DEF Ahead
<1>10. \A c \in 0..(cap - 1) : m.pool[c] = Null => Range(ch[c]) \cap Keys = {}
  <2>1. ASSUME NEW c \in 0..(cap - 1), m.pool[c] = Null, NEW x \in Range(ch[c]), x \in Keys PROVE FALSE
    <3>1. PICK j \in Nat : Item(ch[c], j) = x
      BY <1>1, <2>1, SoundNow
    <3>2. Item(ch[c], 1) = Null /\ x # Null
      BY <1>1, <2>1, SoundNow
    <3>3. j \in 1..Len(ch[c]) /\ 1 \notin 1..Len(ch[c]) /\ Len(ch[c]) \in Nat
      BY <1>1, <3>1, <3>2, SoundNow
    <3> DEFINE L == Len(ch[c])
    <3> HIDE DEF L
    <3>4. j \in 1..L /\ 1 \notin 1..L /\ L \in Nat
      BY <3>3 DEF L
    <3> QED  BY <3>4, SMT
  <2> QED  BY <2>1
<1>11. CASE i.item = Null /\ used = {}
  <2>1. d = {}
    <3>1. \A k \in Keys : k \notin d
      BY <1>6, <1>9, <1>10, <1>11
    <3> QED  BY <1>4, <3>1 DEF Ahead
  <2>2. i2.cur = Null
    <3>1. i2 = [i EXCEPT !.cur = Null, !.pos = m.capacity]
      BY <1>11, Zenon DEF ItNext
    <3>2. [i EXCEPT !.cur = Null, !.pos = m.capacity] = [[i EXCEPT !.cur = Null] EXCEPT !.pos = m.capacity]
      BY Zenon
    <3>3. [i EXCEPT !.cur = Null].cur = Null
      BY <1>2, SMT
    <3> QED  BY <1>2, <3>1, <3>2, <3>3, SMT
  <2> QED  BY <2>1, <2>2
<1>12. CASE i.item = Null /\ used # {}
  <2> DEFINE a == Min(used)
  <2>1. a \in used /\ \A c \in used : a <= c
    <3>1. used \subseteq Nat
      BY <1>6
    <3>2. \E c \in used : \A e \in used : c <= e
      <4> HIDE DEF used
      <4> QED  BY <1>12, <3>1, LeastNat
    <3>3. a = CHOOSE c \in used : \A e \in used : c <= e
      BY DEF Min
    <3> HIDE DEF a, used
    <3> QED  BY <3>2, <3>3
  <2>2. i2 = [cur |-> m.pool[a], item |-> m.next[m.pool[a]], pos |-> a + 1]
    BY <1>12, Zenon DEF ItNext
  <2> HIDE DEF a, i2
  <2>3. a \in 0..(cap - 1) /\ a \in i.pos..(cap - 1) /\ m.pool[a] # Null /\ a + 1 \in 0..cap /\ a < a + 1
    <3>1. a \in 0..(cap - 1) /\ a \in i.pos..(cap - 1) /\ m.pool[a] # Null
      BY <1>6, <2>1
    <3> QED  BY <1>1, <3>1, SMT
  <2>4. i2.item = m.next[m.pool[a]] /\ i2.pos = a + 1 /\ i2.cur = m.pool[a]
        /\ i2 = [item |-> i2.item, pos |-> i2.pos, cur |-> i2.cur]
    BY <2>2
  <2>5. m.pool[a] = Item(ch[a], 1) /\ m.pool[a] \in Keys /\ m.pool[a] \in Range(ch[a]) /\ m.next[m.pool[a]] = Item(ch[a], 2)
    <3>1. ItemsChained(Keys, m.next, m.pool[a], ch[a])
      BY <1>1, <2>3, SoundNow
    <3>2. 1 + 1 = 2 /\ 1 \in Nat
      BY SMT
    <3> QED  BY <1>1, <2>3, <3>1, <3>2, SoundNow DEF ItemsChained
  <2>6. m.pool[a] \in d
    BY <1>9, <1>12, <2>3, <2>5
  <2>7. ASSUME NEW k \in Keys PROVE k \in d \ {m.pool[a]} <=> k \in Ahead(cap, ch, a, 2, a + 1)
    <3>1. k \in Range(ch[a]) <=> \E j \in Nat : Item(ch[a], j) = k
      BY <1>1, <2>3, SoundNow
    <3>2. \A j \in Nat : Item(ch[a], j) = k => j # 0
      <4>1. Item(ch[a], 0) = Null
        BY SMT DEF Item
      <4> QED  BY <1>1, <4>1
    <3>3. \A j, l \in Nat : Item(ch[a], j) # Null /\ Item(ch[a], j) = Item(ch[a], l) => j = l
      <4>1. ItemsChained(Keys, m.next, m.pool[a], ch[a])
        BY <1>1, <2>3, SoundNow
      <4> QED  BY <4>1 DEF ItemsChained
    <3>4. (k \in Range(ch[a]) /\ k # m.pool[a]) <=> \E j \in Nat : j >= 2 /\ Item(ch[a], j) = k
      <4>1. \A j \in Nat : j >= 2 <=> j # 0 /\ j # 1
        BY SMT
      <4>2. 1 \in Nat
        BY SMT
      <4> QED  BY <1>1, <2>5, <3>1, <3>2, <3>3, <4>1, <4>2
    <3>5. \A c \in i.pos..(cap - 1) : c = a \/ c \in (a + 1)..(cap - 1) \/ (c < a /\ c \in Nat)
      BY <1>1, <1>4, <2>3, SMT
    <3>6. \A c \in i.pos..(cap - 1) : c < a => k \notin Range(ch[c])
      <4>1. \A c \in i.pos..(cap - 1) : c < a => c \notin used
        <5>1. \A c \in i.pos..(cap - 1) : c < a => ~(a <= c)
          BY <1>6, <2>3, SMT
        <5> QED  BY <2>1, <5>1
      <4> QED  BY <1>6, <1>10, <4>1
    <3>7. \A c \in (a + 1)..(cap - 1) : c \in i.pos..(cap - 1) /\ c # a /\ c \in 0..(cap - 1)
      BY <1>1, <1>4, <2>3, SMT
    <3>8. \A c \in (a + 1)..(cap - 1) : m.pool[a] \notin Range(ch[c])
      BY <1>1, <2>3, <2>5, <3>7 DEF Sound, Threaded
    <3>9. k \in d <=> \E c \in i.pos..(cap - 1) : k \in Range(ch[c])
      BY <1>9, <1>12
    <3>10. k \in d <=> k \in Range(ch[a]) \/ \E c \in (a + 1)..(cap - 1) : k \in Range(ch[c])
      BY <2>3, <3>5, <3>6, <3>7, <3>9
    <3>11. k \in Ahead(cap, ch, a, 2, a + 1) <=>
             (\E j \in Nat : j >= 2 /\ Item(ch[a], j) = k) \/ \E c \in (a + 1)..(cap - 1) : k \in Range(ch[c])
      BY DEF Ahead
    <3> QED  BY <3>4, <3>8, <3>10, <3>11
  <2>8. d \ {m.pool[a]} = Ahead(cap, ch, a, 2, a + 1)
    BY <1>4, <2>7 DEF Ahead
  <2>9. StandsAt(m, i2, d \ {m.pool[a]}, ch, a, 2)
    BY <2>3, <2>4, <2>5, <2>8 DEF StandsAt
  <2>10. 2 \in Nat \ {0}
    BY SMT
  <2> QED  BY <2>3, <2>4, <2>5, <2>6, <2>9, <2>10 DEF IterNow, i2
<1> QED  BY <1>8, <1>11, <1>12

-----------------------------------------------------------------------------
(* The dictionary *)

DictOf(m) == [k \in Keys |-> IF m.capacity > 0 THEN Get(m, k) ELSE Null]

\* What the map of a state binds.
LEMMA DictNow ==
  ASSUME NEW m, NEW ch, MapNow(m, ch)
  PROVE  /\ m.capacity > 0 /\ DOMAIN m.next \subseteq Keys
         /\ \A k \in Keys : DictOf(m)[k] = IF k \in DOMAIN m.next THEN m.val[k] ELSE Null
         /\ {k \in Keys : DictOf(m)[k] # Null} = DOMAIN m.next
<1>1. m.capacity \in Nat /\ m.capacity # 0 /\ DOMAIN m.next \subseteq Keys /\ m.val \in [DOMAIN m.next -> Vals]
  BY DEF MapNow, Filed, Sound
<1>2. m.capacity > 0
  BY <1>1, SMT
<1>3. ASSUME NEW k \in Keys PROVE DictOf(m)[k] = IF k \in DOMAIN m.next THEN m.val[k] ELSE Null
  <2>1. Has(m, k) <=> k \in DOMAIN m.next
    BY ChainNow DEF Has
  <2> QED  BY <1>2, <2>1 DEF DictOf, Get
<1>4. \A k \in DOMAIN m.next : m.val[k] # Null
  BY <1>1, ValsAssumption
<1> QED  BY <1>1, <1>2, <1>3, <1>4

\* hash_map_insert binds the key, and hash_map_delete unbinds it, in the dictionary.
LEMMA InsertStores ==
  ASSUME NEW m, NEW ch, MapNow(m, ch), NEW k \in Keys, NEW v \in Vals
  PROVE  DictOf(Insert(m, k, v)) = [DictOf(m) EXCEPT ![k] = v]
<1> DEFINE m2 == Insert(m, k, v)
<1>1. PICK ch2 : MapNow(m2, ch2)
  BY InsertKeeps
<1>2. DOMAIN m2.next = DOMAIN m.next \cup {k} /\ m2.val = Bind(m.val, k, v)
  BY InsertKeeps
<1>3. DOMAIN m.val = DOMAIN m.next
  BY DEF MapNow
<1> HIDE DEF m2
<1>4. \A x \in Keys : DictOf(m2)[x] = IF x \in DOMAIN m2.next THEN m2.val[x] ELSE Null
  BY <1>1, DictNow
<1>5. \A x \in Keys : DictOf(m)[x] = IF x \in DOMAIN m.next THEN m.val[x] ELSE Null
  BY DictNow
<1>6. \A x \in Keys : DictOf(m2)[x] = IF x = k THEN v ELSE DictOf(m)[x]
  BY <1>2, <1>3, <1>4, <1>5 DEF Bind
<1>7. DictOf(m2) = [x \in Keys |-> DictOf(m2)[x]] /\ DictOf(m) = [x \in Keys |-> DictOf(m)[x]]
  BY DEF DictOf
<1> QED  BY <1>6, <1>7 DEF m2

\* hash_map_delete unbinds the key, if it was bound.
LEMMA DeleteForgets ==
  ASSUME NEW m, NEW ch, MapNow(m, ch), NEW k \in Keys
  PROVE  DictOf(Delete(m, k)) = [DictOf(m) EXCEPT ![k] = Null]
<1> DEFINE m2 == Delete(m, k)
<1>1. \A x \in Keys : DictOf(m)[x] = IF x \in DOMAIN m.next THEN m.val[x] ELSE Null
  BY DictNow
<1>2. DictOf(m) = [x \in Keys |-> DictOf(m)[x]]
  BY DEF DictOf
<1>3. CASE k \notin DOMAIN m.next
  <2>1. m2 = m
    BY <1>3, ChainNow DEF Delete
  <2>2. DictOf(m)[k] = Null
    BY <1>1, <1>3
  <2> QED  BY <1>2, <2>1, <2>2
<1>4. CASE k \in DOMAIN m.next
  <2>1. PICK ch2 : MapNow(m2, ch2)
    BY <1>4, DeleteKeeps
  <2>2. DOMAIN m2.next = DOMAIN m.next \ {k} /\ m2.val = Restrict(m.val, DOMAIN m.val \ {k})
    BY <1>4, DeleteKeeps
  <2>3. DOMAIN m.val = DOMAIN m.next
    BY DEF MapNow
  <2> HIDE DEF m2
  <2>4. \A x \in Keys : DictOf(m2)[x] = IF x \in DOMAIN m2.next THEN m2.val[x] ELSE Null
    BY <2>1, DictNow
  <2>5. \A x \in Keys : DictOf(m2)[x] = IF x = k THEN Null ELSE DictOf(m)[x]
    BY <1>1, <2>2, <2>3, <2>4 DEF Restrict
  <2>6. DictOf(m2) = [x \in Keys |-> DictOf(m2)[x]]
    BY DEF DictOf
  <2> QED  BY <1>2, <2>5, <2>6 DEF m2
<1> QED  BY <1>3, <1>4

-----------------------------------------------------------------------------
(* The specification *)

DictMap == [k \in Keys |-> IF InUse THEN Get(map, k) ELSE Null]

\* The cases of the invariant.
LEMMA Cases ==
  ASSUME HashInv
  PROVE  /\ (InUse \/ (~InUse /\ map.capacity = 0 /\ it = NoIt /\ due = {}))
         /\ InUse => \E ch : MapNow(map, ch) /\ IterNow(map, it, due, ch)
<1>1. CASE map.capacity = 0 /\ it = NoIt /\ due = {}
  <2>1. ~InUse
    BY <1>1, SMT DEF InUse
  <2> QED  BY <1>1, <2>1
<1>2. CASE \E ch : MapNow(map, ch) /\ IterNow(map, it, due, ch)
  <2>1. InUse
    BY <1>2, DictNow DEF InUse
  <2> QED  BY <1>2, <2>1
<1> QED  BY <1>1, <1>2 DEF HashInv, HashNow

\* A state in which the map is in use satisfies the invariant.
LEMMA Holds ==
  ASSUME NEW m, NEW i, NEW d, NEW ch, MapNow(m, ch), IterNow(m, i, d, ch)
  PROVE  HashNow(m, i, d)
BY DEF HashNow, MapNow, Filed, Sound

\* A map that is created has no items.
LEMMA EmptyHolds == HashNow(EmptyMap, NoIt, {})
<1>1. PICK ch : MapNow(EmptyMap, ch)
  BY EmptyNow
<1>2. IterNow(EmptyMap, NoIt, {}, ch)
  BY DEF IterNow
<1> QED  BY <1>1, <1>2, Holds

\* hash_map_insert.
LEMMA InsertStep ==
  ASSUME HashInv, NEW k \in Keys, NEW v \in Vals, InsertKey(k, v)
  PROVE  HashInv' /\ Dict!Store(k, v)
<1>1. InUse /\ ~Iterating /\ map' = Insert(map, k, v) /\ it' = it /\ due' = due
  BY DEF InsertKey
<1>2. PICK ch : MapNow(map, ch) /\ IterNow(map, it, due, ch)
  BY <1>1, Cases
<1>3. PICK ch2 : MapNow(map', ch2)
  BY <1>1, <1>2, InsertKeeps
<1>4. it = NoIt /\ due = {} /\ it.cur = "none"
  BY <1>1, <1>2, AtRest DEF Iterating
<1>5. IterNow(map', it', due', ch2)
  BY <1>1, <1>4 DEF IterNow
<1>6. HashNow(map', it', due')
  BY <1>3, <1>5, Holds
<1>7. DictOf(map') = [DictOf(map) EXCEPT ![k] = v]
  BY <1>1, <1>2, InsertStores
<1>8. DictMap' = [DictMap EXCEPT ![k] = v]
  BY <1>7 DEF DictMap, DictOf, InUse
<1> QED  BY <1>1, <1>4, <1>6, <1>8 DEF HashInv, Dict!Store, Dict!Visiting, DictMap

\* hash_map_delete.
LEMMA DeleteStep ==
  ASSUME HashInv, NEW k \in Keys, DeleteKey(k)
  PROVE  HashInv' /\ Dict!Forget(k)
<1>1. InUse /\ k \notin due /\ map' = Delete(map, k) /\ it' = it /\ due' = due
  BY DEF DeleteKey
<1>2. PICK ch : MapNow(map, ch) /\ IterNow(map, it, due, ch)
  BY <1>1, Cases
<1>3. HashNow(map', it', due')
  <2>1. CASE k \in DOMAIN map.next
    <3>1. PICK ch2 : MapNow(map', ch2) /\ DeletedFrom(map.capacity, ch, k, ch2)
      BY <1>1, <1>2, <2>1, DeleteKeeps
    <3>2. map'.capacity = map.capacity
      BY <1>1, <1>2, <2>1, DeleteKeeps
    <3>3. IterNow(map', it, due, ch2)
      BY <1>1, <1>2, <3>1, <3>2, DeleteIter
    <3> QED  BY <1>1, <3>1, <3>3, Holds
  <2>2. CASE k \notin DOMAIN map.next
    <3>1. map' = map
      BY <1>1, <1>2, <2>2, ChainNow DEF Delete
    <3> QED  BY <1>1, <1>2, <3>1, Holds
  <2> QED  BY <2>1, <2>2
<1>4. DictOf(map') = [DictOf(map) EXCEPT ![k] = Null]
  BY <1>1, <1>2, DeleteForgets
<1>5. DictMap' = [DictMap EXCEPT ![k] = Null]
  BY <1>4 DEF DictMap, DictOf, InUse
<1> QED  BY <1>1, <1>3, <1>5 DEF HashInv, Dict!Forget, DictMap

\* hash_map_free.
LEMMA FreeStep ==
  ASSUME HashInv, FreeMap
  PROVE  HashInv' /\ Dict!Clear
<1>1. InUse /\ ~Iterating /\ map' = Freed(map) /\ it' = it /\ due' = due
  BY DEF FreeMap
<1>2. PICK ch : MapNow(map, ch) /\ IterNow(map, it, due, ch)
  BY <1>1, Cases
<1>3. it = NoIt /\ due = {} /\ it.cur = "none"
  BY <1>1, <1>2, AtRest DEF Iterating
<1>4. map' = Fields(0, map.count, <<>>, <<>>, <<>>)
  <2> DEFINE m1 == [map EXCEPT !.capacity = 0]
             m2 == [m1 EXCEPT !.pool = <<>>]
  <2>1. map = Fields(map.capacity, map.count, map.pool, map.next, map.val)
    BY <1>2 DEF MapNow, Filed
  <2>2. m1 = Fields(0, map.count, map.pool, map.next, map.val)
    BY <2>1, SMT DEF Fields
  <2>3. map' = [[m2 EXCEPT !.next = <<>>] EXCEPT !.val = <<>>]
    BY <1>1, Zenon DEF Freed
  <2> HIDE DEF m1
  <2>4. m2 = Fields(0, map.count, <<>>, map.next, map.val)
    BY <2>2, SMT DEF Fields
  <2> HIDE DEF m2
  <2> DEFINE m3 == [m2 EXCEPT !.next = <<>>]
  <2>5. m3 = Fields(0, map.count, <<>>, <<>>, map.val)
    BY <2>4, SMT DEF Fields
  <2> HIDE DEF m3
  <2>6. [m3 EXCEPT !.val = <<>>] = Fields(0, map.count, <<>>, <<>>, <<>>)
    BY <2>5, SMT DEF Fields
  <2> QED  BY <2>3, <2>6, Zenon DEF m3
<1>5. map'.capacity = 0 /\ map' = Fields(0, map'.count, map'.pool, map'.next, map'.val)
  BY <1>4, FieldsAre
<1>6. HashNow(map', it', due')
  BY <1>1, <1>3, <1>5 DEF HashNow
<1>7. ~InUse'
  BY <1>5, SMT DEF InUse
<1>8. DictMap' = [k \in Keys |-> Null]
  BY <1>7 DEF DictMap
<1> QED  BY <1>1, <1>3, <1>6, <1>8 DEF HashInv, Dict!Clear, Dict!Visiting, DictMap

\* hash_map_init of a map that was freed.
LEMMA ReuseStep ==
  ASSUME HashInv, Reuse
  PROVE  HashInv' /\ UNCHANGED <<DictMap, due, it.cur>>
<1>1. ~InUse /\ map' = EmptyMap /\ it' = it /\ due' = due
  BY DEF Reuse
<1>2. it = NoIt /\ due = {}
  BY <1>1, Cases
<1>3. HashNow(map', it', due')
  BY <1>1, <1>2, EmptyHolds
<1>4. PICK ch : MapNow(map', ch)
  BY <1>1, EmptyNow
<1>5. DOMAIN map'.next = {}
  BY <1>1 DEF EmptyMap
<1>6. \A k \in Keys : DictOf(map')[k] = Null
  BY <1>4, <1>5, DictNow
<1>7. DictOf(map') = [k \in Keys |-> Null]
  BY <1>6 DEF DictOf
<1>8. DictMap' = [k \in Keys |-> Null]
  BY <1>7 DEF DictMap, DictOf, InUse
<1>9. DictMap = [k \in Keys |-> Null]
  BY <1>1 DEF DictMap
<1> QED  BY <1>1, <1>3, <1>8, <1>9 DEF HashInv

\* hash_map_it_init.
LEMMA BeginStep ==
  ASSUME HashInv, BeginForeach
  PROVE  HashInv' /\ Dict!Begin
<1>1. InUse /\ ~Iterating /\ it' = ItInit /\ due' = DOMAIN map.next /\ map' = map
  BY DEF BeginForeach
<1>2. PICK ch : MapNow(map, ch) /\ IterNow(map, it, due, ch)
  BY <1>1, Cases
<1>3. it = NoIt /\ it.cur = "none"
  BY <1>1, <1>2, AtRest DEF Iterating
<1>4. HashNow(map', it', due')
  BY <1>1, <1>2, BeginIter, Holds
<1>5. {k \in Keys : DictMap[k] # Null} = DOMAIN map.next
  <2>1. DictMap = DictOf(map)
    BY DEF DictMap, DictOf, InUse
  <2> QED  BY <1>2, <2>1, DictNow
<1>6. it'.cur = Null
  BY <1>1 DEF ItInit
<1>7. DictMap' = DictMap
  BY <1>1 DEF DictMap, InUse
<1> QED  BY <1>1, <1>3, <1>4, <1>5, <1>6, <1>7 DEF HashInv, Dict!Begin, Dict!Visiting, Dict!Bound, DictMap

\* hash_map_it_next.
LEMMA NextStep ==
  ASSUME HashInv, NextItem
  PROVE  HashInv' /\ (Dict!End \/ \E k \in Keys : Dict!Visit(k))
<1> DEFINE i == ItNext(map, it)
<1>1. it # NoIt /\ it' = (IF i.cur = Null THEN NoIt ELSE i) /\ due' = due \ {i.cur} /\ map' = map
  BY DEF NextItem, Iterating
<1> HIDE DEF i
<1>2. PICK ch : MapNow(map, ch) /\ IterNow(map, it, due, ch)
  BY <1>1, Cases
<1>3. it.cur # "none"
  BY <1>1, <1>2, AtRest
<1>4. DictMap' = DictMap
  BY <1>1 DEF DictMap, InUse
<1>5. CASE i.cur = Null /\ due = {}
  <2>1. it' = NoIt /\ due' = {} /\ it'.cur = "none"
    BY <1>1, <1>5 DEF NoIt
  <2>2. IterNow(map', it', due', ch)
    BY <2>1 DEF IterNow
  <2>3. HashNow(map', it', due')
    BY <1>1, <1>2, <2>2, Holds
  <2>4. Dict!End
    BY <1>3, <1>4, <1>5, <2>1 DEF Dict!End, Dict!Visiting, DictMap
  <2> QED  BY <2>3, <2>4 DEF HashInv
<1>6. CASE i.cur \in due /\ i.cur \in Keys /\ IterNow(map, i, due \ {i.cur}, ch)
  <2>1. it' = i /\ it'.cur = i.cur
    BY <1>1, <1>6, KeysAssumption
  <2>2. HashNow(map', it', due')
    BY <1>1, <1>2, <1>6, <2>1, Holds
  <2>3. Dict!Visit(i.cur)
    BY <1>1, <1>4, <1>6, <2>1 DEF Dict!Visit, DictMap
  <2> QED  BY <1>6, <2>2, <2>3 DEF HashInv
<1> QED  BY <1>1, <1>2, <1>5, <1>6, NextIter DEF i

\* Every step keeps the invariant, and is a step of the dictionary or none.
LEMMA HashSteps ==
  ASSUME HashInv, [HashNext]_hashVars
  PROVE  HashInv' /\ [Dict!Next]_(Dict!vars)
<1> USE DEF Dict!Next
<1>1. ASSUME NEW k \in Keys, DeleteKey(k) PROVE HashInv' /\ [Dict!Next]_(Dict!vars)
  BY <1>1, DeleteStep
<1>2. ASSUME NEW k \in Keys, NEW v \in Vals, InsertKey(k, v) PROVE HashInv' /\ [Dict!Next]_(Dict!vars)
  BY <1>2, InsertStep
<1>3. CASE FreeMap
  BY <1>3, FreeStep
<1>4. CASE Reuse
  BY <1>4, ReuseStep DEF Dict!vars, DictMap
<1>5. CASE BeginForeach
  BY <1>5, BeginStep
<1>6. CASE NextItem
  BY <1>6, NextStep
<1>7. CASE UNCHANGED hashVars
  <2>1. map' = map /\ it' = it /\ due' = due
    BY <1>7 DEF hashVars
  <2>2. HashInv'
    BY <2>1, Zenon DEF HashInv
  <2> QED  BY <2>1, <2>2 DEF Dict!vars, InUse
<1> QED  BY <1>1, <1>2, <1>3, <1>4, <1>5, <1>6, <1>7 DEF HashNext

\* The invariant holds when the map has been created.
LEMMA HashStarts == HashInit => HashInv /\ Dict!Init
<1> SUFFICES ASSUME HashInit PROVE HashInv /\ Dict!Init
  OBVIOUS
<1>1. map = EmptyMap /\ it = NoIt /\ due = {}
  BY DEF HashInit
<1>2. HashInv
  BY <1>1, EmptyHolds DEF HashInv
<1>3. PICK ch : MapNow(map, ch)
  BY <1>1, EmptyNow
<1>4. DOMAIN map.next = {}
  BY <1>1 DEF EmptyMap
<1>5. \A k \in Keys : DictOf(map)[k] = Null
  BY <1>3, <1>4, DictNow
<1>6. DictMap = [k \in Keys |-> Null]
  BY <1>5 DEF DictMap, DictOf, InUse
<1>7. it.cur = "none"
  BY <1>1 DEF NoIt
<1> QED  BY <1>1, <1>2, <1>6, <1>7 DEF Dict!Init, DictMap

\* The invariant holds at all times.
LEMMA HashInvariant == HashSpec => []HashInv
<1>1. HashInit => HashInv
  BY HashStarts
<1>2. HashInv /\ [HashNext]_hashVars => HashInv'
  BY HashSteps
<1> QED  BY <1>1, <1>2, PTL DEF HashSpec

\* In sound chains every item is reached once and in its bucket, and none is lost.
LEMMA LintHolds == HashInv => Lint
<1> SUFFICES ASSUME HashInv, InUse PROVE Lint
  BY DEF Lint
<1>1. PICK ch : MapNow(map, ch) /\ IterNow(map, it, due, ch)
  BY Cases
<1> DEFINE cap == map.capacity
           chain(b) == ItemsFrom(map, map.pool[b])
<1>2. Sound(cap, map.pool, map.next, ch) /\ Filed(map, ch, {}) /\ map.count = Cardinality(DOMAIN map.next)
  BY <1>1 DEF MapNow, Filed
<1>3. \A b \in 0..(cap - 1) : chain(b) = ch[b]
  BY <1>2, ItemsNow
<1> HIDE DEF chain
<1>4. ASSUME NEW b \in 0..(cap - 1)
      PROVE  /\ IsInjective(ch[b])
             /\ ch[b] # <<>> => map.next[Last(ch[b])] = Null
             /\ \A k \in Range(ch[b]) : Pos(map, k) = b
  <2>1. ch[b] \in Seq(Keys) /\ Distinct(ch[b]) /\ Chained(map.next, map.pool[b], ch[b])
    BY <1>2 DEF Sound, Threaded, ChainOf
  <2>2. IsInjective(ch[b])
    BY <2>1 DEF IsInjective, Distinct
  <2>3. ASSUME ch[b] # <<>> PROVE map.next[Last(ch[b])] = Null
    <3> DEFINE L == Len(ch[b])
    <3>1. L \in 1..L /\ L + 1 \notin 1..L
      <4>1. L \in Nat /\ L # 0
        BY <2>1, <2>3
      <4> HIDE DEF L
      <4> QED  BY <4>1, SMT
    <3>2. map.next[ch[b][L]] = Item(ch[b], L + 1)
      BY <2>1, <3>1 DEF Chained
    <3>3. Item(ch[b], L + 1) = Null
      BY <3>1 DEF Item
    <3> QED  BY <3>2, <3>3 DEF Last
  <2>4. \A k \in Range(ch[b]) : Pos(map, k) = b
    BY <1>2 DEF Filed
  <2> QED  BY <2>2, <2>3, <2>4
<1>5. UNION {Range(chain(b)) : b \in 0..(cap - 1)} = DOMAIN map.next
  <2>1. \A k : k \in DOMAIN map.next <=> \E b \in 0..(cap - 1) : k \in Range(ch[b])
    BY <1>2 DEF Sound, Filed
  <2> QED  BY <1>3, <2>1
<1>6. it.item \in DOMAIN map.next \cup {Null}
  <2>1. CASE it = NoIt
    BY <2>1 DEF NoIt
  <2>2. CASE it # NoIt
    <3>1. PICK b \in 0..(cap - 1), n \in Nat \ {0} : StandsAt(map, it, due, ch, b, n)
      BY <1>1, <2>2 DEF IterNow
    <3>2. it.item = Item(ch[b], n)
      BY <3>1 DEF StandsAt
    <3> QED  BY <1>2, <3>2, SoundNow
  <2> QED  BY <2>1, <2>2
<1>7. /\ \A b \in 0..(cap - 1) :
           /\ IsInjective(chain(b))
           /\ chain(b) # <<>> => map.next[Last(chain(b))] = Null
           /\ \A k \in Range(chain(b)) : Pos(map, k) = b
  BY <1>3, <1>4
<1> QED  BY <1>2, <1>5, <1>6, <1>7 DEF Lint, chain

\* hash_map_lint holds after any calls: no rehash, deletion, iteration or reuse of the map
\* loses an item, closes a circle, files an item under another hash or leaves the iterator
\* at a freed item.
THEOREM MapLint == HashSpec => []Lint
BY HashInvariant, LintHolds, PTL

\* The hash map of src/hashmap.c is a dictionary: hash_map_get returns what was stored last,
\* and an iteration hands out every key that was bound when it began once, whatever visited
\* keys are deleted in the meantime.
THEOREM MapIsDictionary == HashSpec => MapSpec
<1>1. HashInit => Dict!Init
  BY HashStarts
<1>2. HashInv /\ [HashNext]_hashVars => [Dict!Next]_(Dict!vars)
  BY HashSteps
<1> QED  BY <1>1, <1>2, HashInvariant, PTL DEF HashSpec, MapSpec, Dict!Spec
=============================================================================
