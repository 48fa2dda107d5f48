---------------------------- MODULE ChannelProofs ----------------------------
(***************************************************************************)
(* Theorems about the channels of src/channel.c for any processes, devices *)
(* and uses of them, any number of faults and messages.                    *)
(***************************************************************************)
EXTENDS ChannelManager, FiniteSetTheorems, SequenceTheorems, TLAPS

HP == INSTANCE HashMapProofs WITH Keys <- Devices, Vals <- Channels, map <- map, it <- iter, due <- {}

-----------------------------------------------------------------------------
(* The hash map of a manager *)

\* What HashMapProofs assumes of keys and values.
LEMMA MapAssumed ==
  HP!KeysAssumption /\ HP!HashAssumption /\ HP!BaseSizeAssumption /\ HP!ValsAssumption
<1>1. HP!IsFiniteSet(Devices)
  BY DevicesAssumption, Zenon DEF HP!IsFiniteSet, IsFiniteSet
<1> QED  BY <1>1, DevicesAssumption, NullAssumption, MapAssumption
         DEF HP!KeysAssumption, HP!HashAssumption, HP!BaseSizeAssumption, HP!ValsAssumption

\* The operators of the two instances are the same.
LEMMA SameMap ==
  /\ H!EmptyMap = HP!EmptyMap /\ H!NoIt = HP!NoIt /\ H!ItInit = HP!ItInit
  /\ \A S : HP!Cardinality(S) = Cardinality(S)
BY Zenon DEF H!EmptyMap, HP!EmptyMap, H!NoIt, HP!NoIt, H!ItInit, HP!ItInit, HP!Cardinality, Cardinality

LEMMA SameChain ==
  ASSUME NEW m, NEW k
  PROVE  H!Chain(m, k) = HP!Chain(m, k) /\ H!Pos(m, k) = HP!Pos(m, k)
BY Zenon DEF H!Chain, HP!Chain, H!Pos, HP!Pos, H!ItemsFrom, HP!ItemsFrom,
   H!Visits, HP!Visits, H!Walk, HP!Walk, H!Cardinality, HP!Cardinality

LEMMA SameHas ==
  ASSUME NEW m, NEW k
  PROVE  H!Has(m, k) <=> k \in HP!Range(HP!Chain(m, k))
BY SameChain, Zenon DEF H!Has, H!Range, HP!Range

LEMMA SameRehash ==
  ASSUME NEW m
  PROVE  H!Rehash(m) = HP!Rehash(m)
BY ZenonT(60) DEF H!Rehash, HP!Rehash, H!RehashChain, HP!RehashChain, H!Relink, HP!Relink,
   H!Prepend, HP!Prepend, H!SetNext, HP!SetNext, H!Pos, HP!Pos, H!Cardinality, HP!Cardinality

LEMMA SameInsert ==
  ASSUME NEW m, NEW k, NEW v
  PROVE  H!Insert(m, k, v) = HP!Insert(m, k, v)
<1>1. \A n : H!LinkItem(n, k, v) = HP!LinkItem(n, k, v)
  <2> TAKE n
  <2>1. H!Chain(n, k) = HP!Chain(n, k) /\ H!Pos(n, k) = HP!Pos(n, k)
    BY SameChain
  <2> QED  BY <2>1, ZenonT(60) DEF H!LinkItem, HP!LinkItem, H!Bind, HP!Bind, H!SetNext, HP!SetNext,
              H!Last, HP!Last, H!Range, HP!Range
<1>2. H!Dense(m) <=> HP!Dense(m)
  BY DEF H!Dense, HP!Dense
<1> QED  BY <1>1, <1>2, SameRehash, ZenonT(60) DEF H!Insert, HP!Insert

LEMMA SameDelete ==
  ASSUME NEW m, NEW k
  PROVE  H!Delete(m, k) = HP!Delete(m, k)
BY ZenonT(60) DEF H!Delete, HP!Delete, H!Restrict, HP!Restrict, H!Range, HP!Range,
   H!SetNext, HP!SetNext, H!Chain, HP!Chain, H!Pos, HP!Pos, H!ItemsFrom, HP!ItemsFrom,
   H!Visits, HP!Visits, H!Walk, HP!Walk, H!Cardinality, HP!Cardinality

LEMMA SameNext ==
  ASSUME NEW m, NEW i
  PROVE  H!ItNext(m, i) = HP!ItNext(m, i)
BY Zenon DEF H!ItNext, HP!ItNext, H!Min, HP!Min

-----------------------------------------------------------------------------
\* The map of a manager is sound.  An iterator has handed out the item it is at, and of
\* those it did not hand out none is missing; at its end nothing is left.
Standing(m, i, ch) ==
  \/ i = H!NoIt
  \/ i # H!NoIt /\ i.cur = Null /\ DOMAIN m.val = {}
  \/ /\ i.cur \in Devices
     /\ \E D : HP!IterNow(m, i, D, ch) /\ i.cur \notin D /\ DOMAIN m.val \subseteq D \cup {i.cur}

Managed(m, i) == \E ch : HP!MapNow(m, ch) /\ Standing(m, i, ch)

\* The keys of a sound map are those of its values.
LEMMA MapKeys ==
  ASSUME NEW m, NEW ch, HP!MapNow(m, ch)
  PROVE  DOMAIN m.val = DOMAIN m.next /\ DOMAIN m.val \subseteq Devices
<1>1. DOMAIN m.next \subseteq Devices
  BY MapAssumed, HP!DictNow
<1> QED  BY <1>1 DEF HP!MapNow

\* What a manager knows of its channels.
LEMMA ManagedFacts ==
  ASSUME NEW m, NEW i, Managed(m, i)
  PROVE  /\ DOMAIN m.val \subseteq Devices /\ IsFiniteSet(DOMAIN m.val)
         /\ \A d \in DOMAIN m.val : m.val[d] \in Channels
         /\ m.count = Cardinality(DOMAIN m.val)
         /\ \A d \in Devices : H!Has(m, d) <=> d \in DOMAIN m.val
<1>1. PICK ch : HP!MapNow(m, ch)
  BY DEF Managed
<1>2. DOMAIN m.val = DOMAIN m.next /\ DOMAIN m.val \subseteq Devices
  BY <1>1, MapKeys
<1>3. IsFiniteSet(DOMAIN m.val)
  BY <1>2, DevicesAssumption, FS_Subset
<1>4. m.val \in [DOMAIN m.val -> Channels] /\ m.count = Cardinality(DOMAIN m.val)
  BY <1>1, <1>2, SameMap DEF HP!MapNow
<1>5. \A d \in Devices : H!Has(m, d) <=> d \in DOMAIN m.val
  BY <1>1, <1>2, MapAssumed, SameHas, HP!ChainNow
<1> QED  BY <1>2, <1>3, <1>4, <1>5

\* Where its iterator is.
LEMMA ManagedAt ==
  ASSUME NEW m, NEW i, Managed(m, i)
  PROVE  /\ i # H!NoIt => i.cur \in Devices \/ i.cur = Null
         /\ (i # H!NoIt /\ i.cur = Null) => DOMAIN m.val = {}
         /\ \A d \in DOMAIN m.val : i \in {H!NoIt, [i EXCEPT !.cur = d]} => i = H!NoIt \/ i.cur = d
<1>1. PICK ch : Standing(m, i, ch)
  BY DEF Managed
<1>2. H!NoIt.cur = "none"
  BY DEF H!NoIt
<1>3. Null \notin Devices
  BY NullAssumption
<1>4. ASSUME i # H!NoIt, i.cur \in Devices, NEW d, i = [i EXCEPT !.cur = d] PROVE i.cur = d
  <2>1. PICK D : HP!IterNow(m, i, D, ch)
    BY <1>1, <1>3, <1>4 DEF Standing
  <2>2. i = [item |-> i.item, pos |-> i.pos, cur |-> i.cur]
    BY <1>4, <2>1, SameMap DEF HP!IterNow
  <2>3. [[item |-> i.item, pos |-> i.pos, cur |-> i.cur] EXCEPT !.cur = d].cur = d
    OBVIOUS
  <2> QED  BY <1>4, <2>2, <2>3
<1> QED  BY <1>1, <1>3, <1>4 DEF Standing

\* A manager that starts.
LEMMA ManagedEmpty ==
  Managed(H!EmptyMap, H!NoIt) /\ DOMAIN H!EmptyMap.val = {} /\ H!EmptyMap.count = 0
<1>1. \E ch : HP!MapNow(H!EmptyMap, ch)
  BY MapAssumed, SameMap, HP!EmptyNow
<1>2. DOMAIN H!EmptyMap.val = {} /\ H!EmptyMap.count = 0
  BY DEF H!EmptyMap
<1> QED  BY <1>1, <1>2 DEF Managed, Standing

\* hash_map_insert of a channel.
LEMMA ManagedInsert ==
  ASSUME NEW m, Managed(m, H!NoIt), NEW k \in Devices, NEW v \in Channels
  PROVE  /\ Managed(H!Insert(m, k, v), H!NoIt)
         /\ DOMAIN H!Insert(m, k, v).val = DOMAIN m.val \cup {k}
         /\ \A d \in DOMAIN m.val \cup {k} : H!Insert(m, k, v).val[d] = IF d = k THEN v ELSE m.val[d]
<1>1. PICK ch : HP!MapNow(m, ch)
  BY DEF Managed
<1>2. (\E ch2 : HP!MapNow(H!Insert(m, k, v), ch2)) /\ H!Insert(m, k, v).val = HP!Bind(m.val, k, v)
  BY <1>1, MapAssumed, SameInsert, HP!InsertKeeps
<1> QED  BY <1>2 DEF Managed, Standing, HP!Bind

\* hash_map_delete of the channel the iterator is at, or of any if there is none.
LEMMA ManagedDelete ==
  ASSUME NEW m, NEW i, Managed(m, i), NEW k \in DOMAIN m.val, i = H!NoIt \/ i.cur = k
  PROVE  /\ Managed(H!Delete(m, k), i)
         /\ DOMAIN H!Delete(m, k).val = DOMAIN m.val \ {k}
         /\ \A d \in DOMAIN m.val \ {k} : H!Delete(m, k).val[d] = m.val[d]
<1>1. PICK ch : HP!MapNow(m, ch) /\ Standing(m, i, ch)
  BY DEF Managed
<1>2. k \in DOMAIN m.next /\ k \in Devices
  BY <1>1, MapKeys
<1>3. H!Delete(m, k).val = HP!Restrict(m.val, DOMAIN m.val \ {k}) /\ H!Delete(m, k).capacity = m.capacity
  BY <1>1, <1>2, MapAssumed, SameDelete, HP!DeleteKeeps
<1>4. PICK ch2 : HP!MapNow(H!Delete(m, k), ch2) /\ HP!DeletedFrom(m.capacity, ch, k, ch2)
  BY <1>1, <1>2, MapAssumed, SameDelete, HP!DeleteKeeps
<1>5. /\ DOMAIN H!Delete(m, k).val = DOMAIN m.val \ {k}
      /\ \A d \in DOMAIN m.val \ {k} : H!Delete(m, k).val[d] = m.val[d]
  BY <1>3 DEF HP!Restrict
<1>6. Standing(H!Delete(m, k), i, ch2)
  <2>1. CASE i.cur \in Devices /\ i # H!NoIt
    <3>1. PICK D : HP!IterNow(m, i, D, ch) /\ i.cur \notin D /\ DOMAIN m.val \subseteq D \cup {i.cur}
      BY <1>1, <2>1, NullAssumption DEF Standing
    <3>2. k \notin D
      BY <2>1, <3>1
    <3>3. HP!IterNow(H!Delete(m, k), i, D, ch2)
      BY <1>1, <1>2, <1>3, <1>4, <3>1, <3>2, MapAssumed, HP!DeleteIter
    <3> QED  BY <1>5, <2>1, <3>1, <3>3 DEF Standing
  <2> QED  BY <1>1, <1>5, <2>1 DEF Standing
<1> QED  BY <1>4, <1>5, <1>6 DEF Managed

\* hash_map_it_next, with or without items left.
LEMMA StandingNext ==
  ASSUME NEW m, NEW ch, HP!MapNow(m, ch), NEW i, NEW D, HP!IterNow(m, i, D, ch), i # H!NoIt,
         DOMAIN m.val \subseteq D
  PROVE  Managed(m, H!ItNext(m, i)) /\ H!ItNext(m, i) # H!NoIt
<1> DEFINE j == H!ItNext(m, i)
<1>1. \/ j.cur = Null /\ D = {}
      \/ j.cur \in D /\ j.cur \in Devices /\ HP!IterNow(m, j, D \ {j.cur}, ch)
  BY MapAssumed, SameMap, SameNext, HP!NextIter
<1> HIDE DEF j
<1>2. j # H!NoIt
  <2>1. H!NoIt.cur = "none"
    BY DEF H!NoIt
  <2> QED  BY <1>1, <2>1, DevicesAssumption
<1>3. Standing(m, j, ch)
  BY <1>1, <1>2 DEF Standing
<1> QED  BY <1>2, <1>3 DEF Managed, j

\* The first step of a teardown.
LEMMA ManagedBegin ==
  ASSUME NEW m, Managed(m, H!NoIt)
  PROVE  Managed(m, H!ItNext(m, H!ItInit)) /\ H!ItNext(m, H!ItInit) # H!NoIt
<1>1. PICK ch : HP!MapNow(m, ch)
  BY DEF Managed
<1>2. HP!IterNow(m, H!ItInit, DOMAIN m.next, ch)
  BY <1>1, MapAssumed, SameMap, HP!BeginIter
<1>3. H!ItInit # H!NoIt
  <2>1. H!NoIt.cur = "none" /\ H!ItInit.cur = Null
    BY DEF H!NoIt, H!ItInit
  <2> QED  BY <2>1, DevicesAssumption
<1> QED  BY <1>1, <1>2, <1>3, MapKeys, StandingNext

\* The steps that follow, each after the channel the iterator was at is closed.
LEMMA ManagedNext ==
  ASSUME NEW m, NEW i, Managed(m, i), i # H!NoIt, i.cur # Null, i.cur \notin DOMAIN m.val
  PROVE  Managed(m, H!ItNext(m, i)) /\ H!ItNext(m, i) # H!NoIt
<1>1. PICK ch, D : /\ HP!MapNow(m, ch) /\ HP!IterNow(m, i, D, ch)
                   /\ i.cur \notin D /\ DOMAIN m.val \subseteq D \cup {i.cur}
  BY DEF Managed, Standing
<1> QED  BY <1>1, StandingNext

-----------------------------------------------------------------------------
(* The calls that are left of a setup or of a teardown *)

\* Concatenation, element by element.
LEMMA Cat ==
  ASSUME NEW S, NEW s \in Seq(S), NEW t \in Seq(S), NEW u \in Seq(S), Len(u) = Len(s) + Len(t),
         \A i \in 1..Len(u) : u[i] = IF i <= Len(s) THEN s[i] ELSE t[i - Len(s)]
  PROVE  s \o t = u
<1>1. s \o t \in Seq(S) /\ Len(s \o t) = Len(u)
  BY ConcatProperties
<1>2. \A i \in 1..Len(u) : (s \o t)[i] = u[i]
  BY ConcatProperties
<1> QED  BY <1>1, <1>2, SeqEqual

\* Four elements and one more.
LEMMA FourOne ==
  ASSUME NEW a, NEW b, NEW c, NEW d, NEW e
  PROVE  <<a, b, c, d>> \o <<e>> = <<a, b, c, d, e>>
<1> DEFINE S == {a, b, c, d, e}
           s == <<a, b, c, d>>
           t == <<e>>
           u == <<a, b, c, d, e>>
<1>1. s \in Seq(S) /\ t \in Seq(S) /\ u \in Seq(S) /\ Len(s) = 4 /\ Len(t) = 1 /\ Len(u) = 5
  OBVIOUS
<1>2. \A i \in {1, 2, 3, 4, 5} : u[i] = IF i <= 4 THEN s[i] ELSE t[i - 4]
  OBVIOUS
<1> HIDE DEF S, s, t, u
<1>3. 1..5 = {1, 2, 3, 4, 5}
  OBVIOUS
<1>4. \A i \in 1..Len(u) : u[i] = IF i <= Len(s) THEN s[i] ELSE t[i - Len(s)]
  BY <1>1, <1>2, <1>3
<1>5. Len(u) = Len(s) + Len(t)
  BY <1>1
<1>6. s \o t = u
  BY <1>1, <1>4, <1>5, Cat
<1> QED  BY <1>6 DEF s, t, u

\* One element and two or one.
LEMMA OneMore ==
  ASSUME NEW a, NEW b, NEW c
  PROVE  <<a>> \o <<b, c>> = <<a, b, c>> /\ <<a>> \o <<b>> = <<a, b>> /\ <<a>> \o <<>> = <<a>>
<1> DEFINE S == {a, b, c}
<1> DEFINE s == <<a>>
           t == <<b, c>>
           u == <<a, b, c>>
           v == <<b>>
           w == <<a, b>>
           e == <<>>
<1>1. s \in Seq(S) /\ t \in Seq(S) /\ u \in Seq(S) /\ v \in Seq(S) /\ w \in Seq(S)
  OBVIOUS
<1>2. Len(s) = 1 /\ Len(t) = 2 /\ Len(u) = 3 /\ Len(v) = 1 /\ Len(w) = 2
  OBVIOUS
<1>3. /\ \A i \in {1, 2, 3} : u[i] = IF i <= 1 THEN s[i] ELSE t[i - 1]
      /\ \A i \in {1, 2} : w[i] = IF i <= 1 THEN s[i] ELSE v[i - 1]
  OBVIOUS
<1>4. s \o e = s
  BY <1>1, ConcatEmptySeq
<1> HIDE DEF S, s, t, u, v, w
<1>5. 1..3 = {1, 2, 3} /\ 1..2 = {1, 2}
  OBVIOUS
<1>6. s \o t = u
  <2>1. \A i \in 1..Len(u) : u[i] = IF i <= Len(s) THEN s[i] ELSE t[i - Len(s)]
    BY <1>2, <1>3, <1>5
  <2>2. Len(u) = Len(s) + Len(t)
    BY <1>2
  <2> QED  BY <1>1, <2>1, <2>2, Cat
<1>7. s \o v = w
  <2>1. \A i \in 1..Len(w) : w[i] = IF i <= Len(s) THEN s[i] ELSE v[i - Len(s)]
    BY <1>2, <1>3, <1>5
  <2>2. Len(w) = Len(s) + Len(v)
    BY <1>2
  <2> QED  BY <1>1, <2>1, <2>2, Cat
<1> QED  BY <1>4, <1>6, <1>7 DEF s, t, u, v, w

\* The end of a pair of names that a call is about.
OwnEnd(server) == IF server THEN 0 ELSE 1
OtherEnd(server) == IF server THEN 1 ELSE 0

\* What is left of a setup, and of bus_server_start in it.
Tty1 == <<<<"lines">>>>
Tty2 == <<<<"setattr">>, <<"lines">>>>
Tty3 == <<<<"getattr">>, <<"setattr">>, <<"lines">>>>
Tty4 == <<<<"flock">>, <<"getattr">>, <<"setattr">>, <<"lines">>>>
Tty5 == <<<<"ttyopen">>, <<"flock">>, <<"getattr">>, <<"setattr">>, <<"lines">>>>
Msgq1(server) == <<<<"msgget", OtherEnd(server), "r">>>>
Msgq2(server) == <<<<"msgget", OwnEnd(server), "w">>, <<"msgget", OtherEnd(server), "r">>>>
Fifo1 == <<<<"setfl">>>>
Fifo2(server) == <<<<"open", OtherEnd(server), "w">>, <<"setfl">>>>
Fifo3(server) == <<<<"open", OwnEnd(server), "r">>, <<"open", OtherEnd(server), "w">>, <<"setfl">>>>
Fifo4 == <<<<"mkfifo", 1>>, <<"open", 0, "r">>, <<"open", 1, "w">>, <<"setfl">>>>
Fifo5 == <<<<"unlink", 1>>, <<"mkfifo", 1>>, <<"open", 0, "r">>, <<"open", 1, "w">>, <<"setfl">>>>
Fifo6 == <<<<"mkfifo", 0>>, <<"unlink", 1>>, <<"mkfifo", 1>>, <<"open", 0, "r">>, <<"open", 1, "w">>,
           <<"setfl">>>>
Fifo7 == <<<<"unlink", 0>>, <<"mkfifo", 0>>, <<"unlink", 1>>, <<"mkfifo", 1>>, <<"open", 0, "r">>,
           <<"open", 1, "w">>, <<"setfl">>>>
Bus1 == <<<<"connect">>>>
Bus2 == <<<<"access">>, <<"connect">>>>
Start2 == <<<<"listen">>, <<"connect">>>>
Start3 == <<<<"bind">>, <<"listen">>, <<"connect">>>>
Start4 == <<<<"unlink", 0>>, <<"bind">>, <<"listen">>, <<"connect">>>>
Start5 == <<<<"socket">>, <<"unlink", 0>>, <<"bind">>, <<"listen">>, <<"connect">>>>

\* What is left of a teardown.
TtyShut == <<<<"ttyclose">>>>
Remove1(r) == <<<<"rmid", r>>>>
Remove2(w, r) == <<<<"rmid", w>>, <<"rmid", r>>>>
Close1 == <<<<"close">>>>
Close2 == <<<<"close">>, <<"unlink", 0>>>>
Close3 == <<<<"close">>, <<"unlink", 0>>, <<"unlink", 1>>>>
Unlink0 == <<<<"unlink", 0>>>>
Unlink1 == <<<<"unlink", 1>>>>
Unlink2 == <<<<"unlink", 0>>, <<"unlink", 1>>>>

\* The files are made, and opened.
LEMMA FifoMade ==
  <<<<"unlink", 0>>, <<"mkfifo", 0>>, <<"unlink", 1>>, <<"mkfifo", 1>>>>
  \o <<<<"open", 0, "r">>, <<"open", 1, "w">>, <<"setfl">>>> = Fifo7
<1> DEFINE s == <<<<"unlink", 0>>, <<"mkfifo", 0>>, <<"unlink", 1>>, <<"mkfifo", 1>>>>
           t == <<<<"open", 0, "r">>, <<"open", 1, "w">>, <<"setfl">>>>
           S == {<<"unlink", 0>>, <<"mkfifo", 0>>, <<"unlink", 1>>, <<"mkfifo", 1>>,
                 <<"open", 0, "r">>, <<"open", 1, "w">>, <<"setfl">>}
<1>1. s \in Seq(S) /\ t \in Seq(S) /\ Fifo7 \in Seq(S)
  BY DEF Fifo7
<1>2. Len(s) = 4 /\ Len(t) = 3 /\ Len(Fifo7) = 7
  BY DEF Fifo7
<1>3. \A i \in {1, 2, 3, 4, 5, 6, 7} : Fifo7[i] = IF i <= 4 THEN s[i] ELSE t[i - 4]
  BY DEF Fifo7
<1> HIDE DEF S, s, t
<1>4. 1..7 = {1, 2, 3, 4, 5, 6, 7}
  OBVIOUS
<1>5. \A i \in 1..Len(Fifo7) : Fifo7[i] = IF i <= Len(s) THEN s[i] ELSE t[i - Len(s)]
  BY <1>2, <1>3, <1>4
<1>6. Len(Fifo7) = Len(s) + Len(t)
  BY <1>2
<1>7. s \o t = Fifo7
  BY <1>1, <1>5, <1>6, Cat
<1> QED  BY <1>7 DEF s, t

\* The first call of a list, and what is left after it.
Leaves(todo, step, rest) == todo # <<>> /\ Head(todo)[1] = step /\ Tail(todo) = rest
LeavesAt(todo, step, x, rest) == Leaves(todo, step, rest) /\ Head(todo)[2] = x
LeavesFor(todo, step, x, role, rest) == LeavesAt(todo, step, x, rest) /\ Head(todo)[3] = role

LEMMA SetupLeaves ==
  ASSUME NEW server \in BOOLEAN
  PROVE  /\ Leaves(Tty5, "ttyopen", Tty4) /\ Leaves(Tty4, "flock", Tty3)
         /\ Leaves(Tty3, "getattr", Tty2) /\ Leaves(Tty2, "setattr", Tty1)
         /\ Leaves(Tty1, "lines", <<>>)
         /\ LeavesFor(Msgq2(server), "msgget", OwnEnd(server), "w", Msgq1(server))
         /\ LeavesFor(Msgq1(server), "msgget", OtherEnd(server), "r", <<>>)
         /\ LeavesAt(Fifo7, "unlink", 0, Fifo6) /\ LeavesAt(Fifo6, "mkfifo", 0, Fifo5)
         /\ LeavesAt(Fifo5, "unlink", 1, Fifo4) /\ LeavesAt(Fifo4, "mkfifo", 1, Fifo3(TRUE))
         /\ LeavesFor(Fifo3(server), "open", OwnEnd(server), "r", Fifo2(server))
         /\ LeavesFor(Fifo2(server), "open", OtherEnd(server), "w", Fifo1)
         /\ Leaves(Fifo1, "setfl", <<>>)
         /\ Leaves(Bus2, "access", Bus1) /\ Leaves(Bus1, "connect", <<>>)
         /\ Leaves(Start5, "socket", Start4) /\ LeavesAt(Start4, "unlink", 0, Start3)
         /\ Leaves(Start3, "bind", Start2) /\ Leaves(Start2, "listen", Bus1)
<1> USE DEF Leaves, LeavesAt, LeavesFor, OwnEnd, OtherEnd
<1>1. /\ Leaves(Tty5, "ttyopen", Tty4) /\ Leaves(Tty4, "flock", Tty3)
      /\ Leaves(Tty3, "getattr", Tty2) /\ Leaves(Tty2, "setattr", Tty1)
      /\ Leaves(Tty1, "lines", <<>>)
  BY DEF Tty1, Tty2, Tty3, Tty4, Tty5
<1>2. /\ LeavesFor(Msgq2(server), "msgget", OwnEnd(server), "w", Msgq1(server))
      /\ LeavesFor(Msgq1(server), "msgget", OtherEnd(server), "r", <<>>)
  BY DEF Msgq1, Msgq2
<1>3. /\ LeavesAt(Fifo7, "unlink", 0, Fifo6) /\ LeavesAt(Fifo6, "mkfifo", 0, Fifo5)
      /\ LeavesAt(Fifo5, "unlink", 1, Fifo4) /\ LeavesAt(Fifo4, "mkfifo", 1, Fifo3(TRUE))
  BY DEF Fifo3, Fifo4, Fifo5, Fifo6, Fifo7
<1>4. /\ LeavesFor(Fifo3(server), "open", OwnEnd(server), "r", Fifo2(server))
      /\ LeavesFor(Fifo2(server), "open", OtherEnd(server), "w", Fifo1)
      /\ Leaves(Fifo1, "setfl", <<>>)
  BY DEF Fifo1, Fifo2, Fifo3
<1>5. /\ Leaves(Bus2, "access", Bus1) /\ Leaves(Bus1, "connect", <<>>)
      /\ Leaves(Start5, "socket", Start4) /\ LeavesAt(Start4, "unlink", 0, Start3)
      /\ Leaves(Start3, "bind", Start2) /\ Leaves(Start2, "listen", Bus1)
  BY DEF Bus1, Bus2, Start2, Start3, Start4, Start5
<1> QED  BY <1>1, <1>2, <1>3, <1>4, <1>5, Zenon

LEMMA TeardownLeaves ==
  ASSUME NEW r, NEW w
  PROVE  /\ Leaves(TtyShut, "ttyclose", <<>>)
         /\ LeavesAt(Remove2(w, r), "rmid", w, Remove1(r)) /\ LeavesAt(Remove1(r), "rmid", r, <<>>)
         /\ Leaves(Close1, "close", <<>>) /\ Leaves(Close2, "close", Unlink0)
         /\ Leaves(Close3, "close", Unlink2) /\ LeavesAt(Unlink2, "unlink", 0, Unlink1)
         /\ LeavesAt(Unlink0, "unlink", 0, <<>>) /\ LeavesAt(Unlink1, "unlink", 1, <<>>)
BY DEF Leaves, LeavesAt, TtyShut, Remove1, Remove2, Close1, Close2, Close3, Unlink0, Unlink1, Unlink2

\* The lists that a call starts with, and those of bus_server_start.
LEMMA SetupIs ==
  ASSUME NEW server \in BOOLEAN
  PROVE  /\ Setup("uart", server) = Tty5 /\ Setup("msgq", server) = Msgq2(server)
         /\ Setup("fifo", server) = IF server THEN Fifo7 ELSE Fifo3(server)
         /\ Setup("bus", server) = Bus2
         /\ StartServer \o Bus1 = Start5 /\ <<>> \o Bus1 = Bus1
<1>1. Setup("uart", server) = Tty5 /\ Setup("msgq", server) = Msgq2(server) /\ Setup("bus", server) = Bus2
  BY DEF Setup, Tty5, Msgq2, Bus2, OwnEnd, OtherEnd
<1>2. Setup("fifo", server) = IF server THEN Fifo7 ELSE Fifo3(server)
  <2>1. CASE server
    <3>1. Setup("fifo", server) = <<<<"unlink", 0>>, <<"mkfifo", 0>>, <<"unlink", 1>>, <<"mkfifo", 1>>>>
                                  \o <<<<"open", 0, "r">>, <<"open", 1, "w">>, <<"setfl">>>>
      BY <2>1 DEF Setup
    <3> QED  BY <2>1, <3>1, FifoMade, Zenon
  <2>2. CASE ~server
    <3> DEFINE s == <<<<"open", 1, "r">>, <<"open", 0, "w">>, <<"setfl">>>>
    <3>1. Setup("fifo", server) = <<>> \o s
      BY <2>2 DEF Setup
    <3>2. s \in Seq({<<"open", 1, "r">>, <<"open", 0, "w">>, <<"setfl">>})
      OBVIOUS
    <3>3. s = Fifo3(server)
      BY <2>2 DEF Fifo3, OwnEnd, OtherEnd
    <3> HIDE DEF s
    <3> QED  BY <2>2, <3>1, <3>2, <3>3, ConcatEmptySeq
  <2> QED  BY <2>1, <2>2
<1>3. StartServer \o Bus1 = Start5
  BY FourOne DEF StartServer, Bus1, Start5
<1>4. <<>> \o Bus1 = Bus1
  <2>1. Bus1 \in Seq({<<"connect">>})
    BY DEF Bus1
  <2> QED  BY <2>1, ConcatEmptySeq
<1> QED  BY <1>1, <1>2, <1>3, <1>4

LEMMA TeardownIs ==
  ASSUME NEW c, c.server \in BOOLEAN
  PROVE  /\ Teardown("uart", c) = TtyShut
         /\ Teardown("msgq", c) = IF c.server THEN Remove2(c.w, c.r) ELSE <<>>
         /\ Teardown("fifo", c) = IF c.server THEN Close3 ELSE Close1
         /\ Teardown("bus", c) = IF c.l # 0 THEN Close2 ELSE Close1
<1>1. Teardown("uart", c) = TtyShut /\ Teardown("msgq", c) = IF c.server THEN Remove2(c.w, c.r) ELSE <<>>
  BY DEF Teardown, TtyShut, Remove2
<1>2. /\ Teardown("fifo", c) = <<<<"close">>>> \o (IF c.server THEN <<<<"unlink", 0>>, <<"unlink", 1>>>> ELSE <<>>)
      /\ Teardown("bus", c) = <<<<"close">>>> \o (IF c.l # 0 THEN <<<<"unlink", 0>>>> ELSE <<>>)
  BY DEF Teardown
<1>3. /\ <<<<"close">>>> \o <<<<"unlink", 0>>, <<"unlink", 1>>>> = Close3
      /\ <<<<"close">>>> \o <<<<"unlink", 0>>>> = Close2
      /\ <<<<"close">>>> \o <<>> = Close1
  BY OneMore, ZenonT(30) DEF Close1, Close2, Close3
<1>4. Teardown("fifo", c) = IF c.server THEN Close3 ELSE Close1
  BY <1>2, <1>3, Zenon
<1>5. Teardown("bus", c) = IF c.l # 0 THEN Close2 ELSE Close1
  BY <1>2, <1>3, Zenon
<1> QED  BY <1>1, <1>4, <1>5

-----------------------------------------------------------------------------
(* What a process holds *)

Kinds == {"uart", "msgq", "fifo", "bus"}

\* The record of a call.
Called(c) ==
  /\ c = [op |-> c.op, dev |-> c.dev, todo |-> c.todo, server |-> c.server, clean |-> c.clean,
          r |-> c.r, w |-> c.w, l |-> c.l, old |-> c.old]
  /\ c.op \in {"idle", "open", "close"} /\ c.dev \in Devices \cup {Null}
  /\ c.server \in BOOLEAN /\ c.clean \in BOOLEAN /\ c.old \in BOOLEAN
  /\ c.r \in Objects \cup {0} /\ c.w \in Objects \cup {0} /\ c.l \in Objects \cup {0}

\* Call c2 is c with t left to do, and with other ends.
Passes(c, c2, t, r, w, l) ==
  /\ Called(c2) /\ c2.op = c.op /\ c2.dev = c.dev /\ c2.server = c.server
  /\ c2.todo = t /\ c2.r = r /\ c2.w = w /\ c2.l = l

\* The descriptors of a set that are for device d, besides those that were forgotten.
Own(F, d) == {f \in F : f.dev = d /\ f # Lost(d)}

Tty(d) == {Fd(d, "tty", 0)}
Ends(d, c) == {Fd(d, "r", c.r), Fd(d, "w", c.w)}
Listening(d, c) == IF c.l = 0 THEN {} ELSE {Fd(d, "listening", c.l)}
Connected(d, c) == {Fd(d, "w", c.w)} \cup Listening(d, c)

\* The descriptors of an open channel, by its type.
OwnedBy(k, d, c) ==
  CASE k = "uart" -> Tty(d)
    [] k = "msgq" -> {}
    [] k = "fifo" -> Ends(d, c)
    [] k = "bus" -> Connected(d, c)

\* What is left of a setup, and the descriptors O that it has opened by then.
OpeningUart(d, c, O) ==
  \/ c.todo = Tty5 /\ O = {}
  \/ c.todo \in {Tty4, Tty3, Tty2, Tty1, <<>>} /\ O = Tty(d)

OpeningMsgq(c, O) ==
  /\ O = {}
  /\ \/ c.todo = Msgq2(c.server)
     \/ c.todo = Msgq1(c.server) /\ c.w # 0
     \/ c.todo = <<>> /\ c.w # 0 /\ c.r # 0

OpeningFifo(d, c, O) ==
  \/ /\ (c.server /\ c.todo \in {Fifo7, Fifo6, Fifo5, Fifo4}) \/ c.todo = Fifo3(c.server)
     /\ c.r = 0 /\ c.w = 0 /\ O = {}
  \/ c.todo = Fifo2(c.server) /\ c.r # 0 /\ c.w = 0 /\ O = {Fd(d, "r", c.r)}
  \/ c.todo = Fifo1 /\ c.r # 0 /\ c.w # 0 /\ O = Ends(d, c)

OpeningBus(d, c, O) ==
  \/ c.todo = Bus2 /\ c.l = 0 /\ O = {}
  \/ c.todo = Start5 /\ c.l = 0 /\ O = {}
  \/ c.todo \in {Start4, Start3, Start2} /\ c.l # 0 /\ O = {Fd(d, "bound", c.l)}
  \/ c.todo = Bus1 /\ O = Listening(d, c)
  \/ c.todo = <<>> /\ c.w # 0 /\ O = Connected(d, c)

Opening(k, d, c, O) ==
  /\ k # "bus" => c.l = 0
  /\ k = "uart" => OpeningUart(d, c, O)
  /\ k = "msgq" => OpeningMsgq(c, O)
  /\ k = "fifo" => OpeningFifo(d, c, O)
  /\ k = "bus" => OpeningBus(d, c, O)

\* What is left of a teardown, and the descriptors that it has not closed yet.
Closing(k, d, c, O) ==
  /\ k = "uart" => \/ c.todo = TtyShut /\ O = Tty(d)
                   \/ c.todo = <<>> /\ O = {}
  /\ k = "msgq" => O = {} /\ c.todo \in {Remove2(c.w, c.r), Remove1(c.r), <<>>}
  /\ k = "fifo" => \/ c.todo \in {Close3, Close1} /\ O = Ends(d, c)
                   \/ c.todo \in {Unlink2, Unlink1, <<>>} /\ O = {}
  /\ k = "bus" => \/ c.todo \in {Close2, Close1} /\ O = Connected(d, c)
                  \/ c.todo \in {Unlink0, <<>>} /\ O = {}

\* The device that a call is about.
InCall(k, d, c, O, m) ==
  \/ c.op = "open" /\ d \notin DOMAIN m.val /\ Opening(k, d, c, O)
  \/ /\ c.op = "close" /\ d \in DOMAIN m.val /\ Closing(k, d, c, O)
     /\ c.r = m.val[d].r /\ c.w = m.val[d].w /\ c.l = m.val[d].l

\* Every other device.
AtRest(k, d, O, m) ==
  /\ d \in DOMAIN m.val => O = OwnedBy(k, d, m.val[d])
  /\ d \notin DOMAIN m.val => O = {}

\* The ends that an open channel has.
Ended(k, c) ==
  /\ k # "bus" => c.l = 0
  /\ k \in {"msgq", "fifo"} => c.r # 0 /\ c.w # 0
  /\ k = "bus" => c.w # 0

\* The descriptors are typed.
FdsTyped(F) == \A f \in F : f.dev \in Devices /\ f.obj \in Objects \cup {0}

\* The inductive invariant of one process: its call c, its descriptors F, its map m, the
\* iterator i and the count n.
ProcInv(u, c, F, m, i, n) ==
  /\ Called(c) /\ FdsTyped(F) /\ Managed(m, i) /\ n = m.count
  /\ c.op = "idle" => c = Idle
  /\ c.op # "idle" => c.dev \in Devices /\ InCall(u[c.dev].type, c.dev, c, Own(F, c.dev), m)
  /\ i # H!NoIt => c.op = "idle" \/ (c.op = "close" /\ i.cur = c.dev)
  /\ \A d \in Devices : c.dev # d => AtRest(u[d].type, d, Own(F, d), m)
  /\ \A d \in DOMAIN m.val : Ended(u[d].type, m.val[d])

\* How a step changes the record of a call.
LEMMA CallPut ==
  ASSUME NEW c, Called(c)
  PROVE  /\ \A t : Passes(c, [c EXCEPT !.todo = t], t, c.r, c.w, c.l)
         /\ Passes(c, Next1(c), Tail(c.todo), c.r, c.w, c.l)
         /\ \A b \in BOOLEAN : Passes(c, [Next1(c) EXCEPT !.old = b], Tail(c.todo), c.r, c.w, c.l)
         /\ Passes(c, [c EXCEPT !.clean = FALSE], c.todo, c.r, c.w, c.l)
         /\ \A o \in Objects \cup {0} :
              /\ Passes(c, [Next1(c) EXCEPT !["r"] = o], Tail(c.todo), o, c.w, c.l)
              /\ Passes(c, [Next1(c) EXCEPT !["w"] = o], Tail(c.todo), c.r, o, c.l)
              /\ Passes(c, [Next1(c) EXCEPT !.w = o], Tail(c.todo), c.r, o, c.l)
              /\ Passes(c, [Next1(c) EXCEPT !.l = o], Tail(c.todo), c.r, c.w, o)
<1>1. ASSUME NEW t PROVE Passes(c, [c EXCEPT !.todo = t], t, c.r, c.w, c.l)
  BY DEF Called, Passes
<1>2. Passes(c, Next1(c), Tail(c.todo), c.r, c.w, c.l)
  BY <1>1 DEF Next1
<1> DEFINE c1 == Next1(c)
<1>3. Called(c1) /\ c1.op = c.op /\ c1.dev = c.dev /\ c1.server = c.server /\ c1.todo = Tail(c.todo)
      /\ c1.r = c.r /\ c1.w = c.w /\ c1.l = c.l
  BY <1>2 DEF Passes
<1> HIDE DEF c1
<1>4. \A b \in BOOLEAN : Passes(c, [c1 EXCEPT !.old = b], Tail(c.todo), c.r, c.w, c.l)
  BY <1>3 DEF Called, Passes
<1>5. Passes(c, [c EXCEPT !.clean = FALSE], c.todo, c.r, c.w, c.l)
  <2>1. \A b \in BOOLEAN : Passes(c, [c EXCEPT !.clean = b], c.todo, c.r, c.w, c.l)
    BY DEF Called, Passes
  <2> QED  BY <2>1
<1>6. \A o : [c1 EXCEPT !["r"] = o] = [c1 EXCEPT !.r = o] /\ [c1 EXCEPT !["w"] = o] = [c1 EXCEPT !.w = o]
  OBVIOUS
<1>7. \A o \in Objects \cup {0} : Passes(c, [c1 EXCEPT !.r = o], Tail(c.todo), o, c.w, c.l)
  BY <1>3 DEF Called, Passes
<1>8. \A o \in Objects \cup {0} : Passes(c, [c1 EXCEPT !.w = o], Tail(c.todo), c.r, o, c.l)
  BY <1>3 DEF Called, Passes
<1>9. \A o \in Objects \cup {0} : Passes(c, [c1 EXCEPT !.l = o], Tail(c.todo), c.r, c.w, o)
  BY <1>3 DEF Called, Passes
<1> QED  BY <1>1, <1>2, <1>4, <1>5, <1>6, <1>7, <1>8, <1>9 DEF c1

-----------------------------------------------------------------------------
(* One system call of a setup or of a teardown *)

\* The call that is due.
Due(c, step) == c.todo # <<>> /\ Head(c.todo)[1] = step
DueArg(c) == Head(c.todo)[2]
DueRole(c) == Head(c.todo)[3]

Quiet == {"flock", "getattr", "setattr", "lines", "unlink", "mkfifo", "bind", "rmid"}

\* A setup by its type: which call is due, what is open before it, and what is left after it.
LEMMA UartDue ==
  ASSUME NEW d, NEW c, NEW O, OpeningUart(d, c, O), NEW s, Due(c, s)
  PROVE  \/ s = "ttyopen" /\ O = {} /\ Tail(c.todo) = Tty4
         \/ /\ s \in {"flock", "getattr", "setattr", "lines"} /\ O = Tty(d)
            /\ Tail(c.todo) \in {Tty3, Tty2, Tty1, <<>>}
<1>1. /\ Leaves(Tty5, "ttyopen", Tty4) /\ Leaves(Tty4, "flock", Tty3)
      /\ Leaves(Tty3, "getattr", Tty2) /\ Leaves(Tty2, "setattr", Tty1)
      /\ Leaves(Tty1, "lines", <<>>)
  BY SetupLeaves
<1> QED  BY <1>1 DEF OpeningUart, Due, Leaves

LEMMA MsgqDue ==
  ASSUME NEW c, NEW O, OpeningMsgq(c, O), c.server \in BOOLEAN, NEW s, Due(c, s)
  PROVE  /\ s = "msgget" /\ O = {}
         /\ \/ DueRole(c) = "w" /\ DueArg(c) = OwnEnd(c.server) /\ Tail(c.todo) = Msgq1(c.server)
            \/ DueRole(c) = "r" /\ DueArg(c) = OtherEnd(c.server) /\ Tail(c.todo) = <<>> /\ c.w # 0
<1>1. /\ LeavesFor(Msgq2(c.server), "msgget", OwnEnd(c.server), "w", Msgq1(c.server))
      /\ LeavesFor(Msgq1(c.server), "msgget", OtherEnd(c.server), "r", <<>>)
  BY SetupLeaves
<1> QED  BY <1>1 DEF OpeningMsgq, Due, DueArg, DueRole, Leaves, LeavesAt, LeavesFor

LEMMA FifoDue ==
  ASSUME NEW d, NEW c, NEW O, OpeningFifo(d, c, O), c.server \in BOOLEAN, NEW s, Due(c, s)
  PROVE  \/ /\ s \in {"unlink", "mkfifo"} /\ O = {} /\ c.r = 0 /\ c.w = 0 /\ DueArg(c) \in {0, 1}
            /\ (c.server /\ Tail(c.todo) \in {Fifo6, Fifo5, Fifo4}) \/ Tail(c.todo) = Fifo3(c.server)
         \/ /\ s = "open" /\ DueRole(c) = "r" /\ DueArg(c) = OwnEnd(c.server) /\ O = {} /\ c.w = 0 /\ c.r = 0
            /\ Tail(c.todo) = Fifo2(c.server)
         \/ /\ s = "open" /\ DueRole(c) = "w" /\ DueArg(c) = OtherEnd(c.server)
            /\ c.r # 0 /\ c.w = 0 /\ O = {Fd(d, "r", c.r)} /\ Tail(c.todo) = Fifo1
         \/ s = "setfl" /\ O = Ends(d, c) /\ c.r # 0 /\ c.w # 0
<1>1. /\ LeavesAt(Fifo7, "unlink", 0, Fifo6) /\ LeavesAt(Fifo6, "mkfifo", 0, Fifo5)
      /\ LeavesAt(Fifo5, "unlink", 1, Fifo4) /\ LeavesAt(Fifo4, "mkfifo", 1, Fifo3(TRUE))
  BY SetupLeaves
<1>2. /\ LeavesFor(Fifo3(c.server), "open", OwnEnd(c.server), "r", Fifo2(c.server))
      /\ LeavesFor(Fifo2(c.server), "open", OtherEnd(c.server), "w", Fifo1)
      /\ Leaves(Fifo1, "setfl", <<>>)
  BY SetupLeaves
<1>3. CASE c.server /\ c.todo \in {Fifo7, Fifo6, Fifo5, Fifo4} /\ c.r = 0 /\ c.w = 0 /\ O = {}
  <2>1. c.server = TRUE
    BY <1>3
  <2> QED  BY <1>1, <1>3, <2>1 DEF Due, DueArg, Leaves, LeavesAt
<1>4. CASE c.todo = Fifo3(c.server) /\ c.r = 0 /\ c.w = 0 /\ O = {}
  BY <1>2, <1>4 DEF Due, DueArg, DueRole, Leaves, LeavesAt, LeavesFor
<1>5. CASE c.todo = Fifo2(c.server) /\ c.r # 0 /\ c.w = 0 /\ O = {Fd(d, "r", c.r)}
  BY <1>2, <1>5 DEF Due, DueArg, DueRole, Leaves, LeavesAt, LeavesFor
<1>6. CASE c.todo = Fifo1 /\ O = Ends(d, c) /\ c.r # 0 /\ c.w # 0
  BY <1>2, <1>6 DEF Due, Leaves
<1> QED  BY <1>3, <1>4, <1>5, <1>6 DEF OpeningFifo

LEMMA BusDue ==
  ASSUME NEW d, NEW c, NEW O, OpeningBus(d, c, O), NEW s, Due(c, s)
  PROVE  \/ s = "access" /\ O = {} /\ c.l = 0 /\ Tail(c.todo) = Bus1
         \/ s = "socket" /\ O = {} /\ c.l = 0 /\ Tail(c.todo) = Start4
         \/ /\ s \in {"unlink", "bind"} /\ O = {Fd(d, "bound", c.l)} /\ c.l # 0
            /\ Tail(c.todo) \in {Start3, Start2} /\ (s = "unlink" => DueArg(c) = 0)
         \/ s = "listen" /\ O = {Fd(d, "bound", c.l)} /\ c.l # 0 /\ Tail(c.todo) = Bus1
         \/ s = "connect" /\ O = Listening(d, c) /\ Tail(c.todo) = <<>>
<1>1. /\ Leaves(Bus2, "access", Bus1) /\ Leaves(Bus1, "connect", <<>>)
      /\ Leaves(Start5, "socket", Start4) /\ LeavesAt(Start4, "unlink", 0, Start3)
      /\ Leaves(Start3, "bind", Start2) /\ Leaves(Start2, "listen", Bus1)
  BY SetupLeaves
<1> QED  BY <1>1 DEF OpeningBus, Due, DueArg, Leaves, LeavesAt

\* A teardown.
LEMMA ClosingDue ==
  ASSUME NEW k \in Kinds, NEW d, NEW c, NEW O, Closing(k, d, c, O), NEW s, Due(c, s)
  PROVE  \/ k = "uart" /\ s = "ttyclose" /\ O = Tty(d) /\ Tail(c.todo) = <<>>
         \/ /\ k = "msgq" /\ s = "rmid" /\ O = {} /\ DueArg(c) \in {c.w, c.r}
            /\ Tail(c.todo) \in {Remove1(c.r), <<>>}
         \/ /\ k = "fifo" /\ s = "close" /\ O = Ends(d, c)
            /\ Tail(c.todo) \in {Unlink2, <<>>}
         \/ /\ k = "fifo" /\ s = "unlink" /\ O = {} /\ DueArg(c) \in {0, 1}
            /\ Tail(c.todo) \in {Unlink1, <<>>}
         \/ /\ k = "bus" /\ s = "close" /\ O = Connected(d, c)
            /\ Tail(c.todo) \in {Unlink0, <<>>}
         \/ k = "bus" /\ s = "unlink" /\ O = {} /\ DueArg(c) = 0 /\ Tail(c.todo) = <<>>
<1>1. /\ Leaves(TtyShut, "ttyclose", <<>>)
      /\ LeavesAt(Remove2(c.w, c.r), "rmid", c.w, Remove1(c.r))
      /\ LeavesAt(Remove1(c.r), "rmid", c.r, <<>>)
      /\ Leaves(Close1, "close", <<>>) /\ Leaves(Close2, "close", Unlink0)
      /\ Leaves(Close3, "close", Unlink2) /\ LeavesAt(Unlink2, "unlink", 0, Unlink1)
      /\ LeavesAt(Unlink0, "unlink", 0, <<>>) /\ LeavesAt(Unlink1, "unlink", 1, <<>>)
  BY TeardownLeaves
<1>2. CASE k = "uart"
  BY <1>1, <1>2 DEF Closing, Due, DueArg, Leaves, LeavesAt
<1>3. CASE k = "msgq"
  BY <1>1, <1>3 DEF Closing, Due, DueArg, Leaves, LeavesAt
<1>4. CASE k = "fifo"
  <2>1. CASE c.todo \in {Close3, Close1} /\ O = Ends(d, c)
    BY <1>1, <1>4, <2>1 DEF Due, Leaves
  <2>2. CASE c.todo \in {Unlink2, Unlink1} /\ O = {}
    BY <1>1, <1>4, <2>2 DEF Due, DueArg, Leaves, LeavesAt
  <2>3. c.todo # <<>>
    BY DEF Due
  <2> QED  BY <1>4, <2>1, <2>2, <2>3 DEF Closing
<1>5. CASE k = "bus"
  <2>1. CASE c.todo \in {Close2, Close1} /\ O = Connected(d, c)
    BY <1>1, <1>5, <2>1 DEF Due, Leaves
  <2>2. CASE c.todo = Unlink0 /\ O = {}
    BY <1>1, <1>5, <2>2 DEF Due, DueArg, Leaves, LeavesAt
  <2>3. c.todo # <<>>
    BY DEF Due
  <2> QED  BY <1>5, <2>1, <2>2, <2>3 DEF Closing
<1> QED  BY <1>2, <1>3, <1>4, <1>5 DEF Kinds

\* What is known of a call that is due, whatever the type of the device.
DueFacts(k, d, c, O, s) ==
  LET t == Tail(c.todo)
  IN /\ s = "ttyopen" => c.op = "open" /\ k = "uart" /\ O = {} /\ t = Tty4
     /\ s \in {"flock", "getattr", "setattr", "lines"} =>
          c.op = "open" /\ k = "uart" /\ O = Tty(d) /\ t \in {Tty3, Tty2, Tty1, <<>>}
     /\ s = "msgget" =>
          /\ c.op = "open" /\ k = "msgq" /\ O = {}
          /\ \/ DueRole(c) = "w" /\ DueArg(c) = OwnEnd(c.server) /\ t = Msgq1(c.server)
             \/ DueRole(c) = "r" /\ DueArg(c) = OtherEnd(c.server) /\ t = <<>> /\ c.w # 0
     /\ s = "mkfifo" \/ (s = "unlink" /\ c.op = "open" /\ k # "bus") =>
          /\ c.op = "open" /\ k = "fifo" /\ O = {} /\ c.r = 0 /\ c.w = 0 /\ DueArg(c) \in {0, 1}
          /\ (c.server /\ t \in {Fifo6, Fifo5, Fifo4}) \/ t = Fifo3(c.server)
     /\ s = "open" =>
          /\ c.op = "open" /\ k = "fifo"
          /\ \/ /\ DueRole(c) = "r" /\ DueArg(c) = OwnEnd(c.server) /\ O = {} /\ c.w = 0 /\ c.r = 0
                /\ t = Fifo2(c.server)
             \/ /\ DueRole(c) = "w" /\ DueArg(c) = OtherEnd(c.server)
                /\ c.r # 0 /\ c.w = 0 /\ O = {Fd(d, "r", c.r)} /\ t = Fifo1
     /\ s = "setfl" => c.op = "open" /\ k = "fifo" /\ O = Ends(d, c) /\ c.r # 0 /\ c.w # 0
     /\ s = "access" => c.op = "open" /\ k = "bus" /\ O = {} /\ c.l = 0 /\ t = Bus1
     /\ s = "socket" => c.op = "open" /\ k = "bus" /\ O = {} /\ c.l = 0 /\ t = Start4
     /\ s = "bind" \/ (s = "unlink" /\ c.op = "open" /\ k = "bus") =>
          /\ c.op = "open" /\ k = "bus" /\ O = {Fd(d, "bound", c.l)} /\ c.l # 0
          /\ t \in {Start3, Start2} /\ (s = "unlink" => DueArg(c) = 0)
     /\ s = "listen" => /\ c.op = "open" /\ k = "bus" /\ O = {Fd(d, "bound", c.l)} /\ c.l # 0
                        /\ t = Bus1
     /\ s = "connect" => c.op = "open" /\ k = "bus" /\ O = Listening(d, c) /\ t = <<>>
     /\ s = "ttyclose" => c.op = "close" /\ k = "uart" /\ O = Tty(d) /\ t = <<>>
     /\ s = "rmid" => /\ c.op = "close" /\ k = "msgq" /\ O = {} /\ DueArg(c) \in {c.w, c.r}
                      /\ t \in {Remove1(c.r), <<>>}
     /\ s = "close" => /\ c.op = "close" /\ k \in {"fifo", "bus"} /\ O = OwnedBy(k, d, c)
                       /\ t \in IF k = "fifo" THEN {Unlink2, <<>>} ELSE {Unlink0, <<>>}
     /\ s = "unlink" /\ c.op = "close" =>
          /\ k \in {"fifo", "bus"} /\ O = {} /\ DueArg(c) \in {0, 1}
          /\ t \in IF k = "fifo" THEN {Unlink1, <<>>} ELSE {<<>>}

LEMMA CallDue ==
  ASSUME NEW k \in Kinds, NEW d, NEW c, NEW O, NEW m, InCall(k, d, c, O, m), Called(c),
         NEW s, Due(c, s)
  PROVE  DueFacts(k, d, c, O, s)
<1>1. c.server \in BOOLEAN
  BY DEF Called
<1>2. CASE c.op = "open" /\ k = "uart"
  <2>1. OpeningUart(d, c, O)
    BY <1>2 DEF InCall, Opening
  <2> QED  BY <1>2, <2>1, UartDue DEF DueFacts
<1>3. CASE c.op = "open" /\ k = "msgq"
  <2>1. OpeningMsgq(c, O)
    BY <1>3 DEF InCall, Opening
  <2> QED  BY <1>1, <1>3, <2>1, MsgqDue DEF DueFacts
<1>4. CASE c.op = "open" /\ k = "fifo"
  <2>1. OpeningFifo(d, c, O)
    BY <1>4 DEF InCall, Opening
  <2> QED  BY <1>1, <1>4, <2>1, FifoDue DEF DueFacts
<1>5. CASE c.op = "open" /\ k = "bus"
  <2>1. OpeningBus(d, c, O)
    BY <1>5 DEF InCall, Opening
  <2> QED  BY <1>5, <2>1, BusDue DEF DueFacts
<1>6. CASE c.op = "close"
  <2>1. Closing(k, d, c, O)
    BY <1>6 DEF InCall
  <2>2. k = "fifo" => OwnedBy(k, d, c) = Ends(d, c)
    BY DEF OwnedBy
  <2>3. k = "bus" => OwnedBy(k, d, c) = Connected(d, c)
    BY DEF OwnedBy
  <2> QED  BY <1>6, <2>1, <2>2, <2>3, ClosingDue, ZenonT(40) DEF DueFacts
<1> QED  BY <1>2, <1>3, <1>4, <1>5, <1>6 DEF InCall, Kinds

-----------------------------------------------------------------------------
(* The steps of a call, and what they do to its process *)

\* The steps that neither open nor close.
LEMMA QuietStep ==
  ASSUME NEW k \in Kinds, NEW d, NEW c, NEW O, NEW m, InCall(k, d, c, O, m), Called(c),
         NEW s \in Quiet, Due(c, s), NEW c2, Passes(c, c2, Tail(c.todo), c.r, c.w, c.l)
  PROVE  InCall(k, d, c2, O, m)
<1>1. DueFacts(k, d, c, O, s)
  BY CallDue
<1>2. /\ c2.op = c.op /\ c2.server = c.server /\ c2.todo = Tail(c.todo)
      /\ c2.r = c.r /\ c2.w = c.w /\ c2.l = c.l
  BY DEF Passes
<1>3. Ends(d, c2) = Ends(d, c) /\ Connected(d, c2) = Connected(d, c) /\ Listening(d, c2) = Listening(d, c)
  BY <1>2 DEF Ends, Connected, Listening
<1>4. CASE c.op = "open"
  <2>1. Opening(k, d, c, O)
    BY <1>4 DEF InCall
  <2>2. CASE k = "uart"
    <3>1. OpeningUart(d, c2, O)
      BY <1>1, <1>2, <1>4, <2>2 DEF DueFacts, Quiet, OpeningUart
    <3> QED  BY <1>2, <1>4, <2>1, <2>2, <3>1 DEF InCall, Opening
  <2>3. CASE k = "fifo"
    <3>1. OpeningFifo(d, c2, O)
      BY <1>1, <1>2, <1>4, <2>3 DEF DueFacts, Quiet, OpeningFifo
    <3> QED  BY <1>2, <1>4, <2>1, <2>3, <3>1 DEF InCall, Opening
  <2>4. CASE k = "bus"
    <3>1. OpeningBus(d, c2, O)
      BY <1>1, <1>2, <1>4, <2>4 DEF DueFacts, Quiet, OpeningBus
    <3> QED  BY <1>2, <1>4, <2>1, <2>4, <3>1 DEF InCall, Opening
  <2>5. k # "msgq"
    BY <1>1, <1>4 DEF DueFacts, Quiet
  <2> QED  BY <2>2, <2>3, <2>4, <2>5 DEF Kinds
<1>5. CASE c.op = "close"
  <2>1. /\ k \in {"fifo", "bus", "msgq"} /\ O = {}
        /\ k = "fifo" => c2.todo \in {Unlink1, <<>>}
        /\ k = "bus" => c2.todo = <<>>
        /\ k = "msgq" => c2.todo \in {Remove1(c.r), <<>>}
    BY <1>1, <1>2, <1>5 DEF DueFacts, Quiet
  <2>2. Closing(k, d, c2, O)
    BY <1>2, <2>1 DEF Closing
  <2> QED  BY <1>2, <1>5, <2>2 DEF InCall
<1> QED  BY <1>4, <1>5 DEF InCall

\* access, with or without a socket there.
LEMMA AccessStep ==
  ASSUME NEW k \in Kinds, NEW d, NEW c, NEW O, NEW m, InCall(k, d, c, O, m), Called(c),
         Due(c, "access"), NEW there \in BOOLEAN, NEW c2,
         Passes(c, c2, (IF there THEN <<>> ELSE StartServer) \o Tail(c.todo), c.r, c.w, c.l)
  PROVE  InCall(k, d, c2, O, m)
<1>1. c.op = "open" /\ k = "bus" /\ O = {} /\ c.l = 0 /\ Tail(c.todo) = Bus1
  <2>1. DueFacts(k, d, c, O, "access")
    BY CallDue
  <2> QED  BY <2>1 DEF DueFacts
<1>2. c2.todo = Start5 \/ c2.todo = Bus1
  BY <1>1, SetupIs DEF Passes
<1>3. c2.op = "open" /\ c2.l = 0
  BY <1>1 DEF Passes
<1>4. Listening(d, c2) = {}
  BY <1>3 DEF Listening
<1>5. OpeningBus(d, c2, O)
  BY <1>1, <1>2, <1>3, <1>4 DEF OpeningBus
<1>6. d \notin DOMAIN m.val
  BY <1>1 DEF InCall
<1> QED  BY <1>1, <1>3, <1>5, <1>6 DEF InCall, Opening

\* serial_open opens the terminal, and serial_close closes it.
LEMMA TtyOpenStep ==
  ASSUME NEW k \in Kinds, NEW d, NEW c, NEW O, NEW m, InCall(k, d, c, O, m), Called(c),
         Due(c, "ttyopen"), NEW c2, Passes(c, c2, Tail(c.todo), c.r, c.w, c.l)
  PROVE  O = {} /\ InCall(k, d, c2, Tty(d), m)
<1>1. c.op = "open" /\ k = "uart" /\ O = {} /\ Tail(c.todo) = Tty4
  <2>1. DueFacts(k, d, c, O, "ttyopen")
    BY CallDue
  <2> QED  BY <2>1 DEF DueFacts
<1>2. c2.op = "open" /\ c2.todo = Tty4 /\ c2.l = c.l
  BY <1>1 DEF Passes
<1>3. OpeningUart(d, c2, Tty(d))
  BY <1>2 DEF OpeningUart
<1>4. d \notin DOMAIN m.val /\ c.l = 0
  BY <1>1 DEF InCall, Opening
<1> QED  BY <1>1, <1>2, <1>3, <1>4 DEF InCall, Opening

LEMMA TtyCloseStep ==
  ASSUME NEW k \in Kinds, NEW d, NEW c, NEW O, NEW m, InCall(k, d, c, O, m), Called(c),
         Due(c, "ttyclose"), NEW c2, Passes(c, c2, Tail(c.todo), c.r, c.w, c.l)
  PROVE  O = Tty(d) /\ InCall(k, d, c2, {}, m)
<1>1. c.op = "close" /\ k = "uart" /\ O = Tty(d) /\ Tail(c.todo) = <<>>
  <2>1. DueFacts(k, d, c, O, "ttyclose")
    BY CallDue
  <2> QED  BY <2>1 DEF DueFacts
<1>2. c2.op = "close" /\ c2.todo = <<>> /\ c2.l = c.l /\ c2.r = c.r /\ c2.w = c.w
  BY <1>1 DEF Passes
<1>3. Closing(k, d, c2, {})
  BY <1>1, <1>2 DEF Closing
<1> QED  BY <1>1, <1>2, <1>3 DEF InCall

\* A fifo is opened for reading, then the other one for writing.
LEMMA OpenStep ==
  ASSUME NEW k \in Kinds, NEW d, NEW c, NEW O, NEW m, InCall(k, d, c, O, m), Called(c),
         Due(c, "open"), NEW o, o # 0, NEW c2
  PROVE  /\ DueRole(c) \in {"r", "w"} /\ DueArg(c) \in {0, 1}
         /\ (DueRole(c) = "r" /\ Passes(c, c2, Tail(c.todo), o, c.w, c.l)) \/
            (DueRole(c) = "w" /\ Passes(c, c2, Tail(c.todo), c.r, o, c.l))
            => InCall(k, d, c2, O \cup {Fd(d, DueRole(c), o)}, m)
<1>1. /\ c.op = "open" /\ k = "fifo"
      /\ \/ /\ DueRole(c) = "r" /\ DueArg(c) = OwnEnd(c.server) /\ O = {} /\ c.w = 0 /\ c.r = 0
            /\ Tail(c.todo) = Fifo2(c.server)
         \/ /\ DueRole(c) = "w" /\ DueArg(c) = OtherEnd(c.server)
            /\ c.r # 0 /\ c.w = 0 /\ O = {Fd(d, "r", c.r)} /\ Tail(c.todo) = Fifo1
  <2>1. DueFacts(k, d, c, O, "open")
    BY CallDue
  <2> QED  BY <2>1 DEF DueFacts
<1>2. d \notin DOMAIN m.val /\ c.l = 0
  BY <1>1 DEF InCall, Opening
<1>3. ASSUME DueRole(c) = "r", Passes(c, c2, Tail(c.todo), o, c.w, c.l)
      PROVE  InCall(k, d, c2, O \cup {Fd(d, DueRole(c), o)}, m)
  <2>1. /\ c2.op = "open" /\ c2.todo = Fifo2(c2.server) /\ c2.r = o /\ c2.w = 0 /\ c2.l = 0
        /\ O \cup {Fd(d, DueRole(c), o)} = {Fd(d, "r", c2.r)}
    BY <1>1, <1>2, <1>3 DEF Passes
  <2>2. OpeningFifo(d, c2, O \cup {Fd(d, DueRole(c), o)})
    BY <2>1 DEF OpeningFifo
  <2> QED  BY <1>1, <1>2, <2>1, <2>2 DEF InCall, Opening
<1>4. ASSUME DueRole(c) = "w", Passes(c, c2, Tail(c.todo), c.r, o, c.l)
      PROVE  InCall(k, d, c2, O \cup {Fd(d, DueRole(c), o)}, m)
  <2>1. /\ c2.op = "open" /\ c2.todo = Fifo1 /\ c2.r = c.r /\ c2.r # 0 /\ c2.w = o /\ c2.l = 0
        /\ O \cup {Fd(d, DueRole(c), o)} = {Fd(d, "r", c2.r), Fd(d, "w", c2.w)}
    BY <1>1, <1>2, <1>4 DEF Passes
  <2>2. OpeningFifo(d, c2, O \cup {Fd(d, DueRole(c), o)})
    BY <2>1 DEF OpeningFifo, Ends
  <2> QED  BY <1>1, <1>2, <2>1, <2>2 DEF InCall, Opening
<1> QED  BY <1>1, <1>3, <1>4 DEF OwnEnd, OtherEnd

\* The two queues of a device.
LEMMA MsgGetStep ==
  ASSUME NEW k \in Kinds, NEW d, NEW c, NEW O, NEW m, InCall(k, d, c, O, m), Called(c),
         Due(c, "msgget"), NEW o, o # 0, NEW c2
  PROVE  /\ DueRole(c) \in {"r", "w"} /\ DueArg(c) \in {0, 1}
         /\ (DueRole(c) = "r" /\ Passes(c, c2, Tail(c.todo), o, c.w, c.l)) \/
            (DueRole(c) = "w" /\ Passes(c, c2, Tail(c.todo), c.r, o, c.l))
            => InCall(k, d, c2, O, m)
<1>1. /\ c.op = "open" /\ k = "msgq" /\ O = {}
      /\ \/ DueRole(c) = "w" /\ DueArg(c) = OwnEnd(c.server) /\ Tail(c.todo) = Msgq1(c.server)
         \/ DueRole(c) = "r" /\ DueArg(c) = OtherEnd(c.server) /\ Tail(c.todo) = <<>> /\ c.w # 0
  <2>1. DueFacts(k, d, c, O, "msgget")
    BY CallDue
  <2> QED  BY <2>1 DEF DueFacts
<1>2. d \notin DOMAIN m.val /\ c.l = 0
  BY <1>1 DEF InCall, Opening
<1>3. ASSUME DueRole(c) = "r", Passes(c, c2, Tail(c.todo), o, c.w, c.l) PROVE InCall(k, d, c2, O, m)
  <2>1. c2.op = "open" /\ c2.todo = <<>> /\ c2.r # 0 /\ c2.w # 0 /\ c2.l = 0
    BY <1>1, <1>2, <1>3 DEF Passes
  <2>2. OpeningMsgq(c2, O)
    BY <1>1, <2>1 DEF OpeningMsgq
  <2> QED  BY <1>1, <1>2, <2>1, <2>2 DEF InCall, Opening
<1>4. ASSUME DueRole(c) = "w", Passes(c, c2, Tail(c.todo), c.r, o, c.l) PROVE InCall(k, d, c2, O, m)
  <2>1. c2.op = "open" /\ c2.todo = Msgq1(c2.server) /\ c2.w # 0 /\ c2.l = 0
    BY <1>1, <1>2, <1>4 DEF Passes
  <2>2. OpeningMsgq(c2, O)
    BY <1>1, <2>1 DEF OpeningMsgq
  <2> QED  BY <1>1, <1>2, <2>1, <2>2 DEF InCall, Opening
<1> QED  BY <1>1, <1>3, <1>4 DEF OwnEnd, OtherEnd

\* bus_server_start gets a socket, and listens on it.
LEMMA SocketStep ==
  ASSUME NEW k \in Kinds, NEW d, NEW c, NEW O, NEW m, InCall(k, d, c, O, m), Called(c),
         Due(c, "socket"), NEW o, o # 0, NEW c2, Passes(c, c2, Tail(c.todo), c.r, c.w, o)
  PROVE  O = {} /\ InCall(k, d, c2, {Fd(d, "bound", o)}, m)
<1>1. c.op = "open" /\ k = "bus" /\ O = {} /\ Tail(c.todo) = Start4
  <2>1. DueFacts(k, d, c, O, "socket")
    BY CallDue
  <2> QED  BY <2>1 DEF DueFacts
<1>2. c2.op = "open" /\ c2.todo = Start4 /\ c2.l = o
  BY <1>1 DEF Passes
<1>3. OpeningBus(d, c2, {Fd(d, "bound", o)})
  BY <1>2 DEF OpeningBus
<1>4. d \notin DOMAIN m.val
  BY <1>1 DEF InCall
<1> QED  BY <1>1, <1>2, <1>3, <1>4 DEF InCall, Opening

LEMMA ListenStep ==
  ASSUME NEW k \in Kinds, NEW d, NEW c, NEW O, NEW m, InCall(k, d, c, O, m), Called(c),
         Due(c, "listen"), NEW c2, Passes(c, c2, Tail(c.todo), c.r, c.w, c.l)
  PROVE  O = {Fd(d, "bound", c.l)} /\ InCall(k, d, c2, {Fd(d, "listening", c.l)}, m)
<1>1. c.op = "open" /\ k = "bus" /\ O = {Fd(d, "bound", c.l)} /\ c.l # 0 /\ Tail(c.todo) = Bus1
  <2>1. DueFacts(k, d, c, O, "listen")
    BY CallDue
  <2> QED  BY <2>1 DEF DueFacts
<1>2. c2.op = "open" /\ c2.todo = Bus1 /\ c2.l = c.l
  BY <1>1 DEF Passes
<1>3. Listening(d, c2) = {Fd(d, "listening", c.l)}
  BY <1>1, <1>2 DEF Listening
<1>4. OpeningBus(d, c2, {Fd(d, "listening", c.l)})
  BY <1>2, <1>3 DEF OpeningBus
<1>5. d \notin DOMAIN m.val
  BY <1>1 DEF InCall
<1> QED  BY <1>1, <1>2, <1>4, <1>5 DEF InCall, Opening

\* A client, or the server itself, connects.
LEMMA ConnectStep ==
  ASSUME NEW k \in Kinds, NEW d, NEW c, NEW O, NEW m, InCall(k, d, c, O, m), Called(c),
         Due(c, "connect"), NEW o, o # 0, NEW c2, Passes(c, c2, Tail(c.todo), c.r, o, c.l)
  PROVE  InCall(k, d, c2, O \cup {Fd(d, "w", o)}, m)
<1>1. c.op = "open" /\ k = "bus" /\ O = Listening(d, c) /\ Tail(c.todo) = <<>>
  <2>1. DueFacts(k, d, c, O, "connect")
    BY CallDue
  <2> QED  BY <2>1 DEF DueFacts
<1>2. c2.op = "open" /\ c2.todo = <<>> /\ c2.l = c.l /\ c2.w = o
  BY <1>1 DEF Passes
<1>3. Connected(d, c2) = O \cup {Fd(d, "w", o)}
  BY <1>1, <1>2 DEF Listening, Connected
<1>4. OpeningBus(d, c2, O \cup {Fd(d, "w", o)})
  BY <1>2, <1>3 DEF OpeningBus
<1>5. d \notin DOMAIN m.val
  BY <1>1 DEF InCall
<1> QED  BY <1>1, <1>2, <1>4, <1>5 DEF InCall, Opening

\* A teardown closes all that the channel has.
LEMMA CloseStep ==
  ASSUME NEW k \in Kinds, NEW d, NEW c, NEW O, NEW m, InCall(k, d, c, O, m), Called(c),
         Due(c, "close"), NEW c2, Passes(c, c2, Tail(c.todo), c.r, c.w, c.l)
  PROVE  InCall(k, d, c2, {}, m)
<1>1. /\ c.op = "close" /\ k \in {"fifo", "bus"}
      /\ k = "fifo" => Tail(c.todo) \in {Unlink2, <<>>}
      /\ k = "bus" => Tail(c.todo) \in {Unlink0, <<>>}
  <2>1. DueFacts(k, d, c, O, "close")
    BY CallDue
  <2> QED  BY <2>1 DEF DueFacts
<1>2. c2.op = "close" /\ c2.todo = Tail(c.todo) /\ c2.l = c.l /\ c2.r = c.r /\ c2.w = c.w
  BY <1>1 DEF Passes
<1>3. Closing(k, d, c2, {})
  BY <1>1, <1>2 DEF Closing
<1> QED  BY <1>1, <1>2, <1>3 DEF InCall

\* A setup that is done has the descriptors of its channel.
LEMMA Opened ==
  ASSUME NEW k \in Kinds, NEW d, NEW c, NEW O, NEW m, InCall(k, d, c, O, m), Called(c),
         c.op = "open", c.todo \in {<<>>, <<<<"setfl">>>>}
  PROVE  O = OwnedBy(k, d, c) /\ Ended(k, c)
<1>1. CASE c.todo = <<<<"setfl">>>>
  <2>1. Leaves(Fifo1, "setfl", <<>>)
    BY SetupLeaves
  <2>2. Due(c, "setfl")
    BY <1>1, <2>1 DEF Due, Fifo1, Leaves
  <2>3. k = "fifo" /\ O = Ends(d, c) /\ c.r # 0 /\ c.w # 0
    <3>1. DueFacts(k, d, c, O, "setfl")
      BY <2>2, CallDue
    <3> QED  BY <3>1 DEF DueFacts
  <2>4. c.l = 0
    BY <2>3 DEF InCall, Opening
  <2> QED  BY <2>3, <2>4 DEF OwnedBy, Ended
<1>2. CASE c.todo = <<>>
  <2>1. /\ c.todo # Tty5 /\ c.todo # Fifo7 /\ c.todo # Fifo6 /\ c.todo # Fifo5 /\ c.todo # Fifo4
        /\ c.todo # Fifo1 /\ c.todo # Bus2 /\ c.todo # Bus1 /\ c.todo # Start5 /\ c.todo # Start4
        /\ c.todo # Start3 /\ c.todo # Start2
    BY <1>2, SetupLeaves DEF Leaves, LeavesAt
  <2>2. \A server \in BOOLEAN : /\ c.todo # Msgq2(server) /\ c.todo # Msgq1(server)
                                /\ c.todo # Fifo3(server) /\ c.todo # Fifo2(server)
    BY <1>2, SetupLeaves, ZenonT(40) DEF Leaves, LeavesAt, LeavesFor
  <2>3. c.server \in BOOLEAN
    BY DEF Called
  <2>4. Opening(k, d, c, O)
    BY DEF InCall
  <2>5. CASE k = "uart"
    BY <2>1, <2>4, <2>5 DEF Opening, OpeningUart, OwnedBy, Ended
  <2>6. CASE k = "msgq"
    BY <2>2, <2>3, <2>4, <2>6 DEF Opening, OpeningMsgq, OwnedBy, Ended
  <2>7. k # "fifo"
    BY <2>1, <2>2, <2>3, <2>4 DEF Opening, OpeningFifo
  <2>8. CASE k = "bus"
    BY <2>1, <2>4, <2>8 DEF Opening, OpeningBus, OwnedBy, Ended
  <2> QED  BY <2>5, <2>6, <2>7, <2>8 DEF Kinds
<1> QED  BY <1>1, <1>2

\* A teardown that is done has none left.
LEMMA Closed ==
  ASSUME NEW k \in Kinds, NEW d, NEW c, NEW O, NEW m, InCall(k, d, c, O, m),
         c.op = "close", c.todo = <<>>
  PROVE  O = {}
<1>1. /\ c.todo # TtyShut /\ c.todo # Close1 /\ c.todo # Close2 /\ c.todo # Close3
  BY TeardownLeaves DEF Leaves
<1> QED  BY <1>1 DEF InCall, Closing, Kinds

\* Calls that differ in nothing the invariant speaks of.
LEMMA SameCall ==
  ASSUME NEW k, NEW d, NEW c, NEW O, NEW m, InCall(k, d, c, O, m),
         NEW c2, Passes(c, c2, c.todo, c.r, c.w, c.l)
  PROVE  InCall(k, d, c2, O, m)
<1>1. /\ c2.op = c.op /\ c2.server = c.server /\ c2.todo = c.todo
      /\ c2.r = c.r /\ c2.w = c.w /\ c2.l = c.l
  BY DEF Passes
<1>2. Ends(d, c2) = Ends(d, c) /\ Connected(d, c2) = Connected(d, c) /\ Listening(d, c2) = Listening(d, c)
  BY <1>1 DEF Ends, Connected, Listening
<1>3. ASSUME Opening(k, d, c, O) PROVE Opening(k, d, c2, O)
  BY <1>1, <1>2, <1>3 DEF Opening, OpeningUart, OpeningMsgq, OpeningFifo, OpeningBus
<1>4. ASSUME Closing(k, d, c, O) PROVE Closing(k, d, c2, O)
  BY <1>1, <1>2, <1>4 DEF Closing
<1> QED  BY <1>1, <1>3, <1>4 DEF InCall

LEMMA SameEnds ==
  ASSUME NEW k, NEW d, NEW c, NEW v, v.r = c.r, v.w = c.w, v.l = c.l
  PROVE  OwnedBy(k, d, v) = OwnedBy(k, d, c) /\ (Ended(k, v) <=> Ended(k, c))
BY DEF OwnedBy, Ends, Connected, Listening, Ended

-----------------------------------------------------------------------------
(* The actions of a process *)

Typed(u) == \A d \in Devices : u[d].type \in Kinds

\* A step of a call that leaves the map alone.
LEMMA ProcStep ==
  ASSUME NEW u, NEW c, NEW F, NEW m, NEW i, NEW n, ProcInv(u, c, F, m, i, n), c.op # "idle",
         NEW c2, Called(c2), c2.op = c.op, c2.dev = c.dev,
         NEW F2, FdsTyped(F2), \A d \in Devices : d # c.dev => Own(F2, d) = Own(F, d),
         InCall(u[c.dev].type, c.dev, c2, Own(F2, c.dev), m)
  PROVE  ProcInv(u, c2, F2, m, i, n)
BY DEF ProcInv

\* Another process begins to open or to close the device.
LEMMA ProcUnclean ==
  ASSUME NEW u, NEW c, NEW F, NEW m, NEW i, NEW n, ProcInv(u, c, F, m, i, n), c.dev \in Devices
  PROVE  ProcInv(u, [c EXCEPT !.clean = FALSE], F, m, i, n)
<1> DEFINE c2 == [c EXCEPT !.clean = FALSE]
<1>1. c.op # "idle"
  BY NullAssumption DEF ProcInv, Idle
<1>2. Passes(c, c2, c.todo, c.r, c.w, c.l)
  BY CallPut DEF ProcInv
<1> HIDE DEF c2
<1>3. InCall(u[c.dev].type, c.dev, c2, Own(F, c.dev), m)
  BY <1>1, <1>2, SameCall DEF ProcInv
<1>4. Called(c2) /\ c2.op = c.op /\ c2.dev = c.dev /\ FdsTyped(F)
  BY <1>2 DEF Passes, ProcInv
<1>5. ProcInv(u, c2, F, m, i, n)
  BY <1>1, <1>3, <1>4, ProcStep
<1> QED  BY <1>5 DEF c2

\* A process that starts, or starts again.
LEMMA ProcStarts ==
  ASSUME NEW u
  PROVE  ProcInv(u, Idle, {}, H!EmptyMap, H!NoIt, 0)
<1>1. Called(Idle) /\ Idle.op = "idle" /\ Idle.dev = Null
  BY DEF Called, Idle
<1>2. FdsTyped({}) /\ \A d : Own({}, d) = {}
  BY DEF FdsTyped, Own
<1>3. Managed(H!EmptyMap, H!NoIt) /\ DOMAIN H!EmptyMap.val = {} /\ H!EmptyMap.count = 0
  BY ManagedEmpty
<1> QED  BY <1>1, <1>2, <1>3 DEF ProcInv, AtRest

\* A process that gives up a setup has nothing of the device but what it forgot.
LEMMA ProcGivesUp ==
  ASSUME NEW u, NEW c, NEW F, NEW m, NEW i, NEW n, ProcInv(u, c, F, m, i, n), c.op = "open",
         NEW F2, FdsTyped(F2), \A d \in Devices : d # c.dev => Own(F2, d) = Own(F, d),
         Own(F2, c.dev) = {}
  PROVE  ProcInv(u, Idle, F2, m, i, n)
<1>1. Called(Idle) /\ Idle.op = "idle" /\ Idle.dev = Null
  BY DEF Called, Idle
<1>2. c.dev \notin DOMAIN m.val
  BY DEF ProcInv, InCall
<1>3. AtRest(u[c.dev].type, c.dev, Own(F2, c.dev), m)
  BY <1>2 DEF AtRest
<1>4. \A d \in Devices : AtRest(u[d].type, d, Own(F2, d), m)
  <2> TAKE d \in Devices
  <2> QED  BY <1>3 DEF ProcInv
<1> QED  BY <1>1, <1>4 DEF ProcInv

\* The fields of a call.
Looks(c, op, dev, todo, server, r, w, l) ==
  /\ Called(c) /\ c.op = op /\ c.dev = dev /\ c.todo = todo /\ c.server = server
  /\ c.r = r /\ c.w = w /\ c.l = l

LEMMA IdleLooks == Looks(Idle, "idle", Null, <<>>, FALSE, 0, 0, 0)
BY DEF Looks, Called, Idle

LEMMA LooksPut ==
  ASSUME NEW c, NEW op, NEW dev, NEW todo, NEW server, NEW r, NEW w, NEW l,
         Looks(c, op, dev, todo, server, r, w, l)
  PROVE  /\ \A x \in {"open", "close"} : Looks([c EXCEPT !.op = x], x, dev, todo, server, r, w, l)
         /\ \A x \in Devices : Looks([c EXCEPT !.dev = x], op, x, todo, server, r, w, l)
         /\ \A x : Looks([c EXCEPT !.todo = x], op, dev, x, server, r, w, l)
         /\ \A x \in BOOLEAN : Looks([c EXCEPT !.clean = x], op, dev, todo, server, r, w, l)
         /\ \A x \in Objects \cup {0} : Looks([c EXCEPT !.r = x], op, dev, todo, server, x, w, l)
         /\ \A x \in Objects \cup {0} : Looks([c EXCEPT !.w = x], op, dev, todo, server, r, x, l)
         /\ \A x \in Objects \cup {0} : Looks([c EXCEPT !.l = x], op, dev, todo, server, r, w, x)
<1> USE DEF Looks, Called
<1>1. \A x \in {"open", "close"} : Looks([c EXCEPT !.op = x], x, dev, todo, server, r, w, l)
  OBVIOUS
<1>2. \A x \in Devices : Looks([c EXCEPT !.dev = x], op, x, todo, server, r, w, l)
  OBVIOUS
<1>3. \A x : Looks([c EXCEPT !.todo = x], op, dev, x, server, r, w, l)
  OBVIOUS
<1>4. \A x \in BOOLEAN : Looks([c EXCEPT !.clean = x], op, dev, todo, server, r, w, l)
  OBVIOUS
<1>5. \A x \in Objects \cup {0} : Looks([c EXCEPT !.r = x], op, dev, todo, server, x, w, l)
  OBVIOUS
<1>6. \A x \in Objects \cup {0} : Looks([c EXCEPT !.w = x], op, dev, todo, server, r, x, l)
  OBVIOUS
<1>7. \A x \in Objects \cup {0} : Looks([c EXCEPT !.l = x], op, dev, todo, server, r, w, x)
  OBVIOUS
<1> HIDE DEF Looks, Called
<1> QED  BY <1>1, <1>2, <1>3, <1>4, <1>5, <1>6, <1>7, Zenon

LEMMA LooksServer ==
  ASSUME NEW c, NEW op, NEW dev, NEW todo, NEW server, NEW r, NEW w, NEW l,
         Looks(c, op, dev, todo, server, r, w, l), NEW x \in BOOLEAN
  PROVE  Looks([c EXCEPT !.server = x], op, dev, todo, x, r, w, l)
BY DEF Looks, Called

\* channel_open begins.
LEMMA ProcBeginOpen ==
  ASSUME NEW u, Typed(u), NEW F, NEW m, NEW n, ProcInv(u, Idle, F, m, H!NoIt, n),
         NEW d \in Devices, d \notin DOMAIN m.val, NEW server \in BOOLEAN, NEW clean \in BOOLEAN
  PROVE  ProcInv(u, [Idle EXCEPT !.op = "open", !.dev = d, !.server = server,
                                 !.todo = Setup(u[d].type, server), !.clean = clean], F, m, H!NoIt, n)
<1> DEFINE k == u[d].type
           c2 == [Idle EXCEPT !.op = "open", !.dev = d, !.server = server,
                              !.todo = Setup(u[d].type, server), !.clean = clean]
<1>1. Looks(c2, "open", d, Setup(k, server), server, 0, 0, 0)
  <2> DEFINE x1 == [Idle EXCEPT !.op = "open"]
             x2 == [x1 EXCEPT !.dev = d]
             x3 == [x2 EXCEPT !.server = server]
             x4 == [x3 EXCEPT !.todo = Setup(k, server)]
  <2>1. Looks(x1, "open", Null, <<>>, FALSE, 0, 0, 0)
    BY IdleLooks, LooksPut
  <2> HIDE DEF x1
  <2>2. Looks(x2, "open", d, <<>>, FALSE, 0, 0, 0)
    BY <2>1, LooksPut
  <2> HIDE DEF x2
  <2>3. Looks(x3, "open", d, <<>>, server, 0, 0, 0)
    <3> DEFINE was == x2.server
    <3>1. Looks(x2, "open", d, <<>>, was, 0, 0, 0)
      BY <2>2 DEF Looks
    <3> HIDE DEF was
    <3>2. \A x \in BOOLEAN : Looks([x2 EXCEPT !.server = x], "open", d, <<>>, x, 0, 0, 0)
      <4> TAKE x \in BOOLEAN
      <4> QED  BY <3>1, LooksServer
    <3> QED  BY <3>2, Zenon
  <2> HIDE DEF x3
  <2>4. Looks(x4, "open", d, Setup(k, server), server, 0, 0, 0)
    BY <2>3, LooksPut
  <2> HIDE DEF x4
  <2>5. Looks([x4 EXCEPT !.clean = clean], "open", d, Setup(k, server), server, 0, 0, 0)
    BY <2>4, LooksPut
  <2> QED  BY <2>5, Zenon DEF x1, x2, x3, x4
<1> HIDE DEF c2
<1>2. /\ Called(c2) /\ c2.op = "open" /\ c2.dev = d /\ c2.todo = Setup(k, server)
      /\ c2.server = server /\ c2.r = 0 /\ c2.w = 0 /\ c2.l = 0
  BY <1>1 DEF Looks
<1>3. k \in Kinds /\ Own(F, d) = {}
  <2>1. Idle.dev = Null
    BY DEF Idle
  <2> QED  BY <2>1, NullAssumption DEF ProcInv, AtRest, Typed
<1>4. Opening(k, d, c2, {})
  <2>1. CASE k = "uart"
    BY <1>2, <2>1, SetupIs DEF Opening, OpeningUart
  <2>2. CASE k = "msgq"
    BY <1>2, <2>2, SetupIs DEF Opening, OpeningMsgq
  <2>3. CASE k = "fifo"
    <3>1. c2.todo = IF server THEN Fifo7 ELSE Fifo3(server)
      BY <1>2, <2>3, SetupIs
    <3> QED  BY <1>2, <2>3, <3>1 DEF Opening, OpeningFifo
  <2>4. CASE k = "bus"
    BY <1>2, <2>4, SetupIs DEF Opening, OpeningBus
  <2> QED  BY <1>3, <2>1, <2>2, <2>3, <2>4 DEF Kinds
<1>5. InCall(k, d, c2, Own(F, d), m)
  BY <1>2, <1>3, <1>4 DEF InCall
<1>6. \A e \in Devices : c2.dev # e => AtRest(u[e].type, e, Own(F, e), m)
  BY NullAssumption DEF ProcInv, Idle
<1>7. /\ FdsTyped(F) /\ Managed(m, H!NoIt) /\ n = m.count
      /\ \A e \in DOMAIN m.val : Ended(u[e].type, m.val[e])
  BY DEF ProcInv
<1>8. ProcInv(u, c2, F, m, H!NoIt, n)
  BY <1>2, <1>5, <1>6, <1>7 DEF ProcInv
<1> QED  BY <1>8 DEF c2

\* channel_open has set the channel up.
LEMMA ProcFinishOpen ==
  ASSUME NEW u, Typed(u), NEW c, NEW F, NEW m, NEW i, NEW n, ProcInv(u, c, F, m, i, n),
         c.op = "open", c.todo \in {<<>>, <<<<"setfl">>>>}
  PROVE  LET v == [server |-> c.server, r |-> c.r, w |-> c.w, l |-> c.l, old |-> c.old]
             m2 == H!Insert(m, c.dev, v)
         IN /\ ProcInv(u, Idle, F, m2, i, n + 1)
            /\ c.dev \in Devices \ DOMAIN m.val /\ DOMAIN m2.val = DOMAIN m.val \cup {c.dev}
            /\ \A d \in DOMAIN m2.val : m2.val[d] = IF d = c.dev THEN v ELSE m.val[d]
            /\ Ended(u[c.dev].type, c)
<1> DEFINE v == [server |-> c.server, r |-> c.r, w |-> c.w, l |-> c.l, old |-> c.old]
           d == c.dev
           k == u[c.dev].type
           m2 == H!Insert(m, c.dev, v)
<1>1. /\ Called(c) /\ FdsTyped(F) /\ Managed(m, i) /\ n = m.count /\ i = H!NoIt
      /\ d \in Devices /\ InCall(k, d, c, Own(F, d), m)
      /\ \A e \in Devices : d # e => AtRest(u[e].type, e, Own(F, e), m)
      /\ \A e \in DOMAIN m.val : Ended(u[e].type, m.val[e])
  BY DEF ProcInv
<1>2. v \in Channels /\ v.r = c.r /\ v.w = c.w /\ v.l = c.l
  BY <1>1 DEF Called, Channels
<1>3. k \in Kinds /\ d \notin DOMAIN m.val
  BY <1>1 DEF Typed, InCall
<1>4. Own(F, d) = OwnedBy(k, d, v) /\ Ended(k, v) /\ Ended(k, c)
  BY <1>1, <1>2, <1>3, Opened, SameEnds
<1> HIDE DEF v, d, k, m2
<1>5. /\ Managed(m2, i) /\ DOMAIN m2.val = DOMAIN m.val \cup {d}
      /\ \A e \in DOMAIN m.val \cup {d} : m2.val[e] = IF e = d THEN v ELSE m.val[e]
  BY <1>1, <1>2, ManagedInsert DEF m2, d
<1>6. m2.count = n + 1
  <2>1. m2.count = Cardinality(DOMAIN m2.val) /\ m.count = Cardinality(DOMAIN m.val)
        /\ IsFiniteSet(DOMAIN m.val)
    BY <1>1, <1>5, ManagedFacts
  <2>2. Cardinality(DOMAIN m.val \cup {d}) = Cardinality(DOMAIN m.val) + 1
    BY <1>3, <2>1, FS_AddElement
  <2> QED  BY <1>1, <1>5, <2>1, <2>2
<1>7. \A e \in Devices : AtRest(u[e].type, e, Own(F, e), m2)
  <2> TAKE e \in Devices
  <2>1. CASE e = d
    BY <1>4, <1>5, <2>1 DEF AtRest, k, d
  <2>2. CASE e # d
    BY <1>1, <1>5, <2>2 DEF AtRest
  <2> QED  BY <2>1, <2>2
<1>8. \A e \in DOMAIN m2.val : Ended(u[e].type, m2.val[e])
  <2> TAKE e \in DOMAIN m2.val
  <2>1. CASE e = d
    BY <1>4, <1>5, <2>1 DEF k, d
  <2>2. CASE e # d
    BY <1>1, <1>5, <2>2
  <2> QED  BY <2>1, <2>2
<1>9. Called(Idle) /\ Idle.op = "idle" /\ Idle.dev = Null
  BY DEF Called, Idle
<1>10. ProcInv(u, Idle, F, m2, i, n + 1)
  BY <1>1, <1>5, <1>6, <1>7, <1>8, <1>9 DEF ProcInv
<1>11. c.dev \in Devices \ DOMAIN m.val /\ Ended(u[c.dev].type, c)
  BY <1>1, <1>3, <1>4 DEF d, k
<1> QED  BY <1>5, <1>10, <1>11, Zenon DEF m2, v, d

\* channel_close begins, of the channel the iterator is at or of any.
LEMMA ProcBeginClose ==
  ASSUME NEW u, Typed(u), NEW F, NEW m, NEW i, NEW n, ProcInv(u, Idle, F, m, i, n),
         NEW d \in DOMAIN m.val, i \in {H!NoIt, [i EXCEPT !.cur = d]}
  PROVE  ProcInv(u, [Idle EXCEPT !.op = "close", !.dev = d, !.r = m.val[d].r, !.w = m.val[d].w,
                                 !.l = m.val[d].l, !.todo = Teardown(u[d].type, m.val[d])], F, m, i, n)
<1> DEFINE k == u[d].type
           v == m.val[d]
           c2 == [Idle EXCEPT !.op = "close", !.dev = d, !.r = m.val[d].r, !.w = m.val[d].w,
                              !.l = m.val[d].l, !.todo = Teardown(u[d].type, m.val[d])]
<1>1. /\ FdsTyped(F) /\ Managed(m, i) /\ n = m.count
      /\ \A e \in DOMAIN m.val : Ended(u[e].type, m.val[e])
      /\ \A e \in Devices : AtRest(u[e].type, e, Own(F, e), m)
  <2>1. Idle.dev = Null
    BY DEF Idle
  <2> QED  BY <2>1, NullAssumption DEF ProcInv
<1>2. d \in Devices /\ v \in Channels
  BY <1>1, ManagedFacts
<1>3. v.server \in BOOLEAN /\ v.r \in Objects \cup {0} /\ v.w \in Objects \cup {0} /\ v.l \in Objects \cup {0}
  BY <1>2 DEF Channels
<1>4. k \in Kinds
  BY <1>2 DEF Typed
<1>5. Looks(c2, "close", d, Teardown(k, v), FALSE, v.r, v.w, v.l)
  <2> DEFINE x1 == [Idle EXCEPT !.op = "close"]
             x2 == [x1 EXCEPT !.dev = d]
             x3 == [x2 EXCEPT !.r = v.r]
             x4 == [x3 EXCEPT !.w = v.w]
             x5 == [x4 EXCEPT !.l = v.l]
  <2>1. Looks(x1, "close", Null, <<>>, FALSE, 0, 0, 0)
    BY IdleLooks, LooksPut
  <2> HIDE DEF x1
  <2>2. Looks(x2, "close", d, <<>>, FALSE, 0, 0, 0)
    BY <1>2, <2>1, LooksPut
  <2> HIDE DEF x2
  <2>3. Looks(x3, "close", d, <<>>, FALSE, v.r, 0, 0)
    BY <1>3, <2>2, LooksPut
  <2> HIDE DEF x3
  <2>4. Looks(x4, "close", d, <<>>, FALSE, v.r, v.w, 0)
    BY <1>3, <2>3, LooksPut
  <2> HIDE DEF x4
  <2>5. Looks(x5, "close", d, <<>>, FALSE, v.r, v.w, v.l)
    BY <1>3, <2>4, LooksPut
  <2> HIDE DEF x5
  <2>6. Looks([x5 EXCEPT !.todo = Teardown(k, v)], "close", d, Teardown(k, v), FALSE, v.r, v.w, v.l)
    BY <2>5, LooksPut
  <2> QED  BY <2>6, Zenon DEF x1, x2, x3, x4, x5
<1> HIDE DEF v, k, c2
<1>6. /\ Called(c2) /\ c2.op = "close" /\ c2.dev = d /\ c2.todo = Teardown(k, v)
      /\ c2.r = v.r /\ c2.w = v.w /\ c2.l = v.l
  BY <1>5 DEF Looks
<1>7. Own(F, d) = OwnedBy(k, d, c2)
  <2>1. Own(F, d) = OwnedBy(k, d, v)
    BY <1>1, <1>2 DEF AtRest, v, k
  <2> QED  BY <1>6, <2>1, SameEnds
<1>8. Closing(k, d, c2, Own(F, d))
  <2>1. CASE k = "uart"
    BY <1>3, <1>6, <1>7, <2>1, TeardownIs DEF Closing, OwnedBy
  <2>2. CASE k = "msgq"
    BY <1>3, <1>6, <1>7, <2>2, TeardownIs DEF Closing, OwnedBy
  <2>3. CASE k = "fifo"
    BY <1>3, <1>6, <1>7, <2>3, TeardownIs DEF Closing, OwnedBy
  <2>4. CASE k = "bus"
    BY <1>3, <1>6, <1>7, <2>4, TeardownIs DEF Closing, OwnedBy
  <2> QED  BY <1>4, <2>1, <2>2, <2>3, <2>4 DEF Kinds
<1>9. InCall(k, d, c2, Own(F, d), m)
  BY <1>6, <1>8 DEF InCall, v
<1>10. i = H!NoIt \/ i.cur = d
  BY <1>1, ManagedAt
<1>11. ProcInv(u, c2, F, m, i, n)
  BY <1>1, <1>2, <1>6, <1>9, <1>10 DEF ProcInv, k
<1> QED  BY <1>11 DEF c2, v, k

\* channel_close has torn the channel down.
LEMMA ProcFinishClose ==
  ASSUME NEW u, Typed(u), NEW c, NEW F, NEW m, NEW i, NEW n, ProcInv(u, c, F, m, i, n),
         c.op = "close", c.todo = <<>>
  PROVE  LET m2 == H!Delete(m, c.dev)
         IN /\ ProcInv(u, Idle, F, m2, i, n - 1)
            /\ c.dev \in DOMAIN m.val /\ DOMAIN m2.val = DOMAIN m.val \ {c.dev}
            /\ \A d \in DOMAIN m2.val : m2.val[d] = m.val[d]
<1> DEFINE d == c.dev
           k == u[c.dev].type
           m2 == H!Delete(m, c.dev)
<1>1. /\ FdsTyped(F) /\ Managed(m, i) /\ n = m.count /\ (i = H!NoIt \/ i.cur = d)
      /\ d \in Devices /\ InCall(k, d, c, Own(F, d), m)
      /\ \A e \in Devices : d # e => AtRest(u[e].type, e, Own(F, e), m)
      /\ \A e \in DOMAIN m.val : Ended(u[e].type, m.val[e])
  BY DEF ProcInv
<1>2. k \in Kinds /\ d \in DOMAIN m.val
  BY <1>1 DEF Typed, InCall
<1>3. Own(F, d) = {}
  BY <1>1, <1>2, Closed
<1> HIDE DEF d, k, m2
<1>4. /\ Managed(m2, i) /\ DOMAIN m2.val = DOMAIN m.val \ {d}
      /\ \A e \in DOMAIN m.val \ {d} : m2.val[e] = m.val[e]
  BY <1>1, <1>2, ManagedDelete DEF m2, d
<1>5. m2.count = n - 1
  <2>1. m2.count = Cardinality(DOMAIN m2.val) /\ m.count = Cardinality(DOMAIN m.val)
        /\ IsFiniteSet(DOMAIN m.val)
    BY <1>1, <1>4, ManagedFacts
  <2>2. Cardinality(DOMAIN m.val \ {d}) = Cardinality(DOMAIN m.val) - 1
    BY <1>2, <2>1, FS_RemoveElement
  <2> QED  BY <1>1, <1>4, <2>1, <2>2
<1>6. \A e \in Devices : AtRest(u[e].type, e, Own(F, e), m2)
  <2> TAKE e \in Devices
  <2>1. CASE e = d
    BY <1>3, <1>4, <2>1 DEF AtRest
  <2>2. CASE e # d
    BY <1>1, <1>4, <2>2 DEF AtRest
  <2> QED  BY <2>1, <2>2
<1>7. \A e \in DOMAIN m2.val : Ended(u[e].type, m2.val[e])
  BY <1>1, <1>4
<1>8. Called(Idle) /\ Idle.op = "idle" /\ Idle.dev = Null
  BY DEF Called, Idle
<1>9. ProcInv(u, Idle, F, m2, i, n - 1)
  BY <1>1, <1>4, <1>5, <1>6, <1>7, <1>8 DEF ProcInv
<1> QED  BY <1>2, <1>4, <1>9, Zenon DEF m2, d

\* channel_manager_teardown goes on to the next channel.
LEMMA ProcIterates ==
  ASSUME NEW u, NEW F, NEW m, NEW i, NEW n, ProcInv(u, Idle, F, m, i, n),
         NEW j, Managed(m, j)
  PROVE  ProcInv(u, Idle, F, m, j, n)
<1>1. Idle.op = "idle"
  BY DEF Idle
<1> QED  BY <1>1 DEF ProcInv

\* It has closed every channel, and frees the map.
LEMMA ProcTornDown ==
  ASSUME NEW u, NEW F, NEW m, NEW i, NEW n, ProcInv(u, Idle, F, m, i, n), i # H!NoIt, i.cur = Null
  PROVE  ProcInv(u, Idle, F, H!EmptyMap, H!NoIt, n) /\ DOMAIN m.val = {}
<1>1. Managed(m, i) /\ n = m.count
  BY DEF ProcInv
<1>2. DOMAIN m.val = {} /\ m.count = Cardinality(DOMAIN m.val)
  BY <1>1, ManagedAt, ManagedFacts
<1>3. n = 0
  BY <1>1, <1>2, FS_EmptySet
<1>4. Managed(H!EmptyMap, H!NoIt) /\ DOMAIN H!EmptyMap.val = {} /\ H!EmptyMap.count = 0
  BY ManagedEmpty
<1>5. Idle.op = "idle" /\ Idle.dev = Null
  BY DEF Idle
<1>6. \A d \in Devices : AtRest(u[d].type, d, Own(F, d), H!EmptyMap)
  BY <1>2, <1>4, <1>5, NullAssumption DEF ProcInv, AtRest
<1> QED  BY <1>2, <1>3, <1>4, <1>5, <1>6 DEF ProcInv

-----------------------------------------------------------------------------
(* The inductive invariant *)

\* What is common to all processes.
KernelOK ==
  /\ use \in Uses
  /\ name \in [Devices \X {0, 1} -> Objects \cup {0}]
  /\ tty \in [Devices -> [lock : Procs \cup {Null}, raw : BOOLEAN, lines : SUBSET {"dtr", "rts"}]]
  /\ inbox \subseteq Objects /\ stale \in [Objects -> SUBSET Procs]
  /\ touch \in [Devices -> SUBSET Procs]
  /\ faults \in 0..MaxFaults

Sized ==
  /\ DOMAIN call = Procs /\ DOMAIN fds = Procs /\ DOMAIN map = Procs
  /\ DOMAIN iter = Procs /\ DOMAIN open_channels = Procs

Proc(p) == ProcInv(use, call[p], fds[p], map[p], iter[p], open_channels[p])

ChannelInv == KernelOK /\ Sized /\ \A p \in Procs : Proc(p)

LEMMA KernelSame ==
  ASSUME KernelOK, UNCHANGED use, UNCHANGED kernel, UNCHANGED faults, UNCHANGED history
  PROVE  KernelOK'
<1>1. /\ use' = use /\ name' = name /\ tty' = tty /\ inbox' = inbox /\ stale' = stale
      /\ touch' = touch /\ faults' = faults
  BY DEF kernel, history
<1> QED  BY <1>1 DEF KernelOK

\* What a step of process p leaves alone in the others.
Others(p) ==
  \A q \in Procs \ {p} :
    /\ fds'[q] = fds[q] /\ map'[q] = map[q] /\ iter'[q] = iter[q]
    /\ open_channels'[q] = open_channels[q]
    /\ \/ call'[q] = call[q]
       \/ call[q].dev \in Devices /\ call'[q] = [call[q] EXCEPT !.clean = FALSE]

LEMMA OthersKeep ==
  ASSUME ChannelInv, NEW p \in Procs, use' = use, KernelOK', Sized', Others(p), Proc(p)'
  PROVE  ChannelInv'
<1>1. ASSUME NEW q \in Procs PROVE Proc(q)'
  <2>1. CASE q = p
    BY <2>1
  <2>2. CASE q # p
    <3>1. ProcInv(use, call[q], fds[q], map[q], iter[q], open_channels[q])
      BY DEF ChannelInv, Proc
    <3>2. /\ fds'[q] = fds[q] /\ map'[q] = map[q] /\ iter'[q] = iter[q]
          /\ open_channels'[q] = open_channels[q]
          /\ \/ call'[q] = call[q]
             \/ call[q].dev \in Devices /\ call'[q] = [call[q] EXCEPT !.clean = FALSE]
      BY <2>2 DEF Others
    <3>3. ProcInv(use, call'[q], fds[q], map[q], iter[q], open_channels[q])
      BY <3>1, <3>2, ProcUnclean
    <3> QED  BY <3>2, <3>3 DEF Proc
  <2> QED  BY <2>1, <2>2
<1> QED  BY <1>1 DEF ChannelInv

\* Every device has one of the four types.
LEMMA UsesTyped == ASSUME KernelOK PROVE Typed(use)
BY UsesAssumption DEF KernelOK, Typed, Kinds

\* A call that is due, in a process that satisfies the invariant.
LEMMA Acts ==
  ASSUME ChannelInv, NEW p \in Procs, NEW s, At(p, s)
  PROVE  /\ Dev(p) \in Devices /\ use[Dev(p)].type \in Kinds
         /\ InCall(use[Dev(p)].type, Dev(p), call[p], Own(fds[p], Dev(p)), map[p])
         /\ Called(call[p]) /\ Due(call[p], s) /\ call[p].op # "idle" /\ FdsTyped(fds[p])
         /\ DueFacts(use[Dev(p)].type, Dev(p), call[p], Own(fds[p], Dev(p)), s)
         /\ Arg(p) = DueArg(call[p])
<1>1. Due(call[p], s) /\ call[p].op # "idle" /\ Arg(p) = DueArg(call[p])
  BY DEF At, Busy, Due, Arg, DueArg
<1>2. Proc(p)
  BY DEF ChannelInv
<1>3. /\ Dev(p) \in Devices /\ Called(call[p]) /\ FdsTyped(fds[p])
      /\ InCall(use[Dev(p)].type, Dev(p), call[p], Own(fds[p], Dev(p)), map[p])
  BY <1>1, <1>2 DEF Proc, ProcInv, Dev
<1>4. use[Dev(p)].type \in Kinds
  BY <1>3, UsesTyped DEF ChannelInv, Typed
<1> QED  BY <1>1, <1>3, <1>4, CallDue

\* A step of p in a call that goes on.
LEMMA Moves ==
  ASSUME ChannelInv, NEW p \in Procs, NEW s, At(p, s), UNCHANGED <<use, manager>>, KernelOK',
         NEW c2, Called(c2), c2.op = call[p].op, c2.dev = Dev(p), call' = [call EXCEPT ![p] = c2],
         NEW F2, FdsTyped(F2), fds' = [fds EXCEPT ![p] = F2] \/ (F2 = fds[p] /\ UNCHANGED fds),
         \A d \in Devices : d # Dev(p) => Own(F2, d) = Own(fds[p], d),
         InCall(use[Dev(p)].type, Dev(p), c2, Own(F2, Dev(p)), map[p])
  PROVE  ChannelInv'
<1>1. call[p].op # "idle"
  BY Acts
<1>2. ProcInv(use, c2, F2, map[p], iter[p], open_channels[p])
  BY <1>1, ProcStep DEF ChannelInv, Proc, Dev
<1>3. Sized' /\ call'[p] = c2 /\ fds'[p] = F2
  BY DEF ChannelInv, Sized, manager
<1>4. Proc(p)'
  BY <1>2, <1>3 DEF Proc, manager
<1>5. Others(p)
  BY DEF Others, manager, ChannelInv, Sized
<1> QED  BY <1>3, <1>4, <1>5, OthersKeep

\* A step of p in a call that neither opens nor closes.
LEMMA MovesQuietly ==
  ASSUME ChannelInv, NEW p \in Procs, NEW s \in Quiet, At(p, s), UNCHANGED <<use, fds, manager>>, KernelOK',
         NEW c2, call' = [call EXCEPT ![p] = c2],
         Passes(call[p], c2, Tail(call[p].todo), call[p].r, call[p].w, call[p].l)
  PROVE  ChannelInv'
<1>1. InCall(use[Dev(p)].type, Dev(p), c2, Own(fds[p], Dev(p)), map[p])
  BY Acts, QuietStep
<1>2. FdsTyped(fds[p])
  BY Acts
<1> QED  BY <1>1, <1>2, Moves DEF Passes, Dev

-----------------------------------------------------------------------------
(* The descriptors *)

\* One more descriptor of a device, and some fewer.
LEMMA OwnPut ==
  ASSUME NEW F, FdsTyped(F), NEW d \in Devices, NEW f, f.dev = d, f.obj \in Objects \cup {0},
         f.role # "lost", NEW F2, F2 = F \cup {f}
  PROVE  /\ FdsTyped(F2) /\ Own(F2, d) = Own(F, d) \cup {f}
         /\ \A e : e # d => Own(F2, e) = Own(F, e)
<1>1. Lost(d).role = "lost"
  BY DEF Fd, Lost
<1> QED  BY <1>1 DEF FdsTyped, Own

\* Descriptors of one device.
About(S, d) == \A f \in S : f.dev = d

LEMMA OwnDrop ==
  ASSUME NEW F, FdsTyped(F), NEW d \in Devices, NEW S, About(S, d), NEW F2, F2 = F \ S
  PROVE  /\ FdsTyped(F2) /\ Own(F2, d) = Own(F, d) \ S
         /\ \A e : e # d => Own(F2, e) = Own(F, e)
BY DEF FdsTyped, Own, About

-----------------------------------------------------------------------------
(* The system calls keep it *)

LEMMA UnlinkKeeps == ASSUME ChannelInv, NEW p \in Procs, Unlink(p) PROVE ChannelInv'
<1>1. /\ At(p, "unlink") /\ UNCHANGED <<use, fds, tty, inbox, stale, manager, faults, history>>
      /\ name' = [name EXCEPT ![<<Dev(p), Arg(p)>>] = 0] /\ call' = [call EXCEPT ![p] = Next1(call[p])]
  BY DEF Unlink, Advance, ChannelInv, Sized
<1>2. KernelOK'
  BY <1>1 DEF ChannelInv, KernelOK, history
<1>3. Passes(call[p], Next1(call[p]), Tail(call[p].todo), call[p].r, call[p].w, call[p].l)
  BY <1>1, Acts, CallPut
<1> QED  BY <1>1, <1>2, <1>3, MovesQuietly DEF Quiet

LEMMA RmIdKeeps == ASSUME ChannelInv, NEW p \in Procs, RmId(p) PROVE ChannelInv'
<1>1. /\ At(p, "rmid") /\ UNCHANGED <<use, fds, tty, inbox, stale, manager, faults, history>>
      /\ name' = [x \in DOMAIN name |-> IF name[x] = Arg(p) THEN 0 ELSE name[x]]
      /\ call' = [call EXCEPT ![p] = Next1(call[p])]
  BY DEF RmId, Advance, ChannelInv, Sized
<1>2. KernelOK'
  BY <1>1 DEF ChannelInv, KernelOK, history
<1>3. Passes(call[p], Next1(call[p]), Tail(call[p].todo), call[p].r, call[p].w, call[p].l)
  BY <1>1, Acts, CallPut
<1> QED  BY <1>1, <1>2, <1>3, MovesQuietly DEF Quiet

LEMMA RoomFresh == ASSUME Room PROVE Fresh \in Objects /\ Fresh \notin Alive /\ Fresh # 0
BY ObjectsAssumption DEF Room, Fresh

LEMMA MakeNameKeeps == ASSUME ChannelInv, NEW p \in Procs, MakeName(p) PROVE ChannelInv'
<1> DEFINE x == <<Dev(p), IF At(p, "bind") THEN 0 ELSE Arg(p)>>
           o == IF At(p, "bind") THEN call[p].l ELSE Fresh
<1>1. /\ UNCHANGED <<use, fds, tty, stale, manager, faults, history>>
      /\ name' = [name EXCEPT ![x] = o] /\ inbox' = inbox \ {name'[x]}
      /\ call' = [call EXCEPT ![p] = Next1(call[p])]
      /\ At(p, "mkfifo") \/ At(p, "bind")
      /\ At(p, "bind") \/ Room
  BY DEF MakeName, Advance
<1>2. PICK s \in {"mkfifo", "bind"} : At(p, s)
  BY <1>1
<1>3. o \in Objects \cup {0}
  <2>1. Called(call[p])
    BY <1>2, Acts
  <2> QED  BY <1>1, <2>1, RoomFresh DEF Called
<1> HIDE DEF x, o
<1>4. KernelOK'
  <2>1. name' \in [Devices \X {0, 1} -> Objects \cup {0}]
    BY <1>1, <1>3 DEF ChannelInv, KernelOK
  <2>2. inbox' \subseteq Objects
    BY <1>1 DEF ChannelInv, KernelOK
  <2> QED  BY <1>1, <2>1, <2>2 DEF ChannelInv, KernelOK, history
<1>5. Passes(call[p], Next1(call[p]), Tail(call[p].todo), call[p].r, call[p].w, call[p].l)
  BY <1>2, Acts, CallPut
<1> QED  BY <1>1, <1>2, <1>4, <1>5, MovesQuietly DEF Quiet

LEMMA AccessKeeps == ASSUME ChannelInv, NEW p \in Procs, Access(p) PROVE ChannelInv'
<1> DEFINE there == name[<<Dev(p), 0>>] # 0
           t == (IF there THEN <<>> ELSE StartServer) \o Tail(call[p].todo)
           c2 == [call[p] EXCEPT !.todo = t]
<1>1. /\ At(p, "access") /\ UNCHANGED use /\ UNCHANGED kernel /\ UNCHANGED manager /\ UNCHANGED faults
      /\ UNCHANGED history
      /\ call' = [call EXCEPT ![p] = c2]
  <2>1. (IF name[<<Dev(p), 0>>] = 0 THEN StartServer ELSE <<>>) = IF there THEN <<>> ELSE StartServer
    OBVIOUS
  <2>2. /\ At(p, "access") /\ UNCHANGED use /\ UNCHANGED kernel /\ UNCHANGED manager
        /\ UNCHANGED faults /\ UNCHANGED history
    BY DEF Access
  <2>3. call' = [call EXCEPT ![p] = [call[p] EXCEPT !.todo =
                      (IF name[<<Dev(p), 0>>] = 0 THEN StartServer ELSE <<>>) \o Tail(call[p].todo)]]
    BY Zenon DEF Access
  <2> QED  BY <2>1, <2>2, <2>3, Zenon
<1>2. Passes(call[p], c2, t, call[p].r, call[p].w, call[p].l)
  BY <1>1, Acts, CallPut
<1>3. KernelOK'
  BY <1>1, KernelSame DEF ChannelInv
<1> HIDE DEF c2
<1>4. InCall(use[Dev(p)].type, Dev(p), c2, Own(fds[p], Dev(p)), map[p])
  <2>1. there \in BOOLEAN
    OBVIOUS
  <2> HIDE DEF there
  <2> QED  BY <1>1, <1>2, <2>1, Acts, AccessStep
<1>5. FdsTyped(fds[p])
  BY <1>1, Acts
<1> QED  BY <1>1, <1>2, <1>3, <1>4, <1>5, Moves DEF Passes, Dev, kernel

LEMMA OpenEndKeeps == ASSUME ChannelInv, NEW p \in Procs, OpenEnd(p) PROVE ChannelInv'
<1> DEFINE o == name[<<Dev(p), Arg(p)>>]
           role == Head(call[p].todo)[3]
           c2 == [Next1(call[p]) EXCEPT ![role] = o]
           F2 == fds[p] \cup {Fd(Dev(p), role, o)}
<1>1. /\ At(p, "open") /\ o # 0
      /\ fds' = [fds EXCEPT ![p] = F2] /\ call' = [call EXCEPT ![p] = c2]
      /\ UNCHANGED <<use, name, tty, inbox, stale, sent, manager, faults, history>>
  BY Zenon DEF OpenEnd
<1>2. role = DueRole(call[p])
  BY DEF DueRole
<1>3. role \in {"r", "w"} /\ Arg(p) \in {0, 1}
  <2>1. DueFacts(use[Dev(p)].type, Dev(p), call[p], Own(fds[p], Dev(p)), "open") /\ Arg(p) = DueArg(call[p])
    BY <1>1, Acts
  <2> QED  BY <1>2, <2>1 DEF DueFacts, OwnEnd, OtherEnd
<1>4. o \in Objects \cup {0}
  BY <1>1, <1>3, Acts DEF ChannelInv, KernelOK
<1> HIDE DEF o
<1>5. \/ role = "r" /\ Passes(call[p], c2, Tail(call[p].todo), o, call[p].w, call[p].l)
      \/ role = "w" /\ Passes(call[p], c2, Tail(call[p].todo), call[p].r, o, call[p].l)
  <2>1. Called(call[p])
    BY <1>1, Acts
  <2>2. CASE role = "r"
    BY <1>4, <2>1, <2>2, CallPut
  <2>3. CASE role = "w"
    BY <1>4, <2>1, <2>3, CallPut
  <2> QED  BY <1>3, <2>2, <2>3
<1> HIDE DEF role, c2, F2
<1>6. /\ FdsTyped(F2) /\ Own(F2, Dev(p)) = Own(fds[p], Dev(p)) \cup {Fd(Dev(p), role, o)}
      /\ \A e : e # Dev(p) => Own(F2, e) = Own(fds[p], e)
  <2> DEFINE f == Fd(Dev(p), role, o)
  <2>1. FdsTyped(fds[p]) /\ Dev(p) \in Devices
    BY <1>1, Acts
  <2>2. f.dev = Dev(p) /\ f.obj = o /\ f.role # "lost" /\ F2 = fds[p] \cup {f}
    BY <1>3 DEF Fd, F2
  <2> HIDE DEF f
  <2>3. /\ FdsTyped(F2) /\ Own(F2, Dev(p)) = Own(fds[p], Dev(p)) \cup {f}
        /\ \A e : e # Dev(p) => Own(F2, e) = Own(fds[p], e)
    BY <1>4, <2>1, <2>2, OwnPut
  <2> QED  BY <2>3 DEF f
<1>7. InCall(use[Dev(p)].type, Dev(p), c2, Own(F2, Dev(p)), map[p])
  BY <1>1, <1>2, <1>5, <1>6, Acts, OpenStep
<1>8. KernelOK'
  BY <1>1 DEF ChannelInv, KernelOK, history
<1>9. Called(c2) /\ c2.op = call[p].op /\ c2.dev = Dev(p)
  BY <1>5 DEF Passes, Dev
<1> QED  BY <1>1, <1>6, <1>7, <1>8, <1>9, Moves

LEMMA MsgGetKeeps == ASSUME ChannelInv, NEW p \in Procs, MsgGet(p) PROVE ChannelInv'
<1> DEFINE x == <<Dev(p), Arg(p)>>
           o == IF name[x] = 0 THEN Fresh ELSE name[x]
           role == Head(call[p].todo)[3]
           c2 == [Next1(call[p]) EXCEPT ![role] = o]
<1>1. /\ At(p, "msgget") /\ (name[x] # 0 \/ Room)
      /\ name' = [name EXCEPT ![x] = o] /\ inbox' = IF name[x] = 0 THEN inbox \ {o} ELSE inbox
      /\ call' = [call EXCEPT ![p] = c2]
      /\ UNCHANGED <<use, fds, tty, stale, sent, manager, faults, history>>
  BY Zenon DEF MsgGet
<1>2. role = DueRole(call[p])
  BY DEF DueRole
<1>3. role \in {"r", "w"} /\ Arg(p) \in {0, 1}
  <2>1. DueFacts(use[Dev(p)].type, Dev(p), call[p], Own(fds[p], Dev(p)), "msgget") /\ Arg(p) = DueArg(call[p])
    BY <1>1, Acts
  <2> QED  BY <1>2, <2>1 DEF DueFacts, OwnEnd, OtherEnd
<1>4. o \in Objects \cup {0} /\ o # 0
  <2>1. x \in Devices \X {0, 1}
    BY <1>1, <1>3, Acts
  <2> HIDE DEF x
  <2> QED  BY <1>1, <2>1, RoomFresh DEF ChannelInv, KernelOK
<1> HIDE DEF o, x
<1>5. \/ role = "r" /\ Passes(call[p], c2, Tail(call[p].todo), o, call[p].w, call[p].l)
      \/ role = "w" /\ Passes(call[p], c2, Tail(call[p].todo), call[p].r, o, call[p].l)
  <2>1. Called(call[p])
    BY <1>1, Acts
  <2>2. CASE role = "r"
    BY <1>4, <2>1, <2>2, CallPut
  <2>3. CASE role = "w"
    BY <1>4, <2>1, <2>3, CallPut
  <2> QED  BY <1>3, <2>2, <2>3
<1> HIDE DEF role, c2
<1>6. FdsTyped(fds[p])
  BY <1>1, Acts
<1>7. InCall(use[Dev(p)].type, Dev(p), c2, Own(fds[p], Dev(p)), map[p])
  BY <1>1, <1>2, <1>4, <1>5, Acts, MsgGetStep
<1>8. KernelOK'
  <2>1. name' \in [Devices \X {0, 1} -> Objects \cup {0}]
    BY <1>1, <1>4 DEF ChannelInv, KernelOK
  <2>2. inbox' \subseteq Objects
    BY <1>1 DEF ChannelInv, KernelOK
  <2> QED  BY <1>1, <2>1, <2>2 DEF ChannelInv, KernelOK, history
<1>9. Called(c2) /\ c2.op = call[p].op /\ c2.dev = Dev(p)
  BY <1>5 DEF Passes, Dev
<1> QED  BY <1>1, <1>6, <1>7, <1>8, <1>9, Moves

LEMMA SocketKeeps == ASSUME ChannelInv, NEW p \in Procs, Socket(p) PROVE ChannelInv'
<1> DEFINE o == Fresh
           c2 == [Next1(call[p]) EXCEPT !.l = o]
           F2 == fds[p] \cup {Fd(Dev(p), "bound", o)}
<1>1. /\ At(p, "socket") /\ Room
      /\ fds' = [fds EXCEPT ![p] = F2] /\ call' = [call EXCEPT ![p] = c2]
      /\ UNCHANGED <<use, name, tty, inbox, stale, sent, manager, faults, history>>
  BY Zenon DEF Socket
<1>2. o \in Objects \cup {0} /\ o # 0
  BY <1>1, RoomFresh
<1> HIDE DEF o
<1>3. Passes(call[p], c2, Tail(call[p].todo), call[p].r, call[p].w, o)
  BY <1>1, <1>2, Acts, CallPut
<1> HIDE DEF c2, F2
<1>4. /\ FdsTyped(F2) /\ Own(F2, Dev(p)) = Own(fds[p], Dev(p)) \cup {Fd(Dev(p), "bound", o)}
      /\ \A e : e # Dev(p) => Own(F2, e) = Own(fds[p], e)
  <2>1. FdsTyped(fds[p]) /\ Dev(p) \in Devices
    BY <1>1, Acts
  <2> DEFINE f == Fd(Dev(p), "bound", o)
  <2>2. f.dev = Dev(p) /\ f.obj = o /\ f.role # "lost" /\ F2 = fds[p] \cup {f}
    BY DEF Fd, F2
  <2> HIDE DEF f
  <2>3. /\ FdsTyped(F2) /\ Own(F2, Dev(p)) = Own(fds[p], Dev(p)) \cup {f}
        /\ \A e : e # Dev(p) => Own(F2, e) = Own(fds[p], e)
    BY <1>2, <2>1, <2>2, OwnPut
  <2> QED  BY <2>3 DEF f
<1>5. Own(fds[p], Dev(p)) = {} /\ InCall(use[Dev(p)].type, Dev(p), c2, {Fd(Dev(p), "bound", o)}, map[p])
  BY <1>1, <1>2, <1>3, Acts, SocketStep
<1>6. InCall(use[Dev(p)].type, Dev(p), c2, Own(F2, Dev(p)), map[p])
  <2>1. Own(F2, Dev(p)) = {Fd(Dev(p), "bound", o)}
    BY <1>4, <1>5
  <2> QED  BY <1>5, <2>1
<1>7. KernelOK'
  BY <1>1 DEF ChannelInv, KernelOK, history
<1>8. Called(c2) /\ c2.op = call[p].op /\ c2.dev = Dev(p)
  BY <1>3 DEF Passes, Dev
<1> QED  BY <1>1, <1>4, <1>6, <1>7, <1>8, Moves

LEMMA ListenKeeps == ASSUME ChannelInv, NEW p \in Procs, Listen(p) PROVE ChannelInv'
<1> DEFINE o == call[p].l
           c2 == Next1(call[p])
           F1 == fds[p] \ {Fd(Dev(p), "bound", o)}
           F2 == F1 \cup {Fd(Dev(p), "listening", o)}
<1>1. /\ At(p, "listen")
      /\ fds' = [fds EXCEPT ![p] = F2] /\ call' = [call EXCEPT ![p] = c2]
      /\ UNCHANGED <<use, name, tty, inbox, stale, sent, manager, faults, history>>
  BY Zenon DEF Listen, Advance
<1>2. o \in Objects \cup {0}
  BY <1>1, Acts DEF Called
<1>3. Passes(call[p], c2, Tail(call[p].todo), call[p].r, call[p].w, call[p].l)
  BY <1>1, Acts, CallPut
<1>4. Own(fds[p], Dev(p)) = {Fd(Dev(p), "bound", o)}
      /\ InCall(use[Dev(p)].type, Dev(p), c2, {Fd(Dev(p), "listening", o)}, map[p])
  BY <1>1, <1>3, Acts, ListenStep
<1> HIDE DEF o, c2, F1, F2
<1>5. /\ FdsTyped(F1) /\ Own(F1, Dev(p)) = {}
      /\ \A e : e # Dev(p) => Own(F1, e) = Own(fds[p], e)
  <2>1. FdsTyped(fds[p]) /\ Dev(p) \in Devices
    BY <1>1, Acts
  <2> DEFINE S == {Fd(Dev(p), "bound", o)}
  <2>2. About(S, Dev(p)) /\ F1 = fds[p] \ S
    BY DEF Fd, F1, About
  <2> HIDE DEF S
  <2>3. /\ FdsTyped(F1) /\ Own(F1, Dev(p)) = Own(fds[p], Dev(p)) \ S
        /\ \A e : e # Dev(p) => Own(F1, e) = Own(fds[p], e)
    BY <2>1, <2>2, OwnDrop
  <2> QED  BY <1>4, <2>3 DEF S
<1>6. /\ FdsTyped(F2) /\ Own(F2, Dev(p)) = Own(F1, Dev(p)) \cup {Fd(Dev(p), "listening", o)}
      /\ \A e : e # Dev(p) => Own(F2, e) = Own(F1, e)
  <2>1. Dev(p) \in Devices
    BY <1>1, Acts
  <2> DEFINE f == Fd(Dev(p), "listening", o)
  <2>2. f.dev = Dev(p) /\ f.obj = o /\ f.role # "lost" /\ F2 = F1 \cup {f}
    BY DEF Fd, F2
  <2> HIDE DEF f
  <2>3. /\ FdsTyped(F2) /\ Own(F2, Dev(p)) = Own(F1, Dev(p)) \cup {f}
        /\ \A e : e # Dev(p) => Own(F2, e) = Own(F1, e)
    BY <1>2, <1>5, <2>1, <2>2, OwnPut
  <2> QED  BY <2>3 DEF f
<1>7. InCall(use[Dev(p)].type, Dev(p), c2, Own(F2, Dev(p)), map[p])
  <2>1. Own(F2, Dev(p)) = {Fd(Dev(p), "listening", o)}
    BY <1>5, <1>6
  <2> QED  BY <1>4, <2>1
<1>8. KernelOK'
  BY <1>1 DEF ChannelInv, KernelOK, history
<1>9. Called(c2) /\ c2.op = call[p].op /\ c2.dev = Dev(p)
  BY <1>3 DEF Passes, Dev
<1> QED  BY <1>1, <1>5, <1>6, <1>7, <1>8, <1>9, Moves

LEMMA ConnectKeeps == ASSUME ChannelInv, NEW p \in Procs, Connect(p) PROVE ChannelInv'
<1> DEFINE o == name[<<Dev(p), 0>>]
           c2 == [Next1(call[p]) EXCEPT !.w = o]
           f == Fd(Dev(p), "w", o)
           F2 == fds[p] \cup {f}
<1>1. /\ At(p, "connect") /\ o # 0
      /\ fds' = [fds EXCEPT ![p] = F2] /\ call' = [call EXCEPT ![p] = c2]
      /\ UNCHANGED <<use, name, tty, inbox, stale, sent, manager, faults, history>>
  BY Zenon DEF Connect, Served
<1>2. o \in Objects \cup {0}
  BY <1>1, Acts DEF ChannelInv, KernelOK
<1> HIDE DEF o
<1>3. Passes(call[p], c2, Tail(call[p].todo), call[p].r, o, call[p].l)
  BY <1>1, <1>2, Acts, CallPut
<1>4. InCall(use[Dev(p)].type, Dev(p), c2, Own(fds[p], Dev(p)) \cup {f}, map[p])
  BY <1>1, <1>3, Acts, ConnectStep
<1>5. f.dev = Dev(p) /\ f.obj = o /\ f.role # "lost"
  BY DEF Fd
<1> HIDE DEF c2, f
<1>6. /\ FdsTyped(F2) /\ Own(F2, Dev(p)) = Own(fds[p], Dev(p)) \cup {f}
      /\ \A e : e # Dev(p) => Own(F2, e) = Own(fds[p], e)
  <2>1. FdsTyped(fds[p]) /\ Dev(p) \in Devices
    BY <1>1, Acts
  <2> QED  BY <1>2, <1>5, <2>1, OwnPut
<1> HIDE DEF F2
<1>7. KernelOK'
  BY <1>1 DEF ChannelInv, KernelOK, history
<1>8. Called(c2) /\ c2.op = call[p].op /\ c2.dev = Dev(p)
  BY <1>3 DEF Passes, Dev
<1> QED  BY <1>1, <1>4, <1>6, <1>7, <1>8, Moves, ZenonT(40)

LEMMA CloseKeeps == ASSUME ChannelInv, NEW p \in Procs, Close(p) PROVE ChannelInv'
<1> DEFINE c2 == Next1(call[p])
           F2 == {f \in fds[p] : f.dev # Dev(p) \/ f = Lost(Dev(p))}
<1>1. /\ At(p, "close")
      /\ fds' = [fds EXCEPT ![p] = F2] /\ call' = [call EXCEPT ![p] = c2]
      /\ UNCHANGED <<use, name, tty, inbox, stale, sent, manager, faults, history>>
  BY Zenon DEF Close, Advance
<1>2. Passes(call[p], c2, Tail(call[p].todo), call[p].r, call[p].w, call[p].l)
  BY <1>1, Acts, CallPut
<1> HIDE DEF c2
<1>3. InCall(use[Dev(p)].type, Dev(p), c2, {}, map[p])
  BY <1>1, <1>2, Acts, CloseStep
<1>4. /\ FdsTyped(F2) /\ Own(F2, Dev(p)) = {} /\ \A e : e # Dev(p) => Own(F2, e) = Own(fds[p], e)
  <2>1. FdsTyped(fds[p])
    BY <1>1, Acts
  <2> QED  BY <2>1 DEF FdsTyped, Own
<1> HIDE DEF F2
<1>5. InCall(use[Dev(p)].type, Dev(p), c2, Own(F2, Dev(p)), map[p])
  BY <1>3, <1>4
<1>6. KernelOK'
  BY <1>1 DEF ChannelInv, KernelOK, history
<1>7. Called(c2) /\ c2.op = call[p].op /\ c2.dev = Dev(p)
  BY <1>2 DEF Passes, Dev
<1> QED  BY <1>1, <1>4, <1>5, <1>6, <1>7, Moves

\* The settings of a terminal.
Terminal == [lock : Procs \cup {Null}, raw : BOOLEAN, lines : SUBSET {"dtr", "rts"}]

LEMMA TerminalPut ==
  ASSUME NEW t \in Terminal
  PROVE  /\ \A q \in Procs \cup {Null} : [t EXCEPT !.lock = q] \in Terminal
         /\ \A b \in BOOLEAN : [t EXCEPT !.raw = b] \in Terminal
         /\ \A s \in SUBSET {"dtr", "rts"} : [t EXCEPT !.lines = s] \in Terminal
BY DEF Terminal

\* What is left when only the terminals and the faults change.
LEMMA TtyTyped ==
  ASSUME KernelOK, NEW d \in Devices, NEW t \in Terminal, tty' = [tty EXCEPT ![d] = t],
         UNCHANGED <<use, name, inbox, stale, history>>, faults' \in 0..MaxFaults
  PROVE  KernelOK'
BY DEF KernelOK, Terminal, history

LEMMA TtyStepKeeps == ASSUME ChannelInv, NEW p \in Procs, TtyStep(p) PROVE ChannelInv'
<1> DEFINE d == Dev(p)
<1>1. UNCHANGED <<use, name, inbox, stale, sent, manager, faults, history>>
  BY DEF TtyStep
<1>2. KernelOK /\ (d \in Devices => tty[d] \in Terminal) /\ faults \in 0..MaxFaults
  BY DEF ChannelInv, KernelOK, Terminal
<1>3. CASE At(p, "ttyopen") /\ fds' = [fds EXCEPT ![p] = @ \cup {Fd(d, "tty", 0)}] /\ UNCHANGED tty /\ Advance(p)
  <2> DEFINE c2 == Next1(call[p])
             f == Fd(d, "tty", 0)
             F2 == fds[p] \cup {f}
  <2>1. fds' = [fds EXCEPT ![p] = F2] /\ call' = [call EXCEPT ![p] = c2]
    BY <1>3, Zenon DEF Advance
  <2>2. Passes(call[p], c2, Tail(call[p].todo), call[p].r, call[p].w, call[p].l)
    BY <1>3, Acts, CallPut
  <2>3. Own(fds[p], d) = {} /\ InCall(use[d].type, d, c2, {f}, map[p])
    BY <1>3, <2>2, Acts, TtyOpenStep DEF Tty
  <2>4. f.dev = d /\ f.obj = 0 /\ f.role # "lost"
    BY DEF Fd
  <2> HIDE DEF c2, f
  <2>5. /\ FdsTyped(F2) /\ Own(F2, d) = Own(fds[p], d) \cup {f}
        /\ \A e : e # d => Own(F2, e) = Own(fds[p], e)
    <3>1. FdsTyped(fds[p]) /\ d \in Devices
      BY <1>3, Acts
    <3> HIDE DEF d
    <3> QED  BY <2>4, <3>1, OwnPut
  <2> HIDE DEF F2
  <2>6. InCall(use[d].type, d, c2, Own(F2, d), map[p])
    <3>1. Own(F2, d) = {f}
      BY <2>3, <2>5
    <3> QED  BY <2>3, <3>1
  <2>7. KernelOK'
    BY <1>1, <1>2, <1>3 DEF KernelOK, history
  <2>8. Called(c2) /\ c2.op = call[p].op /\ c2.dev = d
    BY <2>2 DEF Passes, Dev
  <2> QED  BY <1>1, <1>3, <2>1, <2>5, <2>6, <2>7, <2>8, Moves
<1>4. CASE At(p, "flock") /\ tty' = [tty EXCEPT ![d].lock = p] /\ UNCHANGED fds /\ Advance(p)
  <2>1. d \in Devices
    BY <1>4, Acts
  <2>2. tty' = [tty EXCEPT ![d] = [tty[d] EXCEPT !.lock = p]]
    BY <1>4
  <2>3. KernelOK'
    BY <1>1, <1>2, <2>1, <2>2, TerminalPut, TtyTyped
  <2>4. Passes(call[p], Next1(call[p]), Tail(call[p].todo), call[p].r, call[p].w, call[p].l)
    BY <1>4, Acts, CallPut
  <2> QED  BY <1>1, <1>4, <2>3, <2>4, MovesQuietly DEF Quiet, Advance
<1>5. CASE /\ At(p, "getattr") /\ call' = [call EXCEPT ![p] = [Next1(@) EXCEPT !.old = tty[d].raw]]
           /\ UNCHANGED <<fds, tty>>
  <2> DEFINE b == tty[d].raw
             c2 == [Next1(call[p]) EXCEPT !.old = b]
  <2>1. d \in Devices
    BY <1>5, Acts
  <2>2. b \in BOOLEAN
    BY <1>2, <2>1 DEF Terminal
  <2>3. call' = [call EXCEPT ![p] = c2]
    BY <1>5, Zenon
  <2> HIDE DEF b
  <2>4. Passes(call[p], c2, Tail(call[p].todo), call[p].r, call[p].w, call[p].l)
    BY <1>5, <2>2, Acts, CallPut
  <2> HIDE DEF c2
  <2>5. KernelOK'
    BY <1>1, <1>2, <1>5 DEF KernelOK, history
  <2> QED  BY <1>1, <1>5, <2>3, <2>4, <2>5, MovesQuietly DEF Quiet
<1>6. CASE At(p, "setattr") /\ tty' = [tty EXCEPT ![d].raw = TRUE] /\ UNCHANGED fds /\ Advance(p)
  <2>1. d \in Devices
    BY <1>6, Acts
  <2>2. PICK b \in BOOLEAN : tty' = [tty EXCEPT ![d] = [tty[d] EXCEPT !.raw = b]]
    BY <1>6
  <2>3. KernelOK'
    BY <1>1, <1>2, <2>1, <2>2, TerminalPut, TtyTyped
  <2>4. Passes(call[p], Next1(call[p]), Tail(call[p].todo), call[p].r, call[p].w, call[p].l)
    BY <1>6, Acts, CallPut
  <2> QED  BY <1>1, <1>6, <2>3, <2>4, MovesQuietly DEF Quiet, Advance
<1>7. CASE At(p, "lines") /\ tty' = [tty EXCEPT ![d].lines = {"dtr", "rts"}] /\ UNCHANGED fds /\ Advance(p)
  <2>1. d \in Devices
    BY <1>7, Acts
  <2>2. PICK s \in SUBSET {"dtr", "rts"} : tty' = [tty EXCEPT ![d] = [tty[d] EXCEPT !.lines = s]]
    BY <1>7
  <2>3. KernelOK'
    BY <1>1, <1>2, <2>1, <2>2, TerminalPut, TtyTyped
  <2>4. Passes(call[p], Next1(call[p]), Tail(call[p].todo), call[p].r, call[p].w, call[p].l)
    BY <1>7, Acts, CallPut
  <2> QED  BY <1>1, <1>7, <2>3, <2>4, MovesQuietly DEF Quiet, Advance
<1> QED  BY <1>3, <1>4, <1>5, <1>6, <1>7 DEF TtyStep

LEMMA FaultsBound == ASSUME KernelOK PROVE (Fault \/ Upset \/ UNCHANGED faults) => faults' \in 0..MaxFaults
BY ChannelBounds DEF KernelOK, Fault, Upset

LEMMA TtyCloseKeeps == ASSUME ChannelInv, NEW p \in Procs, TtyClose(p) PROVE ChannelInv'
<1> DEFINE d == Dev(p)
           c2 == Next1(call[p])
           S == {Fd(d, "tty", 0)}
           F2 == fds[p] \ S
           b == Channel(p, d).old
<1>1. /\ At(p, "ttyclose") /\ UNCHANGED <<use, name, inbox, stale, sent, manager, history>>
      /\ fds' = [fds EXCEPT ![p] = F2] /\ call' = [call EXCEPT ![p] = c2]
      /\ Fault \/ UNCHANGED faults
      /\ \/ tty' = [tty EXCEPT ![d] = [lock |-> Null, raw |-> b, lines |-> {}]]
         \/ tty' = [tty EXCEPT ![d] = [tty[d] EXCEPT !.lock = Null, !.raw = b]]
  BY Zenon DEF TtyClose, Advance
<1>2. Passes(call[p], c2, Tail(call[p].todo), call[p].r, call[p].w, call[p].l)
  BY <1>1, Acts, CallPut
<1> HIDE DEF c2
<1>3. Own(fds[p], d) = S /\ InCall(use[d].type, d, c2, {}, map[p])
  BY <1>1, <1>2, Acts, TtyCloseStep DEF Tty
<1>4. About(S, d)
  BY DEF Fd, About
<1> HIDE DEF S
<1>5. FdsTyped(F2) /\ Own(F2, d) = Own(fds[p], d) \ S /\ \A e : e # d => Own(F2, e) = Own(fds[p], e)
  <2>1. FdsTyped(fds[p]) /\ d \in Devices
    BY <1>1, Acts
  <2> HIDE DEF d
  <2> QED  BY <1>4, <2>1, OwnDrop
<1>6. InCall(use[d].type, d, c2, Own(F2, d), map[p])
  <2>1. Own(F2, d) = {}
    BY <1>3, <1>5
  <2> QED  BY <1>3, <2>1
<1> HIDE DEF F2
<1>7. b \in BOOLEAN
  <2>1. d \in DOMAIN map[p].val
    <3>1. DueFacts(use[d].type, d, call[p], Own(fds[p], d), "ttyclose")
      BY <1>1, Acts
    <3>2. call[p].op = "close"
      BY <3>1 DEF DueFacts
    <3>3. InCall(use[d].type, d, call[p], Own(fds[p], d), map[p])
      BY <1>1, Acts
    <3> QED  BY <3>2, <3>3 DEF InCall
  <2>2. map[p].val[d] \in Channels
    BY <2>1, ManagedFacts DEF ChannelInv, Proc, ProcInv
  <2> QED  BY <2>2 DEF Channel, Channels
<1>8. KernelOK'
  <2>1. KernelOK /\ d \in Devices /\ tty[d] \in Terminal
    BY <1>1, Acts DEF ChannelInv, KernelOK, Terminal
  <2>2. faults' \in 0..MaxFaults
    BY <1>1, <2>1, FaultsBound
  <2>3. PICK t \in Terminal : tty' = [tty EXCEPT ![d] = t]
    <3>1. [lock |-> Null, raw |-> b, lines |-> {}] \in Terminal
      BY <1>7 DEF Terminal
    <3>2. [tty[d] EXCEPT !.lock = Null, !.raw = b] \in Terminal
      BY <1>7, <2>1 DEF Terminal
    <3> QED  BY <1>1, <3>1, <3>2
  <2> HIDE DEF d
  <2> QED  BY <1>1, <2>1, <2>2, <2>3, TtyTyped
<1>9. Called(c2) /\ c2.op = call[p].op /\ c2.dev = Dev(p)
  BY <1>2 DEF Passes, Dev
<1> QED  BY <1>1, <1>5, <1>6, <1>8, <1>9, Moves

-----------------------------------------------------------------------------
(* The use of open channels keeps it *)

\* Steps that change no process.
LEMMA StandsStill ==
  ASSUME ChannelInv, UNCHANGED <<use, fds, call, manager>>, KernelOK'
  PROVE  ChannelInv'
<1>1. /\ use' = use /\ fds' = fds /\ call' = call /\ map' = map /\ open_channels' = open_channels
      /\ iter' = iter
  BY DEF manager
<1>2. Sized'
  BY <1>1 DEF ChannelInv, Sized
<1>3. ASSUME NEW p \in Procs PROVE Proc(p)'
  BY <1>1 DEF ChannelInv, Proc
<1> QED  BY <1>2, <1>3 DEF ChannelInv

LEMMA AssertLineKeeps ==
  ASSUME ChannelInv, NEW p \in Procs, NEW d \in Devices, NEW line \in {"dtr", "rts"}, NEW b \in BOOLEAN,
         AssertLine(p, d, line, b)
  PROVE  ChannelInv'
<1>1. /\ UNCHANGED <<use, name, fds, inbox, stale, sent, call, manager, history>>
      /\ Fault \/ UNCHANGED faults
      /\ \E s \in SUBSET {"dtr", "rts"} : tty' = [tty EXCEPT ![d].lines = s]
  <2>1. tty[d].lines \in SUBSET {"dtr", "rts"}
    BY DEF ChannelInv, KernelOK
  <2>2. \A s : s \subseteq {"dtr", "rts"} =>
          (IF b THEN s \cup {line} ELSE s) \in SUBSET {"dtr", "rts"}
    OBVIOUS
  <2> QED  BY <2>1, <2>2 DEF AssertLine
<1>2. PICK s \in SUBSET {"dtr", "rts"} : tty' = [tty EXCEPT ![d] = [tty[d] EXCEPT !.lines = s]]
  BY <1>1
<1>3. KernelOK'
  <2>1. KernelOK /\ tty[d] \in Terminal
    BY DEF ChannelInv, KernelOK, Terminal
  <2>2. faults' \in 0..MaxFaults
    BY <1>1, <2>1, FaultsBound
  <2> QED  BY <1>1, <1>2, <2>1, <2>2, TerminalPut, TtyTyped
<1> QED  BY <1>1, <1>3, StandsStill

\* A process dies.
LEMMA DieKeeps ==
  ASSUME ChannelInv, NEW p \in Procs, Die(p), Fault \/ Upset \/ UNCHANGED faults
  PROVE  ChannelInv'
<1>1. /\ fds'[p] = {} /\ call'[p] = Idle /\ map'[p] = H!EmptyMap /\ open_channels'[p] = 0
      /\ iter'[p] = H!NoIt /\ use' = use /\ Sized' /\ Others(p)
  BY DEF Die, ChannelInv, Sized, Others
<1>2. Proc(p)'
  BY <1>1, ProcStarts DEF Proc
<1>3. KernelOK'
  <2>1. faults' \in 0..MaxFaults
    BY FaultsBound DEF ChannelInv
  <2>2. tty' \in [Devices -> Terminal]
    <3>1. \A d \in Devices : tty[d] \in Terminal
      BY DEF ChannelInv, KernelOK, Terminal
    <3>2. \A d \in Devices : [tty[d] EXCEPT !.lock = Null] \in Terminal
      BY <3>1, TerminalPut
    <3> QED  BY <3>1, <3>2 DEF Die
  <2>3. touch' \in [Devices -> SUBSET Procs]
    BY DEF Die, ChannelInv, KernelOK
  <2> QED  BY <2>1, <2>2, <2>3 DEF Die, ChannelInv, KernelOK, Terminal
<1> QED  BY <1>1, <1>2, <1>3, OthersKeep

LEMMA SendKeeps ==
  ASSUME ChannelInv, NEW p \in Procs, NEW d \in Devices, Send(p, d)
  PROVE  ChannelInv'
<1>1. CASE UNCHANGED use /\ Upset /\ Die(p)
  BY <1>1, DieKeeps
<1>2. CASE /\ inbox' = inbox \cup {Channel(p, d).w} /\ stale' = [stale EXCEPT ![Channel(p, d).w] = {}]
           /\ UNCHANGED <<use, name, fds, tty, call, manager, faults, history>>
  <2>1. Channel(p, d).w \in Objects
    <3>1. d \in DOMAIN map[p].val /\ use[d].type \in {"fifo", "msgq"}
      BY DEF Send, IsOpen, Type
    <3>2. map[p].val[d] \in Channels /\ Ended(use[d].type, map[p].val[d])
      BY <3>1, ManagedFacts DEF ChannelInv, Proc, ProcInv
    <3> QED  BY <3>1, <3>2 DEF Ended, Channel, Channels
  <2>2. KernelOK'
    BY <1>2, <2>1 DEF ChannelInv, KernelOK, history
  <2> QED  BY <1>2, <2>2, StandsStill
<1> QED  BY <1>1, <1>2 DEF Send, Die

LEMMA RecvKeeps ==
  ASSUME ChannelInv, NEW p \in Procs, NEW d \in Devices, Recv(p, d)
  PROVE  ChannelInv'
<1>1. KernelOK'
  BY DEF Recv, ChannelInv, KernelOK
<1> QED  BY <1>1, StandsStill DEF Recv

-----------------------------------------------------------------------------
(* The error paths keep it *)

\* A setup closes what it had opened, but for a descriptor that it may forget.
LEMMA DropLost ==
  ASSUME NEW F, FdsTyped(F), NEW d \in Devices, NEW S, About(S, d), Own(F, d) \subseteq S,
         NEW L, L \subseteq {Lost(d)}, NEW F2, F2 = (F \ S) \cup L
  PROVE  /\ FdsTyped(F2) /\ Own(F2, d) = {} /\ \A e : e # d => Own(F2, e) = Own(F, e)
<1>1. Lost(d).dev = d /\ Lost(d).obj = 0
  BY DEF Fd, Lost
<1> QED  BY <1>1 DEF FdsTyped, Own, About

LEMMA GivesUp ==
  ASSUME ChannelInv, NEW p \in Procs, NEW s, At(p, s), call[p].op = "open", GiveUp(p), KernelOK',
         NEW S, About(S, Dev(p)), Own(fds[p], Dev(p)) \subseteq S,
         NEW L, L \subseteq {Lost(Dev(p))},
         fds' = [fds EXCEPT ![p] = (fds[p] \ S) \cup L] \/ (UNCHANGED fds /\ S = {} /\ L = {})
  PROVE  ChannelInv'
<1> DEFINE F2 == (fds[p] \ S) \cup L
<1>1. fds' = [fds EXCEPT ![p] = F2] \/ (UNCHANGED fds /\ F2 = fds[p])
  OBVIOUS
<1>2. /\ FdsTyped(F2) /\ Own(F2, Dev(p)) = {} /\ \A e : e # Dev(p) => Own(F2, e) = Own(fds[p], e)
  <2>1. FdsTyped(fds[p]) /\ Dev(p) \in Devices
    BY Acts
  <2> QED  BY <2>1, DropLost
<1> HIDE DEF F2
<1>3. ProcInv(use, call[p], fds[p], map[p], iter[p], open_channels[p])
  BY DEF ChannelInv, Proc
<1>4. ProcInv(use, Idle, F2, map[p], iter[p], open_channels[p])
  BY <1>2, <1>3, ProcGivesUp DEF Dev
<1>5. /\ call' = [call EXCEPT ![p] = Idle] /\ use' = use
      /\ map' = map /\ iter' = iter /\ open_channels' = open_channels
  BY DEF GiveUp, manager
<1>6. fds'[p] = F2 /\ call'[p] = Idle /\ Sized' /\ Others(p)
  BY <1>1, <1>5 DEF ChannelInv, Sized, Others
<1>7. Proc(p)'
  BY <1>4, <1>5, <1>6 DEF Proc
<1> QED  BY <1>5, <1>6, <1>7, OthersKeep

\* A call that fails is due in a setup.
LEMMA FailsAt ==
  ASSUME ChannelInv, NEW p \in Procs, NEW steps, Fails(p, steps)
  PROVE  /\ call[p].op = "open" /\ faults' \in 0..MaxFaults
         /\ \E s \in steps : /\ At(p, s) /\ use[Dev(p)].type \in Kinds
                             /\ DueFacts(use[Dev(p)].type, Dev(p), call[p], Own(fds[p], Dev(p)), s)
<1>1. faults' \in 0..MaxFaults
  BY FaultsBound DEF Fails, ChannelInv
<1>2. PICK s \in steps : At(p, s)
  BY DEF Fails
<1> QED  BY <1>1, <1>2, Acts DEF Fails

LEMMA FifoFailsKeeps == ASSUME ChannelInv, NEW p \in Procs, FifoFails(p) PROVE ChannelInv'
<1> DEFINE d == Dev(p)
           S == {Fd(d, "r", call[p].r), Fd(d, "w", call[p].w)}
           L == IF call[p].w = 0 THEN {} ELSE {Lost(d)}
<1>1. /\ Fails(p, {"mkfifo", "open", "setfl"}) /\ GiveUp(p) /\ UNCHANGED tty
      /\ fds' = [fds EXCEPT ![p] = (fds[p] \ S) \cup L]
      /\ \E N : name' = [x \in DOMAIN name |-> IF x \in N THEN 0 ELSE name[x]]
  <2> DEFINE made == {e \in {0, 1} : \A i \in DOMAIN call[p].todo : call[p].todo[i] # <<"mkfifo", e>>}
             N == {x \in DOMAIN name : x[1] = d /\ x[2] \in made}
  <2>1. /\ Fails(p, {"mkfifo", "open", "setfl"}) /\ GiveUp(p) /\ UNCHANGED tty
        /\ fds' = [fds EXCEPT ![p] = (fds[p] \ S) \cup L]
        /\ name' = [x \in DOMAIN name |-> IF x[1] = d /\ x[2] \in made THEN 0 ELSE name[x]]
    BY Zenon DEF FifoFails
  <2> HIDE DEF made
  <2>2. name' = [x \in DOMAIN name |-> IF x \in N THEN 0 ELSE name[x]]
    BY <2>1
  <2> QED  BY <2>1, <2>2
<1>2. PICK s \in {"mkfifo", "open", "setfl"} :
        At(p, s) /\ DueFacts(use[d].type, d, call[p], Own(fds[p], d), s)
  BY <1>1, FailsAt
<1>3. Own(fds[p], d) \subseteq S
  <2>1. s \in {"mkfifo", "open", "setfl"} => Own(fds[p], d) \subseteq S
    BY <1>2 DEF DueFacts, Ends
  <2> QED  BY <2>1
<1>4. About(S, d) /\ L \subseteq {Lost(d)}
  BY DEF About, Fd
<1>5. KernelOK'
  <2>1. faults' \in 0..MaxFaults
    BY <1>1, FailsAt
  <2> QED  BY <1>1, <2>1 DEF GiveUp, ChannelInv, KernelOK
<1>6. call[p].op = "open"
  BY <1>1, FailsAt
<1> HIDE DEF S, L
<1> QED  BY <1>1, <1>2, <1>3, <1>4, <1>5, <1>6, GivesUp

LEMMA MsgqFailsKeeps == ASSUME ChannelInv, NEW p \in Procs, MsgqFails(p) PROVE ChannelInv'
<1>1. PICK s \in {"msgget"} :
        At(p, s) /\ DueFacts(use[Dev(p)].type, Dev(p), call[p], Own(fds[p], Dev(p)), s)
  BY FailsAt DEF MsgqFails
<1>2. Own(fds[p], Dev(p)) = {}
  BY <1>1 DEF DueFacts
<1>3. KernelOK'
  <2>1. faults' \in 0..MaxFaults
    BY FailsAt DEF MsgqFails
  <2> QED  BY <2>1 DEF MsgqFails, GiveUp, ChannelInv, KernelOK
<1>4. call[p].op = "open" /\ GiveUp(p)
  BY FailsAt DEF MsgqFails
<1>5. UNCHANGED fds
  BY DEF MsgqFails
<1>6. About({}, Dev(p))
  BY DEF About
<1> QED  BY <1>1, <1>2, <1>3, <1>4, <1>5, <1>6, GivesUp

LEMMA UartFailsKeeps == ASSUME ChannelInv, NEW p \in Procs, UartFails(p) PROVE ChannelInv'
<1> DEFINE d == Dev(p)
           S == {Fd(d, "tty", 0)}
           L == IF At(p, "lines") THEN {Lost(d)} ELSE {}
           steps == {"ttyopen", "flock", "getattr", "setattr", "lines"}
           lock == IF tty[d].lock = p THEN Null ELSE tty[d].lock
           raw == IF At(p, "setattr") \/ At(p, "lines") THEN call[p].old ELSE tty[d].raw
<1>1. /\ Fails(p, steps) /\ GiveUp(p) /\ UNCHANGED name
      /\ fds' = [fds EXCEPT ![p] = (fds[p] \ S) \cup L]
      /\ tty' = [tty EXCEPT ![d] = [tty[d] EXCEPT !.lock = lock, !.raw = raw]]
  BY Zenon DEF UartFails
<1>2. PICK s \in steps : At(p, s) /\ DueFacts(use[d].type, d, call[p], Own(fds[p], d), s)
  BY <1>1, FailsAt
<1>3. Own(fds[p], d) \subseteq S
  <2>1. s \in steps => Own(fds[p], d) \subseteq S
    BY <1>2 DEF DueFacts, Tty
  <2> QED  BY <2>1
<1>4. About(S, d) /\ L \subseteq {Lost(d)}
  BY DEF About, Fd
<1>5. KernelOK'
  <2>1. faults' \in 0..MaxFaults
    BY <1>1, FailsAt
  <2>2. d \in Devices /\ Called(call[p])
    BY <1>2, Acts
  <2>3. tty[d] \in Terminal /\ KernelOK
    BY <2>2 DEF ChannelInv, KernelOK, Terminal
  <2>4. lock \in Procs \cup {Null} /\ raw \in BOOLEAN
    BY <2>2, <2>3 DEF Terminal, Called
  <2> HIDE DEF lock, raw, d
  <2>5. PICK t \in Terminal : tty' = [tty EXCEPT ![d] = t]
    <3>1. [tty[d] EXCEPT !.lock = lock, !.raw = raw] \in Terminal
      BY <2>3, <2>4 DEF Terminal
    <3> QED  BY <1>1, <3>1
  <2>6. UNCHANGED <<use, name, inbox, stale, history>>
    BY <1>1 DEF GiveUp, history
  <2> QED  BY <2>1, <2>2, <2>3, <2>5, <2>6, TtyTyped
<1>6. call[p].op = "open"
  BY <1>1, FailsAt
<1> HIDE DEF S, L
<1> QED  BY <1>1, <1>2, <1>3, <1>4, <1>5, <1>6, GivesUp

LEMMA ConnectFailsKeeps == ASSUME ChannelInv, NEW p \in Procs, ConnectFails(p) PROVE ChannelInv'
<1> DEFINE d == Dev(p)
           S == {Fd(d, "listening", call[p].l)}
           L == {Lost(d)}
<1>1. /\ Fails(p, {"connect"}) /\ GiveUp(p) /\ UNCHANGED tty
      /\ fds' = [fds EXCEPT ![p] = (fds[p] \ S) \cup L]
      /\ name' = name \/ name' = [name EXCEPT ![<<d, 0>>] = 0]
  BY Zenon DEF ConnectFails
<1>2. PICK s \in {"connect"} : At(p, s) /\ DueFacts(use[d].type, d, call[p], Own(fds[p], d), s)
  BY <1>1, FailsAt
<1>3. Own(fds[p], d) \subseteq S
  BY <1>2 DEF DueFacts, Listening
<1>4. About(S, d) /\ L \subseteq {Lost(d)}
  BY DEF About, Fd
<1>5. KernelOK'
  <2>1. faults' \in 0..MaxFaults
    BY <1>1, FailsAt
  <2> QED  BY <1>1, <2>1 DEF GiveUp, ChannelInv, KernelOK
<1>6. call[p].op = "open"
  BY <1>1, FailsAt
<1> HIDE DEF S, L
<1> QED  BY <1>1, <1>2, <1>3, <1>4, <1>5, <1>6, GivesUp

LEMMA StartFailsKeeps == ASSUME ChannelInv, NEW p \in Procs, StartFails(p) PROVE ChannelInv'
BY DieKeeps DEF StartFails

LEMMA CrashKeeps == ASSUME ChannelInv, NEW p \in Procs, Crash(p) PROVE ChannelInv'
BY DieKeeps DEF Crash

-----------------------------------------------------------------------------
(* The beginning and the end of the calls keep it *)

LEMMA BeginOpenKeeps ==
  ASSUME ChannelInv, NEW p \in Procs, NEW d \in Devices, NEW b \in BOOLEAN, BeginOpen(p, d, b)
  PROVE  ChannelInv'
<1> DEFINE alone == \A q \in Procs : Dev(q) # d
           c2 == [Idle EXCEPT !.op = "open", !.dev = d, !.server = b,
                              !.todo = Setup(Type(d), b), !.clean = alone]
<1>1. /\ ~Busy(p) /\ iter[p] = H!NoIt /\ ~H!Has(map[p], d)
      /\ call' = [q \in Procs |-> IF q = p THEN c2
                                  ELSE IF Dev(q) = d THEN [call[q] EXCEPT !.clean = FALSE] ELSE call[q]]
      /\ stale' = [o \in Objects |->
                     IF o = name[<<d, IF b = (Type(d) = "fifo") THEN 0 ELSE 1>>] /\ o \in inbox
                     THEN stale[o] \cup {p} ELSE stale[o]]
      /\ touch' = [touch EXCEPT ![d] = IF b /\ Type(d) # "bus" THEN {} ELSE @]
      /\ UNCHANGED <<use, name, fds, tty, inbox, sent, manager, faults, tainted>>
  BY Zenon DEF BeginOpen
<1>2. ProcInv(use, call[p], fds[p], map[p], iter[p], open_channels[p]) /\ call[p] = Idle
  BY <1>1 DEF ChannelInv, Proc, ProcInv, Busy
<1>3. d \notin DOMAIN map[p].val
  BY <1>1, <1>2, ManagedFacts DEF ProcInv
<1>4. ProcInv(use, c2, fds[p], map[p], iter[p], open_channels[p])
  <2>1. alone \in BOOLEAN
    OBVIOUS
  <2>2. Typed(use)
    BY UsesTyped DEF ChannelInv
  <2> HIDE DEF alone
  <2> QED  BY <1>1, <1>2, <1>3, <2>1, <2>2, ProcBeginOpen DEF Type
<1> HIDE DEF c2
<1>5. Sized' /\ call'[p] = c2 /\ Others(p)
  <2>1. DOMAIN call' = Procs /\ call'[p] = c2
    BY <1>1
  <2>2. \A q \in Procs \ {p} : \/ call'[q] = call[q]
                               \/ call[q].dev \in Devices /\ call'[q] = [call[q] EXCEPT !.clean = FALSE]
    BY <1>1 DEF Dev
  <2> QED  BY <1>1, <2>1, <2>2 DEF ChannelInv, Sized, Others, manager
<1>6. Proc(p)'
  BY <1>1, <1>4, <1>5 DEF Proc, manager
<1>7. KernelOK'
  <2>1. stale' \in [Objects -> SUBSET Procs]
    BY <1>1 DEF ChannelInv, KernelOK
  <2>2. touch' \in [Devices -> SUBSET Procs]
    BY <1>1 DEF ChannelInv, KernelOK
  <2> QED  BY <1>1, <2>1, <2>2 DEF ChannelInv, KernelOK
<1> QED  BY <1>1, <1>5, <1>6, <1>7, OthersKeep

LEMMA FinishOpenKeeps == ASSUME ChannelInv, NEW p \in Procs, FinishOpen(p) PROVE ChannelInv'
<1> DEFINE c == call[p]
           v == [server |-> c.server, r |-> c.r, w |-> c.w, l |-> c.l, old |-> c.old]
           m2 == H!Insert(map[p], c.dev, v)
           tch == CASE ~c.clean -> {} [] c.clean /\ Serves(c, c.dev) -> {p}
                    [] OTHER -> touch[c.dev] \cup {p}
<1>1. /\ c.op = "open" /\ c.todo \in {<<>>, <<<<"setfl">>>>}
      /\ inbox' = inbox \ {c.r} /\ stale' = [o \in Objects |-> IF o = c.r THEN {} ELSE stale[o]]
      /\ open_channels' = [open_channels EXCEPT ![p] = open_channels[p] + 1]
      /\ map' = [map EXCEPT ![p] = m2] /\ touch' = [touch EXCEPT ![c.dev] = tch]
      /\ call' = [call EXCEPT ![p] = Idle]
      /\ UNCHANGED <<use, name, fds, tty, sent, iter, faults, tainted>>
  BY Zenon DEF FinishOpen
<1>2. ProcInv(use, c, fds[p], map[p], iter[p], open_channels[p]) /\ Typed(use)
  BY UsesTyped DEF ChannelInv, Proc
<1>3. ProcInv(use, Idle, fds[p], m2, iter[p], open_channels[p] + 1)
  BY <1>1, <1>2, ProcFinishOpen
<1>4. tch \in SUBSET Procs
  <2>1. c.dev \in Devices
    BY <1>1, <1>2 DEF ProcInv
  <2>2. touch[c.dev] \in SUBSET Procs
    BY <2>1 DEF ChannelInv, KernelOK
  <2>3. c.clean \in BOOLEAN
    BY <1>2 DEF ProcInv, Called
  <2>4. CASE ~c.clean
    BY <2>4
  <2>5. CASE c.clean /\ Serves(c, c.dev)
    BY <2>5
  <2>6. CASE c.clean /\ ~Serves(c, c.dev)
    BY <2>2, <2>6
  <2> QED  BY <2>4, <2>5, <2>6
<1> HIDE DEF m2, tch
<1>5. Sized' /\ call'[p] = Idle /\ map'[p] = m2 /\ open_channels'[p] = open_channels[p] + 1 /\ Others(p)
  BY <1>1 DEF ChannelInv, Sized, Others
<1>6. Proc(p)'
  BY <1>1, <1>3, <1>5 DEF Proc
<1>7. KernelOK'
  <2>1. stale' \in [Objects -> SUBSET Procs]
    BY <1>1 DEF ChannelInv, KernelOK
  <2>2. touch' \in [Devices -> SUBSET Procs]
    BY <1>1, <1>4 DEF ChannelInv, KernelOK
  <2> QED  BY <1>1, <2>1, <2>2 DEF ChannelInv, KernelOK
<1> QED  BY <1>1, <1>5, <1>6, <1>7, OthersKeep

LEMMA BeginCloseKeeps ==
  ASSUME ChannelInv, NEW p \in Procs, NEW d \in Devices, BeginClose(p, d)
  PROVE  ChannelInv'
<1> DEFINE v == map[p].val[d]
           c2 == [Idle EXCEPT !.op = "close", !.dev = d, !.r = map[p].val[d].r, !.w = map[p].val[d].w,
                              !.l = map[p].val[d].l, !.todo = Teardown(use[d].type, map[p].val[d])]
<1>1. /\ ~Busy(p) /\ iter[p] \in {H!NoIt, [iter[p] EXCEPT !.cur = d]} /\ H!Has(map[p], d)
      /\ call' = [q \in Procs |-> IF q = p THEN c2
                                  ELSE IF Dev(q) = d THEN [call[q] EXCEPT !.clean = FALSE] ELSE call[q]]
      /\ touch' = [touch EXCEPT ![d] = IF Serves(v, d) THEN {} ELSE @ \ {p}]
      /\ UNCHANGED <<use, kernel, manager, faults, tainted>>
  BY Zenon DEF BeginClose, Channel, Type
<1>2. ProcInv(use, call[p], fds[p], map[p], iter[p], open_channels[p]) /\ call[p] = Idle
  BY <1>1 DEF ChannelInv, Proc, ProcInv, Busy
<1>3. d \in DOMAIN map[p].val
  BY <1>1, <1>2, ManagedFacts DEF ProcInv
<1>4. ProcInv(use, c2, fds[p], map[p], iter[p], open_channels[p])
  <2>1. Typed(use)
    BY UsesTyped DEF ChannelInv
  <2> QED  BY <1>1, <1>2, <1>3, <2>1, ProcBeginClose
<1> HIDE DEF c2, v
<1>5. Sized' /\ call'[p] = c2 /\ Others(p)
  <2>1. DOMAIN call' = Procs /\ call'[p] = c2
    BY <1>1
  <2>2. \A q \in Procs \ {p} : \/ call'[q] = call[q]
                               \/ call[q].dev \in Devices /\ call'[q] = [call[q] EXCEPT !.clean = FALSE]
    BY <1>1 DEF Dev
  <2> QED  BY <1>1, <2>1, <2>2 DEF ChannelInv, Sized, Others, manager, kernel
<1>6. Proc(p)'
  BY <1>1, <1>4, <1>5 DEF Proc, manager, kernel
<1>7. KernelOK'
  <2>1. touch' \in [Devices -> SUBSET Procs]
    BY <1>1 DEF ChannelInv, KernelOK
  <2>2. /\ use' = use /\ name' = name /\ tty' = tty /\ inbox' = inbox /\ stale' = stale /\ faults' = faults
    BY <1>1 DEF kernel
  <2> QED  BY <2>1, <2>2 DEF ChannelInv, KernelOK
<1> QED  BY <1>1, <1>5, <1>6, <1>7, OthersKeep

LEMMA FinishCloseKeeps == ASSUME ChannelInv, NEW p \in Procs, FinishClose(p) PROVE ChannelInv'
<1> DEFINE c == call[p]
           m2 == H!Delete(map[p], c.dev)
<1>1. /\ c.op = "close" /\ c.todo = <<>>
      /\ open_channels' = [open_channels EXCEPT ![p] = open_channels[p] - 1]
      /\ map' = [map EXCEPT ![p] = m2] /\ call' = [call EXCEPT ![p] = Idle]
      /\ UNCHANGED use /\ UNCHANGED kernel /\ UNCHANGED iter /\ UNCHANGED faults /\ UNCHANGED history
  BY Zenon DEF FinishClose, Dev
<1>2. ProcInv(use, c, fds[p], map[p], iter[p], open_channels[p]) /\ Typed(use)
  BY UsesTyped DEF ChannelInv, Proc
<1>3. ProcInv(use, Idle, fds[p], m2, iter[p], open_channels[p] - 1)
  BY <1>1, <1>2, ProcFinishClose
<1> HIDE DEF m2
<1>4. /\ Sized' /\ call'[p] = Idle /\ map'[p] = m2 /\ open_channels'[p] = open_channels[p] - 1
      /\ Others(p)
  BY <1>1 DEF ChannelInv, Sized, Others, kernel
<1>5. Proc(p)'
  BY <1>1, <1>3, <1>4 DEF Proc, kernel
<1>6. KernelOK'
  BY <1>1, KernelSame DEF ChannelInv
<1> QED  BY <1>1, <1>4, <1>5, <1>6, OthersKeep

LEMMA TeardownKeeps ==
  ASSUME ChannelInv, NEW p \in Procs, BeginTeardown(p) \/ NextTeardown(p)
  PROVE  ChannelInv'
<1>1. /\ ~Busy(p) /\ UNCHANGED use /\ UNCHANGED kernel /\ UNCHANGED call /\ UNCHANGED open_channels
      /\ UNCHANGED faults /\ UNCHANGED history
  BY DEF BeginTeardown, NextTeardown
<1>2. ProcInv(use, Idle, fds[p], map[p], iter[p], open_channels[p]) /\ call[p] = Idle
  BY <1>1 DEF ChannelInv, Proc, ProcInv, Busy
<1>3. KernelOK'
  BY <1>1, KernelSame DEF ChannelInv
<1>4. ASSUME NEW i2, NEW m2, ProcInv(use, Idle, fds[p], m2, i2, open_channels[p]),
             iter' = [iter EXCEPT ![p] = i2],
             map' = [map EXCEPT ![p] = m2] \/ (UNCHANGED map /\ m2 = map[p])
      PROVE  ChannelInv'
  <2>1. Sized' /\ iter'[p] = i2 /\ map'[p] = m2 /\ call'[p] = Idle /\ Others(p)
    BY <1>1, <1>2, <1>4 DEF ChannelInv, Sized, Others, kernel
  <2>2. Proc(p)'
    BY <1>1, <1>4, <2>1 DEF Proc, kernel
  <2> QED  BY <1>1, <1>3, <2>1, <2>2, OthersKeep
<1>5. CASE BeginTeardown(p)
  <2> DEFINE i2 == H!ItNext(map[p], H!ItInit)
  <2>1. iter[p] = H!NoIt /\ iter' = [iter EXCEPT ![p] = i2] /\ UNCHANGED map
    BY <1>5 DEF BeginTeardown
  <2>2. Managed(map[p], i2)
    BY <1>2, <2>1, ManagedBegin DEF ProcInv
  <2> HIDE DEF i2
  <2>3. ProcInv(use, Idle, fds[p], map[p], i2, open_channels[p])
    BY <1>2, <2>2, ProcIterates
  <2> QED  BY <1>4, <2>1, <2>3
<1>6. CASE NextTeardown(p) /\ iter[p].cur = Null
  <2>1. /\ iter[p] # H!NoIt /\ iter' = [iter EXCEPT ![p] = H!NoIt]
        /\ map' = [map EXCEPT ![p] = H!EmptyMap]
    BY <1>6 DEF NextTeardown
  <2>2. ProcInv(use, Idle, fds[p], H!EmptyMap, H!NoIt, open_channels[p])
    BY <1>2, <1>6, <2>1, ProcTornDown
  <2> QED  BY <1>4, <2>1, <2>2
<1>7. CASE NextTeardown(p) /\ iter[p].cur # Null
  <2> DEFINE i2 == H!ItNext(map[p], iter[p])
  <2>1. /\ iter[p] # H!NoIt /\ iter' = [iter EXCEPT ![p] = i2] /\ UNCHANGED map
        /\ iter[p].cur \notin DOMAIN map[p].val
    BY <1>7 DEF NextTeardown, IsOpen
  <2>2. Managed(map[p], i2)
    BY <1>2, <1>7, <2>1, ManagedNext DEF ProcInv
  <2> HIDE DEF i2
  <2>3. ProcInv(use, Idle, fds[p], map[p], i2, open_channels[p])
    BY <1>2, <2>2, ProcIterates
  <2> QED  BY <1>4, <2>1, <2>3
<1> QED  BY <1>5, <1>6, <1>7

-----------------------------------------------------------------------------
(* The theorems that rest on it *)

LEMMA InitInv == Init => ChannelInv
<1> SUFFICES ASSUME Init PROVE ChannelInv
  OBVIOUS
<1>1. KernelOK
  BY ChannelBounds DEF Init, KernelOK
<1>2. Sized
  BY DEF Init, Sized
<1>3. ASSUME NEW p \in Procs PROVE Proc(p)
  <2>1. /\ call[p] = Idle /\ fds[p] = {} /\ map[p] = H!EmptyMap /\ iter[p] = H!NoIt
        /\ open_channels[p] = 0
    BY DEF Init
  <2> QED  BY <2>1, ProcStarts DEF Proc
<1> QED  BY <1>1, <1>2, <1>3 DEF ChannelInv

LEMMA NextInv == ChannelInv /\ [Next]_vars => ChannelInv'
<1> SUFFICES ASSUME ChannelInv, [Next]_vars PROVE ChannelInv'
  OBVIOUS
<1>1. ASSUME NEW p \in Procs, NEW d \in Devices, BeginClose(p, d) \/ Send(p, d) \/ Recv(p, d)
      PROVE  ChannelInv'
  BY <1>1, BeginCloseKeeps, SendKeeps, RecvKeeps
<1>2. ASSUME NEW p \in Procs, NEW d \in Devices, NEW b \in BOOLEAN,
             BeginOpen(p, d, b) \/ \E line \in {"dtr", "rts"} : AssertLine(p, d, line, b)
      PROVE  ChannelInv'
  BY <1>2, BeginOpenKeeps, AssertLineKeeps
<1>3. ASSUME NEW p \in Procs,
             FinishOpen(p) \/ FinishClose(p) \/ BeginTeardown(p) \/ NextTeardown(p)
      PROVE  ChannelInv'
  BY <1>3, FinishOpenKeeps, FinishCloseKeeps, TeardownKeeps
<1>4. ASSUME NEW p \in Procs, Unlink(p) \/ MakeName(p) \/ OpenEnd(p) \/ MsgGet(p) \/ RmId(p)
      PROVE  ChannelInv'
  BY <1>4, UnlinkKeeps, MakeNameKeeps, OpenEndKeeps, MsgGetKeeps, RmIdKeeps
<1>5. ASSUME NEW p \in Procs,
             Access(p) \/ Socket(p) \/ Listen(p) \/ Connect(p) \/ Close(p) \/ TtyStep(p) \/ TtyClose(p)
      PROVE  ChannelInv'
  BY <1>5, AccessKeeps, SocketKeeps, ListenKeeps, ConnectKeeps, CloseKeeps, TtyStepKeeps, TtyCloseKeeps
<1>6. ASSUME NEW p \in Procs,
             FifoFails(p) \/ MsgqFails(p) \/ UartFails(p) \/ StartFails(p) \/ ConnectFails(p) \/ Crash(p)
      PROVE  ChannelInv'
  BY <1>6, FifoFailsKeeps, MsgqFailsKeeps, UartFailsKeeps, StartFailsKeeps, ConnectFailsKeeps, CrashKeeps
<1>7. CASE UNCHANGED vars
  <2>1. /\ UNCHANGED use /\ UNCHANGED kernel /\ UNCHANGED call /\ UNCHANGED manager /\ UNCHANGED faults
        /\ UNCHANGED history
    BY <1>7 DEF vars
  <2>2. KernelOK'
    BY <2>1, KernelSame DEF ChannelInv
  <2>3. fds' = fds
    BY <2>1 DEF kernel
  <2> QED  BY <2>1, <2>2, <2>3, StandsStill
<1> QED  BY <1>1, <1>2, <1>3, <1>4, <1>5, <1>6, <1>7 DEF Next

LEMMA SpecInv == Spec => []ChannelInv
BY InitInv, NextInv, PTL DEF Spec

\* The variables have their types in every reachable state, whatever the processes do; a
\* manager's count never leaves 0..Cardinality(Devices), though channel_open and
\* channel_close change it apart from the map.
THEOREM ChannelsTyped == Spec => []TypeOK
<1>1. ASSUME ChannelInv PROVE TypeOK
  <2>1. ASSUME NEW p \in Procs
        PROVE  /\ \A f \in fds[p] : f.dev \in Devices /\ f.obj \in Objects \cup {0}
               /\ open_channels[p] \in 0..Cardinality(Devices)
    <3>1. FdsTyped(fds[p]) /\ Managed(map[p], iter[p]) /\ open_channels[p] = map[p].count
      BY <1>1 DEF ChannelInv, Proc, ProcInv
    <3>2. DOMAIN map[p].val \subseteq Devices /\ open_channels[p] = Cardinality(DOMAIN map[p].val)
      BY <3>1, ManagedFacts
    <3>3. /\ Cardinality(DOMAIN map[p].val) \in Nat /\ Cardinality(Devices) \in Nat
          /\ Cardinality(DOMAIN map[p].val) <= Cardinality(Devices)
      BY <3>2, DevicesAssumption, FS_Subset, FS_CardinalityType
    <3> QED  BY <3>1, <3>2, <3>3 DEF FdsTyped
  <2> QED  BY <1>1, <2>1 DEF TypeOK, ChannelInv, KernelOK
<1> QED  BY <1>1, SpecInv, PTL

\* The manager's count of open channels, the map's count of items and the keys that
\* hash_map_get finds agree between any two steps, and at the end of
\* channel_manager_teardown nothing is left: for any devices, any hash of them and any
\* size the map starts with.
THEOREM ManagersAgree == Spec => []ManagerAgrees
<1>1. ASSUME ChannelInv PROVE ManagerAgrees
  <2> SUFFICES ASSUME NEW p \in Procs
               PROVE  /\ open_channels[p] = map[p].count
                      /\ map[p].count = Cardinality({d \in Devices : H!Has(map[p], d)})
                      /\ (iter[p] # H!NoIt /\ iter[p].cur = Null) => map[p].count = 0
    BY DEF ManagerAgrees
  <2>1. Managed(map[p], iter[p]) /\ open_channels[p] = map[p].count
    BY <1>1 DEF ChannelInv, Proc, ProcInv
  <2>2. map[p].count = Cardinality(DOMAIN map[p].val) /\ DOMAIN map[p].val \subseteq Devices
        /\ \A d \in Devices : H!Has(map[p], d) <=> d \in DOMAIN map[p].val
    BY <2>1, ManagedFacts
  <2>3. {d \in Devices : H!Has(map[p], d)} = DOMAIN map[p].val
    BY <2>2
  <2>4. (iter[p] # H!NoIt /\ iter[p].cur = Null) => DOMAIN map[p].val = {}
    BY <2>1, ManagedAt
  <2>5. Cardinality({}) = 0
    BY FS_EmptySet
  <2> QED  BY <2>1, <2>2, <2>3, <2>4, <2>5
<1> QED  BY <1>1, SpecInv, PTL

\* Between calls a process has open what the channels in its map own, and besides those
\* descriptors only ones that three error paths of the setups forgot: whatever fails, is
\* refused or dies, and in whatever order the processes come.
THEOREM DescriptorsAccounted == Spec => []FdsAccounted
<1>1. ASSUME ChannelInv PROVE FdsAccounted
  <2> SUFFICES ASSUME NEW p \in Procs, ~Busy(p)
               PROVE  {f \in fds[p] : f # Lost(f.dev)} =
                        UNION {Owned(d, Channel(p, d)) : d \in {e \in Devices : IsOpen(p, e)}}
    BY DEF FdsAccounted
  <2>1. ProcInv(use, Idle, fds[p], map[p], iter[p], open_channels[p])
    BY <1>1 DEF ChannelInv, Proc, ProcInv, Busy
  <2>2. FdsTyped(fds[p]) /\ \A d \in Devices : AtRest(use[d].type, d, Own(fds[p], d), map[p])
    BY <2>1, NullAssumption DEF ProcInv, Idle
  <2>3. ASSUME NEW d \in Devices, IsOpen(p, d) PROVE Owned(d, Channel(p, d)) = Own(fds[p], d)
    <3>1. Own(fds[p], d) = OwnedBy(use[d].type, d, Channel(p, d))
      BY <2>2, <2>3 DEF AtRest, IsOpen, Channel
    <3>2. use[d].type \in Kinds
      BY <1>1, UsesTyped DEF ChannelInv, Typed
    <3>3. Owned(d, Channel(p, d)) = OwnedBy(use[d].type, d, Channel(p, d))
      BY <3>2 DEF Owned, OwnedBy, Type, Kinds, Tty, Ends, Connected, Listening
    <3> QED  BY <3>1, <3>3
  <2>4. \A d \in Devices : ~IsOpen(p, d) => Own(fds[p], d) = {}
    BY <2>2 DEF AtRest, IsOpen
  <2>5. ASSUME NEW f \in fds[p], f # Lost(f.dev)
        PROVE  \E d \in {e \in Devices : IsOpen(p, e)} : f \in Owned(d, Channel(p, d))
    <3>1. f.dev \in Devices /\ f \in Own(fds[p], f.dev)
      BY <2>2, <2>5 DEF FdsTyped, Own
    <3> QED  BY <2>3, <2>4, <3>1
  <2>6. ASSUME NEW d \in {e \in Devices : IsOpen(p, e)}, NEW f \in Owned(d, Channel(p, d))
        PROVE  f \in fds[p] /\ f # Lost(f.dev)
    <3>1. f \in Own(fds[p], d)
      BY <2>3
    <3> QED  BY <3>1 DEF Own
  <2> QED  BY <2>5, <2>6
<1> QED  BY <1>1, SpecInv, PTL
=============================================================================
