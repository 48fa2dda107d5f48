------------------------------- MODULE HashMap -------------------------------
(***************************************************************************)
(* The chained hash map of src/hashmap.c, pointer by pointer.  An item is  *)
(* named by its key, of which there is one item at most; `next' is defined *)
(* for the allocated items only, so that no definition can read a freed    *)
(* one.  The first operators take a map and give a map, and ChannelManager *)
(* uses them too; the specification below lets one thread call them.       *)
(* No key is NULL, and memory never runs out (safe_malloc exits instead).  *)
(***************************************************************************)
EXTENDS Pointers

CONSTANTS Keys, Vals,
          Hash,       \* hash32_djb2 of each key: any number
          BaseSize    \* HASH_MAP_BASE_SIZE, a power of two: 32

ASSUME KeysAssumption == IsFiniteSet(Keys) /\ Null \notin Keys /\ "none" \notin Keys \cup {Null}
ASSUME HashAssumption == Hash \in [Keys -> Nat]
ASSUME BaseSizeAssumption == BaseSize \in Nat \ {0}
\* hash_map_get answers NULL for a key that is not there.
ASSUME ValsAssumption == Null \notin Vals

Pos(m, k) == Hash[k] % m.capacity

EmptyMap ==
  [capacity |-> BaseSize, count |-> 0, pool |-> [b \in 0..(BaseSize - 1) |-> Null],
   next |-> <<>>, val |-> <<>>]

ItemsFrom(m, k) == Visits(m.next, k, Cardinality(Keys))

Chain(m, k) == ItemsFrom(m, m.pool[Pos(m, k)])

Has(m, k) == k \in Range(Chain(m, k))

Get(m, k) == IF Has(m, k) THEN m.val[k] ELSE Null

\* The link after item `prev' or, without one, at the head of bucket b.
SetNext(m, b, prev, after) ==
  IF prev = Null THEN [m EXCEPT !.pool[b] = after] ELSE [m EXCEPT !.next[prev] = after]

Prepend(m, b, k) == [m EXCEPT !.next[k] = m.pool[b], !.pool[b] = k]

\* A relink that takes the item it moved for the one before the next.
RelinkFollows(s, pivot) ==
  LET after == s.m.next[s.item]
      target == Pos(s.m, s.item)
  IN [s EXCEPT !.item = after, !.prev = s.item,
               !.m = IF target = pivot THEN s.m
                     ELSE Prepend(SetNext(s.m, pivot, s.prev, after), target, s.item)]

\* One pass of the loop that walks the chain of `pivot': the item stays, or it is taken
\* out of the chain and becomes the head of another.
Relink(s, pivot) ==
  LET after == s.m.next[s.item]
      target == Pos(s.m, s.item)
  IN IF target = pivot
     THEN [s EXCEPT !.item = after, !.prev = s.item]
     ELSE [s EXCEPT !.item = after,
                    !.m = Prepend(SetNext(s.m, pivot, s.prev, after), target, s.item)]

RehashChain(m, pivot) ==
  LET pass[n \in 0..Cardinality(Keys)] ==
        IF n = 0 THEN [m |-> m, prev |-> Null, item |-> m.pool[pivot]]
        ELSE LET s == pass[n - 1] IN IF s.item = Null THEN s ELSE Relink(s, pivot)
  IN pass[Cardinality(Keys)].m

Rehash(m) ==
  LET wide == [m EXCEPT !.capacity = 2 * @,
                        !.pool = [b \in 0..(2 * m.capacity - 1) |->
                                    IF b < m.capacity THEN @[b] ELSE Null]]
      done[b \in 0..m.capacity] == IF b = 0 THEN wide ELSE RehashChain(done[b - 1], b - 1)
  IN done[m.capacity]

Bind(f, k, v) == [x \in DOMAIN f \cup {k} |-> IF x = k THEN v ELSE f[x]]

Dense(m) == 10 * m.count > 8 * m.capacity

LinkItem(m, k, v) ==
  LET c == Chain(m, k)
  IN IF k \in Range(c)
     THEN [m EXCEPT !.val[k] = v]
     ELSE [SetNext(m, Pos(m, k), IF c = <<>> THEN Null ELSE Last(c), k)
             EXCEPT !.count = @ + 1, !.next = Bind(@, k, Null), !.val = Bind(@, k, v)]

Insert(m, k, v) == LinkItem(IF Dense(m) THEN Rehash(m) ELSE m, k, v)

Delete(m, k) ==
  LET c == Chain(m, k)
      at == CHOOSE n \in DOMAIN c : c[n] = k
  IN IF k \in Range(c)
     THEN [SetNext(m, Pos(m, k), IF at = 1 THEN Null ELSE c[at - 1], m.next[k])
             EXCEPT !.count = @ - 1, !.next = Restrict(@, DOMAIN @ \ {k}),
                    !.val = Restrict(@, DOMAIN @ \ {k})]
     ELSE m

\* hash_map_free leaves the count as it is.
Freed(m) == [m EXCEPT !.capacity = 0, !.pool = <<>>, !.next = <<>>, !.val = <<>>]

ItInit == [item |-> Null, pos |-> 0, cur |-> Null]

\* An iterator that forgets to go on to the next bucket.
ItNextStays(m, i) ==
  LET used == {b \in i.pos..(m.capacity - 1) : m.pool[b] # Null}
      b == Min(used)
  IN CASE i.item # Null -> [i EXCEPT !.cur = i.item, !.item = m.next[i.item]]
       [] i.item = Null /\ used = {} -> [i EXCEPT !.cur = Null, !.pos = m.capacity]
       [] OTHER -> [cur |-> m.pool[b], item |-> m.next[m.pool[b]], pos |-> b]

\* The iterator after hash_map_it_next; cur is the item it hands out, Null at the end.
ItNext(m, i) ==
  LET used == {b \in i.pos..(m.capacity - 1) : m.pool[b] # Null}
      b == Min(used)
  IN CASE i.item # Null -> [i EXCEPT !.cur = i.item, !.item = m.next[i.item]]
       [] i.item = Null /\ used = {} -> [i EXCEPT !.cur = Null, !.pos = m.capacity]
       [] OTHER -> [cur |-> m.pool[b], item |-> m.next[m.pool[b]], pos |-> b + 1]
-----------------------------------------------------------------------------
VARIABLES map, it,
          due    \* history: keys the iteration in progress has not been given yet

hashVars == <<map, it, due>>

NoIt == [item |-> Null, pos |-> 0, cur |-> "none"]
Iterating == it # NoIt
InUse == map.capacity > 0

HashInit == map = EmptyMap /\ it = NoIt /\ due = {}

InsertKey(k, v) ==
  /\ InUse /\ ~Iterating
  /\ map' = Insert(map, k, v)
  /\ UNCHANGED <<it, due>>

\* During an iteration only a key already handed out may be deleted: the iterator holds
\* the item that follows.
DeleteKey(k) ==
  /\ InUse /\ k \notin due
  /\ map' = Delete(map, k)
  /\ UNCHANGED <<it, due>>

FreeMap == InUse /\ ~Iterating /\ map' = Freed(map) /\ UNCHANGED <<it, due>>

Reuse == ~InUse /\ map' = EmptyMap /\ UNCHANGED <<it, due>>

BeginForeach ==
  /\ InUse /\ ~Iterating
  /\ it' = ItInit /\ due' = DOMAIN map.next
  /\ UNCHANGED map

NextItem ==
  /\ Iterating
  /\ LET i == ItNext(map, it)
     IN it' = (IF i.cur = Null THEN NoIt ELSE i) /\ due' = due \ {i.cur}
  /\ UNCHANGED map

HashNext ==
  \/ \E k \in Keys : DeleteKey(k) \/ \E v \in Vals : InsertKey(k, v)
  \/ FreeMap \/ Reuse \/ BeginForeach \/ NextItem

HashSpec == HashInit /\ [][HashNext]_hashVars
-----------------------------------------------------------------------------
\* The variables have their types; the capacity is a power of two times BaseSize.
HashTypeOK ==
  /\ map.capacity \in {0} \cup {BaseSize * 2 ^ n : n \in 0..Cardinality(Keys)}
  /\ DOMAIN map.pool = (IF InUse THEN 0..(map.capacity - 1) ELSE {})
  /\ \A k \in DOMAIN map.next : map.next[k] \in Keys \cup {Null}
  /\ map.count \in Nat /\ due \subseteq Keys
  /\ it.item \in Keys \cup {Null} /\ it.pos \in Nat

\* hash_map_lint, and more: every allocated item is reached once, from the bucket its
\* hash selects at the present capacity, after any rehash, deletion or reuse; the
\* iterator never holds a freed item.
Lint ==
  InUse =>
    LET chain(b) == ItemsFrom(map, map.pool[b])
        buckets == 0..(map.capacity - 1)
    IN /\ \A b \in buckets :
            /\ IsInjective(chain(b))
            /\ chain(b) # <<>> => map.next[Last(chain(b))] = Null
            /\ \A k \in Range(chain(b)) : Pos(map, k) = b
       /\ UNION {Range(chain(b)) : b \in buckets} = DOMAIN map.next
       /\ map.count = Cardinality(DOMAIN map.next)
       /\ it.item \in DOMAIN map.next \cup {Null}

Dict == INSTANCE Dictionary WITH
  dict <- [k \in Keys |-> IF InUse THEN Get(map, k) ELSE Null],
  left <- due, at <- it.cur

\* The map is a dictionary, iteration included.
MapSpec == Dict!Spec
=============================================================================
