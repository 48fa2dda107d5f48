-------------------------------- MODULE SList --------------------------------
(***************************************************************************)
(* The singly linked list of src/list.c, and the stack made of it.  Its    *)
(* calls search the list where those of List.tla follow a back pointer.    *)
(* `chain' is what the list should hold.                                     *)
(***************************************************************************)
EXTENDS Pointers

CONSTANT SNodes

ASSUME SNodesAssumption == IsFiniteSet(SNodes) /\ Null \notin SNodes

VARIABLES head, next, chain

slistVars == <<head, next, chain>>

SListInit == head = Null /\ next = [n \in SNodes |-> Null] /\ chain = <<>>

\* The nodes from n on.
Visited(n) == Visits(next, n, Cardinality(SNodes))

\* Where a call starts to search: at `after', a node of the list, or at the head.
From(after) == IF after = Null THEN head ELSE after

Hint == Range(chain) \cup {Null}

\* An append that stops at the node it was given.
SListAppendAfter(after, n) ==
  /\ n \notin Range(chain)
  /\ IF From(after) = Null
     THEN head' = n /\ next' = [next EXCEPT ![n] = Null]
     ELSE next' = [next EXCEPT ![From(after)] = n, ![n] = Null] /\ UNCHANGED head
  /\ chain' = Append(chain, n)

\* slist_append goes on to the last node, wherever it starts.
SListAppend(after, n) ==
  /\ n \notin Range(chain)
  /\ IF From(after) = Null
     THEN head' = n /\ next' = [next EXCEPT ![n] = Null]
     ELSE /\ next' = [next EXCEPT ![Last(Visited(From(after)))] = n, ![n] = Null]
          /\ UNCHANGED head
  /\ chain' = Append(chain, n)

SListAppendLeft(n) ==
  /\ n \notin Range(chain)
  /\ next' = [next EXCEPT ![n] = head] /\ head' = n
  /\ chain' = <<n>> \o chain

\* Not from the last node of several: the code would then report NULL as popped.
SListPop(after) ==
  /\ head # Null
  /\ LET from == Visited(From(after))
     IN \/ next[head] = Null /\ head' = Null /\ UNCHANGED next
        \/ /\ next[head] # Null /\ Len(from) > 1
           /\ next' = [next EXCEPT ![from[Len(from) - 1]] = Null]
           /\ UNCHANGED head
  /\ chain' = Front(chain)

SListPopLeft == head # Null /\ head' = next[head] /\ chain' = Tail(chain) /\ UNCHANGED next

SListRemove(n) ==
  LET v == Visited(head)
      at == CHOOSE i \in DOMAIN v : v[i] = n
  IN /\ n \in Range(v)
     /\ IF at = 1 THEN head' = next[n] /\ UNCHANGED next
        ELSE next' = [next EXCEPT ![v[at - 1]] = next[n]] /\ UNCHANGED head
     /\ \E i \in DOMAIN chain : chain[i] = n /\ chain' = RemoveAt(chain, i)

SListInsert(after, n) ==
  /\ n \notin Range(chain)
  /\ \/ /\ after = Null
        /\ next' = [next EXCEPT ![n] = head] /\ head' = n
        /\ chain' = <<n>> \o chain
     \/ /\ after # Null
        /\ next' = [next EXCEPT ![n] = next[after], ![after] = n] /\ UNCHANGED head
        /\ \E i \in DOMAIN chain : chain[i] = after /\ chain' = InsertAt(chain, i + 1, n)

\* The stack of stack.c; GetTop is Null where the code answers -1.
StackPush(n) == SListAppendLeft(n)
StackPop == SListPopLeft
GetTop == head

SListNext ==
  \/ StackPop \/ \E n \in SNodes : StackPush(n)
  \/ \E n \in SNodes : \/ SListAppendLeft(n) \/ SListRemove(n)
                       \/ \E after \in Hint : SListAppend(after, n) \/ SListInsert(after, n)
  \/ SListPopLeft
  \/ \E after \in Hint : SListPop(after)

SListSpec == SListInit /\ [][SListNext]_slistVars
-----------------------------------------------------------------------------
\* The pointers point to nodes.
SListTypeOK ==
  /\ head \in SNodes \cup {Null} /\ next \in [SNodes -> SNodes \cup {Null}]
  /\ Range(chain) \subseteq SNodes

\* Whatever the hints given, a walk from the head meets the nodes in the order of the
\* calls, the top of the stack first, ends with the last of them, and meets no popped node.
Linked ==
  /\ Visited(GetTop) = chain
  /\ chain # <<>> => next[Last(chain)] = Null
=============================================================================
