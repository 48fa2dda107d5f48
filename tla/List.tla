-------------------------------- MODULE List --------------------------------
(***************************************************************************)
(* The doubly linked list of src/list.c, and the queue made of it.  Lists  *)
(* share a set of nodes and one thread owns them all.  `seq' is what each  *)
(* list should hold, `loose' a range taken out of a list and not yet put   *)
(* into another.  Four guards leave out calls that the code does not       *)
(* survive or that leave a list inconsistent; each says why.               *)
(***************************************************************************)
EXTENDS Pointers

CONSTANTS Nodes, Lists

ASSUME NodesAssumption == Null \notin Nodes

VARIABLES mem,    \* prev and next of the nodes, head and tail of the lists
          seq, loose

listVars == <<mem, seq, loose>>

FreeNodes == Nodes \ (Range(loose) \cup UNION {Range(seq[l]) : l \in Lists})

\* A store through a pointer that may be NULL, which the code tests.
Put(f, at, v) == IF at = Null THEN f ELSE [f EXCEPT ![at] = v]

ListInit ==
  /\ mem = [prev |-> [n \in Nodes |-> Null], next |-> [n \in Nodes |-> Null],
            head |-> [l \in Lists |-> Null], tail |-> [l \in Lists |-> Null]]
  /\ seq = [l \in Lists |-> <<>>]
  /\ loose = <<>>

AppendNode(l, n) ==
  /\ n \in FreeNodes
  /\ mem' = [mem EXCEPT !.prev[n] = mem.tail[l],
                        !.next = Put([@ EXCEPT ![n] = Null], mem.tail[l], n),
                        !.tail[l] = n,
                        !.head[l] = IF @ = Null THEN n ELSE @]
  /\ seq' = [seq EXCEPT ![l] = @ \o <<n>>]
  /\ UNCHANGED loose

AppendLeft(l, n) ==
  /\ n \in FreeNodes
  /\ mem' = [mem EXCEPT !.prev = Put([@ EXCEPT ![n] = Null], mem.head[l], n),
                        !.next[n] = mem.head[l],
                        !.head[l] = n,
                        !.tail[l] = IF @ = Null THEN n ELSE @]
  /\ seq' = [seq EXCEPT ![l] = <<n>> \o @]
  /\ UNCHANGED loose

ListPop(l) ==
  /\ mem.tail[l] # Null
  /\ LET last == mem.prev[mem.tail[l]]
     IN mem' = [mem EXCEPT !.tail[l] = last, !.next = Put(@, last, Null),
                           !.head[l] = IF last = Null THEN Null ELSE @]
  /\ seq' = [seq EXCEPT ![l] = Front(@)]
  /\ UNCHANGED loose

PopLeft(l) ==
  /\ mem.head[l] # Null
  /\ LET first == mem.next[mem.head[l]]
     IN mem' = [mem EXCEPT !.head[l] = first, !.prev = Put(@, first, Null),
                           !.tail[l] = IF first = Null THEN Null ELSE @]
  /\ seq' = [seq EXCEPT ![l] = Tail(@)]
  /\ UNCHANGED loose

\* A removal of the only node that leaves the tail at it.
RemoveNodeLeavesTail(l, i) ==
  LET p == mem.prev[seq[l][i]]
      q == mem.next[seq[l][i]]
  IN /\ \/ /\ p = Null
           /\ mem' = [mem EXCEPT !.head[l] = q, !.prev = Put(@, q, Null)]
        \/ /\ p # Null /\ q = Null
           /\ mem' = [mem EXCEPT !.tail[l] = p, !.next[p] = Null]
        \/ /\ p # Null /\ q # Null
           /\ mem' = [mem EXCEPT !.prev[q] = p, !.next[p] = q]
     /\ seq' = [seq EXCEPT ![l] = RemoveAt(@, i)]
     /\ UNCHANGED loose

RemoveNode(l, i) ==
  LET p == mem.prev[seq[l][i]]
      q == mem.next[seq[l][i]]
  IN /\ \/ /\ p = Null
           /\ mem' = [mem EXCEPT !.head[l] = q, !.prev = Put(@, q, Null),
                                 !.tail[l] = IF q = Null THEN Null ELSE @]
        \/ /\ p # Null /\ q = Null
           /\ mem' = [mem EXCEPT !.tail[l] = p, !.next[p] = Null]
        \/ /\ p # Null /\ q # Null
           /\ mem' = [mem EXCEPT !.prev[q] = p, !.next[p] = q]
     /\ seq' = [seq EXCEPT ![l] = RemoveAt(@, i)]
     /\ UNCHANGED loose

\* list_check_links: p goes up from a while q comes down from b, until they meet.
CheckLinks(a, b) ==
  LET going(s) == /\ s.p # Null /\ s.q # Null /\ s.p # s.q
                  /\ mem.next[s.p] # mem.prev[s.q]
                  /\ mem.prev[s.p] = s.pp /\ mem.next[s.q] = s.qn
      pass[n \in 0..2 * Cardinality(Nodes)] ==
        IF n = 0 THEN [p |-> a, q |-> b, pp |-> mem.prev[a], qn |-> mem.next[b]]
        ELSE LET s == pass[n - 1]
             IN IF going(s) THEN [p |-> mem.next[s.p], q |-> mem.prev[s.q], pp |-> s.p, qn |-> s.q]
                ELSE s
      end == pass[2 * Cardinality(Nodes)]
  IN \/ a = b
     \/ end.p # Null /\ end.q # Null /\ (end.p = end.q \/ mem.next[end.p] = mem.prev[end.q])

\* Never the whole list: tail would stay at a removed node.
RemoveNodes(l, i, j) ==
  LET a == seq[l][i]
      b == seq[l][j]
  IN /\ loose = <<>>
     /\ j - i + 1 < Len(seq[l])
     /\ CheckLinks(a, b)
     /\ \/ /\ mem.prev[a] = Null
           /\ mem' = [mem EXCEPT !.head[l] = mem.next[b], !.prev = Put(@, mem.next[b], Null)]
        \/ /\ mem.prev[a] # Null /\ mem.next[b] = Null
           /\ mem' = [mem EXCEPT !.next[mem.prev[a]] = Null, !.tail[l] = mem.prev[a]]
        \/ /\ mem.prev[a] # Null /\ mem.next[b] # Null
           /\ mem' = [mem EXCEPT !.next[mem.prev[a]] = mem.next[b],
                                 !.prev[mem.next[b]] = mem.prev[a]]
     /\ seq' = [seq EXCEPT ![l] = SubSeq(@, 1, i - 1) \o SubSeq(@, j + 1, Len(@))]
     /\ loose' = SubSeq(seq[l], i, j)

\* The caller takes all the nodes of a list by its head and tail, and calls list_init.
TakeAll(l) ==
  /\ loose = <<>> /\ seq[l] # <<>>
  /\ mem' = [mem EXCEPT !.head[l] = Null, !.tail[l] = Null]
  /\ seq' = [seq EXCEPT ![l] = <<>>]
  /\ loose' = seq[l]

\* Only before another node: the code stores through the next node untested, and leaves
\* the tail alone.
InsertNode(l, i, n) ==
  LET after == IF i = 0 THEN Null ELSE seq[l][i]
      next == IF i = 0 THEN mem.head[l] ELSE mem.next[after]
  IN /\ n \in FreeNodes
     /\ next # Null
     /\ mem' = [mem EXCEPT !.head[l] = IF i = 0 THEN n ELSE @,
                           !.next = Put([@ EXCEPT ![n] = next], after, n),
                           !.prev[n] = after, !.prev[next] = n]
     /\ seq' = [seq EXCEPT ![l] = InsertAt(@, i + 1, n)]
     /\ UNCHANGED loose

\* Into an empty list only if the ends of the range point nowhere, which the code does
\* not see to; and never before the head, whose prev it does not set.
InsertNodes(l, i) ==
  LET start == loose[1]
      end == Last(loose)
      after == seq[l][i]
      next == mem.next[after]
  IN /\ loose # <<>>
     /\ CheckLinks(start, end)
     /\ \/ /\ mem.head[l] = Null
           /\ mem.prev[start] = Null /\ mem.next[end] = Null
           /\ mem' = [mem EXCEPT !.head[l] = start, !.tail[l] = end]
        \/ /\ mem.head[l] # Null /\ i > 0
           /\ mem' = [mem EXCEPT !.next = [@ EXCEPT ![after] = start, ![end] = next],
                                 !.prev = Put([@ EXCEPT ![start] = after], next, end),
                                 !.tail[l] = IF next = Null THEN end ELSE @]
     /\ seq' = [seq EXCEPT ![l] = SubSeq(@, 1, i) \o loose \o SubSeq(@, i + 1, Len(@))]
     /\ loose' = <<>>

\* The caller frees the nodes of a range.
Discard == loose # <<>> /\ loose' = <<>> /\ UNCHANGED <<mem, seq>>

\* The queue of queue.c; the peeks answer Null where the code answers -1.
Enqueue(queue, n) == AppendNode(queue, n)
Dequeue(queue) == PopLeft(queue)
PeekFirst(queue) == mem.head[queue]
PeekLast(queue) == mem.tail[queue]

ListNext ==
  \/ \E l \in Lists, n \in Nodes : AppendNode(l, n) \/ AppendLeft(l, n)
  \/ \E l \in Lists : Dequeue(l) \/ \E n \in Nodes : Enqueue(l, n)
  \/ \E l \in Lists : ListPop(l) \/ PopLeft(l) \/ TakeAll(l)
  \/ \E l \in Lists : \E i \in 1..Len(seq[l]) :
       RemoveNode(l, i) \/ \E j \in i..Len(seq[l]) : RemoveNodes(l, i, j)
  \/ \E l \in Lists : \E i \in 0..Len(seq[l]) :
       InsertNodes(l, i) \/ \E n \in Nodes : InsertNode(l, i, n)
  \/ Discard

ListSpec == ListInit /\ [][ListNext]_listVars
-----------------------------------------------------------------------------
\* The pointers point to nodes.
ListTypeOK ==
  /\ mem \in [prev : [Nodes -> Nodes \cup {Null}], next : [Nodes -> Nodes \cup {Null}],
              head : [Lists -> Nodes \cup {Null}], tail : [Lists -> Nodes \cup {Null}]]
  /\ \A l \in Lists : Range(seq[l]) \subseteq Nodes
  /\ Range(loose) \subseteq Nodes

\* list_find_node, the peeks of a queue and LIST_FOREACH read the pointers:
\* whatever calls came before, each list read from its head and read back from its
\* tail holds what was put into it, in the order of the calls.
LinksAgree ==
  \A l \in Lists :
    /\ PeekFirst(l) = Item(seq[l], 1) /\ PeekLast(l) = Item(seq[l], Len(seq[l]))
    /\ \A i \in 1..Len(seq[l]) : /\ mem.prev[seq[l][i]] = Item(seq[l], i - 1)
                                 /\ mem.next[seq[l][i]] = Item(seq[l], i + 1)

\* "check if start in list and the range [start:end] is a valid list" (list.c:137): the
\* check recognises every range of a list as one.
RangesRecognised ==
  \A l \in Lists : \A i \in 1..Len(seq[l]) : \A j \in i..Len(seq[l]) :
    CheckLinks(seq[l][i], seq[l][j])
=============================================================================
