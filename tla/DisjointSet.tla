----------------------------- MODULE DisjointSet -----------------------------
(***************************************************************************)
(* Union by rank and path compression of src/disjoint_set.c, one pass of   *)
(* a loop at a time.  `sets' is what the calls made so far should amount   *)
(* to: the set of each node.                                               *)
(***************************************************************************)
EXTENDS Naturals

CONSTANT MaxNodes       \* at most DISJOINT_SET_MAX - 1

ASSUME MaxNodesAssumption == MaxNodes \in Nat \ {0}

Node == 0..(MaxNodes - 1)
NoNode == MaxNodes

VARIABLES parent, rank,
          pc,         \* "idle", or the loop of disjoint_set_find: "climb" or "compress"
          a, root,    \* its variables
          other,      \* the second node of a union while its first is looked for
          mine,       \* the root of the first while the second is looked for
          sets

dsuVars == <<parent, rank, pc, a, root, other, mine, sets>>

\* disjoint_set_make
DsuInit ==
  /\ parent = [i \in Node |-> i]
  /\ rank = [i \in Node |-> 0]
  /\ pc = "idle" /\ a = 0 /\ root = 0 /\ other = NoNode /\ mine = NoNode
  /\ sets = [i \in Node |-> {i}]

\* A call of find, or of union when y is a node.
Call(x, y) ==
  /\ pc = "idle"
  /\ pc' = "climb" /\ a' = x /\ root' = x /\ other' = y
  /\ UNCHANGED <<parent, rank, mine, sets>>

\* A climb that compares with the node it started from.
ClimbPast ==
  /\ pc = "climb"
  /\ IF parent[root] # a THEN root' = parent[root] /\ UNCHANGED pc
                         ELSE pc' = "compress" /\ UNCHANGED root
  /\ UNCHANGED <<parent, rank, a, other, mine, sets>>

Climb ==
  /\ pc = "climb"
  /\ IF parent[root] # root THEN root' = parent[root] /\ UNCHANGED pc
                            ELSE pc' = "compress" /\ UNCHANGED root
  /\ UNCHANGED <<parent, rank, a, other, mine, sets>>

Compress ==
  /\ pc = "compress" /\ parent[a] # root
  /\ parent' = [parent EXCEPT ![a] = root]
  /\ a' = parent[a]
  /\ UNCHANGED <<rank, pc, root, other, mine, sets>>

Found == pc = "compress" /\ parent[a] = root

\* Find returns its root.
Return ==
  /\ Found /\ other = NoNode /\ mine = NoNode
  /\ pc' = "idle"
  /\ UNCHANGED <<parent, rank, a, root, other, mine, sets>>

FindOther ==
  /\ Found /\ other # NoNode
  /\ mine' = root /\ a' = other /\ root' = other /\ other' = NoNode /\ pc' = "climb"
  /\ UNCHANGED <<parent, rank, sets>>

\* A union that never raises a rank.
LinkUnranked ==
  LET hi == IF rank[mine] < rank[root] THEN root ELSE mine
      lo == IF rank[mine] < rank[root] THEN mine ELSE root
      both == sets[mine] \cup sets[root]
  IN /\ Found /\ mine # NoNode
     /\ parent' = [parent EXCEPT ![lo] = hi]
     /\ sets' = [i \in Node |-> IF i \in both THEN both ELSE sets[i]]
     /\ mine' = NoNode /\ pc' = "idle"
     /\ UNCHANGED <<rank, a, root, other>>

\* The rest of union, once both roots are known.
Link ==
  LET hi == IF rank[mine] < rank[root] THEN root ELSE mine
      lo == IF rank[mine] < rank[root] THEN mine ELSE root
      both == sets[mine] \cup sets[root]
  IN /\ Found /\ mine # NoNode
     /\ IF mine = root THEN UNCHANGED <<parent, rank>>
        ELSE /\ parent' = [parent EXCEPT ![lo] = hi]
             /\ rank' = [rank EXCEPT ![hi] = IF @ = rank[lo] THEN @ + 1 ELSE @]
     /\ sets' = [i \in Node |-> IF i \in both THEN both ELSE sets[i]]
     /\ mine' = NoNode /\ pc' = "idle"
     /\ UNCHANGED <<a, root, other>>

Find == Climb \/ Compress \/ Return \/ FindOther \/ Link

DsuNext == Find \/ \E x \in Node, y \in Node \cup {NoNode} : Call(x, y)

\* A call that began goes on.
DsuSpec == DsuInit /\ [][DsuNext]_dsuVars /\ WF_dsuVars(Find)

\* disjoint_set_num_roots counts these.
Roots == {i \in Node : parent[i] = i}
-----------------------------------------------------------------------------
\* The variables have their types.
DsuTypeOK ==
  /\ parent \in [Node -> Node] /\ rank \in [Node -> Nat]
  /\ pc \in {"idle", "climb", "compress"}
  /\ a \in Node /\ root \in Node
  /\ other \in Node \cup {NoNode} /\ mine \in Node \cup {NoNode}
  /\ sets \in [Node -> SUBSET Node]

\* The parent pointers have no cycle, at every moment of a compression: along them the
\* rank grows.
Forest == \A i \in Node : parent[i] # i => rank[i] < rank[parent[i]]

\* Find tells the sets apart and num_roots counts them: there is no cycle, parents stay in
\* the set that the unions made, which has one root, and the root that a call climbs to
\* is of its node's.
OneRootPerSet ==
  /\ Forest
  /\ \A i \in Node : i \in sets[i] /\ parent[i] \in sets[i]
  /\ \A i, j \in Node : j \in sets[i] => sets[j] = sets[i]
  /\ \A i, j \in Roots : j \in sets[i] => i = j
  /\ \A i \in Node : \E r \in Roots : r \in sets[i]
  /\ pc # "idle" => root \in sets[a]

\* Every call returns.
FindReturns == (pc # "idle") ~> (pc = "idle")
=============================================================================
