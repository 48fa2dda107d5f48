------------------------------ MODULE Pointers ------------------------------
(***************************************************************************)
(* What the linked structures of the library have in common: NULL, and the *)
(* loop `while (p) p = p->next' that walks a chain of nodes.               *)
(***************************************************************************)
EXTENDS Naturals, FiniteSets, SequencesExt

CONSTANT Null

\* Where the walk from p is after 0 to `most' passes.
Walk(next, p, most) ==
  LET at[n \in 0..most] ==
        IF n = 0 THEN p ELSE LET q == at[n - 1] IN IF q = Null THEN Null ELSE next[q]
  IN at

\* The nodes it visits, if there are no more than `most' nodes: a walk that goes on longer
\* went in circles.
Visits(next, p, most) ==
  LET at == Walk(next, p, most)
  IN IF p = Null THEN <<>>
     ELSE [n \in 1..Cardinality({i \in 0..(most - 1) : at[i] # Null}) |-> at[n - 1]]

\* The i-th of the nodes in s; nowhere before the first and after the last.
Item(s, i) == IF i \in 1..Len(s) THEN s[i] ELSE Null
=============================================================================
