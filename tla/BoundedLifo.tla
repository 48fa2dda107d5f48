----------------------------- MODULE BoundedLifo -----------------------------
(***************************************************************************)
(* A stack of at most Capacity elements: what src/filo.c promises.         *)
(***************************************************************************)
EXTENDS Sequences, Naturals

CONSTANTS Elems, Capacity, None

VARIABLES stack, out    \* the bottom comes first

vars == <<stack, out>>

Init == stack = <<>> /\ out = None

Push(e) == Len(stack) < Capacity /\ stack' = Append(stack, e) /\ UNCHANGED out

Peek == stack # <<>> /\ out' = stack[Len(stack)] /\ UNCHANGED stack

Pop ==
  /\ stack # <<>>
  /\ out' = stack[Len(stack)]
  /\ stack' = SubSeq(stack, 1, Len(stack) - 1)

Clear == stack' = <<>> /\ UNCHANGED out

Next == (\E e \in Elems : Push(e)) \/ Peek \/ Pop \/ Clear

Spec == Init /\ [][Next]_vars
=============================================================================
