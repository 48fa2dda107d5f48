----------------------------- MODULE Broadcast -----------------------------
(***************************************************************************)
(* What the bus promises at all times, whatever is lost: publications are  *)
(* in one order, and each peer hears some of those the others made, in     *)
(* that order and never one of them twice.                                 *)
(***************************************************************************)
EXTENDS Integers, Sequences

CONSTANTS Peers,
          Earlier   \* authors of what may be on the bus at the start: at most one

VARIABLES log,    \* the author of each publication
          heard   \* the publications each peer heard, by their place in log

vars == <<log, heard>>

LastHeard(p) == IF heard[p] = <<>> THEN 0 ELSE heard[p][Len(heard[p])]

Init == /\ log \in {<<>>} \cup {<<a>> : a \in Earlier}
        /\ heard = [p \in Peers |-> <<>>]

Publish(p) == log' = Append(log, p) /\ UNCHANGED heard

Hear(p, j) == /\ j \in (LastHeard(p) + 1) .. Len(log)
              /\ log[j] # p
              /\ heard' = [heard EXCEPT ![p] = Append(@, j)]
              /\ UNCHANGED log

Next == \E p \in Peers : Publish(p) \/ \E j \in 1 .. Len(log) : Hear(p, j)

Spec == Init /\ [][Next]_vars
==============================================================================
