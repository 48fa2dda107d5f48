----------------------------- MODULE Dictionary -----------------------------
(***************************************************************************)
(* What a hash map promises: a key is bound to the value that was stored   *)
(* last, until it is deleted, and an iteration visits every key that was   *)
(* bound when it began, each once.  Visited keys may be deleted meanwhile. *)
(***************************************************************************)
CONSTANTS Keys, Vals, Null

VARIABLES dict,     \* the value bound to each key, or Null
          left,     \* keys that the iteration in progress has to visit
          at        \* the key it visits, Null before the first; "none" without one

vars == <<dict, left, at>>

Visiting == at # "none"
Bound == {k \in Keys : dict[k] # Null}

Init == dict = [k \in Keys |-> Null] /\ left = {} /\ at = "none"

Store(k, v) ==
  /\ ~Visiting
  /\ dict' = [dict EXCEPT ![k] = v]
  /\ UNCHANGED <<left, at>>

Forget(k) ==
  /\ k \notin left
  /\ dict' = [dict EXCEPT ![k] = Null]
  /\ UNCHANGED <<left, at>>

Clear == ~Visiting /\ dict' = [k \in Keys |-> Null] /\ UNCHANGED <<left, at>>

Begin == ~Visiting /\ at' = Null /\ left' = Bound /\ UNCHANGED dict

Visit(k) == k \in left /\ left' = left \ {k} /\ at' = k /\ UNCHANGED dict

End == Visiting /\ left = {} /\ at' = "none" /\ UNCHANGED <<dict, left>>

Next ==
  \/ \E k \in Keys : Forget(k) \/ Visit(k) \/ \E v \in Vals : Store(k, v)
  \/ Clear \/ Begin \/ End

Spec == Init /\ [][Next]_vars
=============================================================================
