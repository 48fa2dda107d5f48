----------------------------- MODULE BoundedFifo -----------------------------
(***************************************************************************)
(* What a circular buffer promises its producer and its consumer: a FIFO   *)
(* of at most Size elements whose operations each take effect at once.     *)
(* `put' and `got' are the answers the producer and the consumer last got. *)
(***************************************************************************)
EXTENDS Integers, Sequences

CONSTANTS Size,   \* number of slots
          Elem    \* the elements that may be pushed

VARIABLES queue, put, got

vars == <<queue, put, got>>

Answer(op, val) == [op |-> op, val |-> val]

Init == /\ queue = <<>>
        /\ put = Answer("none", 0)
        /\ got = Answer("none", 0)

Push(e) == /\ Len(queue) < Size
           /\ queue' = Append(queue, e)
           /\ put' = Answer("push", 0)
           /\ UNCHANGED got

PushFull == /\ Len(queue) = Size
            /\ put' = Answer("push", -1)
            /\ UNCHANGED <<queue, got>>

Pop == /\ queue # <<>>
       /\ got' = Answer("pop", Head(queue))
       /\ queue' = Tail(queue)
       /\ UNCHANGED put

Peek == /\ queue # <<>>
        /\ got' = Answer("peek", Head(queue))
        /\ UNCHANGED <<queue, put>>

PopEmpty == /\ queue = <<>>
            /\ \E op \in {"pop", "peek"} : got' = Answer(op, -1)
            /\ UNCHANGED <<queue, put>>

Space == Answer("space", Size - Len(queue))

FreeSpace == /\ \/ put' = Space /\ UNCHANGED got
                \/ got' = Space /\ UNCHANGED put
             /\ UNCHANGED queue

Flush == /\ queue' = <<>>
         /\ UNCHANGED <<put, got>>

Next == \/ \E e \in Elem : Push(e)
        \/ PushFull \/ Pop \/ Peek \/ PopEmpty \/ FreeSpace \/ Flush

Spec == Init /\ [][Next]_vars
==============================================================================
