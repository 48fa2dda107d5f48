------------------------------ MODULE WorkPool ------------------------------
(***************************************************************************)
(* What a work queue promises: submitted works wait in a FIFO queue and    *)
(* are executed by at most NumWorkers at a time, each work by one worker,  *)
(* until it finishes or gives way to the works that wait.                  *)
(***************************************************************************)
EXTENDS Integers, Sequences, FiniteSets, SequencesExt

CONSTANTS NumWorkers, Works

VARIABLES queue,    \* the works that wait
          running   \* the works being executed

vars == <<queue, running>>

Init == queue = <<>> /\ running = {}

Submit(k) == /\ k \notin running \cup ToSet(queue)
             /\ queue' = Append(queue, k)
             /\ UNCHANGED running

Start == /\ queue # <<>>
         /\ Head(queue) \notin running
         /\ Cardinality(running) < NumWorkers
         /\ running' = running \cup {Head(queue)}
         /\ queue' = Tail(queue)

Finish(k) == /\ k \in running
             /\ running' = running \ {k}
             /\ UNCHANGED queue

Yield(k) == /\ k \in running
            /\ running' = running \ {k}
            /\ queue' = Append(queue, k)

(* The pool is destroyed: what waits is dropped, what runs is killed. *)
Drop == queue # <<>> /\ queue' = <<>> /\ UNCHANGED running

Next == \/ \E k \in Works : Submit(k) \/ Finish(k) \/ Yield(k)
        \/ Start \/ Drop

Spec == Init /\ [][Next]_vars
==============================================================================
