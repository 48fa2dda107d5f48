-------------------------------- MODULE Filo --------------------------------
(***************************************************************************)
(* The fixed-size stack of src/filo.c, an array and its top.               *)
(***************************************************************************)
EXTENDS Integers

CONSTANTS Elems, MaxSize, None

ASSUME FiloAssumption == MaxSize \in Nat /\ None \notin Elems

Slots == 0..(MaxSize - 1)

VARIABLES filo_buffer, top, out  \* out: what the last pop or peek copied

filoVars == <<filo_buffer, top, out>>

\* The buffer is whatever memory the caller or malloc gave.
FiloInit ==
  /\ filo_buffer \in [Slots -> Elems]
  /\ top = 0 /\ out = None

\* A push that takes one element too many.
PushOver(e) ==
  /\ top <= MaxSize
  /\ filo_buffer' = [filo_buffer EXCEPT ![top] = e]
  /\ top' = top + 1
  /\ UNCHANGED out

\* A push on a full stack, and a pop of an empty one, answer -1 and change nothing.
Push(e) ==
  /\ top < MaxSize
  /\ filo_buffer' = [filo_buffer EXCEPT ![top] = e]
  /\ top' = top + 1
  /\ UNCHANGED out

\* A pop from the wrong end.
PopFirst(remove) ==
  /\ top # 0
  /\ out' = filo_buffer[0]
  /\ top' = IF remove THEN top - 1 ELSE top
  /\ UNCHANGED filo_buffer

\* filo_pop; a peek does not remove.
Pop(remove) ==
  /\ top # 0
  /\ out' = filo_buffer[top - 1]
  /\ top' = IF remove THEN top - 1 ELSE top
  /\ UNCHANGED filo_buffer

Reset == top' = 0 /\ UNCHANGED <<filo_buffer, out>>

FiloFreeSpace == MaxSize - top

FiloNext == (\E e \in Elems : Push(e)) \/ (\E remove \in BOOLEAN : Pop(remove)) \/ Reset

FiloSpec == FiloInit /\ [][FiloNext]_filoVars
-----------------------------------------------------------------------------
\* The top stays within the buffer, and the free space is no wrapped difference.
FiloTypeOK ==
  /\ filo_buffer \in [Slots -> Elems] /\ top \in 0..MaxSize /\ out \in Elems \cup {None}
  /\ FiloFreeSpace \in 0..MaxSize

Lifo == INSTANCE BoundedLifo WITH
  Capacity <- MaxSize, stack <- [i \in 1..top |-> filo_buffer[i - 1]]

\* First in, last out, to the documented capacity.
LifoSpec == Lifo!Spec
=============================================================================
