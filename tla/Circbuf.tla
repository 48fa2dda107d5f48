------------------------------- MODULE Circbuf -------------------------------
(***************************************************************************)
(* src/circbuf.c with one producer and one consumer.  They are two threads *)
(* without a lock, as in test_single_produce_single_consumer(), or their   *)
(* calls never overlap, as in test_boundary().  An action is a step        *)
(* between two accesses to memory the other thread also accesses: the load *)
(* of the other side's counter, the memcpy of a slot, the store of the own *)
(* counter.  Memory is sequentially consistent.                            *)
(*                                                                         *)
(* push_count and pop_count are plain ints: in `push_count++; if           *)
(* (push_count >= 2*size) push_count = 0;' a compiler may store the        *)
(* incremented value first ("split", gcc -O0, which CMakeLists.txt gives)  *)
(* or only the final one ("merged", gcc -O3, which the Makefile gives).    *)
(***************************************************************************)
EXTENDS Integers, Sequences

CONSTANTS Size,   \* circbuf_t.size, the number of slots
          Elem,   \* the elements the producer may push
          Modes   \* how each counter is stored, and whether calls are serial

ASSUME SizeAssumption == Size \in Nat \ {0}
ASSUME ModesAssumption ==
  Modes \subseteq [push : {"merged", "split"}, pop : {"merged", "split"}, serial : BOOLEAN]

VARIABLES
  mode,                   \* the member of Modes this execution has
  push_count, pop_count,  \* circbuf_t's counters; 2*Size only between split stores
  buffer,                 \* the slots, 0 in a slot never written
  prod,                   \* the producer: pc, and the argument `elem' of its push
  cons,                   \* the consumer: pc, read_only, and the copy in its `elem'
  put, got                \* the answers the producer and the consumer last got

vars == <<mode, push_count, pop_count, buffer, prod, cons, put, got>>

Slot == 0 .. Size - 1
Cell == Elem \cup {0}     \* what a slot may hold

(* Total without the correction *)
TotalUncorrected == push_count - pop_count

(* push_count - pop_count, corrected by 2*size when negative *)
Total == LET d == push_count - pop_count
         IN  IF d < 0 THEN d + 2 * Size ELSE d

SlotOf(c) == c % Size     \* the slot a counter designates

(* A counter that never wraps, wraps one late, or wraps at Size instead *)
WrappedNever(c) == c + 1
WrappedLate(c) == IF c + 1 > 2 * Size THEN 0 ELSE c + 1
WrappedAtSize(c) == IF c + 1 >= Size THEN 0 ELSE c + 1

(* The value a completed increment leaves in a counter *)
Wrapped(c) == IF c + 1 >= 2 * Size THEN 0 ELSE c + 1

Answer(op, val) == [op |-> op, val |-> val]

Init == /\ mode \in Modes
        /\ push_count = 0 /\ pop_count = 0
        /\ buffer = [s \in Slot |-> 0]
        /\ prod = [pc |-> "idle", elem |-> 0]
        /\ cons = [pc |-> "idle", elem |-> 0, read_only |-> FALSE]
        /\ put = Answer("none", 0) /\ got = Answer("none", 0)

----------------------------------------------------------------------------
(* __circbuf_push, called by the producer *)

MayPush == prod.pc = "idle" /\ (mode.serial => cons.pc = "idle")

PushFull == /\ MayPush
            /\ Total >= Size
            /\ put' = Answer("push", -1)
            /\ UNCHANGED <<mode, push_count, pop_count, buffer, prod, cons, got>>

(* PushCheck with the comparison off by one *)
PushCheckLoose(e) == /\ MayPush
                     /\ Total <= Size
                     /\ prod' = [pc |-> "copy", elem |-> e]
                     /\ UNCHANGED <<mode, push_count, pop_count, buffer, cons, put, got>>

PushCheck(e) == /\ MayPush
                /\ Total < Size
                /\ prod' = [pc |-> "copy", elem |-> e]
                /\ UNCHANGED <<mode, push_count, pop_count, buffer, cons, put, got>>

PushCopy == /\ prod.pc = "copy"
            /\ buffer' = [buffer EXCEPT ![SlotOf(push_count)] = prod.elem]
            /\ prod' = [prod EXCEPT !.pc = "count"]
            /\ UNCHANGED <<mode, push_count, pop_count, cons, put, got>>

(* The increment: its only store, or the first of its two.  The element    *)
(* becomes visible here.                                                   *)
PushCount == /\ prod.pc = "count"
             /\ \/ /\ mode.push = "merged"
                   /\ push_count' = Wrapped(push_count)
                   /\ prod' = [pc |-> "idle", elem |-> 0]
                \/ /\ mode.push = "split"
                   /\ push_count' = push_count + 1
                   /\ prod' = [pc |-> IF push_count' >= 2 * Size THEN "wrap" ELSE "idle",
                               elem |-> 0]
             /\ put' = Answer("push", 0)
             /\ UNCHANGED <<mode, pop_count, buffer, cons, got>>

PushWrap == /\ prod.pc = "wrap"
            /\ push_count' = 0
            /\ prod' = [prod EXCEPT !.pc = "idle"]
            /\ UNCHANGED <<mode, pop_count, buffer, cons, put, got>>

----------------------------------------------------------------------------
(* __circbuf_pop, called by the consumer: CIRCBUF_POP, or CIRCBUF_PEEK     *)
(* with read_only set                                                      *)

MayPop == cons.pc = "idle" /\ (mode.serial => prod.pc = "idle")

OpOf(read_only) == IF read_only THEN "peek" ELSE "pop"

PopEmpty(ro) == /\ MayPop
                /\ Total = 0
                /\ got' = Answer(OpOf(ro), -1)
                /\ UNCHANGED <<mode, push_count, pop_count, buffer, prod, cons, put>>

PopCheck(ro) == /\ MayPop
                /\ Total # 0
                /\ cons' = [pc |-> "copy", elem |-> 0, read_only |-> ro]
                /\ UNCHANGED <<mode, push_count, pop_count, buffer, prod, put, got>>

(* The memcpy out of the slot, which ends a read-only call. *)
PopCopy ==
  LET copied == buffer[SlotOf(pop_count)]
  IN  /\ cons.pc = "copy"
      /\ IF cons.read_only
         THEN /\ got' = Answer("peek", copied)
              /\ cons' = [pc |-> "idle", elem |-> 0, read_only |-> FALSE]
         ELSE /\ cons' = [cons EXCEPT !.pc = "count", !.elem = copied]
              /\ UNCHANGED got
      /\ UNCHANGED <<mode, push_count, pop_count, buffer, prod, put>>

PopCount == /\ cons.pc = "count"
            /\ \/ /\ mode.pop = "merged"
                  /\ pop_count' = Wrapped(pop_count)
                  /\ cons' = [cons EXCEPT !.pc = "idle", !.elem = 0]
               \/ /\ mode.pop = "split"
                  /\ pop_count' = pop_count + 1
                  /\ cons' = [cons EXCEPT !.pc = IF pop_count' >= 2 * Size THEN "wrap" ELSE "idle",
                                          !.elem = 0]
            /\ got' = Answer("pop", cons.elem)
            /\ UNCHANGED <<mode, push_count, buffer, prod, put>>

PopWrap == /\ cons.pc = "wrap"
           /\ pop_count' = 0
           /\ cons' = [cons EXCEPT !.pc = "idle"]
           /\ UNCHANGED <<mode, push_count, buffer, prod, put, got>>

----------------------------------------------------------------------------
(* __circbuf_free_space, called by either thread between its own calls: it *)
(* loads the one counter the other thread may change once.                 *)
FreeSpace ==
  LET space == Answer("space", Size - Total)
  IN  /\ \/ MayPush /\ put' = space /\ UNCHANGED got
         \/ MayPop /\ got' = space /\ UNCHANGED put
      /\ UNCHANGED <<mode, push_count, pop_count, buffer, prod, cons>>

(* CIRCBUF_FLUSH, which its callers use while no other call is in progress *)
Flush == /\ prod.pc = "idle" /\ cons.pc = "idle"
         /\ push_count' = 0 /\ pop_count' = 0
         /\ UNCHANGED <<mode, buffer, prod, cons, put, got>>

Producer == (\E e \in Elem : PushCheck(e)) \/ PushFull \/ PushCopy \/ PushCount \/ PushWrap

Consumer == \/ \E ro \in BOOLEAN : PopCheck(ro) \/ PopEmpty(ro)
            \/ PopCopy \/ PopCount \/ PopWrap

Next == Producer \/ Consumer \/ FreeSpace \/ Flush

Spec == Init /\ [][Next]_vars

----------------------------------------------------------------------------
(* The counters, the slots and both threads have their types; the counters *)
(* stay within 0 .. 2*Size.                                                *)
TypeOK ==
  /\ mode \in Modes
  /\ push_count \in 0 .. 2 * Size /\ pop_count \in 0 .. 2 * Size
  /\ buffer \in [Slot -> Cell]
  /\ prod \in [pc : {"idle", "copy", "count", "wrap"}, elem : Cell]
  /\ cons \in [pc : {"idle", "copy", "count", "wrap"}, elem : Cell, read_only : BOOLEAN]
  /\ put \in [op : {"none", "push", "space"}, val : Int]
  /\ got \in [op : {"none", "pop", "peek", "space"}, val : Cell \cup Int]

(* The elements really in the buffer: 2*Size is the same position as 0. *)
Position(c) == IF c = 2 * Size THEN 0 ELSE c
Occupied == LET d == Position(push_count) - Position(pop_count)
            IN  IF d < 0 THEN d + 2 * Size ELSE d

(* __circbuf_pop answers -1 when the buffer is empty: a consumer that got  *)
(* past the check never reads a slot that holds no pushed element.         *)
NeverPopsEmpty == cons.pc \in {"copy", "count"} => Occupied > 0

(* The producer's memcpy into a slot and the consumer's memcpy out of one  *)
(* are never under way on the same slot.                                   *)
CopiesDisjoint ==
  (prod.pc = "copy" /\ cons.pc = "copy") => SlotOf(push_count) # SlotOf(pop_count)

(* CIRCBUF_FS answers its callers a number of slots in 0 .. Size. *)
FreeSpaceInRange == \A ans \in {put, got} : ans.op = "space" => ans.val \in 0 .. Size

(* Each operation takes effect in one step, as in a bounded FIFO: elements *)
(* are popped once, in the order of their pushes, and "full" and "empty"   *)
(* are answered only when true.                                            *)
Contents == [i \in 1 .. Occupied |-> buffer[SlotOf(Position(pop_count) + i - 1)]]
Fifo == INSTANCE BoundedFifo WITH queue <- Contents
FifoSpec == Fifo!Spec
==============================================================================
