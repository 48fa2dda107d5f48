--------------------------- MODULE ContainerProofs ---------------------------
(***************************************************************************)
(* Theorems about circbuf.c, slab.c, filo.c, disjoint_set.c, pcap_gen.c,   *)
(* list.c, queue.c and stack.c, for any size and elements, clients, block  *)
(* size and blob, number of nodes, cache and packet lengths, nodes and     *)
(* lists.                                                                  *)
(***************************************************************************)
EXTENDS Circbuf, Slab, Filo, DisjointSet, PcapGen, List, SList, PointersProofs

-----------------------------------------------------------------------------
(* circbuf.c.  Types hold in every mode.  Safety holds in every sound mode: calls do not *)
(* overlap, or push_count's increment and wrap are one store, whichever way the consumer's *)
(* counter is stored. *)

(* The counters cover the ring twice: % Size folds them once. *)
LEMMA SlotOfCounter ==
  \A c \in 0 .. 2 * Size :
    SlotOf(c) = IF c < Size THEN c ELSE IF c < 2 * Size THEN c - Size ELSE 0
BY SizeAssumption, SMTT(30) DEF SlotOf

(* Whatever a counter holds, it designates a slot of the buffer. *)
LEMMA SlotOfType == \A c \in 0 .. 2 * Size : SlotOf(c) \in Slot
BY SizeAssumption, SlotOfCounter, SMT DEF Slot

-----------------------------------------------------------------------------
(* A counter holds 2*Size only between the two stores of a split increment. *)
CountersOK == /\ push_count = 2 * Size <=> prod.pc = "wrap"
              /\ pop_count = 2 * Size <=> cons.pc = "wrap"

TypeInv == TypeOK /\ CountersOK

LEMMA TypeInvInit == Init => TypeInv
BY SizeAssumption, ModesAssumption, SMT DEF Init, TypeInv, TypeOK, CountersOK, Slot, Cell, Answer

LEMMA TotalType == TypeOK => Total \in Int
BY SizeAssumption, SMT DEF TypeOK, Total

(* Each step of either thread keeps the types and leaves a counter at      *)
(* 2*Size exactly when its thread still has to store 0.                    *)
LEMMA TypeInvStep == TypeInv /\ [Next]_vars => TypeInv'
<1> SUFFICES ASSUME TypeInv, [Next]_vars PROVE TypeInv'
  OBVIOUS
<1> USE SizeAssumption DEF TypeInv, TypeOK, CountersOK
<1>1. ASSUME NEW e \in Elem, PushCheck(e) PROVE TypeInv'
  BY <1>1, SMT DEF PushCheck, MayPush, Cell
<1>2. CASE PushFull
  BY <1>2, SMT DEF PushFull, Answer
<1>3. CASE PushCopy
  <2>1. SlotOf(push_count) \in Slot
    BY SlotOfType
  <2>2. buffer' \in [Slot -> Cell]
    BY <1>3, <2>1, SMT DEF PushCopy
  <2> QED  BY <1>3, <2>2, SMT DEF PushCopy
<1>4. CASE PushCount
  <2>1. push_count \in 0 .. 2 * Size - 1
    BY <1>4, SMT DEF PushCount
  <2>2. put' \in [op : {"none", "push", "space"}, val : Int]
    BY <1>4, SMT DEF PushCount, Answer
  <2>3. CASE push_count' = Wrapped(push_count) /\ prod' = [pc |-> "idle", elem |-> 0]
    BY <1>4, <2>1, <2>2, <2>3, SMT DEF PushCount, Wrapped, Cell
  <2>4. CASE /\ push_count' = push_count + 1
             /\ prod' = [pc |-> IF push_count' >= 2 * Size THEN "wrap" ELSE "idle", elem |-> 0]
    BY <1>4, <2>1, <2>2, <2>4, SMT DEF PushCount, Cell
  <2> QED  BY <1>4, <2>3, <2>4 DEF PushCount
<1>5. CASE PushWrap
  BY <1>5, SMT DEF PushWrap
<1>6. ASSUME NEW ro \in BOOLEAN, PopCheck(ro) PROVE TypeInv'
  BY <1>6, SMT DEF PopCheck, MayPop, Cell
<1>7. ASSUME NEW ro \in BOOLEAN, PopEmpty(ro) PROVE TypeInv'
  BY <1>7, SMT DEF PopEmpty, Answer, OpOf
<1>8. CASE PopCopy
  <2>1. buffer[SlotOf(pop_count)] \in Cell
    BY SlotOfType
  <2>2. CASE cons.read_only
    <3>1. /\ got' = Answer("peek", buffer[SlotOf(pop_count)])
          /\ cons' = [pc |-> "idle", elem |-> 0, read_only |-> FALSE]
          /\ cons.pc = "copy"
          /\ UNCHANGED <<mode, push_count, pop_count, buffer, prod, put>>
      BY <1>8, <2>2 DEF PopCopy
    <3>2. got' \in [op : {"none", "pop", "peek", "space"}, val : Cell \cup Int]
      BY <2>1, <3>1 DEF Answer
    <3>3. cons' \in [pc : {"idle", "copy", "count", "wrap"}, elem : Cell, read_only : BOOLEAN]
      BY <3>1 DEF Cell
    <3> QED  BY <3>1, <3>2, <3>3
  <2>3. CASE ~ cons.read_only
    <3>1. /\ cons' = [cons EXCEPT !.pc = "count", !.elem = buffer[SlotOf(pop_count)]]
          /\ cons.pc = "copy"
          /\ UNCHANGED <<mode, push_count, pop_count, buffer, prod, put, got>>
      BY <1>8, <2>3 DEF PopCopy
    <3>2. /\ cons' \in [pc : {"idle", "copy", "count", "wrap"}, elem : Cell, read_only : BOOLEAN]
          /\ cons'.pc = "count"
      BY <2>1, <3>1
    <3> QED  BY <3>1, <3>2
  <2> QED  BY <2>2, <2>3
<1>9. CASE PopCount
  <2>1. pop_count \in 0 .. 2 * Size - 1
    BY <1>9 DEF PopCount
  <2>2. UNCHANGED <<mode, push_count, buffer, prod, put>>
    BY <1>9 DEF PopCount
  <2>3. got' \in [op : {"none", "pop", "peek", "space"}, val : Cell \cup Int]
    BY <1>9 DEF PopCount, Answer
  <2>4. CASE pop_count' = Wrapped(pop_count) /\ cons' = [cons EXCEPT !.pc = "idle", !.elem = 0]
    <3>1. pop_count' \in 0 .. 2 * Size - 1
      BY <2>1, <2>4 DEF Wrapped
    <3>2. /\ cons' \in [pc : {"idle", "copy", "count", "wrap"}, elem : Cell, read_only : BOOLEAN]
          /\ cons'.pc = "idle"
      BY <2>4 DEF Cell
    <3> QED  BY <2>2, <2>3, <3>1, <3>2
  <2>5. CASE /\ pop_count' = pop_count + 1
             /\ cons' = [cons EXCEPT !.pc = IF pop_count' >= 2 * Size THEN "wrap" ELSE "idle",
                                     !.elem = 0]
    <3>1. /\ cons' \in [pc : {"idle", "copy", "count", "wrap"}, elem : Cell, read_only : BOOLEAN]
          /\ cons'.pc = IF pop_count + 1 >= 2 * Size THEN "wrap" ELSE "idle"
      BY <2>5 DEF Cell
    <3> QED  BY <2>1, <2>2, <2>3, <2>5, <3>1
  <2> QED  BY <1>9, <2>4, <2>5 DEF PopCount
<1>10. CASE PopWrap
  BY <1>10, SMT DEF PopWrap
<1>11. CASE FreeSpace
  BY <1>11, TotalType, SMT DEF FreeSpace, Answer
<1>12. CASE Flush
  BY <1>12, SMT DEF Flush
<1>13. CASE UNCHANGED vars
  BY <1>13, SMT DEF vars
<1> QED
  BY <1>1, <1>2, <1>3, <1>4, <1>5, <1>6, <1>7, <1>8, <1>9, <1>10, <1>11, <1>12, <1>13
  DEF Next, Producer, Consumer

LEMMA TypeInvariant == Spec => []TypeInv
BY TypeInvInit, TypeInvStep, PTL DEF Spec

(* Type correctness, for every build: no counter leaves 0 .. 2*size and no *)
(* memcpy of circbuf.c leaves the buffer.                                  *)
THEOREM TypeCorrect == Spec => []TypeOK
BY TypeInvariant, PTL DEF TypeInv

-----------------------------------------------------------------------------
(* The modes that are safe. *)
Sound == mode.push = "merged" \/ mode.serial

(* How a sound mode keeps the check of an operation away from a push_count *)
(* that is about to be reset.                                              *)
ModeOK == /\ mode.push = "merged" => prod.pc # "wrap"
          /\ mode.serial => prod.pc = "idle" \/ cons.pc = "idle"

(* The occupancy an operation's check saw bounds the occupancy until the   *)
(* operation ends: the other thread can only make room, or only fill.      *)
OccupancyOK == /\ Occupied \in 0 .. Size
               /\ prod.pc \in {"copy", "count"} => Occupied < Size
               /\ cons.pc \in {"copy", "count"} => Occupied > 0

SafeInv == Sound => ModeOK /\ OccupancyOK /\ FreeSpaceInRange

LEMMA SafeInvInit == Init => SafeInv
BY SizeAssumption, SMT DEF Init, SafeInv, ModeOK, OccupancyOK, FreeSpaceInRange,
                           Occupied, Position, Answer

(* Stored merged or split, an increment moves the position by one. *)
LEMMA PositionStep ==
  \A c \in 0 .. 2 * Size - 1 :
    /\ Position(c) = c
    /\ \A d \in {Wrapped(c), c + 1} :
         Position(d) = IF c = 2 * Size - 1 THEN 0 ELSE c + 1
BY SizeAssumption, SMT DEF Position, Wrapped

(* The code's count is the true one unless push_count is about to be reset. *)
LEMMA TotalIsOccupied == TypeInv /\ prod.pc # "wrap" => Total = Occupied
BY SizeAssumption, SMT DEF TypeInv, TypeOK, CountersOK, Occupied, Position, Total

(* An answer other than a free space keeps FreeSpaceInRange. *)
LEMMA OtherAnswer ==
  /\ FreeSpaceInRange
  /\ put' = put \/ put'.op # "space"
  /\ got' = got \/ got'.op # "space"
  => FreeSpaceInRange'
BY DEF FreeSpaceInRange

(* Each step keeps the occupancy between empty and full, and a free space  *)
(* answered within 0 .. Size.                                              *)
LEMMA SafeInvStep == TypeInv /\ TypeInv' /\ SafeInv /\ [Next]_vars => SafeInv'
<1> SUFFICES ASSUME TypeInv, TypeInv', SafeInv, [Next]_vars, Sound'
             PROVE  ModeOK' /\ OccupancyOK' /\ FreeSpaceInRange'
  BY DEF SafeInv
<1> USE SizeAssumption
<1>m. mode' = mode
  BY DEF Next, Producer, Consumer, PushCheck, PushFull, PushCopy, PushCount, PushWrap,
         PopCheck, PopEmpty, PopCopy, PopCount, PopWrap, FreeSpace, Flush, vars
<1>i. Sound /\ ModeOK /\ OccupancyOK /\ FreeSpaceInRange
  BY <1>m DEF SafeInv, Sound
<1>t. /\ push_count \in 0 .. 2 * Size /\ pop_count \in 0 .. 2 * Size
      /\ push_count' \in 0 .. 2 * Size /\ pop_count' \in 0 .. 2 * Size
      /\ push_count = 2 * Size <=> prod.pc = "wrap"
      /\ pop_count = 2 * Size <=> cons.pc = "wrap"
  BY DEF TypeInv, TypeOK, CountersOK
<1>r. /\ prod \in [pc : {"idle", "copy", "count", "wrap"}, elem : Cell]
      /\ cons \in [pc : {"idle", "copy", "count", "wrap"}, elem : Cell, read_only : BOOLEAN]
  BY DEF TypeInv, TypeOK
<1>c. prod.pc # "wrap" => Total = Occupied
  BY TotalIsOccupied
<1>k. ASSUME push_count' = push_count, pop_count' = pop_count PROVE Occupied' = Occupied
  BY <1>k DEF Occupied, Position
<1>1. ASSUME NEW e \in Elem, PushCheck(e) PROVE ModeOK' /\ OccupancyOK' /\ FreeSpaceInRange'
  <2>1. FreeSpaceInRange'
    BY <1>1, <1>i, OtherAnswer DEF PushCheck
  <2>2. prod'.pc = "copy" /\ prod.pc = "idle" /\ (mode.serial => cons.pc = "idle")
    BY <1>1 DEF PushCheck, MayPush
  <2>3. Occupied' = Occupied /\ Occupied < Size
    BY <1>1, <1>k, <1>c, <2>2 DEF PushCheck
  <2> QED  BY <1>1, <1>i, <1>m, <2>1, <2>2, <2>3 DEF PushCheck, ModeOK, OccupancyOK
<1>2. CASE PushFull
  <2>1. FreeSpaceInRange'
    BY <1>2, <1>i, OtherAnswer DEF PushFull, Answer
  <2> QED  BY <1>2, <1>i, <1>m, <1>k, <2>1 DEF PushFull, ModeOK, OccupancyOK
<1>3. CASE PushCopy
  <2>1. FreeSpaceInRange'
    BY <1>3, <1>i, OtherAnswer DEF PushCopy
  <2>2. prod'.pc = "count" /\ prod.pc = "copy"
    BY <1>3, <1>r DEF PushCopy
  <2> QED  BY <1>3, <1>i, <1>m, <1>k, <2>1, <2>2 DEF PushCopy, ModeOK, OccupancyOK
<1>4. CASE PushCount
  <2>1. FreeSpaceInRange'
    BY <1>4, <1>i, OtherAnswer DEF PushCount, Answer
  <2>2. /\ prod.pc = "count"
        /\ UNCHANGED <<pop_count, cons>>
        /\ prod'.pc \in {"idle", "wrap"}
        /\ mode.push = "merged" => prod'.pc = "idle"
        /\ push_count' = push_count + 1 \/ push_count' = Wrapped(push_count)
    BY <1>4 DEF PushCount
  <2>p. /\ push_count \in 0 .. 2 * Size - 1
        /\ Position(pop_count) \in 0 .. 2 * Size - 1
        /\ Position(pop_count)' = Position(pop_count)
    BY <1>t, <2>2 DEF Position
  <2>q. /\ Position(push_count) = push_count
        /\ Position(push_count)' = IF push_count = 2 * Size - 1 THEN 0 ELSE push_count + 1
    BY <2>p, <2>2, PositionStep
  <2>3. Occupied < Size /\ Occupied' = Occupied + 1
    BY <1>i, <2>2, <2>p, <2>q DEF OccupancyOK, Occupied
  <2> QED  BY <1>i, <1>m, <2>1, <2>2, <2>3 DEF ModeOK, OccupancyOK
<1>5. CASE PushWrap
  <2>1. FreeSpaceInRange'
    BY <1>5, <1>i, OtherAnswer DEF PushWrap
  <2>2. prod'.pc = "idle"
    BY <1>5, <1>r DEF PushWrap
  <2>3. Occupied' = Occupied
    BY <1>5, <1>t DEF PushWrap, Occupied, Position
  <2> QED  BY <1>5, <1>i, <1>m, <2>1, <2>2, <2>3 DEF PushWrap, ModeOK, OccupancyOK
<1>6. ASSUME NEW ro \in BOOLEAN, PopCheck(ro) PROVE ModeOK' /\ OccupancyOK' /\ FreeSpaceInRange'
  <2>1. FreeSpaceInRange'
    BY <1>6, <1>i, OtherAnswer DEF PopCheck
  <2>2. cons'.pc = "copy" /\ cons.pc = "idle" /\ (mode.serial => prod.pc = "idle")
    BY <1>6 DEF PopCheck, MayPop
  <2>3. prod.pc # "wrap"
    BY <1>i, <2>2 DEF Sound, ModeOK
  <2>4. Occupied' = Occupied /\ Occupied # 0
    BY <1>6, <1>k, <1>c, <2>3 DEF PopCheck
  <2> QED  BY <1>6, <1>i, <1>m, <2>1, <2>2, <2>4 DEF PopCheck, ModeOK, OccupancyOK
<1>7. ASSUME NEW ro \in BOOLEAN, PopEmpty(ro) PROVE ModeOK' /\ OccupancyOK' /\ FreeSpaceInRange'
  <2>1. FreeSpaceInRange'
    BY <1>7, <1>i, OtherAnswer DEF PopEmpty, Answer, OpOf
  <2> QED  BY <1>7, <1>i, <1>m, <1>k, <2>1 DEF PopEmpty, ModeOK, OccupancyOK
<1>8. CASE PopCopy
  <2>1. FreeSpaceInRange'
    BY <1>8, <1>i, OtherAnswer DEF PopCopy, Answer
  <2>2. UNCHANGED <<push_count, pop_count, prod>> /\ cons.pc = "copy"
    BY <1>8 DEF PopCopy
  <2>3. OccupancyOK'
    BY <1>i, <1>k, <2>2 DEF OccupancyOK
  <2> QED  BY <1>i, <1>m, <2>1, <2>2, <2>3 DEF ModeOK
<1>9. CASE PopCount
  <2>1. FreeSpaceInRange'
    BY <1>9, <1>i, OtherAnswer DEF PopCount, Answer
  <2>2. /\ cons.pc = "count"
        /\ UNCHANGED <<push_count, prod>>
        /\ pop_count' = Wrapped(pop_count) \/ pop_count' = pop_count + 1
    BY <1>9 DEF PopCount
  <2>3. cons'.pc \in {"idle", "wrap"}
    BY <1>9, <1>r DEF PopCount
  <2>p. /\ pop_count \in 0 .. 2 * Size - 1
        /\ Position(push_count) \in 0 .. 2 * Size - 1
        /\ Position(push_count)' = Position(push_count)
    BY <1>t, <2>2 DEF Position
  <2>q. /\ Position(pop_count) = pop_count
        /\ Position(pop_count)' = IF pop_count = 2 * Size - 1 THEN 0 ELSE pop_count + 1
    BY <2>p, <2>2, PositionStep
  <2>4. Occupied > 0 /\ Occupied' = Occupied - 1
    BY <1>i, <2>2, <2>p, <2>q DEF OccupancyOK, Occupied
  <2> QED  BY <1>i, <1>m, <2>1, <2>2, <2>3, <2>4 DEF ModeOK, OccupancyOK
<1>10. CASE PopWrap
  <2>1. FreeSpaceInRange'
    BY <1>10, <1>i, OtherAnswer DEF PopWrap
  <2>2. cons'.pc = "idle"
    BY <1>10, <1>r DEF PopWrap
  <2>3. Occupied' = Occupied
    BY <1>10, <1>t DEF PopWrap, Occupied, Position
  <2> QED  BY <1>10, <1>i, <1>m, <2>1, <2>2, <2>3 DEF PopWrap, ModeOK, OccupancyOK
<1>11. CASE FreeSpace
  <2>1. prod.pc # "wrap"
    BY <1>11, <1>i DEF FreeSpace, MayPush, MayPop, Sound, ModeOK
  <2>2. Size - Total \in 0 .. Size
    BY <1>i, <1>c, <2>1 DEF OccupancyOK
  <2>3. FreeSpaceInRange'
    BY <1>11, <1>i, <2>2 DEF FreeSpace, FreeSpaceInRange, Answer
  <2> QED  BY <1>11, <1>i, <1>m, <1>k, <2>3 DEF FreeSpace, ModeOK, OccupancyOK
<1>12. CASE Flush
  <2>1. FreeSpaceInRange'
    BY <1>12, <1>i, OtherAnswer DEF Flush
  <2>2. Occupied' = 0
    BY <1>12 DEF Flush, Occupied, Position
  <2> QED  BY <1>12, <1>i, <1>m, <2>1, <2>2 DEF Flush, ModeOK, OccupancyOK
<1>13. CASE UNCHANGED vars
  BY <1>13, <1>i, <1>k DEF vars, ModeOK, OccupancyOK, FreeSpaceInRange
<1> QED
  BY <1>1, <1>2, <1>3, <1>4, <1>5, <1>6, <1>7, <1>8, <1>9, <1>10, <1>11, <1>12, <1>13
  DEF Next, Producer, Consumer

-----------------------------------------------------------------------------
LEMMA SafeInvariant == Spec => [](TypeInv /\ SafeInv)
BY TypeInvariant, SafeInvInit, SafeInvStep, PTL DEF Spec

(* A pop or a peek that did not answer "empty" reads an element that was   *)
(* pushed and not yet popped.                                              *)
THEOREM PopsPushed == Spec => [](Sound => NeverPopsEmpty)
<1>1. TypeInv /\ SafeInv => (Sound => NeverPopsEmpty)
  BY DEF SafeInv, OccupancyOK, NeverPopsEmpty
<1> QED  BY <1>1, SafeInvariant, PTL

(* The producer never writes the slot the consumer is reading: the memcpys *)
(* of the two threads are free of data races.                              *)
THEOREM NoRacingCopies == Spec => [](Sound => CopiesDisjoint)
<1>1. TypeInv /\ SafeInv => (Sound => CopiesDisjoint)
  <2> SUFFICES ASSUME TypeInv, SafeInv, Sound, prod.pc = "copy", cons.pc = "copy"
               PROVE  SlotOf(push_count) # SlotOf(pop_count)
    BY DEF CopiesDisjoint
  <2>1. push_count \in 0 .. 2 * Size - 1 /\ pop_count \in 0 .. 2 * Size - 1
    BY SizeAssumption DEF TypeInv, TypeOK, CountersOK
  <2>2. Total \in 1 .. Size - 1
    BY SizeAssumption, TotalIsOccupied DEF SafeInv, OccupancyOK
  <2>3. /\ SlotOf(push_count) = IF push_count < Size THEN push_count ELSE push_count - Size
        /\ SlotOf(pop_count) = IF pop_count < Size THEN pop_count ELSE pop_count - Size
    BY <2>1, SlotOfCounter, SizeAssumption
  <2> QED  BY <2>1, <2>2, <2>3, SizeAssumption DEF Total
<1> QED  BY <1>1, SafeInvariant, PTL

(* CIRCBUF_FS answers the producer and the consumer between 0 and size.    *)
THEOREM FreeSpaceBounded == Spec => [](Sound => FreeSpaceInRange)
<1>1. SafeInv => (Sound => FreeSpaceInRange)
  BY DEF SafeInv
<1> QED  BY <1>1, SafeInvariant, PTL
-----------------------------------------------------------------------------
(* The ring implements the bounded FIFO *)

(* A position and up to Size slots more fold at most twice. *)
LEMMA SlotOfSum ==
  \A c \in 0 .. 3 * Size - 1 :
    SlotOf(c) = IF c < Size THEN c ELSE IF c < 2 * Size THEN c - Size ELSE c - 2 * Size
BY SizeAssumption, SMTT(30) DEF SlotOf

(* The same slot comes again after whole rounds only. *)
LEMMA SameSlot ==
  \A c, d \in 0 .. 3 * Size - 1 :
    SlotOf(c) = SlotOf(d) => d - c \in {0, Size, 2 * Size, -Size, -2 * Size}
BY SlotOfSum, SizeAssumption, SMT

(* Where the elements are: the i-th in the slot after i - 1 others, and the *)
(* next one to be pushed in a slot of its own.                              *)
LEMMA SlotsDiffer ==
  ASSUME TypeInv, Occupied \in 0 .. Size
  PROVE  /\ Position(pop_count) \in 0 .. 2 * Size - 1
         /\ SlotOf(Position(pop_count) + Occupied) = SlotOf(push_count)
         /\ SlotOf(Position(pop_count)) = SlotOf(pop_count)
         /\ \A i \in 1 .. Occupied :
              /\ SlotOf(Position(pop_count) + i - 1) \in Slot
              /\ Occupied < Size => SlotOf(Position(pop_count) + i - 1) # SlotOf(push_count)
<1> DEFINE p == Position(pop_count)
           q == Position(push_count)
           n == Occupied
<1> USE SizeAssumption
<1>1. /\ p \in 0 .. 2 * Size - 1 /\ q \in 0 .. 2 * Size - 1
      /\ push_count \in 0 .. 2 * Size /\ pop_count \in 0 .. 2 * Size
  BY DEF TypeInv, TypeOK, Position
<1>2. SlotOf(q) = SlotOf(push_count) /\ SlotOf(p) = SlotOf(pop_count)
  BY <1>1, SlotOfCounter, SMT DEF Position
<1>3. n \in 0 .. Size /\ n = IF q - p < 0 THEN q - p + 2 * Size ELSE q - p
  BY DEF Occupied
<1> HIDE DEF p, q, n
<1>4. /\ p + n \in 0 .. 3 * Size - 1 /\ q \in 0 .. 3 * Size - 1
      /\ p + n = q \/ p + n = q + 2 * Size
  BY <1>1, <1>3, SMT
<1>5. SlotOf(p + n) = SlotOf(q)
  BY <1>4, <1>1, SlotOfSum, SMT
<1>6. ASSUME NEW i \in 1 .. n
      PROVE  SlotOf(p + i - 1) \in Slot /\ (n < Size => SlotOf(p + i - 1) # SlotOf(p + n))
  <2>1. p + i - 1 \in 0 .. 3 * Size - 1 /\ p + n \in 0 .. 3 * Size - 1
    BY <1>1, <1>3, SMT
  <2>2. SlotOf(p + i - 1) = SlotOf(p + n) =>
          (p + n) - (p + i - 1) \in {0, Size, 2 * Size, -Size, -2 * Size}
    BY <2>1, SameSlot
  <2>3. (p + n) - (p + i - 1) = n - i + 1
    BY <1>1, <1>3, SMT
  <2>4. n < Size => n - i + 1 \notin {0, Size, 2 * Size, -Size, -2 * Size}
    BY <1>3, SMT
  <2>5. SlotOf(p + i - 1) \in Slot
    BY <2>1, SlotOfSum, SMT DEF Slot
  <2> QED  BY <2>2, <2>3, <2>4, <2>5
<1> QED  BY <1>1, <1>2, <1>5, <1>6 DEF p, n

(* The elements of n slots from position p on. *)
View(p, n, slots) == [i \in 1 .. n |-> slots[SlotOf(p + i - 1)]]

LEMMA ViewIsSequence ==
  ASSUME NEW p \in 0 .. 2 * Size - 1, NEW n \in 0 .. Size, NEW slots \in [Slot -> Cell]
  PROVE  /\ View(p, n, slots) \in Seq(Cell) /\ Len(View(p, n, slots)) = n
         /\ \A i \in 1 .. n : View(p, n, slots)[i] = slots[SlotOf(p + i - 1)]
<1>1. n \in Nat
  BY SizeAssumption, SMT
<1>2. \A i \in 1 .. n : p + i - 1 \in 0 .. 3 * Size - 1
  BY SizeAssumption, SMT
<1>3. \A c \in 0 .. 3 * Size - 1 : SlotOf(c) \in Slot
  BY SlotOfSum, SizeAssumption, SMT DEF Slot
<1>4. \A i \in 1 .. n : slots[SlotOf(p + i - 1)] \in Cell
  BY <1>2, <1>3
<1> QED  BY <1>1, <1>4 DEF View

(* The contents are a sequence of as many cells as are occupied. *)
LEMMA ContentsIsSequence ==
  ASSUME TypeInv, Occupied \in 0 .. Size
  PROVE  /\ Contents = View(Position(pop_count), Occupied, buffer)
         /\ Contents \in Seq(Cell) /\ Len(Contents) = Occupied
         /\ \A i \in 1 .. Occupied : Contents[i] = buffer[SlotOf(Position(pop_count) + i - 1)]
<1>1. Contents = View(Position(pop_count), Occupied, buffer)
  BY DEF Contents, View
<1>2. Position(pop_count) \in 0 .. 2 * Size - 1 /\ buffer \in [Slot -> Cell]
  BY SlotsDiffer DEF TypeInv, TypeOK
<1> QED  BY <1>1, <1>2, ViewIsSequence

LEMMA FirstOfContents ==
  ASSUME TypeInv, Occupied \in 1 .. Size
  PROVE  /\ Contents # <<>> /\ Head(Contents) = buffer[SlotOf(pop_count)]
         /\ Len(Tail(Contents)) = Occupied - 1 /\ Tail(Contents) \in Seq(Cell)
         /\ \A i \in 1 .. Occupied - 1 : Tail(Contents)[i] = Contents[i + 1]
<1>1. Occupied \in 0 .. Size /\ 1 \in 1 .. Occupied
  BY SizeAssumption, SMT
<1>2. Contents \in Seq(Cell) /\ Len(Contents) = Occupied
  BY <1>1, ContentsIsSequence
<1>3. Contents # <<>> /\ Head(Contents) = Contents[1]
  BY <1>1, <1>2, SMT
<1>4. Position(pop_count) + 1 - 1 = Position(pop_count)
  BY <1>1, SlotsDiffer, SizeAssumption, SMT
<1>5. Contents[1] = buffer[SlotOf(Position(pop_count) + 1 - 1)]
  BY <1>1, ContentsIsSequence
<1>6. /\ Len(Tail(Contents)) = Occupied - 1 /\ Tail(Contents) \in Seq(Cell)
      /\ \A i \in 1 .. Occupied - 1 : Tail(Contents)[i] = Contents[i + 1]
  BY <1>2, <1>3, HeadTailProperties
<1> QED  BY <1>1, <1>3, <1>4, <1>5, <1>6, SlotsDiffer

(* What the threads carry is what the slots hold: the producer's element   *)
(* once it is copied, the consumer's copy until it is counted.             *)
CopiesOK ==
  /\ prod.pc \in {"copy", "count"} => prod.elem \in Elem
  /\ prod.pc = "count" => buffer[SlotOf(push_count)] = prod.elem
  /\ cons.pc = "count" => buffer[SlotOf(pop_count)] = cons.elem

FifoInv == TypeInv /\ ModeOK /\ OccupancyOK /\ FreeSpaceInRange /\ CopiesOK

(* The slot that is written is none of the occupied ones. *)
LEMMA PushCopyHarmless ==
  ASSUME FifoInv, PushCopy
  PROVE  /\ Contents' = Contents
         /\ buffer'[SlotOf(push_count)] = prod.elem
         /\ cons.pc = "count" => buffer'[SlotOf(pop_count)] = buffer[SlotOf(pop_count)]
<1>1. /\ Occupied \in 0 .. Size /\ Occupied < Size /\ TypeInv
      /\ UNCHANGED <<push_count, pop_count>>
  BY DEF FifoInv, OccupancyOK, PushCopy
<1>2. SlotOf(push_count) \in Slot
  BY <1>1, SlotOfType DEF TypeInv, TypeOK
<1>3. /\ buffer'[SlotOf(push_count)] = prod.elem
      /\ \A s \in Slot : s # SlotOf(push_count) => buffer'[s] = buffer[s]
  BY <1>1, <1>2 DEF PushCopy, TypeInv, TypeOK
<1>4. Occupied' = Occupied /\ Position(pop_count)' = Position(pop_count)
  BY <1>1 DEF Occupied, Position
<1>5. \A i \in 1 .. Occupied : buffer'[SlotOf(Position(pop_count) + i - 1)]
                                 = buffer[SlotOf(Position(pop_count) + i - 1)]
  BY <1>1, <1>3, SlotsDiffer
<1>6. Contents' = [i \in 1 .. Occupied |-> buffer'[SlotOf(Position(pop_count) + i - 1)]]
  BY <1>4 DEF Contents, SlotOf
<1>7. Contents' = Contents
  BY <1>5, <1>6 DEF Contents
<1>8. ASSUME cons.pc = "count"
      PROVE  buffer'[SlotOf(pop_count)] = buffer[SlotOf(pop_count)]
  <2>1. Occupied > 0 /\ 1 \in 1 .. Occupied
    BY <1>1, <1>8, SizeAssumption, SMT DEF FifoInv, OccupancyOK
  <2>2. Position(pop_count) + 1 - 1 = Position(pop_count)
    BY <1>1, SlotsDiffer, SizeAssumption, SMT
  <2>3. SlotOf(pop_count) \in Slot /\ SlotOf(pop_count) # SlotOf(push_count)
    BY <1>1, <2>1, <2>2, SlotsDiffer
  <2> QED  BY <1>3, <2>3
<1> QED  BY <1>3, <1>7, <1>8

(* Counting a push appends the element that was copied. *)
LEMMA PushCountAppends ==
  ASSUME FifoInv, TypeInv', OccupancyOK', PushCount
  PROVE  Contents' = Append(Contents, prod.elem) /\ Occupied < Size /\ prod.elem \in Elem
<1>1. /\ TypeInv /\ prod.pc = "count" /\ UNCHANGED <<pop_count, buffer>>
      /\ Occupied \in 0 .. Size /\ Occupied < Size /\ prod.elem \in Elem
      /\ buffer[SlotOf(push_count)] = prod.elem
      /\ push_count' = push_count + 1 \/ push_count' = Wrapped(push_count)
      /\ Occupied' \in 0 .. Size
  BY DEF FifoInv, OccupancyOK, CopiesOK, PushCount
<1>2. /\ push_count \in 0 .. 2 * Size - 1 /\ Position(pop_count)' = Position(pop_count)
      /\ Position(pop_count) \in 0 .. 2 * Size - 1
  BY <1>1, SizeAssumption, SMT DEF TypeInv, TypeOK, CountersOK, Position
<1>3. /\ Position(push_count) = push_count
      /\ Position(push_count)' = IF push_count = 2 * Size - 1 THEN 0 ELSE push_count + 1
  BY <1>1, <1>2, PositionStep
<1>4. Occupied' = Occupied + 1
  BY <1>1, <1>2, <1>3, SizeAssumption, SMT DEF Occupied
<1>5. /\ Contents' \in Seq(Cell) /\ Len(Contents') = Occupied + 1
      /\ \A i \in 1 .. Occupied + 1 :
           Contents'[i] = buffer[SlotOf(Position(pop_count) + i - 1)]
  <2>1. Contents' = View(Position(pop_count), Occupied + 1, buffer)
    BY <1>1, <1>2, <1>4 DEF Contents, View, SlotOf
  <2>2. Occupied + 1 \in 0 .. Size /\ buffer \in [Slot -> Cell]
    BY <1>1, <1>4 DEF TypeInv, TypeOK
  <2> QED  BY <2>1, <2>2, <1>2, ViewIsSequence
<1>6. /\ Contents \in Seq(Cell) /\ Len(Contents) = Occupied
      /\ \A i \in 1 .. Occupied : Contents[i] = buffer[SlotOf(Position(pop_count) + i - 1)]
  BY <1>1, ContentsIsSequence
<1>7. Contents'[Occupied + 1] = prod.elem
  <2>1. Position(pop_count) + (Occupied + 1) - 1 = Position(pop_count) + Occupied
    BY <1>1, <1>2, SizeAssumption, SMT
  <2>2. Occupied + 1 \in 1 .. Occupied + 1
    BY <1>1, SizeAssumption, SMT
  <2> QED  BY <1>1, <1>5, <2>1, <2>2, SlotsDiffer
<1>8. prod.elem \in Cell
  BY <1>1 DEF Cell
<1>9. ASSUME NEW s \in Seq(Cell), NEW t \in Seq(Cell), NEW e \in Cell, Len(t) = Len(s) + 1,
             \A i \in 1 .. Len(s) : t[i] = s[i], t[Len(s) + 1] = e
      PROVE  t = Append(s, e)
  BY <1>9, SMT
<1>10. \A i \in 1 .. Occupied : i \in 1 .. Occupied + 1
  BY <1>1, SizeAssumption, SMT
<1>11. /\ Contents \in Seq(Cell) /\ Contents' \in Seq(Cell) /\ Len(Contents') = Len(Contents) + 1
       /\ \A i \in 1 .. Len(Contents) : Contents'[i] = Contents[i]
       /\ Contents'[Len(Contents) + 1] = prod.elem
  BY <1>5, <1>6, <1>7, <1>10
<1>12. Contents' = Append(Contents, prod.elem)
  BY <1>8, <1>9, <1>11, ZenonT(40)
<1> QED  BY <1>1, <1>12

(* Counting a pop removes the first element, the one that was copied. *)
LEMMA PopCountRemoves ==
  ASSUME FifoInv, TypeInv', OccupancyOK', PopCount
  PROVE  Contents' = Tail(Contents) /\ Contents # <<>> /\ cons.elem = Head(Contents)
<1>1. /\ TypeInv /\ cons.pc = "count" /\ UNCHANGED <<push_count, buffer>>
      /\ Occupied \in 1 .. Size
      /\ buffer[SlotOf(pop_count)] = cons.elem
      /\ pop_count' = pop_count + 1 \/ pop_count' = Wrapped(pop_count)
      /\ Occupied' \in 0 .. Size
  BY SizeAssumption DEF FifoInv, OccupancyOK, CopiesOK, PopCount
<1>2. /\ pop_count \in 0 .. 2 * Size - 1 /\ Position(push_count)' = Position(push_count)
      /\ Position(push_count) \in 0 .. 2 * Size - 1
  BY <1>1, SizeAssumption, SMT DEF TypeInv, TypeOK, CountersOK, Position
<1>3. /\ Position(pop_count) = pop_count
      /\ Position(pop_count)' = IF pop_count = 2 * Size - 1 THEN 0 ELSE pop_count + 1
  BY <1>1, <1>2, PositionStep
<1>4. Occupied' = Occupied - 1
  BY <1>1, <1>2, <1>3, SizeAssumption, SMT DEF Occupied
<1>5. /\ Contents # <<>> /\ Head(Contents) = cons.elem
      /\ Len(Tail(Contents)) = Occupied - 1 /\ Tail(Contents) \in Seq(Cell)
      /\ \A i \in 1 .. Occupied - 1 : Tail(Contents)[i] = Contents[i + 1]
  BY <1>1, FirstOfContents
<1>6. Position(pop_count)' \in 0 .. 2 * Size - 1
  BY <1>2, <1>3, SizeAssumption, SMT
<1>7. /\ Contents' \in Seq(Cell) /\ Len(Contents') = Occupied - 1
      /\ \A i \in 1 .. Occupied - 1 :
           Contents'[i] = buffer[SlotOf(Position(pop_count)' + i - 1)]
  <2>1. Contents' = View(Position(pop_count)', Occupied - 1, buffer)
    BY <1>1, <1>4 DEF Contents, View, SlotOf
  <2>2. Occupied - 1 \in 0 .. Size /\ buffer \in [Slot -> Cell]
    BY <1>1, <1>4 DEF TypeInv, TypeOK
  <2> QED  BY <2>1, <2>2, <1>6, ViewIsSequence
<1>8. ASSUME NEW i \in 1 .. Occupied - 1 PROVE Contents'[i] = Tail(Contents)[i]
  <2>1. i + 1 \in 1 .. Occupied /\ Occupied \in 0 .. Size
    BY <1>1, SizeAssumption, SMT
  <2>2. Contents[i + 1] = buffer[SlotOf(pop_count + (i + 1) - 1)]
    BY <1>1, <1>3, <2>1, ContentsIsSequence
  <2>3. SlotOf(pop_count + (i + 1) - 1) = SlotOf(Position(pop_count)' + i - 1)
    <3>1. CASE pop_count = 2 * Size - 1
      <4>1. /\ pop_count + (i + 1) - 1 = 2 * Size + i - 1 /\ Position(pop_count)' + i - 1 = i - 1
            /\ 2 * Size + i - 1 \in 0 .. 3 * Size - 1 /\ i - 1 \in 0 .. 3 * Size - 1 /\ i - 1 < Size
        BY <1>1, <1>3, <3>1, SizeAssumption, SMT
      <4> QED  BY <4>1, SlotOfSum, SizeAssumption, SMT
    <3>2. CASE pop_count # 2 * Size - 1
      <4>1. pop_count + (i + 1) - 1 = Position(pop_count)' + i - 1
        BY <1>2, <1>3, <3>2, SizeAssumption, SMT
      <4> QED  BY <4>1
    <3> QED  BY <3>1, <3>2
  <2> QED  BY <1>5, <1>7, <2>2, <2>3
<1>9. ASSUME NEW s \in Seq(Cell), NEW t \in Seq(Cell), Len(s) = Occupied - 1, Len(t) = Occupied - 1,
             \A i \in 1 .. Occupied - 1 : s[i] = t[i]
      PROVE  s = t
  BY <1>9, SMT
<1> QED  BY <1>5, <1>7, <1>8, <1>9

LEMMA CopiesPreserved ==
  ASSUME FifoInv, TypeInv', OccupancyOK', [Next]_vars
  PROVE  CopiesOK'
<1> USE DEF CopiesOK
<1>1. TypeInv /\ CopiesOK /\ OccupancyOK
  BY DEF FifoInv
<1>2. /\ prod \in [pc : {"idle", "copy", "count", "wrap"}, elem : Cell]
      /\ cons \in [pc : {"idle", "copy", "count", "wrap"}, elem : Cell, read_only : BOOLEAN]
  BY <1>1 DEF TypeInv, TypeOK
<1>3. ASSUME NEW e \in Elem, PushCheck(e) PROVE CopiesOK'
  <2>1. prod' = [pc |-> "copy", elem |-> e] /\ UNCHANGED <<pop_count, buffer, cons>>
    BY <1>3 DEF PushCheck
  <2>2. prod'.pc = "copy" /\ prod'.elem = e
    BY <2>1
  <2> QED  BY <1>1, <2>1, <2>2 DEF SlotOf
<1>4. CASE PushCopy
  <2>1. /\ prod'.pc = "count" /\ prod'.elem = prod.elem /\ prod.pc = "copy"
        /\ UNCHANGED <<push_count, pop_count, cons>>
    BY <1>2, <1>4 DEF PushCopy
  <2>2. /\ buffer'[SlotOf(push_count)] = prod.elem
        /\ cons.pc = "count" => buffer'[SlotOf(pop_count)] = buffer[SlotOf(pop_count)]
    BY <1>4, PushCopyHarmless
  <2> QED  BY <1>1, <2>1, <2>2 DEF SlotOf
<1>5. CASE PushCount
  <2>1. prod'.pc \in {"idle", "wrap"} /\ UNCHANGED <<pop_count, buffer, cons>>
    BY <1>5 DEF PushCount
  <2> QED  BY <1>1, <2>1 DEF SlotOf
<1>6. CASE PushWrap
  <2>1. prod'.pc = "idle" /\ UNCHANGED <<pop_count, buffer, cons>>
    BY <1>2, <1>6 DEF PushWrap
  <2> QED  BY <1>1, <2>1 DEF SlotOf
<1>7. CASE PopCopy
  <2>1. UNCHANGED <<push_count, pop_count, buffer, prod>> /\ cons.pc = "copy"
    BY <1>7 DEF PopCopy
  <2>2. cons'.pc = "count" => cons'.elem = buffer[SlotOf(pop_count)]
    <3>1. \/ cons' = [pc |-> "idle", elem |-> 0, read_only |-> FALSE]
          \/ cons' = [cons EXCEPT !.pc = "count", !.elem = buffer[SlotOf(pop_count)]]
      BY <1>7 DEF PopCopy
    <3>2. ASSUME NEW v PROVE [cons EXCEPT !.pc = "count", !.elem = v].elem = v
      BY <1>2
    <3>3. [pc |-> "idle", elem |-> 0, read_only |-> FALSE].pc # "count"
      OBVIOUS
    <3> QED  BY <3>1, <3>2, <3>3, Zenon
  <2> QED  BY <1>1, <2>1, <2>2 DEF SlotOf
<1>8. CASE PopCount
  <2>1. cons'.pc \in {"idle", "wrap"} /\ UNCHANGED <<push_count, buffer, prod>>
    BY <1>2, <1>8 DEF PopCount
  <2> QED  BY <1>1, <2>1 DEF SlotOf
<1>9. CASE PopWrap
  <2>1. cons'.pc = "idle" /\ UNCHANGED <<push_count, buffer, prod>>
    BY <1>2, <1>9 DEF PopWrap
  <2> QED  BY <1>1, <2>1 DEF SlotOf
<1>10. ASSUME NEW ro \in BOOLEAN, PopCheck(ro) PROVE CopiesOK'
  <2>1. cons'.pc = "copy" /\ UNCHANGED <<push_count, buffer, prod>>
    BY <1>10 DEF PopCheck
  <2> QED  BY <1>1, <2>1 DEF SlotOf
<1>11. CASE PushFull \/ FreeSpace \/ (\E ro \in BOOLEAN : PopEmpty(ro)) \/ UNCHANGED vars
  <2>1. UNCHANGED <<push_count, pop_count, buffer, prod, cons>>
    BY <1>11 DEF PushFull, FreeSpace, PopEmpty, vars
  <2> QED  BY <1>1, <2>1 DEF SlotOf
<1>12. CASE Flush
  BY <1>12 DEF Flush
<1> QED
  BY <1>3, <1>4, <1>5, <1>6, <1>7, <1>8, <1>9, <1>10, <1>11, <1>12 DEF Next, Producer, Consumer

(* An empty buffer is the empty sequence, and so is a flushed one. *)
LEMMA NoContents == ASSUME Occupied = 0 PROVE Contents = <<>>
BY SMT DEF Contents

(* A push or pop takes effect when its counter is stored, a peek when it   *)
(* copies, an answer "full" or "empty" when the counters are read.         *)
LEMMA StepIsFifo ==
  ASSUME FifoInv, Sound, TypeInv', OccupancyOK', [Next]_vars
  PROVE  [Fifo!Next]_(Fifo!vars)
<1> USE SizeAssumption
<1>1. /\ TypeInv /\ ModeOK /\ Occupied \in 0 .. Size
      /\ prod.pc \in {"copy", "count"} => Occupied < Size
      /\ cons.pc \in {"copy", "count"} => Occupied > 0
  BY DEF FifoInv, OccupancyOK
<1>2. Contents \in Seq(Cell) /\ Len(Contents) = Occupied
  BY <1>1, ContentsIsSequence
<1>3. ASSUME UNCHANGED <<push_count, pop_count, buffer>> PROVE Contents' = Contents
  BY <1>3 DEF Contents, Occupied, Position, SlotOf
<1>4. prod.pc # "wrap" => Total = Occupied
  BY <1>1, TotalIsOccupied
<1>5. ASSUME NEW e \in Elem, PushCheck(e) PROVE UNCHANGED Fifo!vars
  BY <1>3, <1>5 DEF PushCheck, Fifo!vars
<1>6. CASE PushFull
  <2>1. prod.pc = "idle" /\ Total >= Size /\ UNCHANGED <<push_count, pop_count, buffer, got>>
    BY <1>6 DEF PushFull, MayPush
  <2>2. Len(Contents) = Size
    BY <1>1, <1>2, <1>4, <2>1, SMT
  <2>3. Contents' = Contents
    BY <1>3, <2>1
  <2> QED  BY <1>6, <2>1, <2>2, <2>3 DEF PushFull, Fifo!PushFull, Fifo!Next, Fifo!Answer, Answer
<1>7. CASE PushCopy
  <2>1. Contents' = Contents
    BY <1>7, PushCopyHarmless
  <2> QED  BY <1>7, <2>1 DEF PushCopy, Fifo!vars
<1>8. CASE PushCount
  <2>1. Contents' = Append(Contents, prod.elem) /\ Occupied < Size /\ prod.elem \in Elem
    BY <1>8, PushCountAppends
  <2>2. put' = Answer("push", 0) /\ UNCHANGED got
    BY <1>8 DEF PushCount
  <2>3. Fifo!Push(prod.elem)
    BY <1>2, <2>1, <2>2 DEF Fifo!Push, Fifo!Answer, Answer
  <2> QED  BY <2>1, <2>3 DEF Fifo!Next
<1>9. CASE PushWrap
  <2>1. /\ push_count = 2 * Size /\ push_count' = 0
        /\ UNCHANGED <<pop_count, buffer, put, got>>
    BY <1>1, <1>9 DEF PushWrap, TypeInv, CountersOK
  <2>2. Position(push_count)' = Position(push_count) /\ Position(pop_count)' = Position(pop_count)
    BY <2>1, SMT DEF Position
  <2>3. Contents' = Contents
    BY <2>1, <2>2 DEF Contents, Occupied, SlotOf
  <2> QED  BY <2>1, <2>3 DEF Fifo!vars
<1>10. ASSUME NEW ro \in BOOLEAN, PopCheck(ro) PROVE UNCHANGED Fifo!vars
  BY <1>3, <1>10 DEF PopCheck, Fifo!vars
<1>11. ASSUME NEW ro \in BOOLEAN, PopEmpty(ro) PROVE Fifo!Next
  <2>1. /\ Total = 0 /\ got' = Answer(OpOf(ro), -1) /\ UNCHANGED <<push_count, pop_count, buffer, put>>
        /\ mode.serial => prod.pc = "idle"
    BY <1>11 DEF PopEmpty, MayPop
  <2>2. Occupied = 0
    BY <1>1, <1>4, <2>1 DEF Sound, ModeOK
  <2>3. Contents = <<>> /\ Contents' = Contents
    BY <1>3, <2>1, <2>2, NoContents
  <2>4. OpOf(ro) \in {"pop", "peek"}
    BY DEF OpOf
  <2> QED  BY <2>1, <2>3, <2>4 DEF Fifo!PopEmpty, Fifo!Next, Fifo!Answer, Answer
<1>12. CASE PopCopy
  <2>1. cons.pc = "copy" /\ UNCHANGED <<push_count, pop_count, buffer, put>>
    BY <1>12 DEF PopCopy
  <2>2. Contents' = Contents
    BY <1>3, <2>1
  <2>3. CASE cons.read_only
    <3>1. got' = Answer("peek", buffer[SlotOf(pop_count)])
      BY <1>12, <2>3 DEF PopCopy
    <3>2. Occupied \in 1 .. Size
      BY <1>1, <2>1, SMT
    <3>3. Contents # <<>> /\ Head(Contents) = buffer[SlotOf(pop_count)]
      BY <1>1, <3>2, FirstOfContents
    <3> QED  BY <2>1, <2>2, <3>1, <3>3 DEF Fifo!Peek, Fifo!Next, Fifo!Answer, Answer
  <2>4. CASE ~ cons.read_only
    <3>1. UNCHANGED got
      BY <1>12, <2>4 DEF PopCopy
    <3> QED  BY <2>1, <2>2, <3>1 DEF Fifo!vars
  <2> QED  BY <2>3, <2>4
<1>13. CASE PopCount
  <2>1. Contents' = Tail(Contents) /\ Contents # <<>> /\ cons.elem = Head(Contents)
    BY <1>13, PopCountRemoves
  <2>2. got' = Answer("pop", cons.elem) /\ UNCHANGED put
    BY <1>13 DEF PopCount
  <2> QED  BY <2>1, <2>2 DEF Fifo!Pop, Fifo!Next, Fifo!Answer, Answer
<1>14. CASE PopWrap
  <2>1. /\ pop_count = 2 * Size /\ pop_count' = 0
        /\ UNCHANGED <<push_count, buffer, put, got>>
    BY <1>1, <1>14 DEF PopWrap, TypeInv, CountersOK
  <2>2. Position(push_count)' = Position(push_count) /\ Position(pop_count)' = Position(pop_count)
    BY <2>1, SMT DEF Position
  <2>3. Contents' = Contents
    BY <2>1, <2>2 DEF Contents, Occupied, SlotOf
  <2> QED  BY <2>1, <2>3 DEF Fifo!vars
<1>15. CASE FreeSpace
  <2>1. prod.pc # "wrap" /\ UNCHANGED <<push_count, pop_count, buffer>>
    BY <1>1, <1>15 DEF FreeSpace, MayPush, MayPop, Sound, ModeOK
  <2>2. Contents' = Contents /\ Size - Total = Size - Len(Contents)
    BY <1>2, <1>3, <1>4, <2>1
  <2> QED
    BY <1>15, <2>2 DEF FreeSpace, Fifo!FreeSpace, Fifo!Space, Fifo!Next, Fifo!Answer, Answer
<1>16. CASE Flush
  <2>1. Occupied' = 0
    BY <1>16 DEF Flush, Occupied, Position
  <2>2. Contents' = <<>>
    BY <2>1, SMT DEF Contents
  <2> QED  BY <1>16, <2>2 DEF Flush, Fifo!Flush, Fifo!Next
<1>17. CASE UNCHANGED vars
  BY <1>3, <1>17 DEF vars, Fifo!vars
<1> QED
  BY <1>5, <1>6, <1>7, <1>8, <1>9, <1>10, <1>11, <1>12, <1>13, <1>14, <1>15, <1>16, <1>17
  DEF Next, Producer, Consumer

(* In every sound mode the two threads see a FIFO of size elements whose   *)
(* operations each take effect at once: elements come out once, in the     *)
(* order of their pushes, and "full", "empty" and the free space are       *)
(* answered only when true.                                                *)
THEOREM ImplementsFifo == Spec /\ []Sound => FifoSpec
<1>1. Init => CopiesOK /\ Fifo!Init
  <2> SUFFICES ASSUME Init PROVE CopiesOK /\ Fifo!Init
    OBVIOUS
  <2>1. Occupied = 0
    BY DEF Init, Occupied, Position
  <2>2. Contents = <<>>
    BY <2>1, NoContents
  <2> QED  BY <2>2 DEF Init, CopiesOK, Fifo!Init, Fifo!Answer, Answer
<1>2. Sound /\ TypeInv /\ SafeInv /\ CopiesOK => FifoInv
  BY DEF SafeInv, FifoInv
<1>3. Sound' /\ SafeInv' => OccupancyOK'
  BY DEF SafeInv
<1> QED
  BY <1>1, <1>2, <1>3, SafeInvariant, CopiesPreserved, StepIsFifo, PTL DEF Spec, FifoSpec, Fifo!Spec

-----------------------------------------------------------------------------
(* slab.c: leases and holders agree, and the blocks that are held lie apart in the blob. *)

(* The layout *)

\* Rounding up to a word leaves room for the block, and a unit for its header too.
LEMMA UnitHoldsBlock == UnitSize \in Nat /\ BlockSize + Header <= UnitSize /\ UnitSize > 0
  BY SlabAssumption, SMT DEF UnitSize, Word, Header

\* The units fit into the blob.
LEMMA UnitsFit == Count \in Nat /\ Count * UnitSize <= BlobSize
  BY SlabAssumption, UnitHoldsBlock, SMT DEF Count

\* A later unit begins where an earlier one has ended.
LEMMA UnitsApart ==
  ASSUME NEW i \in Units, NEW j \in Units, i < j
  PROVE  (i + 1) * UnitSize <= j * UnitSize
<1>1. i \in Nat /\ j \in Nat /\ i + 1 <= j
  BY UnitsFit, SMT DEF Units
<1>2. \A d \in Nat : j = (i + 1) + d => (i + 1) * UnitSize <= j * UnitSize
  BY <1>1, UnitHoldsBlock, SMT
<1>3. j - (i + 1) \in Nat /\ j = (i + 1) + (j - (i + 1))
  BY <1>1, SMT
<1> QED  BY <1>2, <1>3

\* The last block of the slab ends within it.
LEMMA LastUnitFits ==
  ASSUME NEW i \in Units
  PROVE  (i + 1) * UnitSize <= BlobSize
<1>1. i \in Nat /\ i + 1 <= Count
  BY UnitsFit, SMT DEF Units
<1>2. \A d \in Nat : Count = (i + 1) + d => (i + 1) * UnitSize <= Count * UnitSize
  BY <1>1, UnitHoldsBlock, SMT
<1>3. Count - (i + 1) \in Nat /\ Count = (i + 1) + (Count - (i + 1))
  BY <1>1, UnitsFit, SMT
<1>4. (i + 1) * UnitSize <= Count * UnitSize
  BY <1>2, <1>3
<1>5. (i + 1) * UnitSize \in Int /\ Count * UnitSize \in Int
  BY <1>1, UnitsFit, UnitHoldsBlock, SMT
<1> QED  BY <1>4, <1>5, UnitsFit, SlabAssumption, SMT

\* Whoever holds two units: their blocks are inside the blob, and apart.
LEMMA Layout ==
  ASSUME NEW i \in Units, NEW j \in Units
  PROVE  /\ DataAt(i) + BlockSize <= BlobSize
         /\ i < j => DataAt(i) + BlockSize + Header <= DataAt(j)
<1>1. i \in Nat /\ j \in Nat
  BY UnitsFit, SMT DEF Units
<1>2. (i + 1) * UnitSize = i * UnitSize + UnitSize
  BY <1>1, UnitHoldsBlock, SMT
<1>3. i * UnitSize \in Nat /\ j * UnitSize \in Nat
  BY <1>1, UnitHoldsBlock, SMT
<1>4. DataAt(i) + BlockSize <= BlobSize
  BY <1>2, <1>3, LastUnitFits, UnitHoldsBlock, SlabAssumption, SMT DEF DataAt, Header
<1>5. ASSUME i < j PROVE DataAt(i) + BlockSize + Header <= DataAt(j)
  BY <1>2, <1>3, <1>5, UnitsApart, UnitHoldsBlock, SlabAssumption, SMT DEF DataAt, Header
<1> QED  BY <1>4, <1>5

-----------------------------------------------------------------------------
(* The invariants *)

\* The variables keep their types.
THEOREM SlabTypeCorrect == SlabSpec => []SlabTypeOK
<1>1. SlabInit => SlabTypeOK
  BY DEF SlabInit, SlabTypeOK
<1>2. SlabTypeOK /\ [SlabNext]_slabVars => SlabTypeOK'
  <2> SUFFICES ASSUME SlabTypeOK, [SlabNext]_slabVars PROVE SlabTypeOK'
    OBVIOUS
  <2>1. ASSUME NEW c \in Clients, Alloc(c) PROVE SlabTypeOK'
    BY <2>1 DEF SlabTypeOK, Alloc
  <2>2. ASSUME NEW c \in Clients, NEW i \in Units, Release(c, i) PROVE SlabTypeOK'
    BY <2>2 DEF SlabTypeOK, Release
  <2>3. CASE UNCHANGED slabVars
    BY <2>3 DEF SlabTypeOK, slabVars
  <2> QED  BY <2>1, <2>2, <2>3 DEF SlabNext
<1> QED  BY <1>1, <1>2, PTL DEF SlabSpec

\* A unit is leased to one client at most, which holds it: it is the invariant itself, on
\* typed states, that the calls preserve.
LEMMA LeasesPreserved ==
  ASSUME SlabTypeOK, LeasedIsHeld, [SlabNext]_slabVars
  PROVE  LeasedIsHeld'
<1>1. ASSUME NEW c \in Clients, NEW i \in Units, ~leased[i],
             leased' = [leased EXCEPT ![i] = TRUE],
             canary' = [canary EXCEPT ![i] = TRUE],
             held' = [held EXCEPT ![c] = @ \cup {i}]
      PROVE  LeasedIsHeld'
  <2>1. \A d \in Clients : i \notin held[d]
    BY <1>1 DEF LeasedIsHeld
  <2>2. \A d \in Clients : held'[d] = IF d = c THEN held[c] \cup {i} ELSE held[d]
    BY <1>1 DEF SlabTypeOK
  <2>3. /\ \A u \in Units : leased'[u] <=> (u = i \/ leased[u])
        /\ \A u \in Units : canary'[u] <=> (u = i \/ canary[u])
    BY <1>1, Zenon DEF SlabTypeOK
  <2>4. \A d \in Clients : held[d] \subseteq Units
    BY DEF SlabTypeOK
  <2>5. ASSUME NEW u \in Units PROVE leased'[u] <=> \E d \in Clients : u \in held'[d]
    <3>1. leased[u] <=> \E d \in Clients : u \in held[d]
      BY DEF LeasedIsHeld
    <3>2. \A d \in Clients : u \in held'[d] <=> (d = c /\ u = i) \/ u \in held[d]
      BY <2>2
    <3> QED  BY <2>3, <3>1, <3>2, <1>1, Zenon
  <2>6. \A d, e \in Clients : d # e => held'[d] \cap held'[e] = {}
    BY <2>1, <2>2 DEF LeasedIsHeld
  <2>7. ASSUME NEW d \in Clients, NEW u \in held'[d] PROVE canary'[u]
    <3>1. u = i \/ u \in held[d]
      BY <2>2
    <3>2. u \in held[d] => u \in Units /\ canary[u]
      BY <2>4, Zenon DEF LeasedIsHeld
    <3> QED  BY <3>1, <3>2, <2>3, Zenon
  <2> QED  BY <2>5, <2>6, <2>7 DEF LeasedIsHeld
<1>2. ASSUME NEW c \in Clients, Alloc(c) PROVE LeasedIsHeld'
  BY <1>1, <1>2 DEF Alloc
<1>3. ASSUME NEW c \in Clients, NEW i \in Units, Release(c, i) PROVE LeasedIsHeld'
  <2>1. \A d \in Clients : d # c => i \notin held[d]
    BY <1>3 DEF LeasedIsHeld, Release
  <2>2. \A d \in Clients : held'[d] = IF d = c THEN held[c] \ {i} ELSE held[d]
    BY <1>3 DEF SlabTypeOK, Release
  <2>3. /\ \A u \in Units : leased'[u] <=> (u # i /\ leased[u])
        /\ canary' = canary
    BY <1>3, Zenon DEF SlabTypeOK, Release
  <2>4. ASSUME NEW u \in Units PROVE leased'[u] <=> \E d \in Clients : u \in held'[d]
    <3>1. leased[u] <=> \E d \in Clients : u \in held[d]
      BY DEF LeasedIsHeld
    <3>2. \A d \in Clients : u \in held'[d] <=> u \in held[d] /\ ~(d = c /\ u = i)
      BY <2>2
    <3> QED  BY <2>1, <2>3, <3>1, <3>2, Zenon
  <2>5. \A d, e \in Clients : d # e => held'[d] \cap held'[e] = {}
    BY <2>2 DEF LeasedIsHeld
  <2>6. \A d \in Clients : \A u \in held'[d] : canary'[u]
    BY <2>2, <2>3 DEF LeasedIsHeld
  <2> QED  BY <2>4, <2>5, <2>6 DEF LeasedIsHeld
<1>4. CASE UNCHANGED slabVars
  BY <1>4 DEF LeasedIsHeld, slabVars
<1> QED  BY <1>2, <1>3, <1>4 DEF SlabNext

\* Leases and holders agree, and the blocks that are held are inside the blob with room for
\* a header between any two.
THEOREM BlocksApart == SlabSpec => []BlocksDisjoint
<1>1. SlabInit => LeasedIsHeld
  BY DEF SlabInit, LeasedIsHeld
<1>2. SlabTypeOK /\ LeasedIsHeld => BlocksDisjoint
  BY Layout DEF SlabTypeOK, BlocksDisjoint
<1> QED  BY <1>1, <1>2, LeasesPreserved, SlabTypeCorrect, PTL DEF SlabSpec

-----------------------------------------------------------------------------
(* filo.c: the array is never left, and it implements a bounded stack. *)

\* The array and its top.
LEMMA FiloTypesPreserved ==
  ASSUME FiloTypeOK, [FiloNext]_filoVars
  PROVE  FiloTypeOK'
<1>1. ASSUME NEW e \in Elems, Push(e) PROVE FiloTypeOK'
  <2>1. filo_buffer' \in [Slots -> Elems] /\ out' \in Elems \cup {None}
    BY <1>1 DEF FiloTypeOK, Push
  <2>2. top' \in 0..MaxSize /\ FiloFreeSpace' \in 0..MaxSize
    BY <1>1, FiloAssumption, SMT DEF FiloTypeOK, Push, FiloFreeSpace
  <2> QED  BY <2>1, <2>2 DEF FiloTypeOK
<1>2. ASSUME NEW remove \in BOOLEAN, Pop(remove) PROVE FiloTypeOK'
  <2>1. top - 1 \in Slots /\ top - 1 \in 0..MaxSize
    BY <1>2, FiloAssumption, SMT DEF FiloTypeOK, Pop, Slots
  <2>2. filo_buffer' \in [Slots -> Elems] /\ out' \in Elems \cup {None}
    BY <1>2, <2>1 DEF FiloTypeOK, Pop
  <2>3. top' \in 0..MaxSize
    <3>1. top' = top - 1 \/ top' = top
      BY <1>2, Zenon DEF Pop
    <3> QED  BY <2>1, <3>1, FiloAssumption, SMT DEF FiloTypeOK
  <2>4. FiloFreeSpace' \in 0..MaxSize
    <3>1. FiloFreeSpace' = MaxSize - top'
      BY DEF FiloFreeSpace
    <3>2. \A n \in 0..MaxSize : MaxSize - n \in 0..MaxSize
      BY FiloAssumption, SMT
    <3> QED  BY <2>3, <3>1, <3>2
  <2> QED  BY <2>2, <2>3, <2>4 DEF FiloTypeOK
<1>3. CASE Reset
  BY <1>3, FiloAssumption, SMT DEF FiloTypeOK, Reset, FiloFreeSpace
<1>4. CASE UNCHANGED filoVars
  BY <1>4 DEF FiloTypeOK, filoVars, FiloFreeSpace
<1> QED  BY <1>1, <1>2, <1>3, <1>4 DEF FiloNext

\* The top never leaves the array, and FiloFreeSpace never wraps.
THEOREM FiloTypeCorrect == FiloSpec => []FiloTypeOK
<1>1. FiloInit => FiloTypeOK
  BY FiloAssumption, SMT DEF FiloInit, FiloTypeOK, FiloFreeSpace
<1> QED  BY <1>1, FiloTypesPreserved, PTL DEF FiloSpec

-----------------------------------------------------------------------------
(* The refinement *)

\* What the stack of BoundedLifo is here.
Stack == [i \in 1..top |-> filo_buffer[i - 1]]

\* The stack is a sequence of elements.
LEMMA StackIsSequence ==
  ASSUME FiloTypeOK
  PROVE  /\ Stack \in Seq(Elems) /\ Len(Stack) = top /\ top \in Nat
         /\ \A i \in 1..top : Stack[i] = filo_buffer[i - 1]
<1>1. top \in Nat /\ \A i \in 1..top : i - 1 \in Slots
  BY FiloAssumption, SMT DEF FiloTypeOK, Slots
<1>2. \A i \in 1..top : filo_buffer[i - 1] \in Elems
  BY <1>1 DEF FiloTypeOK
<1> QED  BY <1>1, <1>2 DEF Stack

\* filo_push is a push, or fails when the stack is full.
LEMMA PushRefines ==
  ASSUME FiloTypeOK, FiloTypeOK', NEW e \in Elems, Push(e)
  PROVE  Lifo!Push(e)
<1>1. top \in Slots /\ top' = top + 1 /\ top < MaxSize
  BY FiloAssumption, SMT DEF FiloTypeOK, Push, Slots
<1>2. /\ \A i \in 1..top : filo_buffer'[i - 1] = filo_buffer[i - 1]
      /\ filo_buffer'[top] = e
  <2>1. \A i \in 1..top : i - 1 \in Slots /\ i - 1 # top
    BY FiloAssumption, SMT DEF FiloTypeOK, Slots
  <2> QED  BY <2>1, <1>1 DEF Push, FiloTypeOK
<1>3. Stack' = [i \in 1..(top + 1) |-> filo_buffer'[i - 1]]
  BY <1>1 DEF Stack
<1>4. Append(Stack, e) = [i \in 1..(top + 1) |-> IF i <= top THEN Stack[i] ELSE e]
  <2>1. /\ Append(Stack, e) \in Seq(Elems) /\ Len(Append(Stack, e)) = top + 1
        /\ \A i \in 1..top : Append(Stack, e)[i] = Stack[i]
        /\ Append(Stack, e)[top + 1] = e
    BY StackIsSequence, AppendProperties
  <2>2. \A i \in 1..(top + 1) : (i <= top => i \in 1..top) /\ (~(i <= top) => i = top + 1)
    BY StackIsSequence, SMT
  <2>3. \A i \in 1..(top + 1) : Append(Stack, e)[i] = IF i <= top THEN Stack[i] ELSE e
    BY <2>1, <2>2, Zenon
  <2>4. \A s \in Seq(Elems) : s = [i \in 1..Len(s) |-> s[i]]
    BY SMT
  <2>5. Append(Stack, e) = [i \in 1..(top + 1) |-> Append(Stack, e)[i]]
    BY <2>1, <2>4, Zenon
  <2> QED  BY <2>3, <2>5, Zenon
<1>5. \A i \in 1..(top + 1) : filo_buffer'[i - 1] = IF i <= top THEN Stack[i] ELSE e
  <2>1. ASSUME NEW i \in 1..(top + 1), i <= top
        PROVE  filo_buffer'[i - 1] = Stack[i]
    <3>1. i \in 1..top
      BY <2>1, StackIsSequence, SMT
    <3> QED  BY <3>1, <1>2, StackIsSequence
  <2>2. ASSUME NEW i \in 1..(top + 1), ~(i <= top)
        PROVE  filo_buffer'[i - 1] = e
    <3>1. i - 1 = top
      BY <2>2, StackIsSequence, SMT
    <3> QED  BY <3>1, <1>2
  <2> QED  BY <2>1, <2>2
<1>6. Stack' = Append(Stack, e)
  BY <1>3, <1>4, <1>5
<1> QED  BY <1>1, <1>6, StackIsSequence DEF Lifo!Push, Stack, Push

\* filo_pop is a pop, or fails when the stack is empty.
LEMMA PopRefines ==
  ASSUME FiloTypeOK, NEW remove \in BOOLEAN, Pop(remove)
  PROVE  Lifo!Pop \/ Lifo!Peek
<1>1. top \in 1..top /\ top - 1 \in Nat
  BY StackIsSequence, SMT DEF Pop
<1>2. Stack # <<>> /\ out' = Stack[Len(Stack)]
  <2>1. Stack[top] = filo_buffer[top - 1]
    BY <1>1, StackIsSequence
  <2>2. Stack # <<>>
    BY <1>1, StackIsSequence, SMT
  <2> QED  BY <2>1, <2>2, StackIsSequence DEF Pop
<1>3. CASE ~remove
  <2>1. UNCHANGED <<top, filo_buffer>>
    BY <1>3 DEF Pop
  <2>2. Stack' = Stack
    BY <2>1 DEF Stack
  <2> QED  BY <1>2, <2>2 DEF Lifo!Peek, Stack
<1>4. CASE remove
  <2>1. top' = top - 1 /\ filo_buffer' = filo_buffer
    BY <1>4 DEF Pop
  <2>2. Stack' = [i \in 1..(top - 1) |-> filo_buffer[i - 1]]
    BY <2>1 DEF Stack
  <2>3. SubSeq(Stack, 1, top - 1) = [i \in 1..(top - 1) |-> Stack[i]]
    <3>1. 1 \in 1..(Len(Stack) + 1) /\ top - 1 \in 0..Len(Stack)
      BY <1>1, StackIsSequence, SMT
    <3>2. /\ SubSeq(Stack, 1, top - 1) \in Seq(Elems)
          /\ Len(SubSeq(Stack, 1, top - 1)) = top - 1
          /\ \A i \in 1..(top - 1) : SubSeq(Stack, 1, top - 1)[i] = Stack[i]
      BY <1>1, <3>1, StackIsSequence, SMT
    <3> QED  BY <3>2
  <2>4. \A i \in 1..(top - 1) : Stack[i] = filo_buffer[i - 1]
    <3>1. \A i \in 1..(top - 1) : i \in 1..top
      BY <1>1, SMT
    <3> QED  BY <3>1, StackIsSequence
  <2>5. Stack' = SubSeq(Stack, 1, Len(Stack) - 1)
    BY <2>2, <2>3, <2>4, StackIsSequence
  <2> QED  BY <1>2, <2>5 DEF Lifo!Pop, Stack
<1> QED  BY <1>3, <1>4

\* Every step of the array is one of the stack, or none.
LEMMA FiloStepRefines ==
  ASSUME FiloTypeOK, FiloTypeOK', [FiloNext]_filoVars
  PROVE  [Lifo!Next]_(Lifo!vars)
<1>1. ASSUME NEW e \in Elems, Push(e) PROVE Lifo!Next
  BY <1>1, PushRefines DEF Lifo!Next
<1>2. ASSUME NEW remove \in BOOLEAN, Pop(remove) PROVE Lifo!Next
  BY <1>2, PopRefines DEF Lifo!Next
<1>3. CASE Reset
  <2>1. Stack' = <<>>
    BY <1>3, SMT DEF Reset, Stack
  <2> QED  BY <1>3, <2>1 DEF Reset, Stack, Lifo!Clear, Lifo!Next
<1>4. CASE UNCHANGED filoVars
  BY <1>4 DEF filoVars, Lifo!vars
<1> QED  BY <1>1, <1>2, <1>3, <1>4 DEF FiloNext

\* The array implements the bounded stack: elements come out in the reverse order of the
\* pushes, MaxSize of them fit, and a failed call changes nothing.
THEOREM ImplementsLifo == FiloSpec => LifoSpec
<1>1. FiloInit => Lifo!Init
  <2>1. top = 0 => Stack = <<>>
    BY SMT DEF Stack
  <2> QED  BY <2>1 DEF FiloInit, Lifo!Init, Stack
<1> QED  BY <1>1, FiloStepRefines, FiloTypeCorrect, PTL DEF FiloSpec, LifoSpec, Lifo!Spec

-----------------------------------------------------------------------------
(* disjoint_set.c: the parent pointers stay a forest with one root in each set that the
   unions made, at every moment of a compression. *)

\* Node 0 exists, and the marker for none is not one.
LEMMA DsuNodes == 0 \in Node /\ NoNode \notin Node
  BY MaxNodesAssumption, SMT DEF Node, NoNode

-----------------------------------------------------------------------------
(* Types *)

\* Every step keeps the types.
LEMMA DsuTypesPreserved ==
  ASSUME DsuTypeOK, [DsuNext]_dsuVars
  PROVE  DsuTypeOK'
<1>1. ASSUME NEW x \in Node, NEW y \in Node \cup {NoNode}, Call(x, y) PROVE DsuTypeOK'
  BY <1>1 DEF DsuTypeOK, Call
<1>2. CASE Climb
  BY <1>2 DEF DsuTypeOK, Climb
<1>3. CASE Compress
  BY <1>3 DEF DsuTypeOK, Compress
<1>4. CASE Return
  BY <1>4 DEF DsuTypeOK, Return
<1>5. CASE FindOther
  BY <1>5 DEF DsuTypeOK, FindOther
<1>6. CASE Link
  <2> DEFINE hi == IF rank[mine] < rank[root] THEN root ELSE mine
             lo == IF rank[mine] < rank[root] THEN mine ELSE root
             both == sets[mine] \cup sets[root]
  <2>1. mine \in Node /\ root \in Node /\ hi \in Node /\ lo \in Node
    BY <1>6 DEF DsuTypeOK, Link
  <2>2. both \in SUBSET Node
    BY <2>1 DEF DsuTypeOK
  <2>3. sets' \in [Node -> SUBSET Node]
    BY <1>6, <2>2 DEF DsuTypeOK, Link
  <2>4. parent' \in [Node -> Node]
    BY <1>6, <2>1 DEF DsuTypeOK, Link
  <2>5. rank' \in [Node -> Nat]
    <3>1. CASE mine = root
      BY <1>6, <3>1 DEF DsuTypeOK, Link
    <3>2. CASE mine # root
      <4>1. rank' = [rank EXCEPT ![hi] = IF @ = rank[lo] THEN @ + 1 ELSE @]
        BY <1>6, <3>2 DEF Link
      <4>2. rank[hi] \in Nat /\ rank[hi] + 1 \in Nat
        BY <2>1, SMT DEF DsuTypeOK
      <4> QED  BY <4>1, <4>2 DEF DsuTypeOK
    <3> QED  BY <3>1, <3>2
  <2> QED  BY <1>6, <2>3, <2>4, <2>5 DEF DsuTypeOK, Link
<1>7. CASE UNCHANGED dsuVars
  BY <1>7 DEF DsuTypeOK, dsuVars
<1> QED  BY <1>1, <1>2, <1>3, <1>4, <1>5, <1>6, <1>7 DEF DsuNext, Find

\* The variables keep their types.
THEOREM DsuTypeCorrect == DsuSpec => []DsuTypeOK
<1>1. DsuInit => DsuTypeOK
  BY DsuNodes DEF DsuInit, DsuTypeOK
<1> QED  BY <1>1, DsuTypesPreserved, PTL DEF DsuSpec

-----------------------------------------------------------------------------
(* The inductive invariant *)

\* The sets are a partition, and parents stay in them.
Partition ==
  /\ \A i \in Node : i \in sets[i] /\ parent[i] \in sets[i]
  /\ \A i, j \in Node : j \in sets[i] => sets[j] = sets[i]

\* Each set has a root, whose rank is above the rank of any other of its nodes: so the root
\* is the only one, and linking any node of the set to it keeps ranks growing.
RootHighest ==
  /\ \A i \in Node : \E r \in Roots : r \in sets[i]
  /\ \A r \in Roots : \A x \in sets[r] : x # r => rank[x] < rank[r]

\* What a call in progress knows: its root is of its node's set, and is a root once the
\* climb is over; the root of the first node of a union stays one meanwhile.
CallKnows ==
  /\ pc # "idle" => root \in sets[a]
  /\ pc = "compress" => parent[root] = root
  /\ mine # NoNode => pc # "idle" /\ parent[mine] = mine

DsuInv == DsuTypeOK /\ Forest /\ Partition /\ RootHighest /\ CallKnows

\* A node that is its own parent is the root of its set.
LEMMA OnlyRoot ==
  ASSUME DsuInv, NEW i \in Roots, NEW j \in Roots, j \in sets[i]
  PROVE  i = j
<1>1. i \in Node /\ j \in Node
  BY DEF Roots
<1>2. sets[j] = sets[i] /\ i \in sets[j]
  BY <1>1 DEF DsuInv, Partition
<1>3. rank[i] \in Nat /\ rank[j] \in Nat
  BY <1>1 DEF DsuInv, DsuTypeOK
<1>4. ASSUME i # j PROVE FALSE
  <2>1. rank[j] < rank[i] /\ rank[i] < rank[j]
    BY <1>2, <1>4 DEF DsuInv, RootHighest
  <2> QED  BY <2>1, <1>3, SMT
<1> QED  BY <1>4

\* The invariant implies that each set has one root.
LEMMA InvHolds == DsuInv => OneRootPerSet
  BY OnlyRoot DEF DsuInv, OneRootPerSet, Partition, RootHighest, CallKnows

\* The pass of the compression: `a' is neither a root nor the root it was found to have.
LEMMA CompressPreserves ==
  ASSUME DsuInv, DsuTypeOK', Compress
  PROVE  DsuInv'
<1>1. /\ a \in Node /\ root \in Node /\ parent[root] = root /\ root \in sets[a]
      /\ a \in sets[a] /\ sets[root] = sets[a] /\ parent[a] \in sets[a] /\ parent[a] \in Node
  BY DEF DsuInv, DsuTypeOK, Compress, CallKnows, Partition
<1>2. a # root /\ root \in Roots /\ a \notin Roots
  <2>1. a # root /\ root \in Roots
    BY <1>1 DEF Compress, Roots
  <2>2. a \in Roots => a = root
    BY <1>1, <2>1, OnlyRoot
  <2> QED  BY <2>1, <2>2
<1>3. rank[a] < rank[root]
  BY <1>1, <1>2 DEF DsuInv, RootHighest
<1>4. \A i \in Node : parent'[i] = IF i = a THEN root ELSE parent[i]
  BY DEF DsuInv, DsuTypeOK, Compress
<1>5. Roots' = Roots
  BY <1>1, <1>2, <1>4 DEF Roots
<1>6. Forest'
  BY <1>3, <1>4 DEF DsuInv, Forest, Compress
<1>7. Partition'
  BY <1>1, <1>4 DEF DsuInv, Partition, Compress
<1>8. RootHighest'
  BY <1>5 DEF DsuInv, RootHighest, Compress
<1>9. CallKnows'
  <2>1. sets[parent[a]] = sets[a]
    BY <1>1 DEF DsuInv, Partition
  <2>2. root' \in sets'[a']
    BY <1>1, <2>1 DEF Compress
  <2>3. parent'[root'] = root'
    BY <1>1, <1>2, <1>4 DEF Compress
  <2>4. mine' # NoNode => parent'[mine'] = mine'
    <3>1. mine # NoNode => mine \in Node /\ parent[mine] = mine
      BY DEF DsuInv, DsuTypeOK, CallKnows
    <3>2. mine # NoNode => mine \in Roots
      BY <3>1 DEF Roots
    <3> QED  BY <1>2, <1>4, <3>1, <3>2 DEF Compress
  <2>5. pc' = "compress"
    BY DEF Compress
  <2> QED  BY <2>2, <2>3, <2>4, <2>5 DEF CallKnows
<1> QED  BY <1>6, <1>7, <1>8, <1>9 DEF DsuInv

\* The union of two sets with different roots.
LEMMA LinkPreserves ==
  ASSUME DsuInv, DsuTypeOK', NEW hi \in Node, NEW lo \in Node, hi # lo,
         parent[hi] = hi, parent[lo] = lo, rank[lo] <= rank[hi],
         parent' = [parent EXCEPT ![lo] = hi],
         rank' = [rank EXCEPT ![hi] = IF @ = rank[lo] THEN @ + 1 ELSE @],
         sets' = [i \in Node |-> IF i \in sets[hi] \cup sets[lo] THEN sets[hi] \cup sets[lo]
                                 ELSE sets[i]],
         mine' = NoNode, pc' = "idle"
  PROVE  DsuInv'
<1> DEFINE both == sets[hi] \cup sets[lo]
<1>1. /\ hi \in sets[hi] /\ lo \in sets[lo] /\ hi \in Roots /\ lo \in Roots
      /\ sets[hi] \subseteq Node /\ sets[lo] \subseteq Node
  BY DEF DsuInv, DsuTypeOK, Partition, Roots
<1>2. \A i \in Node : parent'[i] = IF i = lo THEN hi ELSE parent[i]
  BY DEF DsuInv, DsuTypeOK
<1>3. \A i \in Node : sets'[i] = IF i \in both THEN both ELSE sets[i]
  OBVIOUS
<1>4. /\ \A i \in Node : rank[i] \in Nat /\ rank'[i] \in Nat
      /\ \A i \in Node : i # hi => rank'[i] = rank[i]
      /\ rank'[hi] = IF rank[hi] = rank[lo] THEN rank[hi] + 1 ELSE rank[hi]
  BY DEF DsuInv, DsuTypeOK
<1>5. rank[hi] <= rank'[hi] /\ rank[lo] < rank'[hi]
  BY <1>4, SMT
<1>6. \A i \in Node : sets[i] \cap both # {} => i \in both
  BY <1>1 DEF DsuInv, DsuTypeOK, Partition
<1>7. \A i \in both : sets[i] \subseteq both
  BY <1>1 DEF DsuInv, Partition
<1>8. Roots' = Roots \ {lo}
  BY <1>2 DEF Roots
<1>9. Forest'
  <2> SUFFICES ASSUME NEW i \in Node, parent'[i] # i
               PROVE  rank'[i] < rank'[parent'[i]]
    BY DEF Forest
  <2>1. CASE i = lo
    BY <2>1, <1>2, <1>4, <1>5
  <2>2. CASE i # lo
    <3>1. parent'[i] = parent[i] /\ i # hi /\ rank'[i] = rank[i] /\ parent[i] \in Node
      BY <2>2, <1>2, <1>4 DEF DsuInv, DsuTypeOK
    <3>2. rank[i] < rank[parent[i]]
      BY <3>1 DEF DsuInv, Forest
    <3>3. rank[parent[i]] <= rank'[parent[i]]
      <4>1. CASE parent[i] = hi
        BY <4>1, <1>5
      <4>2. CASE parent[i] # hi
        BY <4>2, <3>1, <1>4, SMT
      <4> QED  BY <4>1, <4>2
    <3> QED  BY <3>1, <3>2, <3>3, <1>4, SMT
  <2> QED  BY <2>1, <2>2
<1>10. Partition'
  <2>1. \A i \in Node : i \in sets'[i]
    BY <1>3 DEF DsuInv, Partition
  <2>2. \A i \in Node : parent'[i] \in sets'[i]
    <3> TAKE i \in Node
    <3>1. CASE i = lo
      BY <3>1, <1>1, <1>2, <1>3
    <3>2. CASE i # lo
      <4>1. parent'[i] = parent[i] /\ parent[i] \in sets[i]
        BY <3>2, <1>2 DEF DsuInv, Partition
      <4> QED  BY <4>1, <1>3, <1>7
    <3> QED  BY <3>1, <3>2
  <2>3. \A i, j \in Node : j \in sets'[i] => sets'[j] = sets'[i]
    <3> SUFFICES ASSUME NEW i \in Node, NEW j \in Node, j \in sets'[i]
                 PROVE  sets'[j] = sets'[i]
      OBVIOUS
    <3>1. CASE i \in both
      BY <3>1, <1>3
    <3>2. CASE i \notin both
      <4>1. j \in sets[i] /\ sets[j] = sets[i]
        BY <3>2, <1>3 DEF DsuInv, Partition
      <4>2. j \notin both
        BY <4>1, <3>2, <1>6
      <4> QED  BY <4>1, <4>2, <3>2, <1>3
    <3> QED  BY <3>1, <3>2
  <2> QED  BY <2>1, <2>2, <2>3 DEF Partition
<1>11. RootHighest'
  <2>1. \A i \in Node : \E r \in Roots' : r \in sets'[i]
    <3> TAKE i \in Node
    <3>1. CASE i \in both
      BY <3>1, <1>1, <1>3, <1>8
    <3>2. CASE i \notin both
      <4>1. PICK r \in Roots : r \in sets[i]
        BY DEF DsuInv, RootHighest
      <4>2. r # lo
        BY <4>1, <3>2, <1>1, <1>6
      <4> QED  BY <4>1, <4>2, <3>2, <1>3, <1>8
    <3> QED  BY <3>1, <3>2
  <2>2. ASSUME NEW r \in Roots', NEW x \in sets'[r], x # r
        PROVE  rank'[x] < rank'[r]
    <3>1. r \in Roots /\ r # lo /\ r \in Node
      BY <1>8 DEF Roots
    <3>2. CASE r \in both
      <4>1. r = hi
        BY <3>1, <3>2, <1>1, OnlyRoot
      <4>2. x \in both /\ x \in Node /\ rank'[x] = rank[x]
        BY <4>1, <3>1, <3>2, <2>2, <1>1, <1>3, <1>4
      <4>3. rank[x] < rank[hi] \/ rank[x] <= rank[lo]
        <5>1. x \in sets[hi] => rank[x] < rank[hi]
          BY <4>1, <2>2, <1>1 DEF DsuInv, RootHighest
        <5>2. x \in sets[lo] => x = lo \/ rank[x] < rank[lo]
          BY <1>1 DEF DsuInv, RootHighest
        <5>3. rank[x] \in Nat /\ rank[lo] \in Nat
          BY <4>2, <1>4
        <5> QED  BY <4>2, <5>1, <5>2, <5>3, SMT
      <4>4. rank[x] \in Nat /\ rank[hi] \in Nat /\ rank[lo] \in Nat /\ rank'[hi] \in Nat
        BY <4>2, <1>4
      <4> QED  BY <4>1, <4>2, <4>3, <4>4, <1>5, SMT
    <3>3. CASE r \notin both
      <4>1. x \in sets[r] /\ x \in Node /\ rank[x] < rank[r]
        BY <3>1, <3>3, <2>2, <1>3 DEF DsuInv, RootHighest, DsuTypeOK
      <4>2. x # hi /\ r # hi
        BY <4>1, <3>1, <3>3, <1>1, <1>6
      <4> QED  BY <4>1, <4>2, <3>1, <1>4
    <3> QED  BY <3>2, <3>3
  <2> QED  BY <2>1, <2>2 DEF RootHighest
<1>12. CallKnows'
  BY DEF CallKnows
<1> QED  BY <1>9, <1>10, <1>11, <1>12 DEF DsuInv

\* Every step keeps the invariant.
LEMMA InvPreserved ==
  ASSUME DsuInv, DsuTypeOK', [DsuNext]_dsuVars
  PROVE  DsuInv'
<1>1. ASSUME NEW x \in Node, NEW y \in Node \cup {NoNode}, Call(x, y) PROVE DsuInv'
  <2>1. UNCHANGED <<parent, rank, sets, mine>> /\ a' = x /\ root' = x /\ pc' = "climb" /\ pc = "idle"
    BY <1>1 DEF Call
  <2>2. x \in sets[x]
    BY DEF DsuInv, Partition
  <2>3. CallKnows'
    BY <2>1, <2>2 DEF DsuInv, CallKnows
  <2>4. Forest' /\ Partition' /\ RootHighest'
    BY <2>1 DEF DsuInv, Forest, Partition, RootHighest, Roots
  <2> QED  BY <2>3, <2>4 DEF DsuInv
<1>2. CASE Climb
  <2>1. UNCHANGED <<parent, rank, sets, mine, a>> /\ pc = "climb"
    BY <1>2 DEF Climb
  <2>2. root \in Node /\ a \in Node /\ root \in sets[a] /\ parent[root] \in sets[root]
    BY <2>1 DEF DsuInv, DsuTypeOK, CallKnows, Partition
  <2>3. parent[root] \in sets[a]
    BY <2>2 DEF DsuInv, Partition
  <2>4. CallKnows'
    <3>1. CASE parent[root] # root
      BY <1>2, <2>1, <2>3, <3>1 DEF Climb, DsuInv, CallKnows
    <3>2. CASE parent[root] = root
      BY <1>2, <2>1, <2>2, <3>2 DEF Climb, DsuInv, CallKnows
    <3> QED  BY <3>1, <3>2
  <2>5. Forest' /\ Partition' /\ RootHighest'
    BY <2>1 DEF DsuInv, Forest, Partition, RootHighest, Roots
  <2> QED  BY <2>4, <2>5 DEF DsuInv
<1>3. CASE Compress
  BY <1>3, CompressPreserves
<1>4. CASE Return
  <2>1. UNCHANGED <<parent, rank, sets, mine>> /\ mine = NoNode /\ pc' = "idle"
    BY <1>4 DEF Return
  <2>2. CallKnows'
    BY <2>1 DEF CallKnows
  <2>3. Forest' /\ Partition' /\ RootHighest'
    BY <2>1 DEF DsuInv, Forest, Partition, RootHighest, Roots
  <2> QED  BY <2>2, <2>3 DEF DsuInv
<1>5. CASE FindOther
  <2>1. /\ UNCHANGED <<parent, rank, sets>> /\ mine' = root /\ a' = other /\ root' = other
        /\ pc' = "climb" /\ pc = "compress" /\ other # NoNode
    BY <1>5 DEF FindOther, Found
  <2>2. other \in Node /\ other \in sets[other] /\ parent[root] = root
    BY <2>1 DEF DsuInv, DsuTypeOK, Partition, CallKnows
  <2>3. CallKnows'
    BY <2>1, <2>2 DEF CallKnows
  <2>4. Forest' /\ Partition' /\ RootHighest'
    BY <2>1 DEF DsuInv, Forest, Partition, RootHighest, Roots
  <2> QED  BY <2>3, <2>4 DEF DsuInv
<1>6. CASE Link
  <2>1. /\ mine \in Node /\ root \in Node /\ parent[mine] = mine /\ parent[root] = root
        /\ mine' = NoNode /\ pc' = "idle"
        /\ rank[mine] \in Nat /\ rank[root] \in Nat
    BY <1>6 DEF Link, Found, DsuInv, DsuTypeOK, CallKnows
  <2>2. CASE mine = root
    <3>1. parent' = parent /\ rank' = rank
      BY <1>6, <2>2 DEF Link
    <3>2. \A i \in Node : i \in sets[mine] => sets[i] = sets[mine]
      BY <2>1 DEF DsuInv, Partition
    <3>3. sets' = [i \in Node |-> sets[i]]
      BY <1>6, <2>2, <3>2 DEF Link
    <3>4. sets' = sets
      BY <3>3 DEF DsuInv, DsuTypeOK
    <3>5. CallKnows'
      BY <2>1 DEF CallKnows
    <3>6. Forest' /\ Partition' /\ RootHighest'
      BY <3>1, <3>4 DEF DsuInv, Forest, Partition, RootHighest, Roots
    <3> QED  BY <3>5, <3>6 DEF DsuInv
  <2>3. CASE mine # root /\ rank[mine] < rank[root]
    <3>1. rank[mine] <= rank[root]
      BY <2>1, <2>3, SMT
    <3>2. /\ parent' = [parent EXCEPT ![mine] = root]
          /\ rank' = [rank EXCEPT ![root] = IF @ = rank[mine] THEN @ + 1 ELSE @]
      BY <1>6, <2>3 DEF Link
    <3>3. sets[mine] \cup sets[root] = sets[root] \cup sets[mine]
      OBVIOUS
    <3>4. sets' = [i \in Node |-> IF i \in sets[root] \cup sets[mine]
                                  THEN sets[root] \cup sets[mine] ELSE sets[i]]
      BY <1>6, <3>3 DEF Link
    <3> QED  BY <2>1, <2>3, <3>1, <3>2, <3>4, LinkPreserves
  <2>4. CASE mine # root /\ ~(rank[mine] < rank[root])
    <3>1. rank[root] <= rank[mine]
      BY <2>1, <2>4, SMT
    <3>2. /\ parent' = [parent EXCEPT ![root] = mine]
          /\ rank' = [rank EXCEPT ![mine] = IF @ = rank[root] THEN @ + 1 ELSE @]
          /\ sets' = [i \in Node |-> IF i \in sets[mine] \cup sets[root]
                                     THEN sets[mine] \cup sets[root] ELSE sets[i]]
      BY <1>6, <2>4 DEF Link
    <3> QED  BY <2>1, <2>4, <3>1, <3>2, LinkPreserves
  <2> QED  BY <2>2, <2>3, <2>4
<1>7. CASE UNCHANGED dsuVars
  BY <1>7 DEF DsuInv, DsuTypeOK, dsuVars, Forest, Partition, RootHighest, Roots, CallKnows
<1> QED  BY <1>1, <1>2, <1>3, <1>4, <1>5, <1>6, <1>7 DEF DsuNext, Find

\* However many nodes, and whatever calls of find and union: the parents form a forest with
\* exactly one root in each set, and find answers a node of the right set.
THEOREM FindTellsSetsApart == DsuSpec => []OneRootPerSet
<1>1. DsuInit => DsuInv
  <2> SUFFICES ASSUME DsuInit PROVE DsuInv
    OBVIOUS
  <2>1. DsuTypeOK
    BY DsuNodes DEF DsuInit, DsuTypeOK
  <2>2. Forest /\ Partition /\ RootHighest
    BY DEF DsuInit, Forest, Partition, RootHighest, Roots
  <2> QED  BY <2>1, <2>2 DEF DsuInit, DsuInv, CallKnows
<1>2. DsuInv /\ DsuTypeOK' /\ [DsuNext]_dsuVars => DsuInv'
  BY InvPreserved
<1> QED  BY <1>1, <1>2, InvHolds, DsuTypeCorrect, PTL DEF DsuSpec

-----------------------------------------------------------------------------
(* pcap_gen.c: the capture holds what was accepted, in order, and the cache is not overrun. *)

Record == [id : Int, len : Int]

\* The sequences are sequences of records, and nothing is there before the start.
Shape ==
  /\ cached \in Seq(Record) /\ file \in Seq(Record) /\ accepted \in Seq(Record)
  /\ state = "none" => cached = <<>> /\ accepted = <<>>

Headers == <<FileHeader>>

\* A header is a record of the capture.
LEMMA HeadersAreRecords ==
  /\ Headers \in Seq(Record) /\ <<Torn>> \in Seq(Record) /\ <<>> \in Seq(Record)
<1>1. FileHeader \in Record /\ Torn \in Record
  BY SMT DEF FileHeader, Torn, Record
<1> QED  BY <1>1 DEF Headers

\* What a flush may come to, told apart.
LEMMA FlushOutcomes ==
  ASSUME Shape, NEW o \in PcapFlush
  PROVE  /\ o.cached \in Seq(Record) /\ o.file \in Seq(Record) /\ o.ok \in BOOLEAN
         /\ \/ o.cached = <<>> /\ o.file = Written
            \/ ~o.ok /\ o.cached = cached /\ o.file \in {file, <<Torn>>}
<1>1. Written \in Seq(Record)
  BY ConcatProperties DEF Written, Shape
<1>2. CASE offset = 0
  <2>1. o = [ok |-> FALSE, cached |-> cached, offset |-> 0, file |-> file]
    BY <1>2 DEF PcapFlush
  <2> QED  BY <2>1 DEF Shape
<1>3. CASE offset # 0
  <2>1. \/ o = [ok |-> FALSE, cached |-> cached, offset |-> offset, file |-> <<Torn>>]
        \/ o \in [ok : BOOLEAN, cached : {<<>>}, offset : {0}, file : {Written}]
    BY <1>3 DEF PcapFlush
  <2>2. CASE o = [ok |-> FALSE, cached |-> cached, offset |-> offset, file |-> <<Torn>>]
    BY <2>2, HeadersAreRecords DEF Shape
  <2>3. CASE o \in [ok : BOOLEAN, cached : {<<>>}, offset : {0}, file : {Written}]
    BY <2>3, <1>1, HeadersAreRecords
  <2> QED  BY <2>1, <2>2, <2>3
<1> QED  BY <1>2, <1>3

\* An element appended to the second of two sequences comes last.
LEMMA AppendedLast ==
  ASSUME NEW S, NEW f \in Seq(S), NEW c \in Seq(S), NEW e \in S
  PROVE  f \o Append(c, e) = Append(f \o c, e)
<1> DEFINE z == <<e>>
           fc == f \o c
<1>1. z \in Seq(S)
  OBVIOUS
<1>2. fc \in Seq(S)
  BY ConcatProperties
<1>3. Append(c, e) = c \o z
  BY AppendIsConcat
<1> HIDE DEF z
<1>4. (f \o c) \o z = f \o (c \o z)
  BY <1>1, ConcatAssociative
<1> HIDE DEF fc
<1>5. Append(fc, e) = fc \o z
  BY <1>2, AppendIsConcat DEF z
<1> QED  BY <1>3, <1>4, <1>5, Zenon DEF fc

\* A packet that is stored comes last.
LEMMA StoredLast ==
  ASSUME Shape, NEW f \in Seq(Record), NEW c \in Seq(Record), NEW packet \in Record
  PROVE  f \o c = Headers \o accepted => f \o Append(c, packet) = Headers \o Append(accepted, packet)
<1>1. accepted \in Seq(Record)
  BY DEF Shape
<1>2. f \o Append(c, packet) = Append(f \o c, packet)
  BY AppendedLast
<1>3. Headers \o Append(accepted, packet) = Append(Headers \o accepted, packet)
  BY <1>1, HeadersAreRecords, AppendedLast
<1> QED  BY <1>2, <1>3, Zenon

\* pcap_add
LEMMA AddPreserves ==
  ASSUME Shape, PacketsInOrder, NEW length \in Lengths, Add(length)
  PROVE  Shape' /\ PacketsInOrder'
<1> DEFINE packet == [id |-> Len(accepted), len |-> length]
<1>1. /\ packet \in Record /\ state = "open" /\ state' = "open"
  <2>1. length \in Int
    BY PcapAssumption, SMT
  <2>2. Len(accepted) \in Int
    BY LenProperties, SMT DEF Shape
  <2> QED  BY <2>1, <2>2 DEF Add, Record
<1> HIDE DEF packet
<1>2. ASSUME NEW f \in Seq(Record), NEW c \in Seq(Record), f # <<Torn>> => f \o c = Headers \o accepted,
             cached' = Append(c, packet), file' = f, accepted' = Append(accepted, packet)
      PROVE  Shape' /\ PacketsInOrder'
  <2>1. Shape'
    BY <1>1, <1>2, AppendProperties DEF Shape
  <2>2. file' # <<Torn>> => file' \o cached' = Headers \o accepted'
    BY <1>1, <1>2, StoredLast
  <2> QED  BY <1>1, <2>1, <2>2 DEF PacketsInOrder, Headers
<1>3. file # <<Torn>> => file \o cached = Headers \o accepted
  BY <1>1 DEF PacketsInOrder, Headers
<1>4. ASSUME Store(packet, [cached |-> cached, offset |-> offset, file |-> file])
      PROVE  Shape' /\ PacketsInOrder'
  <2>1. cached' = Append(cached, packet) /\ file' = file /\ accepted' = Append(accepted, packet)
    BY <1>4 DEF Store
  <2> QED  BY <1>2, <1>3, <2>1 DEF Shape
<1>5. ASSUME NEW o \in PcapFlush, o.ok, Store(packet, o)
      PROVE  Shape' /\ PacketsInOrder'
  <2>1. cached' = Append(o.cached, packet) /\ file' = o.file /\ accepted' = Append(accepted, packet)
    BY <1>5 DEF Store
  <2>2. o.cached = <<>> /\ o.file = Written /\ o.file \in Seq(Record) /\ o.cached \in Seq(Record)
    BY <1>5, FlushOutcomes
  <2>3. o.file # <<Torn>> => o.file \o o.cached = Headers \o accepted
    <3>1. o.file \o <<>> = o.file
      BY <2>2, ConcatEmptySeq
    <3>2. o.file # <<Torn>> => file # <<Torn>> /\ o.file = file \o cached
      BY <2>2 DEF Written
    <3> QED  BY <3>1, <3>2, <2>2, <1>3
  <2> QED  BY <1>2, <2>1, <2>2, <2>3
<1>6. ASSUME NEW o \in PcapFlush, ~o.ok, cached' = o.cached, file' = o.file, accepted' = accepted
      PROVE  Shape' /\ PacketsInOrder'
  <2>1. Shape'
    BY <1>1, <1>6, FlushOutcomes DEF Shape
  <2>2. file' # <<Torn>> => file' \o cached' = Headers \o accepted'
    <3>1. CASE o.cached = <<>> /\ o.file = Written
      <4>1. o.file \in Seq(Record) /\ o.file \o <<>> = o.file
        BY FlushOutcomes, ConcatEmptySeq
      <4>2. o.file # <<Torn>> => file # <<Torn>> /\ o.file = file \o cached
        BY <3>1 DEF Written
      <4> QED  BY <3>1, <4>1, <4>2, <1>3, <1>6
    <3>2. CASE o.cached = cached /\ o.file \in {file, <<Torn>>}
      BY <3>2, <1>3, <1>6
    <3> QED  BY <3>1, <3>2, FlushOutcomes
  <2> QED  BY <1>1, <2>1, <2>2 DEF PacketsInOrder, Headers
<1> QED  BY <1>4, <1>5, <1>6 DEF Add, packet

\* Closing the capture keeps what was captured.
LEMMA StopPreserves ==
  ASSUME Shape, PacketsInOrder, Stop
  PROVE  Shape' /\ PacketsInOrder'
<1>1. PICK o \in PcapFlush, closed \in BOOLEAN :
        state' = (IF o.ok /\ closed THEN "done" ELSE "failed") /\ file' = o.file
  BY DEF Stop
<1>2. /\ cached' = <<>> /\ accepted' = accepted /\ state = "open" /\ state' \in {"done", "failed"}
  BY <1>1 DEF Stop
<1>3. Shape'
  BY <1>1, <1>2, FlushOutcomes, HeadersAreRecords DEF Shape
<1>4. ASSUME file' # <<Torn>>, state' = "done" PROVE file' = Headers \o accepted'
  <2>1. o.ok
    BY <1>1, <1>4
  <2>2. file' = Written
    BY <1>1, <2>1, FlushOutcomes
  <2>3. file # <<Torn>> /\ file' = file \o cached
    BY <1>4, <2>2 DEF Written
  <2> QED  BY <1>2, <2>3 DEF PacketsInOrder, Headers
<1> QED  BY <1>2, <1>3, <1>4 DEF PacketsInOrder, Headers

\* Every step keeps the packets in order.
LEMMA OrderPreserved ==
  ASSUME Shape, PacketsInOrder, [PcapNext]_pcapVars
  PROVE  Shape' /\ PacketsInOrder'
<1>1. CASE Start
  <2>1. /\ state = "none" /\ cached = <<>> /\ accepted = <<>> /\ cached' = <<>> /\ accepted' = <<>>
        /\ \/ state' = "open" /\ file' = Headers
           \/ state' = "failed" /\ file' = <<Torn>>
    BY <1>1 DEF Start, Shape, Headers
  <2>2. Shape'
    BY <2>1, HeadersAreRecords DEF Shape
  <2>3. Headers \o <<>> = Headers
    BY HeadersAreRecords, ConcatEmptySeq
  <2> QED  BY <2>1, <2>2, <2>3 DEF PacketsInOrder, Headers
<1>2. CASE Stop
  BY <1>2, StopPreserves
<1>3. ASSUME NEW length \in Lengths, Add(length) PROVE Shape' /\ PacketsInOrder'
  BY <1>3, AddPreserves
<1>4. CASE UNCHANGED pcapVars
  BY <1>4 DEF pcapVars, Shape, PacketsInOrder
<1> QED  BY <1>1, <1>2, <1>3, <1>4 DEF PcapNext

\* Unless a write failed half way, the file and the cache hold the header and then each
\* accepted packet once and in order, through every flush that fails before it writes or
\* after it has written all.
THEOREM CaptureInOrder == PcapSpec => []PacketsInOrder
<1>1. PcapInit => Shape /\ PacketsInOrder
  BY HeadersAreRecords DEF PcapInit, Shape, PacketsInOrder
<1> QED  BY <1>1, OrderPreserved, PTL DEF PcapSpec

-----------------------------------------------------------------------------
(* The bytes in the cache *)

Fits == offset \in 0..CacheSize

\* The copy of a record never ends beyond the cache, as long as every packet fits an empty
\* one: PcapAssumption, which pcap_add leaves to its callers.
THEOREM CacheNotOverrun == PcapSpec => []Fits
<1>1. PcapInit => Fits
  BY PcapAssumption, SMT DEF PcapInit, Fits
<1>2. Fits /\ [PcapNext]_pcapVars => Fits'
  <2> SUFFICES ASSUME Fits, [PcapNext]_pcapVars PROVE Fits'
    OBVIOUS
  <2>1. ASSUME NEW length \in Lengths, Add(length) PROVE Fits'
    <3>1. length \in Nat /\ RecordHeader + length <= CacheSize /\ CacheSize \in Nat /\ offset \in Nat
      BY PcapAssumption, SMT DEF Fits
    <3>2. CASE offset + RecordHeader + length <= CacheSize
      <4>1. ~(offset + RecordHeader + length > CacheSize)
        BY <3>1, <3>2, SMT DEF RecordHeader
      <4>2. Store([id |-> Len(accepted), len |-> length],
                  [cached |-> cached, offset |-> offset, file |-> file])
        BY <2>1, <4>1, Zenon DEF Add
      <4>3. offset' = offset + RecordHeader + length
        BY <4>2 DEF Store
      <4> QED  BY <3>1, <3>2, <4>3, SMT DEF Fits, RecordHeader
    <3>3. CASE offset + RecordHeader + length > CacheSize
      <4>1. ~(offset + RecordHeader + length <= CacheSize)
        BY <3>1, <3>3, SMT DEF RecordHeader
      <4>2. PICK o \in PcapFlush : \/ o.ok /\ Store([id |-> Len(accepted), len |-> length], o)
                                   \/ ~o.ok /\ offset' = o.offset
        BY <2>1, <4>1, Zenon DEF Add
      <4>3. \/ o.ok /\ offset' = o.offset + RecordHeader + length
            \/ ~o.ok /\ offset' = o.offset
        BY <4>2 DEF Store
      <4>4. o.offset \in {0, offset} /\ (o.ok => o.offset = 0)
        BY DEF PcapFlush
      <4> QED  BY <3>1, <4>3, <4>4, SMT DEF Fits, RecordHeader
    <3> QED  BY <3>1, <3>2, <3>3, SMT DEF RecordHeader
  <2>2. CASE Start
    BY <2>2 DEF Start, Fits
  <2>3. CASE Stop
    BY <2>3, PcapAssumption, SMT DEF Stop, Fits
  <2>4. CASE UNCHANGED pcapVars
    BY <2>4 DEF pcapVars, Fits
  <2> QED  BY <2>1, <2>2, <2>3, <2>4 DEF PcapNext
<1> QED  BY <1>1, <1>2, PTL DEF PcapSpec

-----------------------------------------------------------------------------
(* The singly linked list *)

\* The nodes of the list are different, and they are chained in its order.
SListInv ==
  /\ next \in [SNodes -> SNodes \cup {Null}]
  /\ ChainOf(SNodes, next, head, chain)

\* A search from a node of the list visits it and those after it.
LEMMA VisitedFrom ==
  ASSUME SListInv
  PROVE  /\ Visited(head) = chain
         /\ \A i \in 1..Len(chain) : Visited(chain[i]) = SubSeq(chain, i, Len(chain))
<1>1. Cardinality(SNodes) \in Nat /\ Len(chain) <= Cardinality(SNodes) /\ Len(chain) \in Nat
  BY SNodesAssumption, FS_CardinalityType, ChainFits DEF SListInv, ChainOf, Distinct
<1>2. Visited(head) = chain
  BY <1>1, WalkVisits DEF SListInv, ChainOf, Visited
<1>3. ASSUME NEW i \in 1..Len(chain) PROVE Visited(chain[i]) = SubSeq(chain, i, Len(chain))
  <2> DEFINE d == SubSeq(chain, i, Len(chain))
  <2>1. d \in Seq(SNodes) /\ Len(d) = Len(chain) - i + 1 /\ Chained(next, chain[i], d)
    BY ChainFrom DEF SListInv, ChainOf
  <2> HIDE DEF d
  <2>2. Len(d) <= Cardinality(SNodes)
    BY <1>1, <2>1, SMT
  <2>3. Visited(chain[i]) = d
    BY <1>1, <2>1, <2>2, WalkVisits DEF Visited
  <2> QED  BY <2>3 DEF d
<1> QED  BY <1>2, <1>3

\* What the calls start from, by nodes.
LEMMA SListNow ==
  ASSUME SListInv
  PROVE  /\ Null \notin SNodes /\ next \in [SNodes -> SNodes \cup {Null}]
         /\ chain \in Seq(SNodes) /\ ItemsChained(SNodes, next, head, chain)
         /\ Len(chain) \in Nat /\ head = Item(chain, 1) /\ head \in SNodes \cup {Null}
         /\ \A i \in Nat : Item(chain, i) \in SNodes \cup {Null} /\ (Item(chain, i) # Null <=> i \in 1..Len(chain))
         /\ \A i \in 1..Len(chain) : i \in Nat /\ chain[i] \in SNodes /\ chain[i] = Item(chain, i)
         /\ \A n \in SNodes : n \in Range(chain) <=> \E i \in Nat : Item(chain, i) = n
<1>1. ItemsChained(SNodes, next, head, chain)
  BY SNodesAssumption, ChainOfItems DEF SListInv
<1>2. chain \in Seq(SNodes) /\ Null \notin SNodes /\ next \in [SNodes -> SNodes \cup {Null}]
  BY SNodesAssumption DEF SListInv, ChainOf
<1>3. head = Item(chain, 1) /\ head \in SNodes \cup {Null}
  BY <1>1, <1>2, ItemsOf DEF ItemsChained
<1> QED  BY <1>1, <1>2, <1>3, ItemsOf, RangeItems

\* A node linked in after the i-th of the list.
LEMMA SListPut ==
  ASSUME SListInv, NEW i \in 0..Len(chain), NEW n \in SNodes, n \notin Range(chain),
         chain' \in Seq(SNodes),
         PutAfter(chain, i, n, chain'),
         head' = IF i = 0 THEN n ELSE head,
         next' = [[next EXCEPT ![Item(chain, i)] = n] EXCEPT ![n] = Item(chain, i + 1)]
  PROVE  SListInv'
<1>1. /\ i \in Nat /\ i + 1 \in Nat /\ (i # 0 => Item(chain, i) \in SNodes)
      /\ \A m \in Nat : Item(chain, m) # n
  BY SListNow, SMT
<1>2. next' \in [SNodes -> SNodes \cup {Null}]
  BY <1>1, SListNow
<1>3. next'[n] = Item(chain, i + 1) /\ (i # 0 => next'[Item(chain, i)] = n)
  BY <1>1, SListNow
<1>4. ASSUME NEW m \in Nat, Item(chain, m) # Null, m # i PROVE next'[Item(chain, m)] = next[Item(chain, m)]
  <2>1. Item(chain, m) \in SNodes /\ Item(chain, m) # n /\ Item(chain, m) # Item(chain, i)
    BY <1>1, <1>4, SListNow DEF ItemsChained
  <2> QED  BY <2>1, SListNow
<1>5. LinkedIn(next, head, chain, i, n, next', head')
  BY <1>3, <1>4 DEF LinkedIn
<1>6. ItemsChained(SNodes, next', head', chain')
  BY <1>1, <1>5, SListNow, ChainPut
<1> QED  BY <1>2, <1>6, SListNow, ChainOfItems DEF SListInv

\* The i-th node unlinked.
LEMMA SListCut ==
  ASSUME SListInv, NEW i \in 1..Len(chain),
         chain' \in Seq(SNodes),
         CutAt(chain, i, chain'),
         head' = IF i = 1 THEN Item(chain, 2) ELSE head,
         next' = IF i = 1 THEN next ELSE [next EXCEPT ![Item(chain, i - 1)] = Item(chain, i + 1)]
  PROVE  SListInv'
<1>1. i - 1 \in Nat /\ i + 1 \in Nat /\ (i # 1 => Item(chain, i - 1) \in SNodes)
  <2>1. i - 1 \in Nat /\ i + 1 \in Nat /\ (i # 1 => i - 1 \in 1..Len(chain))
    BY SListNow, SMT
  <2> QED  BY <2>1, SListNow
<1>2. next' \in [SNodes -> SNodes \cup {Null}]
  BY <1>1, SListNow
<1>3. i # 1 => next'[Item(chain, i - 1)] = Item(chain, i + 1)
  BY <1>1, SListNow
<1>4. ASSUME NEW m \in Nat, Item(chain, m) # Null, m # i - 1
      PROVE  next'[Item(chain, m)] = next[Item(chain, m)]
  <2>1. Item(chain, m) \in SNodes /\ Item(chain, m) # Item(chain, i - 1)
    BY <1>1, <1>4, SListNow DEF ItemsChained
  <2> QED  BY <2>1, SListNow
<1>5. LinkedOut(next, head, chain, i, next', head')
  BY <1>3, <1>4 DEF LinkedOut
<1>6. ItemsChained(SNodes, next', head', chain')
  BY <1>5, SListNow, ChainCut
<1> QED  BY <1>2, <1>6, SListNow, ChainOfItems DEF SListInv

\* A node put at the front of the list.
LEMMA SListPrepend ==
  ASSUME SListInv, NEW n \in SNodes, n \notin Range(chain), chain' = <<n>> \o chain,
         next' = [next EXCEPT ![n] = head], head' = n
  PROVE  SListInv'
<1>1. 0 \in 0..Len(chain) /\ 0 + 1 = 1 /\ Item(chain, 0) = Null
  BY SListNow, SMT
<1>2. /\ chain' \in Seq(SNodes)
      /\ \A m \in Nat : Item(chain', m) = IF m = 1 THEN n ELSE Item(chain, m - 1)
  BY SListNow, PrependItems
<1>3. PutAfter(chain, 0, n, chain')
  <2> SUFFICES ASSUME NEW m \in Nat
               PROVE  Item(chain', m) = IF m <= 0 THEN Item(chain, m)
                                        ELSE IF m = 0 + 1 THEN n ELSE Item(chain, m - 1)
    BY DEF PutAfter
  <2>1. CASE m <= 0
    <3>1. m = 0 /\ m - 1 \notin 1..Len(chain) /\ m # 1
      BY <2>1, SListNow, SMT
    <3> QED  BY <1>1, <1>2, <2>1, <3>1 DEF Item
  <2>2. CASE ~(m <= 0)
    BY <1>1, <1>2, <2>2
  <2> QED  BY <2>1, <2>2
<1>4. next' = [[next EXCEPT ![Item(chain, 0)] = n] EXCEPT ![n] = Item(chain, 0 + 1)]
  BY <1>1, SListNow
<1> QED  BY <1>1, <1>2, <1>3, <1>4, SListPut

\* The head unlinked.
LEMMA SListTake ==
  ASSUME SListInv, SListPopLeft
  PROVE  SListInv'
<1>1. Len(chain) # 0 /\ 1 \in 1..Len(chain) /\ 1 + 1 = 2 /\ 1 \in Nat
  BY SListNow, SMT DEF SListPopLeft
<1>2. /\ chain' \in Seq(SNodes)
      /\ \A m \in Nat : Item(chain', m) = IF m = 0 THEN Null ELSE Item(chain, m + 1)
  BY <1>1, SListNow, TailItems DEF SListPopLeft
<1>3. CutAt(chain, 1, chain')
  <2> SUFFICES ASSUME NEW m \in Nat PROVE Item(chain', m) = Item(chain, IF m < 1 THEN m ELSE m + 1)
    BY DEF CutAt
  <2>1. (m < 1 <=> m = 0) /\ 0 \notin 1..Len(chain)
    BY SListNow, SMT
  <2> QED  BY <1>2, <2>1, Zenon DEF Item
<1>4. head' = Item(chain, 2)
  BY <1>1, SListNow DEF ItemsChained, SListPopLeft
<1> QED  BY <1>1, <1>2, <1>3, <1>4, SListCut DEF SListPopLeft
\* Wherever a search starts, it ends at the last node, and the one before it is the last but
\* one; only an empty list has nowhere to start.
LEMMA SearchFrom ==
  ASSUME SListInv, NEW after \in Hint
  PROVE  LET v == Visited(From(after))
         IN /\ From(after) = Null <=> Len(chain) = 0
            /\ Len(chain) # 0 => v # <<>> /\ Last(v) = Item(chain, Len(chain))
            /\ Len(chain) # 0 /\ Len(v) > 1 => /\ Len(chain) > 1
                                              /\ v[Len(v) - 1] = Item(chain, Len(chain) - 1)
<1>1. after # Null => after \in SNodes /\ after \in Range(chain)
  BY SListNow, RangeItems DEF Hint, Range
<1>2. CASE Len(chain) = 0
  <2>1. \A i \in Nat : i \notin 1..Len(chain)
    BY <1>2, SMT
  <2>2. \A i \in Nat : Item(chain, i) = Null
    BY <2>1, SListNow
  <2> QED  BY <1>1, <1>2, <2>2, SListNow DEF From
<1>3. CASE Len(chain) # 0
  <2>1. 1 \in 1..Len(chain) /\ 1 \in Nat /\ Len(chain) \in 1..Len(chain)
    BY <1>3, SListNow, SMT
  <2>2. PICK i \in 1..Len(chain) : From(after) = chain[i]
    <3>1. CASE after = Null
      BY <2>1, <3>1, SListNow DEF From
    <3>2. CASE after # Null
      BY <1>1, <3>2, SListNow DEF From
    <3> QED  BY <3>1, <3>2
  <2> DEFINE v == SubSeq(chain, i, Len(chain))
  <2>3. Visited(From(after)) = v
    BY <2>2, VisitedFrom
  <2>4. v \in Seq(SNodes) /\ Len(v) = Len(chain) - i + 1 /\ \A n \in 1..Len(v) : v[n] = chain[n + i - 1]
    BY SListNow, SMT
  <2> HIDE DEF v
  <2>5. Len(v) \in 1..Len(v) /\ Len(v) + i - 1 = Len(chain)
    BY <2>4, SListNow, SMT
  <2>6. v # <<>> /\ Last(v) = Item(chain, Len(chain))
    BY <2>1, <2>4, <2>5, SListNow DEF Last
  <2>7. ASSUME Len(v) > 1 PROVE Len(chain) > 1 /\ v[Len(v) - 1] = Item(chain, Len(chain) - 1)
    <3>1. /\ Len(v) - 1 \in 1..Len(v) /\ (Len(v) - 1) + i - 1 = Len(chain) - 1
          /\ Len(chain) - 1 \in 1..Len(chain) /\ Len(chain) > 1
      BY <2>4, <2>7, SListNow, SMT
    <3> QED  BY <2>4, <3>1, SListNow
  <2> QED  BY <1>3, <2>1, <2>2, <2>3, <2>6, <2>7, SListNow
<1> QED  BY <1>2, <1>3

\* slist_append links the node behind the last one, found from the hint or from the head.
LEMMA SListAppendPreserves ==
  ASSUME SListInv, NEW after \in Hint, NEW n \in SNodes, SListAppend(after, n)
  PROVE  SListInv'
<1> DEFINE L == Len(chain)
<1>1. /\ chain' \in Seq(SNodes) /\ n \notin Range(chain)
      /\ \A m \in Nat : Item(chain', m) = IF m = L + 1 THEN n ELSE Item(chain, m)
  BY SListNow, AppendItems DEF SListAppend
<1>2. /\ L \in 0..L /\ L + 1 \in Nat /\ Item(chain, L + 1) = Null
      /\ \A m \in Nat : ~(m <= L) /\ m # L + 1 => m \notin 1..L /\ m - 1 \notin 1..L
      /\ \A m \in Nat : m <= L => m # L + 1
  BY SListNow, SMT
<1>3. PutAfter(chain, L, n, chain')
  BY <1>1, <1>2, Zenon DEF PutAfter, Item
<1>4. CASE L = 0
  <2>1. head' = n /\ next' = [next EXCEPT ![n] = Null] /\ Item(chain, 0) = Null
    BY <1>4, SearchFrom, SMT DEF SListAppend, Item
  <2>2. next' = [[next EXCEPT ![Item(chain, L)] = n] EXCEPT ![n] = Item(chain, L + 1)]
    <3>1. [next EXCEPT ![Null] = n] = next
      BY SListNow
    <3> QED  BY <1>2, <1>4, <2>1, <3>1, Zenon
  <2> QED  BY <1>1, <1>2, <1>3, <1>4, <2>1, <2>2, SListPut
<1>5. CASE L # 0
  <2>1. /\ next' = [next EXCEPT ![Item(chain, L)] = n, ![n] = Item(chain, L + 1)]
        /\ head' = head
    BY <1>2, <1>5, SearchFrom DEF SListAppend
  <2> QED  BY <1>1, <1>2, <1>3, <1>5, <2>1, SListPut
<1> QED  BY <1>4, <1>5

\* slist_pop takes the last node off, and the head with it if it is the only one.
LEMMA SListPopPreserves ==
  ASSUME SListInv, NEW after \in Hint, SListPop(after)
  PROVE  SListInv'
<1> DEFINE L == Len(chain)
<1>1. L # 0 /\ L \in 1..L /\ 1 \in 1..L /\ 1 \in Nat /\ L + 1 \in Nat /\ 1 + 1 = 2
      /\ L + 1 \notin 1..L /\ (2 \in 1..L <=> L # 1) /\ 2 \in Nat
  <2>1. L # 0
    BY SearchFrom, SListNow DEF SListPop, Hint, From, Item
  <2>2. L \in Nat
    BY SListNow
  <2> HIDE DEF L
  <2> QED  BY <2>1, <2>2, SMT
<1>2. /\ chain' \in Seq(SNodes)
      /\ \A m \in Nat : Item(chain', m) = IF m = L THEN Null ELSE Item(chain, m)
  BY <1>1, SListNow, FrontItems DEF SListPop
<1>3. CutAt(chain, L, chain')
  <2>1. \A m \in Nat : ~(m < L) => m + 1 \notin 1..L /\ (m # L => m \notin 1..L)
    BY SListNow, SMT
  <2>2. \A m \in Nat : m < L => m # L
    BY SListNow, SMT
  <2> QED  BY <1>2, <2>1, <2>2, Zenon DEF CutAt, Item
<1>4. next[head] = Item(chain, 2)
  BY <1>1, SListNow DEF ItemsChained
<1>5. CASE L = 1
  <2>1. Item(chain, 2) = Null
    BY <1>1, <1>5, SListNow
  <2>2. head' = Null /\ next' = next
    BY <1>4, <2>1 DEF SListPop
  <2> QED  BY <1>1, <1>2, <1>3, <1>5, <2>1, <2>2, SListCut
<1>6. CASE L # 1
  <2>1. next[head] # Null /\ Item(chain, L + 1) = Null
    BY <1>1, <1>4, <1>6, SListNow
  <2>2. next' = [next EXCEPT ![Item(chain, L - 1)] = Item(chain, L + 1)] /\ head' = head
    BY <1>1, <2>1, SearchFrom DEF SListPop
  <2> QED  BY <1>1, <1>2, <1>3, <1>6, <2>2, SListCut
<1> QED  BY <1>5, <1>6

\* slist_remove links the node before the one it takes to the one after it.
LEMMA SListRemovePreserves ==
  ASSUME SListInv, NEW n \in SNodes, SListRemove(n)
  PROVE  SListInv'
<1> DEFINE at == CHOOSE i \in DOMAIN chain : chain[i] = n
<1>1. Visited(head) = chain /\ DOMAIN chain = 1..Len(chain)
  BY VisitedFrom, SListNow
<1>2. PICK i \in 1..Len(chain) : chain[i] = n /\ chain' = RemoveAt(chain, i)
  BY <1>1 DEF SListRemove
<1>3. at = i
  <2>1. \A k \in 1..Len(chain) : chain[k] = n => k = i
    BY <1>2, SListNow DEF ItemsChained
  <2> QED  BY <1>1, <1>2, <2>1
<1>4. /\ IF at = 1 THEN head' = next[n] /\ UNCHANGED next
         ELSE next' = [next EXCEPT ![chain[at - 1]] = next[n]] /\ UNCHANGED head
  BY <1>1 DEF SListRemove
<1> HIDE DEF at
<1>5. next[n] = Item(chain, i + 1) /\ 1 + 1 = 2
  BY <1>2, SListNow DEF ItemsChained
<1>6. i # 1 => i - 1 \in 1..Len(chain)
  BY SMT
<1>7. /\ head' = IF i = 1 THEN Item(chain, 2) ELSE head
      /\ next' = IF i = 1 THEN next ELSE [next EXCEPT ![Item(chain, i - 1)] = Item(chain, i + 1)]
  BY <1>3, <1>4, <1>5, <1>6, SListNow
<1>8. chain' \in Seq(SNodes) /\ CutAt(chain, i, chain')
  BY <1>2, SListNow, RemoveItems DEF CutAt
<1> QED  BY <1>7, <1>8, SListCut

\* slist_insert puts the node behind the one it is given, or at the head.
LEMMA SListInsertPreserves ==
  ASSUME SListInv, NEW after \in Hint, NEW n \in SNodes, SListInsert(after, n)
  PROVE  SListInv'
<1>1. CASE after = Null
  BY <1>1, SListPrepend DEF SListInsert
<1>2. CASE after # Null
  <2>1. /\ next' = [next EXCEPT ![n] = next[after], ![after] = n] /\ head' = head
        /\ n \notin Range(chain)
    BY <1>2 DEF SListInsert
  <2>2. PICK i \in 1..Len(chain) : chain[i] = after /\ chain' = InsertAt(chain, i + 1, n)
    <3>1. DOMAIN chain = 1..Len(chain)
      BY SListNow
    <3> QED  BY <1>2, <3>1 DEF SListInsert
  <2>3. i \in 0..Len(chain) /\ i # 0
    BY SListNow, SMT
  <2>4. chain' \in Seq(SNodes) /\ PutAfter(chain, i, n, chain')
    BY <2>2, <2>3, SListNow, InsertItems DEF PutAfter
  <2>5. after = Item(chain, i) /\ after # n /\ after \in SNodes /\ next[after] = Item(chain, i + 1)
    BY <2>1, <2>2, SListNow DEF ItemsChained
  <2>6. next' = [[next EXCEPT ![Item(chain, i)] = n] EXCEPT ![n] = Item(chain, i + 1)]
    BY <2>1, <2>5, SListNow
  <2> QED  BY <2>1, <2>3, <2>4, <2>6, SListPut
<1> QED  BY <1>1, <1>2

\* The pointers of a singly linked list always chain its nodes, in the order of the calls.
LEMMA SListInvHolds == SListSpec => []SListInv
<1>1. ASSUME SListInit PROVE SListInv
  <2>1. chain = <<>> /\ head = Null /\ next = [n \in SNodes |-> Null]
    BY <1>1 DEF SListInit
  <2>2. chain \in Seq(SNodes) /\ Len(chain) = 0 /\ \A i \in Nat : i \notin 1..Len(chain)
    BY <2>1, SMT
  <2>3. Distinct(chain) /\ Chained(next, head, chain)
    BY <2>1, <2>2, SMT DEF Distinct, Chained, Item
  <2> QED  BY <2>1, <2>2, <2>3 DEF SListInv, ChainOf
<1>2. ASSUME SListInv, SListNext PROVE SListInv'
  <2>1. ASSUME SListPopLeft PROVE SListInv'
    BY <1>2, <2>1, SListTake
  <2>2. ASSUME NEW n \in SNodes, SListAppendLeft(n) PROVE SListInv'
    BY <1>2, <2>2, SListPrepend DEF SListAppendLeft
  <2>3. ASSUME NEW n \in SNodes, SListRemove(n) PROVE SListInv'
    BY <1>2, <2>3, SListRemovePreserves
  <2>4. ASSUME NEW n \in SNodes, NEW after \in Hint, SListAppend(after, n) PROVE SListInv'
    BY <1>2, <2>4, SListAppendPreserves
  <2>5. ASSUME NEW n \in SNodes, NEW after \in Hint, SListInsert(after, n) PROVE SListInv'
    BY <1>2, <2>5, SListInsertPreserves
  <2>6. ASSUME NEW after \in Hint, SListPop(after) PROVE SListInv'
    BY <1>2, <2>6, SListPopPreserves
  <2> QED  BY <1>2, <2>1, <2>2, <2>3, <2>4, <2>5, <2>6 DEF SListNext, StackPop, StackPush
<1>3. ASSUME SListInv, UNCHANGED slistVars PROVE SListInv'
  BY <1>3 DEF SListInv, slistVars
<1> QED  BY <1>1, <1>2, <1>3, PTL DEF SListSpec

\* The pointers of a singly linked list always point to nodes.
THEOREM SListTypeCorrect == SListSpec => []SListTypeOK
<1>1. ASSUME SListInv PROVE SListTypeOK
  <2>1. Range(chain) \subseteq SNodes
    BY <1>1, SListNow DEF Range
  <2> QED  BY <1>1, <2>1, SListNow DEF SListTypeOK
<1> QED  BY <1>1, SListInvHolds, PTL

\* Whatever hints the calls of slist_append, slist_pop and slist_insert got, a walk from the
\* head meets the nodes in the order of the calls and stops after the last.
THEOREM ListLinked == SListSpec => []Linked
<1>1. ASSUME SListInv PROVE Linked
  <2>1. Visited(GetTop) = chain
    BY <1>1, VisitedFrom DEF GetTop
  <2>2. ASSUME chain # <<>> PROVE next[Last(chain)] = Null
    <3>1. Len(chain) \in 1..Len(chain) /\ Len(chain) + 1 \notin 1..Len(chain)
      BY <1>1, <2>2, SListNow, SMT
    <3> QED  BY <1>1, <3>1, SListNow DEF Last, ItemsChained, Item
  <2> QED  BY <2>1, <2>2 DEF Linked
<1> QED  BY <1>1, SListInvHolds, PTL
-----------------------------------------------------------------------------
(* The doubly linked list.  What the calls do to the pointers comes down to two *)
(* things: nodes i to j of a list are cut out of it, or the nodes of d are put  *)
(* in after its i-th.                                                           *)

MemType ==
  [prev : [Nodes -> Nodes \cup {Null}], next : [Nodes -> Nodes \cup {Null}],
   head : [Lists -> Nodes \cup {Null}], tail : [Lists -> Nodes \cup {Null}]]

\* List l, read either way, is s.
LinksOf(m, l, s) ==
  /\ m.head[l] = Item(s, 1) /\ m.tail[l] = Item(s, Len(s))
  /\ \A i \in Nat : Item(s, i) # Null => /\ m.prev[Item(s, i)] = Item(s, i - 1)
                                        /\ m.next[Item(s, i)] = Item(s, i + 1)

\* No node is in two places of the lists, nor both in a list and in the range taken out.
ListsApart(sq, lo) ==
  /\ \A l, k \in Lists : \A i, j \in Nat :
       Item(sq[l], i) # Null /\ Item(sq[l], i) = Item(sq[k], j) => l = k /\ i = j
  /\ \A l \in Lists : \A i, j \in Nat : Item(lo, i) # Null => Item(lo, i) # Item(sq[l], j)
  /\ \A i, j \in Nat : Item(lo, i) # Null /\ Item(lo, i) = Item(lo, j) => i = j

\* The nodes of a range are still linked to one another.
RangeLinked(m, d) ==
  \A i \in Nat : Item(d, i) # Null /\ Item(d, i + 1) # Null =>
                  m.next[Item(d, i)] = Item(d, i + 1) /\ m.prev[Item(d, i + 1)] = Item(d, i)

ListInv ==
  /\ mem \in MemType /\ seq \in [Lists -> Seq(Nodes)] /\ loose \in Seq(Nodes)
  /\ \A l \in Lists : LinksOf(mem, l, seq[l])
  /\ ListsApart(seq, loose)
  /\ RangeLinked(mem, loose)
\* What the calls start from, by nodes.
LEMMA ListNow ==
  ASSUME ListInv
  PROVE  /\ Null \notin Nodes /\ mem \in MemType
         /\ mem.prev \in [Nodes -> Nodes \cup {Null}] /\ mem.next \in [Nodes -> Nodes \cup {Null}]
         /\ mem.head \in [Lists -> Nodes \cup {Null}] /\ mem.tail \in [Lists -> Nodes \cup {Null}]
         /\ seq \in [Lists -> Seq(Nodes)] /\ loose \in Seq(Nodes)
         /\ \A l \in Lists : seq[l] \in Seq(Nodes) /\ Len(seq[l]) \in Nat
         /\ \A l \in Lists : \A i \in Nat :
              Item(seq[l], i) \in Nodes \cup {Null} /\ (Item(seq[l], i) # Null <=> i \in 1..Len(seq[l]))
         /\ \A l \in Lists : \A i \in 1..Len(seq[l]) :
              i \in Nat /\ seq[l][i] \in Nodes /\ seq[l][i] = Item(seq[l], i)
<1>1. /\ Null \notin Nodes /\ mem \in MemType /\ seq \in [Lists -> Seq(Nodes)] /\ loose \in Seq(Nodes)
      /\ \A l \in Lists : seq[l] \in Seq(Nodes)
  BY NodesAssumption DEF ListInv
<1>2. /\ mem.prev \in [Nodes -> Nodes \cup {Null}] /\ mem.next \in [Nodes -> Nodes \cup {Null}]
      /\ mem.head \in [Lists -> Nodes \cup {Null}] /\ mem.tail \in [Lists -> Nodes \cup {Null}]
  BY <1>1 DEF MemType
<1> QED  BY <1>1, <1>2, ItemsOf, Zenon

\* A node of another list, or at another place, is another node.
LEMMA ListApartNow ==
  ASSUME ListInv, NEW l \in Lists, NEW k \in Lists, NEW i \in Nat, NEW j \in Nat,
         Item(seq[l], i) # Null, l # k \/ i # j
  PROVE  Item(seq[l], i) # Item(seq[k], j)
BY DEF ListInv, ListsApart

\* The pointers of the nodes of a list that no call touched.
LEMMA LinksStay ==
  ASSUME NEW m, NEW m2, NEW l, NEW s, LinksOf(m, l, s),
         m2.head[l] = m.head[l], m2.tail[l] = m.tail[l],
         \A i \in Nat : Item(s, i) # Null => /\ m2.prev[Item(s, i)] = m.prev[Item(s, i)]
                                           /\ m2.next[Item(s, i)] = m.next[Item(s, i)]
  PROVE  LinksOf(m2, l, s)
BY DEF LinksOf

\* What the stores that cut nodes i to j out of list l do: the nodes at the ends of the rest,
\* where there are such nodes, get to point to one another.
CutLinks(m, m2, l, p, q) ==
  /\ m2.prev = IF q = Null THEN m.prev ELSE [m.prev EXCEPT ![q] = p]
  /\ m2.next = IF p = Null THEN m.next ELSE [m.next EXCEPT ![p] = q]
  /\ m2.head = IF p = Null THEN [m.head EXCEPT ![l] = q] ELSE m.head
  /\ m2.tail = IF q = Null THEN [m.tail EXCEPT ![l] = p] ELSE m.tail

\* t is s without its nodes from i to j.
CutOut(s, i, j, t) ==
  /\ t \in Seq(Nodes) /\ Len(t) = Len(s) - (j - i + 1)
  /\ \A n \in Nat : Item(t, n) = Item(s, IF n < i THEN n ELSE n + (j - i + 1))

\* A list without its nodes i to j is linked again, and the other lists stay linked.
LEMMA ListCutLinks ==
  ASSUME ListInv, NEW l \in Lists, NEW i \in 1..Len(seq[l]), NEW j \in i..Len(seq[l]),
         NEW t, CutOut(seq[l], i, j, t), mem' \in MemType,
         CutLinks(mem, mem', l, Item(seq[l], i - 1), Item(seq[l], j + 1))
  PROVE  /\ LinksOf(mem', l, t)
         /\ \A k \in Lists \ {l} : LinksOf(mem', k, seq[k])
         /\ \A n \in Nat : n \in i..j /\ n + 1 \in i..j =>
              /\ mem'.next[Item(seq[l], n)] = Item(seq[l], n + 1)
              /\ mem'.prev[Item(seq[l], n + 1)] = Item(seq[l], n)
         /\ \A x \in Nodes : (\A n \in Nat : Item(seq[l], n) # x) =>
              mem'.prev[x] = mem.prev[x] /\ mem'.next[x] = mem.next[x]
<1> DEFINE s == seq[l]
           p == Item(s, i - 1)
           q == Item(s, j + 1)
           w == j - i + 1
<1>1. /\ i \in Nat /\ j \in Nat /\ Len(s) \in Nat /\ 1 <= i /\ i <= j /\ j <= Len(s)
      /\ i - 1 \in Nat /\ j + 1 \in Nat /\ w \in Nat /\ w >= 1
  BY ListNow, SMT
<1>2. \A n \in Nat : Item(s, n) \in Nodes \cup {Null} /\ (Item(s, n) # Null <=> n \in 1..Len(s))
  BY ListNow
<1>3. \A n, r \in Nat : Item(s, n) # Null /\ Item(s, n) = Item(s, r) => n = r
  BY DEF ListInv, ListsApart
<1>4. \A x \in Nodes : /\ mem'.prev[x] = IF x = q THEN p ELSE mem.prev[x]
                       /\ mem'.next[x] = IF x = p THEN q ELSE mem.next[x]
  <2>1. /\ mem'.prev = IF q = Null THEN mem.prev ELSE [mem.prev EXCEPT ![q] = p]
        /\ mem'.next = IF p = Null THEN mem.next ELSE [mem.next EXCEPT ![p] = q]
    BY DEF CutLinks
  <2>2. p \in Nodes \cup {Null} /\ q \in Nodes \cup {Null}
    BY <1>1, <1>2
  <2> HIDE DEF p, q
  <2>3. ASSUME NEW x \in Nodes PROVE mem'.prev[x] = IF x = q THEN p ELSE mem.prev[x]
    BY <2>1, <2>2, ListNow
  <2>4. ASSUME NEW x \in Nodes PROVE mem'.next[x] = IF x = p THEN q ELSE mem.next[x]
    BY <2>1, <2>2, ListNow
  <2> QED  BY <2>3, <2>4
<1>5. /\ mem.head[l] = Item(s, 1) /\ mem.tail[l] = Item(s, Len(s))
      /\ \A n \in Nat : Item(s, n) # Null => /\ mem.prev[Item(s, n)] = Item(s, n - 1)
                                           /\ mem.next[Item(s, n)] = Item(s, n + 1)
  BY DEF ListInv, LinksOf
<1>6. mem'.head[l] = (IF p = Null THEN q ELSE Item(s, 1)) /\ mem'.tail[l] = IF q = Null THEN p ELSE Item(s, Len(s))
  BY <1>1, <1>2, <1>5, ListNow DEF CutLinks
<1>7. \A n \in Nat : Item(t, n) = Item(s, IF n < i THEN n ELSE n + w)
  BY DEF CutOut
<1>8. Len(t) = Len(s) - w
  BY DEF CutOut
<1> HIDE DEF p, q, w
<1>9. p = Item(s, i - 1) /\ q = Item(s, j + 1) /\ j + 1 = i + w
  BY <1>1, SMT DEF p, q, w
<1>10. ASSUME NEW n \in Nat, Item(t, n) # Null
       PROVE  mem'.prev[Item(t, n)] = Item(t, n - 1) /\ mem'.next[Item(t, n)] = Item(t, n + 1)
  <2>1. CASE n < i - 1
    <3>1. n < i /\ n + 1 < i /\ n - 1 < i /\ n + 1 \in Nat /\ n # i - 1 /\ n # j + 1
      BY <1>1, <2>1, SMT
    <3>2. Item(t, n) = Item(s, n) /\ Item(t, n + 1) = Item(s, n + 1) /\ n \in 1..Len(s)
      BY <1>2, <1>7, <1>10, <3>1
    <3>3. n - 1 \in Nat
      BY <3>2, SMT
    <3>4. Item(t, n - 1) = Item(s, n - 1)
      BY <1>7, <3>1, <3>3
    <3>5. Item(s, n) \in Nodes /\ Item(s, n) # p /\ Item(s, n) # q
      BY <1>1, <1>2, <1>3, <1>9, <3>1, <3>2
    <3> QED  BY <1>2, <1>4, <1>5, <3>2, <3>4, <3>5
  <2>2. CASE n = i - 1
    <3>1. n < i /\ ~(n + 1 < i) /\ n - 1 < i /\ n + 1 \in Nat /\ n + 1 + w = j + 1 /\ n # j + 1
      BY <1>1, <1>9, <2>2, SMT
    <3>2. Item(t, n) = Item(s, n) /\ Item(t, n + 1) = Item(s, j + 1) /\ n \in 1..Len(s)
      BY <1>2, <1>7, <1>10, <3>1
    <3>3. n - 1 \in Nat
      BY <3>2, SMT
    <3>4. Item(t, n - 1) = Item(s, n - 1)
      BY <1>7, <3>1, <3>3
    <3>5. Item(s, n) \in Nodes /\ Item(s, n) = p /\ Item(s, n) # q
      BY <1>1, <1>2, <1>3, <1>9, <2>2, <3>1, <3>2
    <3> QED  BY <1>2, <1>4, <1>5, <1>9, <3>2, <3>4, <3>5
  <2>3. CASE n = i
    <3>1. /\ ~(n < i) /\ ~(n + 1 < i) /\ n - 1 < i /\ n + 1 \in Nat /\ n - 1 \in Nat
          /\ n + w = j + 1 /\ (n + 1) + w = (j + 1) + 1 /\ j + 1 # i - 1
      BY <1>1, <1>9, <2>3, SMT
    <3>2. Item(t, n) = q /\ Item(t, n + 1) = Item(s, (j + 1) + 1) /\ Item(t, n - 1) = p
      BY <1>7, <1>9, <2>3, <3>1
    <3>3. q \in Nodes /\ q # p
      BY <1>1, <1>2, <1>3, <1>9, <1>10, <3>1, <3>2
    <3> QED  BY <1>1, <1>4, <1>5, <1>9, <1>10, <3>2, <3>3
  <2>4. CASE n > i
    <3>1. /\ ~(n < i) /\ ~(n + 1 < i) /\ ~(n - 1 < i) /\ n + 1 \in Nat /\ n - 1 \in Nat
          /\ n + w \in Nat /\ (n + 1) + w = (n + w) + 1 /\ (n - 1) + w = (n + w) - 1
          /\ n + w # i - 1 /\ n + w # j + 1
      BY <1>1, <1>9, <2>4, SMT
    <3>2. /\ Item(t, n) = Item(s, n + w) /\ Item(t, n + 1) = Item(s, (n + w) + 1)
          /\ Item(t, n - 1) = Item(s, (n + w) - 1)
      BY <1>7, <3>1
    <3>3. Item(s, n + w) \in Nodes /\ Item(s, n + w) # p /\ Item(s, n + w) # q
      BY <1>1, <1>2, <1>3, <1>9, <1>10, <3>1, <3>2
    <3> QED  BY <1>4, <1>5, <1>10, <3>1, <3>2, <3>3
  <2> QED  BY <1>1, <2>1, <2>2, <2>3, <2>4, SMT
<1>11. mem'.head[l] = Item(t, 1)
  <2>1. CASE i = 1
    <3>1. ~(1 < i) /\ 1 + w = j + 1 /\ i - 1 \notin 1..Len(s) /\ 1 \in Nat
      BY <1>1, <1>9, <2>1, SMT
    <3> QED  BY <1>1, <1>2, <1>6, <1>7, <1>9, <3>1
  <2>2. CASE i # 1
    <3>1. 1 < i /\ i - 1 \in 1..Len(s) /\ 1 \in Nat
      BY <1>1, <2>2, SMT
    <3> QED  BY <1>1, <1>2, <1>6, <1>7, <1>9, <3>1
  <2> QED  BY <2>1, <2>2
<1>12. mem'.tail[l] = Item(t, Len(t))
  <2>1. CASE j = Len(s)
    <3>1. Len(t) < i /\ Len(t) = i - 1 /\ j + 1 \notin 1..Len(s)
      BY <1>1, <1>8, <1>9, <2>1, SMT
    <3> QED  BY <1>1, <1>2, <1>6, <1>7, <1>9, <3>1
  <2>2. CASE j # Len(s)
    <3>1. ~(Len(t) < i) /\ Len(t) + w = Len(s) /\ j + 1 \in 1..Len(s) /\ Len(t) \in Nat
      <4> DEFINE ls == Len(s)
                 lt == Len(t)
      <4>1. lt = ls - w /\ ls \in Nat /\ j <= ls /\ j # ls
        BY <1>1, <1>8, <2>2
      <4> HIDE DEF ls, lt
      <4>2. ~(lt < i) /\ lt + w = ls /\ j + 1 \in 1..ls /\ lt \in Nat
        BY <1>1, <1>9, <4>1, SMT
      <4> QED  BY <4>2 DEF ls, lt
    <3>2. Item(t, Len(t)) = Item(s, Len(t) + w)
      BY <1>7, <3>1
    <3>3. mem'.tail[l] = Item(s, Len(s))
      <4>1. q # Null
        BY <1>1, <1>2, <1>9, <3>1
      <4> QED  BY <1>6, <4>1
    <3> QED  BY <3>1, <3>2, <3>3
  <2> QED  BY <2>1, <2>2
<1>13. LinksOf(mem', l, t)
  BY <1>10, <1>11, <1>12 DEF LinksOf
<1>14. ASSUME NEW k \in Lists \ {l} PROVE LinksOf(mem', k, seq[k])
  <2>1. LinksOf(mem, k, seq[k]) /\ mem'.head[k] = mem.head[k] /\ mem'.tail[k] = mem.tail[k]
    BY ListNow DEF CutLinks, ListInv
  <2>2. ASSUME NEW n \in Nat, Item(seq[k], n) # Null
        PROVE  /\ mem'.prev[Item(seq[k], n)] = mem.prev[Item(seq[k], n)]
               /\ mem'.next[Item(seq[k], n)] = mem.next[Item(seq[k], n)]
    <3>1. Item(seq[k], n) \in Nodes /\ \A r \in Nat : Item(seq[k], n) # Item(s, r)
      <4>1. k \in Lists /\ k # l
        OBVIOUS
      <4>2. Item(seq[k], n) \in Nodes
        BY <2>2, <4>1, ListNow
      <4>3. \A r \in Nat : Item(seq[k], n) # Item(seq[l], r)
        BY <2>2, <4>1, ListApartNow
      <4> QED  BY <4>2, <4>3
    <3>2. Item(seq[k], n) # p /\ Item(seq[k], n) # q
      BY <1>1, <1>9, <3>1
    <3> QED  BY <1>4, <3>1, <3>2
  <2> QED  BY <2>1, <2>2, LinksStay
<1>15. ASSUME NEW n \in Nat, n \in i..j, n + 1 \in i..j
       PROVE  mem'.next[Item(s, n)] = Item(s, n + 1) /\ mem'.prev[Item(s, n + 1)] = Item(s, n)
  <2>1. /\ n \in 1..Len(s) /\ n + 1 \in 1..Len(s) /\ n # i - 1 /\ n + 1 # j + 1
        /\ n + 1 \in Nat /\ (n + 1) - 1 = n
    BY <1>1, <1>15, SMT
  <2>2. /\ Item(s, n) \in Nodes /\ Item(s, n) # p /\ Item(s, n) # Null
        /\ Item(s, n + 1) \in Nodes /\ Item(s, n + 1) # q /\ Item(s, n + 1) # Null
    BY <1>1, <1>2, <1>3, <1>9, <2>1
  <2> QED  BY <1>4, <1>5, <2>1, <2>2
<1>16. ASSUME NEW x \in Nodes, \A n \in Nat : Item(s, n) # x
       PROVE  mem'.prev[x] = mem.prev[x] /\ mem'.next[x] = mem.next[x]
  BY <1>1, <1>4, <1>9, <1>16
<1> QED  BY <1>13, <1>14, <1>15, <1>16
\* What a call cuts out stays out, or becomes the range taken out.
LEMMA ListCut ==
  ASSUME ListInv, NEW l \in Lists, NEW i \in 1..Len(seq[l]), NEW j \in i..Len(seq[l]),
         NEW t, CutOut(seq[l], i, j, t), seq' = [seq EXCEPT ![l] = t], mem' \in MemType,
         CutLinks(mem, mem', l, Item(seq[l], i - 1), Item(seq[l], j + 1)), loose' \in Seq(Nodes),
         \/ loose' = loose
         \/ \A n \in Nat : Item(loose', n) = IF n \in 1..(j - i + 1) THEN Item(seq[l], n + i - 1) ELSE Null
  PROVE  ListInv'
<1> DEFINE w == j - i + 1
           at(k, n) == IF k = l /\ ~(n < i) THEN n + w ELSE n
<1>1. /\ seq' \in [Lists -> Seq(Nodes)] /\ seq'[l] = t /\ i \in Nat /\ j \in Nat
      /\ \A k \in Lists \ {l} : seq'[k] = seq[k]
  BY ListNow DEF CutOut
<1>2. /\ LinksOf(mem', l, t)
      /\ \A k \in Lists \ {l} : LinksOf(mem', k, seq[k])
      /\ \A n \in Nat : n \in i..j /\ n + 1 \in i..j =>
           /\ mem'.next[Item(seq[l], n)] = Item(seq[l], n + 1)
           /\ mem'.prev[Item(seq[l], n + 1)] = Item(seq[l], n)
      /\ \A x \in Nodes : (\A n \in Nat : Item(seq[l], n) # x) =>
           mem'.prev[x] = mem.prev[x] /\ mem'.next[x] = mem.next[x]
  BY ListCutLinks
<1>3. ASSUME NEW k \in Lists, NEW n \in Nat
      PROVE  /\ at(k, n) \in Nat /\ Item(seq'[k], n) = Item(seq[k], at(k, n))
             /\ k = l => at(k, n) \notin i..j
             /\ \A r \in Nat : at(k, n) = at(k, r) => n = r
  <2>1. CASE k = l
    <3>1. Item(t, n) = Item(seq[l], IF n < i THEN n ELSE n + w)
      BY DEF CutOut
    <3>2. /\ (IF n < i THEN n ELSE n + w) \in Nat /\ (IF n < i THEN n ELSE n + w) \notin i..j
          /\ \A r \in Nat : (IF n < i THEN n ELSE n + w) = (IF r < i THEN r ELSE r + w) => n = r
      BY <1>1, SMT
    <3> QED  BY <1>1, <2>1, <3>1, <3>2
  <2>2. CASE k # l
    BY <1>1, <2>2
  <2> QED  BY <2>1, <2>2
<1> HIDE DEF at, w
<1>4. ASSUME NEW k \in Lists, NEW r \in Lists, NEW n \in Nat, NEW m \in Nat,
             Item(seq'[k], n) # Null, Item(seq'[k], n) = Item(seq'[r], m)
      PROVE  k = r /\ n = m
  <2>1. /\ at(k, n) \in Nat /\ at(r, m) \in Nat
        /\ Item(seq[k], at(k, n)) # Null /\ Item(seq[k], at(k, n)) = Item(seq[r], at(r, m))
    BY <1>3, <1>4
  <2>2. k = r /\ at(k, n) = at(r, m)
    BY <2>1 DEF ListInv, ListsApart
  <2> QED  BY <1>3, <2>2
<1>5. CASE loose' = loose
  <2>1. ASSUME NEW k \in Lists, NEW n \in Nat, NEW m \in Nat, Item(loose, n) # Null
        PROVE  Item(loose, n) # Item(seq'[k], m)
    <3>1. Item(seq'[k], m) = Item(seq[k], at(k, m)) /\ at(k, m) \in Nat
      BY <1>3
    <3> QED  BY <2>1, <3>1 DEF ListInv, ListsApart
  <2>2. ListsApart(seq', loose')
    BY <1>4, <1>5, <2>1 DEF ListInv, ListsApart
  <2>3. ASSUME NEW n \in Nat, Item(loose, n) # Null, Item(loose, n + 1) # Null
        PROVE  /\ mem'.next[Item(loose, n)] = Item(loose, n + 1)
               /\ mem'.prev[Item(loose, n + 1)] = Item(loose, n)
    <3>1. Item(loose, n) \in Nodes /\ Item(loose, n + 1) \in Nodes
      BY <2>3, ListNow, ItemsOf
    <3>2. \A r \in Nat : Item(seq[l], r) # Item(loose, n) /\ Item(seq[l], r) # Item(loose, n + 1)
      BY <2>3 DEF ListInv, ListsApart
    <3>3. /\ mem'.next[Item(loose, n)] = mem.next[Item(loose, n)]
          /\ mem'.prev[Item(loose, n + 1)] = mem.prev[Item(loose, n + 1)]
      BY <1>2, <3>1, <3>2
    <3> QED  BY <2>3, <3>3 DEF ListInv, RangeLinked
  <2>4. RangeLinked(mem', loose')
    BY <1>5, <2>3 DEF RangeLinked
  <2>5. \A k \in Lists : LinksOf(mem', k, seq'[k])
    BY <1>1, <1>2
  <2> QED  BY <1>1, <2>2, <2>4, <2>5 DEF ListInv
<1>6. CASE \A n \in Nat : Item(loose', n) = IF n \in 1..w THEN Item(seq[l], n + i - 1) ELSE Null
  <2>1. ASSUME NEW n \in Nat, Item(loose', n) # Null
        PROVE  /\ n \in 1..w /\ Item(loose', n) = Item(seq[l], n + i - 1)
               /\ n + i - 1 \in Nat /\ n + i - 1 \in i..j
    <3>1. n \in 1..w /\ Item(loose', n) = Item(seq[l], n + i - 1)
      BY <1>6, <2>1
    <3>2. n + i - 1 \in Nat /\ n + i - 1 \in i..j
      BY <1>1, <3>1, SMT DEF w
    <3> QED  BY <3>1, <3>2
  <2>2. ASSUME NEW k \in Lists, NEW n \in Nat, NEW m \in Nat, Item(loose', n) # Null
        PROVE  Item(loose', n) # Item(seq'[k], m)
    <3>1. /\ Item(loose', n) = Item(seq[l], n + i - 1) /\ n + i - 1 \in Nat /\ n + i - 1 \in i..j
          /\ Item(seq'[k], m) = Item(seq[k], at(k, m)) /\ at(k, m) \in Nat
          /\ k # l \/ n + i - 1 # at(k, m)
      BY <1>3, <2>1, <2>2
    <3> QED  BY <2>2, <3>1, ListApartNow
  <2>3. ASSUME NEW n \in Nat, NEW m \in Nat, Item(loose', n) # Null, Item(loose', n) = Item(loose', m)
        PROVE  n = m
    <3>1. /\ n + i - 1 \in Nat /\ m + i - 1 \in Nat /\ Item(seq[l], n + i - 1) # Null
          /\ Item(seq[l], n + i - 1) = Item(seq[l], m + i - 1)
      BY <2>1, <2>3
    <3>2. n + i - 1 = m + i - 1
      BY <3>1 DEF ListInv, ListsApart
    <3> QED  BY <1>1, <3>2, SMT
  <2>4. ListsApart(seq', loose')
    BY <1>4, <2>2, <2>3 DEF ListsApart
  <2>5. ASSUME NEW n \in Nat, Item(loose', n) # Null, Item(loose', n + 1) # Null
        PROVE  /\ mem'.next[Item(loose', n)] = Item(loose', n + 1)
               /\ mem'.prev[Item(loose', n + 1)] = Item(loose', n)
    <3>1. /\ Item(loose', n) = Item(seq[l], n + i - 1) /\ n + i - 1 \in Nat /\ n + i - 1 \in i..j
      BY <2>1, <2>5
    <3>2. Item(loose', n + 1) = Item(seq[l], (n + 1) + i - 1) /\ (n + 1) + i - 1 \in i..j
      BY <2>1, <2>5
    <3>3. (n + 1) + i - 1 = (n + i - 1) + 1
      BY <1>1, SMT
    <3> QED  BY <1>2, <3>1, <3>2, <3>3
  <2>6. RangeLinked(mem', loose')
    BY <2>5 DEF RangeLinked
  <2>7. \A k \in Lists : LinksOf(mem', k, seq'[k])
    BY <1>1, <1>2
  <2> QED  BY <1>1, <2>4, <2>6, <2>7 DEF ListInv
<1> QED  BY <1>5, <1>6 DEF w
\* What the stores that put a range from u to b into list l do, between p and q where there
\* are such nodes.
PutLinks(m, m2, l, p, q, u, b) ==
  /\ m2.prev = Put([m.prev EXCEPT ![u] = p], q, b)
  /\ m2.next = Put([m.next EXCEPT ![b] = q], p, u)
  /\ m2.head = IF p = Null THEN [m.head EXCEPT ![l] = u] ELSE m.head
  /\ m2.tail = IF q = Null THEN [m.tail EXCEPT ![l] = b] ELSE m.tail

\* t is s with d after its i-th node.
PutIn(s, i, d, t) ==
  /\ t \in Seq(Nodes) /\ Len(t) = Len(s) + Len(d)
  /\ \A n \in Nat : Item(t, n) = IF n <= i THEN Item(s, n)
                              ELSE IF n <= i + Len(d) THEN Item(d, n - i) ELSE Item(s, n - Len(d))

\* d is linked and its nodes are different, and in no list.
Outside(d) ==
  /\ d \in Seq(Nodes) /\ Len(d) # 0 /\ RangeLinked(mem, d)
  /\ \A i, j \in Nat : Item(d, i) # Null /\ Item(d, i) = Item(d, j) => i = j
  /\ \A l \in Lists : \A i, j \in Nat : Item(d, i) # Null => Item(d, i) # Item(seq[l], j)

\* A list with d after its i-th node is linked again, and the other lists stay linked.
LEMMA ListPutLinks ==
  ASSUME ListInv, NEW l \in Lists, NEW i \in 0..Len(seq[l]), NEW d, Outside(d),
         NEW t, PutIn(seq[l], i, d, t), mem' \in MemType,
         PutLinks(mem, mem', l, Item(seq[l], i), Item(seq[l], i + 1), Item(d, 1), Item(d, Len(d)))
  PROVE  /\ LinksOf(mem', l, t)
         /\ \A k \in Lists \ {l} : LinksOf(mem', k, seq[k])
         /\ \A x \in Nodes : (\A n \in Nat : Item(seq[l], n) # x /\ Item(d, n) # x) =>
              mem'.prev[x] = mem.prev[x] /\ mem'.next[x] = mem.next[x]
<1> DEFINE s == seq[l]
           p == Item(s, i)
           q == Item(s, i + 1)
           w == Len(d)
           u == Item(d, 1)
           b == Item(d, w)
<1>1. /\ i \in Nat /\ Len(s) \in Nat /\ i <= Len(s) /\ w \in Nat /\ w >= 1 /\ i + 1 \in Nat
      /\ w \in 1..w /\ 1 \in 1..w /\ w + 1 \notin 1..w
  <2>1. w \in Nat /\ w # 0
    BY DEF Outside
  <2>2. i \in Nat /\ Len(s) \in Nat /\ i <= Len(s)
    BY ListNow, SMT
  <2> HIDE DEF w
  <2> QED  BY <2>1, <2>2, SMT
<1>2. \A n \in Nat : /\ Item(s, n) \in Nodes \cup {Null} /\ (Item(s, n) # Null <=> n \in 1..Len(s))
                     /\ Item(d, n) \in Nodes \cup {Null} /\ (Item(d, n) # Null <=> n \in 1..w)
  BY ListNow, ItemsOf DEF Outside
<1>3. /\ \A n, r \in Nat : Item(s, n) # Null /\ Item(s, n) = Item(s, r) => n = r
      /\ \A n, r \in Nat : Item(d, n) # Null /\ Item(d, n) = Item(d, r) => n = r
      /\ \A n, r \in Nat : Item(s, n) # Null \/ Item(d, r) # Null => Item(s, n) # Item(d, r)
  BY DEF ListInv, ListsApart, Outside
<1>4. /\ mem.head[l] = Item(s, 1) /\ mem.tail[l] = Item(s, Len(s))
      /\ \A n \in Nat : Item(s, n) # Null => /\ mem.prev[Item(s, n)] = Item(s, n - 1)
                                           /\ mem.next[Item(s, n)] = Item(s, n + 1)
  BY DEF ListInv, LinksOf
<1>5. \A n \in Nat : Item(d, n) # Null /\ Item(d, n + 1) # Null =>
        mem.next[Item(d, n)] = Item(d, n + 1) /\ mem.prev[Item(d, n + 1)] = Item(d, n)
  BY DEF Outside, RangeLinked
<1>6. Len(t) = Len(s) + w /\ t \in Seq(Nodes)
  BY DEF PutIn
<1>7. \A n \in Nat : Item(t, n) = IF n <= i THEN Item(s, n)
                                  ELSE IF n <= i + w THEN Item(d, n - i) ELSE Item(s, n - w)
  BY DEF PutIn
<1>8. /\ mem'.prev = Put([mem.prev EXCEPT ![u] = p], q, b)
      /\ mem'.next = Put([mem.next EXCEPT ![b] = q], p, u)
      /\ mem'.head = IF p = Null THEN [mem.head EXCEPT ![l] = u] ELSE mem.head
      /\ mem'.tail = IF q = Null THEN [mem.tail EXCEPT ![l] = b] ELSE mem.tail
  BY DEF PutLinks
<1>9. /\ p = Item(s, i) /\ q = Item(s, i + 1) /\ u = Item(d, 1) /\ b = Item(d, w)
      /\ u \in Nodes /\ b \in Nodes /\ p \in Nodes \cup {Null} /\ q \in Nodes \cup {Null}
  BY <1>1, <1>2
<1> HIDE DEF p, q, w, u, b
<1>10. p # u /\ p # b /\ q # u /\ q # b
  BY <1>1, <1>2, <1>3, <1>9
<1>11. ASSUME NEW x \in Nodes
       PROVE  /\ mem'.prev[x] = IF x = q THEN b ELSE IF x = u THEN p ELSE mem.prev[x]
              /\ mem'.next[x] = IF x = p THEN u ELSE IF x = b THEN q ELSE mem.next[x]
  <2>1. mem'.prev[x] = IF x = q THEN b ELSE IF x = u THEN p ELSE mem.prev[x]
    BY <1>8, <1>9, ListNow DEF Put
  <2>2. mem'.next[x] = IF x = p THEN u ELSE IF x = b THEN q ELSE mem.next[x]
    BY <1>8, <1>9, ListNow DEF Put
  <2> QED  BY <2>1, <2>2
<1>12. ASSUME NEW n \in Nat, Item(s, n) # Null
       PROVE  /\ mem'.prev[Item(s, n)] = IF n = i + 1 THEN b ELSE Item(s, n - 1)
              /\ mem'.next[Item(s, n)] = IF n = i THEN u ELSE Item(s, n + 1)
  <2>1. /\ Item(s, n) \in Nodes /\ Item(s, n) # u /\ Item(s, n) # b
        /\ (Item(s, n) = q <=> n = i + 1) /\ (Item(s, n) = p <=> n = i)
    BY <1>1, <1>2, <1>3, <1>9, <1>12
  <2> QED  BY <1>4, <1>11, <1>12, <2>1
<1>13. ASSUME NEW n \in Nat, n \in 1..w
       PROVE  /\ mem'.prev[Item(d, n)] = IF n = 1 THEN p ELSE Item(d, n - 1)
              /\ mem'.next[Item(d, n)] = IF n = w THEN q ELSE Item(d, n + 1)
  <2>1. /\ Item(d, n) \in Nodes /\ Item(d, n) # p /\ Item(d, n) # q
        /\ (Item(d, n) = u <=> n = 1) /\ (Item(d, n) = b <=> n = w)
    BY <1>1, <1>2, <1>3, <1>9, <1>13
  <2>2. n # 1 => n - 1 \in Nat /\ n - 1 \in 1..w /\ (n - 1) + 1 = n
    BY <1>1, <1>13, SMT
  <2>3. n # w => n + 1 \in Nat /\ n + 1 \in 1..w
    BY <1>1, <1>13, SMT
  <2>4. n # 1 => mem.prev[Item(d, n)] = Item(d, n - 1)
    BY <1>2, <1>5, <1>13, <2>2
  <2>5. n # w => mem.next[Item(d, n)] = Item(d, n + 1)
    BY <1>2, <1>5, <1>13, <2>3
  <2> QED  BY <1>11, <2>1, <2>4, <2>5
<1>14. ASSUME NEW n \in Nat, Item(t, n) # Null
       PROVE  mem'.prev[Item(t, n)] = Item(t, n - 1) /\ mem'.next[Item(t, n)] = Item(t, n + 1)
  <2>1. CASE n <= i
    <3>1. n - 1 <= i /\ n + 1 \in Nat /\ n # i + 1 /\ (n # i => n + 1 <= i)
      BY <1>1, <2>1, SMT
    <3>2. Item(t, n) = Item(s, n) /\ n \in 1..Len(s)
      BY <1>2, <1>7, <1>14, <2>1
    <3>3. n - 1 \in Nat
      BY <3>2, SMT
    <3>4. Item(t, n - 1) = Item(s, n - 1)
      BY <1>7, <3>1, <3>3
    <3>5. Item(t, n + 1) = IF n = i THEN u ELSE Item(s, n + 1)
      <4>1. CASE n = i
        <5>1. ~(n + 1 <= i) /\ n + 1 <= i + w /\ (n + 1) - i = 1
          BY <1>1, <4>1, SMT
        <5> QED  BY <1>7, <1>9, <3>1, <4>1, <5>1
      <4>2. CASE n # i
        BY <1>7, <3>1, <4>2
      <4> QED  BY <4>1, <4>2
    <3> QED  BY <1>12, <1>14, <3>1, <3>2, <3>4, <3>5
  <2>2. CASE ~(n <= i) /\ n <= i + w
    <3>1. /\ n - i \in Nat /\ n - i \in 1..w /\ n + 1 \in Nat /\ n - 1 \in Nat
          /\ ~(n + 1 <= i) /\ n - 1 <= i + w /\ (n - 1) - i = (n - i) - 1 /\ (n + 1) - i = (n - i) + 1
      BY <1>1, <2>2, SMT
    <3>2. Item(t, n) = Item(d, n - i)
      BY <1>7, <2>2
    <3>3. Item(t, n - 1) = IF n - i = 1 THEN p ELSE Item(d, (n - i) - 1)
      <4>1. CASE n - i = 1
        <5>1. n - 1 = i /\ n - 1 <= i
          BY <1>1, <4>1, SMT
        <5> QED  BY <1>7, <1>9, <3>1, <4>1, <5>1
      <4>2. CASE n - i # 1
        <5>1. ~(n - 1 <= i)
          BY <1>1, <2>2, <4>2, SMT
        <5> QED  BY <1>7, <3>1, <4>2, <5>1
      <4> QED  BY <4>1, <4>2
    <3>4. Item(t, n + 1) = IF n - i = w THEN q ELSE Item(d, (n - i) + 1)
      <4>1. CASE n - i = w
        <5>1. ~(n + 1 <= i + w) /\ (n + 1) - w = i + 1
          BY <1>1, <4>1, SMT
        <5> QED  BY <1>7, <1>9, <3>1, <4>1, <5>1
      <4>2. CASE n - i # w
        <5>1. n + 1 <= i + w
          BY <1>1, <2>2, <4>2, SMT
        <5> QED  BY <1>7, <3>1, <4>2, <5>1
      <4> QED  BY <4>1, <4>2
    <3> QED  BY <1>13, <3>1, <3>2, <3>3, <3>4
  <2>3. CASE ~(n <= i) /\ ~(n <= i + w)
    <3>1. /\ n - w \in Nat /\ n + 1 \in Nat /\ n - 1 \in Nat /\ n - w # i
          /\ ~(n + 1 <= i) /\ ~(n + 1 <= i + w) /\ ~(n - 1 <= i)
          /\ (n + 1) - w = (n - w) + 1 /\ (n - 1) - w = (n - w) - 1
      BY <1>1, <2>3, SMT
    <3>2. Item(t, n) = Item(s, n - w) /\ Item(t, n + 1) = Item(s, (n - w) + 1)
      BY <1>7, <2>3, <3>1
    <3>3. Item(t, n - 1) = IF n - w = i + 1 THEN b ELSE Item(s, (n - w) - 1)
      <4>1. CASE n - w = i + 1
        <5>1. n - 1 <= i + w /\ (n - 1) - i = w
          BY <1>1, <4>1, SMT
        <5> QED  BY <1>7, <1>9, <3>1, <4>1, <5>1
      <4>2. CASE n - w # i + 1
        <5>1. ~(n - 1 <= i + w)
          BY <1>1, <2>3, <4>2, SMT
        <5> QED  BY <1>7, <3>1, <4>2, <5>1
      <4> QED  BY <4>1, <4>2
    <3> QED  BY <1>12, <1>14, <3>1, <3>2, <3>3
  <2> QED  BY <2>1, <2>2, <2>3
<1>15. mem'.head[l] = Item(t, 1)
  <2>1. CASE i = 0
    <3>1. ~(1 <= i) /\ 1 <= i + w /\ 1 - i = 1 /\ 1 \in Nat /\ i \notin 1..Len(s)
      BY <1>1, <2>1, SMT
    <3> QED  BY <1>1, <1>2, <1>7, <1>8, <1>9, <3>1, ListNow
  <2>2. CASE i # 0
    <3>1. 1 <= i /\ i \in 1..Len(s) /\ 1 \in Nat
      BY <1>1, <2>2, SMT
    <3> QED  BY <1>1, <1>2, <1>4, <1>7, <1>8, <1>9, <3>1
  <2> QED  BY <2>1, <2>2
<1>16. mem'.tail[l] = Item(t, Len(t))
  <2>1. CASE i = Len(s)
    <3>1. ~(Len(t) <= i) /\ Len(t) <= i + w /\ Len(t) - i = w /\ Len(t) \in Nat /\ i + 1 \notin 1..Len(s)
      BY <1>1, <1>6, <2>1, SMT
    <3> QED  BY <1>1, <1>2, <1>7, <1>8, <1>9, <3>1, ListNow
  <2>2. CASE i # Len(s)
    <3>1. ~(Len(t) <= i) /\ ~(Len(t) <= i + w) /\ Len(t) - w = Len(s) /\ Len(t) \in Nat /\ i + 1 \in 1..Len(s)
      <4> DEFINE ls == Len(s)
                 lt == Len(t)
      <4>1. lt = ls + w /\ ls \in Nat /\ i <= ls /\ i # ls
        BY <1>1, <1>6, <2>2
      <4> HIDE DEF ls, lt
      <4>2. ~(lt <= i) /\ ~(lt <= i + w) /\ lt - w = ls /\ lt \in Nat /\ i + 1 \in 1..ls
        BY <1>1, <4>1, SMT
      <4> QED  BY <4>2 DEF ls, lt
    <3>2. Item(t, Len(t)) = Item(s, Len(t) - w)
      BY <1>7, <3>1
    <3>3. mem'.tail[l] = Item(s, Len(s))
      <4>1. q # Null
        BY <1>2, <1>9, <3>1
      <4> QED  BY <1>4, <1>8, <4>1
    <3> QED  BY <3>1, <3>2, <3>3
  <2> QED  BY <2>1, <2>2
<1>17. LinksOf(mem', l, t)
  BY <1>14, <1>15, <1>16 DEF LinksOf
<1>18. ASSUME NEW k \in Lists \ {l} PROVE LinksOf(mem', k, seq[k])
  <2>1. LinksOf(mem, k, seq[k]) /\ mem'.head[k] = mem.head[k] /\ mem'.tail[k] = mem.tail[k]
    BY <1>8, ListNow DEF ListInv
  <2>2. ASSUME NEW n \in Nat, Item(seq[k], n) # Null
        PROVE  /\ mem'.prev[Item(seq[k], n)] = mem.prev[Item(seq[k], n)]
               /\ mem'.next[Item(seq[k], n)] = mem.next[Item(seq[k], n)]
    <3>1. k \in Lists /\ k # l
      OBVIOUS
    <3>2. Item(seq[k], n) \in Nodes
      BY <2>2, <3>1, ListNow
    <3>3. \A r \in Nat : Item(seq[k], n) # Item(s, r)
      BY <2>2, <3>1, ListApartNow
    <3>4. \A r \in Nat : Item(d, r) # Null => Item(d, r) # Item(seq[k], n)
      BY <3>1 DEF Outside
    <3>5. /\ Item(seq[k], n) # p /\ Item(seq[k], n) # q
          /\ Item(seq[k], n) # u /\ Item(seq[k], n) # b
      BY <1>1, <1>2, <1>9, <3>3, <3>4
    <3> QED  BY <1>11, <3>2, <3>5
  <2> QED  BY <2>1, <2>2, LinksStay
<1>19. ASSUME NEW x \in Nodes, \A n \in Nat : Item(s, n) # x /\ Item(d, n) # x
       PROVE  mem'.prev[x] = mem.prev[x] /\ mem'.next[x] = mem.next[x]
  BY <1>1, <1>9, <1>11, <1>19
<1> QED  BY <1>17, <1>18, <1>19
\* What a call puts in was in no list, or is the range taken out.
LEMMA ListPut ==
  ASSUME ListInv, NEW l \in Lists, NEW i \in 0..Len(seq[l]), NEW d, Outside(d),
         NEW t, PutIn(seq[l], i, d, t), seq' = [seq EXCEPT ![l] = t], mem' \in MemType,
         PutLinks(mem, mem', l, Item(seq[l], i), Item(seq[l], i + 1), Item(d, 1), Item(d, Len(d))),
         \/ loose' = loose /\ \A n, m \in Nat : Item(d, n) # Null => Item(d, n) # Item(loose, m)
         \/ loose' = <<>>
  PROVE  ListInv'
<1> DEFINE s == seq[l]
           w == Len(d)
           new(k, n) == k = l /\ ~(n <= i) /\ n <= i + w
           at(k, n) == IF k = l /\ ~(n <= i) THEN n - w ELSE n
<1>1. /\ seq' \in [Lists -> Seq(Nodes)] /\ seq'[l] = t /\ i \in Nat /\ w \in Nat
      /\ \A k \in Lists \ {l} : seq'[k] = seq[k]
  BY ListNow DEF PutIn, Outside
<1>2. /\ LinksOf(mem', l, t)
      /\ \A k \in Lists \ {l} : LinksOf(mem', k, seq[k])
      /\ \A x \in Nodes : (\A n \in Nat : Item(s, n) # x /\ Item(d, n) # x) =>
           mem'.prev[x] = mem.prev[x] /\ mem'.next[x] = mem.next[x]
  BY ListPutLinks, ZenonT(60)
<1>3. \A k \in Lists : LinksOf(mem', k, seq'[k])
  BY <1>1, <1>2
<1>4. ASSUME NEW k \in Lists, NEW n \in Nat
      PROVE  /\ new(k, n) => n - i \in Nat /\ Item(seq'[k], n) = Item(d, n - i)
             /\ ~new(k, n) => at(k, n) \in Nat /\ Item(seq'[k], n) = Item(seq[k], at(k, n))
             /\ \A m \in Nat : ~new(k, n) /\ ~new(k, m) /\ at(k, n) = at(k, m) => n = m
             /\ \A m \in Nat : n - i = m - i => n = m
  <2>1. CASE k = l
    <3>1. Item(t, n) = IF n <= i THEN Item(s, n)
                       ELSE IF n <= i + w THEN Item(d, n - i) ELSE Item(s, n - w)
      BY DEF PutIn
    <3>2. /\ ~(n <= i) => n - i \in Nat
          /\ ~(n <= i + w) => n - w \in Nat /\ n - w > i
          /\ \A m \in Nat : (n - i = m - i => n = m) /\ (n - w = m - w => n = m)
          /\ \A m \in Nat : n <= i /\ ~(m <= i + w) => n # m - w
          /\ \A m \in Nat : m <= i /\ ~(n <= i + w) => n - w # m
      BY <1>1, SMT
    <3> HIDE DEF w
    <3> QED  BY <1>1, <2>1, <3>1, <3>2
  <2>2. CASE k # l
    <3>1. \A m \in Nat : n - i = m - i => n = m
      BY <1>1, SMT
    <3> QED  BY <1>1, <2>2, <3>1
  <2> QED  BY <2>1, <2>2
<1>5. /\ \A k, r \in Lists : \A n, m \in Nat :
           Item(seq[k], n) # Null /\ Item(seq[k], n) = Item(seq[r], m) => k = r /\ n = m
      /\ \A n, r \in Nat : Item(d, n) # Null /\ Item(d, n) = Item(d, r) => n = r
      /\ \A k \in Lists : \A n, r \in Nat :
           Item(seq[k], n) # Null \/ Item(d, r) # Null => Item(seq[k], n) # Item(d, r)
  BY DEF ListInv, ListsApart, Outside
<1>6. ASSUME NEW k \in Lists, NEW n \in Nat, new(k, n) PROVE k = l
  BY <1>6
<1> HIDE DEF new, at, w
<1>7. ASSUME NEW k \in Lists, NEW r \in Lists, NEW n \in Nat, NEW m \in Nat,
             Item(seq'[k], n) # Null, Item(seq'[k], n) = Item(seq'[r], m)
      PROVE  k = r /\ n = m
  <2>1. CASE new(k, n) /\ new(r, m)
    BY <1>4, <1>5, <1>6, <1>7, <2>1
  <2>2. CASE ~new(k, n) /\ ~new(r, m)
    BY <1>4, <1>5, <1>7, <2>2
  <2>3. CASE new(k, n) /\ ~new(r, m)
    BY <1>4, <1>5, <1>7, <2>3
  <2>4. CASE ~new(k, n) /\ new(r, m)
    BY <1>4, <1>5, <1>7, <2>4
  <2> QED  BY <2>1, <2>2, <2>3, <2>4
<1>8. CASE loose' = loose /\ \A n, m \in Nat : Item(d, n) # Null => Item(d, n) # Item(loose, m)
  <2>1. ASSUME NEW k \in Lists, NEW n \in Nat, NEW m \in Nat, Item(loose, n) # Null
        PROVE  Item(loose, n) # Item(seq'[k], m)
    <3>1. CASE new(k, m)
      BY <1>4, <1>8, <2>1, <3>1
    <3>2. CASE ~new(k, m)
      BY <1>4, <2>1, <3>2 DEF ListInv, ListsApart
    <3> QED  BY <3>1, <3>2
  <2>2. ListsApart(seq', loose')
    BY <1>7, <1>8, <2>1 DEF ListInv, ListsApart
  <2>3. ASSUME NEW n \in Nat, Item(loose, n) # Null, Item(loose, n + 1) # Null
        PROVE  /\ mem'.next[Item(loose, n)] = Item(loose, n + 1)
               /\ mem'.prev[Item(loose, n + 1)] = Item(loose, n)
    <3>1. Item(loose, n) \in Nodes /\ Item(loose, n + 1) \in Nodes
      BY <2>3, ListNow, ItemsOf
    <3>2. \A r \in Nat : Item(s, r) # Item(loose, n) /\ Item(s, r) # Item(loose, n + 1)
      BY <2>3 DEF ListInv, ListsApart
    <3>3. \A r \in Nat : Item(d, r) # Item(loose, n) /\ Item(d, r) # Item(loose, n + 1)
      BY <1>8, <2>3
    <3>4. /\ mem'.next[Item(loose, n)] = mem.next[Item(loose, n)]
          /\ mem'.prev[Item(loose, n + 1)] = mem.prev[Item(loose, n + 1)]
      BY <1>2, <3>1, <3>2, <3>3
    <3> QED  BY <2>3, <3>4 DEF ListInv, RangeLinked
  <2>4. RangeLinked(mem', loose') /\ loose' \in Seq(Nodes)
    BY <1>8, <2>3, ListNow DEF RangeLinked
  <2> QED  BY <1>1, <1>3, <2>2, <2>4 DEF ListInv
<1>9. CASE loose' = <<>>
  <2>1. loose' \in Seq(Nodes) /\ \A n \in Nat : Item(loose', n) = Null
    BY <1>9, SMT DEF Item
  <2>2. ListsApart(seq', loose')
    BY <1>7, <2>1 DEF ListsApart
  <2>3. RangeLinked(mem', loose')
    BY <2>1 DEF RangeLinked
  <2> QED  BY <1>1, <1>3, <2>1, <2>2, <2>3 DEF ListInv
<1> QED  BY <1>8, <1>9
-----------------------------------------------------------------------------
(* What each call puts in or cuts out. *)

\* One node, put in at the end, at the front or in between.
LEMMA NodePutIn ==
  ASSUME NEW s \in Seq(Nodes), NEW n \in Nodes
  PROVE  /\ PutIn(s, Len(s), <<n>>, s \o <<n>>)
         /\ PutIn(s, 0, <<n>>, <<n>> \o s)
         /\ \A i \in 0..Len(s) : PutIn(s, i, <<n>>, InsertAt(s, i + 1, n))
<1>1. /\ <<n>> \in Seq(Nodes) /\ Len(<<n>>) = 1 /\ Item(<<n>>, 1) = n /\ Len(s) \in Nat
      /\ \A i \in Nat : i # 1 => Item(<<n>>, i) = Null
  BY SMT DEF Item
<1>2. ASSUME NEW i \in 0..Len(s), NEW t,
             t \in Seq(Nodes), Len(t) = Len(s) + 1,
             \A m \in Nat : Item(t, m) = IF m <= i THEN Item(s, m)
                                         ELSE IF m = i + 1 THEN n ELSE Item(s, m - 1)
      PROVE  PutIn(s, i, <<n>>, t)
  <2>1. ASSUME NEW m \in Nat, ~(m <= i)
        PROVE  (m <= i + 1 <=> m = i + 1) /\ (m = i + 1 => m - i = 1)
    BY <2>1, SMT
  <2>2. ASSUME NEW m \in Nat
        PROVE  Item(t, m) = IF m <= i THEN Item(s, m)
                            ELSE IF m <= i + 1 THEN Item(<<n>>, m - i) ELSE Item(s, m - 1)
    BY <1>1, <1>2, <2>1, Zenon
  <2> QED  BY <1>1, <1>2, <2>2 DEF PutIn
<1>3. PutIn(s, Len(s), <<n>>, s \o <<n>>)
  <2> DEFINE t == Append(s, n)
  <2>1. t = s \o <<n>>
    BY SMT
  <2>2. /\ t \in Seq(Nodes) /\ Len(t) = Len(s) + 1
        /\ \A m \in Nat : Item(t, m) = IF m = Len(s) + 1 THEN n ELSE Item(s, m)
    BY AppendItems
  <2> HIDE DEF t
  <2>3. \A m \in Nat : /\ m <= Len(s) => m # Len(s) + 1
                       /\ ~(m <= Len(s)) /\ m # Len(s) + 1 => m \notin 1..Len(s) /\ m - 1 \notin 1..Len(s)
    BY <1>1, SMT
  <2>4. \A m \in Nat : Item(t, m) = IF m <= Len(s) THEN Item(s, m)
                                    ELSE IF m = Len(s) + 1 THEN n ELSE Item(s, m - 1)
    BY <2>2, <2>3, Zenon DEF Item
  <2>5. Len(s) \in 0..Len(s)
    BY <1>1, SMT
  <2> QED  BY <1>2, <2>1, <2>2, <2>4, <2>5
<1>4. PutIn(s, 0, <<n>>, <<n>> \o s)
  <2> DEFINE t == <<n>> \o s
  <2>1. /\ t \in Seq(Nodes) /\ Len(t) = Len(s) + 1
        /\ \A m \in Nat : Item(t, m) = IF m = 1 THEN n ELSE Item(s, m - 1)
    BY PrependItems
  <2> HIDE DEF t
  <2>2. \A m \in Nat : m <= 0 => m # 1 /\ m \notin 1..Len(s) /\ m - 1 \notin 1..Len(s)
    BY <1>1, SMT
  <2>3. 0 \in 0..Len(s) /\ 0 + 1 = 1
    BY <1>1, SMT
  <2>4. \A m \in Nat : Item(t, m) = IF m <= 0 THEN Item(s, m)
                                    ELSE IF m = 0 + 1 THEN n ELSE Item(s, m - 1)
    BY <2>1, <2>2, <2>3, Zenon DEF Item
  <2>5. PutIn(s, 0, <<n>>, t)
    BY <1>2, <2>1, <2>3, <2>4
  <2> QED  BY <2>5 DEF t
<1>5. ASSUME NEW i \in 0..Len(s) PROVE PutIn(s, i, <<n>>, InsertAt(s, i + 1, n))
  <2> DEFINE t == InsertAt(s, i + 1, n)
  <2>1. /\ t \in Seq(Nodes) /\ Len(t) = Len(s) + 1
        /\ \A m \in Nat : Item(t, m) = IF m <= i THEN Item(s, m)
                                       ELSE IF m = i + 1 THEN n ELSE Item(s, m - 1)
    BY InsertItems
  <2> HIDE DEF t
  <2>2. PutIn(s, i, <<n>>, t)
    BY <1>2, <2>1
  <2> QED  BY <2>2 DEF t
<1> QED  BY <1>3, <1>4, <1>5

\* A node that is in no list and not in the range taken out can be put in.
LEMMA FreeOutside ==
  ASSUME ListInv, NEW n \in FreeNodes
  PROVE  /\ n \in Nodes /\ Outside(<<n>>) /\ <<n>> \in Seq(Nodes)
         /\ Item(<<n>>, 1) = n /\ Len(<<n>>) = 1
         /\ \A i, j \in Nat : Item(<<n>>, i) # Null => Item(<<n>>, i) # Item(loose, j)
<1>1. /\ n \in Nodes /\ n # Null
      /\ n \notin Range(loose) /\ \A l \in Lists : n \notin Range(seq[l])
  BY NodesAssumption DEF FreeNodes
<1>2. /\ <<n>> \in Seq(Nodes) /\ Len(<<n>>) = 1 /\ Item(<<n>>, 1) = n
      /\ \A i \in Nat : i # 1 => Item(<<n>>, i) = Null
  BY <1>1, SMT DEF Item
<1>3. /\ \A i \in Nat : Item(loose, i) # n
      /\ \A l \in Lists : \A i \in Nat : Item(seq[l], i) # n
  BY <1>1, ListNow, RangeItems
<1>4. RangeLinked(mem, <<n>>)
  <2>1. \A i \in Nat : i # 1 \/ i + 1 # 1
    BY SMT
  <2> QED  BY <1>2, <2>1 DEF RangeLinked
<1> QED  BY <1>1, <1>2, <1>3, <1>4 DEF Outside

\* One free node put in.
LEMMA NodePut ==
  ASSUME ListInv, NEW l \in Lists, NEW i \in 0..Len(seq[l]), NEW n \in FreeNodes,
         NEW t, PutIn(seq[l], i, <<n>>, t), seq' = [seq EXCEPT ![l] = t], mem' \in MemType,
         PutLinks(mem, mem', l, Item(seq[l], i), Item(seq[l], i + 1), n, n), loose' = loose
  PROVE  ListInv'
<1> DEFINE d == <<n>>
<1>1. /\ Outside(d) /\ Item(d, 1) = n /\ Item(d, Len(d)) = n
      /\ \A k, m \in Nat : Item(d, k) # Null => Item(d, k) # Item(loose, m)
  BY FreeOutside
<1>2. PutIn(seq[l], i, d, t)
  OBVIOUS
<1> HIDE DEF d
<1>3. PutLinks(mem, mem', l, Item(seq[l], i), Item(seq[l], i + 1), Item(d, 1), Item(d, Len(d)))
  BY <1>1
<1> QED  BY <1>1, <1>2, <1>3, ListPut

\* The ends of a list.
LEMMA ListEnds ==
  ASSUME ListInv, NEW l \in Lists
  PROVE  /\ mem.head[l] = Item(seq[l], 1) /\ mem.tail[l] = Item(seq[l], Len(seq[l]))
         /\ mem.head[l] = Null <=> Len(seq[l]) = 0
         /\ mem.tail[l] = Null <=> Len(seq[l]) = 0
         /\ Item(seq[l], 0) = Null /\ Item(seq[l], Len(seq[l]) + 1) = Null
         /\ \A i \in 1..Len(seq[l]) : /\ mem.prev[seq[l][i]] = Item(seq[l], i - 1)
                                     /\ mem.next[seq[l][i]] = Item(seq[l], i + 1)
<1> DEFINE s == seq[l]
<1>1. mem.head[l] = Item(s, 1) /\ mem.tail[l] = Item(s, Len(s))
  BY DEF ListInv, LinksOf
<1>2. /\ Len(s) \in Nat /\ \A i \in Nat : Item(s, i) # Null <=> i \in 1..Len(s)
      /\ \A i \in 1..Len(s) : i \in Nat /\ s[i] = Item(s, i)
  BY ListNow
<1>3. LinksOf(mem, l, s)
  BY DEF ListInv
<1> HIDE DEF s
<1>6. ASSUME NEW i \in 1..Len(s)
      PROVE  mem.prev[s[i]] = Item(s, i - 1) /\ mem.next[s[i]] = Item(s, i + 1)
  <2>1. i \in Nat /\ Item(s, i) # Null /\ s[i] = Item(s, i)
    BY <1>2
  <2>2. mem.prev[Item(s, i)] = Item(s, i - 1) /\ mem.next[Item(s, i)] = Item(s, i + 1)
    BY <1>3, <2>1, Zenon DEF LinksOf
  <2> QED  BY <2>1, <2>2
<1>4. /\ 0 \in Nat /\ 1 \in Nat /\ Len(s) + 1 \in Nat /\ 0 \notin 1..Len(s) /\ Len(s) + 1 \notin 1..Len(s)
      /\ (1 \in 1..Len(s) <=> Len(s) # 0) /\ (Len(s) \in 1..Len(s) <=> Len(s) # 0)
  <2> DEFINE m == Len(s)
  <2>1. m \in Nat
    BY <1>2
  <2> HIDE DEF m
  <2>2. /\ 0 \in Nat /\ 1 \in Nat /\ m + 1 \in Nat /\ 0 \notin 1..m /\ m + 1 \notin 1..m
        /\ (1 \in 1..m <=> m # 0) /\ (m \in 1..m <=> m # 0)
    BY <2>1, SMT
  <2> QED  BY <2>2, Zenon DEF m
<1>5. /\ Item(s, 0) = Null /\ Item(s, Len(s) + 1) = Null
      /\ mem.head[l] = Null <=> Len(s) = 0
      /\ mem.tail[l] = Null <=> Len(s) = 0
  BY <1>1, <1>2, <1>4, Zenon
<1> QED  BY <1>1, <1>5, <1>6 DEF s

\* list_append links a node behind the tail.
LEMMA AppendNodePreserves ==
  ASSUME ListInv, NEW l \in Lists, NEW n \in Nodes, AppendNode(l, n)
  PROVE  ListInv'
<1> DEFINE s == seq[l]
<1>1. n \in FreeNodes /\ loose' = loose /\ seq' = [seq EXCEPT ![l] = s \o <<n>>]
  BY DEF AppendNode
<1>2. mem' = [prev |-> [mem.prev EXCEPT ![n] = mem.tail[l]],
              next |-> Put([mem.next EXCEPT ![n] = Null], mem.tail[l], n),
              head |-> [mem.head EXCEPT ![l] = IF @ = Null THEN n ELSE @],
              tail |-> [mem.tail EXCEPT ![l] = n]]
  BY ListNow, Zenon DEF AppendNode, MemType
<1>3. mem' \in MemType
  <2>1. Put([mem.next EXCEPT ![n] = Null], mem.tail[l], n) \in [Nodes -> Nodes \cup {Null}]
    BY ListNow DEF Put
  <2>2. /\ [mem.prev EXCEPT ![n] = mem.tail[l]] \in [Nodes -> Nodes \cup {Null}]
        /\ [mem.head EXCEPT ![l] = IF @ = Null THEN n ELSE @] \in [Lists -> Nodes \cup {Null}]
        /\ [mem.tail EXCEPT ![l] = n] \in [Lists -> Nodes \cup {Null}]
    BY ListNow
  <2> QED  BY <1>2, <2>1, <2>2, Zenon DEF MemType
<1>4. PutLinks(mem, mem', l, Item(s, Len(s)), Item(s, Len(s) + 1), n, n)
  <2>1. mem'.head = IF mem.tail[l] = Null THEN [mem.head EXCEPT ![l] = n] ELSE mem.head
    <3>1. mem.tail[l] = Null <=> mem.head[l] = Null
      BY ListEnds
    <3>2. [mem.head EXCEPT ![l] = mem.head[l]] = mem.head
      BY ListNow
    <3> QED  BY <1>2, <3>1, <3>2, Zenon
  <2> QED  BY <1>1, <1>2, <2>1, ListEnds, FreeOutside DEF PutLinks, Put
<1>5. Len(s) \in 0..Len(s) /\ PutIn(s, Len(s), <<n>>, s \o <<n>>)
  BY ListNow, NodePutIn
<1> QED  BY <1>1, <1>3, <1>4, <1>5, NodePut

\* list_append_left links a node before the head.
LEMMA AppendLeftPreserves ==
  ASSUME ListInv, NEW l \in Lists, NEW n \in Nodes, AppendLeft(l, n)
  PROVE  ListInv'
<1> DEFINE s == seq[l]
<1>1. n \in FreeNodes /\ loose' = loose /\ seq' = [seq EXCEPT ![l] = <<n>> \o s]
  BY DEF AppendLeft
<1>2. mem' = [prev |-> Put([mem.prev EXCEPT ![n] = Null], mem.head[l], n),
              next |-> [mem.next EXCEPT ![n] = mem.head[l]],
              head |-> [mem.head EXCEPT ![l] = n],
              tail |-> [mem.tail EXCEPT ![l] = IF @ = Null THEN n ELSE @]]
  BY ListNow, Zenon DEF AppendLeft, MemType
<1>3. mem' \in MemType
  <2>1. Put([mem.prev EXCEPT ![n] = Null], mem.head[l], n) \in [Nodes -> Nodes \cup {Null}]
    BY ListNow DEF Put
  <2>2. /\ [mem.next EXCEPT ![n] = mem.head[l]] \in [Nodes -> Nodes \cup {Null}]
        /\ [mem.head EXCEPT ![l] = n] \in [Lists -> Nodes \cup {Null}]
        /\ [mem.tail EXCEPT ![l] = IF @ = Null THEN n ELSE @] \in [Lists -> Nodes \cup {Null}]
    BY ListNow
  <2> QED  BY <1>2, <2>1, <2>2, Zenon DEF MemType
<1>4. PutLinks(mem, mem', l, Item(s, 0), Item(s, 0 + 1), n, n)
  <2>1. mem'.tail = IF mem.head[l] = Null THEN [mem.tail EXCEPT ![l] = n] ELSE mem.tail
    <3>1. mem.tail[l] = Null <=> mem.head[l] = Null
      BY ListEnds
    <3>2. [mem.tail EXCEPT ![l] = mem.tail[l]] = mem.tail
      BY ListNow
    <3> QED  BY <1>2, <3>1, <3>2, Zenon
  <2>2. Item(s, 0 + 1) = mem.head[l] /\ Item(s, 0) = Null
    <3>1. 0 + 1 = 1
      OBVIOUS
    <3> QED  BY <3>1, ListEnds
  <2> QED  BY <1>1, <1>2, <2>1, <2>2, FreeOutside DEF PutLinks, Put
<1>5. 0 \in 0..Len(s) /\ PutIn(s, 0, <<n>>, <<n>> \o s)
  BY ListNow, NodePutIn
<1> QED  BY <1>1, <1>3, <1>4, <1>5, NodePut

\* list_insert_node links a node between two, or at an end.
LEMMA InsertNodePreserves ==
  ASSUME ListInv, NEW l \in Lists, NEW i \in 0..Len(seq[l]), NEW n \in Nodes, InsertNode(l, i, n)
  PROVE  ListInv'
<1> DEFINE s == seq[l]
           after == Item(s, i)
           next_ == Item(s, i + 1)
<1>1. n \in FreeNodes /\ loose' = loose /\ seq' = [seq EXCEPT ![l] = InsertAt(s, i + 1, n)]
  BY DEF InsertNode
<1>2. /\ after = (IF i = 0 THEN Null ELSE s[i]) /\ (after = Null <=> i = 0)
      /\ next_ = IF i = 0 THEN mem.head[l] ELSE mem.next[s[i]]
      /\ i \in Nat /\ i + 1 \in Nat /\ after \in Nodes \cup {Null} /\ next_ \in Nodes \cup {Null}
  <2>1. i \in Nat /\ i + 1 \in Nat /\ (i # 0 => i \in 1..Len(s)) /\ 0 + 1 = 1
    BY ListNow, SMT
  <2> QED  BY <2>1, ListNow, ListEnds
<1> HIDE DEF after, next_
<1>3. /\ next_ # Null
      /\ mem' = [mem EXCEPT !.head[l] = IF i = 0 THEN n ELSE @,
                            !.next = Put([@ EXCEPT ![n] = next_], after, n),
                            !.prev[n] = after, !.prev[next_] = n]
  BY <1>2, Zenon DEF InsertNode
<1>4. mem' = [prev |-> [[mem.prev EXCEPT ![n] = after] EXCEPT ![next_] = n],
              next |-> Put([mem.next EXCEPT ![n] = next_], after, n),
              head |-> [mem.head EXCEPT ![l] = IF i = 0 THEN n ELSE @],
              tail |-> mem.tail]
  BY <1>3, ListNow, Zenon DEF MemType
<1>5. mem' \in MemType
  <2>1. Put([mem.next EXCEPT ![n] = next_], after, n) \in [Nodes -> Nodes \cup {Null}]
    BY <1>2, ListNow DEF Put
  <2>2. /\ [[mem.prev EXCEPT ![n] = after] EXCEPT ![next_] = n] \in [Nodes -> Nodes \cup {Null}]
        /\ [mem.head EXCEPT ![l] = IF i = 0 THEN n ELSE @] \in [Lists -> Nodes \cup {Null}]
    BY <1>2, ListNow
  <2> QED  BY <1>4, <2>1, <2>2, ListNow, Zenon DEF MemType
<1>6. PutLinks(mem, mem', l, after, next_, n, n)
  <2>1. [mem.head EXCEPT ![l] = mem.head[l]] = mem.head
    BY ListNow
  <2>2. mem'.head = IF after = Null THEN [mem.head EXCEPT ![l] = n] ELSE mem.head
    BY <1>2, <1>4, <2>1, Zenon
  <2> QED  BY <1>1, <1>3, <1>4, <2>2, FreeOutside, Zenon DEF PutLinks, Put
<1>7. PutIn(s, i, <<n>>, InsertAt(s, i + 1, n))
  BY ListNow, NodePutIn
<1> QED  BY <1>1, <1>5, <1>6, <1>7, NodePut DEF after, next_
\* One node, cut out at the end, at the front or in between.
LEMMA NodeCutOut ==
  ASSUME NEW s \in Seq(Nodes), Len(s) # 0
  PROVE  /\ CutOut(s, Len(s), Len(s), Front(s))
         /\ CutOut(s, 1, 1, Tail(s))
         /\ \A i \in 1..Len(s) : CutOut(s, i, i, RemoveAt(s, i))
<1>1. Len(s) \in Nat /\ \A i \in Int : i - i + 1 = 1
  BY SMT
<1>2. ASSUME NEW i \in 1..Len(s), NEW t, t \in Seq(Nodes), Len(t) = Len(s) - 1,
             \A n \in Nat : Item(t, n) = Item(s, IF n < i THEN n ELSE n + 1)
      PROVE  CutOut(s, i, i, t)
  <2>1. i - i + 1 = 1
    BY <1>1, SMT
  <2> QED  BY <1>2, <2>1, Zenon DEF CutOut
<1>3. CutOut(s, Len(s), Len(s), Front(s))
  <2> DEFINE t == Front(s)
  <2>1. /\ t \in Seq(Nodes) /\ Len(t) = Len(s) - 1
        /\ \A n \in Nat : Item(t, n) = IF n = Len(s) THEN Null ELSE Item(s, n)
    BY FrontItems
  <2> HIDE DEF t
  <2>2. \A n \in Nat : /\ ~(n < Len(s)) => n + 1 \notin 1..Len(s) /\ (n # Len(s) => n \notin 1..Len(s))
                       /\ n < Len(s) => n # Len(s)
    BY <1>1, SMT
  <2>3. \A n \in Nat : Item(t, n) = Item(s, IF n < Len(s) THEN n ELSE n + 1)
    BY <2>1, <2>2, Zenon DEF Item
  <2>4. Len(s) \in 1..Len(s)
    BY <1>1, SMT
  <2>5. CutOut(s, Len(s), Len(s), t)
    BY <1>2, <2>1, <2>3, <2>4
  <2> QED  BY <2>5 DEF t
<1>4. CutOut(s, 1, 1, Tail(s))
  <2> DEFINE t == Tail(s)
  <2>1. /\ t \in Seq(Nodes) /\ Len(t) = Len(s) - 1
        /\ \A n \in Nat : Item(t, n) = IF n = 0 THEN Null ELSE Item(s, n + 1)
    BY TailItems
  <2> HIDE DEF t
  <2>2. 0 \notin 1..Len(s) /\ \A n \in Nat : n < 1 <=> n = 0
    BY <1>1, SMT
  <2>3. \A n \in Nat : Item(t, n) = Item(s, IF n < 1 THEN n ELSE n + 1)
    BY <2>1, <2>2, Zenon DEF Item
  <2>4. 1 \in 1..Len(s)
    BY <1>1, SMT
  <2>5. CutOut(s, 1, 1, t)
    BY <1>2, <2>1, <2>3, <2>4
  <2> QED  BY <2>5 DEF t
<1>5. ASSUME NEW i \in 1..Len(s) PROVE CutOut(s, i, i, RemoveAt(s, i))
  <2> DEFINE t == RemoveAt(s, i)
  <2>1. /\ t \in Seq(Nodes) /\ Len(t) = Len(s) - 1
        /\ \A n \in Nat : Item(t, n) = Item(s, IF n < i THEN n ELSE n + 1)
    BY RemoveItems
  <2> HIDE DEF t
  <2>2. CutOut(s, i, i, t)
    BY <1>2, <2>1
  <2> QED  BY <2>2 DEF t
<1> QED  BY <1>3, <1>4, <1>5

\* The pointers after nodes between p and q were cut out of list l.
MemAfterCut(m, l, p, q) ==
  [prev |-> IF q = Null THEN m.prev ELSE [m.prev EXCEPT ![q] = p],
   next |-> IF p = Null THEN m.next ELSE [m.next EXCEPT ![p] = q],
   head |-> IF p = Null THEN [m.head EXCEPT ![l] = q] ELSE m.head,
   tail |-> IF q = Null THEN [m.tail EXCEPT ![l] = p] ELSE m.tail]

\* The pointers by their parts.
LEMMA MemOf ==
  ASSUME NEW pv \in [Nodes -> Nodes \cup {Null}], NEW nx \in [Nodes -> Nodes \cup {Null}],
         NEW hd \in [Lists -> Nodes \cup {Null}], NEW tl \in [Lists -> Nodes \cup {Null}],
         NEW m, m = [prev |-> pv, next |-> nx, head |-> hd, tail |-> tl]
  PROVE  m \in MemType /\ m.prev = pv /\ m.next = nx /\ m.head = hd /\ m.tail = tl
<1>1. m.prev = pv /\ m.next = nx /\ m.head = hd /\ m.tail = tl
  OBVIOUS
<1>2. m \in MemType
  BY Zenon DEF MemType
<1> QED  BY <1>1, <1>2

\* MemAfterCut makes of the pointers what a cut has to make of them.
LEMMA MemCut ==
  ASSUME ListInv, NEW l \in Lists, NEW p \in Nodes \cup {Null}, NEW q \in Nodes \cup {Null},
         mem' = MemAfterCut(mem, l, p, q)
  PROVE  mem' \in MemType /\ CutLinks(mem, mem', l, p, q)
<1> DEFINE pv == IF q = Null THEN mem.prev ELSE [mem.prev EXCEPT ![q] = p]
           nx == IF p = Null THEN mem.next ELSE [mem.next EXCEPT ![p] = q]
           hd == IF p = Null THEN [mem.head EXCEPT ![l] = q] ELSE mem.head
           tl == IF q = Null THEN [mem.tail EXCEPT ![l] = p] ELSE mem.tail
<1>1. /\ pv \in [Nodes -> Nodes \cup {Null}] /\ nx \in [Nodes -> Nodes \cup {Null}]
      /\ hd \in [Lists -> Nodes \cup {Null}] /\ tl \in [Lists -> Nodes \cup {Null}]
  BY ListNow
<1>2. mem' = [prev |-> pv, next |-> nx, head |-> hd, tail |-> tl]
  BY DEF MemAfterCut
<1>3. CutLinks(mem, mem', l, p, q) <=>
        mem'.prev = pv /\ mem'.next = nx /\ mem'.head = hd /\ mem'.tail = tl
  BY DEF CutLinks
<1> HIDE DEF pv, nx, hd, tl
<1> QED  BY <1>1, <1>2, <1>3, MemOf

\* One node cut out.
LEMMA NodeCut ==
  ASSUME ListInv, NEW l \in Lists, NEW i \in 1..Len(seq[l]), NEW t, CutOut(seq[l], i, i, t),
         seq' = [seq EXCEPT ![l] = t], loose' = loose,
         mem' = MemAfterCut(mem, l, Item(seq[l], i - 1), Item(seq[l], i + 1))
  PROVE  ListInv'
<1> DEFINE p == Item(seq[l], i - 1)
           q == Item(seq[l], i + 1)
<1>1. /\ p \in Nodes \cup {Null} /\ q \in Nodes \cup {Null} /\ loose' \in Seq(Nodes)
      /\ i \in i..Len(seq[l])
  <2>1. i - 1 \in Nat /\ i + 1 \in Nat /\ i \in i..Len(seq[l])
    BY ListNow, SMT
  <2> QED  BY <2>1, ListNow
<1>2. mem' \in MemType /\ CutLinks(mem, mem', l, p, q)
  BY <1>1, MemCut
<1> QED  BY <1>1, <1>2, ListCut

\* list_pop takes the tail.
LEMMA ListPopPreserves ==
  ASSUME ListInv, NEW l \in Lists, ListPop(l)
  PROVE  ListInv'
<1> DEFINE s == seq[l]
           last == Item(s, Len(s) - 1)
<1>1. Len(s) # 0 /\ loose' = loose /\ seq' = [seq EXCEPT ![l] = Front(s)]
  BY ListEnds DEF ListPop
<1>2. Len(s) \in 1..Len(s) /\ CutOut(s, Len(s), Len(s), Front(s))
  <2>1. s \in Seq(Nodes) /\ Len(s) \in Nat
    BY ListNow
  <2> QED  BY <1>1, <2>1, NodeCutOut, SMT
<1>3. last = mem.prev[mem.tail[l]] /\ Item(s, Len(s) + 1) = Null
  BY <1>2, ListEnds, ListNow
<1> HIDE DEF last
<1>4. mem' = [mem EXCEPT !.tail[l] = last, !.next = Put(@, last, Null),
                        !.head[l] = IF last = Null THEN Null ELSE @]
  BY <1>3 DEF ListPop
<1>5. mem' = [prev |-> mem.prev, next |-> Put(mem.next, last, Null),
              head |-> [mem.head EXCEPT ![l] = IF last = Null THEN Null ELSE @],
              tail |-> [mem.tail EXCEPT ![l] = last]]
  BY <1>4, ListNow, Zenon DEF MemType
<1>6. [mem.head EXCEPT ![l] = mem.head[l]] = mem.head
  BY ListNow
<1>7. mem' = MemAfterCut(mem, l, last, Null)
  BY <1>5, <1>6, Zenon DEF MemAfterCut, Put
<1> QED  BY <1>1, <1>2, <1>3, <1>7, NodeCut DEF last

\* list_popleft takes the head.
LEMMA PopLeftPreserves ==
  ASSUME ListInv, NEW l \in Lists, PopLeft(l)
  PROVE  ListInv'
<1> DEFINE s == seq[l]
           first == Item(s, 1 + 1)
<1>1. Len(s) # 0 /\ loose' = loose /\ seq' = [seq EXCEPT ![l] = Tail(s)]
  BY ListEnds DEF PopLeft
<1>2. 1 \in 1..Len(s) /\ CutOut(s, 1, 1, Tail(s)) /\ 1 - 1 = 0
  <2>1. s \in Seq(Nodes) /\ Len(s) \in Nat
    BY ListNow
  <2> QED  BY <1>1, <2>1, NodeCutOut, SMT
<1>3. first = mem.next[mem.head[l]] /\ Item(s, 0) = Null
  BY <1>2, ListEnds, ListNow
<1> HIDE DEF first
<1>4. mem' = [mem EXCEPT !.head[l] = first, !.prev = Put(@, first, Null),
                        !.tail[l] = IF first = Null THEN Null ELSE @]
  BY <1>3 DEF PopLeft
<1>5. mem' = [prev |-> Put(mem.prev, first, Null), next |-> mem.next,
              head |-> [mem.head EXCEPT ![l] = first],
              tail |-> [mem.tail EXCEPT ![l] = IF first = Null THEN Null ELSE @]]
  BY <1>4, ListNow, Zenon DEF MemType
<1>6. [mem.tail EXCEPT ![l] = mem.tail[l]] = mem.tail
  BY ListNow
<1>7. mem' = MemAfterCut(mem, l, Null, first)
  BY <1>5, <1>6, Zenon DEF MemAfterCut, Put
<1> QED  BY <1>1, <1>2, <1>3, <1>7, NodeCut DEF first

\* list_remove_node takes a node from anywhere.
LEMMA RemoveNodePreserves ==
  ASSUME ListInv, NEW l \in Lists, NEW i \in 1..Len(seq[l]), RemoveNode(l, i)
  PROVE  ListInv'
<1> DEFINE s == seq[l]
           p == Item(s, i - 1)
           q == Item(s, i + 1)
<1>1. p = mem.prev[s[i]] /\ q = mem.next[s[i]] /\ CutOut(s, i, i, RemoveAt(s, i))
  <2>1. s \in Seq(Nodes) /\ Len(s) # 0
    BY ListNow, SMT
  <2> QED  BY <2>1, ListEnds, NodeCutOut
<1>2. loose' = loose /\ seq' = [seq EXCEPT ![l] = RemoveAt(s, i)]
  BY DEF RemoveNode
<1> HIDE DEF p, q
<1>3. \/ /\ p = Null
         /\ mem' = [mem EXCEPT !.head[l] = q, !.prev = Put(@, q, Null),
                               !.tail[l] = IF q = Null THEN Null ELSE @]
      \/ p # Null /\ q = Null /\ mem' = [mem EXCEPT !.tail[l] = p, !.next[p] = Null]
      \/ p # Null /\ q # Null /\ mem' = [mem EXCEPT !.prev[q] = p, !.next[p] = q]
  BY <1>1 DEF RemoveNode
<1>4. mem' = MemAfterCut(mem, l, p, q)
  <2>1. CASE p = Null
    <3>1. mem' = [mem EXCEPT !.head[l] = q, !.prev = Put(@, q, Null),
                            !.tail[l] = IF q = Null THEN Null ELSE @]
      BY <1>3, <2>1
    <3>2. mem' = [prev |-> Put(mem.prev, q, Null), next |-> mem.next,
                  head |-> [mem.head EXCEPT ![l] = q],
                  tail |-> [mem.tail EXCEPT ![l] = IF q = Null THEN Null ELSE @]]
      BY <3>1, ListNow, Zenon DEF MemType
    <3>3. [mem.tail EXCEPT ![l] = mem.tail[l]] = mem.tail
      BY ListNow
    <3> QED  BY <2>1, <3>2, <3>3, Zenon DEF MemAfterCut, Put
  <2>2. CASE p # Null /\ q = Null
    <3>1. mem' = [mem EXCEPT !.tail[l] = p, !.next[p] = Null]
      BY <1>3, <2>2
    <3>2. mem' = [prev |-> mem.prev, next |-> [mem.next EXCEPT ![p] = Null],
                  head |-> mem.head, tail |-> [mem.tail EXCEPT ![l] = p]]
      BY <3>1, ListNow, Zenon DEF MemType
    <3> QED  BY <2>2, <3>2, Zenon DEF MemAfterCut
  <2>3. CASE p # Null /\ q # Null
    <3>1. mem' = [mem EXCEPT !.prev[q] = p, !.next[p] = q]
      BY <1>3, <2>3
    <3>2. mem' = [prev |-> [mem.prev EXCEPT ![q] = p], next |-> [mem.next EXCEPT ![p] = q],
                  head |-> mem.head, tail |-> mem.tail]
      BY <3>1, ListNow, Zenon DEF MemType
    <3> QED  BY <2>3, <3>2, Zenon DEF MemAfterCut
  <2> QED  BY <2>1, <2>2, <2>3
<1> QED  BY <1>1, <1>2, <1>4, NodeCut DEF p, q

\* list_remove_nodes takes a range of nodes, which stay linked to each other.
LEMMA RemoveNodesPreserves ==
  ASSUME ListInv, NEW l \in Lists, NEW i \in 1..Len(seq[l]), NEW j \in i..Len(seq[l]), RemoveNodes(l, i, j)
  PROVE  ListInv'
<1> DEFINE s == seq[l]
           t == SubSeq(s, 1, i - 1) \o SubSeq(s, j + 1, Len(s))
           p == Item(s, i - 1)
           q == Item(s, j + 1)
<1>1. /\ s \in Seq(Nodes) /\ Len(s) \in Nat /\ i \in Nat /\ j \in Nat
      /\ i \in 1..(Len(s) + 1) /\ j \in (i - 1)..Len(s) /\ j \in 1..Len(s)
      /\ i - 1 \in Nat /\ j + 1 \in Nat
  BY ListNow, SMT
<1>2. p = mem.prev[s[i]] /\ q = mem.next[s[j]]
  BY <1>1, ListEnds
<1>3. p \in Nodes \cup {Null} /\ q \in Nodes \cup {Null} /\ (p = Null => q # Null)
  <2>1. i - 1 \notin 1..Len(s) => j + 1 \in 1..Len(s)
    BY <1>1, SMTT(40) DEF RemoveNodes
  <2> QED  BY <1>1, <2>1, ListNow
<1>4. CutOut(s, i, j, t)
  BY <1>1, CutItems DEF CutOut
<1>5. /\ loose' \in Seq(Nodes)
      /\ \A n \in Nat : Item(loose', n) = IF n \in 1..(j - i + 1) THEN Item(s, n + i - 1) ELSE Null
  <2> DEFINE u == SubSeq(s, i, j)
  <2>1. u \in Seq(Nodes) /\ Len(u) = j - i + 1 /\ \A n \in 1..Len(u) : u[n] = s[n + i - 1]
    BY <1>1, SMTT(60)
  <2>2. loose' = u
    BY DEF RemoveNodes
  <2> HIDE DEF u
  <2>3. \A n \in 1..(j - i + 1) : n + i - 1 \in 1..Len(s)
    BY <1>1, SMT
  <2>4. \A n \in Nat : Item(u, n) = IF n \in 1..(j - i + 1) THEN Item(s, n + i - 1) ELSE Null
    BY <2>1, <2>3, Zenon DEF Item
  <2> QED  BY <2>1, <2>2, <2>4
<1> HIDE DEF p, q
<1>6. \/ p = Null /\ mem' = [mem EXCEPT !.head[l] = q, !.prev = Put(@, q, Null)]
      \/ p # Null /\ q = Null /\ mem' = [mem EXCEPT !.next[p] = Null, !.tail[l] = p]
      \/ p # Null /\ q # Null /\ mem' = [mem EXCEPT !.next[p] = q, !.prev[q] = p]
  BY <1>2 DEF RemoveNodes
<1>7. mem' = MemAfterCut(mem, l, p, q)
  <2>1. CASE p = Null
    <3>1. mem' = [mem EXCEPT !.head[l] = q, !.prev = Put(@, q, Null)]
      BY <1>6, <2>1
    <3>2. mem' = [prev |-> Put(mem.prev, q, Null), next |-> mem.next,
                  head |-> [mem.head EXCEPT ![l] = q], tail |-> mem.tail]
      BY <3>1, ListNow, Zenon DEF MemType
    <3> QED  BY <1>3, <2>1, <3>2, Zenon DEF MemAfterCut, Put
  <2>2. CASE p # Null /\ q = Null
    <3>1. mem' = [mem EXCEPT !.next[p] = Null, !.tail[l] = p]
      BY <1>6, <2>2
    <3>2. mem' = [prev |-> mem.prev, next |-> [mem.next EXCEPT ![p] = Null],
                  head |-> mem.head, tail |-> [mem.tail EXCEPT ![l] = p]]
      BY <3>1, ListNow, Zenon DEF MemType
    <3> QED  BY <2>2, <3>2, Zenon DEF MemAfterCut
  <2>3. CASE p # Null /\ q # Null
    <3>1. mem' = [mem EXCEPT !.next[p] = q, !.prev[q] = p]
      BY <1>6, <2>3
    <3>2. mem' = [prev |-> [mem.prev EXCEPT ![q] = p], next |-> [mem.next EXCEPT ![p] = q],
                  head |-> mem.head, tail |-> mem.tail]
      BY <3>1, ListNow, Zenon DEF MemType
    <3> QED  BY <2>3, <3>2, Zenon DEF MemAfterCut
  <2> QED  BY <2>1, <2>2, <2>3
<1>8. mem' \in MemType /\ CutLinks(mem, mem', l, p, q)
  BY <1>3, <1>7, MemCut
<1>9. seq' = [seq EXCEPT ![l] = t]
  BY DEF RemoveNodes
<1> HIDE DEF t
<1> QED  BY <1>4, <1>5, <1>8, <1>9, ListCut DEF p, q

\* All the nodes are a range too.
LEMMA TakeAllPreserves ==
  ASSUME ListInv, NEW l \in Lists, TakeAll(l)
  PROVE  ListInv'
<1> DEFINE s == seq[l]
<1>1. /\ seq' = [seq EXCEPT ![l] = <<>>] /\ loose' = s /\ s # <<>>
      /\ mem' = [mem EXCEPT !.head[l] = Null, !.tail[l] = Null]
  BY DEF TakeAll
<1>2. s \in Seq(Nodes) /\ Len(s) \in Nat /\ Len(s) # 0
  <2>1. s \in Seq(Nodes) /\ Len(s) \in Nat
    BY ListNow
  <2> QED  BY <1>1, <2>1, SMT
<1>3. /\ 1 \in 1..Len(s) /\ Len(s) \in 1..Len(s) /\ Len(s) - 1 + 1 = Len(s) /\ 1 - 1 = 0
      /\ \A n \in Nat : n + 1 - 1 = n /\ 0 \notin 1..Len(s) /\ n + Len(s) \in Nat
      /\ \A n \in Nat : (n < 1 => n = 0) /\ (~(n < 1) => n + Len(s) \notin 1..Len(s))
  BY <1>2, SMT
<1>4. CutOut(s, 1, Len(s), <<>>)
  <2>1. \A n \in Nat : n < 1 \/ ~(n < 1) => (IF n < 1 THEN n ELSE n + Len(s)) \notin 1..Len(s)
    BY <1>3
  <2>2. <<>> \in Seq(Nodes) /\ Len(<<>>) = 0 /\ \A n \in Nat : n \notin 1..Len(<<>>)
    BY SMT
  <2>3. \A n \in Nat : Item(<<>>, n) = Item(s, IF n < 1 THEN n ELSE n + Len(s))
    BY <2>1, <2>2, Zenon DEF Item
  <2>4. Len(s) - 1 + 1 = Len(s) /\ Len(<<>>) = Len(s) - Len(s)
    BY <1>2, <2>2, SMT
  <2> QED  BY <2>2, <2>3, <2>4, Zenon DEF CutOut
<1>5. \A n \in Nat : Item(s, n) = IF n \in 1..(Len(s) - 1 + 1) THEN Item(s, n + 1 - 1) ELSE Null
  <2>1. \A n \in Nat : Item(s, n) = IF n \in 1..Len(s) THEN Item(s, n) ELSE Null
    BY DEF Item
  <2>2. Len(s) - 1 + 1 = Len(s) /\ \A n \in Nat : n + 1 - 1 = n
    BY <1>3
  <2> QED  BY <2>1, <2>2, Zenon
<1>6. mem' = MemAfterCut(mem, l, Null, Null)
  <2>1. mem' = [prev |-> mem.prev, next |-> mem.next, head |-> [mem.head EXCEPT ![l] = Null],
                tail |-> [mem.tail EXCEPT ![l] = Null]]
    BY <1>1, ListNow, Zenon DEF MemType
  <2> QED  BY <2>1, Zenon DEF MemAfterCut
<1>7. mem' \in MemType /\ CutLinks(mem, mem', l, Null, Null)
  BY <1>6, MemCut
<1>8. Item(s, 1 - 1) = Null /\ Item(s, Len(s) + 1) = Null
  BY <1>3, ListEnds
<1> DEFINE t == <<>>
<1>9. CutOut(s, 1, Len(s), t) /\ seq' = [seq EXCEPT ![l] = t]
  BY <1>1, <1>4
<1> HIDE DEF t
<1>10. CutLinks(mem, mem', l, Item(s, 1 - 1), Item(s, Len(s) + 1))
  BY <1>7, <1>8
<1>11. \A n \in Nat : Item(loose', n) = IF n \in 1..(Len(s) - 1 + 1) THEN Item(s, n + 1 - 1) ELSE Null
  BY <1>1, <1>5
<1> QED  BY <1>1, <1>2, <1>3, <1>7, <1>9, <1>10, <1>11, ListCut, ZenonT(60)

\* list_insert_nodes puts a range back in one piece.
LEMMA InsertNodesPreserves ==
  ASSUME ListInv, NEW l \in Lists, NEW i \in 0..Len(seq[l]), InsertNodes(l, i)
  PROVE  ListInv'
<1> DEFINE s == seq[l]
           t == SubSeq(s, 1, i) \o loose \o SubSeq(s, i + 1, Len(s))
           p == Item(s, i)
           q == Item(s, i + 1)
           u == Item(loose, 1)
           b == Item(loose, Len(loose))
<1>1. /\ seq' = [seq EXCEPT ![l] = t] /\ loose' = <<>> /\ loose # <<>>
  BY DEF InsertNodes
<1>2. /\ s \in Seq(Nodes) /\ Len(s) \in Nat /\ i \in Nat /\ i + 1 \in Nat /\ loose \in Seq(Nodes)
      /\ Len(loose) \in Nat /\ Len(loose) # 0 /\ 1 \in 1..Len(loose) /\ Len(loose) \in 1..Len(loose)
      /\ (i # 0 => i \in 1..Len(s))
  <2>1. s \in Seq(Nodes) /\ Len(s) \in Nat /\ loose \in Seq(Nodes)
    BY ListNow
  <2>2. Len(loose) \in Nat /\ Len(loose) # 0
    BY <1>1, <2>1, SMT
  <2>3. /\ i \in Nat /\ i + 1 \in Nat /\ (i # 0 => i \in 1..Len(s))
        /\ 1 \in 1..Len(loose) /\ Len(loose) \in 1..Len(loose)
    BY <2>1, <2>2, SMT
  <2> QED  BY <2>1, <2>2, <2>3
<1>3. Outside(loose)
  BY <1>2 DEF Outside, ListInv, ListsApart
<1>4. PutIn(s, i, loose, t)
  BY <1>2, PutItems DEF PutIn
<1>5. u = loose[1] /\ b = Last(loose) /\ u \in Nodes /\ b \in Nodes
  BY <1>2, ItemsOf, ListNow DEF Last
<1>6. p \in Nodes \cup {Null} /\ q \in Nodes \cup {Null} /\ p # b
  BY <1>2, <1>3, <1>5, ListNow DEF Outside
<1> HIDE DEF u, b
<1> DEFINE pv == Put([mem.prev EXCEPT ![u] = p], q, b)
           nx == Put([mem.next EXCEPT ![b] = q], p, u)
           hd == IF p = Null THEN [mem.head EXCEPT ![l] = u] ELSE mem.head
           tl == IF q = Null THEN [mem.tail EXCEPT ![l] = b] ELSE mem.tail
<1>7. mem' = [prev |-> pv, next |-> nx, head |-> hd, tail |-> tl]
  <2>1. CASE Len(s) = 0
    <3>1. mem.head[l] = Null /\ i = 0 /\ p = Null /\ q = Null
      <4>1. i = 0
        BY <2>1, SMT
      <4> QED  BY <2>1, <4>1, ListEnds
    <3>2. mem.prev[u] = Null /\ mem.next[b] = Null /\ mem' = [mem EXCEPT !.head[l] = u, !.tail[l] = b]
      BY <1>5, <3>1 DEF InsertNodes
    <3>3. [mem.prev EXCEPT ![u] = Null] = mem.prev /\ [mem.next EXCEPT ![b] = Null] = mem.next
      BY <3>2, ListNow
    <3>4. pv = mem.prev /\ nx = mem.next /\ hd = [mem.head EXCEPT ![l] = u] /\ tl = [mem.tail EXCEPT ![l] = b]
      BY <3>1, <3>3 DEF Put
    <3>5. mem' = [prev |-> mem.prev, next |-> mem.next, head |-> [mem.head EXCEPT ![l] = u],
                  tail |-> [mem.tail EXCEPT ![l] = b]]
      BY <3>2, ListNow, Zenon DEF MemType
    <3> QED  BY <3>4, <3>5
  <2>2. CASE Len(s) # 0
    <3>1. mem.head[l] # Null
      BY <2>2, ListEnds
    <3>2. i # 0
      BY <3>1, SMT DEF InsertNodes
    <3>3. p = s[i] /\ q = mem.next[s[i]] /\ p # Null
      BY <1>2, <3>2, ListNow, ListEnds
    <3> HIDE DEF p, q
    <3>4. mem' = [mem EXCEPT !.next = [@ EXCEPT ![p] = u, ![b] = q],
                            !.prev = Put([@ EXCEPT ![u] = p], q, b),
                            !.tail[l] = IF q = Null THEN b ELSE @]
      BY <1>5, <3>1, <3>3 DEF InsertNodes
    <3>5. mem' = [prev |-> Put([mem.prev EXCEPT ![u] = p], q, b),
                  next |-> [mem.next EXCEPT ![p] = u, ![b] = q],
                  head |-> mem.head, tail |-> [mem.tail EXCEPT ![l] = IF q = Null THEN b ELSE @]]
      BY <3>4, ListNow, Zenon DEF MemType
    <3>6. [mem.next EXCEPT ![p] = u, ![b] = q] = nx
      <4>1. [mem.next EXCEPT ![p] = u, ![b] = q] = [[mem.next EXCEPT ![b] = q] EXCEPT ![p] = u]
        BY <1>5, <1>6, <3>3, ListNow DEF p, q
      <4> QED  BY <3>3, <4>1 DEF Put
    <3>7. [mem.tail EXCEPT ![l] = IF q = Null THEN b ELSE @] = tl
      <4>1. [mem.tail EXCEPT ![l] = mem.tail[l]] = mem.tail
        BY ListNow
      <4> QED  BY <4>1, Zenon
    <3>8. hd = mem.head
      BY <3>3
    <3> QED  BY <3>5, <3>6, <3>7, <3>8
  <2> QED  BY <2>1, <2>2
<1>8. pv \in [Nodes -> Nodes \cup {Null}] /\ nx \in [Nodes -> Nodes \cup {Null}]
  BY <1>5, <1>6, ListNow DEF Put
<1>9. hd \in [Lists -> Nodes \cup {Null}] /\ tl \in [Lists -> Nodes \cup {Null}]
  BY <1>5, <1>6, ListNow
<1>10. PutLinks(mem, mem', l, p, q, u, b) <=>
         mem'.prev = pv /\ mem'.next = nx /\ mem'.head = hd /\ mem'.tail = tl
  BY DEF PutLinks
<1>11. mem' \in MemType /\ PutLinks(mem, mem', l, p, q, u, b)
  <2> HIDE DEF pv, nx, hd, tl
  <2> QED  BY <1>7, <1>8, <1>9, <1>10, MemOf
<1> HIDE DEF t, pv, nx, hd, tl
<1> QED  BY <1>1, <1>3, <1>4, <1>11, ListPut DEF u, b

\* The nodes of a range that is given up belong to no list.
LEMMA DiscardPreserves ==
  ASSUME ListInv, Discard
  PROVE  ListInv'
<1>1. loose' = <<>> /\ mem' = mem /\ seq' = seq
  BY DEF Discard
<1>2. loose' \in Seq(Nodes) /\ \A n \in Nat : Item(loose', n) = Null
  BY <1>1, SMT DEF Item
<1>3. ListsApart(seq', loose')
  BY <1>1, <1>2 DEF ListInv, ListsApart
<1>4. RangeLinked(mem', loose')
  BY <1>2 DEF RangeLinked
<1> QED  BY <1>1, <1>2, <1>3, <1>4 DEF ListInv

\* The pointers of the lists always link their nodes, both ways and apart from each other.
LEMMA ListInvHolds == ListSpec => []ListInv
<1>1. ASSUME ListInit PROVE ListInv
  <2>1. /\ mem = [prev |-> [n \in Nodes |-> Null], next |-> [n \in Nodes |-> Null],
                  head |-> [l \in Lists |-> Null], tail |-> [l \in Lists |-> Null]]
        /\ seq = [l \in Lists |-> <<>>] /\ loose = <<>>
    BY <1>1 DEF ListInit
  <2>2. <<>> \in Seq(Nodes) /\ \A n \in Nat : Item(<<>>, n) = Null
    BY SMT DEF Item
  <2>3. mem \in MemType
    BY <2>1, Zenon DEF MemType
  <2>4. ASSUME NEW l \in Lists PROVE LinksOf(mem, l, seq[l])
    <3>1. mem.head[l] = Null /\ mem.tail[l] = Null /\ seq[l] = <<>>
      BY <2>1
    <3>2. Item(<<>>, 1) = Null /\ Item(<<>>, Len(<<>>)) = Null
      BY SMT DEF Item
    <3> QED  BY <2>2, <3>1, <3>2 DEF LinksOf
  <2>5. ListsApart(seq, loose) /\ RangeLinked(mem, loose)
    BY <2>1, <2>2 DEF ListsApart, RangeLinked
  <2> QED  BY <2>1, <2>2, <2>3, <2>4, <2>5 DEF ListInv
<1>2. ASSUME ListInv, ListNext PROVE ListInv'
  <2>1. ASSUME NEW l \in Lists, NEW n \in Nodes, AppendNode(l, n) PROVE ListInv'
    BY <1>2, <2>1, AppendNodePreserves
  <2>2. ASSUME NEW l \in Lists, NEW n \in Nodes, AppendLeft(l, n) PROVE ListInv'
    BY <1>2, <2>2, AppendLeftPreserves
  <2>3. ASSUME NEW l \in Lists, ListPop(l) PROVE ListInv'
    BY <1>2, <2>3, ListPopPreserves
  <2>4. ASSUME NEW l \in Lists, PopLeft(l) PROVE ListInv'
    BY <1>2, <2>4, PopLeftPreserves
  <2>5. ASSUME NEW l \in Lists, TakeAll(l) PROVE ListInv'
    BY <1>2, <2>5, TakeAllPreserves
  <2>6. ASSUME NEW l \in Lists, NEW i \in 1..Len(seq[l]), RemoveNode(l, i) PROVE ListInv'
    BY <1>2, <2>6, RemoveNodePreserves
  <2>7. ASSUME NEW l \in Lists, NEW i \in 1..Len(seq[l]), NEW j \in i..Len(seq[l]), RemoveNodes(l, i, j)
        PROVE  ListInv'
    BY <1>2, <2>7, RemoveNodesPreserves
  <2>8. ASSUME NEW l \in Lists, NEW i \in 0..Len(seq[l]), InsertNodes(l, i) PROVE ListInv'
    BY <1>2, <2>8, InsertNodesPreserves
  <2>9. ASSUME NEW l \in Lists, NEW i \in 0..Len(seq[l]), NEW n \in Nodes, InsertNode(l, i, n)
        PROVE  ListInv'
    BY <1>2, <2>9, InsertNodePreserves
  <2>10. ASSUME Discard PROVE ListInv'
    BY <1>2, <2>10, DiscardPreserves
  <2> QED  BY <1>2, <2>1, <2>2, <2>3, <2>4, <2>5, <2>6, <2>7, <2>8, <2>9, <2>10
           DEF ListNext, Enqueue, Dequeue
<1>3. ASSUME ListInv, UNCHANGED listVars PROVE ListInv'
  <2>1. mem' = mem /\ seq' = seq /\ loose' = loose
    BY <1>3 DEF listVars
  <2> QED  BY <1>3, <2>1, Zenon DEF ListInv
<1> QED  BY <1>1, <1>2, <1>3, PTL DEF ListSpec

\* The pointers of the lists always point to nodes.
THEOREM ListTypeCorrect == ListSpec => []ListTypeOK
<1>1. ASSUME ListInv PROVE ListTypeOK
  <2>1. Range(loose) \subseteq Nodes /\ \A l \in Lists : Range(seq[l]) \subseteq Nodes
    BY <1>1, ListNow DEF Range
  <2> QED  BY <1>1, <2>1, ListNow DEF ListTypeOK, MemType
<1> QED  BY <1>1, ListInvHolds, PTL

\* Whatever calls came before, a list read from its head and read back from its tail holds
\* what the calls put into it: what list_find_node, the peeks of a queue and LIST_FOREACH read.
THEOREM ListsAgree == ListSpec => []LinksAgree
<1>1. ASSUME ListInv PROVE LinksAgree
  BY <1>1, ListEnds DEF LinksAgree, PeekFirst, PeekLast
<1> QED  BY <1>1, ListInvHolds, PTL
==============================================================================
