-------------------------------- MODULE Slab --------------------------------
(***************************************************************************)
(* The fixed-size block allocator of src/slab.c: a blob cut into units,    *)
(* each with a header (leased, canary) before its data.  Blocks are held   *)
(* by clients that give back only what they hold: the canary does not      *)
(* tell a block freed twice from a held one.                               *)
(***************************************************************************)
EXTENDS Integers

CONSTANTS Clients,
          BlockSize, BlobSize   \* slab_size and blob_size, in bytes

Header == 8     \* sizeof(struct slab_unit)
Word == 8       \* sizeof(void *)
\* A unit without room for its header.
SizeOfData == ((BlockSize + Word - 1) \div Word) * Word

UnitSize == ((BlockSize + Word - 1) \div Word) * Word + Header
Count == BlobSize \div UnitSize
Units == 0..(Count - 1)

\* slab_init answers -1 unless a unit fits.
ASSUME SlabAssumption == BlockSize \in Nat /\ BlobSize \in Nat /\ UnitSize <= BlobSize

VARIABLES leased, canary,   \* per unit; canary: whether it holds 0xdeadbeaf
          held              \* the units whose block each client holds

slabVars == <<leased, canary, held>>

SlabInit ==
  /\ leased = [i \in Units |-> FALSE]
  /\ canary = [i \in Units |-> FALSE]
  /\ held = [c \in Clients |-> {}]

\* The first unit that is not leased; when there is none the answer is -1.
Alloc(c) ==
  \E i \in Units :
    /\ ~leased[i] /\ \A j \in 0..(i - 1) : leased[j]
    /\ leased' = [leased EXCEPT ![i] = TRUE]
    /\ canary' = [canary EXCEPT ![i] = TRUE]
    /\ held' = [held EXCEPT ![c] = @ \cup {i}]

\* Without the canary slab_free changes nothing and answers -1, and the client keeps it.
Release(c, i) ==
  /\ i \in held[c]
  /\ canary[i]
  /\ leased' = [leased EXCEPT ![i] = FALSE]
  /\ held' = [held EXCEPT ![c] = @ \ {i}]
  /\ UNCHANGED canary

SlabNext == \E c \in Clients : Alloc(c) \/ \E i \in Units : Release(c, i)

SlabSpec == SlabInit /\ [][SlabNext]_slabVars
-----------------------------------------------------------------------------
\* The flags are flags and the clients hold units.
SlabTypeOK ==
  /\ leased \in [Units -> BOOLEAN] /\ canary \in [Units -> BOOLEAN]
  /\ held \in [Clients -> SUBSET Units]

\* A unit is leased while a client holds its block and only then, so that none is lost
\* and none is given out twice; its canary stands, so that its holder can free it.
LeasedIsHeld ==
  /\ \A i \in Units : leased[i] <=> \E c \in Clients : i \in held[c]
  /\ \A c, d \in Clients : c # d => held[c] \cap held[d] = {}
  /\ \A c \in Clients : \A i \in held[c] : canary[i]

DataAt(i) == i * UnitSize + Header

\* Leases and holders agree, and the bytes of two held blocks are apart, with room for a
\* header between them, and inside the blob: a client that writes its block harms no
\* other and no header.
BlocksDisjoint ==
  /\ LeasedIsHeld
  /\ \A c, d \in Clients : \A i \in held[c], j \in held[d] :
       /\ DataAt(i) + BlockSize <= BlobSize
       /\ i < j => DataAt(i) + BlockSize + Header <= DataAt(j)
=============================================================================
