-------------------------------- MODULE Files --------------------------------
(***************************************************************************)
(* src/file.c: fs_path_walk over a tree of files while another process     *)
(* creates and deletes some, and the two functions that read a whole file  *)
(* while another process writes it.  A path is the sequence of its names   *)
(* and of its separators.  Allocation is taken to succeed.                 *)
(***************************************************************************)
EXTENDS Integers, SequencesExt, FiniteSets

CONSTANTS Dirs,      \* the directories of the tree
          Parent,    \* of each entry, the directory that holds it
          Root, SEP,
          Capacity,  \* of both arrays at first, 32 in the code
          Chunk,     \* the first chunk of file_read_all, 2048 in the code
          MaxChanges, MaxFile  \* bounds: of changes to the tree, of a file

Entries == DOMAIN Parent

\* Names are no separators, and whoever climbs from an entry comes to the root.
ASSUME TreeAssumption ==
  /\ Dirs \subseteq Entries /\ IsFiniteSet(Entries) /\ Root # SEP /\ {Root, SEP} \cap Entries = {}
  /\ \E depth \in [Entries -> 0..Cardinality(Entries)] :
       \A e \in Entries : Parent[e] = Root \/ (Parent[e] \in Dirs /\ depth[Parent[e]] < depth[e])
ASSUME FilesAssumption ==
  Capacity \in Nat \ {0, 1} /\ Chunk \in Nat \ {0} /\ MaxFile \in Nat /\ MaxChanges \in Nat

VARIABLES there,            \* the entries that exist
          steady,           \* those that existed throughout the walk
          changes,
          dirs, files,      \* the arrays, [item, size]
          open, unread,       \* the path of the open directory, what readdir will return
          walk,             \* "idle", "walking", "done", "exited", "freed"
          len, same,        \* a file's length; it did not change during the call
          rd                \* the call that reads it

walkVars == <<steady, dirs, files, open, unread, walk>>
fileVars == <<there, changes, walkVars, len, same, rd>>

NoArray == [item |-> <<>>, size |-> 0]
Closed == <<>>
NoRead == [fn |-> "none", rc |-> 1, size |-> 0, used |-> 0, chunk |-> 0]

\* The directories that hold e exist in every set of entries that has it.
Trees == {t \in SUBSET Entries : \A e \in t : Parent[e] \in t \cup {Root}}

FilesInit ==
  /\ there \in Trees /\ steady = {} /\ changes = 0
  /\ dirs = NoArray /\ files = NoArray /\ open = Closed /\ unread = {} /\ walk = "idle"
  /\ len \in 0..MaxFile /\ same = TRUE /\ rd = NoRead

\* path_join: no second separator after a first path that ends with one.
PathJoin(p1, p2) ==
  IF p2 # <<>> /\ p2[1] = SEP THEN p2
  ELSE IF p1 # <<>> /\ Last(p1) # SEP THEN p1 \o <<SEP>> \o p2
  ELSE p1 \o p2

\* The directory that a path leads to; the names of entries are different.
At(path) == IF Last(path) = SEP THEN Last(Front(path)) ELSE Last(path)

\* A walk that stores a directory over the one that is there.
StoredOver(array, path) ==
  LET under == IF At(path) \in Dirs /\ array.item # <<>> THEN Front(array.item) ELSE array.item
      item == Append(under, path)
  IN [item |-> item, size |-> IF Len(item) = array.size THEN 2 * array.size ELSE array.size]

\* The next entry of an array, which doubles as soon as it is full.
Stored(array, path) ==
  LET item == Append(array.item, path)
  IN [item |-> item, size |-> IF Len(item) = array.size THEN 2 * array.size ELSE array.size]

\* Walks and reads are looked at apart: one in an empty tree, the other with an empty file.
BeginWalk(root) ==
  /\ walk = "idle" /\ rd = NoRead /\ len = 0
  /\ walk' = "walking"
  /\ dirs' = [item |-> <<root>>, size |-> Capacity]
  /\ files' = [item |-> <<>>, size |-> Capacity]
  /\ steady' = there
  /\ UNCHANGED <<there, changes, open, unread, len, same, rd>>

\* opendir of the last directory, which ends the program if that is no longer there.
OpenDir ==
  /\ walk = "walking" /\ open = Closed /\ dirs.item # <<>>
  /\ dirs' = [dirs EXCEPT !.item = Front(@)]
  /\ LET dir == At(Last(dirs.item))
     IN IF dir \in there \cup {Root}
        THEN open' = Last(dirs.item) /\ unread' = {e \in there : Parent[e] = dir} /\ UNCHANGED walk
        ELSE walk' = "exited" /\ UNCHANGED <<open, unread>>
  /\ UNCHANGED <<there, changes, steady, files, len, same, rd>>

\* A file, or a directory to walk later.
ReadDir(e) ==
  LET path == PathJoin(open, <<e>>)
  IN /\ e \in unread
     /\ unread' = unread \ {e}
     /\ IF e \in Dirs THEN dirs' = Stored(dirs, path) /\ UNCHANGED files
        ELSE files' = Stored(files, path) /\ UNCHANGED dirs
     /\ UNCHANGED <<there, changes, steady, open, walk, len, same, rd>>

CloseDir ==
  /\ open # Closed /\ unread = {}
  /\ open' = Closed
  /\ UNCHANGED <<there, changes, steady, dirs, files, unread, walk, len, same, rd>>

\* The array of the directories is freed, the array of the files gets its final NULL.
EndWalk ==
  /\ walk = "walking" /\ open = Closed /\ dirs.item = <<>>
  /\ walk' = "done" /\ dirs' = NoArray
  /\ UNCHANGED <<there, changes, steady, files, open, unread, len, same, rd>>

FreeFiles ==
  /\ walk = "done"
  /\ walk' = "freed" /\ files' = NoArray
  /\ UNCHANGED <<there, changes, steady, dirs, open, unread, len, same, rd>>

\* Another process creates or deletes an entry; whether a directory that is being read
\* still returns it is open.
Changed(e) ==
  /\ walk = "walking" /\ changes < MaxChanges /\ changes' = changes + 1
  /\ IF e \in there THEN there' = there \ {e} ELSE there' = there \cup {e}
  /\ there' \in Trees
  /\ steady' = steady \ {e}
  /\ \/ UNCHANGED unread
     \/ e \in unread /\ unread' = unread \ {e}
     \/ e \notin there /\ open # Closed /\ Parent[e] = At(open) /\ unread' = unread \cup {e}
  /\ UNCHANGED <<dirs, files, open, walk, len, same, rd>>

\* read_binary_file measures the file and then reads; file_read_all reads by chunks.
BeginRead(fn) ==
  /\ rd = NoRead /\ walk = "idle" /\ there = {}
  /\ rd' = IF fn = "binary" THEN [NoRead EXCEPT !.fn = fn, !.size = len]
           ELSE [NoRead EXCEPT !.fn = fn, !.chunk = Chunk]
  /\ UNCHANGED <<there, changes, walkVars, len, same>>

\* fread answers the number of items, one of `size' bytes, 0 if these are none.
BinaryRead ==
  /\ rd.fn = "binary" /\ rd.rc = 1
  /\ rd' = [rd EXCEPT !.used = IF len < rd.size THEN len ELSE rd.size,
                      !.rc = IF rd.size > 0 /\ len >= rd.size THEN 0 ELSE -1]
  /\ UNCHANGED <<there, changes, walkVars, len, same>>

\* A chunk twice as large each time; the last step makes room for the NUL.
ReadChunk ==
  LET size == IF rd.used + rd.chunk + 1 > rd.size THEN rd.used + rd.chunk + 1 ELSE rd.size
      rest == IF len > rd.used THEN len - rd.used ELSE 0
      n == IF rest < rd.chunk THEN rest ELSE rd.chunk
  IN /\ rd.fn = "all" /\ rd.rc = 1
     /\ rd' = IF n < rd.chunk
              THEN [rd EXCEPT !.used = @ + n, !.rc = 0, !.size = rd.used + n + 1]
              ELSE [rd EXCEPT !.used = @ + n, !.size = size, !.chunk = 2 * @]
     /\ UNCHANGED <<there, changes, walkVars, len, same>>

\* An error of a read, after which file_read_all gives nothing.
ReadFails ==
  /\ rd.fn # "none" /\ rd.rc = 1
  /\ rd' = [rd EXCEPT !.rc = -1]
  /\ UNCHANGED <<there, changes, walkVars, len, same>>

FileWritten ==
  /\ rd.rc = 1 /\ rd.fn # "none" /\ same
  /\ len' \in 0..MaxFile \ {len} /\ same' = FALSE
  /\ UNCHANGED <<there, changes, walkVars, rd>>

FilesNext ==
  \/ \E root \in {<<Root>>, <<Root, SEP>>} : BeginWalk(root)
  \/ OpenDir \/ CloseDir \/ EndWalk \/ FreeFiles
  \/ \E e \in Entries : ReadDir(e) \/ Changed(e)
  \/ \E fn \in {"binary", "all"} : BeginRead(fn)
  \/ BinaryRead \/ ReadChunk \/ ReadFails \/ FileWritten

FilesSpec == FilesInit /\ [][FilesNext]_fileVars
-----------------------------------------------------------------------------
\* Neither array is written beyond its end, the final NULL included, nor is the buffer of
\* file_read_all.
FilesTypeOK ==
  /\ there \in Trees /\ walk \in {"idle", "walking", "done", "exited", "freed"}
  /\ walk \in {"walking", "done"} => Len(files.item) < files.size
  /\ walk = "walking" => Len(dirs.item) < dirs.size
  /\ rd.fn = "all" /\ rd.rc = 0 => rd.used < rd.size
  /\ rd.fn = "all" /\ rd.rc = 1 => rd.used <= rd.size

\* The path of an entry, the same whether the root was given with a separator or without.
PathTo[e \in Entries] == IF Parent[e] = Root THEN <<Root, SEP, e>> ELSE PathTo[Parent[e]] \o <<SEP, e>>

\* A walk that returns "all files it contains" (fs_path_walk, file.c:150): each file that
\* was there throughout once and no directory, whatever happens to the other entries; and
\* a read that succeeds while nobody writes has the whole file.
ReadsComplete ==
  /\ walk = "done" =>
       /\ \A e \in steady \ Dirs : Cardinality({i \in DOMAIN files.item : files.item[i] = PathTo[e]}) = 1
       /\ Range(files.item) \subseteq {PathTo[e] : e \in Entries \ Dirs}
  /\ rd.rc = 0 /\ same => rd.used = len
=============================================================================
