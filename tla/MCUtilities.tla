----------------------------- MODULE MCUtilities -----------------------------
(***************************************************************************)
(* The sequential components of the library, none of which calls another:  *)
(* a behaviour picks one and runs it alone.                                *)
(***************************************************************************)
EXTENDS HashMap, List, SList, Slab, DisjointSet, Filo, StrLib, PcapGen, Logger, StrUtils, Files, TLC

CONSTANTS k1, k2, k3, k4, d1, d2, d3, f1, f2, f3

VARIABLE active

\* All in one bucket until the map grows, when k2 and k4 move to another.
Colliding == k1 :> 0 @@ k2 :> 4 @@ k3 :> 8 @@ k4 :> 4

\* Three directories and three files, in them or at the root.
Tree == d1 :> Root @@ d2 :> d1 @@ d3 :> Root @@ f1 :> Root @@ f2 :> d1 @@ f3 :> d2

Components == {"map", "list", "slist", "slab", "dsu", "filo", "str", "pcap", "log", "word", "file"}

Init ==
  /\ active \in Components
  /\ HashInit /\ ListInit /\ SListInit /\ LogInit /\ SlabInit /\ DsuInit /\ PcapInit /\ StrInit
  /\ WordInit /\ (active # "word" => word = <<>>)
  /\ FilesInit /\ (active # "file" => there = {} /\ len = 0)
  /\ FiloInit /\ (active = "filo" \/ \A i \in Slots : filo_buffer[i] = CHOOSE e \in Elems : TRUE)

Next ==
  \/ /\ active = "map" /\ HashNext
     /\ UNCHANGED <<active, listVars, slistVars, logVars, slabVars, dsuVars, filoVars,
                    pcapVars, strVars, wordVars, fileVars>>
  \/ /\ active = "list" /\ ListNext
     /\ UNCHANGED <<active, hashVars, slistVars, logVars, slabVars, dsuVars, filoVars,
                    pcapVars, strVars, wordVars, fileVars>>
  \/ /\ active = "slist" /\ SListNext
     /\ UNCHANGED <<active, hashVars, listVars, logVars, slabVars, dsuVars, filoVars,
                    pcapVars, strVars, wordVars, fileVars>>
  \/ /\ active = "log" /\ LogNext
     /\ UNCHANGED <<active, hashVars, listVars, slistVars, slabVars, dsuVars, filoVars,
                    pcapVars, strVars, wordVars, fileVars>>
  \/ /\ active = "slab" /\ SlabNext
     /\ UNCHANGED <<active, hashVars, listVars, slistVars, logVars, dsuVars, filoVars,
                    pcapVars, strVars, wordVars, fileVars>>
  \/ /\ active = "dsu" /\ DsuNext
     /\ UNCHANGED <<active, hashVars, listVars, slistVars, logVars, slabVars, filoVars,
                    pcapVars, strVars, wordVars, fileVars>>
  \/ /\ active = "filo" /\ FiloNext
     /\ UNCHANGED <<active, hashVars, listVars, slistVars, logVars, slabVars, dsuVars,
                    pcapVars, strVars, wordVars, fileVars>>
  \/ /\ active = "pcap" /\ PcapNext
     /\ UNCHANGED <<active, hashVars, listVars, slistVars, logVars, slabVars, dsuVars,
                    filoVars, strVars, wordVars, fileVars>>
  \/ /\ active = "str" /\ StrNext
     /\ UNCHANGED <<active, hashVars, listVars, slistVars, logVars, slabVars, dsuVars,
                    filoVars, pcapVars, wordVars, fileVars>>
  \/ /\ active = "word" /\ WordNext
     /\ UNCHANGED <<active, hashVars, listVars, slistVars, logVars, slabVars, dsuVars,
                    filoVars, pcapVars, strVars, fileVars>>
  \/ /\ active = "file" /\ FilesNext
     /\ UNCHANGED <<active, hashVars, listVars, slistVars, logVars, slabVars, dsuVars,
                    filoVars, pcapVars, strVars, wordVars>>

vars == <<active, hashVars, listVars, slistVars, logVars, slabVars, dsuVars,
          filoVars, pcapVars, strVars, wordVars, fileVars>>

Spec == Init /\ [][Next]_vars /\ WF_dsuVars(Find)
-----------------------------------------------------------------------------
\* Every component keeps its types and its bounds: no call writes outside a buffer.
TypeOK ==
  /\ HashTypeOK /\ ListTypeOK /\ SListTypeOK /\ LogTypeOK /\ WordTypeOK /\ FilesTypeOK
  /\ SlabTypeOK /\ DsuTypeOK /\ FiloTypeOK /\ PcapTypeOK /\ StrTypeOK
==============================================================================
