------------------------------- MODULE PcapGen -------------------------------
(***************************************************************************)
(* The capture writer of src/pcap_gen.c: packets gather in a cache that is *)
(* written out when the next one does not fit.  Lengths are in units of a  *)
(* record header; writing, flushing and closing the file may each fail.    *)
(***************************************************************************)
EXTENDS Integers, SequencesExt

CONSTANTS CacheSize,    \* PCAP_CACHE_SIZE
          Lengths,      \* of packets, those that fit the cache
          MaxPackets    \* bounds a capture

RecordHeader == 1

\* pcap_add does not check that a packet fits the empty cache; its callers must.
ASSUME PcapAssumption ==
  /\ CacheSize \in Nat /\ Lengths \subseteq Nat /\ MaxPackets \in Nat
  /\ \A length \in Lengths : RecordHeader + length <= CacheSize

VARIABLES state,              \* "none", "open", "done", or "failed" when pcap_stop failed
          cached, offset, file,
          accepted            \* the packets that pcap_add took

pcapVars == <<state, cached, offset, file, accepted>>

FileHeader == [id |-> -1, len |-> 0]
\* A file in which a failing fwrite left a part of what it was given: no more is said of it.
Torn == [id |-> -2, len |-> 0]

PcapInit ==
  /\ state = "none" /\ cached = <<>> /\ offset = 0 /\ file = <<>> /\ accepted = <<>>

\* When the header cannot be written, the capture is freed and its file stays open.
Start ==
  /\ state = "none"
  /\ \/ state' = "open" /\ file' = <<FileHeader>>
     \/ state' = "failed" /\ file' = <<Torn>>
  /\ UNCHANGED <<cached, offset, accepted>>

Written == IF file = <<Torn>> THEN file ELSE file \o cached

\* A flush that leaves in the cache what it wrote.
FlushKeeps ==
  IF offset = 0 THEN {[ok |-> FALSE, cached |-> cached, offset |-> 0, file |-> file]}
  ELSE {[ok |-> FALSE, cached |-> cached, offset |-> offset, file |-> <<Torn>>]}
       \cup [ok : BOOLEAN, cached : {cached}, offset : {0}, file : {Written}]

\* What pcap_flush may come to.  An empty cache takes the path of a failed write, since
\* fwrite of no bytes answers 0; a failing fflush comes after the cache was emptied.
PcapFlush ==
  IF offset = 0 THEN {[ok |-> FALSE, cached |-> cached, offset |-> 0, file |-> file]}
  ELSE {[ok |-> FALSE, cached |-> cached, offset |-> offset, file |-> <<Torn>>]}
       \cup [ok : BOOLEAN, cached : {<<>>}, offset : {0}, file : {Written}]

Store(packet, from) ==
  /\ cached' = Append(from.cached, packet)
  /\ offset' = from.offset + RecordHeader + packet.len
  /\ file' = from.file
  /\ accepted' = Append(accepted, packet)

Add(length) ==
  LET packet == [id |-> Len(accepted), len |-> length]
  IN /\ state = "open" /\ Len(accepted) < MaxPackets
     /\ \/ /\ offset + RecordHeader + length <= CacheSize
           /\ Store(packet, [cached |-> cached, offset |-> offset, file |-> file])
        \/ /\ offset + RecordHeader + length > CacheSize
           /\ \E o \in PcapFlush :
                \/ o.ok /\ Store(packet, o)
                \/ /\ ~o.ok
                   /\ cached' = o.cached /\ offset' = o.offset /\ file' = o.file
                   /\ UNCHANGED accepted
     /\ UNCHANGED state

Stop ==
  /\ state = "open"
  /\ \E o \in PcapFlush, closed \in BOOLEAN :
       /\ state' = IF o.ok /\ closed THEN "done" ELSE "failed"
       /\ file' = o.file
  /\ cached' = <<>> /\ offset' = 0
  /\ UNCHANGED accepted

PcapNext == Start \/ Stop \/ \E length \in Lengths : Add(length)

PcapSpec == PcapInit /\ [][PcapNext]_pcapVars
-----------------------------------------------------------------------------
\* The variables have their types, and the cache is never written beyond its end.
PcapTypeOK ==
  /\ state \in {"none", "open", "done", "failed"}
  /\ offset = FoldLeft(LAMBDA n, p : n + RecordHeader + p.len, 0, cached)
  /\ offset \in 0..CacheSize

\* Unless a write failed half way, file and cache hold the header and then each accepted
\* packet once, in order; after a pcap_stop that succeeded the file alone does.
PacketsInOrder ==
  file # <<Torn>> =>
    /\ state = "open" => file \o cached = <<FileHeader>> \o accepted
    /\ state = "done" => file = <<FileHeader>> \o accepted
=============================================================================
