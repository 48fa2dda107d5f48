--------------------------- MODULE BusServerProofs ---------------------------
(***************************************************************************)
(* Theorems about bus_server.c for any peers and any number of clients:    *)
(* the types, that each connection is served by one work, and that the     *)
(* server implements the abstract bus.                                     *)
(***************************************************************************)
EXTENDS BusServer, SequenceTheorems, TLAPS

-----------------------------------------------------------------------------
(* Types *)

LEMMA SingletonSeq == ASSUME NEW S, NEW e \in S PROVE <<e>> \in Seq(S)
BY SMT

Publications == [by : Peers \cup {NoPeer}, upto : Nat]

LEMMA WorksAreNumbers ==
  /\ Works \subseteq 1 .. MaxClients
  /\ 0 \in 0 .. MaxClients /\ 0 \in 0 .. MaxClients + 1
  /\ \A w \in Works : w + 1 \in 0 .. MaxClients + 1
  /\ 1 \in 0 .. MaxClients + 1
BY ClientsAssumption, SMT DEF Works

LEMMA TypesInit == Init => TypeOK
<1> SUFFICES ASSUME Init PROVE TypeOK
  OBVIOUS
<1>1. g_message_id \in Nat
  BY LeftAssumption DEF Init
<1>2. published \in Seq(Publications)
  <2>1. Publication(NoPeer, 0) \in Publications
    BY DEF Publication, Publications
  <2>2. published = <<>> \/ published = <<Publication(NoPeer, 0)>>
    BY DEF Init
  <2> QED  BY <2>1, <2>2, SingletonSeq, EmptySeq
<1>3. /\ heard \in [Peers -> Seq(Nat)]
      /\ message_id \in [Works -> Nat] /\ bus_data \in [Works -> Nat]
      /\ sent \in [Peers -> Nat] /\ taken \in [Peers -> Nat]
  BY SMT DEF Init
<1>4. /\ mode \in Modes /\ hung \subseteq Peers
      /\ sock \in [Peers -> {"none", "pending", "accepted", "closed"}]
      /\ client \in [Works -> Peers \cup {NoPeer}]
      /\ server \in {"up", "stopping", "stopped"}
  BY DEF Init
<1>5. pc \in [Works -> Places] /\ \A w \in Works : ~ InUse(w)
  BY DEF Init, Places, InUse, InProgress
<1>6. /\ arrival \in Peers \cup {NoPeer} /\ scan \in 0 .. MaxClients + 1
      /\ acceptor \in 0 .. MaxClients
  BY WorksAreNumbers DEF Init
<1> QED  BY <1>1, <1>2, <1>3, <1>4, <1>5, <1>6 DEF TypeOK, Publications

(* A step that leaves the works and what they hold alone *)
LEMMA TypesKept ==
  ASSUME TypeOK, UNCHANGED <<mode, published, g_message_id, workVars, heard>>,
         sock' \in [Peers -> {"none", "pending", "accepted", "closed"}],
         hung' \subseteq Peers, sent' \in [Peers -> Nat], taken' \in [Peers -> Nat],
         arrival' \in Peers \cup {NoPeer}, scan' \in 0 .. MaxClients + 1,
         acceptor' \in 0 .. MaxClients, server' \in {"up", "stopping", "stopped"}
  PROVE  TypeOK'
BY DEF TypeOK, workVars, InUse, InProgress

LEMMA TypesPeerStep ==
  ASSUME TypeOK, NEW p \in Peers, Connect(p) \/ Send(p) \/ HangUp(p)
  PROVE  TypeOK'
<1> USE DEF busVars, mainVars
<1>1. UNCHANGED <<mode, published, g_message_id, workVars, heard, taken, mainVars>>
  BY DEF Connect, Send, HangUp
<1>2. sock' \in [Peers -> {"none", "pending", "accepted", "closed"}]
  BY DEF TypeOK, Connect, Send, HangUp
<1>3. hung' \subseteq Peers
  BY DEF TypeOK, Connect, Send, HangUp
<1>4. sent' \in [Peers -> Nat]
  <2>1. CASE Send(p)
    BY <2>1, SMT DEF TypeOK, Send
  <2>2. CASE Connect(p) \/ HangUp(p)
    BY <2>2 DEF TypeOK, Connect, HangUp
  <2> QED  BY <2>1, <2>2
<1> QED  BY <1>1, <1>2, <1>3, <1>4, TypesKept DEF TypeOK

LEMMA TypesAcceptorStep ==
  ASSUME TypeOK, AcceptorStep \/ Stopped
  PROVE  TypeOK'
<1> USE DEF peerVars, busVars, mainVars, workVars
<1>1. CASE ~ Queue
  <2>1. /\ UNCHANGED <<mode, published, g_message_id, workVars, heard, hung, sent, taken>>
        /\ sock' \in [Peers -> {"none", "pending", "accepted", "closed"}]
    BY <1>1 DEF AcceptorStep, Skip, Refuse, Accept, SeesStarted, Stopped, TypeOK
  <2>2. arrival' \in Peers \cup {NoPeer} /\ server' \in {"up", "stopping", "stopped"}
    BY <1>1 DEF AcceptorStep, Skip, Refuse, Accept, SeesStarted, Stopped, TypeOK
  <2>3. /\ acceptor' = acceptor \/ acceptor' = 0
        /\ \/ scan' = scan \/ scan' = 0 \/ scan' = 1
           \/ scan \in Works /\ scan' = scan + 1
    BY <1>1 DEF AcceptorStep, Skip, Refuse, Accept, SeesStarted, Stopped
  <2>4. scan \in 0 .. MaxClients + 1 /\ acceptor \in 0 .. MaxClients
    BY DEF TypeOK
  <2>5. scan' \in 0 .. MaxClients + 1 /\ acceptor' \in 0 .. MaxClients
    BY <2>3, <2>4, WorksAreNumbers
  <2> QED  BY <2>1, <2>2, <2>5, TypesKept DEF TypeOK
<1>2. CASE Queue
  <2>1. /\ sock' \in [Peers -> {"none", "pending", "accepted", "closed"}]
        /\ UNCHANGED <<mode, hung, sent, taken, g_message_id, published, server, heard,
                       message_id, bus_data>>
    BY <1>2 DEF Queue, TypeOK
  <2>2. /\ client' \in [Works -> Peers \cup {NoPeer}] /\ pc' \in [Works -> Places]
        /\ arrival' = NoPeer /\ scan' = 0
    BY <1>2 DEF Queue, TypeOK, Places
  <2>3. acceptor' \in 0 .. MaxClients
    BY <1>2, ClientsAssumption, SMT DEF Queue, Works
  <2>4. \A v \in Works : InUse(v)' => client'[v] \in Peers
    BY <1>2 DEF Queue, TypeOK, InUse, InProgress
  <2> QED  BY <2>1, <2>2, <2>3, <2>4, WorksAreNumbers DEF TypeOK
<1> QED  BY <1>1, <1>2

LEMMA TypesStop == ASSUME TypeOK, Stop PROVE TypeOK'
<1>1. /\ UNCHANGED <<mode, published, g_message_id, workVars, heard, sock, hung, sent, taken,
                     arrival, scan, acceptor>>
      /\ server' \in {"up", "stopping", "stopped"}
  BY DEF Stop, peerVars, busVars
<1> QED  BY <1>1, TypesKept DEF TypeOK

LEMMA TypesWorkStep ==
  ASSUME TypeOK, NEW w \in Works, WorkStep(w)
  PROVE  TypeOK'
<1> USE DEF peerVars, busVars, mainVars, Goto, Forget
<1>1. UNCHANGED <<mode, hung, sent, owed, mainVars>>
  BY DEF WorkStep, Start, Read, ReadNothing, ReadFails, Publish, Look, Copy, Write,
         WriteFails, Leave, Die
<1>2. pc' \in [Works -> Places]
  <2>1. PICK l \in Places : pc' = [pc EXCEPT ![w] = l]
    BY DEF WorkStep, Start, Read, ReadNothing, ReadFails, Publish, Look, Copy, Write,
           WriteFails, Leave, Die, Places
  <2> QED  BY <2>1 DEF TypeOK
<1>3. InUse(w)
  BY DEF WorkStep, Start, Read, ReadNothing, ReadFails, Publish, Look, Copy, Write,
         WriteFails, Leave, Die, InUse, InProgress
<1>4. /\ client' \in [Works -> Peers \cup {NoPeer}]
      /\ sock' \in [Peers -> {"none", "pending", "accepted", "closed"}]
  BY <1>3 DEF WorkStep, Start, Read, ReadNothing, ReadFails, Publish, Look, Copy, Write,
              WriteFails, Leave, Die, TypeOK
<1>5. \A v \in Works : InUse(v)' => client'[v] \in Peers
  <2>1. ASSUME NEW v \in Works, v # w PROVE client'[v] = client[v] /\ pc'[v] = pc[v]
    BY <2>1 DEF WorkStep, Start, Read, ReadNothing, ReadFails, Publish, Look, Copy, Write,
                WriteFails, Leave, Die, TypeOK
  <2>2. ~ InUse(w)' \/ client'[w] = client[w]
    BY DEF WorkStep, Start, Read, ReadNothing, ReadFails, Publish, Look, Copy, Write,
           WriteFails, Leave, Die, TypeOK, InUse, InProgress
  <2> QED  BY <1>3, <2>1, <2>2 DEF TypeOK, InUse, InProgress
<1>6. /\ message_id' \in [Works -> Nat] /\ bus_data' \in [Works -> Nat]
      /\ taken' \in [Peers -> Nat] /\ g_message_id' \in Nat
  <2>1. client[w] \in Peers
    BY <1>3 DEF TypeOK
  <2>2. CASE Read(w)
    BY <2>1, <2>2, SMT DEF Read, TypeOK
  <2>3. CASE Copy(w)
    <3>1. Len(published) \in Nat
      BY LenProperties DEF TypeOK
    <3> QED  BY <2>3, <3>1 DEF Copy, TypeOK
  <2>4. CASE Publish(w) \/ Write(w) \/ Leave(w)
    <3>1. /\ message_id' = message_id \/ message_id' = [message_id EXCEPT ![w] = 0]
          /\ bus_data' = [bus_data EXCEPT ![w] = 0]
          /\ taken' = taken
          /\ g_message_id' = g_message_id \/ g_message_id' = message_id[w]
      BY <2>4 DEF Publish, Write, Leave
    <3>2. message_id \in [Works -> Nat] /\ bus_data \in [Works -> Nat] /\ g_message_id' \in Nat
      BY <3>1 DEF TypeOK
    <3>3. message_id' \in [Works -> Nat]
      BY <3>1, <3>2, SMT
    <3>4. bus_data' \in [Works -> Nat]
      BY <3>1, <3>2, SMT
    <3> QED  BY <3>1, <3>2, <3>3, <3>4 DEF TypeOK
  <2>5. CASE UNCHANGED <<message_id, bus_data, taken, g_message_id>>
    BY <2>5 DEF TypeOK
  <2>6. \/ Read(w) \/ Copy(w) \/ Publish(w) \/ Write(w) \/ Leave(w)
        \/ UNCHANGED <<message_id, bus_data, taken, g_message_id>>
    BY DEF WorkStep, Start, ReadNothing, ReadFails, Look, WriteFails, Die
  <2> QED  BY <2>2, <2>3, <2>4, <2>5, <2>6
<1>7. published' \in Seq(Publications)
  <2>1. Publication(client[w], bus_data[w]) \in Publications
    BY DEF Publication, Publications, TypeOK
  <2>2. published' = published \/ published' = Append(published, Publication(client[w], bus_data[w]))
    BY DEF WorkStep, Start, Read, ReadNothing, ReadFails, Publish, Look, Copy, Write,
           WriteFails, Leave, Die
  <2>3. published \in Seq(Publications)
    BY DEF TypeOK, Publications
  <2> QED  BY <2>1, <2>2, <2>3, AppendProperties
<1>8. heard' \in [Peers -> Seq(Nat)]
  <2>1. CASE heard' = heard
    BY <2>1 DEF TypeOK
  <2>2. CASE heard' = [heard EXCEPT ![client[w]] = Append(@, bus_data[w])]
    <3>1. client[w] \in Peers /\ bus_data[w] \in Nat
      BY <1>3 DEF TypeOK
    <3>2. Append(heard[client[w]], bus_data[w]) \in Seq(Nat)
      BY <3>1, AppendProperties DEF TypeOK
    <3> QED  BY <2>2, <3>2 DEF TypeOK
  <2> QED  BY <2>1, <2>2 DEF WorkStep, Start, Read, ReadNothing, ReadFails, Publish, Look,
                             Copy, Write, WriteFails, Leave, Die
<1> QED  BY <1>1, <1>2, <1>4, <1>5, <1>6, <1>7, <1>8 DEF TypeOK, Publications

LEMMA TypesStep == TypeOK /\ [Next]_vars => TypeOK'
<1> SUFFICES ASSUME TypeOK, [Next]_vars PROVE TypeOK'
  OBVIOUS
<1>1. CASE UNCHANGED vars
  BY <1>1 DEF vars, peerVars, busVars, workVars, mainVars, TypeOK, InUse, InProgress
<1> QED
  BY <1>1, TypesPeerStep, TypesWorkStep, TypesAcceptorStep, TypesStop DEF Next

(* The variables keep their types; a work that is executed has a client.   *)
THEOREM TypeCorrect == Spec => []TypeOK
BY TypesInit, TypesStep, PTL DEF Spec

-----------------------------------------------------------------------------
(* The invariant behind the refinement.  The ids of the bus are no order   *)
(* of the publications: they repeat and go back.  What makes forwarding    *)
(* sound is that a work whose id is below g_message_id has neither         *)
(* forwarded nor made the last publication (Fresh).                        *)

LastHeard(p) == IF heard[p] = <<>> THEN 0 ELSE heard[p][Len(heard[p])]

(* The last publication the work of a client has taken from the slot *)
Seen(w) == IF pc[w] = "write" THEN bus_data[w] ELSE LastHeard(client[w])

Fresh(w) == /\ Seen(w) < Len(published)
            /\ published[Len(published)].by # client[w]

OneClient == \A w, v \in Works : InUse(w) /\ InUse(v) /\ client[w] = client[v] => w = v

Accepted == \A w \in Works : InUse(w) => sock[client[w]] = "accepted"

PastHeard == \A p \in Peers : LastHeard(p) \in 0 .. Len(published)

Unknown == \A p \in Peers : sock[p] \in {"none", "pending"} =>
             heard[p] = <<>> /\ \A j \in 1 .. Len(published) : published[j].by # p

SlotFilled == g_message_id > 0 => Len(published) > 0

Arriving == arrival # NoPeer => sock[arrival] = "pending"

(* What holds of the execution of a work *)
WorkInv(w) ==
  /\ pc[w] \in {"queued", "read", "publish", "look", "write"} /\ g_message_id > message_id[w]
       => Fresh(w)
  /\ pc[w] = "copy" => Fresh(w)
  /\ pc[w] = "write" => /\ bus_data[w] \in LastHeard(client[w]) + 1 .. Len(published)
                        /\ published[bus_data[w]].by # client[w]

BusInv == /\ TypeOK /\ OneClient /\ Accepted /\ PastHeard /\ Unknown /\ SlotFilled /\ Arriving
          /\ \A w \in Works : WorkInv(w)

LEMMA BusInvInit == Init => BusInv
<1> SUFFICES ASSUME Init PROVE BusInv
  OBVIOUS
<1>1. TypeOK
  BY TypesInit
<1>2. \A w \in Works : pc[w] = "new"
  BY DEF Init
<1>3. OneClient /\ Accepted /\ \A w \in Works : WorkInv(w)
  BY <1>2 DEF OneClient, Accepted, WorkInv, InUse, InProgress
<1>4. Len(published) \in Nat
  BY <1>1, LenProperties DEF TypeOK
<1>5. PastHeard
  BY <1>4, SMT DEF Init, PastHeard, LastHeard
<1>6. SlotFilled /\ Arriving
  BY SMT DEF Init, SlotFilled, Arriving
<1>7. Unknown
  <2>1. \A j \in 1 .. Len(published) : published[j].by = NoPeer
    <3>1. CASE published = <<>>
      BY <3>1, SMT
    <3>2. CASE published = <<Publication(NoPeer, 0)>>
      BY <3>2, SMT DEF Publication
    <3> QED  BY <3>1, <3>2 DEF Init
  <2>2. \A p \in Peers : heard[p] = <<>>
    BY DEF Init
  <2> QED  BY <2>1, <2>2, PeersAssumption DEF Unknown
<1> QED  BY <1>1, <1>3, <1>5, <1>6, <1>7 DEF BusInv

(* A step that leaves alone what is said of a work leaves WorkInv true. *)
LEMMA WorkKept ==
  ASSUME NEW v \in Works, WorkInv(v),
         UNCHANGED <<published, g_message_id>>,
         pc'[v] = pc[v], client'[v] = client[v],
         message_id'[v] = message_id[v], bus_data'[v] = bus_data[v],
         InUse(v) => heard'[client[v]] = heard[client[v]]
  PROVE  WorkInv(v)'
<1>1. CASE ~ InUse(v)
  BY <1>1 DEF WorkInv, InUse, InProgress
<1>2. CASE InUse(v)
  <2>1. LastHeard(client[v])' = LastHeard(client[v])
    BY <1>2 DEF LastHeard
  <2>2. Seen(v)' = Seen(v)
    BY <2>1 DEF Seen
  <2> QED  BY <2>1, <2>2 DEF WorkInv, Fresh
<1> QED  BY <1>1, <1>2

(* A step of the peers, of bus_server_stop, or one the works do not see *)
LEMMA BusInvOutside ==
  ASSUME BusInv, TypeOK', Arriving',
         UNCHANGED <<published, g_message_id, client, message_id, bus_data, heard>>,
         \A w \in Works : pc'[w] = pc[w] \/ pc'[w] = "complete",
         \A p \in Peers : \/ sock'[p] = sock[p]
                          \/ sock[p] = "none" /\ sock'[p] = "pending"
                          \/ sock[p] = "pending" /\ sock'[p] = "closed"
  PROVE  BusInv'
<1>1. \A w \in Works : InUse(w)' => InUse(w)
  BY DEF InUse, InProgress
<1>2. OneClient'
  BY <1>1 DEF BusInv, OneClient
<1>3. Accepted'
  BY <1>1 DEF BusInv, Accepted, TypeOK
<1>4. PastHeard' /\ SlotFilled'
  BY DEF BusInv, PastHeard, SlotFilled, LastHeard
<1>5. Unknown'
  BY DEF BusInv, Unknown
<1>6. ASSUME NEW w \in Works PROVE WorkInv(w)'
  <2>1. CASE pc'[w] = pc[w]
    BY <2>1, WorkKept DEF BusInv
  <2>2. CASE pc'[w] = "complete"
    BY <2>2 DEF WorkInv
  <2> QED  BY <2>1, <2>2
<1> QED  BY <1>2, <1>3, <1>4, <1>5, <1>6 DEF BusInv

(* An accepted peer knows nothing of the bus: what the slot holds is new. *)
LEMMA BusInvQueue ==
  ASSUME BusInv, TypeOK', Queue
  PROVE  BusInv'
<1> USE DEF workVars, busVars
<1>0. PICK p \in Peers, w \in Works : p = arrival /\ w = scan
  BY DEF Queue, BusInv, TypeOK
<1>1. /\ UNCHANGED <<published, g_message_id, heard>> /\ sock[p] = "pending"
      /\ client'[w] = p /\ pc'[w] = "queued" /\ sock'[p] = "accepted"
      /\ \A v \in Works : v # w => client'[v] = client[v] /\ pc'[v] = pc[v]
      /\ \A q \in Peers : q # p => sock'[q] = sock[q]
  BY <1>0 DEF Queue, Arriving, BusInv, TypeOK
<1>2. \A v \in Works : v # w => (InUse(v)' <=> InUse(v))
  BY <1>1 DEF InUse, InProgress
<1>3. \A v \in Works : InUse(v) => client[v] # p /\ client[v] \in Peers
  BY <1>1 DEF BusInv, Accepted, TypeOK
<1>4. OneClient'
  BY <1>1, <1>2, <1>3 DEF BusInv, OneClient
<1>5. Accepted'
  BY <1>1, <1>2, <1>3 DEF BusInv, Accepted
<1>6. PastHeard' /\ SlotFilled' /\ Unknown'
  BY <1>1 DEF BusInv, PastHeard, SlotFilled, Unknown, LastHeard
<1>7. ASSUME NEW v \in Works, v # w PROVE WorkInv(v)'
  <2>1. UNCHANGED <<message_id, bus_data>>
    BY DEF Queue
  <2> QED  BY <1>1, <1>7, <2>1, WorkKept DEF BusInv
<1>8. WorkInv(w)'
  <2>1. ASSUME g_message_id > message_id[w] PROVE Fresh(w)'
    <3>1. message_id[w] \in Nat /\ g_message_id \in Nat /\ Len(published) \in Nat
      BY LenProperties DEF BusInv, TypeOK
    <3>2. g_message_id > 0
      BY <2>1, <3>1, SMT
    <3>3. Len(published) > 0
      BY <3>2 DEF BusInv, SlotFilled
    <3>4. heard[p] = <<>> /\ published[Len(published)].by # p
      BY <1>1, <3>1, <3>3, SMT DEF BusInv, Unknown
    <3>5. Seen(w)' = 0
      BY <1>1, <3>4 DEF Seen, LastHeard
    <3> QED  BY <1>1, <3>3, <3>4, <3>5 DEF Fresh
  <2>2. UNCHANGED message_id
    BY DEF Queue
  <2> QED  BY <1>1, <2>1, <2>2 DEF WorkInv
<1>9. Arriving'
  BY DEF Queue, Arriving
<1> QED  BY <1>9, <1>4, <1>5, <1>6, <1>7, <1>8 DEF BusInv

LEMMA Numbers ==
  ASSUME BusInv, NEW w \in Works, InUse(w)
  PROVE  /\ Len(published) \in Nat /\ g_message_id \in Nat /\ message_id[w] \in Nat
         /\ client[w] \in Peers /\ bus_data[w] \in Nat
         /\ LastHeard(client[w]) \in 0 .. Len(published)
BY LenProperties DEF BusInv, TypeOK, PastHeard

(* A step of the execution of w that shows nothing to the others *)
LEMMA BusInvLocal ==
  ASSUME BusInv, TypeOK', NEW w \in Works, InUse(w),
         UNCHANGED <<published, g_message_id, client, sock, heard, arrival>>,
         \A v \in Works : v # w => /\ pc'[v] = pc[v]
                                   /\ message_id'[v] = message_id[v]
                                   /\ bus_data'[v] = bus_data[v],
         WorkInv(w)'
  PROVE  BusInv'
<1>1. \A v \in Works : InUse(v)' => InUse(v)
  BY DEF InUse, InProgress
<1>2. OneClient'
  BY <1>1 DEF BusInv, OneClient
<1>3. Accepted'
  BY <1>1 DEF BusInv, Accepted
<1>4. PastHeard' /\ SlotFilled' /\ Arriving'
  BY DEF BusInv, PastHeard, SlotFilled, LastHeard, Arriving
<1>5. Unknown'
  BY DEF BusInv, Unknown
<1>6. ASSUME NEW v \in Works, v # w PROVE WorkInv(v)'
  BY <1>6, WorkKept DEF BusInv
<1> QED  BY <1>2, <1>3, <1>4, <1>5, <1>6 DEF BusInv

LEMMA BusInvLocalSteps ==
  ASSUME BusInv, TypeOK', NEW w \in Works,
         \/ Start(w) \/ Read(w) \/ ReadNothing(w) \/ ReadFails(w) \/ Look(w) \/ Copy(w)
         \/ WriteFails(w) \/ Die(w)
  PROVE  BusInv'
<1> USE DEF peerVars, busVars, mainVars, Goto
<1>1. InUse(w)
  BY DEF Start, Read, ReadNothing, ReadFails, Look, Copy, WriteFails, Die, InUse, InProgress
<1>2. UNCHANGED <<published, g_message_id, client, sock, heard, arrival>>
  BY DEF Start, Read, ReadNothing, ReadFails, Look, Copy, WriteFails, Die
<1>3. \A v \in Works : v # w => /\ pc'[v] = pc[v]
                                /\ message_id'[v] = message_id[v]
                                /\ bus_data'[v] = bus_data[v]
  BY DEF Start, Read, ReadNothing, ReadFails, Look, Copy, WriteFails, Die, BusInv, TypeOK
<1>4. LastHeard(client[w])' = LastHeard(client[w])
  BY <1>2 DEF LastHeard
<1>5. ASSUME pc'[w] \in {"read", "publish", "look", "copy"}, pc[w] # "write", Fresh(w)
      PROVE  Fresh(w)'
  BY <1>2, <1>4, <1>5 DEF Fresh, Seen
<1>6. WorkInv(w)'
  <2>1. CASE Start(w) \/ ReadNothing(w)
    <3>1. /\ pc[w] \in {"queued", "read"} /\ pc'[w] \in {"read", "look"}
          /\ message_id' = message_id
      BY <2>1 DEF Start, ReadNothing, BusInv, TypeOK
    <3> QED  BY <3>1, <1>2, <1>5 DEF BusInv, WorkInv
  <2>2. CASE Read(w)
    <3>1. pc[w] = "read" /\ pc'[w] = "publish" /\ message_id'[w] = message_id[w] + 1
      BY <2>2 DEF Read, BusInv, TypeOK
    <3>2. g_message_id > message_id'[w] => g_message_id > message_id[w]
      BY <1>1, <3>1, Numbers, SMT
    <3> QED  BY <3>1, <3>2, <1>2, <1>5 DEF BusInv, WorkInv
  <2>3. CASE Look(w)
    <3>1. /\ pc[w] = "look" /\ message_id' = message_id
          /\ \/ pc'[w] = "read"
             \/ pc'[w] = "copy" /\ g_message_id > message_id[w]
      BY <2>3 DEF Look, BusInv, TypeOK
    <3> QED  BY <3>1, <1>2, <1>5 DEF BusInv, WorkInv
  <2>4. CASE Copy(w)
    <3>1. /\ pc[w] = "copy" /\ pc'[w] = "write" /\ message_id'[w] = g_message_id
          /\ bus_data'[w] = Len(published)
      BY <2>4 DEF Copy, BusInv, TypeOK
    <3>2. LastHeard(client[w]) < Len(published) /\ published[Len(published)].by # client[w]
      BY <3>1 DEF BusInv, WorkInv, Fresh, Seen
    <3>3. ~ (g_message_id > message_id'[w])
      BY <1>1, <3>1, Numbers, SMT
    <3>4. bus_data'[w] \in LastHeard(client[w]) + 1 .. Len(published)
      BY <1>1, <3>1, <3>2, Numbers, SMT
    <3> QED  BY <3>1, <3>2, <3>3, <3>4, <1>2, <1>4 DEF WorkInv
  <2>5. CASE ReadFails(w) \/ WriteFails(w) \/ Die(w)
    <3>1. pc'[w] \in {"leave", "dead"}
      BY <2>5 DEF ReadFails, WriteFails, Die, BusInv, TypeOK
    <3> QED  BY <3>1 DEF WorkInv
  <2> QED  BY <2>1, <2>2, <2>3, <2>4, <2>5
<1> QED  BY <1>1, <1>2, <1>3, <1>6, BusInvLocal

(* The last publication is new to every work but the one that made it. *)
LEMMA BusInvPublish ==
  ASSUME BusInv, TypeOK', NEW w \in Works, Publish(w)
  PROVE  BusInv'
<1> USE DEF peerVars, mainVars, Goto, Forget
<1>1. /\ InUse(w) /\ pc[w] = "publish" /\ pc'[w] = "look" /\ g_message_id' = message_id[w]
      /\ UNCHANGED <<client, message_id, sock, heard>>
      /\ \A v \in Works : v # w => pc'[v] = pc[v] /\ bus_data'[v] = bus_data[v]
  BY DEF Publish, BusInv, TypeOK, InUse, InProgress
<1>2. /\ Len(published) \in Nat
      /\ Len(published') = Len(published) + 1
      /\ published'[Len(published) + 1].by = client[w]
      /\ \A j \in 1 .. Len(published) : published'[j] = published[j]
  <2>1. published \in Seq(Publications)
    BY DEF BusInv, TypeOK, Publications
  <2>2. Publication(client[w], bus_data[w]) \in Publications
    BY DEF BusInv, TypeOK, Publication, Publications
  <2>3. published' = Append(published, Publication(client[w], bus_data[w]))
    BY DEF Publish
  <2> QED  BY <2>1, <2>2, <2>3, AppendProperties, LenProperties DEF Publication
<1>3. \A v \in Works : InUse(v)' <=> InUse(v)
  BY <1>1 DEF InUse, InProgress
<1>4. OneClient' /\ Accepted'
  BY <1>1, <1>3 DEF BusInv, OneClient, Accepted
<1>5. \A p \in Peers : LastHeard(p)' = LastHeard(p)
  BY <1>1 DEF LastHeard
<1>6. PastHeard'
  BY <1>2, <1>5, SMT DEF BusInv, PastHeard
<1>7. SlotFilled' /\ Arriving'
  <2>1. Arriving'
    BY DEF Publish, BusInv, Arriving
  <2> QED  BY <1>2, <2>1, SMT DEF SlotFilled
<1>8. Unknown'
  <2> SUFFICES ASSUME NEW p \in Peers, sock[p] \in {"none", "pending"},
                      NEW j \in 1 .. Len(published) + 1
               PROVE  heard[p] = <<>> /\ published'[j].by # p
    BY <1>1, <1>2 DEF Unknown
  <2>1. client[w] # p
    BY <1>1 DEF BusInv, Accepted
  <2>2. heard[p] = <<>> /\ \A i \in 1 .. Len(published) : published[i].by # p
    BY DEF BusInv, Unknown
  <2>3. j \in 1 .. Len(published) \/ j = Len(published) + 1
    BY <1>2, SMT
  <2> QED  BY <1>2, <2>1, <2>2, <2>3
<1>9. WorkInv(w)'
  <2>1. message_id[w] \in Nat
    BY <1>1, Numbers
  <2> QED  BY <1>1, <2>1, SMT DEF WorkInv
<1>10. ASSUME NEW v \in Works, v # w PROVE WorkInv(v)'
  <2>1. CASE ~ InUse(v)
    BY <1>1, <1>10, <2>1 DEF WorkInv, InUse, InProgress
  <2>2. CASE InUse(v)
    <3>1. client[v] # client[w]
      BY <1>1, <1>10, <2>2 DEF BusInv, OneClient
    <3>2. Seen(v)' = Seen(v) /\ LastHeard(client[v])' = LastHeard(client[v])
      BY <1>1, <1>5, <1>10, <2>2, Numbers DEF Seen
    <3>3. LastHeard(client[v]) \in 0 .. Len(published)
      BY <2>2, Numbers
    <3>4. pc[v] = "write" => /\ bus_data[v] \in LastHeard(client[v]) + 1 .. Len(published)
                             /\ published[bus_data[v]].by # client[v]
      BY DEF BusInv, WorkInv
    <3>5. Seen(v) < Len(published) + 1
      BY <1>2, <3>3, <3>4, SMT DEF Seen
    <3>6. Fresh(v)'
      BY <1>1, <1>2, <3>1, <3>2, <3>5 DEF Fresh
    <3>7. pc[v] = "write" => bus_data[v] \in 1 .. Len(published)
      BY <1>2, <3>3, <3>4, SMT
    <3>8. pc[v] = "write" => bus_data[v] \in LastHeard(client[v]) + 1 .. Len(published) + 1
      BY <1>2, <3>3, <3>4, SMT
    <3>9. pc'[v] = "write" => /\ bus_data'[v] \in LastHeard(client[v])' + 1 .. Len(published')
                              /\ published'[bus_data'[v]].by # client'[v]
      BY <1>1, <1>2, <1>10, <3>2, <3>4, <3>7, <3>8
    <3> QED  BY <3>6, <3>9 DEF WorkInv
  <2> QED  BY <2>1, <2>2
<1> QED  BY <1>4, <1>6, <1>7, <1>8, <1>9, <1>10 DEF BusInv

LEMMA LastOfAppend ==
  ASSUME NEW s \in Seq(Nat), NEW j \in Nat
  PROVE  Append(s, j) # <<>> /\ Append(s, j)[Len(Append(s, j))] = j
BY AppendProperties, LenProperties, EmptySeq

(* What Write appends is later than all the client heard. *)
LEMMA WriteHears ==
  ASSUME BusInv, NEW w \in Works, Write(w)
  PROVE  /\ InUse(w) /\ pc[w] = "write" /\ pc'[w] = "read"
         /\ bus_data[w] \in LastHeard(client[w]) + 1 .. Len(published)
         /\ published[bus_data[w]].by # client[w]
         /\ \/ UNCHANGED heard
            \/ /\ heard' = [heard EXCEPT ![client[w]] = Append(@, bus_data[w])]
               /\ LastHeard(client[w])' = bus_data[w]
         /\ UNCHANGED <<published, g_message_id, client, message_id, sock>>
<1> USE DEF peerVars, busVars, mainVars, Goto, Forget
<1>1. /\ InUse(w) /\ pc[w] = "write" /\ pc'[w] = "read"
      /\ UNCHANGED <<published, g_message_id, client, message_id, sock>>
  BY DEF Write, BusInv, TypeOK, InUse, InProgress
<1>2. /\ bus_data[w] \in LastHeard(client[w]) + 1 .. Len(published)
      /\ published[bus_data[w]].by # client[w]
  BY <1>1 DEF BusInv, WorkInv
<1>3. ASSUME heard' = [heard EXCEPT ![client[w]] = Append(@, bus_data[w])]
      PROVE  LastHeard(client[w])' = bus_data[w]
  <2>1. client[w] \in Peers /\ bus_data[w] \in Nat
    BY <1>1, Numbers
  <2>2. heard[client[w]] \in Seq(Nat)
    BY <2>1 DEF BusInv, TypeOK
  <2>3. heard'[client[w]] = Append(heard[client[w]], bus_data[w])
    BY <1>3, <2>1 DEF BusInv, TypeOK
  <2> QED  BY <1>1, <2>1, <2>2, <2>3, LastOfAppend DEF LastHeard
<1> QED  BY <1>1, <1>2, <1>3 DEF Write

LEMMA BusInvWrite ==
  ASSUME BusInv, TypeOK', NEW w \in Works, Write(w)
  PROVE  BusInv'
<1>1. /\ InUse(w) /\ pc[w] = "write" /\ pc'[w] = "read"
      /\ bus_data[w] \in LastHeard(client[w]) + 1 .. Len(published)
      /\ UNCHANGED <<published, g_message_id, client, message_id, sock>>
  BY WriteHears
<1>2. \A v \in Works : v # w => pc'[v] = pc[v] /\ bus_data'[v] = bus_data[v]
  BY DEF Write, Goto, Forget, BusInv, TypeOK
<1>3. \A v \in Works : InUse(v)' <=> InUse(v)
  BY <1>1, <1>2 DEF InUse, InProgress
<1>4. /\ OneClient' /\ Accepted' /\ SlotFilled'
      /\ Arriving'
  BY <1>1, <1>3 DEF BusInv, OneClient, Accepted, SlotFilled, Write, mainVars, Arriving
<1>5. /\ \A p \in Peers : p # client[w] => heard'[p] = heard[p]
      /\ LastHeard(client[w])' \in {LastHeard(client[w]), bus_data[w]}
  BY <1>1, WriteHears, ZenonT(60) DEF BusInv, TypeOK, LastHeard
<1>6. /\ Len(published) \in Nat /\ client[w] \in Peers /\ bus_data[w] \in Nat
      /\ LastHeard(client[w]) \in 0 .. Len(published)
  BY <1>1, Numbers
<1>7. PastHeard'
  <2> SUFFICES ASSUME NEW p \in Peers PROVE LastHeard(p)' \in 0 .. Len(published)
    BY <1>1 DEF PastHeard
  <2>1. CASE p = client[w]
    BY <1>1, <1>5, <1>6, <2>1, SMT
  <2>2. CASE p # client[w]
    BY <1>5, <2>2 DEF BusInv, PastHeard, LastHeard
  <2> QED  BY <2>1, <2>2
<1>8. Unknown'
  BY <1>1, <1>5 DEF BusInv, Unknown, Accepted
<1>9. ASSUME NEW v \in Works, v # w PROVE WorkInv(v)'
  <2>1. InUse(v) => client[v] # client[w] /\ client[v] \in Peers
    BY <1>1, <1>9 DEF BusInv, OneClient, TypeOK
  <2> QED  BY <1>1, <1>2, <1>5, <1>9, <2>1, WorkKept DEF BusInv
<1>10. WorkInv(w)'
  <2>1. ASSUME g_message_id > message_id[w] PROVE Fresh(w)'
    <3>1. bus_data[w] < Len(published) /\ published[Len(published)].by # client[w]
      BY <1>1, <2>1 DEF BusInv, WorkInv, Fresh, Seen
    <3>2. LastHeard(client[w])' < Len(published)
      BY <1>1, <1>5, <1>6, <3>1, SMT
    <3>3. Seen(w)' = LastHeard(client[w])'
      BY <1>1 DEF Seen
    <3> QED  BY <1>1, <3>1, <3>2, <3>3 DEF Fresh
  <2> QED  BY <1>1, <2>1 DEF WorkInv
<1> QED  BY <1>4, <1>7, <1>8, <1>9, <1>10 DEF BusInv

LEMMA BusInvLeave ==
  ASSUME BusInv, TypeOK', NEW w \in Works, Leave(w)
  PROVE  BusInv'
<1> USE DEF peerVars, busVars, mainVars, Goto, Forget
<1>1. /\ InUse(w) /\ pc'[w] = "complete"
      /\ UNCHANGED <<published, g_message_id, heard>>
      /\ sock' = [sock EXCEPT ![client[w]] = "closed"]
      /\ \A v \in Works : v # w => /\ pc'[v] = pc[v] /\ bus_data'[v] = bus_data[v]
                                   /\ client'[v] = client[v] /\ message_id'[v] = message_id[v]
  BY DEF Leave, BusInv, TypeOK, InUse, InProgress
<1>2. \A v \in Works : InUse(v)' => v # w /\ InUse(v)
  BY <1>1 DEF InUse, InProgress
<1>3. OneClient'
  BY <1>1, <1>2 DEF BusInv, OneClient
<1>4. Accepted'
  <2> SUFFICES ASSUME NEW v \in Works, InUse(v)' PROVE sock'[client'[v]] = "accepted"
    BY DEF Accepted
  <2>1. v # w /\ InUse(v) /\ client'[v] = client[v]
    BY <1>1, <1>2
  <2>2. client[v] # client[w] /\ client[v] \in Peers /\ sock[client[v]] = "accepted"
    BY <1>1, <2>1 DEF BusInv, OneClient, Accepted, TypeOK
  <2> QED  BY <1>1, <2>1, <2>2 DEF BusInv, TypeOK
<1>5. PastHeard' /\ SlotFilled'
  BY <1>1 DEF BusInv, PastHeard, SlotFilled, LastHeard
<1>6. Unknown' /\ Arriving'
  BY <1>1 DEF BusInv, Unknown, Arriving, Accepted, Leave, TypeOK
<1>7. ASSUME NEW v \in Works, v # w PROVE WorkInv(v)'
  BY <1>1, <1>7, WorkKept DEF BusInv
<1>8. WorkInv(w)'
  BY <1>1 DEF WorkInv
<1> QED  BY <1>3, <1>4, <1>5, <1>6, <1>7, <1>8 DEF BusInv

LEMMA BusInvStep == BusInv /\ [Next]_vars => BusInv'
<1> SUFFICES ASSUME BusInv, [Next]_vars PROVE BusInv'
  OBVIOUS
<1> USE DEF peerVars, busVars, workVars, mainVars
<1>1. TypeOK'
  BY TypesStep DEF BusInv
<1>2. CASE UNCHANGED vars
  <2>1. Arriving'
    BY <1>2 DEF vars, BusInv, Arriving
  <2> QED  BY <1>1, <1>2, <2>1, BusInvOutside DEF vars
<1>3. ASSUME NEW p \in Peers, Connect(p) \/ Send(p) \/ HangUp(p) PROVE BusInv'
  <2>1. \A q \in Peers : sock'[q] = sock[q] \/ (sock[q] = "none" /\ sock'[q] = "pending")
    BY <1>3 DEF Connect, Send, HangUp, BusInv, TypeOK
  <2>2. UNCHANGED <<published, g_message_id, client, message_id, bus_data, heard, pc, arrival>>
    BY <1>3 DEF Connect, Send, HangUp
  <2>3. Arriving'
    BY <2>1, <2>2 DEF BusInv, TypeOK, Arriving
  <2> QED  BY <1>1, <2>1, <2>2, <2>3, BusInvOutside
<1>4. ASSUME NEW w \in Works, WorkStep(w) PROVE BusInv'
  BY <1>1, <1>4, BusInvLocalSteps, BusInvPublish, BusInvWrite, BusInvLeave DEF WorkStep
<1>5. CASE Skip \/ SeesStarted \/ Stop \/ Stopped
  <2>1. UNCHANGED <<published, g_message_id, client, message_id, bus_data, heard, sock, pc, arrival>>
    BY <1>5 DEF Skip, SeesStarted, Stop, Stopped
  <2>2. Arriving'
    BY <2>1 DEF BusInv, Arriving
  <2> QED  BY <1>1, <2>1, <2>2, BusInvOutside
<1>6. ASSUME NEW p \in Peers, Accept(p) PROVE BusInv'
  <2>1. /\ UNCHANGED <<published, g_message_id, client, message_id, bus_data, heard, sock, pc>>
        /\ Arriving'
    BY <1>6 DEF Accept, Arriving
  <2> QED  BY <1>1, <2>1, BusInvOutside
<1>7. CASE Refuse
  <2>1. /\ UNCHANGED <<published, g_message_id, client, message_id, bus_data, heard, pc>>
        /\ Arriving'
    BY <1>7 DEF Refuse, Arriving
  <2>2. \A q \in Peers : sock'[q] = sock[q] \/ (sock[q] = "pending" /\ sock'[q] = "closed")
    BY <1>7 DEF Refuse, BusInv, TypeOK, Arriving
  <2> QED  BY <1>1, <2>1, <2>2, BusInvOutside
<1> QED
  BY <1>1, <1>2, <1>3, <1>4, <1>5, <1>6, <1>7, BusInvQueue DEF Next, AcceptorStep

-----------------------------------------------------------------------------
(* Each connection is served *)

Served == \A p \in Peers : sock[p] = "accepted" /\ server = "up" =>
            \E w \in Works : InUse(w) /\ client[w] = p

LEMMA ServedInit == Init => Served
BY DEF Init, Served

LEMMA ServedStep == BusInv /\ Served /\ [Next]_vars => Served'
<1> SUFFICES ASSUME BusInv, Served, [Next]_vars,
                    NEW p \in Peers, sock'[p] = "accepted", server' = "up"
             PROVE  \E w \in Works : InUse(w)' /\ client'[w] = p
  BY DEF Served
<1> USE DEF peerVars, busVars, workVars, mainVars
<1>1. server = "up"
  BY DEF Next, vars, Connect, Send, HangUp, WorkStep, Start, Read, ReadNothing, ReadFails,
         Publish, Look, Copy, Write, WriteFails, Leave, Die, AcceptorStep, SeesStarted,
         Skip, Queue, Refuse, Accept, Stop, Stopped
<1>2. ASSUME NEW q \in Peers, NEW v \in Works, Free(v), sock' = [sock EXCEPT ![q] = "accepted"],
             client' = [client EXCEPT ![v] = q], pc' = [pc EXCEPT ![v] = "queued"]
      PROVE  \E w \in Works : InUse(w)' /\ client'[w] = p
  <2>1. CASE p = q
    <3>1. InUse(v)' /\ client'[v] = p
      BY <1>2, <2>1 DEF InUse, BusInv, TypeOK
    <3> QED  BY <3>1
  <2>2. CASE p # q
    <3>1. sock[p] = "accepted"
      BY <1>2, <2>2 DEF BusInv, TypeOK
    <3>2. PICK w \in Works : InUse(w) /\ client[w] = p
      BY <1>1, <3>1 DEF Served
    <3>3. w # v
      BY <1>2, <3>2 DEF Free, InUse, InProgress
    <3>4. InUse(w)' /\ client'[w] = p
      BY <1>2, <3>2, <3>3 DEF InUse, InProgress, BusInv, TypeOK
    <3> QED  BY <3>4
  <2> QED  BY <2>1, <2>2
<1>3. ASSUME NEW v \in Works, Leave(v)
      PROVE  \E w \in Works : InUse(w)' /\ client'[w] = p
  <2>1. p # client[v] /\ sock[p] = "accepted"
    BY <1>3 DEF Leave, BusInv, TypeOK
  <2>2. PICK w \in Works : InUse(w) /\ client[w] = p
    BY <1>1, <2>1 DEF Served
  <2>3. InUse(w)' /\ client'[w] = p
    BY <1>3, <2>1, <2>2 DEF Leave, Goto, InUse, InProgress, BusInv, TypeOK
  <2> QED  BY <2>3
<1>4. ASSUME sock[p] = "accepted", client' = client, \A v \in Works : InUse(v) => InUse(v)'
      PROVE  \E w \in Works : InUse(w)' /\ client'[w] = p
  BY <1>1, <1>4 DEF Served
<1>5. ASSUME NEW v \in Works, WorkStep(v), ~ Leave(v)
      PROVE  \E w \in Works : InUse(w)' /\ client'[w] = p
  <2>1. client' = client /\ sock' = sock
    BY <1>5 DEF WorkStep, Start, Read, ReadNothing, ReadFails, Publish, Look, Copy, Write,
                WriteFails, Die
  <2>2. PICK l \in {"read", "publish", "look", "copy", "write", "leave", "dead"} :
          pc' = [pc EXCEPT ![v] = l]
    BY <1>5 DEF WorkStep, Goto, Start, Read, ReadNothing, ReadFails, Publish, Look, Copy,
                Write, WriteFails, Die
  <2>3. \A w \in Works : InUse(w) => InUse(w)'
    BY <2>2 DEF InUse, InProgress, BusInv, TypeOK
  <2> QED  BY <1>4, <2>1, <2>3
<1>6. ASSUME sock[p] = "accepted", UNCHANGED <<client, pc>>
      PROVE  \E w \in Works : InUse(w)' /\ client'[w] = p
  BY <1>4, <1>6 DEF InUse, InProgress
<1>7. ASSUME NEW q \in Peers, Connect(q) \/ Send(q) \/ HangUp(q)
      PROVE  \E w \in Works : InUse(w)' /\ client'[w] = p
  BY <1>6, <1>7 DEF Connect, Send, HangUp, BusInv, TypeOK
<1>8. CASE Refuse
  BY <1>6, <1>8 DEF Refuse, BusInv, TypeOK
<1>9. CASE Skip \/ SeesStarted \/ Stopped \/ UNCHANGED vars \/ \E q \in Peers : Accept(q)
  BY <1>6, <1>9 DEF Skip, SeesStarted, Stopped, Accept, vars
<1>10. CASE Queue
  <2>1. PICK q \in Peers, v \in Works : q = arrival /\ v = scan
    BY <1>10 DEF Queue, BusInv, TypeOK
  <2> QED  BY <1>2, <1>10, <2>1 DEF Queue
<1>11. ~ Stop
  BY DEF Stop
<1> QED  BY <1>3, <1>5, <1>7, <1>8, <1>9, <1>10, <1>11 DEF Next, AcceptorStep

(* Every accepted connection is served by one work, the same for its whole *)
(* life, until the server closes it or stops.                              *)
THEOREM EachConnectionServed == Spec => []EachServed
<1>1. BusInv /\ Served => EachServed
  <2> SUFFICES ASSUME BusInv, Served, NEW p \in Peers, sock[p] = "accepted", server = "up"
               PROVE  \E w \in Works : \A v \in Works : (InUse(v) /\ client[v] = p) <=> v = w
    BY DEF EachServed
  <2>1. PICK w \in Works : InUse(w) /\ client[w] = p
    BY DEF Served
  <2> QED  BY <2>1 DEF BusInv, OneClient
<1> QED  BY <1>1, BusInvInit, BusInvStep, ServedInit, ServedStep, PTL DEF Spec

-----------------------------------------------------------------------------
(* The server implements the abstract bus *)

Authors(s) == [j \in DOMAIN s |-> s[j].by]

Names == Peers \cup {NoPeer}

LEMMA AuthorsSeq ==
  ASSUME NEW s \in Seq(Publications)
  PROVE  /\ Authors(s) \in Seq(Names) /\ Len(Authors(s)) = Len(s)
         /\ \A j \in 1 .. Len(s) : Authors(s)[j] = s[j].by
<1>1. Len(s) \in Nat /\ DOMAIN s = 1 .. Len(s)
  BY LenProperties
<1>2. \A j \in 1 .. Len(s) : s[j].by \in Names
  BY ElementOfSeq, ZenonT(60) DEF Publications, Names
<1> QED  BY <1>1, <1>2, SMT DEF Authors

LEMMA AuthorsAppend ==
  ASSUME NEW s \in Seq(Publications), NEW e \in Publications
  PROVE  Authors(Append(s, e)) = Append(Authors(s), e.by)
<1>1. /\ Append(s, e) \in Seq(Publications) /\ Len(Append(s, e)) = Len(s) + 1
      /\ \A i \in 1 .. Len(s) : Append(s, e)[i] = s[i]
      /\ Append(s, e)[Len(s) + 1] = e
      /\ Len(s) \in Nat
  BY AppendProperties, LenProperties
<1>2. e.by \in Names
  BY DEF Publications, Names
<1>3. /\ Authors(s) \in Seq(Names) /\ Len(Authors(s)) = Len(s)
      /\ \A j \in 1 .. Len(s) : Authors(s)[j] = s[j].by
  BY AuthorsSeq
<1>4. /\ Authors(Append(s, e)) \in Seq(Names) /\ Len(Authors(Append(s, e))) = Len(s) + 1
      /\ \A j \in 1 .. Len(s) + 1 : Authors(Append(s, e))[j] = Append(s, e)[j].by
  BY <1>1, AuthorsSeq
<1>5. /\ Append(Authors(s), e.by) \in Seq(Names)
      /\ Len(Append(Authors(s), e.by)) = Len(s) + 1
      /\ \A i \in 1 .. Len(s) : Append(Authors(s), e.by)[i] = Authors(s)[i]
      /\ Append(Authors(s), e.by)[Len(s) + 1] = e.by
  BY <1>2, <1>3, AppendProperties
<1>6. ASSUME NEW j \in 1 .. Len(s) + 1
      PROVE  Authors(Append(s, e))[j] = Append(Authors(s), e.by)[j]
  <2>1. j \in 1 .. Len(s) \/ j = Len(s) + 1
    BY <1>1, SMT
  <2> QED  BY <1>1, <1>3, <1>4, <1>5, <2>1
<1> QED  BY <1>4, <1>5, <1>6, SeqEqual

LEMMA BusInit == Init => Bus!Init
<1> SUFFICES ASSUME Init PROVE Bus!Init
  OBVIOUS
<1>1. CASE published = <<>>
  <2>1. Authors(published) = <<>>
    BY <1>1, SMT DEF Authors
  <2> QED  BY <2>1 DEF Init, Bus!Init, Authors
<1>2. CASE published = <<Publication(NoPeer, 0)>>
  <2>1. Authors(published) = <<NoPeer>>
    BY <1>2, SMT DEF Authors, Publication
  <2> QED  BY <2>1 DEF Init, Bus!Init, Authors
<1> QED  BY <1>1, <1>2 DEF Init

LEMMA BusUnmoved ==
  ASSUME UNCHANGED <<published, heard>> PROVE UNCHANGED Bus!vars
BY DEF Bus!vars

LEMMA BusPublish ==
  ASSUME BusInv, NEW w \in Works, Publish(w)
  PROVE  Bus!Next
<1>1. client[w] \in Peers
  BY DEF Publish, BusInv, TypeOK, InUse, InProgress
<1>2. published \in Seq(Publications) /\ Publication(client[w], bus_data[w]) \in Publications
  BY DEF BusInv, TypeOK, Publication, Publications
<1>3. published' = Append(published, Publication(client[w], bus_data[w])) /\ heard' = heard
  BY DEF Publish
<1>4. Authors(published') = Append(Authors(published), client[w])
  BY <1>2, <1>3, AuthorsAppend DEF Publication
<1>5. \E p \in Peers : Bus!Publish(p)
  BY <1>1, <1>3, <1>4 DEF Bus!Publish, Authors
<1> QED  BY <1>5 DEF Bus!Next

LEMMA BusHear ==
  ASSUME BusInv, NEW w \in Works, Write(w)
  PROVE  Bus!Next \/ UNCHANGED Bus!vars
<1>1. CASE UNCHANGED heard
  BY <1>1, WriteHears, BusUnmoved
<1>2. CASE heard' = [heard EXCEPT ![client[w]] = Append(@, bus_data[w])]
  <2>1. published \in Seq(Publications)
    BY DEF BusInv, TypeOK, Publications
  <2>2. /\ InUse(w) /\ bus_data[w] \in LastHeard(client[w]) + 1 .. Len(published)
        /\ published[bus_data[w]].by # client[w] /\ published' = published
    BY WriteHears
  <2>3. /\ client[w] \in Peers /\ Len(published) \in Nat
        /\ LastHeard(client[w]) \in 0 .. Len(published)
    BY <2>2, Numbers
  <2>4. bus_data[w] \in 1 .. Len(published)
    BY <2>2, <2>3, SMT
  <2>5. /\ Len(Authors(published)) = Len(published)
        /\ Authors(published)[bus_data[w]] = published[bus_data[w]].by
    BY <2>1, <2>4, AuthorsSeq
  <2>6. Bus!LastHeard(client[w]) = LastHeard(client[w])
    BY DEF Bus!LastHeard, LastHeard
  <2>7. Bus!Hear(client[w], bus_data[w])
    BY <1>2, <2>2, <2>5, <2>6 DEF Bus!Hear, Authors
  <2>8. bus_data[w] \in 1 .. Len(Authors(published))
    BY <2>4, <2>5
  <2> QED  BY <2>3, <2>7, <2>8 DEF Bus!Next, Authors
<1> QED  BY <1>1, <1>2, WriteHears

LEMMA BusStep == BusInv /\ [Next]_vars => [Bus!Next]_(Bus!vars)
<1> SUFFICES ASSUME BusInv, [Next]_vars PROVE Bus!Next \/ UNCHANGED Bus!vars
  OBVIOUS
<1> USE DEF peerVars, busVars, workVars, mainVars
<1>1. ASSUME NEW w \in Works, WorkStep(w) PROVE Bus!Next \/ UNCHANGED Bus!vars
  <2>1. CASE Publish(w)
    BY <2>1, BusPublish
  <2>2. CASE Write(w)
    BY <2>2, BusHear
  <2>3. CASE ~ Publish(w) /\ ~ Write(w)
    <3>1. UNCHANGED <<published, heard>>
      BY <1>1, <2>3 DEF WorkStep, Start, Read, ReadNothing, ReadFails, Look, Copy,
                        WriteFails, Leave, Die
    <3> QED  BY <3>1, BusUnmoved
  <2> QED  BY <2>1, <2>2, <2>3
<1>2. CASE ~ \E w \in Works : WorkStep(w)
  <2>1. UNCHANGED <<published, heard>>
    BY <1>2 DEF Next, vars, Connect, Send, HangUp, AcceptorStep, SeesStarted, Accept,
                Skip, Queue, Refuse, Stop, Stopped
  <2> QED  BY <2>1, BusUnmoved
<1> QED  BY <1>1, <1>2

(* bus_server.c implements the abstract bus: a peer hears publications in  *)
(* the order they were made, none twice and none of its own, whatever ids  *)
(* the works reached, whoever hangs up, and whatever an earlier bus left.  *)
THEOREM ImplementsBroadcast == Spec => BroadcastSpec
<1>1. BusInv /\ [Next]_vars => BusInv'
  BY BusInvStep
<1>2. BusInv /\ [Next]_vars => [Bus!Next]_(Bus!vars)
  BY BusStep
<1> QED  BY <1>1, <1>2, BusInvInit, BusInit, PTL DEF Spec, BroadcastSpec, Bus!Spec
==============================================================================
