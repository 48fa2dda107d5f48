------------------------------ MODULE BusServer ------------------------------
(***************************************************************************)
(* src/bus_server.c: peers connect to a socket; an acceptor gives each a   *)
(* work of the work queue; the worker that executes it forwards what the   *)
(* peer writes, through one global slot, to the workers of the others.     *)
(* There are as many workers as works, so the worker of a work needs no    *)
(* name.  An action is a step between accesses to memory or descriptors    *)
(* another thread uses; a section under bus_global_lock is one action.     *)
(***************************************************************************)
EXTENDS Integers, Sequences, Functions

CONSTANTS
  Peers,       \* the connections made to the bus
  NoPeer,      \* no connection; also the author of what an earlier bus left
  MaxClients,  \* bus_server_t.max_clients
  MaxSent,     \* bound: messages the peers write in all
  MayHang,     \* bound: the peers that may close their end
  LeftBehind,  \* the values g_message_id may have when the server starts
  Modes        \* what the peers and their sockets may do, of:
               \*   "in_turn": as in tests/test-bus-server.c, on the first bus of the
               \*              process all connect first, and one writes when all have
               \*              read what was written before
               \*   "together": they connect and write at any time
               \*   "free": and hang up, or leave their sockets full

Works == 1 .. MaxClients

ASSUME PeersAssumption == NoPeer \notin Peers /\ MayHang \subseteq Peers
ASSUME ClientsAssumption == MaxClients \in Nat \ {0} /\ MaxSent \in Nat
ASSUME LeftAssumption == LeftBehind \subseteq Nat
ASSUME ModesAssumption == Modes \subseteq {"in_turn", "together", "free"}

VARIABLES
  mode,
  sock,          \* the connection of each peer, as the server sees it
  hung,          \* the peers that closed their end
  sent, taken,   \* messages each peer wrote, and those read from its socket
  g_message_id,
  published,     \* every content the slot had; the slot holds the last
  pc,            \* where the execution of each work is
  client,        \* the connection a work serves (p->fd)
  message_id,    \* p->message_id
  bus_data,      \* the messages read, or the place in published of what was copied
  arrival, scan, \* the connection a free work is sought for, and the place in s->work
  acceptor,      \* the work bus_server_queue_work waits for, or 0
  server,        \* how far bus_server_stop got
  heard,         \* history: the publications written to each peer
  owed           \* history: what others wrote while the peer was connected, unless "free"

peerVars  == <<mode, sock, hung, sent, owed>>
busVars   == <<g_message_id, published>>
workVars  == <<pc, client, message_id, bus_data>>
mainVars  == <<arrival, scan, acceptor, server>>
vars == <<peerVars, taken, busVars, workVars, mainVars, heard>>

Publication(p, n) == [by |-> p, upto |-> n]

(* bus_server_start has returned.  The globals of line 17 keep what an     *)
(* earlier bus of the process left in them.                                *)
Init == /\ mode \in Modes
        /\ sock = [p \in Peers |-> "none"] /\ hung = {}
        /\ sent = [p \in Peers |-> 0] /\ taken = [p \in Peers |-> 0]
        /\ g_message_id \in IF mode = "in_turn" THEN {0} ELSE LeftBehind
        /\ published = IF g_message_id = 0 THEN <<>> ELSE <<Publication(NoPeer, 0)>>
        /\ pc = [w \in Works |-> "new"]
        /\ client = [w \in Works |-> NoPeer]
        /\ message_id = [w \in Works |-> 0]
        /\ bus_data = [w \in Works |-> 0]
        /\ arrival = NoPeer /\ scan = 0 /\ acceptor = 0 /\ server = "up"
        /\ heard = [p \in Peers |-> <<>>]
        /\ owed = [p \in Peers |-> {}]

----------------------------------------------------------------------------
(* The peers, processes outside the server *)

Connected(p) == sock[p] \in {"pending", "accepted"} /\ p \notin hung

(* Publication j carries the n-th message of p, the first one to do so. *)
Carries(j, p, n) ==
  LET By(i) == published[i].by = p /\ published[i].upto >= n
  IN  By(j) /\ \A i \in 1 .. j - 1 : ~ By(i)

Heard(p, m) == \E i \in DOMAIN heard[p] : Carries(heard[p][i], m[1], m[2])

(* Nor is anything left to hear once the server closed a connection of the *)
(* two, or stops.                                                          *)
Settled(p, m) == \/ Heard(p, m)
                 \/ "closed" \in {sock[p], sock[m[1]]} \/ server # "up"

AllSettled == \A p \in Peers : \A m \in owed[p] : Settled(p, m)

Connect(p) == /\ sock[p] = "none" /\ server = "up"
              /\ sock' = [sock EXCEPT ![p] = "pending"]
              /\ UNCHANGED <<mode, hung, sent, owed, taken, busVars, workVars, mainVars, heard>>

Total(f) == FoldFunction(+, 0, f)

Send(p) == /\ Connected(p) /\ Total(sent) < MaxSent
           /\ mode = "in_turn" => AllSettled /\ \A q \in Peers : sock[q] # "none"
           /\ sent' = [sent EXCEPT ![p] = @ + 1]
           /\ owed' = [q \in Peers |->
                         IF mode # "free" /\ q # p /\ Connected(q)
                         THEN owed[q] \cup {<<p, sent'[p]>>} ELSE owed[q]]
           /\ UNCHANGED <<mode, sock, hung, taken, busVars, workVars, mainVars, heard>>

HangUp(p) == /\ mode = "free" /\ p \in MayHang /\ Connected(p)
             /\ hung' = hung \cup {p}
             /\ UNCHANGED <<mode, sock, sent, owed, taken, busVars, workVars, mainVars, heard>>

----------------------------------------------------------------------------
(* bus_server_serve and bus_server_queue_work, the acceptor *)

(* Free that refuses only the works that wait for a worker *)
FreeUnlessQueued(w) == pc[w] # "queued"

Free(w) == pc[w] \in {"new", "complete"}

(* The acceptor is not in accept(). *)
Accepting == arrival # NoPeer \/ acceptor # 0

(* accept() returns the connection of p *)
Accept(p) == /\ ~ Accepting /\ server # "stopped"
             /\ sock[p] = "pending"
             /\ arrival' = p /\ scan' = 1
             /\ UNCHANGED <<peerVars, taken, busVars, workVars, acceptor, server, heard>>

(* The loop reads the status of one work after another, while works end. *)
Skip == /\ arrival # NoPeer /\ scan \in Works /\ ~ Free(scan)
        /\ scan' = scan + 1
        /\ UNCHANGED <<peerVars, taken, busVars, workVars, arrival, acceptor, server, heard>>

(* memset and workqueue_add_work, of a work only the acceptor would take *)
Queue == /\ arrival # NoPeer /\ scan \in Works /\ Free(scan)
         /\ sock' = [sock EXCEPT ![arrival] = "accepted"]
         /\ client' = [client EXCEPT ![scan] = arrival]
         /\ pc' = [pc EXCEPT ![scan] = "queued"]
         /\ acceptor' = scan
         /\ arrival' = NoPeer /\ scan' = 0
         /\ UNCHANGED <<mode, hung, sent, owed, taken, busVars, message_id, bus_data, server, heard>>

Refuse == /\ arrival # NoPeer /\ scan = MaxClients + 1
          /\ sock' = [sock EXCEPT ![arrival] = "closed"]
          /\ arrival' = NoPeer /\ scan' = 0
          /\ UNCHANGED <<mode, hung, sent, owed, taken, busVars, workVars, acceptor, server, heard>>

(* A worker executes the work: its status is WQ_WORK_IN_PROGRESS. *)
InProgress(w) == pc[w] \in {"read", "publish", "look", "copy", "write", "leave"}

(* SeesStarted that waits for WQ_WORK_COMPLETE *)
SeesComplete == /\ acceptor # 0
                /\ pc[acceptor] = "complete"
                /\ acceptor' = 0
                /\ UNCHANGED <<peerVars, taken, busVars, workVars, arrival, scan, server, heard>>

SeesStarted == /\ acceptor # 0
               /\ InProgress(acceptor)
               /\ acceptor' = 0
               /\ UNCHANGED <<peerVars, taken, busVars, workVars, arrival, scan, server, heard>>

----------------------------------------------------------------------------
(* bus_server_work_fn.  From bus_server_stop on, the cancellation of the   *)
(* worker is pending: it ends at its next read or write.                   *)

Goto(w, l) == pc' = [pc EXCEPT ![w] = l]

(* The contents of bus_data are not used again. *)
Forget(w) == bus_data' = [bus_data EXCEPT ![w] = 0]

(* A worker dequeues the work. *)
Start(w) == /\ pc[w] = "queued" /\ server = "up"
            /\ Goto(w, "read")
            /\ UNCHANGED <<peerVars, taken, busVars, client, message_id, bus_data, mainVars, heard>>

(* Read that forgets p->message_id += 1 *)
ReadUncounted(w) == LET p == client[w] IN
  /\ pc[w] = "read" /\ server = "up"
  /\ taken[p] < sent[p]
  /\ taken' = [taken EXCEPT ![p] = sent[p]]
  /\ bus_data' = [bus_data EXCEPT ![w] = sent[p]]
  /\ Goto(w, "publish")
  /\ UNCHANGED <<peerVars, busVars, client, message_id, mainVars, heard>>

(* read_loop: one read takes all that the peer wrote. *)
Read(w) == LET p == client[w] IN
  /\ pc[w] = "read" /\ server = "up"
  /\ taken[p] < sent[p]
  /\ taken' = [taken EXCEPT ![p] = sent[p]]
  /\ bus_data' = [bus_data EXCEPT ![w] = sent[p]]
  /\ message_id' = [message_id EXCEPT ![w] = @ + 1]
  /\ Goto(w, "publish")
  /\ UNCHANGED <<peerVars, busVars, client, mainVars, heard>>

(* read_loop answers 0: EAGAIN, or the end of what a peer that hung up     *)
(* wrote, which the code does not tell apart.                              *)
ReadNothing(w) == /\ pc[w] = "read" /\ server = "up"
                  /\ taken[client[w]] = sent[client[w]]
                  /\ Goto(w, "look")
                  /\ UNCHANGED <<peerVars, taken, busVars, client, message_id, bus_data, mainVars, heard>>

(* read_loop answers -1: ECONNRESET *)
ReadFails(w) == /\ pc[w] = "read" /\ server = "up"
                /\ client[w] \in hung
                /\ Goto(w, "leave")
                /\ UNCHANGED <<peerVars, taken, busVars, client, message_id, bus_data, mainVars, heard>>

Publish(w) ==
  /\ pc[w] = "publish"
  /\ published' = Append(published, Publication(client[w], bus_data[w]))
  /\ g_message_id' = message_id[w]
  /\ Forget(w)
  /\ Goto(w, "look")
  /\ UNCHANGED <<peerVars, taken, client, message_id, mainVars, heard>>

(* The condition of line 53, without the lock *)
Look(w) == /\ pc[w] = "look"
           /\ Goto(w, IF g_message_id > message_id[w] THEN "copy" ELSE "read")
           /\ UNCHANGED <<peerVars, taken, busVars, client, message_id, bus_data, mainVars, heard>>

(* Copy that counts by one instead *)
CopyNext(w) == /\ pc[w] = "copy"
               /\ bus_data' = [bus_data EXCEPT ![w] = Len(published)]
               /\ message_id' = [message_id EXCEPT ![w] = @ + 1]
               /\ Goto(w, "write")
               /\ UNCHANGED <<peerVars, taken, busVars, client, mainVars, heard>>

Copy(w) == /\ pc[w] = "copy"
           /\ bus_data' = [bus_data EXCEPT ![w] = Len(published)]
           /\ message_id' = [message_id EXCEPT ![w] = g_message_id]
           /\ Goto(w, "write")
           /\ UNCHANGED <<peerVars, taken, busVars, client, mainVars, heard>>

(* write_loop; it answers 0 for EAGAIN, when the socket of the peer is     *)
(* full, and nothing is written.                                           *)
Write(w) == LET p == client[w] IN
  /\ pc[w] = "write" /\ server = "up"
  /\ p \notin hung
  /\ \/ heard' = [heard EXCEPT ![p] = Append(@, bus_data[w])]
     \/ mode = "free" /\ UNCHANGED heard
  /\ Forget(w)
  /\ Goto(w, "read")
  /\ UNCHANGED <<peerVars, taken, busVars, client, message_id, mainVars>>

(* write_loop answers -1: EPIPE *)
WriteFails(w) == /\ pc[w] = "write" /\ server = "up"
                 /\ client[w] \in hung
                 /\ Goto(w, "leave")
                 /\ UNCHANGED <<peerVars, taken, busVars, client, message_id, bus_data, mainVars, heard>>

(* Leave in a loop that goes on after the close *)
LeaveGoesOn(w) == /\ pc[w] = "leave"
                  /\ sock' = [sock EXCEPT ![client[w]] = "closed"]
                  /\ client' = [client EXCEPT ![w] = NoPeer]
                  /\ Goto(w, "look")
                  /\ UNCHANGED <<mode, hung, sent, owed, taken, busVars, message_id, bus_data, mainVars, heard>>

(* close, free, and complete_work of the work queue *)
Leave(w) == /\ pc[w] = "leave"
            /\ sock' = [sock EXCEPT ![client[w]] = "closed"]
            /\ client' = [client EXCEPT ![w] = NoPeer]
            /\ message_id' = [message_id EXCEPT ![w] = 0]
            /\ Forget(w)
            /\ Goto(w, "complete")
            /\ UNCHANGED <<mode, hung, sent, owed, taken, busVars, mainVars, heard>>

(* Die with cancellation disabled around the read *)
DieInWrite(w) == /\ pc[w] = "write" /\ server # "up"
                 /\ Goto(w, "dead")
                 /\ UNCHANGED <<peerVars, taken, busVars, client, message_id, bus_data, mainVars, heard>>

(* A cancelled worker ends inside its work: the descriptor stays open. *)
Die(w) == /\ pc[w] \in {"read", "write"} /\ server # "up"
          /\ Goto(w, "dead")
          /\ UNCHANGED <<peerVars, taken, busVars, client, message_id, bus_data, mainVars, heard>>

----------------------------------------------------------------------------
(* bus_server_stop, when no peer is being accepted: as the test calls it.  *)
(* (With "free" peers it is left out, to bound the states.)                *)

(* workqueue_destroy: the workers are cancelled.  Its backlog is empty, as *)
(* the acceptor waited for each work to be started.                        *)
Stop == /\ mode # "free"
        /\ server = "up" /\ ~ Accepting
        /\ \A p \in Peers : sock[p] # "pending"
        /\ server' = "stopping"
        /\ UNCHANGED <<peerVars, taken, busVars, workVars, arrival, scan, acceptor, heard>>

(* The acceptor ends in accept(), its join returns, the socket is closed. *)
Stopped == /\ server = "stopping" /\ ~ Accepting
           /\ server' = "stopped"
           /\ UNCHANGED <<peerVars, taken, busVars, workVars, arrival, scan, acceptor, heard>>

----------------------------------------------------------------------------
WorkStep(w) == \/ Start(w) \/ Read(w) \/ ReadNothing(w) \/ ReadFails(w)
               \/ Publish(w) \/ Look(w) \/ Copy(w) \/ Write(w) \/ WriteFails(w)
               \/ Leave(w) \/ Die(w)

AcceptorStep == Skip \/ Queue \/ Refuse \/ SeesStarted \/ \E p \in Peers : Accept(p)

Next == \/ \E p \in Peers : Connect(p) \/ Send(p) \/ HangUp(p)
        \/ \E w \in Works : WorkStep(w)
        \/ AcceptorStep
        \/ Stop \/ Stopped

(* The threads of the server are scheduled, and no wakeup of the work      *)
(* queue is lost (module Workqueue says when one is).  Peers do nothing    *)
(* they need not do.                                                       *)
Fairness == /\ \A w \in Works : WF_vars(WorkStep(w))
            /\ WF_vars(AcceptorStep)
            /\ WF_vars(Stopped)

Spec == Init /\ [][Next]_vars /\ Fairness

----------------------------------------------------------------------------
Places == {"new", "queued", "read", "publish", "look", "copy", "write", "leave",
           "complete", "dead"}

(* A work that has a client *)
InUse(w) == pc[w] = "queued" \/ InProgress(w) \/ pc[w] = "dead"

(* Types of the variables; a work in use has a client. *)
TypeOK ==
  /\ mode \in Modes
  /\ sock \in [Peers -> {"none", "pending", "accepted", "closed"}]
  /\ hung \subseteq Peers
  /\ sent \in [Peers -> Nat] /\ taken \in [Peers -> Nat]
  /\ g_message_id \in Nat
  /\ published \in Seq([by : Peers \cup {NoPeer}, upto : Nat])
  /\ pc \in [Works -> Places]
  /\ client \in [Works -> Peers \cup {NoPeer}]
  /\ message_id \in [Works -> Nat]
  /\ bus_data \in [Works -> Nat]
  /\ arrival \in Peers \cup {NoPeer} /\ scan \in 0 .. MaxClients + 1
  /\ acceptor \in 0 .. MaxClients
  /\ server \in {"up", "stopping", "stopped"}
  /\ heard \in [Peers -> Seq(Nat)]
  /\ \A w \in Works : InUse(w) => client[w] \in Peers

(* The server implements the abstract bus, whatever the peers do.          *)
Bus == INSTANCE Broadcast WITH
         log <- [j \in DOMAIN published |-> published[j].by],
         Earlier <- {NoPeer}
BroadcastSpec == Bus!Spec

(* Every connection the server accepted is served by one work, until the   *)
(* server closes it or stops: none is abandoned, and no descriptor is read *)
(* or closed for two clients.                                              *)
EachServed ==
  \A p \in Peers : sock[p] = "accepted" /\ server = "up" =>
    \E w \in Works : \A v \in Works : (InUse(v) /\ client[v] = p) <=> v = w

(* "A broadcasting IPC server for connected clients": what a peer writes   *)
(* is forwarded to every peer that was connected, unless the server closes *)
(* the connection of one of them or is stopped.                            *)
EveryoneHears ==
  \A p \in Peers : \A m \in Peers \X (1 .. MaxSent) : m \in owed[p] ~> Settled(p, m)

(* The same when the peers write in turn, as they do in the test. *)
InTurnEveryoneHears == (mode = "in_turn" /\ ~ AllSettled) ~> AllSettled

(* The acceptor goes back to accept() as long as no peer hangs up.         *)
AcceptorReturns == (mode # "free" /\ Accepting) ~> ~ Accepting

(* After bus_server_stop no thread of the server is left, and no client    *)
(* hears anything more.                                                    *)
StopEndsAll == (server # "up") ~> (server = "stopped" /\ \A w \in Works : ~ InProgress(w))
==============================================================================
