---------------------------- MODULE ChannelManager ----------------------------
(***************************************************************************)
(* The channels of src/channel.c over src/serial.c, src/sockutils.c and    *)
(* src/hashmap.c: processes with a manager each open, use and close the    *)
(* devices they share.  A call is a list of system calls, each a step that *)
(* another process may come between and that may fail; the error path that *)
(* follows a failure, and what a process does to itself alone, are part of *)
(* the step.  The kernel is external: names in the file system and message *)
(* queue keys, the objects they name, descriptors, terminals.              *)
(***************************************************************************)
EXTENDS Integers, Sequences, FiniteSets

CONSTANTS Procs, Devices, Null, Hash, BaseSize,
          Uses,         \* assignments of a channel type and of users to every device
          Objects,      \* bounds the inodes, queues and sockets alive at a time
          MaxFaults,    \* bounds the failing system calls and the crashes
          MaxSends      \* bounds the messages

\* What a process keeps of an open channel: its end, what it reads and writes, the listening
\* socket of a bus it serves, and the settings of the terminal before.
Channels == [server : BOOLEAN, r : Objects \cup {0}, w : Objects \cup {0},
             l : Objects \cup {0}, old : BOOLEAN]

ASSUME DevicesAssumption == IsFiniteSet(Devices) /\ "none" \notin Devices \cup {Null}
ASSUME NullAssumption == Null \notin Devices \cup Procs /\ Null \notin Channels
ASSUME MapAssumption == Hash \in [Devices -> Nat] /\ BaseSize \in Nat \ {0}
ASSUME UsesAssumption ==
  Uses \subseteq [Devices -> [type : {"uart", "msgq", "fifo", "bus"}, users : SUBSET Procs]]
ASSUME ObjectsAssumption == 0 \notin Objects
ASSUME ChannelBounds == MaxFaults \in Nat \ {0} /\ MaxSends \in Nat

VARIABLES use,
          name,      \* [device, end] -> object or 0.  End 0 is the file "-0", the key of
                     \* id 13, or the socket; end 1 the file "-1" or the key of id 17
          fds,       \* per process: what its descriptors are open on
          tty,       \* per device: lock owner, whether set up, lines that are high
          inbox,     \* objects that hold data
          stale,     \* history: per object, who began to open it after that data came
          call,      \* per process: the channel call in progress
          map, open_channels,
          iter,      \* per process: the iterator of channel_manager_teardown
          faults, sent,
          touch,     \* history: per device, who opened it since the last server did, until
                     \* another one begins to, or one closes, and alone
          tainted    \* history: a receiver got data from before it opened the channel

kernel == <<name, fds, tty, inbox, stale, sent>>
manager == <<map, open_channels, iter>>
history == <<touch, tainted>>
vars == <<use, kernel, call, manager, faults, history>>

H == INSTANCE HashMap WITH Keys <- Devices, Vals <- Channels, map <- map, it <- iter, due <- {}

Idle == [op |-> "idle", dev |-> Null, todo |-> <<>>, server |-> FALSE, clean |-> TRUE,
         r |-> 0, w |-> 0, l |-> 0, old |-> FALSE]

Fd(d, role, o) == [dev |-> d, role |-> role, obj |-> o]
Type(d) == use[d].type
\* A descriptor that an error path forgot.
Lost(d) == Fd(d, "lost", 0)
Channel(p, d) == map[p].val[d]
IsOpen(p, d) == d \in DOMAIN map[p].val

Init ==
  /\ use \in Uses
  /\ name = [x \in Devices \X {0, 1} |-> 0]
  /\ fds = [p \in Procs |-> {}]
  /\ tty = [d \in Devices |-> [lock |-> Null, raw |-> FALSE, lines |-> {}]]
  /\ inbox = {} /\ stale = [o \in Objects |-> {}]
  /\ call = [p \in Procs |-> Idle]
  /\ map = [p \in Procs |-> H!EmptyMap]
  /\ open_channels = [p \in Procs |-> 0]
  /\ iter = [p \in Procs |-> H!NoIt]
  /\ faults = 0 /\ sent = 0
  /\ touch = [d \in Devices |-> {}] /\ tainted = FALSE

\* The system calls of channel_*_setup.  Sends go to end 0 from the server of a message
\* queue, and to end 1 from the server of a pair of fifos.
Setup(k, server) ==
  CASE k = "uart" -> <<<<"ttyopen">>, <<"flock">>, <<"getattr">>, <<"setattr">>, <<"lines">>>>
    [] k = "msgq" -> <<<<"msgget", IF server THEN 0 ELSE 1, "w">>,
                       <<"msgget", IF server THEN 1 ELSE 0, "r">>>>
    [] k = "fifo" -> (IF server THEN <<<<"unlink", 0>>, <<"mkfifo", 0>>, <<"unlink", 1>>, <<"mkfifo", 1>>>>
                                ELSE <<>>)
                     \o <<<<"open", IF server THEN 0 ELSE 1, "r">>,
                          <<"open", IF server THEN 1 ELSE 0, "w">>, <<"setfl">>>>
    [] k = "bus" -> <<<<"access">>, <<"connect">>>>

\* bus_server_start, up to sock_unix_listen; the thread and the workers are BusServer's.
StartServer == <<<<"socket">>, <<"unlink", 0>>, <<"bind">>, <<"listen">>>>

\* A teardown in which both ends of a channel remove what they share.
TeardownByBoth(k, c) ==
  CASE k = "uart" -> <<<<"ttyclose">>>>
    [] k = "msgq" -> <<<<"rmid", c.w>>, <<"rmid", c.r>>>>
    [] k = "fifo" -> <<<<"close">>, <<"unlink", 0>>, <<"unlink", 1>>>>
    [] k = "bus" -> <<<<"close">>, <<"unlink", 0>>>>

\* A teardown that forgets the second fifo.
TeardownOneEnd(k, c) ==
  CASE k = "uart" -> <<<<"ttyclose">>>>
    [] k = "msgq" -> IF c.server THEN <<<<"rmid", c.w>>, <<"rmid", c.r>>>> ELSE <<>>
    [] k = "fifo" -> <<<<"close">>>> \o (IF c.server THEN <<<<"unlink", 0>>>> ELSE <<>>)
    [] k = "bus" -> <<<<"close">>>> \o (IF c.l # 0 THEN <<<<"unlink", 0>>>> ELSE <<>>)

Teardown(k, c) ==
  CASE k = "uart" -> <<<<"ttyclose">>>>
    [] k = "msgq" -> IF c.server THEN <<<<"rmid", c.w>>, <<"rmid", c.r>>>> ELSE <<>>
    [] k = "fifo" -> <<<<"close">>>> \o (IF c.server THEN <<<<"unlink", 0>>, <<"unlink", 1>>>> ELSE <<>>)
    [] k = "bus" -> <<<<"close">>>> \o (IF c.l # 0 THEN <<<<"unlink", 0>>>> ELSE <<>>)

\* Whether a channel is the end that the other one depends on.
Serves(c, d) == c.l # 0 \/ (c.server /\ Type(d) \in {"fifo", "msgq"})

Busy(p) == call[p].op # "idle"
At(p, s) == Busy(p) /\ call[p].todo # <<>> /\ Head(call[p].todo)[1] = s
Arg(p) == Head(call[p].todo)[2]
Dev(p) == call[p].dev
Next1(c) == [c EXCEPT !.todo = Tail(@)]
Advance(p) == call' = [call EXCEPT ![p] = Next1(@)]

Fault == faults < MaxFaults /\ faults' = faults + 1
Upset == faults' = IF faults < MaxFaults THEN faults + 1 ELSE faults

Alive ==
  {name[x] : x \in DOMAIN name}
  \cup (UNION {{f.obj : f \in fds[p]} \cup {call[p].r, call[p].w, call[p].l} : p \in Procs})
  \cup (UNION {UNION {{Channel(p, d).r, Channel(p, d).w, Channel(p, d).l} : d \in {e \in Devices : IsOpen(p, e)}}
               : p \in Procs})
Fresh == CHOOSE o \in Objects : o \notin Alive
Room == Objects \ Alive # {}
-----------------------------------------------------------------------------
\* channel_open, up to its setup; it refuses a device that is open here already.
BeginOpen(p, d, server) ==
  LET reads == name[<<d, IF server = (Type(d) = "fifo") THEN 0 ELSE 1>>]
      alone == \A q \in Procs : Dev(q) # d
  IN /\ p \in use[d].users /\ ~Busy(p) /\ iter[p] = H!NoIt /\ ~H!Has(map[p], d)
     /\ call' = [q \in Procs |->
                   IF q = p THEN [Idle EXCEPT !.op = "open", !.dev = d, !.server = server,
                                              !.todo = Setup(Type(d), server), !.clean = alone]
                   ELSE IF Dev(q) = d THEN [call[q] EXCEPT !.clean = FALSE] ELSE call[q]]
     /\ stale' = [o \in Objects |-> IF o = reads /\ o \in inbox THEN stale[o] \cup {p} ELSE stale[o]]
     /\ touch' = [touch EXCEPT ![d] = IF server /\ Type(d) # "bus" THEN {} ELSE @]
     /\ UNCHANGED <<use, name, fds, tty, inbox, sent, manager, faults, tainted>>

\* An open that does not flush.
FinishOpenStale(p) ==
  LET c == call[p]
      d == c.dev
  IN /\ c.op = "open" /\ c.todo \in {<<>>, <<<<"setfl">>>>}
     /\ open_channels' = [open_channels EXCEPT ![p] = @ + 1]
     /\ map' = [map EXCEPT ![p] =
                  H!Insert(@, d, [server |-> c.server, r |-> c.r, w |-> c.w, l |-> c.l,
                                  old |-> c.old])]
     /\ touch' = [touch EXCEPT ![d] = CASE ~c.clean -> {} [] c.clean /\ Serves(c, d) -> {p}
                                        [] OTHER -> @ \cup {p}]
     /\ call' = [call EXCEPT ![p] = Idle]
     /\ UNCHANGED <<use, name, fds, tty, inbox, stale, sent, iter, faults, tainted>>

\* The rest of channel_open: set the descriptors not to block, flush what waits, count,
\* insert.  The id that a channel gets is the count, which is not unique once a channel
\* was closed; nothing uses it.
FinishOpen(p) ==
  LET c == call[p]
      d == c.dev
  IN /\ c.op = "open" /\ c.todo \in {<<>>, <<<<"setfl">>>>}
     /\ inbox' = inbox \ {c.r} /\ stale' = [o \in Objects |-> IF o = c.r THEN {} ELSE stale[o]]
     /\ open_channels' = [open_channels EXCEPT ![p] = @ + 1]
     /\ map' = [map EXCEPT ![p] =
                  H!Insert(@, d, [server |-> c.server, r |-> c.r, w |-> c.w, l |-> c.l,
                                  old |-> c.old])]
     /\ touch' = [touch EXCEPT ![d] = CASE ~c.clean -> {} [] c.clean /\ Serves(c, d) -> {p}
                                        [] OTHER -> @ \cup {p}]
     /\ call' = [call EXCEPT ![p] = Idle]
     /\ UNCHANGED <<use, name, fds, tty, sent, iter, faults, tainted>>

\* channel_close, up to its teardown.
BeginClose(p, d) ==
  /\ ~Busy(p) /\ iter[p] \in {H!NoIt, [iter[p] EXCEPT !.cur = d]} /\ H!Has(map[p], d)
  /\ call' = [q \in Procs |->
                IF q = p THEN [Idle EXCEPT !.op = "close", !.dev = d, !.r = Channel(p, d).r,
                                           !.w = Channel(p, d).w, !.l = Channel(p, d).l,
                                           !.todo = Teardown(Type(d), Channel(p, d))]
                ELSE IF Dev(q) = d THEN [call[q] EXCEPT !.clean = FALSE] ELSE call[q]]
  /\ touch' = [touch EXCEPT ![d] = IF Serves(Channel(p, d), d) THEN {} ELSE @ \ {p}]
  /\ UNCHANGED <<use, kernel, manager, faults, tainted>>

\* A close that counts the channel twice.
FinishCloseTwice(p) ==
  /\ call[p].op = "close" /\ call[p].todo = <<>>
  /\ map' = [map EXCEPT ![p] = H!Delete(@, Dev(p))]
  /\ open_channels' = [open_channels EXCEPT ![p] = @ - 2]
  /\ call' = [call EXCEPT ![p] = Idle]
  /\ UNCHANGED <<use, kernel, iter, faults, history>>

\* A close that leaves the channel counted.
FinishCloseCounted(p) ==
  /\ call[p].op = "close" /\ call[p].todo = <<>>
  /\ map' = [map EXCEPT ![p] = H!Delete(@, Dev(p))]
  /\ call' = [call EXCEPT ![p] = Idle]
  /\ UNCHANGED <<use, kernel, open_channels, iter, faults, history>>

FinishClose(p) ==
  /\ call[p].op = "close" /\ call[p].todo = <<>>
  /\ map' = [map EXCEPT ![p] = H!Delete(@, Dev(p))]
  /\ open_channels' = [open_channels EXCEPT ![p] = @ - 1]
  /\ call' = [call EXCEPT ![p] = Idle]
  /\ UNCHANGED <<use, kernel, iter, faults, history>>

\* channel_manager_teardown: the loop hands every channel to channel_close, which deletes
\* the item the iterator is at; then the map is freed, and the manager may start again.
\* The teardown of a single channel is a channel_close.
BeginTeardown(p) ==
  /\ ~Busy(p) /\ iter[p] = H!NoIt /\ map[p].count > 1
  /\ iter' = [iter EXCEPT ![p] = H!ItNext(map[p], H!ItInit)]
  /\ UNCHANGED <<use, kernel, call, map, open_channels, faults, history>>

NextTeardown(p) ==
  /\ ~Busy(p) /\ iter[p] # H!NoIt
  /\ IF iter[p].cur = Null
     THEN iter' = [iter EXCEPT ![p] = H!NoIt] /\ map' = [map EXCEPT ![p] = H!EmptyMap]
     ELSE /\ ~IsOpen(p, iter[p].cur)
          /\ iter' = [iter EXCEPT ![p] = H!ItNext(map[p], @)] /\ UNCHANGED map
  /\ UNCHANGED <<use, kernel, call, open_channels, faults, history>>
-----------------------------------------------------------------------------
\* The system calls, when they do what they are called for.
Unlink(p) ==
  /\ At(p, "unlink")
  /\ name' = [name EXCEPT ![<<Dev(p), Arg(p)>>] = 0]
  /\ Advance(p)
  /\ UNCHANGED <<use, fds, tty, inbox, stale, sent, manager, faults, history>>

\* mkfifo, or bind for a socket; the name must be free.
MakeName(p) ==
  LET x == <<Dev(p), IF At(p, "bind") THEN 0 ELSE Arg(p)>>
  IN /\ At(p, "mkfifo") \/ At(p, "bind")
     /\ name[x] = 0 /\ (At(p, "bind") \/ Room)
     /\ name' = [name EXCEPT ![x] = IF At(p, "bind") THEN call[p].l ELSE Fresh]
     /\ inbox' = inbox \ {name'[x]}
     /\ Advance(p)
     /\ UNCHANGED <<use, fds, tty, stale, sent, manager, faults, history>>

OpenEnd(p) ==
  LET o == name[<<Dev(p), Arg(p)>>]
      role == Head(call[p].todo)[3]
  IN /\ At(p, "open") /\ o # 0
     /\ fds' = [fds EXCEPT ![p] = @ \cup {Fd(Dev(p), role, o)}]
     /\ call' = [call EXCEPT ![p] = [Next1(@) EXCEPT ![role] = o]]
     /\ UNCHANGED <<use, name, tty, inbox, stale, sent, manager, faults, history>>

\* msgget with IPC_CREAT
MsgGet(p) ==
  LET x == <<Dev(p), Arg(p)>>
      o == IF name[x] = 0 THEN Fresh ELSE name[x]
  IN /\ At(p, "msgget") /\ (name[x] # 0 \/ Room)
     /\ name' = [name EXCEPT ![x] = o]
     /\ inbox' = IF name[x] = 0 THEN inbox \ {o} ELSE inbox
     /\ call' = [call EXCEPT ![p] = [Next1(@) EXCEPT ![Head(call[p].todo)[3]] = o]]
     /\ UNCHANGED <<use, fds, tty, stale, sent, manager, faults, history>>

\* msgctl with IPC_RMID, by identifier: a queue that is gone already is none.
RmId(p) ==
  /\ At(p, "rmid")
  /\ name' = [x \in DOMAIN name |-> IF name[x] = Arg(p) THEN 0 ELSE name[x]]
  /\ Advance(p)
  /\ UNCHANGED <<use, fds, tty, inbox, stale, sent, manager, faults, history>>

\* channel_unix_bus_setup: without the socket in the file system it starts the server.
Access(p) ==
  /\ At(p, "access")
  /\ call' = [call EXCEPT ![p] =
                [call[p] EXCEPT !.todo = (IF name[<<Dev(p), 0>>] = 0 THEN StartServer ELSE <<>>) \o Tail(@)]]
  /\ UNCHANGED <<use, kernel, manager, faults, history>>

Socket(p) ==
  LET o == Fresh
  IN /\ At(p, "socket") /\ Room
     /\ fds' = [fds EXCEPT ![p] = @ \cup {Fd(Dev(p), "bound", o)}]
     /\ call' = [call EXCEPT ![p] = [Next1(@) EXCEPT !.l = o]]
     /\ UNCHANGED <<use, name, tty, inbox, stale, sent, manager, faults, history>>

Listen(p) ==
  /\ At(p, "listen")
  /\ fds' = [fds EXCEPT ![p] = (@ \ {Fd(Dev(p), "bound", call[p].l)})
                               \cup {Fd(Dev(p), "listening", call[p].l)}]
  /\ Advance(p)
  /\ UNCHANGED <<use, name, tty, inbox, stale, sent, manager, faults, history>>

Served(d) ==
  name[<<d, 0>>] # 0 /\ \E q \in Procs : Fd(d, "listening", name[<<d, 0>>]) \in fds[q]

Connect(p) ==
  LET d == Dev(p)
  IN /\ At(p, "connect") /\ Served(d)
     /\ fds' = [fds EXCEPT ![p] = @ \cup {Fd(d, "w", name[<<d, 0>>])}]
     /\ call' = [call EXCEPT ![p] = [Next1(@) EXCEPT !.w = name[<<d, 0>>]]]
     /\ UNCHANGED <<use, name, tty, inbox, stale, sent, manager, faults, history>>

\* A close that forgets the descriptor for writing.
CloseReading(p) ==
  /\ At(p, "close")
  /\ fds' = [fds EXCEPT ![p] = {f \in @ : f.dev # Dev(p) \/ f = Lost(Dev(p)) \/ f.role = "w"}]
  /\ Advance(p)
  /\ UNCHANGED <<use, name, tty, inbox, stale, sent, manager, faults, history>>

\* Closing the descriptors of a channel; bus_server_stop closes the listening one.
Close(p) ==
  /\ At(p, "close")
  /\ fds' = [fds EXCEPT ![p] = {f \in @ : f.dev # Dev(p) \/ f = Lost(Dev(p))}]
  /\ Advance(p)
  /\ UNCHANGED <<use, name, tty, inbox, stale, sent, manager, faults, history>>

\* serial_open, from its call of open on.
TtyStep(p) ==
  LET d == Dev(p)
  IN /\ \/ /\ At(p, "ttyopen")
           /\ fds' = [fds EXCEPT ![p] = @ \cup {Fd(d, "tty", 0)}]
           /\ UNCHANGED tty /\ Advance(p)
        \/ /\ At(p, "flock") /\ tty[d].lock = Null
           /\ tty' = [tty EXCEPT ![d].lock = p]
           /\ UNCHANGED fds /\ Advance(p)
        \/ /\ At(p, "getattr")
           /\ call' = [call EXCEPT ![p] = [Next1(@) EXCEPT !.old = tty[d].raw]]
           /\ UNCHANGED <<fds, tty>>
        \/ /\ At(p, "setattr")
           /\ tty' = [tty EXCEPT ![d].raw = TRUE]
           /\ UNCHANGED fds /\ Advance(p)
        \/ /\ At(p, "lines")
           /\ tty' = [tty EXCEPT ![d].lines = {"dtr", "rts"}]
           /\ UNCHANGED fds /\ Advance(p)
     /\ UNCHANGED <<use, name, inbox, stale, sent, manager, faults, history>>

\* serial_close.  It drops the lines even if it cannot read them, unless the setting
\* fails; its last flock is on a closed descriptor, which is what releases the lock.
TtyClose(p) ==
  LET d == Dev(p)
  IN /\ At(p, "ttyclose")
     /\ \/ tty' = [tty EXCEPT ![d] = [lock |-> Null, raw |-> Channel(p, d).old, lines |-> {}]]
           /\ UNCHANGED faults
        \/ tty' = [tty EXCEPT ![d] = [@ EXCEPT !.lock = Null, !.raw = Channel(p, d).old]] /\ Fault
     /\ fds' = [fds EXCEPT ![p] = @ \ {Fd(d, "tty", 0)}]
     /\ Advance(p)
     /\ UNCHANGED <<use, name, inbox, stale, sent, manager, history>>

\* serial_assert_dtr and serial_assert_rts; when the lines cannot be read, the other one
\* becomes whatever the uninitialized status holds.
AssertLine(p, d, line, high) ==
  LET others == tty[d].lines \ {line}
      set(s) == tty' = [tty EXCEPT ![d].lines = IF high THEN s \cup {line} ELSE s]
  IN /\ ~Busy(p) /\ Type(d) = "uart" /\ IsOpen(p, d)
     /\ \/ set(others) /\ UNCHANGED faults
        \/ Fault /\ \E s \in SUBSET ({"dtr", "rts"} \ {line}) : set(s)
     /\ UNCHANGED <<use, name, fds, inbox, stale, sent, call, manager, history>>
-----------------------------------------------------------------------------
\* The process ends: by a crash, by exit(-1), or in bus_server_stop.
Die(p) ==
  /\ fds' = [fds EXCEPT ![p] = {}]
  /\ tty' = [d \in Devices |-> IF tty[d].lock = p THEN [tty[d] EXCEPT !.lock = Null] ELSE tty[d]]
  /\ call' = [call EXCEPT ![p] = Idle]
  /\ map' = [map EXCEPT ![p] = H!EmptyMap]
  /\ open_channels' = [open_channels EXCEPT ![p] = 0]
  /\ iter' = [iter EXCEPT ![p] = H!NoIt]
  /\ touch' = [d \in Devices |-> touch[d] \ {p}]
  /\ UNCHANGED <<use, name, inbox, stale, sent, tainted>>

Crash(p) == Fault /\ Die(p)

\* Where a system call of a setup may fail by itself: the name is taken, is gone, or has
\* no listener; another process holds the lock.  Any other call fails by a fault.
Refused(p) ==
  LET d == Dev(p)
  IN \/ At(p, "mkfifo") /\ name[<<d, Arg(p)>>] # 0
     \/ At(p, "open") /\ name[<<d, Arg(p)>>] = 0
     \/ At(p, "flock") /\ tty[d].lock # Null
     \/ At(p, "bind") /\ name[<<d, 0>>] # 0
     \/ At(p, "connect") /\ ~Served(d)

Fails(p, steps) ==
  /\ call[p].op = "open" /\ \E s \in steps : At(p, s)
  /\ \/ Refused(p) /\ UNCHANGED faults
     \/ ~Refused(p) /\ Fault

GiveUp(p) == call' = [call EXCEPT ![p] = Idle] /\ UNCHANGED <<use, inbox, stale, sent, manager, touch, tainted>>

\* The end of channel_fifo_setup: it closes rfd twice and wfd never, and unlinks the files
\* it knows the names of, be they its own or its server's.
FifoFails(p) ==
  LET d == Dev(p)
      made == {e \in {0, 1} : \A i \in DOMAIN call[p].todo : call[p].todo[i] # <<"mkfifo", e>>}
  IN /\ Fails(p, {"mkfifo", "open", "setfl"})
     /\ name' = [x \in DOMAIN name |-> IF x[1] = d /\ x[2] \in made THEN 0 ELSE name[x]]
     /\ fds' = [fds EXCEPT ![p] = (@ \ {Fd(d, "r", call[p].r), Fd(d, "w", call[p].w)})
                                  \cup (IF call[p].w = 0 THEN {} ELSE {Lost(d)})]
     /\ UNCHANGED tty /\ GiveUp(p)

\* A queue that was created stays.
MsgqFails(p) == Fails(p, {"msgget"}) /\ GiveUp(p) /\ UNCHANGED <<name, fds, tty>>

\* The error path of serial_open: the descriptor is closed except when the lines failed,
\* the old settings are restored, and the lock goes.
UartFails(p) ==
  LET d == Dev(p)
  IN /\ Fails(p, {"ttyopen", "flock", "getattr", "setattr", "lines"})
     /\ fds' = [fds EXCEPT ![p] = (@ \ {Fd(d, "tty", 0)})
                                  \cup (IF At(p, "lines") THEN {Lost(d)} ELSE {})]
     /\ tty' = [tty EXCEPT ![d] = [tty[d] EXCEPT !.lock = IF @ = p THEN Null ELSE @,
                                                 !.raw = IF At(p, "setattr") \/ At(p, "lines")
                                                         THEN call[p].old ELSE @]]
     /\ UNCHANGED name /\ GiveUp(p)

\* A server that did not start is stopped nevertheless: bus_server_stop cancels a thread
\* that was never created.
StartFails(p) ==
  /\ call[p].op = "open" /\ \E s \in {"socket", "bind", "listen"} : At(p, s)
  /\ \/ Refused(p) /\ Upset
     \/ ~Refused(p) /\ Fault
  /\ Die(p)

\* sock_unix_connect forgets its socket; a server just started is stopped, which unlinks
\* the path, whoever's it is by now.
ConnectFails(p) ==
  LET d == Dev(p)
      own == call[p].l # 0
  IN /\ Fails(p, {"connect"})
     /\ fds' = [fds EXCEPT ![p] = (@ \ {Fd(d, "listening", call[p].l)}) \cup {Lost(d)}]
     /\ name' = IF own THEN [name EXCEPT ![<<d, 0>>] = 0] ELSE name
     /\ UNCHANGED tty /\ GiveUp(p)
-----------------------------------------------------------------------------
Removed(o) == o \notin {name[x] : x \in DOMAIN name}

\* channel_fifo_send and channel_msgq_send.  A message for a queue that was removed is
\* lost and the length returned, or the process exits.
Send(p, d) ==
  LET o == Channel(p, d).w
      gone == Type(d) = "msgq" /\ Removed(o)
  IN /\ ~Busy(p) /\ Type(d) \in {"fifo", "msgq"} /\ IsOpen(p, d)
     /\ \/ /\ ~gone /\ o \notin inbox /\ sent < MaxSends /\ sent' = sent + 1
           /\ inbox' = inbox \cup {o} /\ stale' = [stale EXCEPT ![o] = {}]
           /\ UNCHANGED <<use, name, fds, tty, call, manager, faults, history>>
        \/ gone /\ Upset /\ Die(p)

\* channel_fifo_recv and channel_msgq_recv
Recv(p, d) ==
  LET o == Channel(p, d).r
  IN /\ ~Busy(p) /\ Type(d) \in {"fifo", "msgq"} /\ IsOpen(p, d)
     /\ o \in inbox /\ ~(Type(d) = "msgq" /\ Removed(o))
     /\ inbox' = inbox \ {o}
     /\ tainted' = (tainted \/ p \in stale[o])
     /\ stale' = [stale EXCEPT ![o] = {}]
     /\ UNCHANGED <<use, name, fds, tty, sent, call, manager, faults, touch>>

Next ==
  \E p \in Procs :
    \/ \E d \in Devices :
         \/ BeginClose(p, d) \/ Send(p, d) \/ Recv(p, d)
         \/ \E b \in BOOLEAN : \/ BeginOpen(p, d, b)
                               \/ \E line \in {"dtr", "rts"} : AssertLine(p, d, line, b)
    \/ FinishOpen(p) \/ FinishClose(p) \/ BeginTeardown(p) \/ NextTeardown(p)
    \/ Unlink(p) \/ MakeName(p) \/ OpenEnd(p) \/ MsgGet(p) \/ RmId(p)
    \/ Access(p) \/ Socket(p) \/ Listen(p) \/ Connect(p) \/ Close(p) \/ TtyStep(p) \/ TtyClose(p)
    \/ FifoFails(p) \/ MsgqFails(p) \/ UartFails(p) \/ StartFails(p) \/ ConnectFails(p)
    \/ Crash(p)

Spec == Init /\ [][Next]_vars
-----------------------------------------------------------------------------
\* The variables have their types.
TypeOK ==
  /\ name \in [Devices \X {0, 1} -> Objects \cup {0}]
  /\ \A p \in Procs : \A f \in fds[p] : f.dev \in Devices /\ f.obj \in Objects \cup {0}
  /\ \A d \in Devices : tty[d] \in [lock : Procs \cup {Null}, raw : BOOLEAN,
                                    lines : SUBSET {"dtr", "rts"}]
  /\ inbox \subseteq Objects /\ \A d \in Devices : touch[d] \subseteq Procs
  /\ faults \in 0..MaxFaults
  /\ \A p \in Procs : open_channels[p] \in 0..Cardinality(Devices)

\* The descriptors of the open channel c on d.
Owned(d, c) ==
  CASE Type(d) = "uart" -> {Fd(d, "tty", 0)}
    [] Type(d) = "msgq" -> {}
    [] Type(d) = "fifo" -> {Fd(d, "r", c.r), Fd(d, "w", c.w)}
    [] Type(d) = "bus" -> {Fd(d, "w", c.w)} \cup (IF c.l = 0 THEN {} ELSE {Fd(d, "listening", c.l)})

\* Between calls a process holds the descriptors of the channels in its map, besides those
\* that three error paths forget: no other path, complete or cut short, leaks one or
\* closes one that is in use.
FdsAccounted ==
  \A p \in Procs : ~Busy(p) =>
    {f \in fds[p] : f # Lost(f.dev)} = UNION {Owned(d, Channel(p, d)) : d \in {e \in Devices : IsOpen(p, e)}}

\* The manager's count is that of its map, through a teardown that deletes what it
\* iterates over, and a finished teardown has closed everything.
ManagerAgrees ==
  \A p \in Procs :
    /\ open_channels[p] = map[p].count
    /\ map[p].count = Cardinality({d \in Devices : H!Has(map[p], d)})
    /\ (iter[p] # H!NoIt /\ iter[p].cur = Null) => map[p].count = 0

\* A client that opened a channel after its server did, no other call on the device
\* meanwhile and no server opening or closing it since, writes where the server reads
\* and reads where it writes; on a bus both are connected to the server that one of
\* them runs.
EndsMeet ==
  \A d \in Devices : \A p, q \in touch[d] :
    LET c == Channel(p, d)
        s == Channel(q, d)
    IN /\ (Type(d) \in {"fifo", "msgq"} /\ s.server /\ ~c.server) => c.w = s.r /\ c.r = s.w
       /\ (Type(d) = "bus" /\ s.l # 0) => c.w = s.l

\* A terminal is one process's at a time and is set up while it is; nobody's terminal is
\* as it was.  A device that no one uses leaves no fifo and no socket behind.  A fault,
\* and a process that died, may break the promise for the device.
LeftAsFound ==
  \A d \in Devices :
    LET users == {p \in Procs : IsOpen(p, d) \/ Dev(p) = d}
        owners == {p \in Procs : Type(d) = "uart" /\ IsOpen(p, d) /\ Dev(p) # d}
    IN /\ Cardinality(owners) <= 1
       /\ \A p \in owners : tty[d].lock = p /\ tty[d].raw
       /\ (users = {} /\ faults = 0) =>
            /\ tty[d] = [lock |-> Null, raw |-> FALSE, lines |-> {}]
            /\ Type(d) # "msgq" => \A e \in {0, 1} : name[<<d, e>>] = 0

\* Nothing that was sent before a channel_open began is received from it.
FreshOnly == ~tainted
===============================================================================
