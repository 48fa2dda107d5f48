------------------------- MODULE ChannelDeviceProofs -------------------------
(***************************************************************************)
(* Theorems about what the channels of src/channel.c do to their devices:  *)
(* the names, queues, locks and settings that the processes share.         *)
(***************************************************************************)
EXTENDS ChannelProofs

-----------------------------------------------------------------------------
(* Nothing stale is received *)

\* The objects that a device's names, the calls on it and the channels of it refer to.
CallRefs(c, d) == IF c.dev = d THEN {c.r, c.w, c.l} ELSE {}
MapRefs(m, d) == IF d \in DOMAIN m.val THEN {m.val[d].r, m.val[d].w, m.val[d].l} ELSE {}
Refs(d) == {name[<<d, 0>>], name[<<d, 1>>]} \cup UNION {CallRefs(call[q], d) \cup MapRefs(map[q], d) : q \in Procs}

\* Two devices share no object.
Apart == \A d, e \in Devices : d # e => Refs(d) \cap Refs(e) \subseteq {0}

\* What waits in an open channel is not from before its owner opened it.
Clear ==
  \A p \in Procs : \A d \in DOMAIN map[p].val :
    use[d].type \in {"fifo", "msgq"} => p \notin stale[map[p].val[d].r]

FreshInv == Apart /\ Clear /\ ~tainted

OfCall(q) == {f.obj : f \in fds[q]} \cup {call[q].r, call[q].w, call[q].l}
OfChannel(q, d) == {Channel(q, d).r, Channel(q, d).w, Channel(q, d).l}
OfMap(q) == UNION {OfChannel(q, d) : d \in {e \in Devices : IsOpen(q, e)}}

LEMMA RefsAlive == ASSUME KernelOK, NEW d \in Devices PROVE Refs(d) \subseteq Alive
<1>1. <<d, 0>> \in DOMAIN name /\ <<d, 1>> \in DOMAIN name
  BY DEF KernelOK
<1>2. Alive = {name[x] : x \in DOMAIN name} \cup (UNION {OfCall(q) : q \in Procs})
              \cup (UNION {OfMap(q) : q \in Procs})
  BY DEF Alive, OfCall, OfChannel, OfMap
<1>3. ASSUME NEW q \in Procs, NEW o \in CallRefs(call[q], d) PROVE o \in Alive
  <2>1. o \in OfCall(q)
    BY <1>3 DEF CallRefs, OfCall
  <2> QED  BY <1>2, <2>1
<1>4. ASSUME NEW q \in Procs, NEW o \in MapRefs(map[q], d) PROVE o \in Alive
  <2>1. d \in {e \in Devices : IsOpen(q, e)} /\ o \in OfChannel(q, d)
    BY <1>4 DEF MapRefs, IsOpen, Channel, OfChannel
  <2>2. o \in OfMap(q)
    BY <2>1 DEF OfMap
  <2> QED  BY <1>2, <2>2
<1>5. name[<<d, 0>>] \in Alive /\ name[<<d, 1>>] \in Alive
  BY <1>1 DEF Alive
<1> QED  BY <1>3, <1>4, <1>5 DEF Refs

LEMMA RefsHas ==
  ASSUME NEW p \in Procs, NEW d
  PROVE  /\ name[<<d, 0>>] \in Refs(d) /\ name[<<d, 1>>] \in Refs(d)
         /\ CallRefs(call[p], d) \subseteq Refs(d) /\ MapRefs(map[p], d) \subseteq Refs(d)
BY DEF Refs

\* What another process refers to stays.
LEMMA OthersRefer ==
  ASSUME ChannelInv, NEW p \in Procs, Others(p), NEW q \in Procs \ {p}
  PROVE  /\ \A d : CallRefs(call'[q], d) = CallRefs(call[q], d)
         /\ map'[q] = map[q]
<1>1. Called(call[q])
  BY DEF ChannelInv, Proc, ProcInv
<1>2. call'[q].dev = call[q].dev /\ call'[q].r = call[q].r /\ call'[q].w = call[q].w /\ call'[q].l = call[q].l
  <2>1. CASE call'[q] = call[q]
    BY <2>1
  <2>2. CASE call'[q] = [call[q] EXCEPT !.clean = FALSE]
    BY <1>1, <2>2, CallPut DEF Passes
  <2> QED  BY <2>1, <2>2 DEF Others
<1> QED  BY <1>2 DEF CallRefs, Others

\* Names n, a call c and a map m that refer to no more than there is, but for the new
\* objects N of the device d0.
Refers(n, c, m, d0, N) ==
  \A d \in Devices :
    LET X == Refs(d) \cup {0} \cup (IF d = d0 THEN N ELSE {})
    IN /\ n[<<d, 0>>] \in X /\ n[<<d, 1>>] \in X
       /\ CallRefs(c, d) \subseteq X /\ MapRefs(m, d) \subseteq X

Unused(N) == \A d \in Devices : N \cap Refs(d) = {}

LEMMA ApartNext ==
  ASSUME ChannelInv, Apart, NEW p \in Procs, Others(p), NEW d0, NEW N, Unused(N),
         Refers(name', call'[p], map'[p], d0, N)
  PROVE  Apart'
<1> DEFINE X(d) == {0} \cup (IF d = d0 THEN N ELSE {})
<1>1. ASSUME NEW d \in Devices PROVE Refs(d)' \subseteq Refs(d) \cup X(d)
  <2>1. ASSUME NEW q \in Procs
        PROVE  CallRefs(call'[q], d) \cup MapRefs(map'[q], d) \subseteq Refs(d) \cup X(d)
    <3>1. CASE q = p
      BY <3>1 DEF Refers
    <3>2. CASE q # p
      BY <3>2, OthersRefer, RefsHas
    <3> QED  BY <3>1, <3>2
  <2>2. name'[<<d, 0>>] \in Refs(d) \cup X(d) /\ name'[<<d, 1>>] \in Refs(d) \cup X(d)
    BY DEF Refers
  <2>3. Refs(d)' = {name'[<<d, 0>>], name'[<<d, 1>>]}
                   \cup UNION {CallRefs(call'[q], d) \cup MapRefs(map'[q], d) : q \in Procs}
    BY DEF Refs, CallRefs, MapRefs
  <2> HIDE DEF X
  <2> QED  BY <2>1, <2>2, <2>3
<1>2. ASSUME NEW d \in Devices, NEW e \in Devices, d # e, NEW o \in Refs(d)', o \in Refs(e)'
      PROVE  o = 0
  <2>1. o \in Refs(d) \cup X(d) /\ o \in Refs(e) \cup X(e)
    BY <1>1, <1>2
  <2>2. N \cap Refs(d) = {} /\ N \cap Refs(e) = {}
    BY DEF Unused
  <2>3. Refs(d) \cap Refs(e) \subseteq {0}
    BY <1>2 DEF Apart
  <2> QED  BY <1>2, <2>1, <2>2, <2>3
<1>3. \A d, e \in Devices : d # e => Refs(d)' \cap Refs(e)' \subseteq {0}
  BY <1>2
<1> QED  BY <1>3 DEF Apart

\* A step in which every map stays, but for entries that go.
LEMMA ClearNext ==
  ASSUME Clear, UNCHANGED use, UNCHANGED stale,
         \A q \in Procs : /\ DOMAIN map'[q].val \subseteq DOMAIN map[q].val
                          /\ \A d \in DOMAIN map'[q].val : map'[q].val[d] = map[q].val[d]
  PROVE  Clear'
BY DEF Clear

\* A step that keeps the maps and what waits.
LEMMA FreshStep ==
  ASSUME ChannelInv, FreshInv, NEW p \in Procs, Others(p), UNCHANGED use, UNCHANGED map,
         UNCHANGED stale, UNCHANGED tainted, NEW d0, NEW N, Unused(N),
         Refers(name', call'[p], map[p], d0, N)
  PROVE  FreshInv'
<1>1. Apart'
  <2>1. map'[p] = map[p]
    OBVIOUS
  <2> QED  BY <2>1, ApartNext DEF FreshInv
<1>2. Clear'
  BY ClearNext DEF FreshInv
<1> QED  BY <1>1, <1>2 DEF FreshInv

LEMMA OnlyCall ==
  ASSUME ChannelInv, NEW p \in Procs, UNCHANGED manager, NEW c2, call' = [call EXCEPT ![p] = c2],
         UNCHANGED fds \/ \E F2 : fds' = [fds EXCEPT ![p] = F2]
  PROVE  Others(p) /\ call'[p] = c2
<1>1. map' = map /\ iter' = iter /\ open_channels' = open_channels
  BY DEF manager
<1> QED  BY <1>1 DEF Others, ChannelInv, Sized

\* Call c2 refers to no more than call c.
Within(c2, c) == \A d \in Devices : CallRefs(c2, d) \subseteq CallRefs(c, d) \cup {0}

LEMMA PassesWithin == ASSUME NEW c, NEW c2, NEW t, Passes(c, c2, t, c.r, c.w, c.l) PROVE Within(c2, c)
BY DEF Passes, Within, CallRefs

LEMMA IdleWithin == ASSUME NEW c PROVE Within(Idle, c)
<1>1. Idle.r = 0 /\ Idle.w = 0 /\ Idle.l = 0
  BY DEF Idle
<1> QED  BY <1>1 DEF Within, CallRefs

\* Names that stay or go.
Kept(n) == \A d \in Devices : \A e \in {0, 1} : n[<<d, e>>] \in {name[<<d, e>>], 0}

LEMMA FreshQuiet ==
  ASSUME ChannelInv, FreshInv, NEW p \in Procs, UNCHANGED use, UNCHANGED manager, UNCHANGED stale,
         UNCHANGED tainted, NEW c2, call' = [call EXCEPT ![p] = c2], Within(c2, call[p]),
         UNCHANGED fds \/ \E F2 : fds' = [fds EXCEPT ![p] = F2], Kept(name')
  PROVE  FreshInv'
<1>1. Others(p) /\ call'[p] = c2 /\ map' = map
  BY OnlyCall DEF manager
<1> DEFINE N == {}
<1>2. Unused(N)
  BY DEF Unused
<1> HIDE DEF N
<1>3. ASSUME NEW d0 PROVE Refers(name', call'[p], map[p], d0, N)
  BY <1>1, RefsHas DEF Refers, Within, Kept
<1> QED  BY <1>1, <1>2, <1>3, FreshStep

\* The calls that only take names away.
LEMMA NamesKept ==
  ASSUME KernelOK
  PROVE  /\ Kept(name) /\ \A x : Kept([name EXCEPT ![x] = 0])
         /\ \A N : Kept([x \in DOMAIN name |-> IF x \in N THEN 0 ELSE name[x]])
         /\ \A o : Kept([x \in DOMAIN name |-> IF name[x] = o THEN 0 ELSE name[x]])
<1>1. \A d \in Devices : \A e \in {0, 1} : <<d, e>> \in DOMAIN name
  BY DEF KernelOK
<1>2. Kept(name) /\ \A x : Kept([name EXCEPT ![x] = 0])
  BY <1>1 DEF Kept
<1>3. \A N : Kept([x \in DOMAIN name |-> IF x \in N THEN 0 ELSE name[x]])
  BY <1>1 DEF Kept
<1>4. \A o : Kept([x \in DOMAIN name |-> IF name[x] = o THEN 0 ELSE name[x]])
  BY <1>1 DEF Kept
<1> QED  BY <1>2, <1>3, <1>4

LEMMA FreshQuietly ==
  ASSUME ChannelInv, FreshInv, NEW p \in Procs, UNCHANGED <<use, stale, tainted>>, UNCHANGED manager,
         Kept(name'), NEW s, At(p, s), NEW c2, call' = [call EXCEPT ![p] = c2],
         c2 = Idle \/ \E t : Passes(call[p], c2, t, call[p].r, call[p].w, call[p].l),
         UNCHANGED fds \/ \E F2 : fds' = [fds EXCEPT ![p] = F2]
  PROVE  FreshInv'
<1>1. Within(c2, call[p])
  BY PassesWithin, IdleWithin
<1> QED  BY <1>1, FreshQuiet

LEMMA FreshUnlink == ASSUME ChannelInv, FreshInv, NEW p \in Procs, Unlink(p) \/ RmId(p) PROVE FreshInv'
<1>1. /\ UNCHANGED <<use, stale, tainted>> /\ UNCHANGED manager /\ UNCHANGED fds
      /\ call' = [call EXCEPT ![p] = Next1(call[p])]
  BY DEF Unlink, RmId, Advance, history
<1>2. PICK s : At(p, s)
  BY DEF Unlink, RmId
<1>3. Passes(call[p], Next1(call[p]), Tail(call[p].todo), call[p].r, call[p].w, call[p].l)
  BY <1>2, Acts, CallPut
<1>4. Kept(name')
  BY NamesKept DEF Unlink, RmId, ChannelInv
<1> QED  BY <1>1, <1>2, <1>3, <1>4, FreshQuietly

LEMMA FreshAccess == ASSUME ChannelInv, FreshInv, NEW p \in Procs, Access(p) PROVE FreshInv'
<1> DEFINE t == (IF name[<<Dev(p), 0>>] = 0 THEN StartServer ELSE <<>>) \o Tail(call[p].todo)
           c2 == [call[p] EXCEPT !.todo = t]
<1>1. /\ At(p, "access") /\ UNCHANGED use /\ UNCHANGED kernel /\ UNCHANGED manager
      /\ UNCHANGED history /\ call' = [call EXCEPT ![p] = c2]
  BY Zenon DEF Access
<1>2. Passes(call[p], c2, t, call[p].r, call[p].w, call[p].l)
  BY <1>1, Acts, CallPut
<1> HIDE DEF c2
<1>3. name' = name /\ UNCHANGED <<use, stale, tainted>> /\ UNCHANGED fds
  BY <1>1 DEF kernel, history
<1>4. Kept(name')
  BY <1>3, NamesKept DEF ChannelInv
<1> QED  BY <1>1, <1>2, <1>3, <1>4, FreshQuietly

LEMMA FreshClose ==
  ASSUME ChannelInv, FreshInv, NEW p \in Procs, Listen(p) \/ Close(p) \/ TtyClose(p)
  PROVE  FreshInv'
<1>1. /\ UNCHANGED <<use, stale, tainted>> /\ UNCHANGED manager /\ name' = name
      /\ call' = [call EXCEPT ![p] = Next1(call[p])] /\ \E F2 : fds' = [fds EXCEPT ![p] = F2]
  BY DEF Listen, Close, TtyClose, Advance, history
<1>2. PICK s : At(p, s)
  BY DEF Listen, Close, TtyClose
<1>3. Passes(call[p], Next1(call[p]), Tail(call[p].todo), call[p].r, call[p].w, call[p].l)
  BY <1>2, Acts, CallPut
<1>4. Kept(name')
  BY <1>1, NamesKept DEF ChannelInv
<1> QED  BY <1>1, <1>2, <1>3, <1>4, FreshQuietly

LEMMA FreshTtyStep == ASSUME ChannelInv, FreshInv, NEW p \in Procs, TtyStep(p) PROVE FreshInv'
<1>1. /\ UNCHANGED <<use, stale, tainted>> /\ UNCHANGED manager /\ name' = name
      /\ UNCHANGED fds \/ \E F2 : fds' = [fds EXCEPT ![p] = F2]
  BY DEF TtyStep, history
<1>2. Kept(name')
  BY <1>1, NamesKept DEF ChannelInv
<1>3. CASE (\E s : At(p, s)) /\ Advance(p)
  <2>1. PICK s : At(p, s)
    BY <1>3
  <2>2. Passes(call[p], Next1(call[p]), Tail(call[p].todo), call[p].r, call[p].w, call[p].l)
    BY <2>1, Acts, CallPut
  <2>3. call' = [call EXCEPT ![p] = Next1(call[p])]
    BY <1>3 DEF Advance
  <2> QED  BY <1>1, <1>2, <2>1, <2>2, <2>3, FreshQuietly
<1>4. CASE At(p, "getattr") /\ call' = [call EXCEPT ![p] = [Next1(@) EXCEPT !.old = tty[Dev(p)].raw]]
  <2> DEFINE b == tty[Dev(p)].raw
             c2 == [Next1(call[p]) EXCEPT !.old = b]
  <2>1. Dev(p) \in Devices
    BY <1>4, Acts
  <2>2. b \in BOOLEAN
    BY <2>1 DEF ChannelInv, KernelOK
  <2>3. call' = [call EXCEPT ![p] = c2]
    BY <1>4, Zenon
  <2> HIDE DEF b
  <2>4. Passes(call[p], c2, Tail(call[p].todo), call[p].r, call[p].w, call[p].l)
    BY <1>4, <2>2, Acts, CallPut
  <2> HIDE DEF c2
  <2> QED  BY <1>1, <1>2, <1>4, <2>3, <2>4, FreshQuietly
<1> QED  BY <1>3, <1>4 DEF TtyStep

LEMMA FreshFails ==
  ASSUME ChannelInv, FreshInv, NEW p \in Procs,
         FifoFails(p) \/ MsgqFails(p) \/ UartFails(p) \/ ConnectFails(p)
  PROVE  FreshInv'
<1>1. /\ GiveUp(p) /\ Kept(name') /\ \E steps : Fails(p, steps)
      /\ UNCHANGED fds \/ \E F2 : fds' = [fds EXCEPT ![p] = F2]
  <2>1. CASE FifoFails(p)
    <3> DEFINE made == {e \in {0, 1} : \A i \in DOMAIN call[p].todo : call[p].todo[i] # <<"mkfifo", e>>}
               N == {x \in DOMAIN name : x[1] = Dev(p) /\ x[2] \in made}
    <3>1. /\ Fails(p, {"mkfifo", "open", "setfl"}) /\ GiveUp(p) /\ \E F2 : fds' = [fds EXCEPT ![p] = F2]
          /\ name' = [x \in DOMAIN name |-> IF x[1] = Dev(p) /\ x[2] \in made THEN 0 ELSE name[x]]
      BY <2>1, Zenon DEF FifoFails
    <3> HIDE DEF made
    <3>2. name' = [x \in DOMAIN name |-> IF x \in N THEN 0 ELSE name[x]]
      BY <3>1
    <3> HIDE DEF N
    <3>3. Kept(name')
      BY <3>2, NamesKept DEF ChannelInv
    <3> QED  BY <3>1, <3>3
  <2>2. CASE MsgqFails(p)
    BY <2>2, NamesKept DEF MsgqFails, ChannelInv
  <2>3. CASE UartFails(p)
    <3>1. (\E steps : Fails(p, steps)) /\ GiveUp(p) /\ (\E F2 : fds' = [fds EXCEPT ![p] = F2]) /\ name' = name
      BY <2>3, Zenon DEF UartFails
    <3> QED  BY <3>1, NamesKept DEF ChannelInv
  <2>4. CASE ConnectFails(p)
    <3>1. /\ (\E steps : Fails(p, steps)) /\ GiveUp(p) /\ (\E F2 : fds' = [fds EXCEPT ![p] = F2])
          /\ name' = name \/ name' = [name EXCEPT ![<<Dev(p), 0>>] = 0]
      BY <2>4, Zenon DEF ConnectFails
    <3> QED  BY <3>1, NamesKept DEF ChannelInv
  <2> QED  BY <2>1, <2>2, <2>3, <2>4
<1>2. PICK s : At(p, s)
  BY <1>1, FailsAt
<1>3. /\ UNCHANGED <<use, stale, tainted>> /\ UNCHANGED manager /\ call' = [call EXCEPT ![p] = Idle]
  BY <1>1 DEF GiveUp
<1> QED  BY <1>1, <1>2, <1>3, FreshQuietly

\* Two ways to get an object: one that is referred to by no device, and one that is by this one.
LEMMA FreshUnused == ASSUME KernelOK, Room PROVE Unused({Fresh})
BY RoomFresh, RefsAlive DEF Unused

LEMMA NoneUnused == Unused({})
BY DEF Unused

\* A system call of p about its device d, which gets the object o.
LEMMA FreshGets ==
  ASSUME ChannelInv, FreshInv, NEW p \in Procs, UNCHANGED use, UNCHANGED manager, UNCHANGED stale,
         UNCHANGED tainted, NEW c2, call' = [call EXCEPT ![p] = c2],
         UNCHANGED fds \/ \E F2 : fds' = [fds EXCEPT ![p] = F2],
         NEW d \in Devices, call[p].dev = d, NEW o, o \in Refs(d) \/ (o = Fresh /\ Room),
         c2.dev = d, {c2.r, c2.w, c2.l} \subseteq {call[p].r, call[p].w, call[p].l, o},
         name' = name \/ \E e \in {0, 1} : name' = [name EXCEPT ![<<d, e>>] = o]
  PROVE  FreshInv'
<1> DEFINE N == IF o \in Refs(d) THEN {} ELSE {o}
<1>1. Others(p) /\ call'[p] = c2
  BY OnlyCall
<1>2. Unused(N)
  <2>1. CASE o \in Refs(d)
    BY <2>1, NoneUnused
  <2>2. CASE o \notin Refs(d)
    BY <2>2, FreshUnused DEF ChannelInv
  <2> QED  BY <2>1, <2>2
<1>3. o \in Refs(d) \cup N
  OBVIOUS
<1> HIDE DEF N
<1>4. \A e \in Devices : /\ name'[<<e, 0>>] \in Refs(e) \cup (IF e = d THEN N ELSE {})
                         /\ name'[<<e, 1>>] \in Refs(e) \cup (IF e = d THEN N ELSE {})
  <2> TAKE e \in Devices
  <2>1. name[<<e, 0>>] \in Refs(e) /\ name[<<e, 1>>] \in Refs(e)
    BY RefsHas
  <2>2. CASE name' = name
    BY <2>1, <2>2
  <2>3. CASE \E x \in {0, 1} : name' = [name EXCEPT ![<<d, x>>] = o]
    BY <1>3, <2>1, <2>3 DEF ChannelInv, KernelOK
  <2> QED  BY <2>2, <2>3
<1>5. \A e \in Devices : CallRefs(c2, e) \subseteq Refs(e) \cup (IF e = d THEN N ELSE {})
  <2>1. CallRefs(call[p], d) \subseteq Refs(d)
    BY RefsHas
  <2>2. {call[p].r, call[p].w, call[p].l} \subseteq Refs(d)
    BY <2>1 DEF CallRefs
  <2> QED  BY <1>3, <2>2 DEF CallRefs
<1>6. Refers(name', call'[p], map[p], d, N)
  BY <1>1, <1>4, <1>5, RefsHas DEF Refers
<1>7. UNCHANGED map
  BY DEF manager
<1> QED  BY <1>1, <1>2, <1>6, <1>7, FreshStep

LEMMA FreshMakeName == ASSUME ChannelInv, FreshInv, NEW p \in Procs, MakeName(p) PROVE FreshInv'
<1> DEFINE e == IF At(p, "bind") THEN 0 ELSE Arg(p)
           o == IF At(p, "bind") THEN call[p].l ELSE Fresh
           c2 == Next1(call[p])
<1>1. /\ UNCHANGED use /\ UNCHANGED fds /\ UNCHANGED stale /\ UNCHANGED manager /\ UNCHANGED history
      /\ name' = [name EXCEPT ![<<Dev(p), e>>] = o] /\ call' = [call EXCEPT ![p] = c2]
      /\ At(p, "mkfifo") \/ At(p, "bind")
      /\ At(p, "bind") \/ Room
  BY Zenon DEF MakeName, Advance
<1>2. PICK s \in {"mkfifo", "bind"} : At(p, s)
  BY <1>1
<1>3. e \in {0, 1}
  <2>1. CASE At(p, "bind")
    BY <2>1
  <2>2. CASE ~At(p, "bind")
    <3>1. DueFacts(use[Dev(p)].type, Dev(p), call[p], Own(fds[p], Dev(p)), "mkfifo") /\ Arg(p) = DueArg(call[p])
      BY <1>1, <2>2, Acts
    <3> QED  BY <2>2, <3>1 DEF DueFacts
  <2> QED  BY <2>1, <2>2
<1>4. Passes(call[p], c2, Tail(call[p].todo), call[p].r, call[p].w, call[p].l) /\ Dev(p) \in Devices
  BY <1>2, Acts, CallPut
<1>5. o \in Refs(Dev(p)) \/ (o = Fresh /\ Room)
  <2>1. call[p].l \in CallRefs(call[p], Dev(p))
    BY DEF CallRefs, Dev
  <2> QED  BY <1>1, <2>1, RefsHas
<1> HIDE DEF e, o, c2
<1>6. c2.dev = Dev(p) /\ call[p].dev = Dev(p) /\ {c2.r, c2.w, c2.l} \subseteq {call[p].r, call[p].w, call[p].l, o}
  BY <1>4 DEF Passes, Dev
<1>7. tainted' = tainted
  BY <1>1 DEF history
<1> QED  BY <1>1, <1>3, <1>4, <1>5, <1>6, <1>7, FreshGets

LEMMA FreshOpenEnd == ASSUME ChannelInv, FreshInv, NEW p \in Procs, OpenEnd(p) PROVE FreshInv'
<1> DEFINE o == name[<<Dev(p), Arg(p)>>]
           role == Head(call[p].todo)[3]
           c2 == [Next1(call[p]) EXCEPT ![role] = o]
           F2 == fds[p] \cup {Fd(Dev(p), role, o)}
<1>1. /\ At(p, "open") /\ fds' = [fds EXCEPT ![p] = F2] /\ call' = [call EXCEPT ![p] = c2]
      /\ UNCHANGED use /\ UNCHANGED name /\ UNCHANGED stale /\ UNCHANGED manager /\ UNCHANGED history
  BY Zenon DEF OpenEnd
<1>2. role \in {"r", "w"} /\ Arg(p) \in {0, 1} /\ Dev(p) \in Devices /\ Called(call[p])
  <2>1. DueFacts(use[Dev(p)].type, Dev(p), call[p], Own(fds[p], Dev(p)), "open") /\ Arg(p) = DueArg(call[p])
    BY <1>1, Acts
  <2>2. role = DueRole(call[p])
    BY DEF DueRole
  <2> HIDE DEF role
  <2> QED  BY <1>1, <2>1, <2>2, Acts DEF DueFacts, OwnEnd, OtherEnd
<1>3. o \in Objects \cup {0} /\ o \in Refs(Dev(p))
  BY <1>2, RefsHas DEF ChannelInv, KernelOK
<1> HIDE DEF o
<1>4. \/ Passes(call[p], c2, Tail(call[p].todo), o, call[p].w, call[p].l)
      \/ Passes(call[p], c2, Tail(call[p].todo), call[p].r, o, call[p].l)
  BY <1>2, <1>3, CallPut
<1> HIDE DEF c2, F2
<1>5. c2.dev = Dev(p) /\ call[p].dev = Dev(p) /\ {c2.r, c2.w, c2.l} \subseteq {call[p].r, call[p].w, call[p].l, o}
  BY <1>4 DEF Passes, Dev
<1>6. tainted' = tainted
  BY <1>1 DEF history
<1> QED  BY <1>1, <1>2, <1>3, <1>5, <1>6, FreshGets

LEMMA FreshMsgGet == ASSUME ChannelInv, FreshInv, NEW p \in Procs, MsgGet(p) PROVE FreshInv'
<1> DEFINE x == <<Dev(p), Arg(p)>>
           o == IF name[x] = 0 THEN Fresh ELSE name[x]
           role == Head(call[p].todo)[3]
           c2 == [Next1(call[p]) EXCEPT ![role] = o]
<1>1. /\ At(p, "msgget") /\ call' = [call EXCEPT ![p] = c2] /\ (name[x] # 0 \/ Room)
      /\ name' = [name EXCEPT ![<<Dev(p), Arg(p)>>] = o]
      /\ UNCHANGED use /\ UNCHANGED fds /\ UNCHANGED stale /\ UNCHANGED manager /\ UNCHANGED history
  BY Zenon DEF MsgGet
<1>2. role \in {"r", "w"} /\ Arg(p) \in {0, 1} /\ Dev(p) \in Devices /\ Called(call[p])
  <2>1. DueFacts(use[Dev(p)].type, Dev(p), call[p], Own(fds[p], Dev(p)), "msgget") /\ Arg(p) = DueArg(call[p])
    BY <1>1, Acts
  <2>2. role = DueRole(call[p])
    BY DEF DueRole
  <2> HIDE DEF role
  <2> QED  BY <1>1, <2>1, <2>2, Acts DEF DueFacts, OwnEnd, OtherEnd
<1>3. o \in Objects \cup {0} /\ (o \in Refs(Dev(p)) \/ (o = Fresh /\ Room))
  BY <1>1, <1>2, RefsHas, RoomFresh DEF ChannelInv, KernelOK
<1> HIDE DEF o
<1>4. \/ Passes(call[p], c2, Tail(call[p].todo), o, call[p].w, call[p].l)
      \/ Passes(call[p], c2, Tail(call[p].todo), call[p].r, o, call[p].l)
  BY <1>2, <1>3, CallPut
<1> HIDE DEF c2
<1>5. c2.dev = Dev(p) /\ call[p].dev = Dev(p) /\ {c2.r, c2.w, c2.l} \subseteq {call[p].r, call[p].w, call[p].l, o}
  BY <1>4 DEF Passes, Dev
<1>6. tainted' = tainted
  BY <1>1 DEF history
<1> QED  BY <1>1, <1>2, <1>3, <1>5, <1>6, FreshGets

LEMMA FreshSocket == ASSUME ChannelInv, FreshInv, NEW p \in Procs, Socket(p) PROVE FreshInv'
<1> DEFINE c2 == [Next1(call[p]) EXCEPT !.l = Fresh]
<1>1. /\ At(p, "socket") /\ Room /\ call' = [call EXCEPT ![p] = c2] /\ \E F2 : fds' = [fds EXCEPT ![p] = F2]
      /\ UNCHANGED use /\ UNCHANGED name /\ UNCHANGED stale /\ UNCHANGED manager /\ UNCHANGED history
  BY Zenon DEF Socket
<1>2. Passes(call[p], c2, Tail(call[p].todo), call[p].r, call[p].w, Fresh) /\ Dev(p) \in Devices
  BY <1>1, Acts, RoomFresh, CallPut
<1> HIDE DEF c2
<1>3. /\ c2.dev = Dev(p) /\ call[p].dev = Dev(p)
      /\ {c2.r, c2.w, c2.l} \subseteq {call[p].r, call[p].w, call[p].l, Fresh}
  BY <1>2 DEF Passes, Dev
<1>4. tainted' = tainted
  BY <1>1 DEF history
<1> QED  BY <1>1, <1>2, <1>3, <1>4, FreshGets, ZenonT(40)

LEMMA FreshConnect == ASSUME ChannelInv, FreshInv, NEW p \in Procs, Connect(p) PROVE FreshInv'
<1> DEFINE o == name[<<Dev(p), 0>>]
           c2 == [Next1(call[p]) EXCEPT !.w = o]
<1>1. /\ At(p, "connect") /\ call' = [call EXCEPT ![p] = c2] /\ \E F2 : fds' = [fds EXCEPT ![p] = F2]
      /\ UNCHANGED use /\ UNCHANGED name /\ UNCHANGED stale /\ UNCHANGED manager /\ UNCHANGED history
  BY Zenon DEF Connect
<1>2. Dev(p) \in Devices /\ Called(call[p]) /\ o \in Refs(Dev(p))
  BY <1>1, Acts, RefsHas
<1>3. o \in Objects \cup {0}
  BY <1>2 DEF ChannelInv, KernelOK
<1> HIDE DEF o
<1>4. Passes(call[p], c2, Tail(call[p].todo), call[p].r, o, call[p].l)
  BY <1>2, <1>3, CallPut
<1> HIDE DEF c2
<1>5. c2.dev = Dev(p) /\ call[p].dev = Dev(p) /\ {c2.r, c2.w, c2.l} \subseteq {call[p].r, call[p].w, call[p].l, o}
  BY <1>4 DEF Passes, Dev
<1>6. tainted' = tainted
  BY <1>1 DEF history
<1> QED  BY <1>1, <1>2, <1>5, <1>6, FreshGets

-----------------------------------------------------------------------------
(* Messages, lines and ends of processes *)

LEMMA ReadsObject ==
  ASSUME ChannelInv, NEW p \in Procs, NEW d \in DOMAIN map[p].val, use[d].type \in {"fifo", "msgq"}
  PROVE  d \in Devices /\ map[p].val[d].r \in Objects \ {0} /\ map[p].val[d].w \in Objects \ {0}
<1>1. /\ d \in Devices /\ map[p].val[d] \in Channels /\ Ended(use[d].type, map[p].val[d])
  BY ManagedFacts DEF ChannelInv, Proc, ProcInv
<1> QED  BY <1>1, ObjectsAssumption DEF Ended, Channels

\* The names, calls and maps are as they were.
LEMMA ApartStays == ASSUME Apart, UNCHANGED name, UNCHANGED call, UNCHANGED map PROVE Apart'
<1>1. \A d : Refs(d)' = Refs(d)
  BY DEF Refs, CallRefs, MapRefs
<1> QED  BY <1>1 DEF Apart

\* A message comes, or goes.
LEMMA FreshMessage ==
  ASSUME ChannelInv, FreshInv, NEW o \in Objects, stale' = [stale EXCEPT ![o] = {}],
         UNCHANGED use, UNCHANGED name, UNCHANGED call, UNCHANGED map, ~tainted'
  PROVE  FreshInv'
<1>1. Apart'
  BY ApartStays DEF FreshInv
<1>2. ASSUME NEW p \in Procs, NEW d \in DOMAIN map[p].val, use[d].type \in {"fifo", "msgq"}
      PROVE  p \notin stale'[map[p].val[d].r]
  <2>1. map[p].val[d].r \in Objects /\ p \notin stale[map[p].val[d].r]
    BY <1>2, ReadsObject DEF FreshInv, Clear
  <2>2. DOMAIN stale = Objects
    BY DEF ChannelInv, KernelOK
  <2> QED  BY <2>1, <2>2
<1>3. Clear'
  BY <1>2 DEF Clear
<1> QED  BY <1>1, <1>3 DEF FreshInv

LEMMA FreshDie == ASSUME ChannelInv, FreshInv, NEW p \in Procs, Die(p) PROVE FreshInv'
<1>1. /\ call'[p] = Idle /\ map'[p] = H!EmptyMap /\ UNCHANGED use /\ UNCHANGED name
      /\ UNCHANGED stale /\ UNCHANGED tainted /\ Others(p)
  BY DEF Die, ChannelInv, Sized, Others
<1>2. DOMAIN H!EmptyMap.val = {}
  BY ManagedEmpty
<1> DEFINE N == {}
<1>3. Unused(N)
  BY NoneUnused
<1> HIDE DEF N
<1>4. ASSUME NEW d0 PROVE Refers(name', call'[p], map'[p], d0, N)
  <2>1. \A d \in Devices : CallRefs(Idle, d) \subseteq {0}
    BY DEF CallRefs, Idle
  <2>2. \A d \in Devices : MapRefs(H!EmptyMap, d) = {}
    BY <1>2 DEF MapRefs
  <2> QED  BY <1>1, <2>1, <2>2, RefsHas DEF Refers
<1>5. Apart'
  BY <1>1, <1>3, <1>4, ApartNext DEF FreshInv
<1>6. Clear'
  <2>1. ASSUME NEW q \in Procs
        PROVE  /\ DOMAIN map'[q].val \subseteq DOMAIN map[q].val
               /\ \A d \in DOMAIN map'[q].val : map'[q].val[d] = map[q].val[d]
    <3>1. CASE q = p
      BY <1>1, <1>2, <3>1
    <3>2. CASE q # p
      BY <1>1, <3>2 DEF Others
    <3> QED  BY <3>1, <3>2
  <2> QED  BY <1>1, <2>1, ClearNext DEF FreshInv
<1> QED  BY <1>1, <1>5, <1>6 DEF FreshInv

LEMMA FreshEnds == ASSUME ChannelInv, FreshInv, NEW p \in Procs, StartFails(p) \/ Crash(p) PROVE FreshInv'
BY FreshDie DEF StartFails, Crash

LEMMA FreshSend ==
  ASSUME ChannelInv, FreshInv, NEW p \in Procs, NEW d \in Devices, Send(p, d)
  PROVE  FreshInv'
<1>1. CASE Die(p)
  BY <1>1, FreshDie
<1>2. CASE /\ stale' = [stale EXCEPT ![Channel(p, d).w] = {}]
           /\ UNCHANGED <<use, name, fds, tty, call, manager, faults, history>>
  <2>1. Channel(p, d).w \in Objects
    BY ReadsObject DEF Send, IsOpen, Type, Channel
  <2>2. /\ stale' = [stale EXCEPT ![Channel(p, d).w] = {}]
        /\ UNCHANGED use /\ UNCHANGED name /\ UNCHANGED call /\ UNCHANGED map /\ UNCHANGED tainted
    BY <1>2 DEF manager, history
  <2> QED  BY <2>1, <2>2, FreshMessage DEF FreshInv
<1> QED  BY <1>1, <1>2 DEF Send

LEMMA FreshRecv ==
  ASSUME ChannelInv, FreshInv, NEW p \in Procs, NEW d \in Devices, Recv(p, d)
  PROVE  FreshInv'
<1>1. d \in DOMAIN map[p].val /\ use[d].type \in {"fifo", "msgq"}
  BY DEF Recv, IsOpen, Type
<1>2. Channel(p, d).r \in Objects /\ p \notin stale[Channel(p, d).r]
  BY <1>1, ReadsObject DEF FreshInv, Clear, Channel
<1>3. /\ tainted' = (tainted \/ p \in stale[Channel(p, d).r])
      /\ stale' = [stale EXCEPT ![Channel(p, d).r] = {}]
      /\ UNCHANGED use /\ UNCHANGED name /\ UNCHANGED call /\ UNCHANGED map
  BY DEF Recv, manager
<1>4. ~tainted'
  BY <1>2, <1>3 DEF FreshInv
<1> QED  BY <1>2, <1>3, <1>4, FreshMessage

LEMMA FreshStill ==
  ASSUME FreshInv, UNCHANGED use, UNCHANGED name, UNCHANGED stale, UNCHANGED call, UNCHANGED map,
         UNCHANGED tainted
  PROVE  FreshInv'
BY ApartStays DEF FreshInv, Clear

LEMMA FreshAssertLine ==
  ASSUME ChannelInv, FreshInv, NEW p \in Procs, NEW d \in Devices, NEW line, NEW b,
         AssertLine(p, d, line, b)
  PROVE  FreshInv'
<1>1. UNCHANGED <<use, name, stale, call, manager, history>>
  BY Zenon DEF AssertLine
<1> QED  BY <1>1, FreshStill DEF manager, history

-----------------------------------------------------------------------------
(* Opening and closing *)

LEMMA FreshBeginOpen ==
  ASSUME ChannelInv, FreshInv, NEW p \in Procs, NEW d \in Devices, NEW b \in BOOLEAN, BeginOpen(p, d, b)
  PROVE  FreshInv'
<1> DEFINE alone == \A q \in Procs : Dev(q) # d
           c2 == [Idle EXCEPT !.op = "open", !.dev = d, !.server = b,
                              !.todo = Setup(Type(d), b), !.clean = alone]
           end == IF b = (Type(d) = "fifo") THEN 0 ELSE 1
<1>1. /\ ~Busy(p) /\ ~H!Has(map[p], d)
      /\ call' = [q \in Procs |-> IF q = p THEN c2
                                  ELSE IF Dev(q) = d THEN [call[q] EXCEPT !.clean = FALSE] ELSE call[q]]
      /\ stale' = [o \in Objects |-> IF o = name[<<d, end>>] /\ o \in inbox
                                     THEN stale[o] \cup {p} ELSE stale[o]]
      /\ UNCHANGED <<use, name, fds, tty, inbox, sent, manager, faults, tainted>>
  BY Zenon DEF BeginOpen
<1>2. end \in {0, 1}
  OBVIOUS
<1>3. c2.r = 0 /\ c2.w = 0 /\ c2.l = 0
  BY DEF Idle
<1> HIDE DEF c2, end
<1>4. Others(p) /\ call'[p] = c2 /\ map' = map
  <2>1. DOMAIN call' = Procs /\ call'[p] = c2
    BY <1>1
  <2>2. \A q \in Procs \ {p} : \/ call'[q] = call[q]
                               \/ call[q].dev \in Devices /\ call'[q] = [call[q] EXCEPT !.clean = FALSE]
    BY <1>1 DEF Dev
  <2> QED  BY <1>1, <2>1, <2>2 DEF ChannelInv, Sized, Others, manager
<1>5. Apart'
  <2> DEFINE N == {}
  <2>1. Unused(N)
    BY NoneUnused
  <2> HIDE DEF N
  <2>2. ASSUME NEW d0 PROVE Refers(name', call'[p], map'[p], d0, N)
    <3>1. \A e \in Devices : CallRefs(c2, e) \subseteq {0}
      BY <1>3 DEF CallRefs
    <3> QED  BY <1>1, <1>4, <3>1, RefsHas DEF Refers
  <2> QED  BY <1>4, <2>1, <2>2, ApartNext DEF FreshInv
<1>6. d \notin DOMAIN map[p].val
  BY <1>1, ManagedFacts DEF ChannelInv, Proc, ProcInv
<1>7. ASSUME NEW q \in Procs, NEW e \in DOMAIN map[q].val, use[e].type \in {"fifo", "msgq"}
      PROVE  q \notin stale'[map[q].val[e].r]
  <2> DEFINE o == map[q].val[e].r
  <2>1. e \in Devices /\ o \in Objects \ {0}
    BY <1>7, ReadsObject
  <2>2. q \notin stale[o]
    BY <1>7 DEF FreshInv, Clear
  <2>3. q = p => o # name[<<d, end>>]
    <3> SUFFICES ASSUME q = p PROVE o # name[<<d, end>>]
      OBVIOUS
    <3>1. o \in MapRefs(map[p], e)
      BY <1>7 DEF MapRefs
    <3>2. o \in Refs(e) /\ name[<<d, end>>] \in Refs(d)
      BY <1>2, <3>1, RefsHas
    <3>3. Refs(d) \cap Refs(e) \subseteq {0}
      BY <1>6, <1>7, <2>1 DEF FreshInv, Apart
    <3> QED  BY <2>1, <3>2, <3>3
  <2> HIDE DEF o
  <2>4. q \notin stale'[o]
    BY <1>1, <2>1, <2>2, <2>3
  <2> QED  BY <2>4 DEF o
<1>8. Clear'
  BY <1>1, <1>4, <1>7 DEF Clear
<1> QED  BY <1>1, <1>5, <1>8 DEF FreshInv

LEMMA FreshFinishOpen == ASSUME ChannelInv, FreshInv, NEW p \in Procs, FinishOpen(p) PROVE FreshInv'
<1> DEFINE c == call[p]
           v == [server |-> c.server, r |-> c.r, w |-> c.w, l |-> c.l, old |-> c.old]
           m2 == H!Insert(map[p], c.dev, v)
<1>1. /\ c.op = "open" /\ c.todo \in {<<>>, <<<<"setfl">>>>}
      /\ stale' = [o \in Objects |-> IF o = c.r THEN {} ELSE stale[o]]
      /\ open_channels' = [open_channels EXCEPT ![p] = open_channels[p] + 1]
      /\ map' = [map EXCEPT ![p] = m2] /\ call' = [call EXCEPT ![p] = Idle]
      /\ UNCHANGED <<use, name, fds, tty, sent, iter, faults, tainted>>
  BY Zenon DEF FinishOpen
<1>2. ProcInv(use, c, fds[p], map[p], iter[p], open_channels[p]) /\ Typed(use)
  BY UsesTyped DEF ChannelInv, Proc
<1>3. /\ DOMAIN m2.val = DOMAIN map[p].val \cup {c.dev} /\ c.dev \in Devices
      /\ \A d \in DOMAIN m2.val : m2.val[d] = IF d = c.dev THEN v ELSE map[p].val[d]
  BY <1>1, <1>2, ProcFinishOpen, SMTT(40)
<1>4. v.r = c.r /\ v.w = c.w /\ v.l = c.l
  OBVIOUS
<1> HIDE DEF m2, v
<1>5. call'[p] = Idle /\ map'[p] = m2 /\ Others(p)
  BY <1>1 DEF ChannelInv, Sized, Others
<1>6. Apart'
  <2> DEFINE N == {}
  <2>1. Unused(N)
    BY NoneUnused
  <2> HIDE DEF N
  <2>2. ASSUME NEW d0 PROVE Refers(name', call'[p], map'[p], d0, N)
    <3>1. \A e \in Devices : CallRefs(Idle, e) \subseteq {0}
      BY DEF CallRefs, Idle
    <3>2. \A e \in Devices : MapRefs(m2, e) \subseteq CallRefs(c, e) \cup MapRefs(map[p], e)
      <4> TAKE e \in Devices
      <4>1. CASE e = c.dev
        BY <1>3, <1>4, <4>1 DEF MapRefs, CallRefs
      <4>2. CASE e # c.dev
        BY <1>3, <4>2 DEF MapRefs
      <4> QED  BY <4>1, <4>2
    <3> QED  BY <1>1, <1>5, <3>1, <3>2, RefsHas DEF Refers
  <2> QED  BY <1>5, <2>1, <2>2, ApartNext DEF FreshInv
<1>7. ASSUME NEW q \in Procs, NEW e \in DOMAIN map'[q].val, use[e].type \in {"fifo", "msgq"}
      PROVE  q \notin stale'[map'[q].val[e].r]
  <2>1. CASE q = p /\ e = c.dev
    <3>1. map'[q].val[e].r = c.r
      BY <1>3, <1>4, <1>5, <1>7, <2>1
    <3>2. c.r \in Objects
      <4>1. Ended(use[c.dev].type, c) /\ Called(c)
        BY <1>1, <1>2, ProcFinishOpen DEF ProcInv
      <4> QED  BY <1>7, <2>1, <4>1 DEF Ended, Called
    <3> QED  BY <1>1, <3>1, <3>2
  <2>2. CASE ~(q = p /\ e = c.dev)
    <3>1. e \in DOMAIN map[q].val /\ map'[q].val[e] = map[q].val[e]
      <4>1. CASE q = p
        BY <1>3, <1>5, <1>7, <2>2, <4>1
      <4>2. CASE q # p
        <5>1. map'[q] = map[q]
          BY <1>5, <4>2 DEF Others
        <5> QED  BY <1>7, <5>1
      <4> QED  BY <4>1, <4>2
    <3>2. map[q].val[e].r \in Objects /\ q \notin stale[map[q].val[e].r]
      BY <1>7, <3>1, ReadsObject DEF FreshInv, Clear
    <3> QED  BY <1>1, <3>1, <3>2
  <2> QED  BY <2>1, <2>2
<1>8. Clear'
  BY <1>1, <1>7 DEF Clear
<1> QED  BY <1>1, <1>6, <1>8 DEF FreshInv

LEMMA FreshBeginClose ==
  ASSUME ChannelInv, FreshInv, NEW p \in Procs, NEW d \in Devices, BeginClose(p, d)
  PROVE  FreshInv'
<1> DEFINE c2 == [Idle EXCEPT !.op = "close", !.dev = d, !.r = map[p].val[d].r, !.w = map[p].val[d].w,
                              !.l = map[p].val[d].l, !.todo = Teardown(use[d].type, map[p].val[d])]
<1>1. /\ ~Busy(p) /\ H!Has(map[p], d)
      /\ call' = [q \in Procs |-> IF q = p THEN c2
                                  ELSE IF Dev(q) = d THEN [call[q] EXCEPT !.clean = FALSE] ELSE call[q]]
      /\ UNCHANGED use /\ UNCHANGED kernel /\ UNCHANGED manager /\ UNCHANGED tainted
  BY Zenon DEF BeginClose, Channel, Type
<1>2. d \in DOMAIN map[p].val
  BY <1>1, ManagedFacts DEF ChannelInv, Proc, ProcInv
<1>3. c2.dev = d /\ c2.r = map[p].val[d].r /\ c2.w = map[p].val[d].w /\ c2.l = map[p].val[d].l
  BY DEF Idle
<1> HIDE DEF c2
<1>4. Others(p) /\ call'[p] = c2 /\ map' = map /\ name' = name /\ stale' = stale
  <2>1. DOMAIN call' = Procs /\ call'[p] = c2
    BY <1>1
  <2>2. \A q \in Procs \ {p} : \/ call'[q] = call[q]
                               \/ call[q].dev \in Devices /\ call'[q] = [call[q] EXCEPT !.clean = FALSE]
    BY <1>1 DEF Dev
  <2> QED  BY <1>1, <2>1, <2>2 DEF ChannelInv, Sized, Others, manager, kernel
<1> DEFINE N == {}
<1>5. Unused(N)
  BY NoneUnused
<1> HIDE DEF N
<1>6. ASSUME NEW d0 PROVE Refers(name', call'[p], map[p], d0, N)
  <2>1. \A e \in Devices : CallRefs(c2, e) \subseteq MapRefs(map[p], e)
    BY <1>2, <1>3 DEF CallRefs, MapRefs
  <2> QED  BY <1>4, <2>1, RefsHas DEF Refers
<1> QED  BY <1>1, <1>4, <1>5, <1>6, FreshStep

\* Maps that lose entries.
LEMMA FreshLoses ==
  ASSUME ChannelInv, FreshInv, NEW p \in Procs, Others(p), UNCHANGED use, UNCHANGED name,
         UNCHANGED stale, UNCHANGED tainted, call'[p] \in {Idle, call[p]},
         DOMAIN map'[p].val \subseteq DOMAIN map[p].val,
         \A d \in DOMAIN map'[p].val : map'[p].val[d] = map[p].val[d]
  PROVE  FreshInv'
<1> DEFINE N == {}
<1>1. Unused(N)
  BY NoneUnused
<1> HIDE DEF N
<1>2. ASSUME NEW d0 PROVE Refers(name', call'[p], map'[p], d0, N)
  <2>1. \A e \in Devices : CallRefs(call'[p], e) \subseteq CallRefs(call[p], e) \cup {0}
    BY IdleWithin DEF Within
  <2>2. \A e \in Devices : MapRefs(map'[p], e) \subseteq MapRefs(map[p], e)
    BY DEF MapRefs
  <2> QED  BY <2>1, <2>2, RefsHas DEF Refers
<1>3. Apart'
  BY <1>1, <1>2, ApartNext DEF FreshInv
<1>4. ASSUME NEW q \in Procs
      PROVE  /\ DOMAIN map'[q].val \subseteq DOMAIN map[q].val
             /\ \A d \in DOMAIN map'[q].val : map'[q].val[d] = map[q].val[d]
  BY DEF Others
<1>5. Clear'
  BY <1>4, ClearNext DEF FreshInv
<1> QED  BY <1>3, <1>5 DEF FreshInv

LEMMA FreshFinishClose == ASSUME ChannelInv, FreshInv, NEW p \in Procs, FinishClose(p) PROVE FreshInv'
<1> DEFINE m2 == H!Delete(map[p], call[p].dev)
<1>1. /\ call[p].op = "close" /\ call[p].todo = <<>>
      /\ open_channels' = [open_channels EXCEPT ![p] = open_channels[p] - 1]
      /\ map' = [map EXCEPT ![p] = m2] /\ call' = [call EXCEPT ![p] = Idle]
      /\ UNCHANGED use /\ UNCHANGED kernel /\ UNCHANGED iter /\ UNCHANGED history
  BY Zenon DEF FinishClose, Dev
<1>2. ProcInv(use, call[p], fds[p], map[p], iter[p], open_channels[p]) /\ Typed(use)
  BY UsesTyped DEF ChannelInv, Proc
<1>3. DOMAIN m2.val \subseteq DOMAIN map[p].val /\ \A d \in DOMAIN m2.val : m2.val[d] = map[p].val[d]
  BY <1>1, <1>2, ProcFinishClose
<1> HIDE DEF m2
<1>4. call'[p] = Idle /\ map'[p] = m2 /\ Others(p)
  BY <1>1 DEF ChannelInv, Sized, Others, kernel
<1>5. UNCHANGED name /\ UNCHANGED stale /\ UNCHANGED tainted
  BY <1>1 DEF kernel, history
<1> QED  BY <1>1, <1>3, <1>4, <1>5, FreshLoses

LEMMA FreshTeardown ==
  ASSUME ChannelInv, FreshInv, NEW p \in Procs, BeginTeardown(p) \/ NextTeardown(p)
  PROVE  FreshInv'
<1>1. /\ UNCHANGED use /\ UNCHANGED kernel /\ UNCHANGED call /\ UNCHANGED open_channels /\ UNCHANGED history
      /\ \E i2 : iter' = [iter EXCEPT ![p] = i2]
      /\ UNCHANGED map \/ map' = [map EXCEPT ![p] = H!EmptyMap]
  BY DEF BeginTeardown, NextTeardown
<1>2. Others(p)
  BY <1>1 DEF ChannelInv, Sized, Others, kernel
<1>3. UNCHANGED name /\ UNCHANGED stale /\ UNCHANGED tainted /\ call'[p] = call[p]
  BY <1>1 DEF kernel, history
<1>4. /\ DOMAIN map'[p].val \subseteq DOMAIN map[p].val
      /\ \A d \in DOMAIN map'[p].val : map'[p].val[d] = map[p].val[d]
  <2>1. map'[p] = map[p] \/ map'[p] = H!EmptyMap
    BY <1>1 DEF ChannelInv, Sized
  <2> QED  BY <2>1, ManagedEmpty
<1> QED  BY <1>1, <1>2, <1>3, <1>4, FreshLoses

-----------------------------------------------------------------------------
LEMMA FreshInit == Init => FreshInv
<1> SUFFICES ASSUME Init PROVE FreshInv
  OBVIOUS
<1>1. ASSUME NEW d \in Devices PROVE Refs(d) \subseteq {0}
  <2>1. name[<<d, 0>>] = 0 /\ name[<<d, 1>>] = 0
    BY DEF Init
  <2>2. \A q \in Procs : call[q] = Idle /\ map[q] = H!EmptyMap
    BY DEF Init
  <2>3. CallRefs(Idle, d) \subseteq {0} /\ MapRefs(H!EmptyMap, d) = {}
    BY ManagedEmpty DEF CallRefs, Idle, MapRefs
  <2> QED  BY <2>1, <2>2, <2>3 DEF Refs
<1>2. Apart
  BY <1>1 DEF Apart
<1>3. Clear
  BY ManagedEmpty DEF Clear, Init
<1> QED  BY <1>2, <1>3 DEF FreshInv, Init

LEMMA FreshNext == ChannelInv /\ FreshInv /\ [Next]_vars => FreshInv'
<1> SUFFICES ASSUME ChannelInv, FreshInv, [Next]_vars PROVE FreshInv'
  OBVIOUS
<1>1. ASSUME NEW p \in Procs, NEW d \in Devices, BeginClose(p, d) \/ Send(p, d) \/ Recv(p, d)
      PROVE  FreshInv'
  BY <1>1, FreshBeginClose, FreshSend, FreshRecv
<1>2. ASSUME NEW p \in Procs, NEW d \in Devices, NEW b \in BOOLEAN,
             BeginOpen(p, d, b) \/ \E line \in {"dtr", "rts"} : AssertLine(p, d, line, b)
      PROVE  FreshInv'
  BY <1>2, FreshBeginOpen, FreshAssertLine
<1>3. ASSUME NEW p \in Procs,
             FinishOpen(p) \/ FinishClose(p) \/ BeginTeardown(p) \/ NextTeardown(p)
      PROVE  FreshInv'
  BY <1>3, FreshFinishOpen, FreshFinishClose, FreshTeardown
<1>4. ASSUME NEW p \in Procs, Unlink(p) \/ MakeName(p) \/ OpenEnd(p) \/ MsgGet(p) \/ RmId(p)
      PROVE  FreshInv'
  BY <1>4, FreshUnlink, FreshMakeName, FreshOpenEnd, FreshMsgGet
<1>5. ASSUME NEW p \in Procs,
             Access(p) \/ Socket(p) \/ Listen(p) \/ Connect(p) \/ Close(p) \/ TtyStep(p) \/ TtyClose(p)
      PROVE  FreshInv'
  BY <1>5, FreshAccess, FreshSocket, FreshConnect, FreshClose, FreshTtyStep
<1>6. ASSUME NEW p \in Procs,
             FifoFails(p) \/ MsgqFails(p) \/ UartFails(p) \/ StartFails(p) \/ ConnectFails(p) \/ Crash(p)
      PROVE  FreshInv'
  BY <1>6, FreshFails, FreshEnds
<1>7. CASE UNCHANGED vars
  <2>1. UNCHANGED use /\ UNCHANGED kernel /\ UNCHANGED call /\ UNCHANGED manager /\ UNCHANGED history
    BY <1>7 DEF vars
  <2> QED  BY <2>1, FreshStill DEF kernel, manager, history
<1> QED  BY <1>1, <1>2, <1>3, <1>4, <1>5, <1>6, <1>7 DEF Next

\* The flush at the end of channel_open is enough: no receiver ever gets what was sent
\* before its channel_open began.  What waits in an object stays there through crashes,
\* failed opens and the return of the object under another name; but two devices never
\* share one, and whoever opens the object to read flushes it before the channel counts.
THEOREM NothingStale == Spec => []FreshOnly
<1>1. FreshInv => FreshOnly
  BY DEF FreshInv, FreshOnly
<1> QED  BY <1>1, InitInv, NextInv, FreshInit, FreshNext, PTL DEF Spec

--------------------------------------------------------------------------------
(* What a process has of a device that it must give back *)

\* The terminal's lock, its settings and its lines; the file of an end, or the socket.
EndFile(e) == IF e = 0 THEN "end0" ELSE "end1"

\* What an open channel v has, by the type of the device; what the call c of a setup has by
\* now; and what that of a teardown still has.
Owns(k, v, x) ==
  \/ k = "uart" /\ x \in {"lock", "raw", "lines"}
  \/ k = "fifo" /\ x \in {"end0", "end1"} /\ v.server
  \/ k = "bus" /\ x = "end0" /\ v.l # 0

Took(k, c, x) ==
  \/ /\ k = "uart"
     /\ \/ x = "lock" /\ c.todo \in {Tty3, Tty2, Tty1, <<>>}
        \/ x = "raw" /\ c.todo \in {Tty1, <<>>}
        \/ x = "lines" /\ c.todo = <<>>
  \/ /\ k = "fifo" /\ c.server
     /\ \/ x = "end0" /\ c.todo \notin {Fifo7, Fifo6}
        \/ x = "end1" /\ c.todo \notin {Fifo7, Fifo6, Fifo5, Fifo4}
  \/ k = "bus" /\ x = "end0" /\ c.l # 0 /\ c.todo \notin {Start4, Start3}

Returns(k, c, x) ==
  \/ k = "uart" /\ x \in {"lock", "raw", "lines"} /\ c.todo = TtyShut
  \/ k = "fifo" /\ \/ x = "end0" /\ c.todo \in {Close3, Unlink2}
                   \/ x = "end1" /\ c.todo \in {Close3, Unlink2, Unlink1}
  \/ k = "bus" /\ x = "end0" /\ c.todo \in {Close2, Unlink0}

Holds(k, c, m, d, x) ==
  \/ c.dev # d /\ d \in DOMAIN m.val /\ Owns(k, m.val[d], x)
  \/ c.dev = d /\ c.op = "open" /\ Took(k, c, x)
  \/ c.dev = d /\ c.op = "close" /\ Returns(k, c, x)

Has(q, d, x) == Holds(use[d].type, call[q], map[q], d, x)

\* Whoever has the lock is its owner, and the terminal is set up from then on that it was.
Locked(d) ==
  \A q \in Procs : (Has(q, d, "lock") <=> tty[d].lock = q) /\ (Has(q, d, "raw") => tty[d].raw)

\* Without a fault nothing is there that nobody has.
Tidy(d) ==
  /\ tty[d].raw => \E q \in Procs : Has(q, d, "raw")
  /\ tty[d].lines # {} => \E q \in Procs : Has(q, d, "lines")
  /\ use[d].type # "msgq" => \A e \in {0, 1} : name[<<d, e>>] # 0 => \E q \in Procs : Has(q, d, EndFile(e))

Returned(d) == Locked(d) /\ (faults = 0 => Tidy(d))

\* Nor are the settings that a process will restore those of another process.
Plain == faults = 0 => \A q \in Procs : ~call[q].old /\ \A d \in DOMAIN map[q].val : ~map[q].val[d].old

LeftInv == Plain /\ \A d \in Devices : Returned(d)

-----------------------------------------------------------------------------
(* How a call changes it *)

\* What system call s of call c gets the process, and what it returns.
Gets(s, c, x) ==
  \/ s = "flock" /\ x = "lock"
  \/ s = "setattr" /\ x = "raw"
  \/ s = "lines" /\ x = "lines"
  \/ s = "mkfifo" /\ x = EndFile(DueArg(c))
  \/ s = "bind" /\ x = "end0"

Gives(s, c, x) ==
  \/ s = "ttyclose"
  \/ c.op = "close" /\ s = "unlink" /\ x = EndFile(DueArg(c))

LEMMA UartTook ==
  ASSUME NEW d, NEW c, NEW O, OpeningUart(d, c, O), NEW s, Due(c, s),
         NEW c2, c2.todo = Tail(c.todo), NEW x
  PROVE  /\ Took("uart", c2, x) <=> Took("uart", c, x) \/ Gets(s, c, x)
         /\ s \in {"ttyopen", "flock"} => ~Took("uart", c, x)
         /\ s \in {"getattr", "setattr", "lines"} => Took("uart", c, "lock")
         /\ s \in {"ttyopen", "flock", "getattr"} => ~Took("uart", c, "raw")
<1>1. /\ Leaves(Tty5, "ttyopen", Tty4) /\ Leaves(Tty4, "flock", Tty3)
      /\ Leaves(Tty3, "getattr", Tty2) /\ Leaves(Tty2, "setattr", Tty1)
      /\ Leaves(Tty1, "lines", <<>>)
  BY SetupLeaves
<1>2. c.todo \in {Tty5, Tty4, Tty3, Tty2, Tty1}
  BY DEF OpeningUart, Due
<1>3. /\ c.todo = Tty5 => s = "ttyopen" /\ c2.todo = Tty4
      /\ c.todo = Tty4 => s = "flock" /\ c2.todo = Tty3
      /\ c.todo = Tty3 => s = "getattr" /\ c2.todo = Tty2
      /\ c.todo = Tty2 => s = "setattr" /\ c2.todo = Tty1
      /\ c.todo = Tty1 => s = "lines" /\ c2.todo = <<>>
  BY <1>1 DEF Due, Leaves
<1>4. /\ Tty5 \notin {Tty4, Tty3, Tty2, Tty1, <<>>} /\ Tty4 \notin {Tty3, Tty2, Tty1, <<>>}
      /\ Tty3 \notin {Tty2, Tty1, <<>>} /\ Tty2 \notin {Tty1, <<>>} /\ Tty1 # <<>>
  BY <1>1 DEF Leaves
<1> QED  BY <1>2, <1>3, <1>4 DEF Took, Gets

LEMMA FifoTook ==
  ASSUME NEW d, NEW c, NEW O, OpeningFifo(d, c, O), c.server \in BOOLEAN, NEW s, Due(c, s),
         NEW c2, c2.todo = Tail(c.todo), c2.server = c.server, NEW x
  PROVE  /\ Took("fifo", c2, x) <=> Took("fifo", c, x) \/ Gets(s, c, x)
<1>1. /\ LeavesAt(Fifo7, "unlink", 0, Fifo6) /\ LeavesAt(Fifo6, "mkfifo", 0, Fifo5)
      /\ LeavesAt(Fifo5, "unlink", 1, Fifo4) /\ LeavesAt(Fifo4, "mkfifo", 1, Fifo3(TRUE))
  BY SetupLeaves
<1>2. /\ LeavesFor(Fifo3(c.server), "open", OwnEnd(c.server), "r", Fifo2(c.server))
      /\ LeavesFor(Fifo2(c.server), "open", OtherEnd(c.server), "w", Fifo1)
      /\ Leaves(Fifo1, "setfl", <<>>)
  BY SetupLeaves
<1>3. /\ {Fifo3(c.server), Fifo2(c.server), Fifo1, <<>>} \cap {Fifo7, Fifo6, Fifo5, Fifo4} = {}
      /\ Fifo7 \notin {Fifo6, Fifo5, Fifo4} /\ Fifo6 \notin {Fifo5, Fifo4} /\ Fifo5 # Fifo4
  BY <1>1, <1>2 DEF Leaves, LeavesAt, LeavesFor
<1>4. CASE c.server /\ c.todo \in {Fifo7, Fifo6, Fifo5, Fifo4}
  <2>1. c.server = TRUE
    BY <1>4
  <2>2. /\ c.todo = Fifo7 => s = "unlink" /\ c2.todo = Fifo6
        /\ c.todo = Fifo6 => s = "mkfifo" /\ DueArg(c) = 0 /\ c2.todo = Fifo5
        /\ c.todo = Fifo5 => s = "unlink" /\ c2.todo = Fifo4
        /\ c.todo = Fifo4 => s = "mkfifo" /\ DueArg(c) = 1 /\ c2.todo = Fifo3(TRUE)
    BY <1>1 DEF Due, DueArg, Leaves, LeavesAt
  <2>3. ASSUME NEW c3, c3.server = TRUE
        PROVE  /\ x = "end0" => (Took("fifo", c3, x) <=> c3.todo \notin {Fifo7, Fifo6})
               /\ x = "end1" => (Took("fifo", c3, x) <=> c3.todo \notin {Fifo7, Fifo6, Fifo5, Fifo4})
               /\ x \notin {"end0", "end1"} => ~Took("fifo", c3, x)
    BY <2>3 DEF Took
  <2>4. EndFile(0) = "end0" /\ EndFile(1) = "end1"
    BY DEF EndFile
  <2>5. CASE c.todo \in {Fifo7, Fifo5}
    <3>1. ~Gets(s, c, x)
      BY <1>3, <2>2, <2>5 DEF Gets
    <3> QED  BY <1>3, <2>1, <2>2, <2>3, <2>5, <3>1
  <2>6. CASE c.todo = Fifo6
    <3>1. Gets(s, c, x) <=> x = "end0"
      BY <2>2, <2>4, <2>6 DEF Gets
    <3> QED  BY <1>3, <2>1, <2>2, <2>3, <2>6, <3>1
  <2>7. CASE c.todo = Fifo4
    <3>1. Gets(s, c, x) <=> x = "end1"
      BY <2>2, <2>4, <2>7 DEF Gets
    <3> QED  BY <1>3, <2>1, <2>2, <2>3, <2>7, <3>1
  <2> QED  BY <1>4, <2>5, <2>6, <2>7
<1>5. CASE c.todo \in {Fifo3(c.server), Fifo2(c.server), Fifo1}
  <2>1. s \in {"open", "setfl"} /\ c2.todo \in {Fifo2(c.server), Fifo1, <<>>}
    BY <1>2, <1>5 DEF Due, Leaves, LeavesAt, LeavesFor
  <2> QED  BY <1>3, <1>5, <2>1 DEF Took, Gets
<1> QED  BY <1>4, <1>5 DEF OpeningFifo

LEMMA BusTook ==
  ASSUME NEW d, NEW c, NEW O, OpeningBus(d, c, O), NEW s, Due(c, s), s # "access",
         NEW c2, c2.todo = Tail(c.todo), c2.l = c.l \/ s = "socket", NEW x
  PROVE  Took("bus", c2, x) <=> Took("bus", c, x) \/ Gets(s, c, x)
<1>1. /\ Leaves(Bus2, "access", Bus1) /\ Leaves(Bus1, "connect", <<>>)
      /\ Leaves(Start5, "socket", Start4) /\ LeavesAt(Start4, "unlink", 0, Start3)
      /\ Leaves(Start3, "bind", Start2) /\ Leaves(Start2, "listen", Bus1)
  BY SetupLeaves
<1>2. /\ c.todo = Start5 => s = "socket" /\ c2.todo = Start4
      /\ c.todo = Start4 => s = "unlink" /\ c2.todo = Start3
      /\ c.todo = Start3 => s = "bind" /\ c2.todo = Start2
      /\ c.todo = Start2 => s = "listen" /\ c2.todo = Bus1
      /\ c.todo = Bus1 => s = "connect" /\ c2.todo = <<>>
      /\ c.todo # Bus2 /\ c.todo # <<>>
  BY <1>1 DEF Due, Leaves, LeavesAt
<1>3. {Start5, Start2, Bus1, <<>>} \cap {Start4, Start3} = {} /\ Start4 # Start3
  BY <1>1 DEF Leaves, LeavesAt
<1> QED  BY <1>2, <1>3 DEF OpeningBus, Took, Gets

LEMMA ReturnsDue ==
  ASSUME NEW k \in Kinds, NEW d, NEW c, NEW O, Closing(k, d, c, O), c.op = "close", NEW s, Due(c, s),
         NEW c2, c2.todo = Tail(c.todo), NEW x
  PROVE  Returns(k, c2, x) <=> Returns(k, c, x) /\ ~Gives(s, c, x)
<1>1. /\ Leaves(TtyShut, "ttyclose", <<>>)
      /\ LeavesAt(Remove2(c.w, c.r), "rmid", c.w, Remove1(c.r))
      /\ LeavesAt(Remove1(c.r), "rmid", c.r, <<>>)
      /\ Leaves(Close1, "close", <<>>) /\ Leaves(Close2, "close", Unlink0)
      /\ Leaves(Close3, "close", Unlink2) /\ LeavesAt(Unlink2, "unlink", 0, Unlink1)
      /\ LeavesAt(Unlink0, "unlink", 0, <<>>) /\ LeavesAt(Unlink1, "unlink", 1, <<>>)
  BY TeardownLeaves
<1>2. CASE k = "uart"
  <2>1. c.todo = TtyShut /\ s = "ttyclose" /\ c2.todo = <<>> /\ TtyShut # <<>>
    BY <1>1, <1>2 DEF Closing, Due, Leaves
  <2> QED  BY <1>2, <2>1 DEF Returns, Gives
<1>3. CASE k = "msgq"
  BY <1>3 DEF Returns
<1>4. CASE k = "fifo"
  <2>1. /\ c.todo = Close3 => s = "close" /\ c2.todo = Unlink2
        /\ c.todo = Close1 => s = "close" /\ c2.todo = <<>>
        /\ c.todo = Unlink2 => s = "unlink" /\ DueArg(c) = 0 /\ c2.todo = Unlink1
        /\ c.todo = Unlink1 => s = "unlink" /\ DueArg(c) = 1 /\ c2.todo = <<>>
        /\ c.todo # <<>>
    BY <1>1 DEF Due, DueArg, Leaves, LeavesAt
  <2>2. /\ Close1 \notin {Close3, Unlink2, Unlink1} /\ Unlink1 \notin {Close3, Unlink2}
        /\ Unlink2 # Close3 /\ <<>> \notin {Close3, Unlink2, Unlink1}
    <3>1. Unlink2 # <<>>
      BY <1>1 DEF Leaves, LeavesAt
    <3> QED  BY <1>1, <3>1 DEF Leaves, LeavesAt
  <2>3. EndFile(0) = "end0" /\ EndFile(1) = "end1"
    BY DEF EndFile
  <2>4. CASE c.todo \in {Close3, Close1}
    <3>1. ~Gives(s, c, x)
      BY <2>1, <2>4 DEF Gives
    <3> QED  BY <1>4, <2>1, <2>2, <2>4, <3>1 DEF Returns
  <2>5. CASE c.todo = Unlink2
    <3>1. Gives(s, c, x) <=> x = "end0"
      BY <2>1, <2>3, <2>5 DEF Gives
    <3> QED  BY <1>4, <2>1, <2>2, <2>5, <3>1 DEF Returns
  <2>6. CASE c.todo = Unlink1
    <3>1. Gives(s, c, x) <=> x = "end1"
      BY <2>1, <2>3, <2>6 DEF Gives
    <3> QED  BY <1>4, <2>1, <2>2, <2>6, <3>1 DEF Returns
  <2> QED  BY <1>4, <2>1, <2>4, <2>5, <2>6 DEF Closing
<1>5. CASE k = "bus"
  <2>1. /\ c.todo = Close2 => s = "close" /\ c2.todo = Unlink0
        /\ c.todo = Close1 => s = "close" /\ c2.todo = <<>>
        /\ c.todo = Unlink0 => s = "unlink" /\ DueArg(c) = 0 /\ c2.todo = <<>>
        /\ c.todo # <<>>
    BY <1>1 DEF Due, DueArg, Leaves, LeavesAt
  <2>2. Close1 \notin {Close2, Unlink0} /\ Unlink0 # Close2 /\ <<>> \notin {Close2, Unlink0}
    <3>1. Unlink0 # <<>>
      BY <1>1 DEF Leaves, LeavesAt
    <3> QED  BY <1>1, <3>1 DEF Leaves, LeavesAt
  <2> QED  BY <1>5, <2>1, <2>2 DEF Closing, Returns, Gives, EndFile
<1> QED  BY <1>2, <1>3, <1>4, <1>5 DEF Kinds

\* One system call, whatever it is.
LEMMA HoldsStep ==
  ASSUME NEW k \in Kinds, NEW d, NEW c, NEW O, NEW m, InCall(k, d, c, O, m), Called(c), c.dev = d,
         NEW s, Due(c, s), s # "access",
         NEW c2, c2.op = c.op, c2.dev = c.dev, c2.server = c.server, c2.todo = Tail(c.todo),
         c2.l = c.l \/ s = "socket", NEW x
  PROVE  /\ Holds(k, c2, m, d, x) <=> (Holds(k, c, m, d, x) \/ Gets(s, c, x)) /\ ~Gives(s, c, x)
         /\ s \in {"ttyopen", "flock"} => ~Holds(k, c, m, d, x)
         /\ s \in {"getattr", "setattr", "lines"} => Holds(k, c, m, d, "lock")
         /\ s \in {"ttyopen", "flock", "getattr"} => ~Holds(k, c, m, d, "raw")
<1>1. DueFacts(k, d, c, O, s)
  BY CallDue
<1>2. CASE c.op = "open"
  <2>1. Holds(k, c2, m, d, x) <=> Took(k, c2, x)
    BY <1>2 DEF Holds
  <2>2. \A y : Holds(k, c, m, d, y) <=> Took(k, c, y)
    BY <1>2 DEF Holds
  <2>3. Opening(k, d, c, O) /\ c.server \in BOOLEAN
    BY <1>2 DEF InCall, Called
  <2>4. ~Gives(s, c, x)
    BY <1>1, <1>2 DEF DueFacts, Gives
  <2>5. CASE k = "uart"
    <3>1. OpeningUart(d, c, O)
      BY <2>3, <2>5 DEF Opening
    <3> QED  BY <2>1, <2>2, <2>4, <2>5, <3>1, UartTook
  <2>6. s \in {"ttyopen", "flock", "getattr", "setattr", "lines"} => k = "uart"
    BY <1>1 DEF DueFacts
  <2>7. CASE k = "msgq"
    <3>1. OpeningMsgq(c, O)
      BY <2>3, <2>7 DEF Opening
    <3>2. s = "msgget"
      BY <2>3, <3>1, MsgqDue
    <3> QED  BY <2>1, <2>2, <2>4, <2>6, <2>7, <3>2 DEF Took, Gets
  <2>8. CASE k = "fifo"
    <3>1. OpeningFifo(d, c, O)
      BY <2>3, <2>8 DEF Opening
    <3> QED  BY <2>1, <2>2, <2>3, <2>4, <2>6, <2>8, <3>1, FifoTook
  <2>9. CASE k = "bus"
    <3>1. OpeningBus(d, c, O)
      BY <2>3, <2>9 DEF Opening
    <3> QED  BY <2>1, <2>2, <2>4, <2>6, <2>9, <3>1, BusTook
  <2> QED  BY <2>5, <2>7, <2>8, <2>9 DEF Kinds
<1>3. CASE c.op = "close"
  <2>1. Holds(k, c2, m, d, x) <=> Returns(k, c2, x)
    BY <1>3 DEF Holds
  <2>2. Holds(k, c, m, d, x) <=> Returns(k, c, x)
    BY <1>3 DEF Holds
  <2>3. Closing(k, d, c, O)
    BY <1>3 DEF InCall
  <2>4. s \notin {"ttyopen", "flock", "getattr", "setattr", "lines"} /\ ~Gets(s, c, x)
    BY <1>1, <1>3 DEF DueFacts, Gets
  <2> QED  BY <1>3, <2>1, <2>2, <2>3, <2>4, ReturnsDue
<1> QED  BY <1>2, <1>3 DEF InCall

-----------------------------------------------------------------------------
(* What a step leaves alone *)

LEMMA HoldsSame ==
  ASSUME NEW k, NEW c, NEW c2, NEW m, NEW d, NEW x, c2.op = c.op, c2.dev = c.dev,
         c2.server = c.server, c2.todo = c.todo, c2.l = c.l
  PROVE  Holds(k, c2, m, d, x) <=> Holds(k, c, m, d, x)
BY DEF Holds, Took, Returns

\* The settings that a call saved.
LEMMA OldPut ==
  ASSUME NEW c, Called(c)
  PROVE  /\ \A t : [c EXCEPT !.todo = t].old = c.old
         /\ Next1(c).old = c.old
         /\ [c EXCEPT !.clean = FALSE].old = c.old
         /\ \A b : [Next1(c) EXCEPT !.old = b].old = b
         /\ \A o : /\ [Next1(c) EXCEPT !["r"] = o].old = c.old
                   /\ [Next1(c) EXCEPT !["w"] = o].old = c.old
                   /\ [Next1(c) EXCEPT !.w = o].old = c.old
                   /\ [Next1(c) EXCEPT !.l = o].old = c.old
<1>1. c = [op |-> c.op, dev |-> c.dev, todo |-> c.todo, server |-> c.server, clean |-> c.clean,
           r |-> c.r, w |-> c.w, l |-> c.l, old |-> c.old]
  BY DEF Called
<1>2. \A t : [c EXCEPT !.todo = t].old = c.old
  BY <1>1
<1>3. [c EXCEPT !.clean = FALSE].old = c.old
  BY <1>1
<1>4. Next1(c).old = c.old
  BY <1>2 DEF Next1
<1> DEFINE c1 == Next1(c)
<1>5. Called(c1)
  BY CallPut DEF Passes
<1> HIDE DEF c1
<1>6. c1 = [op |-> c1.op, dev |-> c1.dev, todo |-> c1.todo, server |-> c1.server, clean |-> c1.clean,
            r |-> c1.r, w |-> c1.w, l |-> c1.l, old |-> c1.old]
  BY <1>5 DEF Called
<1>7. \A b : [c1 EXCEPT !.old = b].old = b
  BY <1>6
<1>8. \A o : /\ [c1 EXCEPT !["r"] = o].old = c1.old /\ [c1 EXCEPT !["w"] = o].old = c1.old
             /\ [c1 EXCEPT !.w = o].old = c1.old /\ [c1 EXCEPT !.l = o].old = c1.old
  BY <1>6
<1> QED  BY <1>2, <1>3, <1>4, <1>7, <1>8 DEF c1

\* The other processes.
LEMMA OthersHold ==
  ASSUME ChannelInv, NEW p \in Procs, Others(p), UNCHANGED use, NEW q \in Procs \ {p}
  PROVE  /\ \A d, x : Has(q, d, x)' <=> Has(q, d, x)
         /\ call'[q].old = call[q].old /\ map'[q] = map[q]
<1>1. Called(call[q])
  BY DEF ChannelInv, Proc, ProcInv
<1>2. /\ call'[q].op = call[q].op /\ call'[q].dev = call[q].dev /\ call'[q].server = call[q].server
      /\ call'[q].todo = call[q].todo /\ call'[q].l = call[q].l /\ call'[q].old = call[q].old
  <2>1. CASE call'[q] = call[q]
    BY <2>1
  <2>2. CASE call'[q] = [call[q] EXCEPT !.clean = FALSE]
    BY <1>1, <2>2, CallPut, OldPut DEF Passes
  <2> QED  BY <2>1, <2>2 DEF Others
<1>3. map'[q] = map[q]
  BY DEF Others
<1>4. ASSUME NEW d, NEW x PROVE Has(q, d, x)' <=> Has(q, d, x)
  <2>1. Holds(use[d].type, call'[q], map[q], d, x) <=> Holds(use[d].type, call[q], map[q], d, x)
    BY <1>2, HoldsSame
  <2> QED  BY <1>3, <2>1 DEF Has
<1> QED  BY <1>2, <1>3, <1>4

\* What p has of d is what it had.
Still(p, d) == \A x : Holds(use[d].type, call'[p], map'[p], d, x) <=> Has(p, d, x)

LEMMA HasAll ==
  ASSUME ChannelInv, NEW p \in Procs, Others(p), UNCHANGED use, NEW d, Still(p, d)
  PROVE  \A q \in Procs : \A x : Has(q, d, x)' <=> Has(q, d, x)
<1>1. \A x : Has(p, d, x)' <=> Has(p, d, x)
  BY DEF Still, Has
<1> QED  BY <1>1, OthersHold

\* The names of d stay or go.
NamesGo(d) == \A e \in {0, 1} : name'[<<d, e>>] \in {name[<<d, e>>], 0}
NoFaults == faults' = 0 => faults = 0

LEMMA ReturnedKept ==
  ASSUME ChannelInv, NEW p \in Procs, Others(p), UNCHANGED use, NEW d, Returned(d), Still(p, d),
         tty'[d] = tty[d], NamesGo(d) \/ use[d].type = "msgq", NoFaults
  PROVE  Returned(d)'
<1>1. \A q \in Procs : \A x : Has(q, d, x)' <=> Has(q, d, x)
  BY HasAll
<1>2. Locked(d)'
  BY <1>1 DEF Returned, Locked
<1>3. ASSUME Tidy(d) PROVE Tidy(d)'
  BY <1>1, <1>3 DEF Tidy, NamesGo
<1> QED  BY <1>2, <1>3 DEF Returned, NoFaults

LEMMA PlainNext ==
  ASSUME ChannelInv, Plain, NEW p \in Procs, Others(p), UNCHANGED use, NoFaults,
         faults = 0 => ~call'[p].old /\ \A d \in DOMAIN map'[p].val : ~map'[p].val[d].old
  PROVE  Plain'
<1>1. ASSUME faults = 0, NEW q \in Procs
      PROVE  ~call'[q].old /\ \A d \in DOMAIN map'[q].val : ~map'[q].val[d].old
  <2>1. CASE q = p
    BY <1>1, <2>1
  <2>2. CASE q # p
    BY <1>1, <2>2, OthersHold DEF Plain
  <2> QED  BY <2>1, <2>2
<1> QED  BY <1>1 DEF Plain, NoFaults

\* A step of p about the device d0.
LEMMA LeftStep ==
  ASSUME ChannelInv, LeftInv, NEW p \in Procs, Others(p), UNCHANGED use, NoFaults, Plain',
         NEW d0, d0 \in Devices => Returned(d0)',
         \A d \in Devices \ {d0} : Still(p, d) /\ tty'[d] = tty[d] /\ NamesGo(d)
  PROVE  LeftInv'
<1>1. ASSUME NEW d \in Devices, d # d0 PROVE Returned(d)'
  BY <1>1, ReturnedKept DEF LeftInv
<1> QED  BY <1>1 DEF LeftInv

\* A step that gets nothing and returns nothing.
LEMMA LeftQuiet ==
  ASSUME ChannelInv, LeftInv, NEW p \in Procs, Others(p), UNCHANGED use, NoFaults, Plain',
         UNCHANGED tty, \A d \in Devices : Still(p, d) /\ (NamesGo(d) \/ use[d].type = "msgq")
  PROVE  LeftInv'
<1>1. ASSUME NEW d \in Devices PROVE Returned(d)'
  BY ReturnedKept DEF LeftInv
<1> QED  BY <1>1 DEF LeftInv

-----------------------------------------------------------------------------
(* The system calls *)

LEMMA HasStep ==
  ASSUME ChannelInv, NEW p \in Procs, NEW s, At(p, s), s # "access", UNCHANGED use, UNCHANGED map,
         Others(p), NEW c2, call'[p] = c2, NEW r, NEW w, NEW l,
         Passes(call[p], c2, Tail(call[p].todo), r, w, l), l = call[p].l \/ s = "socket",
         NEW d, d = Dev(p)
  PROVE  /\ d \in Devices
         /\ \A e \in Devices \ {d} : Still(p, e)
         /\ \A q \in Procs \ {p} : \A x : Has(q, d, x)' <=> Has(q, d, x)
         /\ \A x : /\ Has(p, d, x)' <=> (Has(p, d, x) \/ Gets(s, call[p], x)) /\ ~Gives(s, call[p], x)
                   /\ s \in {"ttyopen", "flock"} => ~Has(p, d, x)
         /\ s \in {"getattr", "setattr", "lines"} => Has(p, d, "lock")
         /\ s \in {"ttyopen", "flock", "getattr"} => ~Has(p, d, "raw")
<1>1. map' = map /\ use' = use
  OBVIOUS
<1>2. /\ c2.op = call[p].op /\ c2.dev = call[p].dev /\ c2.server = call[p].server
      /\ c2.todo = Tail(call[p].todo) /\ (c2.l = call[p].l \/ s = "socket")
  BY DEF Passes
<1>3. ASSUME NEW e \in Devices \ {d} PROVE Still(p, e)
  BY <1>1, <1>2, <1>3 DEF Still, Has, Holds, Dev
<1> DEFINE k == use[d].type
           c == call[p]
           O == Own(fds[p], d)
<1>4. k \in Kinds /\ InCall(k, d, c, O, map[p]) /\ Called(c) /\ c.dev = d /\ Due(c, s) /\ d \in Devices
  BY Acts DEF Dev
<1> HIDE DEF k, c, O
<1>5. ASSUME NEW x
      PROVE  /\ Holds(k, c2, map[p], d, x) <=> (Holds(k, c, map[p], d, x) \/ Gets(s, c, x)) /\ ~Gives(s, c, x)
             /\ s \in {"ttyopen", "flock"} => ~Holds(k, c, map[p], d, x)
             /\ s \in {"getattr", "setattr", "lines"} => Holds(k, c, map[p], d, "lock")
             /\ s \in {"ttyopen", "flock", "getattr"} => ~Holds(k, c, map[p], d, "raw")
  <2>1. /\ c2.op = c.op /\ c2.dev = c.dev /\ c2.server = c.server
        /\ c2.todo = Tail(c.todo) /\ (c2.l = c.l \/ s = "socket")
    BY <1>2 DEF c
  <2>2. PICK m : m = map[p]
    OBVIOUS
  <2>3. InCall(k, d, c, O, m)
    BY <1>4, <2>2
  <2>4. /\ Holds(k, c2, m, d, x) <=> (Holds(k, c, m, d, x) \/ Gets(s, c, x)) /\ ~Gives(s, c, x)
        /\ s \in {"ttyopen", "flock"} => ~Holds(k, c, m, d, x)
        /\ s \in {"getattr", "setattr", "lines"} => Holds(k, c, m, d, "lock")
        /\ s \in {"ttyopen", "flock", "getattr"} => ~Holds(k, c, m, d, "raw")
    BY <1>4, <2>1, <2>3, HoldsStep, SMTT(40)
  <2> QED  BY <2>2, <2>4
<1>6. \A x : (Has(p, d, x)' <=> Holds(k, c2, map[p], d, x)) /\ (Has(p, d, x) <=> Holds(k, c, map[p], d, x))
  BY <1>1 DEF Has, k, c
<1>7. \A q \in Procs \ {p} : \A x : Has(q, d, x)' <=> Has(q, d, x)
  BY <1>1, OthersHold
<1>8. /\ \A x : /\ Has(p, d, x)' <=> (Has(p, d, x) \/ Gets(s, c, x)) /\ ~Gives(s, c, x)
                /\ s \in {"ttyopen", "flock"} => ~Has(p, d, x)
      /\ s \in {"getattr", "setattr", "lines"} => Has(p, d, "lock")
      /\ s \in {"ttyopen", "flock", "getattr"} => ~Has(p, d, "raw")
  BY <1>5, <1>6
<1> QED  BY <1>1, <1>3, <1>4, <1>7, <1>8 DEF c

\* One that opens nothing.
LEMMA HasCall ==
  ASSUME ChannelInv, NEW p \in Procs, NEW s, At(p, s), s # "access", UNCHANGED use, UNCHANGED manager,
         UNCHANGED fds, NEW c2, call' = [call EXCEPT ![p] = c2],
         Passes(call[p], c2, Tail(call[p].todo), call[p].r, call[p].w, call[p].l),
         NEW d, d = Dev(p)
  PROVE  /\ Others(p) /\ call'[p] = c2 /\ d \in Devices
         /\ \A e \in Devices \ {d} : Still(p, e)
         /\ \A q \in Procs \ {p} : \A x : Has(q, d, x)' <=> Has(q, d, x)
         /\ \A x : /\ Has(p, d, x)' <=> (Has(p, d, x) \/ Gets(s, call[p], x)) /\ ~Gives(s, call[p], x)
                   /\ s \in {"ttyopen", "flock"} => ~Has(p, d, x)
         /\ s \in {"getattr", "setattr", "lines"} => Has(p, d, "lock")
         /\ s \in {"ttyopen", "flock", "getattr"} => ~Has(p, d, "raw")
<1>1. UNCHANGED fds \/ \E F2 : fds' = [fds EXCEPT ![p] = F2]
  OBVIOUS
<1>2. Others(p) /\ call'[p] = c2
  BY <1>1, OnlyCall
<1>3. UNCHANGED map
  BY DEF manager
<1>4. PICK r, w, l : Passes(call[p], c2, Tail(call[p].todo), r, w, l) /\ l = call[p].l
  OBVIOUS
<1> QED  BY <1>2, <1>3, <1>4, HasStep

\* A call that gets nothing and returns nothing.
LEMMA HasSame ==
  ASSUME ChannelInv, NEW p \in Procs, NEW s, At(p, s), s # "access", UNCHANGED use, UNCHANGED manager,
         NEW c2, call' = [call EXCEPT ![p] = c2], NEW r, NEW w, NEW l,
         Passes(call[p], c2, Tail(call[p].todo), r, w, l), l = call[p].l \/ s = "socket",
         UNCHANGED fds \/ \E F2 : fds' = [fds EXCEPT ![p] = F2],
         s \in {"ttyopen", "getattr", "open", "msgget", "rmid", "socket", "listen", "connect", "close"}
  PROVE  Others(p) /\ call'[p] = c2 /\ \A d \in Devices : Still(p, d)
<1>1. \A x : ~Gets(s, call[p], x) /\ ~Gives(s, call[p], x)
  BY DEF Gets, Gives
<1> DEFINE d == call[p].dev
<1>2. d = Dev(p)
  BY DEF Dev
<1> HIDE DEF d
<1>3. Others(p) /\ call'[p] = c2 /\ UNCHANGED map
  BY OnlyCall DEF manager
<1>4. /\ \A e \in Devices \ {d} : Still(p, e)
      /\ \A x : Holds(use[d].type, c2, map[p], d, x) <=> Has(p, d, x)
  <2>1. PICK e : e = d
    OBVIOUS
  <2>2. /\ \A y \in Devices \ {e} : Still(p, y)
        /\ \A x : Has(p, e, x)' <=> (Has(p, e, x) \/ Gets(s, call[p], x)) /\ ~Gives(s, call[p], x)
    BY <1>2, <1>3, <2>1, HasStep, ZenonT(40)
  <2> QED  BY <1>1, <1>3, <2>1, <2>2 DEF Has
<1>5. Still(p, d)
  BY <1>3, <1>4 DEF Still
<1> QED  BY <1>3, <1>4, <1>5

LEMMA PlainStep ==
  ASSUME ChannelInv, LeftInv, NEW p \in Procs, Others(p), UNCHANGED use, UNCHANGED manager, NoFaults,
         call'[p].old = call[p].old
  PROVE  Plain'
<1>1. map' = map
  BY DEF manager
<1> QED  BY <1>1, PlainNext DEF LeftInv, Plain

LEMMA FaultSets ==
  ASSUME KernelOK
  PROVE  /\ Fault \/ Upset => faults' # 0
         /\ Fault \/ Upset \/ UNCHANGED faults => NoFaults
BY ChannelBounds DEF KernelOK, Fault, Upset, NoFaults

\* The terminal of d is as it was, or its names are.
LEMMA TtyKept ==
  ASSUME NEW d, Returned(d), NoFaults, tty'[d] = tty[d],
         \A q \in Procs : \A x \in {"lock", "raw", "lines"} : Has(q, d, x)' <=> Has(q, d, x),
         faults = 0 => (use'[d].type # "msgq" =>
           \A e \in {0, 1} : name'[<<d, e>>] # 0 => \E q \in Procs : Has(q, d, EndFile(e))')
  PROVE  Returned(d)'
<1>1. Locked(d)'
  BY DEF Returned, Locked
<1>2. ASSUME faults = 0 PROVE Tidy(d)'
  BY <1>2 DEF Returned, Tidy
<1> QED  BY <1>1, <1>2 DEF Returned, NoFaults

LEMMA NamesStay ==
  ASSUME NEW d, Returned(d), NoFaults, UNCHANGED use, NamesGo(d),
         \A q \in Procs : \A x \in {"end0", "end1"} : Has(q, d, x)' <=> Has(q, d, x),
         Locked(d)',
         faults = 0 => /\ tty'[d].raw => \E q \in Procs : Has(q, d, "raw")'
                       /\ tty'[d].lines # {} => \E q \in Procs : Has(q, d, "lines")'
  PROVE  Returned(d)'
<1>1. EndFile(0) = "end0" /\ EndFile(1) = "end1"
  BY DEF EndFile
<1>2. \A q \in Procs : \A e \in {0, 1} : Has(q, d, EndFile(e))' <=> Has(q, d, EndFile(e))
  BY <1>1
<1>3. ASSUME faults = 0 PROVE Tidy(d)'
  BY <1>2, <1>3 DEF Returned, Tidy, NamesGo
<1> QED  BY <1>3 DEF Returned, NoFaults

LEMMA EndsDiffer ==
  /\ EndFile(0) = "end0" /\ EndFile(1) = "end1"
  /\ \A e \in {0, 1} : EndFile(e) \notin {"lock", "raw", "lines"}
  /\ \A e, f \in {0, 1} : e # f => EndFile(e) # EndFile(f)
BY DEF EndFile

LEMMA LeftUnlink == ASSUME ChannelInv, LeftInv, NEW p \in Procs, Unlink(p) PROVE LeftInv'
<1>1. PICK d : d = Dev(p)
  OBVIOUS
<1> DEFINE c2 == Next1(call[p])
<1>2. /\ At(p, "unlink") /\ UNCHANGED use /\ UNCHANGED fds /\ UNCHANGED tty /\ UNCHANGED manager
      /\ UNCHANGED faults /\ name' = [name EXCEPT ![<<d, Arg(p)>>] = 0] /\ call' = [call EXCEPT ![p] = c2]
  BY <1>1, Zenon DEF Unlink, Advance
<1>3. Passes(call[p], c2, Tail(call[p].todo), call[p].r, call[p].w, call[p].l) /\ c2.old = call[p].old
  BY <1>2, Acts, CallPut, OldPut
<1> HIDE DEF c2
<1>4. /\ Others(p) /\ call'[p] = c2 /\ d \in Devices
      /\ \A e \in Devices \ {d} : Still(p, e)
      /\ \A q \in Procs \ {p} : \A x : Has(q, d, x)' <=> Has(q, d, x)
      /\ \A x : Has(p, d, x)' <=> (Has(p, d, x) \/ Gets("unlink", call[p], x)) /\ ~Gives("unlink", call[p], x)
  <2>1. PICK s : s = "unlink" /\ At(p, s) /\ s # "access"
    BY <1>2
  <2> QED  BY <1>1, <1>2, <1>3, <2>1, HasCall
<1>5. \A e \in Devices : NamesGo(e)
  BY <1>2 DEF NamesGo, ChannelInv, KernelOK
<1>6. NoFaults /\ Plain'
  BY <1>2, <1>3, <1>4, FaultSets, PlainStep DEF ChannelInv
<1>7. DueArg(call[p]) = Arg(p) /\ Arg(p) \in {0, 1}
  <2>1. /\ DueFacts(use[d].type, d, call[p], Own(fds[p], d), "unlink") /\ use[d].type \in Kinds
        /\ call[p].op \in {"open", "close"} /\ Arg(p) = DueArg(call[p])
    BY <1>1, <1>2, Acts DEF Called
  <2> QED  BY <2>1 DEF DueFacts
<1>8. ASSUME NEW x, x # EndFile(Arg(p)), NEW q \in Procs PROVE Has(q, d, x)' <=> Has(q, d, x)
  <2>1. ~Gets("unlink", call[p], x) /\ ~Gives("unlink", call[p], x)
    BY <1>7, <1>8 DEF Gets, Gives
  <2> QED  BY <1>4, <2>1
<1>9. Returned(d)'
  <2>1. \A q \in Procs : \A x \in {"lock", "raw", "lines"} : Has(q, d, x)' <=> Has(q, d, x)
    BY <1>7, <1>8, EndsDiffer
  <2>2. ASSUME faults = 0, use[d].type # "msgq", NEW e \in {0, 1}, name'[<<d, e>>] # 0
        PROVE  \E q \in Procs : Has(q, d, EndFile(e))'
    <3>1. e # Arg(p) /\ name[<<d, e>>] # 0
      BY <1>2, <1>4, <1>7, <2>2 DEF ChannelInv, KernelOK
    <3>2. EndFile(e) # EndFile(Arg(p))
      BY <1>7, <3>1, EndsDiffer
    <3>3. \E q \in Procs : Has(q, d, EndFile(e))
      BY <1>4, <2>2, <3>1 DEF LeftInv, Returned, Tidy
    <3> QED  BY <1>8, <3>2, <3>3
  <2> QED  BY <1>2, <1>4, <1>6, <2>1, <2>2, TtyKept DEF LeftInv
<1>10. \A e \in Devices \ {d} : Still(p, e) /\ tty'[e] = tty[e] /\ NamesGo(e)
  BY <1>2, <1>4, <1>5
<1> QED  BY <1>2, <1>4, <1>6, <1>9, <1>10, LeftStep

LEMMA LeftMakeName == ASSUME ChannelInv, LeftInv, NEW p \in Procs, MakeName(p) PROVE LeftInv'
<1>1. PICK d : d = Dev(p)
  OBVIOUS
<1> DEFINE e0 == IF At(p, "bind") THEN 0 ELSE Arg(p)
           o == IF At(p, "bind") THEN call[p].l ELSE Fresh
           c2 == Next1(call[p])
<1>2. /\ UNCHANGED use /\ UNCHANGED fds /\ UNCHANGED tty /\ UNCHANGED manager /\ UNCHANGED faults
      /\ name' = [name EXCEPT ![<<d, e0>>] = o] /\ call' = [call EXCEPT ![p] = c2]
      /\ At(p, "mkfifo") \/ At(p, "bind")
  BY <1>1, Zenon DEF MakeName, Advance
<1>3. PICK s \in {"mkfifo", "bind"} :
        At(p, s) /\ EndFile(e0) = (IF s = "bind" THEN "end0" ELSE EndFile(DueArg(call[p])))
        /\ e0 \in {0, 1}
  <2>1. CASE At(p, "bind")
    BY <2>1, EndsDiffer
  <2>2. CASE ~At(p, "bind")
    <3>1. DueFacts(use[Dev(p)].type, Dev(p), call[p], Own(fds[p], Dev(p)), "mkfifo") /\ Arg(p) = DueArg(call[p])
      BY <1>2, <2>2, Acts
    <3>2. Arg(p) \in {0, 1}
      BY <3>1 DEF DueFacts
    <3> QED  BY <1>2, <2>2, <3>1, <3>2
  <2> QED  BY <2>1, <2>2
<1>4. Passes(call[p], c2, Tail(call[p].todo), call[p].r, call[p].w, call[p].l) /\ c2.old = call[p].old
  BY <1>3, Acts, CallPut, OldPut
<1> HIDE DEF c2, e0, o
<1>5. /\ Others(p) /\ call'[p] = c2 /\ d \in Devices
      /\ \A e \in Devices \ {d} : Still(p, e)
      /\ \A q \in Procs \ {p} : \A x : Has(q, d, x)' <=> Has(q, d, x)
      /\ \A x : Has(p, d, x)' <=> (Has(p, d, x) \/ Gets(s, call[p], x)) /\ ~Gives(s, call[p], x)
  <2>1. s # "access"
    OBVIOUS
  <2> QED  BY <1>1, <1>2, <1>3, <1>4, <2>1, HasCall, ZenonT(40)
<1>6. \A e \in Devices \ {d} : NamesGo(e)
  BY <1>2 DEF NamesGo, ChannelInv, KernelOK
<1>7. NoFaults /\ Plain'
  BY <1>2, <1>4, <1>5, FaultSets, PlainStep DEF ChannelInv
<1>8. \A x : /\ ~Gives(s, call[p], x)
             /\ Gets(s, call[p], x) <=> x = EndFile(e0)
  BY <1>3 DEF Gets, Gives
<1>9. Returned(d)'
  <2>1. \A q \in Procs : \A x \in {"lock", "raw", "lines"} : Has(q, d, x)' <=> Has(q, d, x)
    BY <1>3, <1>5, <1>8, EndsDiffer
  <2>2. ASSUME faults = 0, use[d].type # "msgq", NEW e \in {0, 1}, name'[<<d, e>>] # 0
        PROVE  \E q \in Procs : Has(q, d, EndFile(e))'
    <3>1. CASE e = e0
      BY <1>5, <1>8, <3>1
    <3>2. CASE e # e0
      <4>1. name[<<d, e>>] # 0
        BY <1>2, <1>5, <2>2, <3>2 DEF ChannelInv, KernelOK
      <4>2. \E q \in Procs : Has(q, d, EndFile(e))
        BY <1>5, <2>2, <4>1 DEF LeftInv, Returned, Tidy
      <4> QED  BY <1>5, <1>8, <4>2
    <3> QED  BY <3>1, <3>2
  <2> QED  BY <1>2, <1>5, <1>7, <2>1, <2>2, TtyKept DEF LeftInv
<1>10. \A e \in Devices \ {d} : Still(p, e) /\ tty'[e] = tty[e] /\ NamesGo(e)
  BY <1>2, <1>5, <1>6
<1> QED  BY <1>2, <1>5, <1>7, <1>9, <1>10, LeftStep

\* The calls that have nothing to do with what must be given back.
LEMMA LeftCalls ==
  ASSUME ChannelInv, LeftInv, NEW p \in Procs,
         OpenEnd(p) \/ MsgGet(p) \/ RmId(p) \/ Socket(p) \/ Listen(p) \/ Connect(p) \/ Close(p)
  PROVE  LeftInv'
<1>1. \E c2, r, w, l :
        \E s \in {"open", "msgget", "rmid", "socket", "listen", "connect", "close"} :
          /\ At(p, s) /\ call' = [call EXCEPT ![p] = c2] /\ c2.old = call[p].old
          /\ Passes(call[p], c2, Tail(call[p].todo), r, w, l) /\ (l = call[p].l \/ s = "socket")
          /\ name' = name \/ (s = "rmid" /\ \A d \in Devices : NamesGo(d)) \/
             (s = "msgget" /\ \E o : name' = [name EXCEPT ![<<Dev(p), Arg(p)>>] = o])
  <2>1. CASE OpenEnd(p) \/ MsgGet(p)
    <3> DEFINE x == <<Dev(p), Arg(p)>>
               role == Head(call[p].todo)[3]
    <3>1. PICK s \in {"open", "msgget"} : At(p, s)
      BY <2>1 DEF OpenEnd, MsgGet
    <3>2. \E o : /\ o = name[x] \/ (o = Fresh /\ Room)
                 /\ call' = [call EXCEPT ![p] = [Next1(call[p]) EXCEPT ![role] = o]]
                 /\ name' = name \/ (At(p, "msgget") /\ name' = [name EXCEPT ![x] = o])
      <4>1. CASE OpenEnd(p)
        <5> DEFINE o == name[x]
        <5>1. call' = [call EXCEPT ![p] = [Next1(call[p]) EXCEPT ![role] = o]] /\ name' = name
          BY <4>1, Zenon DEF OpenEnd
        <5> HIDE DEF role
        <5> QED  BY <5>1
      <4>2. CASE MsgGet(p)
        <5> DEFINE o == IF name[x] = 0 THEN Fresh ELSE name[x]
        <5>1. /\ call' = [call EXCEPT ![p] = [Next1(call[p]) EXCEPT ![role] = o]] /\ At(p, "msgget")
              /\ name' = [name EXCEPT ![x] = o] /\ (name[x] # 0 \/ Room)
          BY <4>2, Zenon DEF MsgGet
        <5>2. o = name[x] \/ (o = Fresh /\ Room)
          BY <5>1
        <5> HIDE DEF role, o
        <5> QED  BY <5>1, <5>2
      <4> QED  BY <2>1, <4>1, <4>2
    <3>3. PICK o : /\ o = name[x] \/ (o = Fresh /\ Room)
                   /\ call' = [call EXCEPT ![p] = [Next1(call[p]) EXCEPT ![role] = o]]
                   /\ name' = name \/ (At(p, "msgget") /\ name' = [name EXCEPT ![x] = o])
      BY <3>2
    <3>4. Dev(p) \in Devices /\ Called(call[p])
      BY <3>1, Acts
    <3>5. role \in {"r", "w"} /\ Arg(p) \in {0, 1}
      <4>1. DueFacts(use[Dev(p)].type, Dev(p), call[p], Own(fds[p], Dev(p)), s) /\ Arg(p) = DueArg(call[p])
        BY <3>1, Acts
      <4>2. role = DueRole(call[p])
        BY DEF DueRole
      <4> HIDE DEF role
      <4> QED  BY <4>1, <4>2 DEF DueFacts, OwnEnd, OtherEnd
    <3>6. o \in Objects \cup {0}
      BY <3>3, <3>4, <3>5, RoomFresh DEF ChannelInv, KernelOK
    <3> DEFINE c2 == [Next1(call[p]) EXCEPT ![role] = o]
    <3>7. /\ \/ Passes(call[p], c2, Tail(call[p].todo), o, call[p].w, call[p].l)
             \/ Passes(call[p], c2, Tail(call[p].todo), call[p].r, o, call[p].l)
          /\ c2.old = call[p].old
      <4> HIDE DEF role
      <4>1. CASE role = "r"
        <5>1. c2 = [Next1(call[p]) EXCEPT !["r"] = o]
          BY <4>1, Zenon
        <5> HIDE DEF c2
        <5>2. Called(call[p])
          BY <3>4
        <5> QED  BY <3>6, <5>1, <5>2, CallPut, OldPut
      <4>2. CASE role = "w"
        <5>1. c2 = [Next1(call[p]) EXCEPT !["w"] = o]
          BY <4>2, Zenon
        <5> HIDE DEF c2
        <5>2. Called(call[p])
          BY <3>4
        <5> QED  BY <3>6, <5>1, <5>2, CallPut, OldPut
      <4> QED  BY <3>5, <4>1, <4>2
    <3>8. At(p, "msgget") => s = "msgget"
      BY <3>1 DEF At
    <3>9. call' = [call EXCEPT ![p] = c2]
      BY <3>3
    <3> HIDE DEF c2, role
    <3> QED  BY <3>1, <3>3, <3>7, <3>8, <3>9
  <2>2. CASE RmId(p) \/ Listen(p) \/ Close(p)
    <3> DEFINE c2 == Next1(call[p])
    <3>1. PICK s \in {"rmid", "listen", "close"} :
            At(p, s) /\ (s = "rmid" => RmId(p)) /\ (s # "rmid" => name' = name)
      BY <2>2 DEF RmId, Listen, Close
    <3>2. call' = [call EXCEPT ![p] = c2]
      BY <2>2 DEF RmId, Listen, Close, Advance
    <3>3. /\ Passes(call[p], c2, Tail(call[p].todo), call[p].r, call[p].w, call[p].l)
          /\ c2.old = call[p].old
      BY <3>1, Acts, CallPut, OldPut
    <3> HIDE DEF c2
    <3>4. s = "rmid" => \A d \in Devices : NamesGo(d)
      BY <3>1 DEF RmId, NamesGo, ChannelInv, KernelOK
    <3> QED  BY <3>1, <3>2, <3>3, <3>4
  <2>3. CASE Socket(p)
    <3> DEFINE c2 == [Next1(call[p]) EXCEPT !.l = Fresh]
    <3>1. At(p, "socket") /\ Room /\ call' = [call EXCEPT ![p] = c2] /\ name' = name
      BY <2>3, Zenon DEF Socket
    <3>2. Passes(call[p], c2, Tail(call[p].todo), call[p].r, call[p].w, Fresh) /\ c2.old = call[p].old
      BY <3>1, Acts, RoomFresh, CallPut, OldPut
    <3> HIDE DEF c2
    <3> QED  BY <3>1, <3>2
  <2>4. CASE Connect(p)
    <3> DEFINE o == name[<<Dev(p), 0>>]
               c2 == [Next1(call[p]) EXCEPT !.w = o]
    <3>1. At(p, "connect") /\ call' = [call EXCEPT ![p] = c2] /\ name' = name
      BY <2>4, Zenon DEF Connect
    <3>2. Dev(p) \in Devices /\ Called(call[p])
      BY <3>1, Acts
    <3>3. o \in Objects \cup {0}
      BY <3>2 DEF ChannelInv, KernelOK
    <3> HIDE DEF o
    <3>4. Passes(call[p], c2, Tail(call[p].todo), call[p].r, o, call[p].l) /\ c2.old = call[p].old
      BY <3>2, <3>3, CallPut, OldPut
    <3> HIDE DEF c2
    <3> QED  BY <3>1, <3>4
  <2> QED  BY <2>1, <2>2, <2>3, <2>4
<1>2. /\ UNCHANGED use /\ UNCHANGED tty /\ UNCHANGED manager /\ UNCHANGED faults
      /\ UNCHANGED fds \/ \E F2 : fds' = [fds EXCEPT ![p] = F2]
  BY Zenon DEF OpenEnd, MsgGet, RmId, Socket, Listen, Connect, Close
<1>3. PICK c2, r, w, l :
        \E s \in {"open", "msgget", "rmid", "socket", "listen", "connect", "close"} :
          /\ At(p, s) /\ call' = [call EXCEPT ![p] = c2] /\ c2.old = call[p].old
          /\ Passes(call[p], c2, Tail(call[p].todo), r, w, l) /\ (l = call[p].l \/ s = "socket")
          /\ name' = name \/ (s = "rmid" /\ \A d \in Devices : NamesGo(d)) \/
             (s = "msgget" /\ \E o : name' = [name EXCEPT ![<<Dev(p), Arg(p)>>] = o])
  BY <1>1
<1>4. PICK s \in {"open", "msgget", "rmid", "socket", "listen", "connect", "close"} :
          /\ At(p, s) /\ call' = [call EXCEPT ![p] = c2] /\ c2.old = call[p].old
          /\ Passes(call[p], c2, Tail(call[p].todo), r, w, l) /\ (l = call[p].l \/ s = "socket")
          /\ name' = name \/ (s = "rmid" /\ \A d \in Devices : NamesGo(d)) \/
             (s = "msgget" /\ \E o : name' = [name EXCEPT ![<<Dev(p), Arg(p)>>] = o])
  BY <1>3
<1>5. Others(p) /\ call'[p] = c2 /\ \A d \in Devices : Still(p, d)
  <2>1. s # "access"
    OBVIOUS
  <2> QED  BY <1>2, <1>4, <2>1, HasSame
<1>6. \A d \in Devices : NamesGo(d) \/ use[d].type = "msgq"
  <2> TAKE d \in Devices
  <2>1. CASE name' = name
    BY <2>1 DEF NamesGo
  <2>2. CASE s = "msgget" /\ \E o : name' = [name EXCEPT ![<<Dev(p), Arg(p)>>] = o]
    <3>1. DueFacts(use[Dev(p)].type, Dev(p), call[p], Own(fds[p], Dev(p)), "msgget")
      BY <1>4, <2>2, Acts
    <3>2. use[Dev(p)].type = "msgq"
      BY <3>1 DEF DueFacts
    <3> QED  BY <2>2, <3>2 DEF NamesGo, ChannelInv, KernelOK
  <2> QED  BY <1>4, <2>1, <2>2
<1>7. NoFaults /\ Plain'
  BY <1>2, <1>4, <1>5, FaultSets, PlainStep DEF ChannelInv
<1> QED  BY <1>2, <1>5, <1>6, <1>7, LeftQuiet

LEMMA LockFirst ==
  ASSUME NEW q, NEW d
  PROVE  Has(q, d, "raw") \/ Has(q, d, "lines") => Has(q, d, "lock")
BY DEF Has, Holds, Owns, Took, Returns

LEMMA LeftAccess == ASSUME ChannelInv, LeftInv, NEW p \in Procs, Access(p) PROVE LeftInv'
<1> DEFINE t == (IF name[<<Dev(p), 0>>] = 0 THEN StartServer ELSE <<>>) \o Tail(call[p].todo)
           c2 == [call[p] EXCEPT !.todo = t]
<1>1. /\ At(p, "access") /\ UNCHANGED use /\ UNCHANGED kernel /\ UNCHANGED manager
      /\ UNCHANGED faults /\ call' = [call EXCEPT ![p] = c2]
  BY Zenon DEF Access
<1> HIDE DEF t
<1>2. Passes(call[p], c2, t, call[p].r, call[p].w, call[p].l) /\ c2.old = call[p].old
  <2>1. Called(call[p])
    BY <1>1, Acts
  <2>2. Passes(call[p], c2, t, call[p].r, call[p].w, call[p].l)
    BY <2>1, CallPut
  <2>3. c2.old = call[p].old
    BY <2>1, OldPut
  <2> QED  BY <2>2, <2>3
<1> HIDE DEF c2
<1>3. name' = name /\ tty' = tty /\ fds' = fds /\ map' = map
  BY <1>1 DEF kernel, manager
<1>4. Others(p) /\ call'[p] = c2
  BY <1>1, <1>3, OnlyCall
<1>5. NoFaults /\ Plain'
  BY <1>1, <1>2, <1>4, FaultSets, PlainStep DEF ChannelInv
<1>6. call[p].op = "open" /\ use[Dev(p)].type = "bus" /\ call[p].l = 0
  <2>1. DueFacts(use[Dev(p)].type, Dev(p), call[p], Own(fds[p], Dev(p)), "access")
    BY <1>1, Acts
  <2> QED  BY <2>1 DEF DueFacts
<1>7. c2.op = "open" /\ c2.dev = call[p].dev /\ c2.l = 0
  BY <1>2, <1>6 DEF Passes
<1>8. ASSUME NEW d \in Devices PROVE Still(p, d)
  <2>1. CASE d = call[p].dev
    BY <1>3, <1>4, <1>6, <1>7, <2>1 DEF Still, Has, Holds, Took, Dev
  <2>2. CASE d # call[p].dev
    BY <1>3, <1>4, <1>7, <2>2 DEF Still, Has, Holds
  <2> QED  BY <2>1, <2>2
<1> QED  BY <1>1, <1>3, <1>4, <1>5, <1>8, LeftQuiet DEF NamesGo

\* serial_open sets a terminal up once it has the lock, and saves what was there before.
LEMMA LeftTtyStep == ASSUME ChannelInv, LeftInv, NEW p \in Procs, TtyStep(p) PROVE LeftInv'
<1>1. PICK d : d = Dev(p)
  OBVIOUS
<1>2. /\ UNCHANGED use /\ UNCHANGED name /\ UNCHANGED manager /\ UNCHANGED faults
      /\ UNCHANGED fds \/ \E F2 : fds' = [fds EXCEPT ![p] = F2]
  BY DEF TtyStep
<1>3. NoFaults /\ \A e \in Devices : NamesGo(e)
  BY <1>2, FaultSets DEF ChannelInv, NamesGo
<1>4. CASE At(p, "ttyopen") /\ UNCHANGED tty /\ Advance(p)
  <2> DEFINE c2 == Next1(call[p])
  <2>1. call' = [call EXCEPT ![p] = c2]
    BY <1>4 DEF Advance
  <2>2. Passes(call[p], c2, Tail(call[p].todo), call[p].r, call[p].w, call[p].l) /\ c2.old = call[p].old
    BY <1>4, Acts, CallPut, OldPut
  <2> HIDE DEF c2
  <2>3. Others(p) /\ call'[p] = c2 /\ \A e \in Devices : Still(p, e)
    <3>1. PICK s : s = "ttyopen" /\ At(p, s) /\ s # "access"
      BY <1>4
    <3> QED  BY <1>2, <2>1, <2>2, <3>1, HasSame
  <2>4. Plain'
    BY <1>2, <1>3, <2>2, <2>3, PlainStep
  <2> QED  BY <1>2, <1>3, <1>4, <2>3, <2>4, LeftQuiet
<1>5. ASSUME NEW s \in {"flock", "getattr", "setattr", "lines"}, At(p, s), UNCHANGED fds,
             NEW c2, call' = [call EXCEPT ![p] = c2],
             Passes(call[p], c2, Tail(call[p].todo), call[p].r, call[p].w, call[p].l)
      PROVE  /\ Others(p) /\ call'[p] = c2 /\ d \in Devices /\ \A e \in Devices \ {d} : Still(p, e)
             /\ \A q \in Procs \ {p} : \A x : Has(q, d, x)' <=> Has(q, d, x)
             /\ \A x : Has(p, d, x)' <=> (Has(p, d, x) \/ Gets(s, call[p], x))
             /\ s # "flock" => tty[d].lock = p
             /\ s \in {"flock", "getattr"} => ~Has(p, d, "raw")
  <2>1. s # "access"
    OBVIOUS
  <2>2. /\ Others(p) /\ call'[p] = c2 /\ d \in Devices /\ \A e \in Devices \ {d} : Still(p, e)
        /\ \A q \in Procs \ {p} : \A x : Has(q, d, x)' <=> Has(q, d, x)
        /\ \A x : Has(p, d, x)' <=> (Has(p, d, x) \/ Gets(s, call[p], x)) /\ ~Gives(s, call[p], x)
        /\ s \in {"getattr", "setattr", "lines"} => Has(p, d, "lock")
        /\ s \in {"ttyopen", "flock", "getattr"} => ~Has(p, d, "raw")
    BY <1>1, <1>2, <1>5, <2>1, HasCall
  <2>3. \A x : ~Gives(s, call[p], x)
    BY DEF Gives
  <2>4. s # "flock" => tty[d].lock = p
    BY <2>2 DEF LeftInv, Returned, Locked
  <2> QED  BY <2>2, <2>3, <2>4
<1>6. ASSUME NEW s \in {"flock", "setattr", "lines"}, At(p, s), UNCHANGED fds, Advance(p),
             NEW t \in Terminal, tty' = [tty EXCEPT ![d] = t],
             s = "flock" => tty[d].lock = Null /\ t.lock = p,
             s # "flock" => t.lock = tty[d].lock,
             s = "setattr" => t.raw = TRUE, s # "setattr" => t.raw = tty[d].raw,
             s # "lines" => t.lines = tty[d].lines
      PROVE  LeftInv'
  <2> DEFINE c2 == Next1(call[p])
  <2>1. call' = [call EXCEPT ![p] = c2]
    BY <1>6 DEF Advance
  <2>2. Passes(call[p], c2, Tail(call[p].todo), call[p].r, call[p].w, call[p].l) /\ c2.old = call[p].old
    BY <1>6, Acts, CallPut, OldPut
  <2> HIDE DEF c2
  <2>3. /\ Others(p) /\ call'[p] = c2 /\ d \in Devices /\ \A e \in Devices \ {d} : Still(p, e)
        /\ \A q \in Procs \ {p} : \A x : Has(q, d, x)' <=> Has(q, d, x)
        /\ \A x : Has(p, d, x)' <=> (Has(p, d, x) \/ Gets(s, call[p], x))
        /\ s # "flock" => tty[d].lock = p
        /\ s \in {"flock", "getattr"} => ~Has(p, d, "raw")
    BY <1>5, <1>6, <2>1, <2>2
  <2>4. Plain'
    BY <1>2, <1>3, <2>2, <2>3, PlainStep
  <2>5. tty'[d] = t /\ \A e \in Devices \ {d} : tty'[e] = tty[e]
    BY <1>6, <2>3 DEF ChannelInv, KernelOK
  <2>6. /\ Gets(s, call[p], "lock") <=> s = "flock"
        /\ Gets(s, call[p], "raw") <=> s = "setattr"
        /\ Gets(s, call[p], "lines") <=> s = "lines"
        /\ ~Gets(s, call[p], "end0") /\ ~Gets(s, call[p], "end1")
    BY DEF Gets
  <2>7. Returned(d)
    BY <2>3 DEF LeftInv
  <2>8. p # Null
    BY NullAssumption
  <2>9. Locked(d)'
    <3>1. ASSUME NEW q \in Procs PROVE Has(q, d, "lock")' <=> tty'[d].lock = q
      BY <1>6, <2>3, <2>5, <2>6, <2>7, <2>8, NullAssumption DEF Returned, Locked
    <3>2. ASSUME NEW q \in Procs, Has(q, d, "raw")' PROVE tty'[d].raw
      BY <1>6, <2>3, <2>5, <2>6, <2>7, <3>2 DEF Returned, Locked
    <3> QED  BY <3>1, <3>2 DEF Locked
  <2>10. Returned(d)'
    <3>1. \A q \in Procs : \A x \in {"end0", "end1"} : Has(q, d, x)' <=> Has(q, d, x)
      BY <2>3, <2>6
    <3>2. ASSUME faults = 0, tty'[d].raw PROVE \E q \in Procs : Has(q, d, "raw")'
      <4>1. CASE s = "setattr"
        BY <2>3, <2>6, <4>1
      <4>2. CASE s # "setattr"
        <5>1. PICK q \in Procs : Has(q, d, "raw")
          BY <1>6, <2>5, <2>7, <3>2, <4>2 DEF Returned, Tidy
        <5> QED  BY <2>3, <5>1
      <4> QED  BY <4>1, <4>2
    <3>3. ASSUME faults = 0, tty'[d].lines # {} PROVE \E q \in Procs : Has(q, d, "lines")'
      <4>1. CASE s = "lines"
        BY <2>3, <2>6, <4>1
      <4>2. CASE s # "lines"
        <5>1. PICK q \in Procs : Has(q, d, "lines")
          BY <1>6, <2>5, <2>7, <3>3, <4>2 DEF Returned, Tidy
        <5> QED  BY <2>3, <5>1
      <4> QED  BY <4>1, <4>2
    <3> QED  BY <1>2, <1>3, <2>3, <2>7, <2>9, <3>1, <3>2, <3>3, NamesStay
  <2> QED  BY <1>2, <1>3, <2>3, <2>4, <2>5, <2>10, LeftStep
<1>7. CASE At(p, "flock") /\ tty[d].lock = Null /\ tty' = [tty EXCEPT ![d].lock = p] /\ UNCHANGED fds /\ Advance(p)
  <2> DEFINE t == [tty[d] EXCEPT !.lock = p]
  <2>1. tty[d] \in Terminal
    BY <1>1, <1>7, Acts DEF ChannelInv, KernelOK, Terminal
  <2>2. /\ tty' = [tty EXCEPT ![d] = t] /\ t \in Terminal
        /\ t.lock = p /\ t.raw = tty[d].raw /\ t.lines = tty[d].lines
    BY <1>7, <2>1 DEF Terminal
  <2> HIDE DEF t
  <2>3. PICK s \in {"flock", "setattr", "lines"} : s = "flock"
    OBVIOUS
  <2> QED  BY <1>6, <1>7, <2>2, <2>3
<1>8. CASE At(p, "setattr") /\ tty' = [tty EXCEPT ![d].raw = TRUE] /\ UNCHANGED fds /\ Advance(p)
  <2> DEFINE t == [tty[d] EXCEPT !.raw = TRUE]
  <2>1. tty[d] \in Terminal
    BY <1>1, <1>8, Acts DEF ChannelInv, KernelOK, Terminal
  <2>2. /\ tty' = [tty EXCEPT ![d] = t] /\ t \in Terminal
        /\ t.lock = tty[d].lock /\ t.raw = TRUE /\ t.lines = tty[d].lines
    BY <1>8, <2>1 DEF Terminal
  <2> HIDE DEF t
  <2>3. PICK s \in {"flock", "setattr", "lines"} : s = "setattr"
    OBVIOUS
  <2> QED  BY <1>6, <1>8, <2>2, <2>3
<1>9. CASE At(p, "lines") /\ tty' = [tty EXCEPT ![d].lines = {"dtr", "rts"}] /\ UNCHANGED fds /\ Advance(p)
  <2> DEFINE t == [tty[d] EXCEPT !.lines = {"dtr", "rts"}]
  <2>1. tty[d] \in Terminal
    BY <1>1, <1>9, Acts DEF ChannelInv, KernelOK, Terminal
  <2>2. /\ tty' = [tty EXCEPT ![d] = t] /\ t \in Terminal
        /\ t.lock = tty[d].lock /\ t.raw = tty[d].raw
    BY <1>9, <2>1 DEF Terminal
  <2> HIDE DEF t
  <2>3. PICK s \in {"flock", "setattr", "lines"} : s = "lines"
    OBVIOUS
  <2> QED  BY <1>6, <1>9, <2>2, <2>3
<1>10. CASE /\ At(p, "getattr") /\ call' = [call EXCEPT ![p] = [Next1(@) EXCEPT !.old = tty[d].raw]]
            /\ UNCHANGED <<fds, tty>>
  <2> DEFINE b == tty[d].raw
             c2 == [Next1(call[p]) EXCEPT !.old = b]
  <2>1. d \in Devices /\ b \in BOOLEAN
    BY <1>1, <1>10, Acts DEF ChannelInv, KernelOK
  <2>2. call' = [call EXCEPT ![p] = c2]
    BY <1>10, Zenon
  <2> HIDE DEF b
  <2>3. Passes(call[p], c2, Tail(call[p].todo), call[p].r, call[p].w, call[p].l) /\ c2.old = b
    <3>1. Called(call[p])
      BY <1>10, Acts
    <3>2. Passes(call[p], c2, Tail(call[p].todo), call[p].r, call[p].w, call[p].l)
      BY <2>1, <3>1, CallPut
    <3>3. c2.old = b
      BY <3>1, OldPut
    <3> QED  BY <3>2, <3>3
  <2> HIDE DEF c2
  <2>4. PICK s \in {"flock", "getattr", "setattr", "lines"} : s = "getattr"
    OBVIOUS
  <2>5. /\ Others(p) /\ call'[p] = c2 /\ \A e \in Devices \ {d} : Still(p, e)
        /\ \A q \in Procs \ {p} : \A x : Has(q, d, x)' <=> Has(q, d, x)
        /\ \A x : Has(p, d, x)' <=> (Has(p, d, x) \/ Gets(s, call[p], x))
        /\ tty[d].lock = p /\ ~Has(p, d, "raw")
    BY <1>5, <1>10, <2>2, <2>3, <2>4
  <2>6. Still(p, d)
    <3>1. \A x : ~Gets(s, call[p], x)
      BY <2>4 DEF Gets
    <3>2. map' = map /\ use' = use
      BY <1>2 DEF manager
    <3> QED  BY <2>5, <3>1, <3>2 DEF Still, Has
  <2>7. faults = 0 => ~b
    <3> SUFFICES ASSUME faults = 0, b PROVE FALSE
      OBVIOUS
    <3>1. Returned(d)
      BY <2>1 DEF LeftInv
    <3>2. PICK q \in Procs : Has(q, d, "raw")
      BY <3>1 DEF Returned, Tidy, b
    <3>3. tty[d].lock = q
      BY <3>1, <3>2, LockFirst DEF Returned, Locked
    <3> QED  BY <2>5, <3>2, <3>3
  <2>8. Plain'
    <3>1. map' = map
      BY <1>2 DEF manager
    <3> QED  BY <1>2, <1>3, <2>3, <2>5, <2>7, <3>1, PlainNext DEF LeftInv, Plain
  <2> QED  BY <1>2, <1>3, <1>10, <2>5, <2>6, <2>8, LeftQuiet
<1> QED  BY <1>1, <1>4, <1>7, <1>8, <1>9, <1>10 DEF TtyStep

\* What a process that has nothing to do with d any more has of it.
LEMMA HasGone ==
  ASSUME ChannelInv, NEW p \in Procs, Others(p), UNCHANGED use, UNCHANGED map, call'[p] = Idle,
         NEW d \in Devices, d = Dev(p), d \notin DOMAIN map[p].val
  PROVE  /\ \A x : ~Has(p, d, x)'
         /\ \A e \in Devices \ {d} : Still(p, e)
         /\ \A q \in Procs \ {p} : \A x : Has(q, d, x)' <=> Has(q, d, x)
<1>1. Idle.dev = Null /\ Idle.op = "idle" /\ \A e \in Devices : e # Null
  BY NullAssumption DEF Idle
<1>2. map' = map /\ use' = use
  OBVIOUS
<1>3. \A x : ~Has(p, d, x)'
  BY <1>1, <1>2 DEF Has, Holds
<1>4. ASSUME NEW e \in Devices \ {d} PROVE Still(p, e)
  BY <1>1, <1>2, <1>4 DEF Still, Has, Holds, Dev
<1> QED  BY <1>3, <1>4, OthersHold

\* serial_close gives all of it back.
LEMMA LeftTtyClose == ASSUME ChannelInv, LeftInv, NEW p \in Procs, TtyClose(p) PROVE LeftInv'
<1>1. PICK d : d = Dev(p)
  OBVIOUS
<1> DEFINE c2 == Next1(call[p])
           b == Channel(p, d).old
<1>2. /\ At(p, "ttyclose") /\ UNCHANGED use /\ UNCHANGED name /\ UNCHANGED manager
      /\ \E F2 : fds' = [fds EXCEPT ![p] = F2]
      /\ call' = [call EXCEPT ![p] = c2]
      /\ \/ tty' = [tty EXCEPT ![d] = [lock |-> Null, raw |-> b, lines |-> {}]] /\ UNCHANGED faults
         \/ tty' = [tty EXCEPT ![d] = [tty[d] EXCEPT !.lock = Null, !.raw = b]] /\ Fault
  BY <1>1, Zenon DEF TtyClose, Advance
<1>3. Passes(call[p], c2, Tail(call[p].todo), call[p].r, call[p].w, call[p].l) /\ c2.old = call[p].old
  BY <1>2, Acts, CallPut, OldPut
<1> HIDE DEF c2
<1>4. Others(p) /\ call'[p] = c2 /\ map' = map
  <2>1. UNCHANGED fds \/ \E F2 : fds' = [fds EXCEPT ![p] = F2]
    BY <1>2
  <2> QED  BY <1>2, <2>1, OnlyCall DEF manager
<1>5. /\ d \in Devices /\ \A e \in Devices \ {d} : Still(p, e)
      /\ \A q \in Procs \ {p} : \A x : Has(q, d, x)' <=> Has(q, d, x)
      /\ \A x : ~Has(p, d, x)'
  <2>1. PICK s : s = "ttyclose" /\ At(p, s) /\ s # "access"
    BY <1>2
  <2>2. PICK c3, r, w, l : /\ c3 = c2 /\ call'[p] = c3
                           /\ Passes(call[p], c3, Tail(call[p].todo), r, w, l)
                           /\ l = call[p].l \/ s = "socket"
    BY <1>3, <1>4
  <2>3. UNCHANGED map /\ UNCHANGED use /\ Others(p) /\ d = Dev(p)
    BY <1>1, <1>2, <1>4
  <2>4. /\ d \in Devices /\ \A e \in Devices \ {d} : Still(p, e)
        /\ \A q \in Procs \ {p} : \A x : Has(q, d, x)' <=> Has(q, d, x)
        /\ \A x : Has(p, d, x)' <=> (Has(p, d, x) \/ Gets(s, call[p], x)) /\ ~Gives(s, call[p], x)
    BY <2>1, <2>2, <2>3, HasStep, ZenonT(40)
  <2>5. \A x : Gives(s, call[p], x)
    BY <2>1 DEF Gives
  <2> QED  BY <2>4, <2>5
<1>6. call[p].op = "close" /\ call[p].dev = d /\ use[d].type = "uart" /\ call[p].todo = TtyShut
      /\ d \in DOMAIN map[p].val
  <2>1. /\ DueFacts(use[d].type, d, call[p], Own(fds[p], d), "ttyclose")
        /\ InCall(use[d].type, d, call[p], Own(fds[p], d), map[p]) /\ call[p].todo # <<>>
    BY <1>1, <1>2, Acts DEF Due
  <2>2. call[p].op = "close" /\ use[d].type = "uart"
    BY <2>1 DEF DueFacts
  <2> QED  BY <1>1, <2>1, <2>2 DEF InCall, Closing, Dev
<1>7. Has(p, d, "lock")
  BY <1>6 DEF Has, Holds, Returns
<1>8. NoFaults /\ Plain'
  <2>1. NoFaults
    BY <1>2, FaultSets DEF ChannelInv
  <2> QED  BY <1>2, <1>3, <1>4, <2>1, PlainStep
<1>9. Returned(d)
  BY <1>5 DEF LeftInv
<1>10. tty[d].lock = p /\ \A q \in Procs \ {p} : ~Has(q, d, "lock") /\ ~Has(q, d, "raw") /\ ~Has(q, d, "lines")
  BY <1>7, <1>9, LockFirst DEF Returned, Locked
<1>11. tty[d] \in Terminal /\ tty \in [Devices -> Terminal]
  BY <1>5 DEF ChannelInv, KernelOK, Terminal
<1> HIDE DEF b
<1>12. /\ tty'[d].lock = Null /\ \A e \in Devices \ {d} : tty'[e] = tty[e]
       /\ faults' = 0 => tty'[d].raw = b /\ tty'[d].lines = {}
  <2>1. CASE tty' = [tty EXCEPT ![d] = [lock |-> Null, raw |-> b, lines |-> {}]]
    BY <1>5, <1>11, <2>1
  <2>2. CASE tty' = [tty EXCEPT ![d] = [tty[d] EXCEPT !.lock = Null, !.raw = b]] /\ Fault
    <3>1. faults' # 0
      BY <2>2, FaultSets DEF ChannelInv
    <3>2. [tty[d] EXCEPT !.lock = Null, !.raw = b].lock = Null
      BY <1>11 DEF Terminal
    <3> QED  BY <1>5, <1>11, <2>2, <3>1, <3>2
  <2> QED  BY <1>2, <2>1, <2>2
<1>13. Returned(d)'
  <2>1. \A q \in Procs : ~Has(q, d, "lock")' /\ ~Has(q, d, "raw")' /\ ~Has(q, d, "lines")'
    BY <1>5, <1>10
  <2>2. Locked(d)'
    BY <1>12, <2>1, NullAssumption DEF Locked
  <2>3. faults' = 0 => Tidy(d)'
    <3> SUFFICES ASSUME faults' = 0 PROVE Tidy(d)'
      OBVIOUS
    <3>1. ~tty'[d].raw /\ tty'[d].lines = {}
      <4>1. faults = 0
        BY <1>8 DEF NoFaults
      <4>2. ~map[p].val[d].old
        BY <1>6, <4>1 DEF LeftInv, Plain
      <4> QED  BY <1>12, <4>2 DEF b, Channel
    <3>2. ASSUME NEW e \in {0, 1}, name'[<<d, e>>] # 0 PROVE \E q \in Procs : Has(q, d, EndFile(e))'
      <4>1. name[<<d, e>>] # 0 /\ faults = 0 /\ use[d].type # "msgq"
        BY <1>2, <1>6, <1>8, <3>2 DEF NoFaults
      <4>2. PICK q \in Procs : Has(q, d, EndFile(e))
        BY <1>9, <4>1 DEF Returned, Tidy
      <4>3. ~Has(p, d, EndFile(e))
        BY <1>6, EndsDiffer DEF Has, Holds, Returns, Owns
      <4> QED  BY <1>5, <4>2, <4>3
    <3> QED  BY <3>1, <3>2 DEF Tidy
  <2> QED  BY <2>2, <2>3 DEF Returned
<1>14. \A e \in Devices \ {d} : Still(p, e) /\ tty'[e] = tty[e] /\ NamesGo(e)
  BY <1>2, <1>5, <1>12 DEF NamesGo
<1> QED  BY <1>2, <1>4, <1>8, <1>13, <1>14, LeftStep

\* The lines of an open channel.
LEMMA LeftAssertLine ==
  ASSUME ChannelInv, LeftInv, NEW p \in Procs, NEW d \in Devices, NEW line \in {"dtr", "rts"},
         NEW b \in BOOLEAN, AssertLine(p, d, line, b)
  PROVE  LeftInv'
<1>1. /\ UNCHANGED use /\ UNCHANGED name /\ UNCHANGED call /\ UNCHANGED map
      /\ Fault \/ UNCHANGED faults
      /\ \E s : tty' = [tty EXCEPT ![d].lines = s]
      /\ ~Busy(p) /\ use[d].type = "uart" /\ d \in DOMAIN map[p].val
  BY DEF AssertLine, Type, IsOpen, manager
<1>2. NoFaults
  BY <1>1, FaultSets DEF ChannelInv
<1>3. \A q, e, x : Has(q, e, x)' <=> Has(q, e, x)
  BY <1>1 DEF Has
<1>4. Has(p, d, "lines")
  <2>1. call[p] = Idle
    BY <1>1 DEF ChannelInv, Proc, ProcInv, Busy
  <2>2. call[p].dev # d
    BY <2>1, NullAssumption DEF Idle
  <2> QED  BY <1>1, <2>2 DEF Has, Holds, Owns
<1>5. /\ tty'[d].lock = tty[d].lock /\ tty'[d].raw = tty[d].raw
      /\ \A e \in Devices \ {d} : tty'[e] = tty[e]
  BY <1>1 DEF ChannelInv, KernelOK
<1>6. \A e \in Devices : NamesGo(e)
  BY <1>1 DEF NamesGo
<1>7. Returned(d)'
  <2>1. Returned(d)
    BY DEF LeftInv
  <2>2. Locked(d)'
    BY <1>3, <1>5, <2>1 DEF Returned, Locked
  <2> QED  BY <1>1, <1>2, <1>3, <1>4, <1>5, <1>6, <2>1, <2>2, NamesStay DEF Returned, Tidy
<1>8. ASSUME NEW e \in Devices \ {d} PROVE Returned(e)'
  BY <1>1, <1>2, <1>3, <1>5, <1>8 DEF LeftInv, Returned, Locked, Tidy, NoFaults
<1>9. Plain'
  BY <1>1, <1>2 DEF LeftInv, Plain, NoFaults
<1> QED  BY <1>7, <1>8, <1>9 DEF LeftInv

\* Steps that change nothing of it.
LEMMA LeftStill ==
  ASSUME LeftInv, UNCHANGED use, UNCHANGED name, UNCHANGED tty, UNCHANGED call, UNCHANGED map,
         UNCHANGED faults
  PROVE  LeftInv'
<1>1. \A q, e, x : Has(q, e, x)' <=> Has(q, e, x)
  BY DEF Has
<1>2. \A d \in Devices : Returned(d)'
  BY <1>1 DEF LeftInv, Returned, Locked, Tidy
<1>3. Plain'
  BY DEF LeftInv, Plain
<1> QED  BY <1>2, <1>3 DEF LeftInv

\* A process that dies leaves its names and the settings, but not its locks.
LEMMA LeftDie ==
  ASSUME ChannelInv, LeftInv, NEW p \in Procs, Die(p), Fault \/ Upset
  PROVE  LeftInv'
<1>1. /\ call'[p] = Idle /\ map'[p] = H!EmptyMap /\ UNCHANGED use /\ Others(p)
      /\ tty' = [d \in Devices |-> IF tty[d].lock = p THEN [tty[d] EXCEPT !.lock = Null] ELSE tty[d]]
  BY DEF Die, ChannelInv, Sized, Others
<1>2. faults' # 0
  BY FaultSets DEF ChannelInv
<1>3. ASSUME NEW d \in Devices PROVE Returned(d)'
  <2>1. \A x : ~Has(p, d, x)'
    <3>1. Idle.dev = Null /\ Idle.op = "idle" /\ d # Null
      BY NullAssumption DEF Idle
    <3> QED  BY <1>1, <3>1, ManagedEmpty DEF Has, Holds
  <2>2. \A q \in Procs \ {p} : \A x : Has(q, d, x)' <=> Has(q, d, x)
    BY <1>1, OthersHold
  <2>3. tty'[d].lock = (IF tty[d].lock = p THEN Null ELSE tty[d].lock) /\ tty'[d].raw = tty[d].raw
    <3>1. tty[d] \in Terminal
      BY DEF ChannelInv, KernelOK, Terminal
    <3>2. [tty[d] EXCEPT !.lock = Null].lock = Null /\ [tty[d] EXCEPT !.lock = Null].raw = tty[d].raw
      BY <3>1 DEF Terminal
    <3> QED  BY <1>1, <3>2
  <2>4. Locked(d)
    BY DEF LeftInv, Returned
  <2>5. Locked(d)'
    BY <2>1, <2>2, <2>3, <2>4, NullAssumption DEF Locked
  <2> QED  BY <1>2, <2>5 DEF Returned
<1>4. Plain'
  BY <1>2 DEF Plain
<1> QED  BY <1>3, <1>4 DEF LeftInv

LEMMA LeftEnds == ASSUME ChannelInv, LeftInv, NEW p \in Procs, StartFails(p) \/ Crash(p) PROVE LeftInv'
BY LeftDie DEF StartFails, Crash

LEMMA LeftMessage ==
  ASSUME ChannelInv, LeftInv, NEW p \in Procs, NEW d \in Devices, Send(p, d) \/ Recv(p, d)
  PROVE  LeftInv'
<1>1. CASE Upset /\ Die(p)
  BY <1>1, LeftDie
<1>2. CASE UNCHANGED <<use, name, tty, call, manager, faults>>
  BY <1>2, LeftStill DEF manager
<1> QED  BY <1>1, <1>2 DEF Send, Recv

-----------------------------------------------------------------------------
(* The error paths *)

\* A setup gives up: device d is none of p's any more.
LEMMA LeftGivesUp ==
  ASSUME ChannelInv, LeftInv, NEW p \in Procs, NEW steps, Fails(p, steps), GiveUp(p),
         UNCHANGED fds \/ \E F2 : fds' = [fds EXCEPT ![p] = F2], NEW d, d = Dev(p)
  PROVE  /\ Others(p) /\ UNCHANGED use /\ UNCHANGED map /\ NoFaults /\ Plain'
         /\ d \in Devices /\ call[p].op = "open" /\ call[p].dev = d
         /\ \A x : ~Has(p, d, x)'
         /\ \A e \in Devices \ {d} : Still(p, e)
         /\ \A q \in Procs \ {p} : \A x : Has(q, d, x)' <=> Has(q, d, x)
<1>1. call' = [call EXCEPT ![p] = Idle] /\ UNCHANGED use /\ UNCHANGED manager
  BY DEF GiveUp
<1>2. Others(p) /\ call'[p] = Idle /\ map' = map
  BY <1>1, OnlyCall DEF manager
<1>3. PICK s \in steps : At(p, s)
  BY DEF Fails
<1>4. d = Dev(p)
  OBVIOUS
<1>5. d \in Devices /\ call[p].op = "open" /\ d \notin DOMAIN map[p].val
  <2>1. InCall(use[d].type, d, call[p], Own(fds[p], d), map[p]) /\ d \in Devices
    BY <1>3, <1>4, Acts
  <2>2. call[p].op = "open"
    BY DEF Fails
  <2> QED  BY <2>1, <2>2 DEF InCall
<1>6. /\ \A x : ~Has(p, d, x)'
      /\ \A e \in Devices \ {d} : Still(p, e)
      /\ \A q \in Procs \ {p} : \A x : Has(q, d, x)' <=> Has(q, d, x)
  BY <1>1, <1>2, <1>4, <1>5, HasGone
<1>7. NoFaults
  BY FaultSets DEF Fails, ChannelInv
<1>8. Plain'
  <2>1. Idle.old = FALSE
    BY DEF Idle
  <2> QED  BY <1>1, <1>2, <1>7, <2>1, PlainNext DEF LeftInv, Plain
<1> QED  BY <1>1, <1>2, <1>4, <1>5, <1>6, <1>7, <1>8 DEF Dev

\* What was held of d is now held by others, or was p's and its name is gone.
LEMMA LeftNames ==
  ASSUME ChannelInv, LeftInv, NEW p \in Procs, Others(p), UNCHANGED use, NoFaults, Plain', UNCHANGED tty,
         \A e \in Devices : NamesGo(e), NEW d \in Devices,
         \A x : ~Has(p, d, x)', \A e \in Devices \ {d} : Still(p, e),
         \A q \in Procs \ {p} : \A x : Has(q, d, x)' <=> Has(q, d, x),
         \A x \in {"lock", "raw", "lines"} : ~Has(p, d, x),
         \A e \in {0, 1} : Has(p, d, EndFile(e)) => name'[<<d, e>>] = 0
  PROVE  LeftInv'
<1>1. \A q \in Procs : \A x \in {"lock", "raw", "lines"} : Has(q, d, x)' <=> Has(q, d, x)
  OBVIOUS
<1>2. ASSUME faults = 0, use[d].type # "msgq", NEW e \in {0, 1}, name'[<<d, e>>] # 0
      PROVE  \E q \in Procs : Has(q, d, EndFile(e))'
  <2>1. name[<<d, e>>] # 0
    BY <1>2 DEF NamesGo
  <2>2. PICK q \in Procs : Has(q, d, EndFile(e))
    BY <1>2, <2>1 DEF LeftInv, Returned, Tidy
  <2> QED  BY <1>2, <2>2
<1>3. Returned(d)'
  BY <1>1, <1>2, TtyKept DEF LeftInv
<1>4. \A e \in Devices \ {d} : Still(p, e) /\ tty'[e] = tty[e] /\ NamesGo(e)
  OBVIOUS
<1> QED  BY <1>3, <1>4, LeftStep

\* What channel_fifo_setup knows the names of is what it made.
LEMMA FifoMakes ==
  ASSUME NEW d, NEW c, NEW O, OpeningFifo(d, c, O), NEW e \in {0, 1}, Took("fifo", c, EndFile(e))
  PROVE  \A i \in DOMAIN c.todo : c.todo[i] # <<"mkfifo", e>>
<1>1. /\ <<"unlink", 1>> # <<"mkfifo", e>> /\ <<"setfl">> # <<"mkfifo", e>>
      /\ \A f, r : <<"open", f, r>> # <<"mkfifo", e>>
      /\ e = 0 => <<"mkfifo", 1>> # <<"mkfifo", e>>
  OBVIOUS
<1>2. /\ c.todo \notin {Fifo7, Fifo6}
      /\ e = 1 => c.todo \notin {Fifo7, Fifo6, Fifo5, Fifo4}
  BY EndsDiffer DEF Took
<1>3. CASE c.todo = Fifo5
  <2>1. DOMAIN Fifo5 = 1..5 /\ e = 0
    BY <1>2, <1>3 DEF Fifo5
  <2> QED  BY <1>1, <1>3, <2>1 DEF Fifo5
<1>4. CASE c.todo = Fifo4
  <2>1. DOMAIN Fifo4 = 1..4 /\ e = 0
    BY <1>2, <1>4 DEF Fifo4
  <2> QED  BY <1>1, <1>4, <2>1 DEF Fifo4
<1>5. CASE c.todo = Fifo3(c.server)
  <2>1. DOMAIN Fifo3(c.server) = 1..3
    BY DEF Fifo3
  <2> QED  BY <1>1, <1>5, <2>1 DEF Fifo3
<1>6. CASE c.todo = Fifo2(c.server)
  <2>1. DOMAIN Fifo2(c.server) = 1..2
    BY DEF Fifo2
  <2> QED  BY <1>1, <1>6, <2>1 DEF Fifo2
<1>7. CASE c.todo = Fifo1
  <2>1. DOMAIN Fifo1 = 1..1
    BY DEF Fifo1
  <2> QED  BY <1>1, <1>7, <2>1 DEF Fifo1
<1> QED  BY <1>2, <1>3, <1>4, <1>5, <1>6, <1>7 DEF OpeningFifo

LEMMA LeftFifoFails == ASSUME ChannelInv, LeftInv, NEW p \in Procs, FifoFails(p) PROVE LeftInv'
<1> DEFINE made == {e \in {0, 1} : \A i \in DOMAIN call[p].todo : call[p].todo[i] # <<"mkfifo", e>>}
           steps == {"mkfifo", "open", "setfl"}
<1>1. PICK d : d = Dev(p)
  OBVIOUS
<1>2. /\ Fails(p, steps) /\ GiveUp(p) /\ UNCHANGED tty /\ \E F2 : fds' = [fds EXCEPT ![p] = F2]
      /\ name' = [x \in DOMAIN name |-> IF x[1] = d /\ x[2] \in made THEN 0 ELSE name[x]]
  BY <1>1, Zenon DEF FifoFails
<1>3. PICK s \in steps : At(p, s)
  BY <1>2 DEF Fails
<1>4. s \in {"mkfifo", "open", "setfl"}
  OBVIOUS
<1>5. \A e \in made : \A i \in DOMAIN call[p].todo : call[p].todo[i] # <<"mkfifo", e>>
  OBVIOUS
<1>6. \A e \in {0, 1} : (\A i \in DOMAIN call[p].todo : call[p].todo[i] # <<"mkfifo", e>>) => e \in made
  OBVIOUS
<1> HIDE DEF made, steps
<1>7. /\ Others(p) /\ UNCHANGED use /\ UNCHANGED map /\ NoFaults /\ Plain'
      /\ d \in Devices /\ call[p].op = "open" /\ call[p].dev = d
      /\ \A x : ~Has(p, d, x)'
      /\ \A e \in Devices \ {d} : Still(p, e)
      /\ \A q \in Procs \ {p} : \A x : Has(q, d, x)' <=> Has(q, d, x)
  <2>1. UNCHANGED fds \/ \E F2 : fds' = [fds EXCEPT ![p] = F2]
    BY <1>2
  <2> QED  BY <1>1, <1>2, <2>1, LeftGivesUp
<1>8. use[d].type = "fifo" /\ OpeningFifo(d, call[p], Own(fds[p], d))
  <2>1. /\ DueFacts(use[d].type, d, call[p], Own(fds[p], d), s)
        /\ InCall(use[d].type, d, call[p], Own(fds[p], d), map[p])
    BY <1>1, <1>3, Acts
  <2>2. use[d].type = "fifo"
    BY <1>4, <2>1 DEF DueFacts
  <2> QED  BY <1>7, <2>1, <2>2 DEF InCall, Opening
<1>9. \A x : Has(p, d, x) <=> Took("fifo", call[p], x)
  BY <1>7, <1>8 DEF Has, Holds
<1>10. ASSUME NEW e \in {0, 1}, Has(p, d, EndFile(e)) PROVE name'[<<d, e>>] = 0
  <2>1. e \in made
    BY <1>6, <1>8, <1>9, <1>10, FifoMakes
  <2> QED  BY <1>2, <1>7, <2>1 DEF ChannelInv, KernelOK
<1>11. \A x \in {"lock", "raw", "lines"} : ~Has(p, d, x)
  BY <1>9 DEF Took
<1>12. \A e \in Devices : NamesGo(e)
  BY <1>2 DEF NamesGo, ChannelInv, KernelOK
<1> QED  BY <1>2, <1>7, <1>10, <1>11, <1>12, LeftNames

LEMMA LeftMsgqFails == ASSUME ChannelInv, LeftInv, NEW p \in Procs, MsgqFails(p) PROVE LeftInv'
<1> DEFINE steps == {"msgget"}
<1>1. PICK d : d = Dev(p)
  OBVIOUS
<1>2. Fails(p, steps) /\ GiveUp(p) /\ UNCHANGED tty /\ UNCHANGED fds /\ UNCHANGED name
  BY DEF MsgqFails
<1>3. At(p, "msgget")
  BY <1>2 DEF Fails
<1> HIDE DEF steps
<1>4. /\ Others(p) /\ UNCHANGED use /\ UNCHANGED map /\ NoFaults /\ Plain'
      /\ d \in Devices /\ call[p].op = "open" /\ call[p].dev = d
      /\ \A x : ~Has(p, d, x)'
      /\ \A e \in Devices \ {d} : Still(p, e)
      /\ \A q \in Procs \ {p} : \A x : Has(q, d, x)' <=> Has(q, d, x)
  BY <1>1, <1>2, LeftGivesUp
<1>5. use[d].type = "msgq"
  <2>1. DueFacts(use[d].type, d, call[p], Own(fds[p], d), "msgget")
    BY <1>1, <1>3, Acts
  <2> QED  BY <2>1 DEF DueFacts
<1>6. \A x : ~Has(p, d, x)
  BY <1>4, <1>5 DEF Has, Holds, Took
<1>7. \A e \in Devices : NamesGo(e)
  BY <1>2 DEF NamesGo
<1>8. /\ \A x \in {"lock", "raw", "lines"} : ~Has(p, d, x)
      /\ \A e \in {0, 1} : Has(p, d, EndFile(e)) => name'[<<d, e>>] = 0
  BY <1>6
<1> QED  BY <1>2, <1>4, <1>7, <1>8, LeftNames

LEMMA LeftConnectFails == ASSUME ChannelInv, LeftInv, NEW p \in Procs, ConnectFails(p) PROVE LeftInv'
<1> DEFINE steps == {"connect"}
<1>1. PICK d : d = Dev(p)
  OBVIOUS
<1>2. /\ Fails(p, steps) /\ GiveUp(p) /\ UNCHANGED tty /\ \E F2 : fds' = [fds EXCEPT ![p] = F2]
      /\ name' = IF call[p].l # 0 THEN [name EXCEPT ![<<d, 0>>] = 0] ELSE name
  BY <1>1, Zenon DEF ConnectFails
<1>3. At(p, "connect")
  BY <1>2 DEF Fails
<1> HIDE DEF steps
<1>4. /\ Others(p) /\ UNCHANGED use /\ UNCHANGED map /\ NoFaults /\ Plain'
      /\ d \in Devices /\ call[p].op = "open" /\ call[p].dev = d
      /\ \A x : ~Has(p, d, x)'
      /\ \A e \in Devices \ {d} : Still(p, e)
      /\ \A q \in Procs \ {p} : \A x : Has(q, d, x)' <=> Has(q, d, x)
  <2>1. UNCHANGED fds \/ \E F2 : fds' = [fds EXCEPT ![p] = F2]
    BY <1>2
  <2> QED  BY <1>1, <1>2, <2>1, LeftGivesUp
<1>5. use[d].type = "bus"
  <2>1. DueFacts(use[d].type, d, call[p], Own(fds[p], d), "connect")
    BY <1>1, <1>3, Acts
  <2> QED  BY <2>1 DEF DueFacts
<1>6. \A x : Has(p, d, x) => x = "end0" /\ call[p].l # 0
  BY <1>4, <1>5 DEF Has, Holds, Took
<1>7. \A e \in Devices : NamesGo(e)
  BY <1>2 DEF NamesGo, ChannelInv, KernelOK
<1>8. ASSUME NEW e \in {0, 1}, Has(p, d, EndFile(e)) PROVE name'[<<d, e>>] = 0
  <2>1. e = 0 /\ call[p].l # 0
    BY <1>6, <1>8, EndsDiffer
  <2> QED  BY <1>2, <1>4, <2>1 DEF ChannelInv, KernelOK
<1>9. \A x \in {"lock", "raw", "lines"} : ~Has(p, d, x)
  BY <1>6
<1> QED  BY <1>2, <1>4, <1>7, <1>8, <1>9, LeftNames

\* Only a terminal that another process has refuses one, and then nothing was done to it.
LEMMA LeftUartFails == ASSUME ChannelInv, LeftInv, NEW p \in Procs, UartFails(p) PROVE LeftInv'
<1> DEFINE steps == {"ttyopen", "flock", "getattr", "setattr", "lines"}
<1>1. PICK d : d = Dev(p)
  OBVIOUS
<1> DEFINE lock == IF tty[d].lock = p THEN Null ELSE tty[d].lock
           raw == IF At(p, "setattr") \/ At(p, "lines") THEN call[p].old ELSE tty[d].raw
<1>2. /\ Fails(p, steps) /\ GiveUp(p) /\ UNCHANGED name /\ \E F2 : fds' = [fds EXCEPT ![p] = F2]
      /\ tty' = [tty EXCEPT ![d] = [tty[d] EXCEPT !.lock = lock, !.raw = raw]]
  BY <1>1, Zenon DEF UartFails
<1>3. PICK s : At(p, s) /\ s \in {"ttyopen", "flock", "getattr", "setattr", "lines"}
  BY <1>2 DEF Fails
<1>4. raw = (IF s \in {"setattr", "lines"} THEN call[p].old ELSE tty[d].raw)
  BY <1>3 DEF At
<1>5. faults' = 0 => s = "flock" /\ tty[d].lock # Null
  <2>1. Fault => faults' # 0
    BY FaultSets DEF ChannelInv
  <2> QED  BY <1>1, <1>2, <1>3, <2>1 DEF Fails, Refused, At
<1> HIDE DEF steps, raw
<1>6. /\ Others(p) /\ UNCHANGED use /\ UNCHANGED map /\ NoFaults /\ Plain'
      /\ d \in Devices /\ call[p].op = "open" /\ call[p].dev = d
      /\ \A x : ~Has(p, d, x)'
      /\ \A e \in Devices \ {d} : Still(p, e)
      /\ \A q \in Procs \ {p} : \A x : Has(q, d, x)' <=> Has(q, d, x)
  <2>1. UNCHANGED fds \/ \E F2 : fds' = [fds EXCEPT ![p] = F2]
    BY <1>2
  <2> QED  BY <1>1, <1>2, <2>1, LeftGivesUp
<1>7. /\ s \in {"ttyopen", "flock"} => \A x : ~Has(p, d, x)
      /\ s \in {"getattr", "setattr", "lines"} => Has(p, d, "lock")
      /\ use[d].type = "uart"
  <2> DEFINE k == use[d].type
             c == call[p]
             m == map[p]
             O == Own(fds[p], d)
             c2 == Next1(call[p])
  <2>1. /\ k \in Kinds /\ InCall(k, d, c, O, m) /\ Called(c) /\ c.dev = d /\ Due(c, s)
        /\ DueFacts(k, d, c, O, s)
    BY <1>1, <1>3, Acts DEF Dev
  <2>2. k = "uart" /\ c.op = "open"
    BY <1>3, <2>1 DEF DueFacts
  <2> HIDE DEF k, c, m, O
  <2>3. OpeningUart(d, c, O)
    BY <2>1, <2>2 DEF InCall, Opening
  <2>4. PICK c3 : c3.todo = Tail(c.todo)
    <3>1. [todo |-> Tail(c.todo)].todo = Tail(c.todo)
      OBVIOUS
    <3> QED  BY <3>1
  <2>5. \A x : Has(p, d, x) <=> Took("uart", c, x)
    BY <2>1, <2>2 DEF Has, Holds, k, c
  <2>6. /\ \A x : s \in {"ttyopen", "flock"} => ~Took("uart", c, x)
        /\ s \in {"getattr", "setattr", "lines"} => Took("uart", c, "lock")
    BY <2>1, <2>3, <2>4, UartTook
  <2> QED  BY <2>2, <2>5, <2>6 DEF k
<1>8. Returned(d) /\ tty[d] \in Terminal
  BY <1>6 DEF LeftInv, ChannelInv, KernelOK, Terminal
<1>9. /\ tty'[d].lock = lock /\ tty'[d].raw = raw /\ tty'[d].lines = tty[d].lines
      /\ \A e \in Devices \ {d} : tty'[e] = tty[e]
  <2>1. /\ [tty[d] EXCEPT !.lock = lock, !.raw = raw].lock = lock
        /\ [tty[d] EXCEPT !.lock = lock, !.raw = raw].raw = raw
        /\ [tty[d] EXCEPT !.lock = lock, !.raw = raw].lines = tty[d].lines
    BY <1>8 DEF Terminal
  <2> QED  BY <1>2, <1>6, <2>1 DEF ChannelInv, KernelOK
<1>10. Locked(d)'
  <2>1. ASSUME NEW q \in Procs PROVE Has(q, d, "lock")' <=> tty'[d].lock = q
    BY <1>6, <1>8, <1>9, NullAssumption DEF Returned, Locked
  <2>2. ASSUME NEW q \in Procs, Has(q, d, "raw")' PROVE tty'[d].raw
    <3>1. q # p /\ Has(q, d, "raw") /\ Has(q, d, "lock")
      BY <1>6, <2>2, LockFirst
    <3>2. tty[d].lock = q /\ tty[d].raw
      BY <1>8, <3>1 DEF Returned, Locked
    <3>3. s \notin {"setattr", "lines"}
      BY <1>7, <1>8, <3>1, <3>2 DEF Returned, Locked
    <3> QED  BY <1>4, <1>9, <3>2, <3>3
  <2> QED  BY <2>1, <2>2 DEF Locked
<1>11. faults' = 0 => Tidy(d)'
  <2> SUFFICES ASSUME faults' = 0 PROVE Tidy(d)'
    OBVIOUS
  <2>1. s = "flock" /\ faults = 0
    BY <1>5, <1>6 DEF NoFaults
  <2>2. \A q \in Procs : \A x : Has(q, d, x)' <=> Has(q, d, x)
    BY <1>6, <1>7, <2>1
  <2>3. tty'[d].raw = tty[d].raw /\ tty'[d].lines = tty[d].lines /\ name' = name
    BY <1>2, <1>4, <1>9, <2>1
  <2> QED  BY <1>6, <1>8, <2>1, <2>2, <2>3 DEF Returned, Tidy
<1>12. Returned(d)'
  BY <1>10, <1>11 DEF Returned
<1>13. \A e \in Devices \ {d} : Still(p, e) /\ tty'[e] = tty[e] /\ NamesGo(e)
  BY <1>2, <1>6, <1>9 DEF NamesGo
<1> QED  BY <1>6, <1>12, <1>13, LeftStep

-----------------------------------------------------------------------------
(* The beginning and the end of the calls *)

\* A setup begins with nothing.
LEMMA NothingYet ==
  ASSUME NEW k \in Kinds, NEW b \in BOOLEAN, NEW c, c.todo = Setup(k, b), c.server = b, c.l = 0, NEW x
  PROVE  ~Took(k, c, x)
<1>1. CASE k = "uart"
  <2>1. c.todo = Tty5
    BY <1>1, SetupIs
  <2>2. Tty5 \notin {Tty4, Tty3, Tty2, Tty1, <<>>}
    BY SetupLeaves DEF Leaves
  <2> QED  BY <1>1, <2>1, <2>2 DEF Took
<1>2. CASE k = "fifo"
  <2>1. b => c.todo = Fifo7
    BY <1>2, SetupIs
  <2> QED  BY <1>2, <2>1 DEF Took
<1>3. CASE k \in {"msgq", "bus"}
  BY <1>3 DEF Took
<1> QED  BY <1>1, <1>2, <1>3 DEF Kinds

\* At its end it has what the channel owns.
LEMMA AllTaken ==
  ASSUME NEW k \in Kinds, NEW d, NEW c, NEW O, Opening(k, d, c, O), c.todo \in {<<>>, Fifo1},
         NEW v, v.server = c.server, v.l = c.l, NEW x
  PROVE  Took(k, c, x) <=> Owns(k, v, x)
<1>1. /\ Leaves(Tty5, "ttyopen", Tty4) /\ Leaves(Tty4, "flock", Tty3)
      /\ Leaves(Tty3, "getattr", Tty2) /\ Leaves(Tty2, "setattr", Tty1)
      /\ Leaves(Tty1, "lines", <<>>) /\ Leaves(Fifo1, "setfl", <<>>)
  BY SetupLeaves
<1>2. CASE k = "uart"
  <2>1. OpeningUart(d, c, O)
    BY <1>2 DEF Opening
  <2>2. c.todo = <<>>
    BY <1>1, <2>1 DEF OpeningUart, Leaves
  <2> QED  BY <1>2, <2>2 DEF Took, Owns
<1>3. CASE k = "msgq"
  BY <1>3 DEF Took, Owns
<1>4. CASE k = "fifo"
  <2>1. /\ LeavesAt(Fifo7, "unlink", 0, Fifo6) /\ LeavesAt(Fifo6, "mkfifo", 0, Fifo5)
        /\ LeavesAt(Fifo5, "unlink", 1, Fifo4) /\ LeavesAt(Fifo4, "mkfifo", 1, Fifo3(TRUE))
    BY SetupLeaves
  <2>2. c.todo \notin {Fifo7, Fifo6, Fifo5, Fifo4}
    BY <1>1, <2>1, SMTT(40) DEF Leaves, LeavesAt
  <2> QED  BY <1>4, <2>2 DEF Took, Owns
<1>5. CASE k = "bus"
  <2>1. Leaves(Start4, "unlink", Start3) /\ Leaves(Start3, "bind", Start2)
    BY SetupLeaves DEF LeavesAt
  <2>2. c.todo \notin {Start4, Start3}
    BY <1>1, <2>1 DEF Leaves
  <2> QED  BY <1>5, <2>2 DEF Took, Owns
<1> QED  BY <1>2, <1>3, <1>4, <1>5 DEF Kinds

\* A teardown begins with what the channel owns, and ends with nothing.
LEMMA AllReturned ==
  ASSUME NEW k \in Kinds, NEW v, v.server \in BOOLEAN, NEW c, c.todo = Teardown(k, v), NEW x
  PROVE  Returns(k, c, x) <=> Owns(k, v, x)
<1>1. /\ Teardown("uart", v) = TtyShut
      /\ Teardown("fifo", v) = IF v.server THEN Close3 ELSE Close1
      /\ Teardown("bus", v) = IF v.l # 0 THEN Close2 ELSE Close1
  BY TeardownIs
<1>2. Close1 \notin {Close3, Unlink2, Unlink1} /\ Close1 \notin {Close2, Unlink0} /\ Close3 # Unlink1
  <2>1. /\ Leaves(Close1, "close", <<>>) /\ Leaves(Close2, "close", Unlink0)
        /\ Leaves(Close3, "close", Unlink2) /\ LeavesAt(Unlink2, "unlink", 0, Unlink1)
        /\ LeavesAt(Unlink0, "unlink", 0, <<>>) /\ LeavesAt(Unlink1, "unlink", 1, <<>>)
    BY TeardownLeaves
  <2> QED  BY <2>1 DEF Leaves, LeavesAt
<1>3. CASE k = "uart"
  BY <1>1, <1>3 DEF Returns, Owns
<1>4. CASE k = "msgq"
  BY <1>4 DEF Returns, Owns
<1>5. CASE k = "fifo"
  BY <1>1, <1>2, <1>5 DEF Returns, Owns
<1>6. CASE k = "bus"
  BY <1>1, <1>2, <1>6 DEF Returns, Owns
<1> QED  BY <1>3, <1>4, <1>5, <1>6 DEF Kinds

LEMMA NoneReturned ==
  ASSUME NEW k, NEW c, c.todo = <<>>, NEW x
  PROVE  ~Returns(k, c, x)
<1>1. <<>> \notin {TtyShut, Close3, Unlink2, Unlink1, Close2, Unlink0}
  BY TeardownLeaves DEF Leaves, LeavesAt
<1> QED  BY <1>1 DEF Returns

\* A call begins, or ends: what p has of the device is the same as before.
LEMMA LeftTurns ==
  ASSUME ChannelInv, LeftInv, NEW p \in Procs, Others(p), UNCHANGED use, UNCHANGED name, UNCHANGED tty,
         UNCHANGED faults, NEW d \in Devices, call[p].dev \in {d, Null}, call'[p].dev \in {d, Null},
         \A e \in Devices \ {d} : /\ e \in DOMAIN map'[p].val <=> e \in DOMAIN map[p].val
                                  /\ e \in DOMAIN map[p].val => map'[p].val[e] = map[p].val[e],
         Still(p, d), Plain'
  PROVE  LeftInv'
<1>1. ASSUME NEW e \in Devices PROVE Still(p, e)
  <2>1. CASE e = d
    BY <2>1
  <2>2. CASE e # d
    <3>1. call[p].dev # e /\ call'[p].dev # e
      BY <2>2, NullAssumption
    <3> QED  BY <2>2, <3>1 DEF Still, Has, Holds
  <2> QED  BY <2>1, <2>2
<1>2. NoFaults
  BY DEF NoFaults
<1>3. \A e \in Devices : NamesGo(e)
  BY DEF NamesGo
<1> QED  BY <1>1, <1>2, <1>3, LeftQuiet

LEMMA LeftBeginOpen ==
  ASSUME ChannelInv, LeftInv, NEW p \in Procs, NEW d \in Devices, NEW b \in BOOLEAN, BeginOpen(p, d, b)
  PROVE  LeftInv'
<1> DEFINE alone == \A q \in Procs : Dev(q) # d
           c2 == [Idle EXCEPT !.op = "open", !.dev = d, !.server = b,
                              !.todo = Setup(Type(d), b), !.clean = alone]
<1>1. /\ ~Busy(p) /\ ~H!Has(map[p], d)
      /\ call' = [q \in Procs |-> IF q = p THEN c2
                                  ELSE IF Dev(q) = d THEN [call[q] EXCEPT !.clean = FALSE] ELSE call[q]]
      /\ UNCHANGED <<use, name, fds, tty, inbox, sent, manager, faults, tainted>>
  BY Zenon DEF BeginOpen
<1>2. c2.op = "open" /\ c2.dev = d /\ c2.todo = Setup(use[d].type, b) /\ c2.server = b /\ c2.l = 0 /\ c2.old = FALSE
  BY DEF Idle, Type
<1> HIDE DEF c2
<1>3. Others(p) /\ call'[p] = c2 /\ map' = map
  <2>1. DOMAIN call' = Procs /\ call'[p] = c2
    BY <1>1
  <2>2. \A q \in Procs \ {p} : \/ call'[q] = call[q]
                               \/ call[q].dev \in Devices /\ call'[q] = [call[q] EXCEPT !.clean = FALSE]
    BY <1>1 DEF Dev
  <2> QED  BY <1>1, <2>1, <2>2 DEF ChannelInv, Sized, Others, manager
<1>4. call[p] = Idle /\ d \notin DOMAIN map[p].val
  BY <1>1, ManagedFacts DEF ChannelInv, Proc, ProcInv, Busy
<1>5. call[p].dev = Null /\ call[p].op = "idle"
  BY <1>4 DEF Idle
<1>6. Still(p, d)
  <2>1. use[d].type \in Kinds
    BY UsesTyped DEF ChannelInv, Typed
  <2>2. \A x : ~Took(use[d].type, c2, x)
    BY <1>2, <2>1, NothingYet
  <2>3. \A x : ~Holds(use[d].type, c2, map[p], d, x)
    BY <1>2, <1>4, <2>2 DEF Holds
  <2>4. \A x : ~Has(p, d, x)
    BY <1>4, <1>5, NullAssumption DEF Has, Holds
  <2> QED  BY <1>3, <2>3, <2>4 DEF Still
<1>7. Plain'
  <2>1. NoFaults
    BY <1>1 DEF NoFaults
  <2> QED  BY <1>1, <1>2, <1>3, <2>1, PlainNext DEF LeftInv, Plain
<1> QED  BY <1>1, <1>2, <1>3, <1>5, <1>6, <1>7, LeftTurns

LEMMA LeftFinishOpen == ASSUME ChannelInv, LeftInv, NEW p \in Procs, FinishOpen(p) PROVE LeftInv'
<1> DEFINE c == call[p]
           v == [server |-> c.server, r |-> c.r, w |-> c.w, l |-> c.l, old |-> c.old]
           m2 == H!Insert(map[p], c.dev, v)
<1>1. /\ c.op = "open" /\ c.todo \in {<<>>, <<<<"setfl">>>>}
      /\ open_channels' = [open_channels EXCEPT ![p] = open_channels[p] + 1]
      /\ map' = [map EXCEPT ![p] = m2] /\ call' = [call EXCEPT ![p] = Idle]
      /\ UNCHANGED <<use, name, fds, tty, sent, iter, faults, tainted>>
  BY Zenon DEF FinishOpen
<1>2. ProcInv(use, c, fds[p], map[p], iter[p], open_channels[p]) /\ Typed(use)
  BY UsesTyped DEF ChannelInv, Proc
<1>3. /\ DOMAIN m2.val = DOMAIN map[p].val \cup {c.dev} /\ c.dev \in Devices \ DOMAIN map[p].val
      /\ \A d \in DOMAIN m2.val : m2.val[d] = IF d = c.dev THEN v ELSE map[p].val[d]
  BY <1>1, <1>2, ProcFinishOpen, SMTT(40)
<1>4. v.server = c.server /\ v.l = c.l /\ v.old = c.old
  OBVIOUS
<1> HIDE DEF m2, v
<1>5. call'[p] = Idle /\ map'[p] = m2 /\ Others(p)
  BY <1>1 DEF ChannelInv, Sized, Others
<1>6. Idle.dev = Null /\ Idle.op = "idle" /\ Idle.old = FALSE
  BY DEF Idle
<1>7. PICK d \in Devices : d = c.dev
  BY <1>3
<1>8. Still(p, d)
  <2>1. use[d].type \in Kinds
    BY <1>2 DEF Typed
  <2>2. Opening(use[d].type, d, c, Own(fds[p], d)) /\ c.todo \in {<<>>, Fifo1}
    BY <1>1, <1>2, <1>7 DEF ProcInv, InCall, Fifo1
  <2>3. \A x : Took(use[d].type, c, x) <=> Owns(use[d].type, v, x)
    BY <1>4, <2>1, <2>2, AllTaken
  <2>4. \A x : Holds(use[d].type, Idle, m2, d, x) <=> Owns(use[d].type, v, x)
    BY <1>3, <1>6, <1>7, NullAssumption DEF Holds
  <2>5. \A x : Has(p, d, x) <=> Took(use[d].type, c, x)
    BY <1>1, <1>3, <1>7 DEF Has, Holds
  <2> QED  BY <1>5, <2>3, <2>4, <2>5 DEF Still
<1>9. Plain'
  <2>1. NoFaults
    BY <1>1 DEF NoFaults
  <2>2. ASSUME faults = 0 PROVE ~call'[p].old /\ \A e \in DOMAIN map'[p].val : ~map'[p].val[e].old
    <3>1. ~c.old /\ \A e \in DOMAIN map[p].val : ~map[p].val[e].old
      BY <2>2 DEF LeftInv, Plain
    <3> QED  BY <1>3, <1>4, <1>5, <1>6, <3>1
  <2> QED  BY <1>1, <1>5, <2>1, <2>2, PlainNext DEF LeftInv
<1>10. \A e \in Devices \ {d} : /\ e \in DOMAIN map'[p].val <=> e \in DOMAIN map[p].val
                                /\ e \in DOMAIN map[p].val => map'[p].val[e] = map[p].val[e]
  BY <1>3, <1>5, <1>7
<1> QED  BY <1>1, <1>5, <1>6, <1>7, <1>8, <1>9, <1>10, LeftTurns

LEMMA LeftBeginClose ==
  ASSUME ChannelInv, LeftInv, NEW p \in Procs, NEW d \in Devices, BeginClose(p, d)
  PROVE  LeftInv'
<1> DEFINE v == map[p].val[d]
           c2 == [Idle EXCEPT !.op = "close", !.dev = d, !.r = map[p].val[d].r, !.w = map[p].val[d].w,
                              !.l = map[p].val[d].l, !.todo = Teardown(use[d].type, map[p].val[d])]
<1>1. /\ ~Busy(p) /\ H!Has(map[p], d)
      /\ call' = [q \in Procs |-> IF q = p THEN c2
                                  ELSE IF Dev(q) = d THEN [call[q] EXCEPT !.clean = FALSE] ELSE call[q]]
      /\ UNCHANGED use /\ UNCHANGED kernel /\ UNCHANGED manager /\ UNCHANGED faults
  BY Zenon DEF BeginClose, Channel, Type
<1>2. c2.op = "close" /\ c2.dev = d /\ c2.todo = Teardown(use[d].type, v) /\ c2.old = FALSE
  BY DEF Idle
<1> HIDE DEF c2
<1>3. Others(p) /\ call'[p] = c2 /\ map' = map /\ name' = name /\ tty' = tty
  <2>1. DOMAIN call' = Procs /\ call'[p] = c2
    BY <1>1
  <2>2. \A q \in Procs \ {p} : \/ call'[q] = call[q]
                               \/ call[q].dev \in Devices /\ call'[q] = [call[q] EXCEPT !.clean = FALSE]
    BY <1>1 DEF Dev
  <2> QED  BY <1>1, <2>1, <2>2 DEF ChannelInv, Sized, Others, manager, kernel
<1>4. call[p] = Idle /\ d \in DOMAIN map[p].val /\ v.server \in BOOLEAN
  <2>1. call[p] = Idle /\ Managed(map[p], iter[p])
    BY <1>1 DEF ChannelInv, Proc, ProcInv, Busy
  <2>2. d \in DOMAIN map[p].val /\ v \in Channels
    BY <1>1, <2>1, ManagedFacts
  <2> QED  BY <2>1, <2>2 DEF Channels
<1>5. call[p].dev = Null /\ call[p].op = "idle"
  BY <1>4 DEF Idle
<1>6. Still(p, d)
  <2>1. use[d].type \in Kinds
    BY UsesTyped DEF ChannelInv, Typed
  <2>2. \A x : Returns(use[d].type, c2, x) <=> Owns(use[d].type, v, x)
    BY <1>2, <1>4, <2>1, AllReturned
  <2>3. \A x : Holds(use[d].type, c2, map[p], d, x) <=> Returns(use[d].type, c2, x)
    BY <1>2 DEF Holds
  <2>4. \A x : Has(p, d, x) <=> Owns(use[d].type, v, x)
    BY <1>4, <1>5, NullAssumption DEF Has, Holds
  <2> QED  BY <1>3, <2>2, <2>3, <2>4 DEF Still
<1>7. Plain'
  <2>1. NoFaults
    BY <1>1 DEF NoFaults
  <2> QED  BY <1>1, <1>2, <1>3, <2>1, PlainNext DEF LeftInv, Plain
<1> QED  BY <1>1, <1>2, <1>3, <1>5, <1>6, <1>7, LeftTurns

LEMMA LeftFinishClose == ASSUME ChannelInv, LeftInv, NEW p \in Procs, FinishClose(p) PROVE LeftInv'
<1> DEFINE c == call[p]
           m2 == H!Delete(map[p], c.dev)
<1>1. /\ c.op = "close" /\ c.todo = <<>>
      /\ open_channels' = [open_channels EXCEPT ![p] = open_channels[p] - 1]
      /\ map' = [map EXCEPT ![p] = m2] /\ call' = [call EXCEPT ![p] = Idle]
      /\ UNCHANGED use /\ UNCHANGED kernel /\ UNCHANGED iter /\ UNCHANGED faults
  BY Zenon DEF FinishClose, Dev
<1>2. ProcInv(use, c, fds[p], map[p], iter[p], open_channels[p]) /\ Typed(use)
  BY UsesTyped DEF ChannelInv, Proc
<1>3. /\ c.dev \in DOMAIN map[p].val /\ DOMAIN m2.val = DOMAIN map[p].val \ {c.dev}
      /\ \A d \in DOMAIN m2.val : m2.val[d] = map[p].val[d]
  BY <1>1, <1>2, ProcFinishClose
<1> HIDE DEF m2
<1>4. call'[p] = Idle /\ map'[p] = m2 /\ Others(p) /\ name' = name /\ tty' = tty
  BY <1>1 DEF ChannelInv, Sized, Others, kernel
<1>5. Idle.dev = Null /\ Idle.op = "idle" /\ Idle.old = FALSE
  BY DEF Idle
<1>6. PICK d \in Devices : d = c.dev
  BY <1>1, <1>2 DEF ProcInv
<1>7. Still(p, d)
  <2>1. \A x : ~Returns(use[d].type, c, x)
    BY <1>1, NoneReturned
  <2>2. \A x : ~Has(p, d, x)
    BY <1>1, <1>6, <2>1 DEF Has, Holds
  <2>3. \A x : ~Holds(use[d].type, Idle, m2, d, x)
    BY <1>3, <1>5, <1>6, NullAssumption DEF Holds
  <2> QED  BY <1>4, <2>2, <2>3 DEF Still
<1>8. Plain'
  <2>1. NoFaults
    BY <1>1 DEF NoFaults
  <2> QED  BY <1>1, <1>3, <1>4, <1>5, <2>1, PlainNext DEF LeftInv, Plain
<1>9. \A e \in Devices \ {d} : /\ e \in DOMAIN map'[p].val <=> e \in DOMAIN map[p].val
                               /\ e \in DOMAIN map[p].val => map'[p].val[e] = map[p].val[e]
  BY <1>3, <1>4, <1>6
<1> QED  BY <1>1, <1>4, <1>5, <1>6, <1>7, <1>8, <1>9, LeftTurns

\* A teardown that is done frees a map that has nothing left.
LEMMA LeftTeardown ==
  ASSUME ChannelInv, LeftInv, NEW p \in Procs, BeginTeardown(p) \/ NextTeardown(p)
  PROVE  LeftInv'
<1>1. /\ UNCHANGED use /\ UNCHANGED kernel /\ UNCHANGED call /\ UNCHANGED open_channels /\ UNCHANGED faults
      /\ \E i2 : iter' = [iter EXCEPT ![p] = i2]
      /\ UNCHANGED map \/ (map' = [map EXCEPT ![p] = H!EmptyMap] /\ iter[p] # H!NoIt /\ iter[p].cur = Null)
  BY DEF BeginTeardown, NextTeardown
<1>2. name' = name /\ tty' = tty
  BY <1>1 DEF kernel
<1>3. ASSUME NEW q \in Procs
      PROVE  /\ DOMAIN map'[q].val = DOMAIN map[q].val
             /\ \A d \in DOMAIN map[q].val : map'[q].val[d] = map[q].val[d]
  <2>1. CASE map'[q] = map[q]
    BY <2>1
  <2>2. CASE map'[q] # map[q]
    <3>1. map'[q] = H!EmptyMap /\ q = p /\ iter[q] # H!NoIt /\ iter[q].cur = Null
      BY <1>1, <2>2 DEF ChannelInv, Sized
    <3>2. DOMAIN map[q].val = {}
      BY <3>1, ManagedAt DEF ChannelInv, Proc, ProcInv
    <3> QED  BY <3>1, <3>2, ManagedEmpty
  <2> QED  BY <2>1, <2>2
<1>4. \A q \in Procs : \A e, x : Has(q, e, x)' <=> Has(q, e, x)
  BY <1>1, <1>3 DEF Has, Holds
<1>5. \A d \in Devices : Returned(d)'
  BY <1>1, <1>2, <1>4 DEF LeftInv, Returned, Locked, Tidy
<1>6. Plain'
  BY <1>1, <1>3 DEF LeftInv, Plain
<1> QED  BY <1>5, <1>6 DEF LeftInv

-----------------------------------------------------------------------------
LEMMA LeftInit == Init => LeftInv
<1> SUFFICES ASSUME Init PROVE LeftInv
  OBVIOUS
<1>1. \A q \in Procs : call[q] = Idle /\ map[q] = H!EmptyMap
  BY DEF Init
<1>2. Idle.dev = Null /\ Idle.op = "idle" /\ Idle.old = FALSE /\ DOMAIN H!EmptyMap.val = {}
  BY ManagedEmpty DEF Idle
<1>3. \A q \in Procs : \A d \in Devices : \A x : ~Has(q, d, x)
  BY <1>1, <1>2, NullAssumption DEF Has, Holds
<1>4. \A d \in Devices : /\ tty[d].lock = Null /\ tty[d].raw = FALSE /\ tty[d].lines = {}
                         /\ name[<<d, 0>>] = 0 /\ name[<<d, 1>>] = 0
  BY DEF Init
<1>5. \A d \in Devices : Returned(d)
  BY <1>3, <1>4, NullAssumption DEF Returned, Locked, Tidy
<1>6. Plain
  BY <1>1, <1>2 DEF Plain
<1> QED  BY <1>5, <1>6 DEF LeftInv

LEMMA LeftNext == ChannelInv /\ LeftInv /\ [Next]_vars => LeftInv'
<1> SUFFICES ASSUME ChannelInv, LeftInv, [Next]_vars PROVE LeftInv'
  OBVIOUS
<1>1. ASSUME NEW p \in Procs, NEW d \in Devices, BeginClose(p, d) \/ Send(p, d) \/ Recv(p, d)
      PROVE  LeftInv'
  BY <1>1, LeftBeginClose, LeftMessage
<1>2. ASSUME NEW p \in Procs, NEW d \in Devices, NEW b \in BOOLEAN,
             BeginOpen(p, d, b) \/ \E line \in {"dtr", "rts"} : AssertLine(p, d, line, b)
      PROVE  LeftInv'
  BY <1>2, LeftBeginOpen, LeftAssertLine
<1>3. ASSUME NEW p \in Procs,
             FinishOpen(p) \/ FinishClose(p) \/ BeginTeardown(p) \/ NextTeardown(p)
      PROVE  LeftInv'
  BY <1>3, LeftFinishOpen, LeftFinishClose, LeftTeardown
<1>4. ASSUME NEW p \in Procs, Unlink(p) \/ MakeName(p) \/ OpenEnd(p) \/ MsgGet(p) \/ RmId(p)
      PROVE  LeftInv'
  BY <1>4, LeftUnlink, LeftMakeName, LeftCalls
<1>5. ASSUME NEW p \in Procs,
             Access(p) \/ Socket(p) \/ Listen(p) \/ Connect(p) \/ Close(p) \/ TtyStep(p) \/ TtyClose(p)
      PROVE  LeftInv'
  BY <1>5, LeftAccess, LeftCalls, LeftTtyStep, LeftTtyClose
<1>6. ASSUME NEW p \in Procs,
             FifoFails(p) \/ MsgqFails(p) \/ UartFails(p) \/ StartFails(p) \/ ConnectFails(p) \/ Crash(p)
      PROVE  LeftInv'
  BY <1>6, LeftFifoFails, LeftMsgqFails, LeftUartFails, LeftConnectFails, LeftEnds
<1>7. CASE UNCHANGED vars
  <2>1. UNCHANGED use /\ UNCHANGED kernel /\ UNCHANGED call /\ UNCHANGED manager /\ UNCHANGED faults
    BY <1>7 DEF vars
  <2> QED  BY <2>1, LeftStill DEF kernel, manager
<1> QED  BY <1>1, <1>2, <1>3, <1>4, <1>5, <1>6, <1>7 DEF Next

\* What serial_open and the setups take, serial_close, the teardowns and their error paths
\* give back, whatever the other processes do between the system calls: a terminal has one
\* owner, who set it up, and when nobody uses a device and nothing failed, its lock, its
\* settings and its lines are as they were and no fifo and no socket is left.
THEOREM DevicesReturned == Spec => []LeftAsFound
<1>1. ChannelInv /\ LeftInv => LeftAsFound
  <2> SUFFICES ASSUME ChannelInv, LeftInv PROVE LeftAsFound
    OBVIOUS
  <2> SUFFICES ASSUME NEW d \in Devices
               PROVE  LET users == {p \in Procs : IsOpen(p, d) \/ Dev(p) = d}
                          owners == {p \in Procs : Type(d) = "uart" /\ IsOpen(p, d) /\ Dev(p) # d}
                      IN /\ Cardinality(owners) <= 1
                         /\ \A p \in owners : tty[d].lock = p /\ tty[d].raw
                         /\ (users = {} /\ faults = 0) =>
                              /\ tty[d] = [lock |-> Null, raw |-> FALSE, lines |-> {}]
                              /\ Type(d) # "msgq" => \A e \in {0, 1} : name[<<d, e>>] = 0
    BY DEF LeftAsFound
  <2> DEFINE users == {p \in Procs : IsOpen(p, d) \/ Dev(p) = d}
             owners == {p \in Procs : Type(d) = "uart" /\ IsOpen(p, d) /\ Dev(p) # d}
  <2>1. Returned(d) /\ tty[d] \in Terminal
    BY DEF LeftInv, ChannelInv, KernelOK, Terminal
  <2>2. ASSUME NEW p \in owners PROVE tty[d].lock = p /\ tty[d].raw
    <3>1. Has(p, d, "lock") /\ Has(p, d, "raw")
      BY <2>2 DEF Has, Holds, Owns, Type, IsOpen, Dev
    <3> QED  BY <2>1, <2>2, <3>1 DEF Returned, Locked
  <2>3. Cardinality(owners) <= 1
    <3>1. owners \subseteq {tty[d].lock}
      BY <2>2
    <3> HIDE DEF owners
    <3>2. owners = {} \/ owners = {tty[d].lock}
      BY <3>1
    <3>3. Cardinality({}) = 0 /\ Cardinality({tty[d].lock}) = 1
      BY FS_EmptySet, FS_Singleton
    <3> QED  BY <3>2, <3>3
  <2>4. ASSUME users = {}, faults = 0
        PROVE  /\ tty[d] = [lock |-> Null, raw |-> FALSE, lines |-> {}]
               /\ Type(d) # "msgq" => \A e \in {0, 1} : name[<<d, e>>] = 0
    <3>1. \A q \in Procs : d \notin DOMAIN map[q].val /\ call[q].dev # d
      BY <2>4 DEF IsOpen, Dev
    <3>2. \A q \in Procs : \A x : ~Has(q, d, x)
      BY <3>1 DEF Has, Holds
    <3>3. tty[d].lock = Null /\ tty[d].raw = FALSE /\ tty[d].lines = {}
      BY <2>1, <2>4, <3>2 DEF Returned, Locked, Tidy, Terminal
    <3>4. tty[d] = [lock |-> Null, raw |-> FALSE, lines |-> {}]
      BY <2>1, <3>3 DEF Terminal
    <3>5. Type(d) # "msgq" => \A e \in {0, 1} : name[<<d, e>>] = 0
      BY <2>1, <2>4, <3>2 DEF Returned, Tidy, Type
    <3> QED  BY <3>4, <3>5
  <2> QED  BY <2>2, <2>3, <2>4
<1> QED  BY <1>1, InitInv, NextInv, LeftInit, LeftNext, PTL DEF Spec

-----------------------------------------------------------------------------
(* Ends meet *)

\* The end that the other one depends on, by the type of its device.
Leads(k, v) == v.l # 0 \/ (v.server /\ k \in {"fifo", "msgq"})

\* The names of the device are those of the end v; the files of a pair of fifos may be gone.
NamesOf(k, v, n0, n1) ==
  /\ k = "fifo" => n0 \in {v.r, 0} /\ n1 \in {v.w, 0}
  /\ k = "msgq" => n0 = v.w /\ n1 = v.r
  /\ k = "bus" => n0 = v.l

\* The call c is a client's, and what it has opened by now is an end of the server v.
Follows(k, v, c) ==
  /\ c.op = "open" => /\ k \in {"fifo", "msgq"} => ~c.server /\ c.r \in {v.w, 0} /\ c.w \in {v.r, 0}
                      /\ k = "bus" => c.l = 0 /\ c.w \in {v.l, 0} /\ c.todo \in {Bus2, Bus1, <<>>}
  /\ c.op = "close" => c.todo \in {Close1, <<>>}

\* The open channel c reads what the server v writes, and the other way round.
Joins(k, v, c) ==
  /\ k \in {"fifo", "msgq"} /\ ~c.server => c.r = v.w /\ c.w = v.r
  /\ k = "bus" => c.w = v.l

\* What the setup of a server has opened, the names n0 and n1 still name.
Prepared(k, c, n0, n1) ==
  /\ c.server /\ k = "fifo" => (c.r # 0 => n0 = c.r) /\ (c.w # 0 => n1 = c.w)
  /\ c.server /\ k = "msgq" => (c.w # 0 => n0 = c.w) /\ (c.r # 0 => n1 = c.r)
  /\ k = "bus" => /\ c.todo # <<>> => c.w = 0
                  /\ c.l # 0 => /\ c.w \in {c.l, 0}
                                /\ c.todo \in {Start2, Bus1, <<>>} => n0 = c.l

\* What a system call that makes c2 of the call c, and m0 and m1 of the names n0 and n1,
\* keeps: a client's call still follows any server, a server's is still prepared.
Carries(k, c, c2, n0, n1, m0, m1) ==
  /\ \A v : Ended(k, v) /\ Leads(k, v) /\ NamesOf(k, v, n0, n1) /\ Follows(k, v, c)
            => NamesOf(k, v, m0, m1) /\ Follows(k, v, c2)
  /\ c.op = "open" /\ Prepared(k, c, n0, n1) => Prepared(k, c2, m0, m1)

\* The system calls that are left of opening a bus, told apart by the first of them.
LEMMA BusLists ==
  /\ Bus2 # Bus1 /\ Bus2 # <<>> /\ Bus1 # <<>>
  /\ Start5 \notin {Bus2, Bus1, <<>>, Start2} /\ Start4 \notin {Bus2, Bus1, <<>>, Start2}
  /\ Start3 \notin {Bus2, Bus1, <<>>, Start2} /\ Start2 \notin {Bus2, Bus1, <<>>}
<1>1. /\ Leaves(Bus2, "access", Bus1) /\ Leaves(Bus1, "connect", <<>>)
      /\ Leaves(Start5, "socket", Start4) /\ LeavesAt(Start4, "unlink", 0, Start3)
      /\ Leaves(Start3, "bind", Start2) /\ Leaves(Start2, "listen", Bus1)
  BY SetupLeaves
<1> QED  BY <1>1 DEF Leaves, LeavesAt

\* Where the setup of a bus is when a call is due.
LEMMA BusAt ==
  ASSUME NEW d, NEW c, NEW O, OpeningBus(d, c, O), NEW s, Due(c, s)
  PROVE  /\ s = "access" => c.todo = Bus2 /\ Tail(c.todo) = Bus1
         /\ s = "socket" => c.todo = Start5 /\ Tail(c.todo) = Start4
         /\ s = "unlink" => c.todo = Start4 /\ Tail(c.todo) = Start3
         /\ s = "bind" => c.todo = Start3 /\ Tail(c.todo) = Start2
         /\ s = "listen" => c.todo = Start2 /\ Tail(c.todo) = Bus1
         /\ s = "connect" => c.todo = Bus1 /\ Tail(c.todo) = <<>>
<1>1. /\ Leaves(Bus2, "access", Bus1) /\ Leaves(Bus1, "connect", <<>>)
      /\ Leaves(Start5, "socket", Start4) /\ LeavesAt(Start4, "unlink", 0, Start3)
      /\ Leaves(Start3, "bind", Start2) /\ Leaves(Start2, "listen", Bus1)
  BY SetupLeaves
<1>2. c.todo # <<>> /\ Head(c.todo)[1] = s
  BY DEF Due
<1>3. CASE c.todo = Bus2
  <2>1. s = "access"
    BY <1>1, <1>2, <1>3 DEF Leaves, LeavesAt
  <2> QED  BY <1>1, <1>3, <2>1 DEF Leaves, LeavesAt
<1>4. CASE c.todo = Start5
  <2>1. s = "socket"
    BY <1>1, <1>2, <1>4 DEF Leaves, LeavesAt
  <2> QED  BY <1>1, <1>4, <2>1 DEF Leaves, LeavesAt
<1>5. CASE c.todo = Start4
  <2>1. s = "unlink"
    BY <1>1, <1>2, <1>5 DEF Leaves, LeavesAt
  <2> QED  BY <1>1, <1>5, <2>1 DEF Leaves, LeavesAt
<1>6. CASE c.todo = Start3
  <2>1. s = "bind"
    BY <1>1, <1>2, <1>6 DEF Leaves, LeavesAt
  <2> QED  BY <1>1, <1>6, <2>1 DEF Leaves, LeavesAt
<1>7. CASE c.todo = Start2
  <2>1. s = "listen"
    BY <1>1, <1>2, <1>7 DEF Leaves, LeavesAt
  <2> QED  BY <1>1, <1>7, <2>1 DEF Leaves, LeavesAt
<1>8. CASE c.todo = Bus1
  <2>1. s = "connect"
    BY <1>1, <1>2, <1>8 DEF Leaves, LeavesAt
  <2> QED  BY <1>1, <1>8, <2>1 DEF Leaves, LeavesAt
<1> QED  BY <1>2, <1>3, <1>4, <1>5, <1>6, <1>7, <1>8, Zenon DEF OpeningBus

\* Only a server makes fifos, and does so before it opens one.
LEMMA FifoMaker ==
  ASSUME NEW d, NEW c, NEW O, OpeningFifo(d, c, O), c.server \in BOOLEAN,
         NEW s \in {"unlink", "mkfifo"}, Due(c, s)
  PROVE  c.server
<1>1. /\ LeavesFor(Fifo3(c.server), "open", OwnEnd(c.server), "r", Fifo2(c.server))
      /\ LeavesFor(Fifo2(c.server), "open", OtherEnd(c.server), "w", Fifo1)
      /\ Leaves(Fifo1, "setfl", <<>>)
  BY SetupLeaves
<1> QED  BY <1>1 DEF OpeningFifo, Due, Leaves, LeavesAt, LeavesFor

\* A close that follows a server has nothing due but the descriptors.
LEMMA Follower ==
  ASSUME NEW k, NEW v, NEW c, Follows(k, v, c), c.op = "close", NEW s, Due(c, s)
  PROVE  s = "close" /\ c.todo = Close1 /\ Tail(c.todo) = <<>>
<1>1. Leaves(Close1, "close", <<>>)
  BY TeardownLeaves
<1> QED  BY <1>1 DEF Follows, Due, Leaves

\* A name is made or goes: mkfifo and bind, unlink.
LEMMA CarriesName ==
  ASSUME NEW k \in Kinds, NEW d, NEW c, NEW O, NEW m, InCall(k, d, c, O, m), Called(c),
         NEW s \in {"unlink", "mkfifo", "bind"}, Due(c, s),
         NEW c2, Passes(c, c2, Tail(c.todo), c.r, c.w, c.l),
         NEW n0, NEW n1, NEW m0, NEW m1, s = "bind" => m0 = c.l
  PROVE  Carries(k, c, c2, n0, n1, m0, m1)
<1>1. DueFacts(k, d, c, O, s) /\ c.server \in BOOLEAN
  BY CallDue DEF Called
<1>2. /\ c2.op = c.op /\ c2.server = c.server /\ c2.todo = Tail(c.todo)
      /\ c2.r = c.r /\ c2.w = c.w /\ c2.l = c.l
  BY DEF Passes
<1>3. CASE c.op = "close"
  <2>1. \A v : ~Follows(k, v, c)
    BY <1>3, Follower
  <2> QED  BY <1>3, <2>1 DEF Carries
<1>4. CASE c.op = "open" /\ k = "bus"
  <2>1. OpeningBus(d, c, O) /\ s \in {"unlink", "bind"} /\ c.l # 0
    BY <1>1, <1>4 DEF InCall, Opening, DueFacts
  <2>2. \A v : ~Follows(k, v, c)
    BY <1>4, <2>1 DEF Follows
  <2>3. /\ s = "unlink" => c.todo = Start4 /\ Tail(c.todo) = Start3
        /\ s = "bind" => c.todo = Start3 /\ Tail(c.todo) = Start2
    BY <2>1, BusAt
  <2>4. ASSUME Prepared(k, c, n0, n1) PROVE Prepared(k, c2, m0, m1)
    <3>1. c.w = 0
      <4>1. c.todo # <<>>
        BY DEF Due
      <4> QED  BY <1>4, <2>4, <4>1 DEF Prepared
    <3>2. c2.todo \in {Start2, Bus1, <<>>} => m0 = c2.l
      BY <1>2, <2>1, <2>3, BusLists
    <3> QED  BY <1>2, <1>4, <3>1, <3>2 DEF Prepared
  <2> QED  BY <2>2, <2>4 DEF Carries
<1>5. CASE c.op = "open" /\ k # "bus"
  <2>1. k = "fifo" /\ c.r = 0 /\ c.w = 0 /\ s \in {"unlink", "mkfifo"}
    BY <1>1, <1>5 DEF DueFacts
  <2>2. c.server
    <3>1. OpeningFifo(d, c, O)
      BY <1>5, <2>1 DEF InCall, Opening
    <3> QED  BY <1>1, <2>1, <3>1, FifoMaker
  <2>3. \A v : ~Follows(k, v, c)
    BY <1>5, <2>1, <2>2 DEF Follows
  <2>4. Prepared(k, c2, m0, m1)
    BY <1>2, <2>1 DEF Prepared
  <2> QED  BY <2>3, <2>4 DEF Carries
<1>6. c.op \in {"open", "close"}
  BY DEF InCall
<1> QED  BY <1>3, <1>4, <1>5, <1>6

\* The file of a pair that is opened is an end of the server.
LEMMA CarriesOpen ==
  ASSUME NEW k \in Kinds, NEW d, NEW c, NEW O, NEW m, InCall(k, d, c, O, m), Called(c), Due(c, "open"),
         NEW n0, NEW n1, NEW o, o = (IF DueArg(c) = 0 THEN n0 ELSE n1), NEW c2,
         \/ DueRole(c) = "r" /\ Passes(c, c2, Tail(c.todo), o, c.w, c.l)
         \/ DueRole(c) = "w" /\ Passes(c, c2, Tail(c.todo), c.r, o, c.l)
  PROVE  Carries(k, c, c2, n0, n1, n0, n1)
<1>1. c.server \in BOOLEAN
  BY DEF Called
<1>2. /\ c.op = "open" /\ k = "fifo"
      /\ \/ DueRole(c) = "r" /\ DueArg(c) = OwnEnd(c.server) /\ c.w = 0 /\ c.r = 0
         \/ DueRole(c) = "w" /\ DueArg(c) = OtherEnd(c.server) /\ c.r # 0 /\ c.w = 0
  <2>1. DueFacts(k, d, c, O, "open")
    BY CallDue
  <2> QED  BY <2>1 DEF DueFacts
<1>3. /\ c2.op = "open" /\ c2.server = c.server
      /\ \/ DueRole(c) = "r" /\ c2.r = o /\ c2.w = c.w
         \/ DueRole(c) = "w" /\ c2.r = c.r /\ c2.w = o
  BY <1>2 DEF Passes
<1>4. ASSUME NEW v, NamesOf(k, v, n0, n1), Follows(k, v, c) PROVE Follows(k, v, c2)
  <2>1. ~c.server /\ c.r \in {v.w, 0} /\ c.w \in {v.r, 0} /\ n0 \in {v.r, 0} /\ n1 \in {v.w, 0}
    BY <1>2, <1>4 DEF Follows, NamesOf
  <2>2. c2.r \in {v.w, 0} /\ c2.w \in {v.r, 0}
    BY <1>2, <1>3, <2>1 DEF OwnEnd, OtherEnd
  <2> QED  BY <1>2, <1>3, <2>1, <2>2 DEF Follows
<1>5. ASSUME Prepared(k, c, n0, n1) PROVE Prepared(k, c2, n0, n1)
  <2>1. ASSUME c2.server PROVE (c2.r # 0 => n0 = c2.r) /\ (c2.w # 0 => n1 = c2.w)
    <3>1. c.server /\ (c.r # 0 => n0 = c.r)
      BY <1>2, <1>3, <1>5, <2>1 DEF Prepared
    <3> QED  BY <1>2, <1>3, <3>1 DEF OwnEnd, OtherEnd
  <2> QED  BY <1>2, <2>1 DEF Prepared
<1> QED  BY <1>4, <1>5 DEF Carries

\* The queue of a key that is looked up is an end of the server.
LEMMA CarriesGet ==
  ASSUME NEW k \in Kinds, NEW d, NEW c, NEW O, NEW m, InCall(k, d, c, O, m), Called(c), Due(c, "msgget"),
         NEW n0, NEW n1, NEW m0, NEW m1, NEW o,
         DueArg(c) = 0 => m0 = o /\ m1 = n1 /\ (n0 # 0 => o = n0),
         DueArg(c) = 1 => m1 = o /\ m0 = n0 /\ (n1 # 0 => o = n1), NEW c2,
         \/ DueRole(c) = "r" /\ Passes(c, c2, Tail(c.todo), o, c.w, c.l)
         \/ DueRole(c) = "w" /\ Passes(c, c2, Tail(c.todo), c.r, o, c.l)
  PROVE  Carries(k, c, c2, n0, n1, m0, m1)
<1>1. c.server \in BOOLEAN
  BY DEF Called
<1>2. /\ c.op = "open" /\ k = "msgq"
      /\ \/ DueRole(c) = "w" /\ DueArg(c) = OwnEnd(c.server)
         \/ DueRole(c) = "r" /\ DueArg(c) = OtherEnd(c.server)
  <2>1. DueFacts(k, d, c, O, "msgget")
    BY CallDue
  <2> QED  BY <2>1 DEF DueFacts
<1>3. /\ c2.op = "open" /\ c2.server = c.server
      /\ \/ DueRole(c) = "r" /\ c2.r = o /\ c2.w = c.w
         \/ DueRole(c) = "w" /\ c2.r = c.r /\ c2.w = o
  BY <1>2 DEF Passes
<1>4. ASSUME NEW v, Ended(k, v), NamesOf(k, v, n0, n1), Follows(k, v, c)
      PROVE  NamesOf(k, v, m0, m1) /\ Follows(k, v, c2)
  <2>1. /\ ~c.server /\ c.r \in {v.w, 0} /\ c.w \in {v.r, 0} /\ n0 = v.w /\ n1 = v.r
        /\ v.w # 0 /\ v.r # 0
    BY <1>2, <1>4 DEF Follows, NamesOf, Ended
  <2>2. c2.r \in {v.w, 0} /\ c2.w \in {v.r, 0} /\ m0 = v.w /\ m1 = v.r
    BY <1>2, <1>3, <2>1 DEF OwnEnd, OtherEnd
  <2> QED  BY <1>2, <1>3, <2>1, <2>2 DEF Follows, NamesOf
<1>5. ASSUME Prepared(k, c, n0, n1) PROVE Prepared(k, c2, m0, m1)
  <2>1. ASSUME c2.server PROVE (c2.w # 0 => m0 = c2.w) /\ (c2.r # 0 => m1 = c2.r)
    <3>1. c.server /\ (c.w # 0 => n0 = c.w) /\ (c.r # 0 => n1 = c.r)
      BY <1>2, <1>3, <1>5, <2>1 DEF Prepared
    <3> QED  BY <1>2, <1>3, <3>1 DEF OwnEnd, OtherEnd
  <2> QED  BY <1>2, <2>1 DEF Prepared
<1> QED  BY <1>4, <1>5 DEF Carries

\* A queue goes only when its server closes.
LEMMA CarriesRemove ==
  ASSUME NEW k \in Kinds, NEW d, NEW c, NEW O, NEW m, InCall(k, d, c, O, m), Called(c), Due(c, "rmid"),
         NEW c2, NEW n0, NEW n1, NEW m0, NEW m1
  PROVE  Carries(k, c, c2, n0, n1, m0, m1)
<1>1. c.op = "close"
  <2>1. DueFacts(k, d, c, O, "rmid")
    BY CallDue
  <2> QED  BY <2>1 DEF DueFacts
<1>2. \A v : ~Follows(k, v, c)
  <2>1. PICK s : s = "rmid"
    OBVIOUS
  <2>2. Due(c, s) /\ s # "close"
    BY <2>1
  <2> QED  BY <1>1, <2>2, Follower
<1> QED  BY <1>1, <1>2 DEF Carries

\* With the server's socket there, access does not start another.
LEMMA CarriesAccess ==
  ASSUME NEW k \in Kinds, NEW d, NEW c, NEW O, NEW m, InCall(k, d, c, O, m), Called(c), Due(c, "access"),
         NEW n0, NEW n1, NEW c2,
         Passes(c, c2, (IF n0 = 0 THEN StartServer ELSE <<>>) \o Tail(c.todo), c.r, c.w, c.l)
  PROVE  Carries(k, c, c2, n0, n1, n0, n1)
<1>1. c.op = "open" /\ k = "bus" /\ c.l = 0 /\ Tail(c.todo) = Bus1
  <2>1. DueFacts(k, d, c, O, "access")
    BY CallDue
  <2> QED  BY <2>1 DEF DueFacts
<1>2. c2.op = "open" /\ c2.r = c.r /\ c2.w = c.w /\ c2.l = 0 /\ c2.todo = IF n0 = 0 THEN Start5 ELSE Bus1
  BY <1>1, SetupIs DEF Passes
<1>3. ASSUME NEW v, Leads(k, v), NamesOf(k, v, n0, n1), Follows(k, v, c) PROVE Follows(k, v, c2)
  <2>1. n0 # 0
    BY <1>1, <1>3 DEF Leads, NamesOf
  <2> QED  BY <1>1, <1>2, <1>3, <2>1 DEF Follows
<1>4. ASSUME Prepared(k, c, n0, n1) PROVE Prepared(k, c2, n0, n1)
  <2>1. c.w = 0
    BY <1>1, <1>4 DEF Prepared, Due
  <2> QED  BY <1>1, <1>2, <2>1 DEF Prepared
<1> QED  BY <1>3, <1>4 DEF Carries

\* A client gets no socket to listen on.
LEMMA CarriesSocket ==
  ASSUME NEW k \in Kinds, NEW d, NEW c, NEW O, NEW m, InCall(k, d, c, O, m), Called(c), Due(c, "socket"),
         NEW n0, NEW n1, NEW o, NEW c2, Passes(c, c2, Tail(c.todo), c.r, c.w, o)
  PROVE  Carries(k, c, c2, n0, n1, n0, n1)
<1>1. c.op = "open" /\ k = "bus"
  <2>1. DueFacts(k, d, c, O, "socket")
    BY CallDue
  <2> QED  BY <2>1 DEF DueFacts
<1>2. c.todo = Start5 /\ Tail(c.todo) = Start4
  <2>1. OpeningBus(d, c, O)
    BY <1>1 DEF InCall, Opening
  <2>2. PICK s : s = "socket" /\ Due(c, s)
    OBVIOUS
  <2> QED  BY <2>1, <2>2, BusAt
<1>3. c2.op = "open" /\ c2.w = c.w /\ c2.todo = Start4
  BY <1>1, <1>2 DEF Passes
<1>4. \A v : ~Follows(k, v, c)
  BY <1>1, <1>2, BusLists DEF Follows
<1>5. ASSUME Prepared(k, c, n0, n1) PROVE Prepared(k, c2, n0, n1)
  <2>1. c.w = 0
    BY <1>1, <1>5 DEF Prepared, Due
  <2> QED  BY <1>1, <1>3, <2>1, BusLists DEF Prepared
<1> QED  BY <1>4, <1>5 DEF Carries

\* Whoever connects does so to the server whose socket is there.
LEMMA CarriesConnect ==
  ASSUME NEW k \in Kinds, NEW d, NEW c, NEW O, NEW m, InCall(k, d, c, O, m), Called(c), Due(c, "connect"),
         NEW n0, NEW n1, NEW c2, Passes(c, c2, Tail(c.todo), c.r, n0, c.l)
  PROVE  Carries(k, c, c2, n0, n1, n0, n1)
<1>1. c.op = "open" /\ k = "bus" /\ Tail(c.todo) = <<>>
  <2>1. DueFacts(k, d, c, O, "connect")
    BY CallDue
  <2> QED  BY <2>1 DEF DueFacts
<1>2. c.todo = Bus1
  <2>1. OpeningBus(d, c, O)
    BY <1>1 DEF InCall, Opening
  <2>2. PICK s : s = "connect" /\ Due(c, s)
    OBVIOUS
  <2> QED  BY <2>1, <2>2, BusAt
<1>3. c2.op = "open" /\ c2.w = n0 /\ c2.l = c.l /\ c2.todo = <<>>
  BY <1>1 DEF Passes
<1>4. ASSUME NEW v, NamesOf(k, v, n0, n1), Follows(k, v, c) PROVE Follows(k, v, c2)
  BY <1>1, <1>3, <1>4 DEF Follows, NamesOf
<1>5. ASSUME Prepared(k, c, n0, n1) PROVE Prepared(k, c2, n0, n1)
  BY <1>1, <1>2, <1>3, <1>5 DEF Prepared
<1> QED  BY <1>4, <1>5 DEF Carries

\* The calls that have nothing to do with names.
LEMMA CarriesQuiet ==
  ASSUME NEW k \in Kinds, NEW d, NEW c, NEW O, NEW m, InCall(k, d, c, O, m), Called(c),
         NEW s \in {"listen", "close", "ttyopen", "flock", "getattr", "setattr", "lines", "ttyclose"},
         Due(c, s), NEW n0, NEW n1, NEW c2, Passes(c, c2, Tail(c.todo), c.r, c.w, c.l)
  PROVE  Carries(k, c, c2, n0, n1, n0, n1)
<1>1. DueFacts(k, d, c, O, s)
  BY CallDue
<1>2. /\ c2.op = c.op /\ c2.server = c.server /\ c2.todo = Tail(c.todo)
      /\ c2.r = c.r /\ c2.w = c.w /\ c2.l = c.l
  BY DEF Passes
<1>3. CASE c.op = "close"
  <2>1. ASSUME NEW v, Follows(k, v, c) PROVE Follows(k, v, c2)
    <3>1. Tail(c.todo) = <<>>
      BY <1>3, <2>1, Follower
    <3> QED  BY <1>2, <1>3, <3>1 DEF Follows
  <2> QED  BY <1>3, <2>1 DEF Carries
<1>4. CASE c.op = "open" /\ s = "listen"
  <2>1. k = "bus" /\ c.l # 0
    BY <1>1, <1>4 DEF DueFacts
  <2>2. c.todo = Start2 /\ Tail(c.todo) = Bus1
    <3>1. OpeningBus(d, c, O)
      BY <1>4, <2>1 DEF InCall, Opening
    <3> QED  BY <1>4, <3>1, BusAt
  <2>3. \A v : ~Follows(k, v, c)
    BY <1>4, <2>1 DEF Follows
  <2>4. ASSUME Prepared(k, c, n0, n1) PROVE Prepared(k, c2, n0, n1)
    <3>1. c.w = 0 /\ n0 = c.l
      BY <2>1, <2>2, <2>4 DEF Prepared, Due
    <3> QED  BY <1>2, <2>1, <3>1 DEF Prepared
  <2> QED  BY <2>3, <2>4 DEF Carries
<1>5. CASE c.op = "open" /\ s # "listen"
  <2>1. k = "uart"
    BY <1>1, <1>5 DEF DueFacts
  <2>2. \A v : ~(Ended(k, v) /\ Leads(k, v))
    BY <2>1 DEF Ended, Leads
  <2>3. Prepared(k, c2, n0, n1)
    BY <2>1 DEF Prepared
  <2> QED  BY <2>2, <2>3 DEF Carries
<1>6. c.op \in {"open", "close"}
  BY DEF InCall
<1> QED  BY <1>3, <1>4, <1>5, <1>6

-----------------------------------------------------------------------------
\* A server among those that opened d since the last server did.
ServerAt(d, s) == s \in touch[d] /\ Leads(use[d].type, map[s].val[d])

\* The names of d are its ends, whoever opens d by now follows it, whoever opened d since joined it.
Served1(d, s) ==
  LET k == use[d].type
      v == map[s].val[d]
  IN /\ NamesOf(k, v, name[<<d, 0>>], name[<<d, 1>>])
     /\ \A q \in Procs : call[q].dev = d => Follows(k, v, call[q])
     /\ \A q \in touch[d] : Joins(k, v, map[q].val[d])

CleanOpen(c) == c.op = "open" /\ c.clean

\* The one call on d, which has met nobody.
Alone(d, p) ==
  /\ \A q \in Procs \ {p} : call[q].dev # d
  /\ Prepared(use[d].type, call[p], name[<<d, 0>>], name[<<d, 1>>])

Meeting(d) ==
  /\ \A q \in touch[d] : q \in Procs /\ d \in DOMAIN map[q].val /\ call[q].dev # d
  /\ \A s \in Procs : ServerAt(d, s) => Served1(d, s)
  /\ \A p \in Procs : CleanOpen(call[p]) /\ call[p].dev = d => Alone(d, p)

MeetInv == \A d \in Devices : Meeting(d)

\* A step leaves a call as clean as it was.
LEMMA CleanPut ==
  ASSUME NEW c, Called(c)
  PROVE  /\ \A t : [c EXCEPT !.todo = t].clean = c.clean
         /\ Next1(c).clean = c.clean
         /\ [c EXCEPT !.clean = FALSE].clean = FALSE
         /\ \A b : [Next1(c) EXCEPT !.old = b].clean = c.clean
         /\ \A o : /\ [Next1(c) EXCEPT !["r"] = o].clean = c.clean
                   /\ [Next1(c) EXCEPT !["w"] = o].clean = c.clean
                   /\ [Next1(c) EXCEPT !.w = o].clean = c.clean
                   /\ [Next1(c) EXCEPT !.l = o].clean = c.clean
<1>1. c = [op |-> c.op, dev |-> c.dev, todo |-> c.todo, server |-> c.server, clean |-> c.clean,
           r |-> c.r, w |-> c.w, l |-> c.l, old |-> c.old]
  BY DEF Called
<1>2. \A t : [c EXCEPT !.todo = t].clean = c.clean
  BY <1>1
<1>3. [c EXCEPT !.clean = FALSE].clean = FALSE
  BY <1>1
<1>4. Next1(c).clean = c.clean
  BY <1>2 DEF Next1
<1> DEFINE c1 == Next1(c)
<1>5. Called(c1)
  BY CallPut DEF Passes
<1> HIDE DEF c1
<1>6. c1 = [op |-> c1.op, dev |-> c1.dev, todo |-> c1.todo, server |-> c1.server, clean |-> c1.clean,
            r |-> c1.r, w |-> c1.w, l |-> c1.l, old |-> c1.old]
  BY <1>5 DEF Called
<1>7. \A b : [c1 EXCEPT !.old = b].clean = c1.clean
  BY <1>6
<1>8. \A o : /\ [c1 EXCEPT !["r"] = o].clean = c1.clean /\ [c1 EXCEPT !["w"] = o].clean = c1.clean
             /\ [c1 EXCEPT !.w = o].clean = c1.clean /\ [c1 EXCEPT !.l = o].clean = c1.clean
  BY <1>6
<1> QED  BY <1>2, <1>3, <1>4, <1>7, <1>8 DEF c1

\* The calls of the other processes go on as they were, and are no cleaner.
LEMMA OthersFollow ==
  ASSUME ChannelInv, NEW p \in Procs, Others(p), NEW q \in Procs \ {p}
  PROVE  /\ map'[q] = map[q]
         /\ call'[q].dev = call[q].dev /\ (CleanOpen(call'[q]) => CleanOpen(call[q]))
         /\ \A k, v : Follows(k, v, call[q]) => Follows(k, v, call'[q])
         /\ \A k, n0, n1 : Prepared(k, call[q], n0, n1) => Prepared(k, call'[q], n0, n1)
<1>1. Called(call[q])
  BY DEF ChannelInv, Proc, ProcInv
<1>2. map'[q] = map[q]
  BY DEF Others
<1> DEFINE c == call[q]
           c2 == call'[q]
<1>3. /\ c2.op = c.op /\ c2.dev = c.dev /\ c2.server = c.server /\ c2.todo = c.todo
      /\ c2.r = c.r /\ c2.w = c.w /\ c2.l = c.l /\ (c2.clean => c.clean)
  <2>1. CASE call'[q] = call[q]
    BY <2>1
  <2>2. CASE call'[q] = [call[q] EXCEPT !.clean = FALSE]
    BY <1>1, <2>2, CallPut, CleanPut DEF Passes
  <2> QED  BY <2>1, <2>2 DEF Others
<1> HIDE DEF c, c2
<1>4. /\ c2.dev = c.dev /\ (CleanOpen(c2) => CleanOpen(c))
      /\ \A k, v : Follows(k, v, c) => Follows(k, v, c2)
      /\ \A k, n0, n1 : Prepared(k, c, n0, n1) => Prepared(k, c2, n0, n1)
  BY <1>3 DEF CleanOpen, Follows, Prepared
<1> QED  BY <1>2, <1>4 DEF c, c2

\* The names of d are as they were.
Same(d) == name'[<<d, 0>>] = name[<<d, 0>>] /\ name'[<<d, 1>>] = name[<<d, 1>>]

\* What a step of p must see to on d: whoever stays among those that opened d has the
\* channel still; the names and p's own call keep to the servers; the names of d change by a
\* call on d only; who joins the calls on d makes the others unclean, and is clean alone.
StaysOpen(p, d) ==
  /\ touch'[d] \subseteq touch[d]
  /\ p \in touch'[d] => /\ d \in DOMAIN map'[p].val /\ map'[p].val[d] = map[p].val[d]
                        /\ call'[p].dev # d

KeepsTo(p, d) ==
  \A s \in touch'[d] : Leads(use[d].type, map[s].val[d]) =>
    /\ NamesOf(use[d].type, map[s].val[d], name'[<<d, 0>>], name'[<<d, 1>>])
    /\ call'[p].dev = d => Follows(use[d].type, map[s].val[d], call'[p])

Enters(p, d) ==
  (call'[p].dev = d /\ call[p].dev # d) => \A q \in Procs \ {p} : call'[q].dev = d => ~CleanOpen(call'[q])

CleanAlone(p, d) ==
  CleanOpen(call'[p]) /\ call'[p].dev = d =>
    /\ \A q \in Procs \ {p} : call[q].dev # d
    /\ Prepared(use[d].type, call'[p], name'[<<d, 0>>], name'[<<d, 1>>])

LEMMA MeetDevice ==
  ASSUME ChannelInv, NEW p \in Procs, Others(p), UNCHANGED use, NEW d \in Devices, Meeting(d),
         StaysOpen(p, d), KeepsTo(p, d), Same(d) \/ call[p].dev = d, Enters(p, d), CleanAlone(p, d)
  PROVE  Meeting(d)'
<1>1. ASSUME NEW q \in touch'[d]
      PROVE  /\ q \in Procs /\ q \in touch[d] /\ d \in DOMAIN map'[q].val
             /\ map'[q].val[d] = map[q].val[d] /\ call'[q].dev # d
  <2>1. q \in Procs /\ q \in touch[d] /\ d \in DOMAIN map[q].val /\ call[q].dev # d
    BY DEF StaysOpen, Meeting
  <2>2. CASE q = p
    BY <2>1, <2>2 DEF StaysOpen
  <2>3. CASE q # p
    BY <2>1, <2>3, OthersFollow
  <2> QED  BY <2>2, <2>3
<1>2. ASSUME NEW s \in Procs, ServerAt(d, s)' PROVE Served1(d, s)'
  <2> DEFINE k == use[d].type
             v == map[s].val[d]
  <2>1. s \in touch'[d] /\ map'[s].val[d] = v /\ Leads(k, v) /\ ServerAt(d, s)
    BY <1>1, <1>2 DEF ServerAt
  <2>2. /\ \A q \in Procs : call[q].dev = d => Follows(k, v, call[q])
        /\ \A q \in touch[d] : Joins(k, v, map[q].val[d])
    BY <2>1 DEF Meeting, Served1
  <2>3. /\ NamesOf(k, v, name'[<<d, 0>>], name'[<<d, 1>>])
        /\ call'[p].dev = d => Follows(k, v, call'[p])
    BY <2>1 DEF KeepsTo
  <2> HIDE DEF k, v
  <2>4. ASSUME NEW q \in Procs, call'[q].dev = d PROVE Follows(k, v, call'[q])
    <3>1. CASE q = p
      BY <2>3, <2>4, <3>1
    <3>2. CASE q # p
      BY <2>2, <2>4, <3>2, OthersFollow
    <3> QED  BY <3>1, <3>2
  <2>5. \A q \in touch'[d] : Joins(k, v, map'[q].val[d])
    BY <1>1, <2>2
  <2> QED  BY <2>1, <2>3, <2>4, <2>5 DEF Served1, k, v
<1>3. ASSUME NEW q \in Procs, CleanOpen(call'[q]), call'[q].dev = d PROVE Alone(d, q)'
  <2>1. CASE q = p
    <3>1. \A r \in Procs \ {p} : call'[r].dev # d
      BY <1>3, <2>1, OthersFollow DEF CleanAlone
    <3> QED  BY <1>3, <2>1, <3>1 DEF CleanAlone, Alone
  <2>2. CASE q # p
    <3>1. CleanOpen(call[q]) /\ call[q].dev = d
      BY <1>3, <2>2, OthersFollow
    <3>2. Alone(d, q)
      BY <3>1 DEF Meeting
    <3>3. call[p].dev # d /\ Same(d)
      BY <2>2, <3>2 DEF Alone
    <3>4. call'[p].dev # d
      BY <1>3, <2>2, <3>3 DEF Enters
    <3>5. \A r \in Procs \ {q} : call'[r].dev # d
      BY <3>2, <3>4, OthersFollow DEF Alone
    <3>6. Prepared(use[d].type, call'[q], name[<<d, 0>>], name[<<d, 1>>])
      BY <2>2, <3>2, OthersFollow DEF Alone
    <3> QED  BY <3>3, <3>5, <3>6 DEF Alone, Same
  <2> QED  BY <2>1, <2>2
<1>4. \A q \in Procs : CleanOpen(call[q])' <=> CleanOpen(call'[q])
  BY DEF CleanOpen
<1> QED  BY <1>1, <1>2, <1>3, <1>4 DEF Meeting

\* A server's channel has its ends.
LEMMA ServerEnded ==
  ASSUME ChannelInv, NEW d \in Devices, Meeting(d), NEW s \in touch[d], Leads(use[d].type, map[s].val[d])
  PROVE  s \in Procs /\ Ended(use[d].type, map[s].val[d]) /\ Served1(d, s)
<1>1. s \in Procs /\ d \in DOMAIN map[s].val /\ (ServerAt(d, s) => Served1(d, s))
  BY DEF Meeting
<1>2. Proc(s)
  BY <1>1 DEF ChannelInv
<1> QED  BY <1>1, <1>2 DEF ServerAt, Proc, ProcInv

\* A device that p has no call on when the step is done.
LEMMA MeetAway ==
  ASSUME ChannelInv, NEW p \in Procs, Others(p), UNCHANGED use, NEW d \in Devices, Meeting(d),
         StaysOpen(p, d), call'[p].dev # d,
         \/ Same(d)
         \/ /\ call[p].dev = d
            /\ \A v : /\ Ended(use[d].type, v) /\ Leads(use[d].type, v)
                      /\ NamesOf(use[d].type, v, name[<<d, 0>>], name[<<d, 1>>])
                      /\ Follows(use[d].type, v, call[p])
                      => NamesOf(use[d].type, v, name'[<<d, 0>>], name'[<<d, 1>>])
  PROVE  Meeting(d)'
<1>1. ASSUME NEW s \in touch'[d], Leads(use[d].type, map[s].val[d])
      PROVE  NamesOf(use[d].type, map[s].val[d], name'[<<d, 0>>], name'[<<d, 1>>])
  <2>1. s \in touch[d]
    BY DEF StaysOpen
  <2>2. Ended(use[d].type, map[s].val[d]) /\ Served1(d, s)
    BY <1>1, <2>1, ServerEnded
  <2>3. /\ NamesOf(use[d].type, map[s].val[d], name[<<d, 0>>], name[<<d, 1>>])
        /\ call[p].dev = d => Follows(use[d].type, map[s].val[d], call[p])
    BY <2>2 DEF Served1
  <2>4. CASE Same(d)
    BY <2>3, <2>4 DEF Same
  <2>5. PICK v : v = map[s].val[d]
    OBVIOUS
  <2> QED  BY <1>1, <2>2, <2>3, <2>4, <2>5
<1>2. KeepsTo(p, d)
  BY <1>1 DEF KeepsTo
<1>3. Enters(p, d) /\ CleanAlone(p, d)
  BY DEF Enters, CleanAlone
<1> QED  BY <1>2, <1>3, MeetDevice

\* A system call.
LEMMA MeetSystem ==
  ASSUME ChannelInv, MeetInv, NEW p \in Procs, Others(p), UNCHANGED use, UNCHANGED touch, UNCHANGED map,
         NEW c2, call'[p] = c2, c2.op = call[p].op, c2.dev = call[p].dev, c2.clean = call[p].clean,
         NEW d \in Devices, d = call[p].dev, \A e \in Devices \ {d} : Same(e),
         Carries(use[d].type, call[p], c2, name[<<d, 0>>], name[<<d, 1>>], name'[<<d, 0>>], name'[<<d, 1>>])
  PROVE  MeetInv'
<1>1. ASSUME NEW e \in Devices \ {d} PROVE Meeting(e)'
  <2>1. Meeting(e) /\ call'[p].dev # e /\ Same(e)
    BY DEF MeetInv
  <2>2. StaysOpen(p, e)
    BY <2>1 DEF StaysOpen, Meeting
  <2> QED  BY <2>1, <2>2, MeetAway
<1>2. Meeting(d)'
  <2>1. Meeting(d) /\ p \notin touch[d]
    BY DEF MeetInv, Meeting
  <2>2. StaysOpen(p, d) /\ Enters(p, d)
    BY <2>1 DEF StaysOpen, Enters
  <2>3. KeepsTo(p, d)
    <3>1. ASSUME NEW s \in touch[d], Leads(use[d].type, map[s].val[d])
          PROVE  /\ NamesOf(use[d].type, map[s].val[d], name'[<<d, 0>>], name'[<<d, 1>>])
                 /\ Follows(use[d].type, map[s].val[d], c2)
      <4>1. Ended(use[d].type, map[s].val[d]) /\ Served1(d, s)
        BY <2>1, <3>1, ServerEnded
      <4>2. /\ NamesOf(use[d].type, map[s].val[d], name[<<d, 0>>], name[<<d, 1>>])
            /\ Follows(use[d].type, map[s].val[d], call[p])
        BY <4>1 DEF Served1
      <4>3. PICK v : v = map[s].val[d]
        OBVIOUS
      <4> QED  BY <3>1, <4>1, <4>2, <4>3 DEF Carries
    <3> QED  BY <3>1 DEF KeepsTo
  <2>4. CleanAlone(p, d)
    <3>1. ASSUME CleanOpen(c2)
          PROVE  /\ \A q \in Procs \ {p} : call[q].dev # d
                 /\ Prepared(use[d].type, c2, name'[<<d, 0>>], name'[<<d, 1>>])
      <4>1. CleanOpen(call[p])
        BY <3>1 DEF CleanOpen
      <4>2. Alone(d, p)
        BY <2>1, <4>1 DEF Meeting
      <4> QED  BY <4>1, <4>2 DEF Alone, Carries, CleanOpen
    <3> QED  BY <3>1 DEF CleanAlone
  <2> QED  BY <2>1, <2>2, <2>3, <2>4, MeetDevice
<1> QED  BY <1>1, <1>2 DEF MeetInv

\* A step after which p has no call at all.
LEMMA MeetIdle ==
  ASSUME ChannelInv, MeetInv, NEW p \in Procs, Others(p), UNCHANGED use, call'[p] = Idle,
         \A d \in Devices : /\ touch'[d] \subseteq touch[d]
                            /\ p \in touch'[d] /\ d \in DOMAIN map[p].val /\ call[p].dev # d
                               => d \in DOMAIN map'[p].val /\ map'[p].val[d] = map[p].val[d],
         \A d \in Devices :
           \/ Same(d)
           \/ /\ call[p].dev = d
              /\ \A v : /\ Ended(use[d].type, v) /\ Leads(use[d].type, v)
                        /\ NamesOf(use[d].type, v, name[<<d, 0>>], name[<<d, 1>>])
                        /\ Follows(use[d].type, v, call[p])
                        => NamesOf(use[d].type, v, name'[<<d, 0>>], name'[<<d, 1>>])
  PROVE  MeetInv'
<1>1. \A d \in Devices : call'[p].dev # d
  BY NullAssumption DEF Idle
<1>2. ASSUME NEW d \in Devices PROVE Meeting(d)'
  <2>1. Meeting(d)
    BY DEF MeetInv
  <2>2. StaysOpen(p, d)
    BY <1>1, <2>1 DEF StaysOpen, Meeting
  <2> QED  BY <1>1, <2>1, <2>2, MeetAway
<1> QED  BY <1>2 DEF MeetInv

-----------------------------------------------------------------------------
LEMMA MeetUnlink == ASSUME ChannelInv, MeetInv, NEW p \in Procs, Unlink(p) PROVE MeetInv'
<1>1. PICK d : d = Dev(p)
  OBVIOUS
<1> DEFINE c2 == Next1(call[p])
<1>2. /\ At(p, "unlink") /\ UNCHANGED use /\ UNCHANGED fds /\ UNCHANGED manager /\ UNCHANGED history
      /\ name' = [name EXCEPT ![<<d, Arg(p)>>] = 0] /\ call' = [call EXCEPT ![p] = c2]
  BY <1>1, Zenon DEF Unlink, Advance
<1>3. Passes(call[p], c2, Tail(call[p].todo), call[p].r, call[p].w, call[p].l) /\ c2.clean = call[p].clean
  BY <1>2, Acts, CallPut, CleanPut
<1> HIDE DEF c2
<1>4. Others(p) /\ call'[p] = c2 /\ touch' = touch /\ map' = map
  BY <1>2, OnlyCall DEF history, manager
<1>5. d \in Devices /\ d = call[p].dev
  BY <1>1, <1>2, Acts DEF Dev
<1>6. \A e \in Devices \ {d} : Same(e)
  BY <1>2 DEF Same, ChannelInv, KernelOK
<1>7. Carries(use[d].type, call[p], c2, name[<<d, 0>>], name[<<d, 1>>], name'[<<d, 0>>], name'[<<d, 1>>])
  <2>1. PICK s \in {"unlink", "mkfifo", "bind"} : s = "unlink" /\ At(p, s) /\ s # "bind"
    BY <1>2
  <2>2. PICK m : m = map[p]
    OBVIOUS
  <2>3. /\ InCall(use[d].type, d, call[p], Own(fds[p], d), m) /\ Called(call[p]) /\ Due(call[p], s)
        /\ use[d].type \in Kinds
    BY <1>1, <2>1, <2>2, Acts
  <2> QED  BY <1>3, <2>1, <2>3, CarriesName
<1>8. c2.op = call[p].op /\ c2.dev = call[p].dev
  BY <1>3 DEF Passes
<1> QED  BY <1>2, <1>3, <1>4, <1>5, <1>6, <1>7, <1>8, MeetSystem

LEMMA MeetMakeName == ASSUME ChannelInv, MeetInv, NEW p \in Procs, MakeName(p) PROVE MeetInv'
<1>1. PICK d : d = Dev(p)
  OBVIOUS
<1> DEFINE e0 == IF At(p, "bind") THEN 0 ELSE Arg(p)
           o == IF At(p, "bind") THEN call[p].l ELSE Fresh
           c2 == Next1(call[p])
<1>2. /\ UNCHANGED use /\ UNCHANGED fds /\ UNCHANGED manager /\ UNCHANGED history
      /\ name' = [name EXCEPT ![<<d, e0>>] = o] /\ call' = [call EXCEPT ![p] = c2]
      /\ At(p, "mkfifo") \/ At(p, "bind")
  BY <1>1, Zenon DEF MakeName, Advance
<1>3. PICK s \in {"unlink", "mkfifo", "bind"} : At(p, s) /\ (s = "bind" => e0 = 0 /\ o = call[p].l)
  BY <1>2
<1>4. Passes(call[p], c2, Tail(call[p].todo), call[p].r, call[p].w, call[p].l) /\ c2.clean = call[p].clean
  BY <1>3, Acts, CallPut, CleanPut
<1> HIDE DEF c2, e0, o
<1>5. Others(p) /\ call'[p] = c2 /\ touch' = touch /\ map' = map
  BY <1>2, OnlyCall DEF history, manager
<1>6. d \in Devices /\ d = call[p].dev
  BY <1>1, <1>3, Acts DEF Dev
<1>7. \A e \in Devices \ {d} : Same(e)
  BY <1>2 DEF Same, ChannelInv, KernelOK
<1>8. Carries(use[d].type, call[p], c2, name[<<d, 0>>], name[<<d, 1>>], name'[<<d, 0>>], name'[<<d, 1>>])
  <2>1. s = "bind" => name'[<<d, 0>>] = call[p].l
    BY <1>2, <1>3, <1>6 DEF ChannelInv, KernelOK
  <2>2. PICK m : m = map[p]
    OBVIOUS
  <2>3. /\ InCall(use[d].type, d, call[p], Own(fds[p], d), m) /\ Called(call[p]) /\ Due(call[p], s)
        /\ use[d].type \in Kinds
    BY <1>1, <1>3, <2>2, Acts
  <2> QED  BY <1>4, <2>1, <2>3, CarriesName
<1>9. c2.op = call[p].op /\ c2.dev = call[p].dev
  BY <1>4 DEF Passes
<1> QED  BY <1>2, <1>4, <1>5, <1>6, <1>7, <1>8, <1>9, MeetSystem

\* What a call that has got an end becomes.
LEMMA GotEnd ==
  ASSUME NEW c, Called(c), NEW role \in {"r", "w"}, NEW o \in Objects \cup {0},
         NEW c2, c2 = [Next1(c) EXCEPT ![role] = o]
  PROVE  /\ \/ role = "r" /\ Passes(c, c2, Tail(c.todo), o, c.w, c.l)
            \/ role = "w" /\ Passes(c, c2, Tail(c.todo), c.r, o, c.l)
         /\ c2.clean = c.clean
<1>1. CASE role = "r"
  <2>1. c2 = [Next1(c) EXCEPT !["r"] = o]
    BY <1>1, Zenon
  <2>2. Passes(c, [Next1(c) EXCEPT !["r"] = o], Tail(c.todo), o, c.w, c.l)
    BY CallPut
  <2>3. [Next1(c) EXCEPT !["r"] = o].clean = c.clean
    BY CleanPut
  <2> QED  BY <1>1, <2>1, <2>2, <2>3, Zenon
<1>2. CASE role = "w"
  <2>1. c2 = [Next1(c) EXCEPT !["w"] = o]
    BY <1>2, Zenon
  <2>2. Passes(c, [Next1(c) EXCEPT !["w"] = o], Tail(c.todo), c.r, o, c.l)
    BY CallPut
  <2>3. [Next1(c) EXCEPT !["w"] = o].clean = c.clean
    BY CleanPut
  <2> QED  BY <1>2, <2>1, <2>2, <2>3, Zenon
<1> QED  BY <1>1, <1>2

LEMMA MeetOpenEnd == ASSUME ChannelInv, MeetInv, NEW p \in Procs, OpenEnd(p) PROVE MeetInv'
<1>1. PICK d : d = Dev(p)
  OBVIOUS
<1> DEFINE o == name[<<d, Arg(p)>>]
           role == Head(call[p].todo)[3]
           c2 == [Next1(call[p]) EXCEPT ![role] = o]
<1>2. /\ At(p, "open") /\ UNCHANGED use /\ UNCHANGED name /\ UNCHANGED manager /\ UNCHANGED history
      /\ (\E F2 : fds' = [fds EXCEPT ![p] = F2]) /\ call' = [call EXCEPT ![p] = c2]
  BY <1>1, Zenon DEF OpenEnd
<1>3. role = DueRole(call[p])
  BY DEF DueRole
<1>4. c2 = [Next1(call[p]) EXCEPT ![role] = o]
  OBVIOUS
<1> HIDE DEF role, c2, o
<1>5. Others(p) /\ call'[p] = c2 /\ touch' = touch /\ map' = map
  BY <1>2, OnlyCall DEF history, manager
<1>6. d \in Devices /\ d = call[p].dev /\ Called(call[p]) /\ role \in {"r", "w"} /\ Arg(p) \in {0, 1}
      /\ Arg(p) = DueArg(call[p])
  <2>1. DueFacts(use[d].type, d, call[p], Own(fds[p], d), "open") /\ d \in Devices /\ Called(call[p])
        /\ Arg(p) = DueArg(call[p])
    BY <1>1, <1>2, Acts
  <2>2. DueRole(call[p]) \in {"r", "w"} /\ DueArg(call[p]) \in {0, 1}
    BY <2>1 DEF DueFacts, OwnEnd, OtherEnd
  <2> QED  BY <1>1, <1>3, <2>1, <2>2 DEF Dev
<1>7. o \in Objects \cup {0}
  BY <1>6 DEF ChannelInv, KernelOK, o
<1>8. /\ \/ role = "r" /\ Passes(call[p], c2, Tail(call[p].todo), o, call[p].w, call[p].l)
         \/ role = "w" /\ Passes(call[p], c2, Tail(call[p].todo), call[p].r, o, call[p].l)
      /\ c2.clean = call[p].clean
  BY <1>4, <1>6, <1>7, GotEnd
<1>9. \A e \in Devices : Same(e)
  BY <1>2 DEF Same
<1>10. Carries(use[d].type, call[p], c2, name[<<d, 0>>], name[<<d, 1>>], name'[<<d, 0>>], name'[<<d, 1>>])
  <2>1. o = IF DueArg(call[p]) = 0 THEN name[<<d, 0>>] ELSE name[<<d, 1>>]
    BY <1>6 DEF o
  <2>2. PICK m : m = map[p]
    OBVIOUS
  <2>3. /\ InCall(use[d].type, d, call[p], Own(fds[p], d), m) /\ Due(call[p], "open")
        /\ use[d].type \in Kinds
    BY <1>1, <1>2, <2>2, Acts
  <2>4. Carries(use[d].type, call[p], c2, name[<<d, 0>>], name[<<d, 1>>], name[<<d, 0>>], name[<<d, 1>>])
    BY <1>3, <1>6, <1>8, <2>1, <2>3, CarriesOpen
  <2> QED  BY <1>2, <2>4
<1>11. c2.op = call[p].op /\ c2.dev = call[p].dev
  BY <1>8 DEF Passes
<1> QED  BY <1>2, <1>5, <1>6, <1>8, <1>9, <1>10, <1>11, MeetSystem

LEMMA MeetMsgGet == ASSUME ChannelInv, MeetInv, NEW p \in Procs, MsgGet(p) PROVE MeetInv'
<1>1. PICK d : d = Dev(p)
  OBVIOUS
<1> DEFINE x == <<d, Arg(p)>>
           o == IF name[x] = 0 THEN Fresh ELSE name[x]
           role == Head(call[p].todo)[3]
           c2 == [Next1(call[p]) EXCEPT ![role] = o]
<1>2. /\ At(p, "msgget") /\ UNCHANGED use /\ UNCHANGED fds /\ UNCHANGED manager /\ UNCHANGED history
      /\ name[x] # 0 \/ Room
      /\ name' = [name EXCEPT ![x] = o] /\ call' = [call EXCEPT ![p] = c2]
  BY <1>1, Zenon DEF MsgGet
<1>3. role = DueRole(call[p]) /\ (name[x] # 0 => o = name[x]) /\ (name[x] = 0 => o = Fresh)
  BY DEF DueRole
<1>4. c2 = [Next1(call[p]) EXCEPT ![role] = o] /\ x = <<d, Arg(p)>>
  OBVIOUS
<1> HIDE DEF role, c2, o, x
<1>5. Others(p) /\ call'[p] = c2 /\ touch' = touch /\ map' = map
  BY <1>2, OnlyCall DEF history, manager
<1>6. d \in Devices /\ d = call[p].dev /\ Called(call[p]) /\ role \in {"r", "w"} /\ Arg(p) \in {0, 1}
      /\ Arg(p) = DueArg(call[p])
  <2>1. DueFacts(use[d].type, d, call[p], Own(fds[p], d), "msgget") /\ d \in Devices /\ Called(call[p])
        /\ Arg(p) = DueArg(call[p])
    BY <1>1, <1>2, Acts
  <2>2. DueRole(call[p]) \in {"r", "w"} /\ DueArg(call[p]) \in {0, 1}
    BY <2>1 DEF DueFacts, OwnEnd, OtherEnd
  <2> QED  BY <1>1, <1>3, <2>1, <2>2 DEF Dev
<1>7. o \in Objects \cup {0}
  <2>1. name[x] \in Objects \cup {0}
    BY <1>4, <1>6 DEF ChannelInv, KernelOK
  <2> QED  BY <1>2, <1>3, <2>1, RoomFresh
<1>8. /\ \/ role = "r" /\ Passes(call[p], c2, Tail(call[p].todo), o, call[p].w, call[p].l)
         \/ role = "w" /\ Passes(call[p], c2, Tail(call[p].todo), call[p].r, o, call[p].l)
      /\ c2.clean = call[p].clean
  BY <1>4, <1>6, <1>7, GotEnd
<1>9. \A e \in Devices \ {d} : Same(e)
  BY <1>2, <1>4 DEF Same, ChannelInv, KernelOK
<1>10. Carries(use[d].type, call[p], c2, name[<<d, 0>>], name[<<d, 1>>], name'[<<d, 0>>], name'[<<d, 1>>])
  <2>1. /\ DueArg(call[p]) = 0 => /\ name'[<<d, 0>>] = o /\ name'[<<d, 1>>] = name[<<d, 1>>]
                                  /\ name[<<d, 0>>] # 0 => o = name[<<d, 0>>]
        /\ DueArg(call[p]) = 1 => /\ name'[<<d, 1>>] = o /\ name'[<<d, 0>>] = name[<<d, 0>>]
                                  /\ name[<<d, 1>>] # 0 => o = name[<<d, 1>>]
    BY <1>2, <1>3, <1>4, <1>6 DEF ChannelInv, KernelOK
  <2>2. PICK m, n0, n1, m0, m1 : /\ m = map[p] /\ n0 = name[<<d, 0>>] /\ n1 = name[<<d, 1>>]
                                 /\ m0 = name'[<<d, 0>>] /\ m1 = name'[<<d, 1>>]
    OBVIOUS
  <2>3. /\ InCall(use[d].type, d, call[p], Own(fds[p], d), m) /\ Due(call[p], "msgget")
        /\ use[d].type \in Kinds
    BY <1>1, <1>2, <2>2, Acts
  <2>4. Carries(use[d].type, call[p], c2, n0, n1, m0, m1)
    <3>1. /\ DueArg(call[p]) = 0 => m0 = o /\ m1 = n1 /\ (n0 # 0 => o = n0)
          /\ DueArg(call[p]) = 1 => m1 = o /\ m0 = n0 /\ (n1 # 0 => o = n1)
      BY <2>1, <2>2
    <3>2. \/ DueRole(call[p]) = "r" /\ Passes(call[p], c2, Tail(call[p].todo), o, call[p].w, call[p].l)
          \/ DueRole(call[p]) = "w" /\ Passes(call[p], c2, Tail(call[p].todo), call[p].r, o, call[p].l)
      BY <1>3, <1>8
    <3> QED  BY <1>6, <2>3, <3>1, <3>2, CarriesGet
  <2> QED  BY <2>2, <2>4
<1>11. c2.op = call[p].op /\ c2.dev = call[p].dev
  BY <1>8 DEF Passes
<1> QED  BY <1>2, <1>5, <1>6, <1>8, <1>9, <1>10, <1>11, MeetSystem

\* The queues of another device are others.
LEMMA MeetRmId == ASSUME ChannelInv, FreshInv, MeetInv, NEW p \in Procs, RmId(p) PROVE MeetInv'
<1>1. PICK d : d = Dev(p)
  OBVIOUS
<1> DEFINE c2 == Next1(call[p])
<1>2. /\ At(p, "rmid") /\ UNCHANGED use /\ UNCHANGED fds /\ UNCHANGED manager /\ UNCHANGED history
      /\ name' = [x \in DOMAIN name |-> IF name[x] = Arg(p) THEN 0 ELSE name[x]]
      /\ call' = [call EXCEPT ![p] = c2]
  BY Zenon DEF RmId, Advance
<1>3. Passes(call[p], c2, Tail(call[p].todo), call[p].r, call[p].w, call[p].l) /\ c2.clean = call[p].clean
  BY <1>2, Acts, CallPut, CleanPut
<1> HIDE DEF c2
<1>4. Others(p) /\ call'[p] = c2 /\ touch' = touch /\ map' = map
  BY <1>2, OnlyCall DEF history, manager
<1>5. d \in Devices /\ d = call[p].dev /\ Arg(p) \in Refs(d)
  <2>1. DueFacts(use[d].type, d, call[p], Own(fds[p], d), "rmid") /\ d \in Devices
        /\ Arg(p) = DueArg(call[p]) /\ d = call[p].dev
    BY <1>1, <1>2, Acts DEF Dev
  <2>2. Arg(p) \in CallRefs(call[p], d)
    BY <2>1 DEF DueFacts, CallRefs
  <2> QED  BY <2>1, <2>2, RefsHas
<1>6. ASSUME NEW e \in Devices \ {d} PROVE Same(e)
  <2>1. name[<<e, 0>>] \in Refs(e) /\ name[<<e, 1>>] \in Refs(e)
    BY RefsHas
  <2>2. Refs(d) \cap Refs(e) \subseteq {0}
    BY <1>5 DEF FreshInv, Apart
  <2>3. <<e, 0>> \in DOMAIN name /\ <<e, 1>> \in DOMAIN name
    BY DEF ChannelInv, KernelOK
  <2> QED  BY <1>2, <1>5, <2>1, <2>2, <2>3 DEF Same
<1>7. Carries(use[d].type, call[p], c2, name[<<d, 0>>], name[<<d, 1>>], name'[<<d, 0>>], name'[<<d, 1>>])
  <2>1. PICK m, m0, m1 : m = map[p] /\ m0 = name'[<<d, 0>>] /\ m1 = name'[<<d, 1>>]
    OBVIOUS
  <2>2. /\ InCall(use[d].type, d, call[p], Own(fds[p], d), m) /\ Called(call[p]) /\ Due(call[p], "rmid")
        /\ use[d].type \in Kinds
    BY <1>1, <1>2, <2>1, Acts
  <2>3. Carries(use[d].type, call[p], c2, name[<<d, 0>>], name[<<d, 1>>], m0, m1)
    BY <2>2, CarriesRemove
  <2> QED  BY <2>1, <2>3
<1>8. c2.op = call[p].op /\ c2.dev = call[p].dev
  BY <1>3 DEF Passes
<1> QED  BY <1>2, <1>3, <1>4, <1>5, <1>6, <1>7, <1>8, MeetSystem

LEMMA MeetAccess == ASSUME ChannelInv, MeetInv, NEW p \in Procs, Access(p) PROVE MeetInv'
<1>1. PICK d : d = Dev(p)
  OBVIOUS
<1> DEFINE t == (IF name[<<d, 0>>] = 0 THEN StartServer ELSE <<>>) \o Tail(call[p].todo)
           c2 == [call[p] EXCEPT !.todo = t]
<1>2. /\ At(p, "access") /\ UNCHANGED use /\ UNCHANGED kernel /\ UNCHANGED manager
      /\ UNCHANGED history /\ call' = [call EXCEPT ![p] = c2]
  BY <1>1, Zenon DEF Access
<1>3. Passes(call[p], c2, t, call[p].r, call[p].w, call[p].l) /\ c2.clean = call[p].clean
  <2>1. Called(call[p])
    BY <1>2, Acts
  <2> HIDE DEF t
  <2>2. Passes(call[p], c2, t, call[p].r, call[p].w, call[p].l)
    BY <2>1, CallPut
  <2>3. c2.clean = call[p].clean
    BY <2>1, CleanPut
  <2> QED  BY <2>2, <2>3
<1> HIDE DEF c2
<1>4. Others(p) /\ call'[p] = c2 /\ touch' = touch /\ map' = map /\ name' = name
  <2>1. fds' = fds
    BY <1>2 DEF kernel
  <2> QED  BY <1>2, <2>1, OnlyCall DEF history, manager, kernel
<1>5. d \in Devices /\ d = call[p].dev
  BY <1>1, <1>2, Acts DEF Dev
<1>6. \A e \in Devices : Same(e)
  BY <1>4 DEF Same
<1>7. Carries(use[d].type, call[p], c2, name[<<d, 0>>], name[<<d, 1>>], name'[<<d, 0>>], name'[<<d, 1>>])
  <2>1. PICK m : m = map[p]
    OBVIOUS
  <2>2. /\ InCall(use[d].type, d, call[p], Own(fds[p], d), m) /\ Called(call[p]) /\ Due(call[p], "access")
        /\ use[d].type \in Kinds
    BY <1>1, <1>2, <2>1, Acts
  <2>3. Carries(use[d].type, call[p], c2, name[<<d, 0>>], name[<<d, 1>>], name[<<d, 0>>], name[<<d, 1>>])
    BY <1>3, <2>2, CarriesAccess
  <2> QED  BY <1>4, <2>3
<1>8. c2.op = call[p].op /\ c2.dev = call[p].dev
  BY <1>3 DEF Passes
<1> QED  BY <1>2, <1>3, <1>4, <1>5, <1>6, <1>7, <1>8, MeetSystem

LEMMA MeetSocket == ASSUME ChannelInv, MeetInv, NEW p \in Procs, Socket(p) PROVE MeetInv'
<1>1. PICK d : d = Dev(p)
  OBVIOUS
<1> DEFINE c2 == [Next1(call[p]) EXCEPT !.l = Fresh]
<1>2. /\ At(p, "socket") /\ Room /\ UNCHANGED use /\ UNCHANGED name /\ UNCHANGED manager
      /\ UNCHANGED history /\ call' = [call EXCEPT ![p] = c2] /\ \E F2 : fds' = [fds EXCEPT ![p] = F2]
  BY Zenon DEF Socket
<1>3. Passes(call[p], c2, Tail(call[p].todo), call[p].r, call[p].w, Fresh) /\ c2.clean = call[p].clean
  BY <1>2, Acts, RoomFresh, CallPut, CleanPut
<1> HIDE DEF c2
<1>4. Others(p) /\ call'[p] = c2 /\ touch' = touch /\ map' = map
  BY <1>2, OnlyCall DEF history, manager
<1>5. d \in Devices /\ d = call[p].dev
  BY <1>1, <1>2, Acts DEF Dev
<1>6. \A e \in Devices : Same(e)
  BY <1>2 DEF Same
<1>7. Carries(use[d].type, call[p], c2, name[<<d, 0>>], name[<<d, 1>>], name'[<<d, 0>>], name'[<<d, 1>>])
  <2>1. PICK m : m = map[p]
    OBVIOUS
  <2>2. /\ InCall(use[d].type, d, call[p], Own(fds[p], d), m) /\ Called(call[p]) /\ Due(call[p], "socket")
        /\ use[d].type \in Kinds
    BY <1>1, <1>2, <2>1, Acts
  <2>3. Carries(use[d].type, call[p], c2, name[<<d, 0>>], name[<<d, 1>>], name[<<d, 0>>], name[<<d, 1>>])
    BY <1>3, <2>2, CarriesSocket
  <2> QED  BY <1>2, <2>3
<1>8. c2.op = call[p].op /\ c2.dev = call[p].dev
  BY <1>3 DEF Passes
<1> QED  BY <1>2, <1>3, <1>4, <1>5, <1>6, <1>7, <1>8, MeetSystem

LEMMA MeetConnect == ASSUME ChannelInv, MeetInv, NEW p \in Procs, Connect(p) PROVE MeetInv'
<1>1. PICK d : d = Dev(p)
  OBVIOUS
<1> DEFINE o == name[<<d, 0>>]
           c2 == [Next1(call[p]) EXCEPT !.w = o]
<1>2. /\ At(p, "connect") /\ UNCHANGED use /\ UNCHANGED name /\ UNCHANGED manager
      /\ UNCHANGED history /\ call' = [call EXCEPT ![p] = c2] /\ \E F2 : fds' = [fds EXCEPT ![p] = F2]
  BY <1>1, Zenon DEF Connect
<1>3. d \in Devices /\ d = call[p].dev /\ Called(call[p])
  BY <1>1, <1>2, Acts DEF Dev
<1>4. o \in Objects \cup {0}
  BY <1>3 DEF ChannelInv, KernelOK
<1>5. Passes(call[p], c2, Tail(call[p].todo), call[p].r, o, call[p].l) /\ c2.clean = call[p].clean
  <2> HIDE DEF o
  <2> QED  BY <1>3, <1>4, CallPut, CleanPut
<1> HIDE DEF c2
<1>6. Others(p) /\ call'[p] = c2 /\ touch' = touch /\ map' = map
  BY <1>2, OnlyCall DEF history, manager
<1>7. \A e \in Devices : Same(e)
  BY <1>2 DEF Same
<1>8. Carries(use[d].type, call[p], c2, name[<<d, 0>>], name[<<d, 1>>], name'[<<d, 0>>], name'[<<d, 1>>])
  <2>1. PICK m : m = map[p]
    OBVIOUS
  <2>2. /\ InCall(use[d].type, d, call[p], Own(fds[p], d), m) /\ Due(call[p], "connect")
        /\ use[d].type \in Kinds
    BY <1>1, <1>2, <2>1, Acts
  <2>3. Carries(use[d].type, call[p], c2, name[<<d, 0>>], name[<<d, 1>>], name[<<d, 0>>], name[<<d, 1>>])
    BY <1>3, <1>5, <2>2, CarriesConnect
  <2> QED  BY <1>2, <2>3
<1>9. c2.op = call[p].op /\ c2.dev = call[p].dev
  BY <1>5 DEF Passes
<1> QED  BY <1>2, <1>3, <1>5, <1>6, <1>7, <1>8, <1>9, MeetSystem

\* The system calls on descriptors and terminals.
LEMMA MeetQuiet ==
  ASSUME ChannelInv, MeetInv, NEW p \in Procs, UNCHANGED use, UNCHANGED name, UNCHANGED manager,
         UNCHANGED history, UNCHANGED fds \/ \E F2 : fds' = [fds EXCEPT ![p] = F2],
         NEW s \in {"listen", "close", "ttyopen", "flock", "getattr", "setattr", "lines", "ttyclose"}, At(p, s),
         NEW c2, call' = [call EXCEPT ![p] = c2], c2.clean = call[p].clean,
         Passes(call[p], c2, Tail(call[p].todo), call[p].r, call[p].w, call[p].l)
  PROVE  MeetInv'
<1>1. Others(p) /\ call'[p] = c2 /\ touch' = touch /\ map' = map
  BY OnlyCall DEF history, manager
<1>2. PICK d : d = Dev(p)
  OBVIOUS
<1>3. d \in Devices /\ d = call[p].dev
  BY <1>2, Acts DEF Dev
<1>4. \A e \in Devices : Same(e)
  BY DEF Same
<1>5. Carries(use[d].type, call[p], c2, name[<<d, 0>>], name[<<d, 1>>], name'[<<d, 0>>], name'[<<d, 1>>])
  <2>1. PICK m : m = map[p]
    OBVIOUS
  <2>2. /\ InCall(use[d].type, d, call[p], Own(fds[p], d), m) /\ Called(call[p]) /\ Due(call[p], s)
        /\ use[d].type \in Kinds
    BY <1>2, <2>1, Acts
  <2>3. Carries(use[d].type, call[p], c2, name[<<d, 0>>], name[<<d, 1>>], name[<<d, 0>>], name[<<d, 1>>])
    BY <2>2, CarriesQuiet
  <2> QED  BY <2>3
<1>6. c2.op = call[p].op /\ c2.dev = call[p].dev
  BY DEF Passes
<1> QED  BY <1>1, <1>3, <1>4, <1>5, <1>6, MeetSystem

LEMMA MeetClose ==
  ASSUME ChannelInv, MeetInv, NEW p \in Procs, Listen(p) \/ Close(p) \/ TtyClose(p)
  PROVE  MeetInv'
<1> DEFINE c2 == Next1(call[p])
<1>1. /\ UNCHANGED use /\ UNCHANGED name /\ UNCHANGED manager /\ UNCHANGED history
      /\ call' = [call EXCEPT ![p] = c2] /\ \E F2 : fds' = [fds EXCEPT ![p] = F2]
  BY DEF Listen, Close, TtyClose, Advance
<1>2. PICK s \in {"listen", "close", "ttyopen", "flock", "getattr", "setattr", "lines", "ttyclose"} : At(p, s)
  BY DEF Listen, Close, TtyClose
<1>3. Passes(call[p], c2, Tail(call[p].todo), call[p].r, call[p].w, call[p].l) /\ c2.clean = call[p].clean
  BY <1>2, Acts, CallPut, CleanPut
<1> HIDE DEF c2
<1>4. UNCHANGED fds \/ \E F2 : fds' = [fds EXCEPT ![p] = F2]
  BY <1>1
<1> QED  BY <1>1, <1>2, <1>3, <1>4, MeetQuiet

LEMMA MeetTtyStep == ASSUME ChannelInv, MeetInv, NEW p \in Procs, TtyStep(p) PROVE MeetInv'
<1>1. /\ UNCHANGED use /\ UNCHANGED name /\ UNCHANGED manager /\ UNCHANGED history
      /\ UNCHANGED fds \/ \E F2 : fds' = [fds EXCEPT ![p] = F2]
  BY DEF TtyStep
<1>2. UNCHANGED fds \/ \E F2 : fds' = [fds EXCEPT ![p] = F2]
  BY <1>1
<1> DEFINE Steps == {"listen", "close", "ttyopen", "flock", "getattr", "setattr", "lines", "ttyclose"}
<1>3. CASE (\E s \in Steps : At(p, s)) /\ Advance(p)
  <2> DEFINE c2 == Next1(call[p])
  <2>1. PICK s \in Steps : At(p, s)
    BY <1>3
  <2>2. Passes(call[p], c2, Tail(call[p].todo), call[p].r, call[p].w, call[p].l) /\ c2.clean = call[p].clean
    BY <2>1, Acts, CallPut, CleanPut
  <2>3. call' = [call EXCEPT ![p] = c2]
    BY <1>3 DEF Advance
  <2> HIDE DEF c2
  <2> QED  BY <1>1, <1>2, <2>1, <2>2, <2>3, MeetQuiet
<1>4. CASE At(p, "getattr") /\ call' = [call EXCEPT ![p] = [Next1(@) EXCEPT !.old = tty[Dev(p)].raw]]
  <2> DEFINE b == tty[Dev(p)].raw
             c2 == [Next1(call[p]) EXCEPT !.old = b]
  <2>1. Dev(p) \in Devices
    BY <1>4, Acts
  <2>2. b \in BOOLEAN
    BY <2>1 DEF ChannelInv, KernelOK
  <2>3. call' = [call EXCEPT ![p] = c2]
    BY <1>4, Zenon
  <2> HIDE DEF b
  <2>4. Passes(call[p], c2, Tail(call[p].todo), call[p].r, call[p].w, call[p].l) /\ c2.clean = call[p].clean
    BY <1>4, <2>2, Acts, CallPut, CleanPut
  <2> HIDE DEF c2
  <2>5. PICK s \in Steps : At(p, s)
    BY <1>4
  <2> QED  BY <1>1, <1>2, <2>3, <2>4, <2>5, MeetQuiet
<1> QED  BY <1>3, <1>4 DEF TtyStep

-----------------------------------------------------------------------------
(* Error paths and ends *)

\* A setup gives up.
LEMMA MeetGivesUp ==
  ASSUME ChannelInv, MeetInv, NEW p \in Procs, NEW steps, Fails(p, steps), GiveUp(p),
         UNCHANGED fds \/ \E F2 : fds' = [fds EXCEPT ![p] = F2], NEW d \in Devices, d = call[p].dev,
         \A e \in Devices \ {d} : Same(e),
         \/ Same(d)
         \/ \A v : /\ Ended(use[d].type, v) /\ Leads(use[d].type, v)
                   /\ NamesOf(use[d].type, v, name[<<d, 0>>], name[<<d, 1>>])
                   /\ Follows(use[d].type, v, call[p])
                   => NamesOf(use[d].type, v, name'[<<d, 0>>], name'[<<d, 1>>])
  PROVE  MeetInv'
<1>1. call' = [call EXCEPT ![p] = Idle] /\ UNCHANGED use /\ UNCHANGED manager /\ UNCHANGED touch
  BY DEF GiveUp
<1>2. Others(p) /\ call'[p] = Idle /\ map' = map
  BY <1>1, OnlyCall DEF manager
<1>3. \A e \in Devices : /\ touch'[e] \subseteq touch[e]
                         /\ p \in touch'[e] /\ e \in DOMAIN map[p].val /\ call[p].dev # e
                            => e \in DOMAIN map'[p].val /\ map'[p].val[e] = map[p].val[e]
  BY <1>1, <1>2
<1>4. \A e \in Devices :
        \/ Same(e)
        \/ /\ call[p].dev = e
           /\ \A v : /\ Ended(use[e].type, v) /\ Leads(use[e].type, v)
                     /\ NamesOf(use[e].type, v, name[<<e, 0>>], name[<<e, 1>>])
                     /\ Follows(use[e].type, v, call[p])
                     => NamesOf(use[e].type, v, name'[<<e, 0>>], name'[<<e, 1>>])
  <2> TAKE e \in Devices
  <2>1. CASE e # d
    BY <2>1
  <2>2. CASE e = d
    BY <2>2
  <2> QED  BY <2>1, <2>2
<1> QED  BY <1>1, <1>2, <1>3, <1>4, MeetIdle

LEMMA MeetFifoFails == ASSUME ChannelInv, MeetInv, NEW p \in Procs, FifoFails(p) PROVE MeetInv'
<1> DEFINE made == {e \in {0, 1} : \A i \in DOMAIN call[p].todo : call[p].todo[i] # <<"mkfifo", e>>}
           steps == {"mkfifo", "open", "setfl"}
<1>1. PICK d : d = Dev(p)
  OBVIOUS
<1>2. /\ Fails(p, steps) /\ GiveUp(p) /\ UNCHANGED tty /\ \E F2 : fds' = [fds EXCEPT ![p] = F2]
      /\ name' = [x \in DOMAIN name |-> IF x[1] = d /\ x[2] \in made THEN 0 ELSE name[x]]
  BY <1>1, Zenon DEF FifoFails
<1>3. PICK s \in steps : At(p, s)
  BY <1>2 DEF Fails
<1>4. s \in {"mkfifo", "open", "setfl"}
  OBVIOUS
<1> HIDE DEF made, steps
<1>5. d \in Devices /\ d = call[p].dev /\ use[d].type = "fifo"
  <2>1. DueFacts(use[d].type, d, call[p], Own(fds[p], d), s) /\ d \in Devices
    BY <1>1, <1>3, Acts
  <2> QED  BY <1>1, <1>4, <2>1 DEF DueFacts, Dev
<1>6. \A e \in Devices \ {d} : Same(e)
  BY <1>2 DEF Same, ChannelInv, KernelOK
<1>7. name'[<<d, 0>>] \in {name[<<d, 0>>], 0} /\ name'[<<d, 1>>] \in {name[<<d, 1>>], 0}
  BY <1>2, <1>5 DEF ChannelInv, KernelOK
<1>8. \A v : NamesOf(use[d].type, v, name[<<d, 0>>], name[<<d, 1>>])
             => NamesOf(use[d].type, v, name'[<<d, 0>>], name'[<<d, 1>>])
  BY <1>5, <1>7 DEF NamesOf
<1>9. UNCHANGED fds \/ \E F2 : fds' = [fds EXCEPT ![p] = F2]
  BY <1>2
<1> QED  BY <1>2, <1>5, <1>6, <1>8, <1>9, MeetGivesUp

LEMMA MeetNamesStay ==
  ASSUME ChannelInv, MeetInv, NEW p \in Procs, MsgqFails(p) \/ UartFails(p)
  PROVE  MeetInv'
<1>1. /\ GiveUp(p) /\ \E steps : Fails(p, steps)
      /\ UNCHANGED fds \/ \E F2 : fds' = [fds EXCEPT ![p] = F2]
      /\ name' = name
  BY Zenon DEF MsgqFails, UartFails
<1>2. PICK steps : Fails(p, steps)
  BY <1>1
<1>3. PICK s \in steps : At(p, s)
  BY <1>2 DEF Fails
<1>4. PICK d : d = Dev(p)
  OBVIOUS
<1>5. d \in Devices /\ d = call[p].dev
  BY <1>3, <1>4, Acts DEF Dev
<1>6. \A e \in Devices : Same(e)
  BY <1>1 DEF Same
<1>7. UNCHANGED fds \/ \E F2 : fds' = [fds EXCEPT ![p] = F2]
  BY <1>1
<1> QED  BY <1>1, <1>2, <1>5, <1>6, <1>7, MeetGivesUp

\* A client that fails to connect takes no name away.
LEMMA MeetConnectFails == ASSUME ChannelInv, MeetInv, NEW p \in Procs, ConnectFails(p) PROVE MeetInv'
<1> DEFINE steps == {"connect"}
<1>1. PICK d : d = Dev(p)
  OBVIOUS
<1>2. /\ Fails(p, steps) /\ GiveUp(p) /\ \E F2 : fds' = [fds EXCEPT ![p] = F2]
      /\ name' = IF call[p].l # 0 THEN [name EXCEPT ![<<d, 0>>] = 0] ELSE name
  BY <1>1, Zenon DEF ConnectFails
<1>3. At(p, "connect") /\ call[p].op = "open"
  BY <1>2 DEF Fails
<1> HIDE DEF steps
<1>4. d \in Devices /\ d = call[p].dev /\ use[d].type = "bus"
  <2>1. DueFacts(use[d].type, d, call[p], Own(fds[p], d), "connect") /\ d \in Devices
    BY <1>1, <1>3, Acts
  <2> QED  BY <1>1, <2>1 DEF DueFacts, Dev
<1>5. \A e \in Devices \ {d} : Same(e)
  BY <1>2 DEF Same, ChannelInv, KernelOK
<1>6. Same(d) \/ \A v : ~Follows(use[d].type, v, call[p])
  BY <1>2, <1>3, <1>4 DEF Same, Follows
<1>7. UNCHANGED fds \/ \E F2 : fds' = [fds EXCEPT ![p] = F2]
  BY <1>2
<1> QED  BY <1>2, <1>4, <1>5, <1>6, <1>7, MeetGivesUp

LEMMA MeetDie == ASSUME ChannelInv, MeetInv, NEW p \in Procs, Die(p) PROVE MeetInv'
<1>1. /\ call'[p] = Idle /\ UNCHANGED use /\ Others(p) /\ UNCHANGED name
      /\ touch' = [d \in Devices |-> touch[d] \ {p}]
  BY DEF Die, ChannelInv, Sized, Others
<1>2. \A d \in Devices : Same(d)
  BY <1>1 DEF Same
<1>3. \A d \in Devices : /\ touch'[d] \subseteq touch[d]
                         /\ p \in touch'[d] /\ d \in DOMAIN map[p].val /\ call[p].dev # d
                            => d \in DOMAIN map'[p].val /\ map'[p].val[d] = map[p].val[d]
  BY <1>1
<1> QED  BY <1>1, <1>2, <1>3, MeetIdle

\* A step about data.
LEMMA MeetStill ==
  ASSUME MeetInv, UNCHANGED use, UNCHANGED name, UNCHANGED call, UNCHANGED touch,
         \A q \in Procs : /\ DOMAIN map'[q].val = DOMAIN map[q].val
                          /\ \A d \in DOMAIN map[q].val : map'[q].val[d] = map[q].val[d]
  PROVE  MeetInv'
<1>1. ASSUME NEW d \in Devices PROVE Meeting(d)'
  <2>1. Meeting(d)
    BY DEF MeetInv
  <2>2. \A q \in touch[d] : /\ q \in Procs /\ d \in DOMAIN map'[q].val /\ call[q].dev # d
                            /\ map'[q].val[d] = map[q].val[d]
    BY <2>1 DEF Meeting
  <2>3. \A s \in Procs : ServerAt(d, s)' => ServerAt(d, s)
    BY <2>2 DEF ServerAt
  <2>4. ASSUME NEW s \in Procs, ServerAt(d, s)' PROVE Served1(d, s)'
    <3>1. Served1(d, s) /\ map'[s].val[d] = map[s].val[d]
      BY <2>1, <2>2, <2>3, <2>4 DEF Meeting, ServerAt
    <3> QED  BY <2>2, <3>1 DEF Served1
  <2>5. \A q \in Procs : CleanOpen(call'[q]) /\ call'[q].dev = d => Alone(d, q)'
    BY <2>1 DEF Meeting, Alone
  <2>6. \A q \in Procs : CleanOpen(call[q])' <=> CleanOpen(call'[q])
    BY DEF CleanOpen
  <2> QED  BY <2>2, <2>4, <2>5, <2>6 DEF Meeting
<1> QED  BY <1>1 DEF MeetInv

LEMMA MeetMessage ==
  ASSUME ChannelInv, MeetInv, NEW p \in Procs, NEW d \in Devices, Send(p, d) \/ Recv(p, d)
  PROVE  MeetInv'
<1>1. CASE Die(p)
  BY <1>1, MeetDie
<1>2. CASE UNCHANGED use /\ UNCHANGED name /\ UNCHANGED call /\ UNCHANGED touch /\ UNCHANGED map
  BY <1>2, MeetStill
<1> QED  BY <1>1, <1>2 DEF Send, Recv, manager, history

LEMMA MeetAssertLine ==
  ASSUME ChannelInv, MeetInv, NEW p \in Procs, NEW d \in Devices, NEW line \in {"dtr", "rts"}, NEW b \in BOOLEAN,
         AssertLine(p, d, line, b)
  PROVE  MeetInv'
<1>1. UNCHANGED use /\ UNCHANGED name /\ UNCHANGED call /\ UNCHANGED manager /\ UNCHANGED history
  BY Zenon DEF AssertLine
<1> QED  BY <1>1, MeetStill DEF manager, history

-----------------------------------------------------------------------------
(* Opening and closing *)

\* A device that p opens or closes: for any other one nothing happens.
LEMMA MeetElsewhere ==
  ASSUME ChannelInv, MeetInv, NEW p \in Procs, Others(p), UNCHANGED use, UNCHANGED name,
         NEW d \in Devices, NEW e \in Devices \ {d}, call'[p].dev # e, touch'[e] = touch[e],
         e \in DOMAIN map[p].val => e \in DOMAIN map'[p].val /\ map'[p].val[e] = map[p].val[e]
  PROVE  Meeting(e)'
<1>1. Meeting(e) /\ Same(e)
  BY DEF MeetInv, Same
<1>2. StaysOpen(p, e)
  BY <1>1 DEF StaysOpen, Meeting
<1> QED  BY <1>1, <1>2, MeetAway

\* What becomes of the history of d, and of the other calls on it, when p's call c2 begins.
Begins(p, d, c2) ==
  /\ \A q \in Procs \ {p} : call[q].dev = d => ~CleanOpen(call'[q])
  /\ \A e \in Devices \ {d} : touch'[e] = touch[e]
  /\ touch'[d] \subseteq touch[d] \ {p}
  /\ \A v : Ended(use[d].type, v) /\ Leads(use[d].type, v) => touch'[d] = {} \/ Follows(use[d].type, v, c2)
  /\ CleanOpen(c2) => /\ \A q \in Procs \ {p} : call[q].dev # d
                      /\ Prepared(use[d].type, c2, name[<<d, 0>>], name[<<d, 1>>])

LEMMA MeetBegins ==
  ASSUME ChannelInv, MeetInv, NEW p \in Procs, Others(p), use' = use, name' = name, map' = map,
         NEW d \in Devices, NEW c2, call'[p] = c2, c2.dev = d, Begins(p, d, c2)
  PROVE  MeetInv'
<1>1. \A e \in Devices \ {d} : Meeting(e)'
  BY MeetElsewhere DEF Begins
<1>2. Meeting(d) /\ Same(d)
  BY DEF MeetInv, Same
<1>3. StaysOpen(p, d)
  BY DEF StaysOpen, Begins
<1>4. KeepsTo(p, d)
  <2>1. ASSUME NEW s \in touch'[d], Leads(use[d].type, map[s].val[d])
        PROVE  /\ NamesOf(use[d].type, map[s].val[d], name'[<<d, 0>>], name'[<<d, 1>>])
               /\ Follows(use[d].type, map[s].val[d], call'[p])
    <3>1. s \in touch[d] /\ touch'[d] # {}
      BY <2>1 DEF Begins
    <3>2. Ended(use[d].type, map[s].val[d]) /\ Served1(d, s)
      BY <1>2, <2>1, <3>1, ServerEnded
    <3>3. PICK v : v = map[s].val[d]
      OBVIOUS
    <3>4. Follows(use[d].type, v, c2)
      BY <2>1, <3>1, <3>2, <3>3 DEF Begins
    <3> QED  BY <3>2, <3>3, <3>4 DEF Served1
  <2> QED  BY <2>1 DEF KeepsTo
<1>5. Enters(p, d)
  <2>1. \A q \in Procs \ {p} : call'[q].dev = call[q].dev
    BY OthersFollow
  <2> QED  BY <2>1 DEF Enters, Begins
<1>6. CleanAlone(p, d)
  BY DEF CleanAlone, Begins
<1>7. Meeting(d)'
  BY <1>2, <1>3, <1>4, <1>5, <1>6, MeetDevice
<1> QED  BY <1>1, <1>7 DEF MeetInv

\* The calls on d that a beginning one has met.
LEMMA Unclean ==
  ASSUME ChannelInv, NEW p \in Procs, NEW d \in Devices, NEW c2,
         call'[p] = c2,
         \A q \in Procs \ {p} : call'[q] = IF Dev(q) = d THEN [call[q] EXCEPT !.clean = FALSE] ELSE call[q]
  PROVE  /\ \A q \in Procs \ {p} : \/ call'[q] = call[q]
                                   \/ call[q].dev \in Devices /\ call'[q] = [call[q] EXCEPT !.clean = FALSE]
         /\ \A q \in Procs \ {p} : call[q].dev = d => ~CleanOpen(call'[q])
<1>1. \A q \in Procs : Called(call[q])
  BY DEF ChannelInv, Proc, ProcInv
<1>2. ASSUME NEW q \in Procs \ {p}, call[q].dev = d PROVE ~CleanOpen(call'[q])
  <2>1. call'[q] = [call[q] EXCEPT !.clean = FALSE]
    BY <1>2 DEF Dev
  <2> QED  BY <1>1, <2>1, CleanPut DEF CleanOpen
<1> QED  BY <1>2 DEF Dev

\* What a setup begins with is a client's, or a server's that has nothing open yet.
LEMMA SetupFollows ==
  ASSUME NEW k \in Kinds, NEW c, c.server \in BOOLEAN, c.op = "open", c.todo = Setup(k, c.server),
         c.r = 0, c.w = 0, c.l = 0
  PROVE  /\ \A v : (c.server /\ k \in {"fifo", "msgq"}) \/ Follows(k, v, c)
         /\ \A n0, n1 : Prepared(k, c, n0, n1)
<1>1. k = "bus" => c.todo = Bus2
  BY SetupIs
<1> QED  BY <1>1 DEF Follows, Prepared

LEMMA MeetBeginOpen ==
  ASSUME ChannelInv, MeetInv, NEW p \in Procs, NEW d \in Devices, NEW b \in BOOLEAN, BeginOpen(p, d, b)
  PROVE  MeetInv'
<1> DEFINE alone == \A q \in Procs : Dev(q) # d
           c2 == [Idle EXCEPT !.op = "open", !.dev = d, !.server = b,
                              !.todo = Setup(Type(d), b), !.clean = alone]
<1>1. /\ ~Busy(p) /\ ~H!Has(map[p], d)
      /\ call' = [q \in Procs |-> IF q = p THEN c2
                                  ELSE IF Dev(q) = d THEN [call[q] EXCEPT !.clean = FALSE] ELSE call[q]]
      /\ touch' = [touch EXCEPT ![d] = IF b /\ Type(d) # "bus" THEN {} ELSE touch[d]]
      /\ UNCHANGED <<use, name, fds, tty, inbox, sent, manager, faults, tainted>>
  BY Zenon DEF BeginOpen
<1>2. /\ c2.op = "open" /\ c2.dev = d /\ c2.todo = Setup(use[d].type, b) /\ c2.server = b
      /\ c2.r = 0 /\ c2.w = 0 /\ c2.l = 0 /\ c2.clean = alone
  BY DEF Idle, Type
<1> HIDE DEF c2
<1>3. /\ call'[p] = c2
      /\ \A q \in Procs \ {p} : \/ call'[q] = call[q]
                                \/ call[q].dev \in Devices /\ call'[q] = [call[q] EXCEPT !.clean = FALSE]
      /\ \A q \in Procs \ {p} : call[q].dev = d => ~CleanOpen(call'[q])
  <2>1. /\ call'[p] = c2
        /\ \A q \in Procs \ {p} : call'[q] = IF Dev(q) = d THEN [call[q] EXCEPT !.clean = FALSE] ELSE call[q]
    BY <1>1
  <2> QED  BY <2>1, Unclean
<1>4. Others(p) /\ map' = map /\ use' = use /\ name' = name
  BY <1>1, <1>3 DEF Others, manager
<1>5. d \notin DOMAIN map[p].val
  BY <1>1, ManagedFacts DEF ChannelInv, Proc, ProcInv
<1>6. \A e \in Devices \ {d} : touch'[e] = touch[e]
  BY <1>1
<1>7. DOMAIN touch = Devices
  BY DEF ChannelInv, KernelOK
<1>8. p \notin touch[d]
  BY <1>5 DEF MeetInv, Meeting
<1>9. touch'[d] \subseteq touch[d] \ {p} /\ (b /\ use[d].type # "bus" => touch'[d] = {})
  BY <1>1, <1>7, <1>8 DEF Type
<1>10. use[d].type \in Kinds
  BY UsesTyped DEF ChannelInv, Typed
<1>11. /\ \A v : (c2.server /\ use[d].type \in {"fifo", "msgq"}) \/ Follows(use[d].type, v, c2)
       /\ \A n0, n1 : Prepared(use[d].type, c2, n0, n1)
  BY <1>2, <1>10, SetupFollows
<1>12. \A v : touch'[d] = {} \/ Follows(use[d].type, v, c2)
  BY <1>2, <1>9, <1>11
<1>13. CleanOpen(c2) => \A q \in Procs \ {p} : call[q].dev # d
  BY <1>2 DEF CleanOpen, Dev
<1>14. Begins(p, d, c2)
  BY <1>3, <1>6, <1>9, <1>11, <1>12, <1>13 DEF Begins
<1> QED  BY <1>2, <1>3, <1>4, <1>14, MeetBegins

\* A teardown of an end that does not lead closes its descriptors and no more.
LEMMA TeardownFollows ==
  ASSUME NEW k \in Kinds \ {"uart"}, NEW c, c.server \in BOOLEAN, ~Leads(k, c)
  PROVE  Teardown(k, c) \in {Close1, <<>>}
<1>1. Kinds \ {"uart"} = {"msgq", "fifo", "bus"}
  BY DEF Kinds
<1> QED  BY <1>1, TeardownIs DEF Leads

LEMMA MeetBeginClose ==
  ASSUME ChannelInv, MeetInv, NEW p \in Procs, NEW d \in Devices, BeginClose(p, d)
  PROVE  MeetInv'
<1> DEFINE own == map[p].val[d]
           c2 == [Idle EXCEPT !.op = "close", !.dev = d, !.r = map[p].val[d].r, !.w = map[p].val[d].w,
                              !.l = map[p].val[d].l, !.todo = Teardown(use[d].type, map[p].val[d])]
<1>1. /\ ~Busy(p) /\ H!Has(map[p], d)
      /\ call' = [q \in Procs |-> IF q = p THEN c2
                                  ELSE IF Dev(q) = d THEN [call[q] EXCEPT !.clean = FALSE] ELSE call[q]]
      /\ touch' = [touch EXCEPT ![d] = IF Serves(own, d) THEN {} ELSE touch[d] \ {p}]
      /\ UNCHANGED use /\ UNCHANGED kernel /\ UNCHANGED manager /\ UNCHANGED faults
  BY Zenon DEF BeginClose, Channel, Type
<1>2. c2.op = "close" /\ c2.dev = d /\ c2.todo = Teardown(use[d].type, own)
  BY DEF Idle
<1> HIDE DEF c2
<1>3. /\ call'[p] = c2
      /\ \A q \in Procs \ {p} : \/ call'[q] = call[q]
                                \/ call[q].dev \in Devices /\ call'[q] = [call[q] EXCEPT !.clean = FALSE]
      /\ \A q \in Procs \ {p} : call[q].dev = d => ~CleanOpen(call'[q])
  <2>1. /\ call'[p] = c2
        /\ \A q \in Procs \ {p} : call'[q] = IF Dev(q) = d THEN [call[q] EXCEPT !.clean = FALSE] ELSE call[q]
    BY <1>1
  <2> QED  BY <2>1, Unclean
<1>4. Others(p) /\ map' = map /\ name' = name
  BY <1>1, <1>3 DEF Others, manager, kernel
<1>5. own.server \in BOOLEAN
  <2>1. Managed(map[p], iter[p])
    BY DEF ChannelInv, Proc, ProcInv
  <2>2. d \in DOMAIN map[p].val /\ own \in Channels
    BY <1>1, <2>1, ManagedFacts
  <2> QED  BY <2>2 DEF Channels
<1>6. \A e \in Devices \ {d} : touch'[e] = touch[e]
  BY <1>1
<1>7. DOMAIN touch = Devices
  BY DEF ChannelInv, KernelOK
<1>8. touch'[d] \subseteq touch[d] \ {p} /\ (Leads(use[d].type, own) => touch'[d] = {})
  BY <1>1, <1>7 DEF Leads, Serves, Type
<1>9. use[d].type \in Kinds
  BY UsesTyped DEF ChannelInv, Typed
<1>10. ASSUME NEW v, Ended(use[d].type, v), Leads(use[d].type, v)
       PROVE  touch'[d] = {} \/ Follows(use[d].type, v, c2)
  <2>1. use[d].type # "uart"
    BY <1>10 DEF Ended, Leads
  <2>2. CASE ~Leads(use[d].type, own)
    <3>1. Teardown(use[d].type, own) \in {Close1, <<>>}
      BY <1>5, <1>9, <2>1, <2>2, TeardownFollows
    <3> QED  BY <1>2, <3>1 DEF Follows
  <2> QED  BY <1>8, <2>2
<1>11. ~CleanOpen(c2)
  BY <1>2 DEF CleanOpen
<1>12. Begins(p, d, c2)
  BY <1>3, <1>6, <1>8, <1>10, <1>11 DEF Begins
<1> QED  BY <1>1, <1>2, <1>3, <1>4, <1>12, MeetBegins
-----------------------------------------------------------------------------
\* An open of d that met nobody makes v of its channel, and p one of those that opened d
\* since the last server did, which v may be.
Entered(p, d, v) ==
  /\ call[p].op = "open" /\ call[p].clean /\ call[p].dev = d /\ call[p].todo \in {<<>>, Fifo1}
  /\ v.server = call[p].server /\ v.r = call[p].r /\ v.w = call[p].w /\ v.l = call[p].l
  /\ v.server \in BOOLEAN /\ Ended(use[d].type, v) /\ use[d].type \in Kinds
  /\ d \in DOMAIN map'[p].val /\ map'[p].val[d] = v
  /\ touch'[d] = IF Leads(use[d].type, v) THEN {p} ELSE touch[d] \cup {p}

LEMMA MeetJoin ==
  ASSUME ChannelInv, MeetInv, NEW p \in Procs, Others(p), use' = use, name' = name, call'[p] = Idle,
         NEW d \in Devices, NEW v, Entered(p, d, v)
  PROVE  Meeting(d)'
<1> USE DEF Entered
<1> DEFINE k == use[d].type
<1>1. Meeting(d) /\ CleanOpen(call[p])
  BY DEF MeetInv, CleanOpen
<1>2. Alone(d, p)
  BY <1>1 DEF Meeting
<1>3. \A q \in Procs : call'[q].dev # d
  <2>1. ASSUME NEW q \in Procs \ {p} PROVE call'[q].dev # d
    BY <1>2, <2>1, OthersFollow DEF Alone
  <2>2. call'[p].dev # d
    BY NullAssumption DEF Idle
  <2> QED  BY <2>1, <2>2
<1>4. ASSUME NEW q \in touch'[d], q # p
      PROVE  /\ q \in touch[d] /\ q \in Procs /\ d \in DOMAIN map'[q].val /\ map'[q].val[d] = map[q].val[d]
  <2>1. q \in touch[d] /\ q \in Procs /\ d \in DOMAIN map[q].val
    BY <1>1, <1>4 DEF Meeting
  <2> QED  BY <1>4, <2>1, OthersFollow
<1>5. p \in touch'[d]
  OBVIOUS
<1>6. \A q \in touch'[d] : q \in Procs /\ d \in DOMAIN map'[q].val /\ call'[q].dev # d
  BY <1>3, <1>4
<1>7. ASSUME Leads(k, v)
      PROVE  NamesOf(k, v, name[<<d, 0>>], name[<<d, 1>>]) /\ Joins(k, v, v)
  <2>1. Prepared(k, call[p], name[<<d, 0>>], name[<<d, 1>>])
    BY <1>2 DEF Alone
  <2> HIDE DEF k
  <2>2. k \in Kinds /\ Ended(k, v)
    BY DEF k
  <2>3. k = "bus" => call[p].todo = <<>>
    <3>1. InCall(k, d, call[p], Own(fds[p], d), map[p])
      BY DEF k, ChannelInv, Proc, ProcInv
    <3>2. k = "bus" => call[p].todo # Fifo1
      <4>1. Leaves(Fifo1, "setfl", <<>>) /\ Leaves(Bus2, "access", Bus1) /\ Leaves(Bus1, "connect", <<>>)
            /\ Leaves(Start5, "socket", Start4) /\ LeavesAt(Start4, "unlink", 0, Start3)
            /\ Leaves(Start3, "bind", Start2) /\ Leaves(Start2, "listen", Bus1)
        BY SetupLeaves
      <4>2. Fifo1 \notin {Bus2, Bus1, Start5, Start4, Start3, Start2, <<>>}
        BY <4>1 DEF Leaves, LeavesAt
      <4>3. k = "bus" => OpeningBus(d, call[p], Own(fds[p], d))
        BY <3>1 DEF InCall, Opening
      <4> QED  BY <4>2, <4>3 DEF OpeningBus
    <3> QED  BY <3>2
  <2>4. NamesOf(k, v, name[<<d, 0>>], name[<<d, 1>>])
    BY <1>7, <2>1, <2>2, <2>3 DEF NamesOf, Prepared, Leads, Ended, Kinds
  <2>5. Joins(k, v, v)
    BY <1>7, <2>1, <2>2, <2>3 DEF Joins, Prepared, Leads, Ended, Kinds
  <2> QED  BY <2>4, <2>5
<1>8. ASSUME ~Leads(k, v), NEW s \in touch[d], Leads(k, map[s].val[d])
      PROVE  /\ NamesOf(k, map[s].val[d], name[<<d, 0>>], name[<<d, 1>>])
             /\ Joins(k, map[s].val[d], v)
             /\ \A q \in touch[d] : Joins(k, map[s].val[d], map[q].val[d])
  <2>1. Served1(d, s) /\ Follows(k, map[s].val[d], call[p])
    BY <1>1, <1>8, ServerEnded DEF Served1
  <2>2. PICK w : w = map[s].val[d]
    OBVIOUS
  <2>3. Joins(k, w, v)
    <3>1. Follows(k, w, call[p]) /\ Ended(k, v)
      BY <2>1, <2>2
    <3> HIDE DEF k
    <3> QED  BY <3>1 DEF Follows, Joins, Ended
  <2> QED  BY <2>1, <2>2, <2>3 DEF Served1
<1>9. ASSUME NEW s \in Procs, ServerAt(d, s)' PROVE Served1(d, s)'
  <2>1. s \in touch'[d] /\ Leads(k, map'[s].val[d])
    BY <1>9 DEF ServerAt
  <2>2. CASE Leads(k, v)
    <3>1. touch'[d] = {p} /\ s = p
      BY <2>1, <2>2
    <3>2. \A q \in touch'[d] : Joins(k, map'[s].val[d], map'[q].val[d])
      BY <1>7, <2>2, <3>1
    <3>3. NamesOf(k, map'[s].val[d], name'[<<d, 0>>], name'[<<d, 1>>])
      BY <1>7, <2>2, <3>1
    <3> QED  BY <1>3, <3>2, <3>3 DEF Served1
  <2>3. CASE ~Leads(k, v)
    <3>1. s # p /\ s \in touch[d] /\ map'[s].val[d] = map[s].val[d]
      BY <1>4, <2>1, <2>3
    <3>2. /\ NamesOf(k, map[s].val[d], name[<<d, 0>>], name[<<d, 1>>])
          /\ Joins(k, map[s].val[d], v)
          /\ \A q \in touch[d] : Joins(k, map[s].val[d], map[q].val[d])
      BY <1>8, <2>1, <2>3, <3>1
    <3>3. ASSUME NEW q \in touch'[d] PROVE Joins(k, map[s].val[d], map'[q].val[d])
      <4>1. CASE q = p
        BY <3>2, <4>1
      <4>2. CASE q # p
        BY <1>4, <3>2, <4>2
      <4> QED  BY <4>1, <4>2
    <3> QED  BY <1>3, <3>1, <3>2, <3>3 DEF Served1
  <2> QED  BY <2>2, <2>3
<1> QED  BY <1>3, <1>6, <1>9 DEF Meeting

LEMMA MeetFinishOpen == ASSUME ChannelInv, MeetInv, NEW p \in Procs, FinishOpen(p) PROVE MeetInv'
<1> DEFINE c == call[p]
           v == [server |-> c.server, r |-> c.r, w |-> c.w, l |-> c.l, old |-> c.old]
           m2 == H!Insert(map[p], c.dev, v)
           t2 == CASE ~c.clean -> {} [] c.clean /\ Serves(c, c.dev) -> {p} [] OTHER -> touch[c.dev] \cup {p}
<1>1. /\ c.op = "open" /\ c.todo \in {<<>>, <<<<"setfl">>>>}
      /\ open_channels' = [open_channels EXCEPT ![p] = open_channels[p] + 1]
      /\ map' = [map EXCEPT ![p] = m2] /\ call' = [call EXCEPT ![p] = Idle]
      /\ touch' = [touch EXCEPT ![c.dev] = t2]
      /\ UNCHANGED <<use, name, fds, tty, sent, iter, faults, tainted>>
  BY Zenon DEF FinishOpen
<1>2. ProcInv(use, c, fds[p], map[p], iter[p], open_channels[p]) /\ Typed(use)
  BY UsesTyped DEF ChannelInv, Proc
<1>3. /\ DOMAIN m2.val = DOMAIN map[p].val \cup {c.dev} /\ c.dev \in Devices \ DOMAIN map[p].val
      /\ \A d \in DOMAIN m2.val : m2.val[d] = IF d = c.dev THEN v ELSE map[p].val[d]
      /\ Ended(use[c.dev].type, c)
  BY <1>1, <1>2, ProcFinishOpen, SMTT(40)
<1>4. v.server = c.server /\ v.r = c.r /\ v.w = c.w /\ v.l = c.l
  OBVIOUS
<1> HIDE DEF m2, v
<1>5. PICK d \in Devices : d = c.dev
  BY <1>3
<1>6. DOMAIN touch = Devices
  BY DEF ChannelInv, KernelOK
<1>7. /\ ~c.clean => t2 = {}
      /\ c.clean => t2 = IF Serves(c, d) THEN {p} ELSE touch[d] \cup {p}
  BY <1>5
<1> HIDE DEF t2
<1>8. /\ call'[p] = Idle /\ map'[p] = m2 /\ Others(p) /\ use' = use /\ name' = name
      /\ touch'[d] = t2 /\ \A e \in Devices \ {d} : touch'[e] = touch[e]
  BY <1>1, <1>5, <1>6 DEF ChannelInv, Sized, Others
<1>9. Idle.dev = Null
  BY DEF Idle
<1>10. ASSUME NEW e \in Devices \ {d} PROVE Meeting(e)'
  <2>1. e \in DOMAIN map[p].val => e \in DOMAIN map'[p].val /\ map'[p].val[e] = map[p].val[e]
    BY <1>3, <1>5, <1>8
  <2>2. call'[p].dev # e /\ touch'[e] = touch[e]
    BY <1>8, <1>9, NullAssumption
  <2> QED  BY <1>8, <2>1, <2>2, MeetElsewhere
<1>11. Meeting(d)'
  <2>1. CASE ~c.clean
    <3>1. Meeting(d) /\ StaysOpen(p, d) /\ Same(d)
      BY <1>7, <1>8, <2>1 DEF MeetInv, StaysOpen, Same
    <3>2. call'[p].dev # d
      BY <1>8, <1>9, NullAssumption
    <3> QED  BY <1>8, <3>1, <3>2, MeetAway
  <2>2. CASE c.clean
    <3>1. d \in DOMAIN map'[p].val /\ map'[p].val[d] = v
      BY <1>3, <1>5, <1>8
    <3>2. Ended(use[d].type, v)
      BY <1>3, <1>4, <1>5 DEF Ended
    <3>3. v.server \in BOOLEAN /\ use[d].type \in Kinds
      BY <1>2, <1>4 DEF ProcInv, Called, Typed
    <3>4. touch'[d] = IF Leads(use[d].type, v) THEN {p} ELSE touch[d] \cup {p}
      BY <1>4, <1>7, <1>8, <2>2 DEF Leads, Serves, Type
    <3>5. c.todo \in {<<>>, Fifo1} /\ c.dev = d
      BY <1>1, <1>5 DEF Fifo1
    <3>6. Entered(p, d, v)
      BY <1>1, <1>4, <2>2, <3>1, <3>2, <3>3, <3>4, <3>5 DEF Entered
    <3> QED  BY <1>8, <3>6, MeetJoin
  <2> QED  BY <1>2, <2>1, <2>2 DEF ProcInv, Called
<1> QED  BY <1>10, <1>11 DEF MeetInv

LEMMA MeetFinishClose == ASSUME ChannelInv, MeetInv, NEW p \in Procs, FinishClose(p) PROVE MeetInv'
<1> DEFINE c == call[p]
           m2 == H!Delete(map[p], c.dev)
<1>1. /\ c.op = "close" /\ c.todo = <<>>
      /\ open_channels' = [open_channels EXCEPT ![p] = open_channels[p] - 1]
      /\ map' = [map EXCEPT ![p] = m2] /\ call' = [call EXCEPT ![p] = Idle]
      /\ UNCHANGED use /\ UNCHANGED kernel /\ UNCHANGED iter /\ UNCHANGED history
  BY Zenon DEF FinishClose, Dev
<1>2. ProcInv(use, c, fds[p], map[p], iter[p], open_channels[p]) /\ Typed(use)
  BY UsesTyped DEF ChannelInv, Proc
<1>3. /\ c.dev \in DOMAIN map[p].val /\ DOMAIN m2.val = DOMAIN map[p].val \ {c.dev}
      /\ \A d \in DOMAIN m2.val : m2.val[d] = map[p].val[d]
  BY <1>1, <1>2, ProcFinishClose
<1> HIDE DEF m2
<1>4. call'[p] = Idle /\ map'[p] = m2 /\ Others(p) /\ name' = name /\ touch' = touch
  BY <1>1 DEF ChannelInv, Sized, Others, kernel, history
<1>5. \A d \in Devices : /\ touch'[d] \subseteq touch[d]
                         /\ p \in touch'[d] /\ d \in DOMAIN map[p].val /\ call[p].dev # d
                            => d \in DOMAIN map'[p].val /\ map'[p].val[d] = map[p].val[d]
  BY <1>3, <1>4
<1>6. \A d \in Devices : Same(d)
  BY <1>4 DEF Same
<1> QED  BY <1>1, <1>4, <1>5, <1>6, MeetIdle

LEMMA MeetTeardown ==
  ASSUME ChannelInv, MeetInv, NEW p \in Procs, BeginTeardown(p) \/ NextTeardown(p)
  PROVE  MeetInv'
<1>1. /\ UNCHANGED use /\ UNCHANGED kernel /\ UNCHANGED call /\ UNCHANGED history
      /\ UNCHANGED map \/ (map' = [map EXCEPT ![p] = H!EmptyMap] /\ iter[p] # H!NoIt /\ iter[p].cur = Null)
  BY DEF BeginTeardown, NextTeardown
<1>2. name' = name /\ touch' = touch
  BY <1>1 DEF kernel, history
<1>3. ASSUME NEW q \in Procs
      PROVE  /\ DOMAIN map'[q].val = DOMAIN map[q].val
             /\ \A d \in DOMAIN map[q].val : map'[q].val[d] = map[q].val[d]
  <2>1. CASE map'[q] = map[q]
    BY <2>1
  <2>2. CASE map'[q] # map[q]
    <3>1. map'[q] = H!EmptyMap /\ q = p /\ iter[q] # H!NoIt /\ iter[q].cur = Null
      BY <1>1, <2>2 DEF ChannelInv, Sized
    <3>2. DOMAIN map[q].val = {}
      BY <3>1, ManagedAt DEF ChannelInv, Proc, ProcInv
    <3> QED  BY <3>1, <3>2, ManagedEmpty
  <2> QED  BY <2>1, <2>2
<1> QED  BY <1>1, <1>2, <1>3, MeetStill

-----------------------------------------------------------------------------
LEMMA MeetInit == Init => MeetInv
<1> SUFFICES ASSUME Init PROVE MeetInv
  OBVIOUS
<1>1. \A q \in Procs : call[q] = Idle
  BY DEF Init
<1>2. \A d \in Devices : touch[d] = {}
  BY DEF Init
<1> QED  BY <1>1, <1>2 DEF MeetInv, Meeting, ServerAt, CleanOpen, Idle

LEMMA MeetNext == ChannelInv /\ FreshInv /\ MeetInv /\ [Next]_vars => MeetInv'
<1> SUFFICES ASSUME ChannelInv, FreshInv, MeetInv, [Next]_vars PROVE MeetInv'
  OBVIOUS
<1>1. ASSUME NEW p \in Procs, NEW d \in Devices, BeginClose(p, d) \/ Send(p, d) \/ Recv(p, d)
      PROVE  MeetInv'
  BY <1>1, MeetBeginClose, MeetMessage
<1>2. ASSUME NEW p \in Procs, NEW d \in Devices, NEW b \in BOOLEAN,
             BeginOpen(p, d, b) \/ \E line \in {"dtr", "rts"} : AssertLine(p, d, line, b)
      PROVE  MeetInv'
  BY <1>2, MeetBeginOpen, MeetAssertLine
<1>3. ASSUME NEW p \in Procs,
             FinishOpen(p) \/ FinishClose(p) \/ BeginTeardown(p) \/ NextTeardown(p)
      PROVE  MeetInv'
  BY <1>3, MeetFinishOpen, MeetFinishClose, MeetTeardown
<1>4. ASSUME NEW p \in Procs, Unlink(p) \/ MakeName(p) \/ OpenEnd(p) \/ MsgGet(p) \/ RmId(p)
      PROVE  MeetInv'
  BY <1>4, MeetUnlink, MeetMakeName, MeetOpenEnd, MeetMsgGet, MeetRmId
<1>5. ASSUME NEW p \in Procs,
             Access(p) \/ Socket(p) \/ Listen(p) \/ Connect(p) \/ Close(p) \/ TtyStep(p) \/ TtyClose(p)
      PROVE  MeetInv'
  BY <1>5, MeetAccess, MeetSocket, MeetConnect, MeetClose, MeetTtyStep
<1>6. ASSUME NEW p \in Procs,
             FifoFails(p) \/ MsgqFails(p) \/ UartFails(p) \/ StartFails(p) \/ ConnectFails(p) \/ Crash(p)
      PROVE  MeetInv'
  BY <1>6, MeetFifoFails, MeetNamesStay, MeetConnectFails, MeetDie DEF StartFails, Crash
<1>7. CASE UNCHANGED vars
  <2>1. UNCHANGED use /\ UNCHANGED kernel /\ UNCHANGED call /\ UNCHANGED manager /\ UNCHANGED history
    BY <1>7 DEF vars
  <2> QED  BY <2>1, MeetStill DEF kernel, manager, history
<1> QED  BY <1>1, <1>2, <1>3, <1>4, <1>5, <1>6, <1>7 DEF Next

\* What channel_open promises both ends, whatever comes between the system calls of a setup
\* and whatever fails: who opens a device after its server did, with no other call on it
\* meanwhile, writes where the server reads and reads where it writes, and on a bus is
\* connected to the server that one of them runs.
THEOREM EndsMeetAlways == Spec => []EndsMeet
<1>1. ChannelInv /\ MeetInv => EndsMeet
  <2> SUFFICES ASSUME ChannelInv, MeetInv, NEW d \in Devices, NEW p \in touch[d], NEW q \in touch[d]
               PROVE  LET c == Channel(p, d)
                          s == Channel(q, d)
                      IN /\ (Type(d) \in {"fifo", "msgq"} /\ s.server /\ ~c.server) => c.w = s.r /\ c.r = s.w
                         /\ (Type(d) = "bus" /\ s.l # 0) => c.w = s.l
    BY DEF EndsMeet
  <2> DEFINE k == use[d].type
             s == map[q].val[d]
             c == map[p].val[d]
  <2>1. Leads(k, s) => Joins(k, s, c)
    BY DEF MeetInv, Meeting, ServerAt, Served1
  <2> HIDE DEF k, s, c
  <2>2. /\ (k \in {"fifo", "msgq"} /\ s.server /\ ~c.server) => c.w = s.r /\ c.r = s.w
        /\ (k = "bus" /\ s.l # 0) => c.w = s.l
    BY <2>1 DEF Leads, Joins
  <2> QED  BY <2>2 DEF Channel, Type, k, s, c
<1> QED  BY <1>1, InitInv, NextInv, FreshInit, FreshNext, MeetInit, MeetNext, PTL DEF Spec
=============================================================================
