--------------------------- MODULE WorkqueueProofs ---------------------------
(***************************************************************************)
(* Theorems about workqueue.c for any number of workers and any set of     *)
(* works: the types, and that a work is always at one place.               *)
(***************************************************************************)
EXTENDS Workqueue, FiniteSetTheorems, SequenceTheorems, TLAPS

-----------------------------------------------------------------------------
(* Facts about the backlog as a sequence *)

LEMMA AppendedWork ==
  ASSUME NEW S, NEW s \in Seq(S), NEW e \in S
  PROVE  /\ Append(s, e) \in Seq(S)
         /\ Len(Append(s, e)) = Len(s) + 1
         /\ ToSet(Append(s, e)) = ToSet(s) \cup {e}
         /\ IsInjective(s) /\ e \notin ToSet(s) => IsInjective(Append(s, e))
<1> DEFINE t == Append(s, e)
<1>1. /\ t \in Seq(S) /\ Len(t) = Len(s) + 1 /\ Len(s) \in Nat
      /\ DOMAIN s = 1 .. Len(s) /\ DOMAIN t = 1 .. Len(s) + 1
      /\ \A i \in 1 .. Len(s) : t[i] = s[i]
      /\ t[Len(s) + 1] = e
  BY AppendProperties, LenProperties
<1> HIDE DEF t
<1>2. ToSet(t) = ToSet(s) \cup {e}
  <2>1. ToSet(t) \subseteq ToSet(s) \cup {e}
    BY <1>1, SMT DEF ToSet
  <2>2. \A i \in DOMAIN s : i \in DOMAIN t /\ t[i] = s[i]
    BY <1>1, SMT
  <2>3. Len(s) + 1 \in DOMAIN t
    BY <1>1, SMT
  <2>4. ToSet(s) \subseteq ToSet(t)
    BY <2>2 DEF ToSet
  <2>5. e \in ToSet(t)
    BY <1>1, <2>3 DEF ToSet
  <2> QED  BY <2>1, <2>4, <2>5
<1>3. ASSUME IsInjective(s), e \notin ToSet(s) PROVE IsInjective(t)
  <2>1. \A i \in DOMAIN s : s[i] # e
    BY <1>3 DEF ToSet
  <2> QED  BY <1>1, <1>3, <2>1, SMT DEF IsInjective
<1> QED  BY <1>1, <1>2, <1>3 DEF t

LEMMA RemainingWorks ==
  ASSUME NEW S, NEW s \in Seq(S), s # <<>>
  PROVE  /\ Head(s) \in S /\ Head(s) \in ToSet(s)
         /\ Tail(s) \in Seq(S)
         /\ Len(Tail(s)) = Len(s) - 1 /\ Len(s) > 0
         /\ ToSet(Tail(s)) \subseteq ToSet(s)
         /\ ToSet(s) = ToSet(Tail(s)) \cup {Head(s)}
         /\ IsInjective(s) => IsInjective(Tail(s)) /\ Head(s) \notin ToSet(Tail(s))
<1> DEFINE t == Tail(s)
<1>1. /\ t \in Seq(S) /\ Len(t) = Len(s) - 1 /\ Len(s) \in Nat /\ Len(t) \in Nat
      /\ DOMAIN s = 1 .. Len(s) /\ DOMAIN t = 1 .. Len(t)
      /\ \A i \in 1 .. Len(t) : t[i] = s[i + 1]
      /\ Head(s) \in S
  BY HeadTailProperties, LenProperties, EmptySeq
<1>2. Head(s) = s[1] /\ Len(s) > 0 /\ 1 \in DOMAIN s
  BY <1>1, SMT
<1> HIDE DEF t
<1>3. ToSet(t) \subseteq ToSet(s)
  <2>1. \A i \in DOMAIN t : i + 1 \in DOMAIN s /\ t[i] = s[i + 1]
    BY <1>1, SMT
  <2> QED  BY <2>1 DEF ToSet
<1>4. ASSUME NEW i \in DOMAIN s, i # 1 PROVE s[i] \in ToSet(t)
  <2>1. i - 1 \in DOMAIN t /\ t[i - 1] = s[i]
    BY <1>1, <1>4, SMT
  <2> QED  BY <2>1 DEF ToSet
<1>5. Head(s) \in ToSet(s)
  BY <1>2 DEF ToSet
<1>6. ToSet(s) = ToSet(t) \cup {Head(s)}
  BY <1>2, <1>3, <1>4, <1>5 DEF ToSet
<1>7. ASSUME IsInjective(s) PROVE IsInjective(t) /\ Head(s) \notin ToSet(t)
  <2>1. \A i, j \in DOMAIN s : s[i] = s[j] => i = j
    BY <1>7 DEF IsInjective
  <2>2. \A i \in DOMAIN t : i + 1 \in DOMAIN s /\ i + 1 # 1 /\ t[i] = s[i + 1]
    BY <1>1, SMT
  <2>3. IsInjective(t)
    BY <1>1, <2>1, <2>2, SMT DEF IsInjective
  <2>4. Head(s) \notin ToSet(t)
    BY <1>2, <2>1, <2>2 DEF ToSet
  <2> QED  BY <2>3, <2>4
<1> QED  BY <1>1, <1>2, <1>3, <1>5, <1>6, <1>7 DEF t

-----------------------------------------------------------------------------
(* Types.  get_backlog decrements backlog_count: that it stays a natural   *)
(* number takes the length of the backlog.                                 *)
TypeInv == TypeOK /\ backlog_count = Len(backlog)

LEMMA WorkersNotWorks == \A w \in Workers : w \in Threads /\ w \notin Works
BY WorksAssumption DEF Threads

LEMMA WorksNotWorkers == \A k \in Works : k \in Threads /\ k \notin Workers
BY WorksAssumption DEF Threads

LEMMA FirstWorker == 1 \in Workers /\ NumWorkers \in Nat
BY WorkersAssumption, SMT DEF Workers

LEMMA TypeInvInit == Init => TypeInv
<1> SUFFICES ASSUME Init PROVE TypeInv
  OBVIOUS
<1>1. backlog \in Seq(Works) /\ Len(backlog) = 0
  BY SMT DEF Init
<1>2. pc \in [Threads -> WorkerPlaces \cup ClientPlaces]
  BY DEF Init, WorkerPlaces, ClientPlaces
<1>3. \A w \in Workers : pc[w] = "start"
  BY WorkersNotWorks DEF Init
<1>4. \A k \in Works : pc[k] = "idle"
  BY WorksNotWorkers DEF Init
<1>5. \A w \in Workers : pc[w] \in WorkerPlaces /\ pc[w] \notin Holding
  BY <1>3 DEF WorkerPlaces, Holding
<1>6. \A k \in Works : pc[k] \in ClientPlaces
  BY <1>4 DEF ClientPlaces
<1>7. scan \in [Threads -> Workers]
  BY FirstWorker DEF Init
<1>8. tokens \in [Workers -> 0 .. PipeTokens]
  BY BoundsAssumption, SMT DEF Init
<1>9. opened \subseteq Workers
  BY DEF Init
<1>10. /\ status \in [Works -> {"NEW", "QUEUED", "IN_PROGRESS", "COMPLETE"}]
       /\ cancel \in [Works -> BOOLEAN]
       /\ state \in [Workers -> {"OFFLINE", "IDLE", "RUNNING"}]
       /\ job \in [Workers -> Works \cup {NoWork}]
  BY DEF Init
<1>11. /\ backlog_count = 0 /\ backlog_count \in Nat
       /\ owner \in {"live", "closing", "freed"} /\ closing \in 0 .. NumWorkers
  BY FirstWorker, SMT DEF Init
<1> QED  BY <1>1, <1>2, <1>5, <1>6, <1>7, <1>8, <1>9, <1>10, <1>11 DEF TypeInv, TypeOK

(* A step that moves thread t to l and leaves the backlog, the works a     *)
(* worker holds and scan alone keeps what TypeOK says of them.             *)
LEMMA GotoType ==
  ASSUME TypeOK, NEW t \in Threads, NEW l, Goto(t, l),
         t \in Workers => l \in WorkerPlaces,
         t \in Works => l \in ClientPlaces
  PROVE  /\ pc' \in [Threads -> WorkerPlaces \cup ClientPlaces]
         /\ \A w \in Workers : pc'[w] \in WorkerPlaces
         /\ \A k \in Works : pc'[k] \in ClientPlaces
         /\ pc'[t] = l /\ \A u \in Threads \ {t} : pc'[u] = pc[u]
<1>1. t \in Workers \/ t \in Works
  BY DEF Threads
<1>2. pc' = [pc EXCEPT ![t] = l] /\ pc \in [Threads -> WorkerPlaces \cup ClientPlaces]
  BY DEF Goto, TypeOK
<1>3. pc'[t] = l /\ \A u \in Threads \ {t} : pc'[u] = pc[u]
  BY <1>2
<1>4. pc' \in [Threads -> WorkerPlaces \cup ClientPlaces]
  BY <1>1, <1>2
<1>5. \A w \in Workers : pc'[w] \in WorkerPlaces
  BY <1>3, WorkersNotWorks DEF TypeOK
<1>6. \A k \in Works : pc'[k] \in ClientPlaces
  BY <1>3, WorksNotWorkers DEF TypeOK
<1> QED  BY <1>3, <1>4, <1>5, <1>6

(* put_backlog by thread t of a work k that is not in t's hands afterwards *)
LEMMA EnqueueType ==
  ASSUME TypeInv, NEW k \in Works, NEW t, Enqueue(t, k)
  PROVE  /\ backlog' \in Seq(Works) /\ backlog_count' \in Nat
         /\ backlog_count' = Len(backlog')
         /\ Goto(t, "scan")
<1>1. backlog' = Append(backlog, k) /\ backlog_count' = backlog_count + 1 /\ Goto(t, "scan")
  BY DEF Enqueue
<1>2. backlog \in Seq(Works) /\ backlog_count \in Nat /\ backlog_count = Len(backlog)
  BY DEF TypeInv, TypeOK
<1>3. backlog' \in Seq(Works) /\ Len(backlog') = Len(backlog) + 1
  BY <1>1, <1>2, AppendedWork
<1> QED  BY <1>1, <1>2, <1>3, SMT

(* The steps a worker and a client share *)
LEMMA ScanType == ASSUME TypeInv, NEW t \in Threads, Scan(t) PROVE TypeInv'
<1>1. scan[t] \in Workers /\ scan[t] \in Int
  BY SMT DEF TypeInv, TypeOK, Workers
<1>2. UNCHANGED <<queueVars, workVars, state, eventVars, job, ownerVars>>
  BY DEF Scan
<1>3. ASSUME NEW l \in {"signal", "get", "idle"}, Goto(t, l), scan' \in [Threads -> Workers],
             t \in Workers => l # "idle", t \in Works => l # "get"
      PROVE  TypeInv'
  <2>1. /\ t \in Workers => l \in WorkerPlaces
        /\ t \in Works => l \in ClientPlaces
        /\ l \notin Holding
    BY <1>3 DEF WorkerPlaces, ClientPlaces, Holding
  <2>2. /\ pc' \in [Threads -> WorkerPlaces \cup ClientPlaces]
        /\ \A w \in Workers : pc'[w] \in WorkerPlaces
        /\ \A k \in Works : pc'[k] \in ClientPlaces
        /\ pc'[t] = l /\ \A u \in Threads \ {t} : pc'[u] = pc[u]
    BY <1>3, <2>1, GotoType DEF TypeInv
  <2>3. \A w \in Workers : pc'[w] \in Holding => job[w] \in Works
    BY <2>1, <2>2, WorkersNotWorks DEF TypeInv, TypeOK
  <2> QED  BY <1>2, <1>3, <2>2, <2>3
           DEF TypeInv, TypeOK, queueVars, workVars, eventVars, ownerVars
<1>4. CASE Goto(t, "signal") /\ UNCHANGED scan
  <2>1. scan' \in [Threads -> Workers]
    BY <1>4 DEF TypeInv, TypeOK
  <2> QED  BY <1>3, <1>4, <2>1
<1>5. CASE scan[t] < NumWorkers /\ scan' = [scan EXCEPT ![t] = scan[t] + 1] /\ UNCHANGED pc
  <2>1. scan[t] + 1 \in Workers
    BY <1>1, <1>5, FirstWorker, SMT DEF Workers
  <2>2. scan' \in [Threads -> Workers]
    BY <1>5, <2>1 DEF TypeInv, TypeOK
  <2> QED  BY <1>2, <1>5, <2>2 DEF TypeInv, TypeOK, queueVars, workVars, eventVars, ownerVars
<1>6. CASE Return(t)
  <2>1. scan' \in [Threads -> Workers]
    BY <1>6, FirstWorker DEF Return, TypeInv, TypeOK
  <2>2. Goto(t, AfterPut(t))
    BY <1>6 DEF Return
  <2>3. /\ AfterPut(t) \in {"signal", "get", "idle"}
        /\ t \in Workers => AfterPut(t) # "idle"
        /\ t \in Works => AfterPut(t) # "get"
    BY WorksNotWorkers DEF AfterPut
  <2> QED  BY <1>3, <2>1, <2>2, <2>3
<1> QED  BY <1>4, <1>5, <1>6 DEF Scan

(* TypeInv in two parts: the data, and where threads are with what works. *)
DataInv ==
  /\ backlog \in Seq(Works) /\ backlog_count \in Nat /\ backlog_count = Len(backlog)
  /\ status \in [Works -> {"NEW", "QUEUED", "IN_PROGRESS", "COMPLETE"}]
  /\ cancel \in [Works -> BOOLEAN]
  /\ state \in [Workers -> {"OFFLINE", "IDLE", "RUNNING"}]
  /\ opened \subseteq Workers /\ tokens \in [Workers -> 0 .. PipeTokens]
  /\ scan \in [Threads -> Workers]
  /\ owner \in {"live", "closing", "freed"} /\ closing \in 0 .. NumWorkers

PlacesInv ==
  /\ pc \in [Threads -> WorkerPlaces \cup ClientPlaces]
  /\ \A w \in Workers : pc[w] \in WorkerPlaces
  /\ \A k \in Works : pc[k] \in ClientPlaces
  /\ job \in [Workers -> Works \cup {NoWork}]
  /\ \A w \in Workers : pc[w] \in Holding => job[w] \in Works

LEMMA TypeSplit == TypeInv <=> DataInv /\ PlacesInv
BY DEF TypeInv, TypeOK, DataInv, PlacesInv

LEMMA TypeSplitPrime == TypeInv' <=> DataInv' /\ PlacesInv'
BY DEF TypeInv, TypeOK, DataInv, PlacesInv

(* A step of worker w to l *)
LEMMA WorkerGotoType ==
  ASSUME TypeInv, NEW w \in Workers, NEW l \in WorkerPlaces, Goto(w, l),
         job' \in [Workers -> Works \cup {NoWork}],
         \A v \in Workers \ {w} : job'[v] = job[v],
         l \in Holding => job'[w] \in Works
  PROVE  PlacesInv'
<1>1. w \in Threads /\ w \notin Works
  BY WorkersNotWorks
<1>2. /\ pc' \in [Threads -> WorkerPlaces \cup ClientPlaces]
      /\ \A v \in Workers : pc'[v] \in WorkerPlaces
      /\ \A k \in Works : pc'[k] \in ClientPlaces
      /\ pc'[w] = l /\ \A u \in Threads \ {w} : pc'[u] = pc[u]
  BY <1>1, GotoType DEF TypeInv
<1>3. \A v \in Workers : pc'[v] \in Holding => job'[v] \in Works
  BY <1>2, WorkersNotWorks DEF TypeInv, TypeOK
<1> QED  BY <1>2, <1>3 DEF PlacesInv

(* The same when the works workers hold stay *)
LEMMA WorkerMoveType ==
  ASSUME TypeInv, NEW w \in Workers, NEW l \in WorkerPlaces, Goto(w, l), UNCHANGED job,
         l \in Holding => pc[w] \in Holding
  PROVE  PlacesInv'
BY WorkerGotoType DEF TypeInv, TypeOK

(* A step of client k to l *)
LEMMA ClientGotoType ==
  ASSUME TypeInv, NEW k \in Works, NEW l \in ClientPlaces, Goto(k, l), UNCHANGED job
  PROVE  PlacesInv'
<1>1. k \in Threads /\ k \notin Workers
  BY WorksNotWorkers
<1>2. /\ pc' \in [Threads -> WorkerPlaces \cup ClientPlaces]
      /\ \A v \in Workers : pc'[v] \in WorkerPlaces
      /\ \A j \in Works : pc'[j] \in ClientPlaces
      /\ pc'[k] = l /\ \A u \in Threads \ {k} : pc'[u] = pc[u]
  BY <1>1, GotoType DEF TypeInv
<1>3. \A v \in Workers : pc'[v] = pc[v]
  BY <1>1, <1>2 DEF Threads
<1> QED  BY <1>2, <1>3 DEF PlacesInv, TypeInv, TypeOK

LEMMA SignalType == ASSUME TypeInv, NEW t \in Threads, Signal(t) PROVE TypeInv'
<1> USE DEF queueVars, workVars, eventVars, ownerVars
<1>1. DataInv /\ Return(t) /\ UNCHANGED <<queueVars, workVars, state, opened, job, ownerVars>>
  BY TypeSplit DEF Signal
<1>2. tokens' \in [Workers -> 0 .. PipeTokens]
  <2> DEFINE w == scan[t]
  <2>1. w \in Workers /\ tokens[w] \in 0 .. PipeTokens
    BY DEF TypeInv, TypeOK
  <2>2. CASE UNCHANGED tokens
    BY <2>2 DEF TypeInv, TypeOK
  <2>3. CASE tokens[w] < PipeTokens /\ tokens' = [tokens EXCEPT ![w] = tokens[w] + 1]
    <3>1. tokens[w] + 1 \in 0 .. PipeTokens
      BY <2>1, <2>3, BoundsAssumption, SMT
    <3> QED  BY <2>1, <2>3, <3>1 DEF TypeInv, TypeOK
  <2> QED  BY <2>2, <2>3 DEF Signal
<1>3. scan' \in [Threads -> Workers] /\ Goto(t, AfterPut(t))
  BY <1>1, FirstWorker DEF Return, DataInv
<1>4. PlacesInv'
  <2>1. CASE t \in Workers
    BY <1>1, <1>3, <2>1, WorkerMoveType DEF AfterPut, WorkerPlaces, Holding
  <2>2. CASE t \in Works
    BY <1>1, <1>3, <2>2, ClientGotoType, WorksNotWorkers DEF AfterPut, ClientPlaces
  <2> QED  BY <2>1, <2>2 DEF Threads
<1>5. DataInv'
  BY <1>1, <1>2, <1>3 DEF DataInv
<1> QED  BY <1>4, <1>5, TypeSplitPrime

LEMMA WorkerStepType == ASSUME TypeInv, NEW w \in Workers, WorkerStep(w) PROVE TypeInv'
<1> USE DEF queueVars, workVars, eventVars, ownerVars
<1>0. DataInv /\ PlacesInv /\ w \in Threads
  BY TypeSplit, WorkersNotWorks
<1> SUFFICES DataInv' /\ PlacesInv'
  BY TypeSplitPrime
<1>1. CASE GoIdle(w)
  BY <1>0, <1>1, WorkerMoveType DEF GoIdle, DataInv, WorkerPlaces, Holding
<1>2. CASE Wait(w)
  <2> DEFINE n == IF tokens[w] < TokensPerRead THEN tokens[w] ELSE TokensPerRead
  <2>1. PlacesInv'
    BY <1>0, <1>2, WorkerMoveType DEF Wait, WorkerPlaces, Holding
  <2>2. /\ tokens' = [tokens EXCEPT ![w] = tokens[w] - n]
        /\ UNCHANGED <<queueVars, workVars, state, opened, scan, ownerVars>>
    BY <1>2 DEF Wait
  <2>3. tokens[w] \in 0 .. PipeTokens
    BY <1>0 DEF DataInv
  <2>4. tokens[w] - n \in 0 .. PipeTokens
    BY <2>3, BoundsAssumption, SMT
  <2> HIDE DEF n
  <2> QED  BY <1>0, <2>1, <2>2, <2>4 DEF DataInv
<1>3. CASE LeaveLoop(w)
  BY <1>0, <1>3, WorkerMoveType DEF LeaveLoop, DataInv, WorkerPlaces, Holding
<1>4. CASE GoRunning(w)
  BY <1>0, <1>4, WorkerMoveType DEF GoRunning, DataInv, WorkerPlaces, Holding
<1>5. CASE GetWork(w)
  <2>1. /\ backlog \in Seq(Works) /\ backlog # <<>>
        /\ backlog' = Tail(backlog) /\ backlog_count' = backlog_count - 1
        /\ job' = [job EXCEPT ![w] = Head(backlog)] /\ Goto(w, "check")
        /\ UNCHANGED <<workVars, state, eventVars, scan, ownerVars>>
    BY <1>0, <1>5 DEF GetWork, DataInv
  <2>2. /\ Head(backlog) \in Works /\ Tail(backlog) \in Seq(Works)
        /\ Len(Tail(backlog)) = Len(backlog) - 1 /\ Len(backlog) > 0
    BY <2>1, RemainingWorks
  <2>3. backlog_count \in Nat /\ backlog_count = Len(backlog)
    BY <1>0 DEF DataInv
  <2>4. backlog' \in Seq(Works) /\ backlog_count' \in Nat /\ backlog_count' = Len(backlog')
    BY <2>1, <2>2, <2>3, SMT
  <2>5. DataInv'
    BY <1>0, <2>1, <2>4 DEF DataInv
  <2>6. /\ job' \in [Workers -> Works \cup {NoWork}] /\ job'[w] \in Works
        /\ \A v \in Workers \ {w} : job'[v] = job[v]
    BY <1>0, <2>1, <2>2 DEF PlacesInv
  <2>7. PlacesInv'
    BY <2>1, <2>6, WorkerGotoType DEF WorkerPlaces, Holding
  <2> QED  BY <2>5, <2>7
<1>6. CASE GetNothing(w)
  BY <1>0, <1>6, WorkerMoveType DEF GetNothing, DataInv, WorkerPlaces, Holding
<1>7. CASE CheckCancelled(w)
  <2>1. PlacesInv'
    BY <1>0, <1>7, WorkerMoveType DEF CheckCancelled, WorkerPlaces, Holding
  <2>2. DataInv'
    BY <1>0, <1>7 DEF CheckCancelled, DataInv
  <2> QED  BY <2>1, <2>2
<1>8. CASE BeginWork(w)
  <2>1. PlacesInv'
    BY <1>0, <1>8, WorkerMoveType DEF BeginWork, WorkerPlaces, Holding
  <2>2. DataInv'
    BY <1>0, <1>8 DEF BeginWork, DataInv
  <2> QED  BY <2>1, <2>2
<1>9. CASE WorkReturns(w)
  BY <1>0, <1>9, WorkerMoveType DEF WorkReturns, DataInv, WorkerPlaces, Holding
<1>10. CASE CompleteWork(w)
  <2>1. PlacesInv'
    BY <1>0, <1>10, WorkerMoveType DEF CompleteWork, WorkerPlaces, Holding
  <2>2. DataInv'
    BY <1>0, <1>10 DEF CompleteWork, DataInv
  <2> QED  BY <2>1, <2>2
<1>11. CASE Notified(w)
  <2>1. PlacesInv'
    BY <1>0, <1>11, WorkerGotoType DEF Notified, WorkerPlaces, Holding, PlacesInv
  <2> QED  BY <1>0, <1>11, <2>1 DEF Notified, DataInv
<1>12. CASE PutYielded(w)
  <2>1. job[w] \in Works
    BY <1>0, <1>12 DEF PutYielded, PlacesInv, Holding
  <2>2. /\ backlog' \in Seq(Works) /\ backlog_count' \in Nat
        /\ backlog_count' = Len(backlog') /\ Goto(w, "scan")
    BY <1>12, <2>1, EnqueueType DEF PutYielded
  <2>3. PlacesInv'
    BY <1>0, <1>12, <2>2, WorkerGotoType DEF PutYielded, WorkerPlaces, Holding, PlacesInv
  <2> QED  BY <1>0, <1>12, <2>2, <2>3 DEF PutYielded, DataInv
<1>13. CASE Scan(w)
  BY <1>0, <1>13, ScanType, TypeSplitPrime
<1>14. CASE Signal(w)
  BY <1>0, <1>14, SignalType, TypeSplitPrime
<1>15. CASE Die(w)
  BY <1>0, <1>15, WorkerMoveType DEF Die, DataInv, WorkerPlaces, Holding
<1> QED  BY <1>1, <1>2, <1>3, <1>4, <1>5, <1>6, <1>7, <1>8, <1>9, <1>10, <1>11, <1>12,
            <1>13, <1>14, <1>15 DEF WorkerStep

LEMMA ClientType ==
  ASSUME TypeInv, NEW k \in Works, AddWork(k) \/ CancelWork(k) \/ ClientStep(k)
  PROVE  TypeInv'
<1> USE DEF queueVars, workVars, eventVars, ownerVars
<1>0. DataInv /\ PlacesInv /\ k \in Threads
  BY TypeSplit, WorksNotWorkers
<1>1. CASE AddWork(k)
  <2>1. PlacesInv'
    BY <1>1, ClientGotoType DEF AddWork, ClientPlaces
  <2>2. DataInv'
    BY <1>0, <1>1 DEF AddWork, DataInv
  <2> QED  BY <2>1, <2>2, TypeSplitPrime
<1>2. CASE CancelWork(k)
  BY <1>2 DEF CancelWork, TypeInv, TypeOK
<1>3. CASE PutAdded(k)
  <2>1. /\ backlog' \in Seq(Works) /\ backlog_count' \in Nat
        /\ backlog_count' = Len(backlog') /\ Goto(k, "scan")
    BY <1>3, EnqueueType DEF PutAdded
  <2>2. PlacesInv'
    BY <1>3, <2>1, ClientGotoType DEF PutAdded, ClientPlaces
  <2>3. DataInv'
    BY <1>0, <1>3, <2>1 DEF PutAdded, DataInv
  <2> QED  BY <2>2, <2>3, TypeSplitPrime
<1>4. CASE Scan(k)
  BY <1>0, <1>4, ScanType
<1>5. CASE Signal(k)
  BY <1>0, <1>5, SignalType
<1> QED  BY <1>1, <1>2, <1>3, <1>4, <1>5 DEF ClientStep

LEMMA OwnerType == ASSUME TypeInv, FlushBacklog \/ OwnerStep PROVE TypeInv'
<1> USE DEF queueVars, workVars, eventVars, ownerVars
<1>1. CASE FlushBacklog
  <2>1. backlog' = <<>> /\ backlog_count' = backlog_count - Len(backlog)
    BY <1>1 DEF FlushBacklog
  <2>2. backlog' \in Seq(Works) /\ Len(backlog') = 0 /\ backlog_count' = 0
    BY <2>1, SMT DEF TypeInv, TypeOK
  <2>3. status' \in [Works -> {"NEW", "QUEUED", "IN_PROGRESS", "COMPLETE"}]
    BY <1>1 DEF FlushBacklog, TypeInv, TypeOK
  <2>4. 0 \in Nat
    BY SMT
  <2> QED  BY <1>1, <2>2, <2>3, <2>4 DEF FlushBacklog, TypeInv, TypeOK
<1>2. CASE CloseWorker
  <2>1. closing' \in 0 .. NumWorkers
    BY <1>2, FirstWorker, SMT DEF CloseWorker, TypeInv, TypeOK
  <2> QED  BY <1>2, <2>1 DEF CloseWorker, TypeInv, TypeOK
<1>3. CASE FreeWorkers
  BY <1>3 DEF FreeWorkers, TypeInv, TypeOK
<1> QED  BY <1>1, <1>2, <1>3 DEF OwnerStep

LEMMA TypeInvStep == TypeInv /\ [Next]_vars => TypeInv'
<1> SUFFICES ASSUME TypeInv, [Next]_vars PROVE TypeInv'
  OBVIOUS
<1>1. CASE UNCHANGED vars
  BY <1>1 DEF vars, queueVars, workVars, eventVars, ownerVars, TypeInv, TypeOK
<1>2. ASSUME NEW w \in Workers, WorkerStep(w) PROVE TypeInv'
  BY <1>2, WorkerStepType
<1>3. ASSUME NEW k \in Works, AddWork(k) \/ CancelWork(k) \/ ClientStep(k) PROVE TypeInv'
  BY <1>3, ClientType
<1>4. CASE FlushBacklog \/ OwnerStep
  BY <1>4, OwnerType
<1> QED  BY <1>1, <1>2, <1>3, <1>4 DEF Next

(* The variables keep their types, no worker dereferences a NULL work, and *)
(* backlog_count is the length of the backlog: workqueue_backlog_count     *)
(* answers the number of works that wait.                                  *)
THEOREM TypeCorrect == Spec => [](TypeOK /\ backlog_count = Len(backlog))
<1>1. TypeInv => TypeOK /\ backlog_count = Len(backlog)
  BY DEF TypeInv
<1> QED  BY <1>1, TypeInvInit, TypeInvStep, PTL DEF Spec

-----------------------------------------------------------------------------
(* A work is always at one place.  Not so a work that may be cancelled and *)
(* added again: it reads COMPLETE before a worker executes it.             *)

(* The status reads as if the queue were done with the work. *)
Released(k) == \/ status[k] = "NEW"
               \/ k \notin Cancellable /\ status[k] = "COMPLETE"
Nowhere(k) == ~ Waiting(k) /\ ~ Arriving(k) /\ \A w \in Workers : ~ Holds(w, k)

(* OnePlace alone is not inductive: a work a client may add must not be    *)
(* anywhere yet, which a cancellation would break.                         *)
PlaceInv == /\ TypeInv
            /\ AtMostOnePlace /\ SomePlace
            /\ \A k \in Works : Released(k) => Nowhere(k)
            /\ \A k \in Works \ Cancellable : ~ cancel[k]

LEMMA PlaceInvInit == Init => PlaceInv
<1> SUFFICES ASSUME Init PROVE PlaceInv
  OBVIOUS
<1>1. TypeInv
  BY TypeInvInit
<1>2. /\ ToSet(backlog) = {} /\ DOMAIN backlog = {}
      /\ \A k \in Works : status[k] = "NEW" /\ pc[k] = "idle" /\ ~ cancel[k]
      /\ \A w \in Workers : pc[w] = "start"
  <2>1. backlog = <<>> /\ DOMAIN backlog = {}
    BY SMT DEF Init
  <2>2. ToSet(backlog) = {}
    BY <2>1 DEF ToSet
  <2> QED  BY <2>1, <2>2, WorkersNotWorks, WorksNotWorkers DEF Init
<1>3. \A w \in Workers : pc[w] \notin Holding
  BY <1>2 DEF Holding
<1>4. \A k \in Works : Nowhere(k)
  BY <1>2, <1>3 DEF Nowhere, Waiting, Arriving, Holds
<1>5. IsInjective(backlog)
  BY <1>2 DEF IsInjective
<1>6. AtMostOnePlace
  BY <1>4, <1>5 DEF AtMostOnePlace, Nowhere
<1>7. SomePlace
  BY <1>2 DEF SomePlace
<1> QED  BY <1>1, <1>2, <1>4, <1>6, <1>7, WorksAssumption DEF PlaceInv

(* A step that moves no work from the backlog, from a client or to a       *)
(* worker keeps the invariant, if what reads QUEUED or IN_PROGRESS after   *)
(* it did before or is held by a worker.                                   *)
LEMMA UnmovedWorks ==
  ASSUME PlaceInv, TypeInv', UNCHANGED backlog,
         \A k \in Works : pc'[k] = "enqueue" <=> pc[k] = "enqueue",
         \A w \in Workers, k \in Works : Holds(w, k)' => Holds(w, k),
         \A w \in Workers, k \in Works :
           Holds(w, k) \/ DiedWith(w, k) => Holds(w, k)' \/ DiedWith(w, k)',
         \A k \in Works : Released(k)' => Released(k),
         \A k \in Works :
           status'[k] \in {"QUEUED", "IN_PROGRESS"} =>
             status[k] \in {"QUEUED", "IN_PROGRESS"} \/ \E w \in Workers : Holds(w, k),
         \A k \in Works \ Cancellable : ~ cancel'[k]
  PROVE  PlaceInv'
<1>1. \A k \in Works : (Waiting(k)' <=> Waiting(k)) /\ (Arriving(k)' <=> Arriving(k))
  BY DEF Waiting, Arriving
<1>2. AtMostOnePlace'
  BY <1>1 DEF PlaceInv, AtMostOnePlace
<1>3. SomePlace'
  <2> SUFFICES ASSUME NEW k \in Works, status'[k] \in {"QUEUED", "IN_PROGRESS"}
               PROVE  \/ Waiting(k)' \/ Arriving(k)'
                      \/ \E w \in Workers : Holds(w, k)' \/ DiedWith(w, k)'
    BY DEF SomePlace
  <2>1. Waiting(k) \/ Arriving(k) \/ \E w \in Workers : Holds(w, k) \/ DiedWith(w, k)
    BY DEF PlaceInv, SomePlace
  <2> QED  BY <1>1, <2>1
<1>4. \A k \in Works : Released(k)' => Nowhere(k)'
  BY <1>1 DEF PlaceInv, Nowhere
<1> QED  BY <1>2, <1>3, <1>4 DEF PlaceInv

(* What Goto does to the places of the works *)
LEMMA GotoPlaces ==
  ASSUME TypeInv, NEW t \in Threads, NEW l, Goto(t, l)
  PROVE  pc'[t] = l /\ \A u \in Threads \ {t} : pc'[u] = pc[u]
BY DEF Goto, TypeInv, TypeOK

Executes == Holding \ {"notify"}

(* A worker that takes or gives back no work, and may die with the one it has *)
LEMMA UnmovedByWorker ==
  ASSUME PlaceInv, TypeInv', NEW w \in Workers, NEW l, Goto(w, l),
         UNCHANGED <<backlog, job, cancel>>, pc[w] # "dead",
         l \in Executes => pc[w] \in Executes,
         pc[w] \in Executes => l \in Executes \cup {"dead"},
         \A k \in Works : Released(k)' => Released(k),
         \A k \in Works :
           status'[k] \in {"QUEUED", "IN_PROGRESS"} =>
             status[k] \in {"QUEUED", "IN_PROGRESS"} \/ \E v \in Workers : Holds(v, k)
  PROVE  PlaceInv'
<1>1. pc'[w] = l /\ \A u \in Threads \ {w} : pc'[u] = pc[u]
  BY GotoPlaces, WorkersNotWorks DEF PlaceInv
<1>2. \A k \in Works : pc'[k] = "enqueue" <=> pc[k] = "enqueue"
  BY <1>1, WorksNotWorkers
<1>3. \A v \in Workers, k \in Works : Holds(v, k)' => Holds(v, k)
  BY <1>1, WorkersNotWorks DEF Holds, Executes
<1>4. \A v \in Workers, k \in Works :
        Holds(v, k) \/ DiedWith(v, k) => Holds(v, k)' \/ DiedWith(v, k)'
  BY <1>1, WorkersNotWorks DEF Holds, DiedWith, Executes
<1>5. \A k \in Works \ Cancellable : ~ cancel'[k]
  BY DEF PlaceInv
<1> QED  BY <1>2, <1>3, <1>4, <1>5, UnmovedWorks

(* wakeup_first_free_worker moves no work. *)
LEMMA ScanPlaces ==
  ASSUME PlaceInv, TypeInv', NEW t \in Threads, Scan(t) \/ Signal(t)
  PROVE  PlaceInv'
<1> USE DEF queueVars, workVars
<1>1. pc[t] \in {"scan", "signal"} /\ UNCHANGED <<backlog, status, cancel, job>>
  BY DEF Scan, Signal
<1>2. UNCHANGED pc \/ \E l \in {"signal", "get", "idle"} : Goto(t, l)
  BY DEF Scan, Signal, Return, AfterPut
<1>3. /\ pc'[t] \in {"scan", "signal", "get", "idle"}
      /\ \A u \in Threads \ {t} : pc'[u] = pc[u]
  BY <1>1, <1>2, GotoPlaces DEF PlaceInv
<1>4. \A k \in Works : pc'[k] = "enqueue" <=> pc[k] = "enqueue"
  BY <1>1, <1>3, WorksNotWorkers
<1>5. \A w \in Workers, k \in Works :
        (Holds(w, k)' <=> Holds(w, k)) /\ (DiedWith(w, k)' <=> DiedWith(w, k))
  BY <1>1, <1>3, WorkersNotWorks DEF Holds, DiedWith, Holding
<1>6. \A k \in Works : Released(k)' <=> Released(k)
  BY <1>1 DEF Released
<1>7. \A k \in Works \ Cancellable : ~ cancel'[k]
  BY <1>1 DEF PlaceInv
<1> QED  BY <1>1, <1>4, <1>5, <1>6, <1>7, UnmovedWorks

(* put_backlog: the work leaves the thread that has it for the backlog. *)
LEMMA EnqueuedPlace ==
  ASSUME PlaceInv, TypeInv', NEW k \in Works, ~ Waiting(k), ~ Released(k),
         backlog' = Append(backlog, k), UNCHANGED <<status, cancel>>,
         \A j \in Works : pc'[j] = "enqueue" <=> pc[j] = "enqueue" /\ j # k,
         \A w \in Workers, j \in Works : Holds(w, j)' <=> Holds(w, j) /\ j # k,
         \A w \in Workers, j \in Works : DiedWith(w, j) => DiedWith(w, j)'
  PROVE  PlaceInv'
<1>1. backlog \in Seq(Works)
  BY DEF PlaceInv, TypeInv, TypeOK
<1>2. ToSet(backlog') = ToSet(backlog) \cup {k} /\ IsInjective(backlog')
  BY <1>1, AppendedWork DEF PlaceInv, AtMostOnePlace, Waiting
<1>3. \A j \in Works : /\ Waiting(j)' <=> Waiting(j) \/ j = k
                       /\ Arriving(j)' <=> Arriving(j) /\ j # k
                       /\ Released(j)' <=> Released(j)
  BY <1>2 DEF Waiting, Arriving, Released
<1>4. AtMostOnePlace'
  BY <1>2, <1>3 DEF PlaceInv, AtMostOnePlace
<1>5. SomePlace'
  BY <1>3 DEF PlaceInv, SomePlace
<1>6. \A j \in Works : Released(j)' => Nowhere(j)'
  BY <1>3 DEF PlaceInv, Nowhere
<1> QED  BY <1>4, <1>5, <1>6 DEF PlaceInv

(* get_backlog: the work moves from the backlog to the worker. *)
LEMMA GetWorkPlace ==
  ASSUME PlaceInv, TypeInv', NEW w \in Workers, GetWork(w)
  PROVE  PlaceInv'
<1> DEFINE h == Head(backlog)
<1>1. /\ backlog \in Seq(Works) /\ backlog # <<>> /\ backlog' = Tail(backlog)
      /\ job' = [job EXCEPT ![w] = h] /\ job \in [Workers -> Works \cup {NoWork}]
      /\ pc[w] = "get" /\ Goto(w, "check") /\ UNCHANGED <<status, cancel>>
  BY DEF GetWork, PlaceInv, TypeInv, TypeOK, workVars
<1>2. pc'[w] = "check" /\ \A u \in Threads \ {w} : pc'[u] = pc[u]
  BY <1>1, GotoPlaces, WorkersNotWorks DEF PlaceInv
<1>3. /\ h \in Works /\ h \in ToSet(backlog)
      /\ ToSet(backlog) = ToSet(backlog') \cup {h}
      /\ h \notin ToSet(backlog') /\ IsInjective(backlog')
  BY <1>1, RemainingWorks DEF PlaceInv, AtMostOnePlace
<1> HIDE DEF h
<1>4. \A k \in Works : /\ Waiting(k)' <=> Waiting(k) /\ k # h
                       /\ Arriving(k)' <=> Arriving(k)
                       /\ Released(k)' <=> Released(k)
  BY <1>1, <1>2, <1>3, WorksNotWorkers DEF Waiting, Arriving, Released
<1>5. Waiting(h) /\ ~ Arriving(h) /\ \A v \in Workers : ~ Holds(v, h)
  BY <1>3 DEF Waiting, PlaceInv, AtMostOnePlace
<1>6. \A k \in Works : Holds(w, k)' <=> k = h
  BY <1>1, <1>2 DEF Holds, Holding
<1>7. \A k \in Works : ~ Holds(w, k) /\ ~ DiedWith(w, k)
  BY <1>1 DEF Holds, DiedWith, Holding
<1>8. \A v \in Workers \ {w}, k \in Works :
        (Holds(v, k)' <=> Holds(v, k)) /\ (DiedWith(v, k)' <=> DiedWith(v, k))
  BY <1>1, <1>2, WorkersNotWorks DEF Holds, DiedWith
<1>9. AtMostOnePlace'
  BY <1>3, <1>4, <1>5, <1>6, <1>8 DEF PlaceInv, AtMostOnePlace
<1>10. SomePlace'
  <2> SUFFICES ASSUME NEW k \in Works, status'[k] \in {"QUEUED", "IN_PROGRESS"}
               PROVE  \/ Waiting(k)' \/ Arriving(k)'
                      \/ \E v \in Workers : Holds(v, k)' \/ DiedWith(v, k)'
    BY DEF SomePlace
  <2>1. Waiting(k) \/ Arriving(k) \/ \E v \in Workers : Holds(v, k) \/ DiedWith(v, k)
    BY <1>1 DEF PlaceInv, SomePlace
  <2>2. CASE k = h
    BY <1>6, <2>2
  <2>3. CASE k # h /\ (Waiting(k) \/ Arriving(k))
    BY <1>4, <2>3
  <2>4. CASE \E v \in Workers : Holds(v, k) \/ DiedWith(v, k)
    BY <1>7, <1>8, <2>4
  <2> QED  BY <2>1, <2>2, <2>3, <2>4
<1>11. \A k \in Works : Released(k)' => Nowhere(k)'
  BY <1>4, <1>5, <1>6, <1>8 DEF PlaceInv, Nowhere
<1>12. \A k \in Works \ Cancellable : ~ cancel'[k]
  BY <1>1 DEF PlaceInv
<1> QED  BY <1>9, <1>10, <1>11, <1>12 DEF PlaceInv

(* complete_work: from here on the client may add the work again. *)
LEMMA CompleteWorkPlace ==
  ASSUME PlaceInv, TypeInv', NEW w \in Workers, CompleteWork(w)
  PROVE  PlaceInv'
<1> DEFINE h == job[w]
<1>1. /\ h \in Works /\ pc[w] = "complete" /\ Goto(w, "notify")
      /\ status' = [status EXCEPT ![h] = "COMPLETE"]
      /\ status \in [Works -> {"NEW", "QUEUED", "IN_PROGRESS", "COMPLETE"}]
      /\ UNCHANGED <<backlog, job, cancel>>
  BY DEF CompleteWork, PlaceInv, TypeInv, TypeOK, queueVars, Holding
<1>2. pc'[w] = "notify" /\ \A u \in Threads \ {w} : pc'[u] = pc[u]
  BY <1>1, GotoPlaces, WorkersNotWorks DEF PlaceInv
<1>3. \A k \in Works : (Waiting(k)' <=> Waiting(k)) /\ (Arriving(k)' <=> Arriving(k))
  BY <1>1, <1>2, WorksNotWorkers DEF Waiting, Arriving
<1>4. Holds(w, h)
  BY <1>1 DEF Holds, Holding
<1>5. ~ Waiting(h) /\ ~ Arriving(h) /\ \A v \in Workers \ {w} : ~ Holds(v, h)
  BY <1>1, <1>4 DEF PlaceInv, AtMostOnePlace
<1>6. \A k \in Works : ~ Holds(w, k)' /\ ~ DiedWith(w, k)
  BY <1>1, <1>2 DEF Holds, DiedWith
<1>7. \A v \in Workers \ {w}, k \in Works :
        (Holds(v, k)' <=> Holds(v, k)) /\ (DiedWith(v, k)' <=> DiedWith(v, k))
  BY <1>1, <1>2, WorkersNotWorks DEF Holds, DiedWith
<1>8. \A k \in Works \ {h} : ~ Holds(w, k) /\ status'[k] = status[k]
  BY <1>1 DEF Holds
<1>9. AtMostOnePlace'
  BY <1>1, <1>3, <1>6, <1>7 DEF PlaceInv, AtMostOnePlace
<1>10. SomePlace'
  <2> SUFFICES ASSUME NEW k \in Works, status'[k] \in {"QUEUED", "IN_PROGRESS"}
               PROVE  \/ Waiting(k)' \/ Arriving(k)'
                      \/ \E v \in Workers : Holds(v, k)' \/ DiedWith(v, k)'
    BY DEF SomePlace
  <2>1. k # h
    BY <1>1
  <2>2. Waiting(k) \/ Arriving(k) \/ \E v \in Workers : Holds(v, k) \/ DiedWith(v, k)
    BY <1>8, <2>1 DEF PlaceInv, SomePlace
  <2> QED  BY <1>3, <1>6, <1>7, <1>8, <2>1, <2>2
<1>11. \A k \in Works : Released(k)' => Nowhere(k)'
  <2> SUFFICES ASSUME NEW k \in Works, Released(k)' PROVE Nowhere(k)'
    OBVIOUS
  <2>1. CASE k = h
    BY <1>3, <1>5, <1>6, <1>7, <2>1 DEF Nowhere
  <2>2. CASE k # h
    <3>1. Released(k)
      BY <1>8, <2>2 DEF Released
    <3> QED  BY <1>3, <1>6, <1>7, <3>1 DEF PlaceInv, Nowhere
  <2> QED  BY <2>1, <2>2
<1>12. \A k \in Works \ Cancellable : ~ cancel'[k]
  BY <1>1 DEF PlaceInv
<1> QED  BY <1>9, <1>10, <1>11, <1>12 DEF PlaceInv

LEMMA WorkerStepPlaces ==
  ASSUME PlaceInv, NEW w \in Workers, WorkerStep(w)
  PROVE  PlaceInv'
<1> USE DEF queueVars, workVars
<1>0. TypeInv' /\ w \in Threads
  BY WorkerStepType, WorkersNotWorks DEF PlaceInv
<1>1. CASE GoIdle(w)
  BY <1>0, <1>1, UnmovedByWorker DEF GoIdle, Executes, Holding, Released
<1>2. CASE Wait(w)
  BY <1>0, <1>2, UnmovedByWorker DEF Wait, Executes, Holding, Released
<1>3. CASE LeaveLoop(w)
  BY <1>0, <1>3, UnmovedByWorker DEF LeaveLoop, Executes, Holding, Released
<1>4. CASE GoRunning(w)
  BY <1>0, <1>4, UnmovedByWorker DEF GoRunning, Executes, Holding, Released
<1>5. CASE GetWork(w)
  BY <1>0, <1>5, GetWorkPlace
<1>6. CASE GetNothing(w)
  BY <1>0, <1>6, UnmovedByWorker DEF GetNothing, Executes, Holding, Released
<1>7. CASE CheckCancelled(w)
  <2> DEFINE h == job[w]
  <2>1. /\ h \in Works /\ pc[w] = "check" /\ Goto(w, "begin")
        /\ status' = IF cancel[h] THEN [status EXCEPT ![h] = "COMPLETE"] ELSE status
        /\ UNCHANGED <<backlog, job, cancel>>
        /\ status \in [Works -> {"NEW", "QUEUED", "IN_PROGRESS", "COMPLETE"}]
    BY <1>7 DEF CheckCancelled, PlaceInv, TypeInv, TypeOK, Holding
  <2>2. \A k \in Works : status'[k] # status[k] => cancel[k] /\ status'[k] = "COMPLETE"
    BY <2>1
  <2>3. \A k \in Works : Released(k)' => Released(k)
    BY <2>2 DEF Released, PlaceInv
  <2>4. \A k \in Works : status'[k] \in {"QUEUED", "IN_PROGRESS"} =>
                           status[k] \in {"QUEUED", "IN_PROGRESS"}
    BY <2>2
  <2> QED  BY <1>0, <2>1, <2>3, <2>4, UnmovedByWorker DEF Executes, Holding
<1>8. CASE BeginWork(w)
  <2> DEFINE h == job[w]
  <2>1. /\ h \in Works /\ pc[w] = "begin" /\ Goto(w, "run")
        /\ status' = [status EXCEPT ![h] = "IN_PROGRESS"]
        /\ UNCHANGED <<backlog, job, cancel>>
        /\ status \in [Works -> {"NEW", "QUEUED", "IN_PROGRESS", "COMPLETE"}]
    BY <1>8 DEF BeginWork, PlaceInv, TypeInv, TypeOK, Holding
  <2>2. Holds(w, h)
    BY <2>1 DEF Holds, Holding
  <2>3. \A k \in Works : k = h \/ status'[k] = status[k]
    BY <2>1
  <2>4. \A k \in Works : Released(k)' => Released(k)
    BY <2>1, <2>3 DEF Released
  <2>5. \A k \in Works : status'[k] \in {"QUEUED", "IN_PROGRESS"} =>
          status[k] \in {"QUEUED", "IN_PROGRESS"} \/ \E v \in Workers : Holds(v, k)
    BY <2>2, <2>3
  <2> QED  BY <1>0, <2>1, <2>4, <2>5, UnmovedByWorker DEF Executes, Holding
<1>9. CASE WorkReturns(w)
  BY <1>0, <1>9, UnmovedByWorker DEF WorkReturns, Executes, Holding, Released
<1>10. CASE CompleteWork(w)
  BY <1>0, <1>10, CompleteWorkPlace
<1>11. CASE Notified(w)
  <2>1. /\ pc[w] = "notify" /\ Goto(w, "get") /\ job' = [job EXCEPT ![w] = NoWork]
        /\ UNCHANGED <<backlog, status, cancel>>
        /\ job \in [Workers -> Works \cup {NoWork}]
    BY <1>11 DEF Notified, PlaceInv, TypeInv, TypeOK
  <2>2. pc'[w] = "get" /\ \A u \in Threads \ {w} : pc'[u] = pc[u]
    BY <1>0, <2>1, GotoPlaces DEF PlaceInv
  <2>3. \A k \in Works : pc'[k] = "enqueue" <=> pc[k] = "enqueue"
    BY <2>2, WorksNotWorkers
  <2>4. \A v \in Workers, k \in Works :
          (Holds(v, k)' <=> Holds(v, k)) /\ (DiedWith(v, k)' <=> DiedWith(v, k))
    BY <2>1, <2>2, WorkersNotWorks DEF Holds, DiedWith, Holding
  <2>5. \A k \in Works : Released(k)' <=> Released(k)
    BY <2>1 DEF Released
  <2>6. \A k \in Works \ Cancellable : ~ cancel'[k]
    BY <2>1 DEF PlaceInv
  <2> QED  BY <1>0, <2>1, <2>3, <2>4, <2>5, <2>6, UnmovedWorks
<1>12. CASE PutYielded(w)
  <2> DEFINE h == job[w]
  <2>1. /\ h \in Works /\ pc[w] = "requeue" /\ Goto(w, "scan")
        /\ backlog' = Append(backlog, h) /\ job' = [job EXCEPT ![w] = NoWork]
        /\ job \in [Workers -> Works \cup {NoWork}]
        /\ UNCHANGED <<status, cancel>>
    BY <1>12 DEF PutYielded, Enqueue, PlaceInv, TypeInv, TypeOK, Holding
  <2>2. pc'[w] = "scan" /\ \A u \in Threads \ {w} : pc'[u] = pc[u]
    BY <1>0, <2>1, GotoPlaces DEF PlaceInv
  <2>3. Holds(w, h)
    BY <2>1 DEF Holds, Holding
  <2>4. ~ Waiting(h) /\ ~ Arriving(h) /\ ~ Released(h)
    BY <2>1, <2>3 DEF PlaceInv, AtMostOnePlace, Nowhere
  <2>5. \A k \in Works : pc'[k] = "enqueue" <=> pc[k] = "enqueue" /\ k # h
    BY <2>2, <2>4, WorksNotWorkers DEF Arriving
  <2>6. \A k \in Works : ~ Holds(w, k)' /\ ~ DiedWith(w, k) /\ (Holds(w, k) => k = h)
    BY <2>1, <2>2 DEF Holds, DiedWith, Holding
  <2>7. \A v \in Workers \ {w}, k \in Works :
          (Holds(v, k)' <=> Holds(v, k)) /\ (DiedWith(v, k)' <=> DiedWith(v, k))
    BY <2>1, <2>2, WorkersNotWorks DEF Holds, DiedWith
  <2>8. \A v \in Workers \ {w} : ~ Holds(v, h)
    BY <2>1, <2>3 DEF PlaceInv, AtMostOnePlace
  <2>9. \A v \in Workers, k \in Works : Holds(v, k)' <=> Holds(v, k) /\ k # h
    BY <2>6, <2>7, <2>8
  <2>10. \A v \in Workers, k \in Works : DiedWith(v, k) => DiedWith(v, k)'
    BY <2>6, <2>7
  <2> HIDE DEF h
  <2> QED  BY <1>0, <2>1, <2>4, <2>5, <2>9, <2>10, EnqueuedPlace
<1>13. CASE Scan(w)
  BY <1>0, <1>13, ScanPlaces
<1>14. CASE Signal(w)
  BY <1>0, <1>14, ScanPlaces
<1>15. CASE Die(w)
  BY <1>0, <1>15, UnmovedByWorker DEF Die, Executes, Holding, Released
<1> QED  BY <1>1, <1>2, <1>3, <1>4, <1>5, <1>6, <1>7, <1>8, <1>9, <1>10, <1>11, <1>12,
            <1>13, <1>14, <1>15 DEF WorkerStep

LEMMA ClientPlacesStep ==
  ASSUME Cancellable \cap Readded = {}, PlaceInv, NEW k \in Works,
         AddWork(k) \/ CancelWork(k) \/ ClientStep(k)
  PROVE  PlaceInv'
<1> USE DEF queueVars, workVars
<1>0. TypeInv' /\ k \in Threads /\ k \notin Workers
  BY ClientType, WorksNotWorkers DEF PlaceInv
<1>1. CASE AddWork(k)
  <2>1. /\ Released(k) /\ Goto(k, "enqueue") /\ UNCHANGED <<backlog, job>>
        /\ cancel' = [cancel EXCEPT ![k] = FALSE]
        /\ status' = [status EXCEPT ![k] = "QUEUED"]
        /\ cancel \in [Works -> BOOLEAN]
        /\ status \in [Works -> {"NEW", "QUEUED", "IN_PROGRESS", "COMPLETE"}]
    <3>1. /\ cancel \in [Works -> BOOLEAN]
          /\ status \in [Works -> {"NEW", "QUEUED", "IN_PROGRESS", "COMPLETE"}]
      BY DEF PlaceInv, TypeInv, TypeOK
    <3>2. Released(k)
      BY <1>1 DEF AddWork, Released
    <3> QED  BY <1>1, <3>1, <3>2 DEF AddWork
  <2>2. pc'[k] = "enqueue" /\ \A u \in Threads \ {k} : pc'[u] = pc[u]
    BY <1>0, <2>1, GotoPlaces DEF PlaceInv
  <2>3. Nowhere(k)
    BY <2>1 DEF PlaceInv
  <2>4. \A w \in Workers, j \in Works :
          (Holds(w, j)' <=> Holds(w, j)) /\ (DiedWith(w, j)' <=> DiedWith(w, j))
    BY <1>0, <2>1, <2>2, WorkersNotWorks DEF Holds, DiedWith
  <2>5. \A j \in Works : /\ Waiting(j)' <=> Waiting(j)
                         /\ Arriving(j)' <=> Arriving(j) \/ j = k
    BY <2>1, <2>2, WorksNotWorkers DEF Waiting, Arriving
  <2>6. \A j \in Works : j # k => status'[j] = status[j]
    BY <2>1
  <2>7. AtMostOnePlace'
    BY <2>1, <2>3, <2>4, <2>5 DEF PlaceInv, AtMostOnePlace, Nowhere
  <2>8. SomePlace'
    BY <2>4, <2>5, <2>6 DEF PlaceInv, SomePlace
  <2>9. \A j \in Works : Released(j)' => Nowhere(j)'
    <3> SUFFICES ASSUME NEW j \in Works, Released(j)' PROVE Nowhere(j)'
      OBVIOUS
    <3>1. j # k
      BY <2>1 DEF Released
    <3>2. Released(j)
      BY <2>6, <3>1 DEF Released
    <3> QED  BY <2>4, <2>5, <3>1, <3>2 DEF PlaceInv, Nowhere
  <2>10. \A j \in Works \ Cancellable : ~ cancel'[j]
    BY <2>1, WorksAssumption DEF PlaceInv
  <2> QED  BY <1>0, <2>7, <2>8, <2>9, <2>10 DEF PlaceInv
<1>2. CASE CancelWork(k)
  <2>1. UNCHANGED <<backlog, status, pc, job>> /\ cancel' = [cancel EXCEPT ![k] = TRUE]
        /\ k \in Cancellable
    BY <1>2 DEF CancelWork
  <2>2. \A j \in Works \ Cancellable : ~ cancel'[j]
    BY <2>1, WorksAssumption DEF PlaceInv, TypeInv, TypeOK
  <2>3. \A w \in Workers, j \in Works :
          (Holds(w, j)' <=> Holds(w, j)) /\ (DiedWith(w, j)' <=> DiedWith(w, j))
    BY <2>1 DEF Holds, DiedWith
  <2>4. \A j \in Works : Released(j)' <=> Released(j)
    BY <2>1 DEF Released
  <2> QED  BY <1>0, <2>1, <2>2, <2>3, <2>4, UnmovedWorks
<1>3. CASE PutAdded(k)
  <2>1. /\ pc[k] = "enqueue" /\ backlog' = Append(backlog, k) /\ Goto(k, "scan")
        /\ UNCHANGED <<status, cancel, job>>
    BY <1>3 DEF PutAdded, Enqueue
  <2>2. pc'[k] = "scan" /\ \A u \in Threads \ {k} : pc'[u] = pc[u]
    BY <1>0, <2>1, GotoPlaces DEF PlaceInv
  <2>3. Arriving(k)
    BY <2>1 DEF Arriving
  <2>4. ~ Waiting(k) /\ ~ Released(k) /\ \A w \in Workers : ~ Holds(w, k)
    BY <2>3 DEF PlaceInv, AtMostOnePlace, Nowhere
  <2>5. \A j \in Works : pc'[j] = "enqueue" <=> pc[j] = "enqueue" /\ j # k
    BY <2>2, WorksNotWorkers
  <2>6. \A w \in Workers, j \in Works :
          (Holds(w, j)' <=> Holds(w, j)) /\ (DiedWith(w, j)' <=> DiedWith(w, j))
    BY <1>0, <2>1, <2>2, WorkersNotWorks DEF Holds, DiedWith
  <2> QED  BY <1>0, <2>1, <2>4, <2>5, <2>6, EnqueuedPlace
<1>4. CASE Scan(k) \/ Signal(k)
  BY <1>0, <1>4, ScanPlaces
<1> QED  BY <1>1, <1>2, <1>3, <1>4 DEF ClientStep

LEMMA OwnerPlaces == ASSUME PlaceInv, FlushBacklog \/ OwnerStep PROVE PlaceInv'
<1> USE DEF queueVars, workVars
<1>0. TypeInv'
  BY OwnerType DEF PlaceInv
<1>1. UNCHANGED <<pc, job, cancel>>
  BY DEF FlushBacklog, OwnerStep, CloseWorker, FreeWorkers
<1>2. \A w \in Workers, j \in Works :
        (Holds(w, j)' <=> Holds(w, j)) /\ (DiedWith(w, j)' <=> DiedWith(w, j))
  BY <1>1 DEF Holds, DiedWith
<1>3. CASE FlushBacklog
  <2>1. /\ status' = [k \in Works |-> IF k \in ToSet(backlog) THEN "COMPLETE" ELSE status[k]]
        /\ backlog' = <<>>
    BY <1>3 DEF FlushBacklog
  <2>2. ToSet(backlog') = {} /\ IsInjective(backlog')
    <3>1. DOMAIN backlog' = {}
      BY <2>1, SMT
    <3> QED  BY <3>1 DEF ToSet, IsInjective
  <2>3. \A k \in Works : /\ ~ Waiting(k)' /\ (Arriving(k)' <=> Arriving(k))
                         /\ Waiting(k) => status'[k] = "COMPLETE"
                         /\ ~ Waiting(k) => status'[k] = status[k]
    BY <1>1, <2>1, <2>2 DEF Waiting, Arriving
  <2>4. AtMostOnePlace'
    BY <1>2, <2>2, <2>3 DEF PlaceInv, AtMostOnePlace
  <2>5. SomePlace'
    BY <1>2, <2>3 DEF PlaceInv, SomePlace
  <2>6. \A k \in Works : Released(k)' => Nowhere(k)'
    <3> SUFFICES ASSUME NEW k \in Works, Released(k)' PROVE Nowhere(k)'
      OBVIOUS
    <3>1. CASE Waiting(k)
      BY <1>2, <2>3, <3>1 DEF PlaceInv, AtMostOnePlace, Nowhere
    <3>2. CASE ~ Waiting(k)
      <4>1. Released(k)
        BY <2>3, <3>2 DEF Released
      <4> QED  BY <1>2, <2>3, <4>1 DEF PlaceInv, Nowhere
    <3> QED  BY <3>1, <3>2
  <2>7. \A k \in Works \ Cancellable : ~ cancel'[k]
    BY <1>1 DEF PlaceInv
  <2> QED  BY <1>0, <2>4, <2>5, <2>6, <2>7 DEF PlaceInv
<1>4. CASE OwnerStep
  <2>1. UNCHANGED <<backlog, status>>
    BY <1>4 DEF OwnerStep, CloseWorker, FreeWorkers
  <2>2. \A j \in Works : Released(j)' <=> Released(j)
    BY <2>1 DEF Released
  <2>3. \A k \in Works \ Cancellable : ~ cancel'[k]
    BY <1>1 DEF PlaceInv
  <2> QED  BY <1>0, <1>1, <1>2, <2>1, <2>2, <2>3, UnmovedWorks
<1> QED  BY <1>3, <1>4

LEMMA PlaceInvStep ==
  ASSUME Cancellable \cap Readded = {}, PlaceInv, [Next]_vars
  PROVE  PlaceInv'
<1>1. CASE UNCHANGED vars
  <2>1. TypeInv'
    BY <1>1, TypeInvStep DEF PlaceInv
  <2>2. UNCHANGED <<backlog, status, cancel, pc, job>>
    BY <1>1 DEF vars, queueVars, workVars
  <2>3. \A w \in Workers, j \in Works :
          (Holds(w, j)' <=> Holds(w, j)) /\ (DiedWith(w, j)' <=> DiedWith(w, j))
    BY <2>2 DEF Holds, DiedWith
  <2>4. \A j \in Works : Released(j)' <=> Released(j)
    BY <2>2 DEF Released
  <2>5. \A j \in Works \ Cancellable : ~ cancel'[j]
    BY <2>2 DEF PlaceInv
  <2> QED  BY <2>1, <2>2, <2>3, <2>4, <2>5, UnmovedWorks
<1>2. ASSUME NEW w \in Workers, WorkerStep(w) PROVE PlaceInv'
  BY <1>2, WorkerStepPlaces
<1>3. ASSUME NEW k \in Works, AddWork(k) \/ CancelWork(k) \/ ClientStep(k) PROVE PlaceInv'
  BY <1>3, ClientPlacesStep
<1>4. CASE FlushBacklog \/ OwnerStep
  BY <1>4, OwnerPlaces
<1> QED  BY <1>1, <1>2, <1>3, <1>4 DEF Next

(* No work is lost, duplicated, or executed by two workers at once, for    *)
(* any number of workers and works, as long as no work that may be         *)
(* cancelled is added again: whatever order workers, clients and the owner *)
(* take, however often works yield.                                        *)
THEOREM WorksInOnePlace ==
  ASSUME Cancellable \cap Readded = {}
  PROVE  Spec => []OnePlace
<1>1. PlaceInv => OnePlace
  BY DEF PlaceInv, TypeInv, OnePlace
<1>2. PlaceInv /\ [Next]_vars => PlaceInv'
  BY PlaceInvStep
<1> QED  BY <1>1, <1>2, PlaceInvInit, PTL DEF Spec

(* workqueue_work_is_complete answers true only when the work is done, in  *)
(* a queue whose works nobody cancels.                                     *)
THEOREM CompleteIsDone ==
  ASSUME Cancellable = {}
  PROVE  Spec => []CompleteMeansDone
<1>1. PlaceInv => CompleteMeansDone
  <2> SUFFICES ASSUME PlaceInv, NEW k \in Works, status[k] = "COMPLETE"
               PROVE  /\ k \notin ToSet(backlog)
                      /\ \A w \in Workers : ~ (job[w] = k /\ pc[w] \in {"begin", "run", "requeue"})
    BY DEF CompleteMeansDone
  <2>1. Nowhere(k)
    BY DEF PlaceInv, Released
  <2> QED  BY <2>1 DEF Nowhere, Waiting, Holds, Holding
<1>2. PlaceInv /\ [Next]_vars => PlaceInv'
  BY PlaceInvStep
<1> QED  BY <1>1, <1>2, PlaceInvInit, PTL DEF Spec

-----------------------------------------------------------------------------
(* The queue implements WorkPool: every step is a step of the pool or      *)
(* leaves what waits and what is executed as it was.                       *)

LEMMA PoolInit == Init => Pool!Init
<1> SUFFICES ASSUME Init PROVE Pool!Init
  OBVIOUS
<1>1. \A w \in Workers : pc[w] \notin Holding
  BY WorkersNotWorks DEF Init, Holding
<1>2. Executing = {}
  BY <1>1 DEF Executing, Holds
<1>3. backlog = <<>>
  BY DEF Init
<1> QED  BY <1>2, <1>3 DEF Pool!Init

(* A worker that asks for work executes none: there is room for one more.  *)
LEMMA RoomToStart ==
  ASSUME PlaceInv, NEW w \in Workers, \A k \in Works : ~ Holds(w, k)
  PROVE  Cardinality(Executing) < NumWorkers
<1> DEFINE Others == Workers \ {w}
           Busy == {v \in Others : \E k \in Works : Holds(v, k)}
<1>1. IsFiniteSet(Workers) /\ Cardinality(Workers) = NumWorkers
  <2>1. NumWorkers \in Nat
    BY FirstWorker
  <2> QED  BY <2>1, FS_Interval, SMT DEF Workers
<1>2. IsFiniteSet(Others) /\ Cardinality(Others) = NumWorkers - 1
  BY <1>1, FS_RemoveElement
<1>3. IsFiniteSet(Busy) /\ Cardinality(Busy) <= NumWorkers - 1
  BY <1>2, FS_Subset
<1>4. [v \in Busy |-> job[v]] \in Surjection(Busy, Executing)
  <2> DEFINE f == [v \in Busy |-> job[v]]
  <2>1. \A v \in Busy : job[v] \in Executing
    BY DEF Executing, Holds
  <2>2. \A k \in Executing : \E v \in Busy : job[v] = k
    BY DEF Executing, Holds
  <2>3. f \in [Busy -> Executing] /\ \A k \in Executing : \E v \in Busy : f[v] = k
    BY <2>1, <2>2
  <2> QED  BY <2>3 DEF Surjection
<1>5. IsFiniteSet(Executing) /\ Cardinality(Executing) <= Cardinality(Busy)
  BY <1>3, <1>4, FS_Surjection
<1>6. Cardinality(Executing) \in Nat /\ Cardinality(Busy) \in Nat
  BY <1>3, <1>5, FS_CardinalityType
<1> HIDE DEF Busy
<1> QED  BY <1>3, <1>5, <1>6, FirstWorker, SMT

(* What a step of worker w to l does to the works that are executed *)
LEMMA PoolUnmoved ==
  ASSUME UNCHANGED backlog,
         \A w \in Workers, k \in Works : Holds(w, k)' <=> Holds(w, k)
  PROVE  UNCHANGED Pool!vars
<1>1. Executing' = Executing
  BY DEF Executing
<1> QED  BY <1>1 DEF Pool!vars

LEMMA PoolUnmovedByWorker ==
  ASSUME PlaceInv, NEW w \in Workers, NEW l, Goto(w, l), UNCHANGED backlog,
         \/ UNCHANGED job
         \/ pc[w] = "notify" /\ job' = [job EXCEPT ![w] = NoWork],
         l \in Executes <=> pc[w] \in Executes
  PROVE  UNCHANGED Pool!vars
<1>1. /\ pc'[w] = l /\ \A u \in Threads \ {w} : pc'[u] = pc[u]
      /\ job \in [Workers -> Works \cup {NoWork}]
  BY GotoPlaces, WorkersNotWorks DEF PlaceInv, TypeInv, TypeOK
<1>2. \A v \in Workers, k \in Works : Holds(v, k)' <=> Holds(v, k)
  <2> SUFFICES ASSUME NEW v \in Workers, NEW k \in Works PROVE Holds(v, k)' <=> Holds(v, k)
    OBVIOUS
  <2>1. CASE v # w
    BY <1>1, <2>1, WorkersNotWorks DEF Holds
  <2>2. CASE v = w /\ UNCHANGED job
    BY <1>1, <2>2 DEF Holds, Executes
  <2>3. CASE v = w /\ pc[w] = "notify"
    BY <1>1, <2>3 DEF Holds, Executes
  <2> QED  BY <2>1, <2>2, <2>3
<1> QED  BY <1>2, PoolUnmoved

(* The worker lets go of the work it executes. *)
LEMMA PoolReleases ==
  ASSUME PlaceInv, NEW w \in Workers, NEW l, Goto(w, l), l \notin Executes,
         pc[w] \in Executes, \A v \in Workers \ {w} : job'[v] = job[v]
  PROVE  job[w] \in Executing /\ Executing' = Executing \ {job[w]}
<1>1. job[w] \in Works /\ Holds(w, job[w])
  BY DEF PlaceInv, TypeInv, TypeOK, Holds, Executes
<1>2. pc'[w] = l /\ \A u \in Threads \ {w} : pc'[u] = pc[u]
  BY GotoPlaces, WorkersNotWorks DEF PlaceInv
<1>3. \A k \in Works : ~ Holds(w, k)' /\ (Holds(w, k) => k = job[w])
  BY <1>2 DEF Holds, Executes
<1>4. \A v \in Workers \ {w}, k \in Works : Holds(v, k)' <=> Holds(v, k)
  BY <1>2, WorkersNotWorks DEF Holds
<1>5. \A v \in Workers \ {w} : ~ Holds(v, job[w])
  BY <1>1 DEF PlaceInv, AtMostOnePlace
<1>6. \A k \in Works : (\E v \in Workers : Holds(v, k)') <=>
                       k # job[w] /\ \E v \in Workers : Holds(v, k)
  BY <1>3, <1>4, <1>5
<1>7. Executing' = Executing \ {job[w]}
  BY <1>6 DEF Executing
<1> QED  BY <1>1, <1>7 DEF Executing

LEMMA PoolWorkerStep ==
  ASSUME PlaceInv, NEW w \in Workers, WorkerStep(w)
  PROVE  Pool!Next \/ UNCHANGED Pool!vars
<1> USE DEF queueVars, workVars
<1>0. job \in [Workers -> Works \cup {NoWork}] /\ backlog \in Seq(Works) /\ w \in Threads
  BY WorkersNotWorks DEF PlaceInv, TypeInv, TypeOK
<1>1. CASE GoIdle(w) \/ Wait(w) \/ LeaveLoop(w) \/ GoRunning(w) \/ GetNothing(w)
  <2>1. /\ backlog' = backlog /\ job' = job /\ pc[w] \in {"start", "drained", "wait", "woken", "get"}
        /\ \E l \in {"wait", "woken", "dead", "get", "drained"} : Goto(w, l)
    BY <1>1 DEF GoIdle, Wait, LeaveLoop, GoRunning, GetNothing
  <2>2. PICK l \in {"wait", "woken", "dead", "get", "drained"} : Goto(w, l)
    BY <2>1
  <2>3. l \in Executes <=> pc[w] \in Executes
    BY <2>1 DEF Executes, Holding
  <2>4. UNCHANGED Pool!vars
    BY <2>1, <2>2, <2>3, PoolUnmovedByWorker
  <2> QED  BY <2>4
<1>2. CASE CheckCancelled(w) \/ BeginWork(w) \/ WorkReturns(w)
  <2>1. /\ backlog' = backlog /\ job' = job /\ pc[w] \in {"check", "begin", "run"}
        /\ \E l \in {"begin", "run", "complete", "requeue"} : Goto(w, l)
    BY <1>2 DEF CheckCancelled, BeginWork, WorkReturns
  <2>2. PICK l \in {"begin", "run", "complete", "requeue"} : Goto(w, l)
    BY <2>1
  <2>3. l \in Executes <=> pc[w] \in Executes
    BY <2>1 DEF Executes, Holding
  <2>4. UNCHANGED Pool!vars
    BY <2>1, <2>2, <2>3, PoolUnmovedByWorker
  <2> QED  BY <2>4
<1>3. CASE Notified(w)
  BY <1>3, PoolUnmovedByWorker DEF Notified, Executes, Holding
<1>4. CASE GetWork(w)
  <2> DEFINE h == Head(backlog)
  <2>1. /\ backlog # <<>> /\ backlog' = Tail(backlog) /\ pc[w] = "get"
        /\ job' = [job EXCEPT ![w] = h] /\ Goto(w, "check") /\ h = Head(backlog)
    BY <1>4 DEF GetWork
  <2>2. h \in Works /\ h \in ToSet(backlog)
    BY <1>0, <2>1, RemainingWorks
  <2> HIDE DEF h
  <2>3. pc'[w] = "check" /\ \A u \in Threads \ {w} : pc'[u] = pc[u]
    BY <1>0, <2>1, GotoPlaces DEF PlaceInv
  <2>4. \A k \in Works : ~ Holds(w, k) /\ (Holds(w, k)' <=> k = h)
    BY <1>0, <2>1, <2>3 DEF Holds, Holding
  <2>5. \A v \in Workers \ {w}, k \in Works : Holds(v, k)' <=> Holds(v, k)
    BY <1>0, <2>1, <2>3, WorkersNotWorks DEF Holds
  <2>6. \A k \in Works : (\E v \in Workers : Holds(v, k)') <=>
                         k = h \/ \E v \in Workers : Holds(v, k)
    BY <2>4, <2>5
  <2>7. Executing' = Executing \cup {h}
    BY <2>2, <2>6 DEF Executing
  <2>8. h \notin Executing
    BY <2>2 DEF PlaceInv, AtMostOnePlace, Waiting, Executing
  <2>9. Cardinality(Executing) < NumWorkers
    BY <2>4, RoomToStart
  <2>10. Pool!Start
    BY <2>1, <2>7, <2>8, <2>9 DEF Pool!Start, Pool!Cardinality, Cardinality
  <2> QED  BY <2>10 DEF Pool!Next
<1>5. CASE CompleteWork(w)
  <2>1. job[w] \in Executing /\ Executing' = Executing \ {job[w]} /\ UNCHANGED backlog
    BY <1>5, PoolReleases DEF CompleteWork, Executes, Holding
  <2>2. Pool!Finish(job[w]) /\ job[w] \in Works
    BY <2>1 DEF Pool!Finish, Executing
  <2> QED  BY <2>2 DEF Pool!Next
<1>6. CASE PutYielded(w)
  <2>1. /\ pc[w] = "requeue" /\ Goto(w, "scan") /\ backlog' = Append(backlog, job[w])
        /\ \A v \in Workers \ {w} : job'[v] = job[v]
    BY <1>0, <1>6 DEF PutYielded, Enqueue
  <2>2. job[w] \in Executing /\ Executing' = Executing \ {job[w]}
    BY <2>1, PoolReleases DEF Executes, Holding
  <2>3. Pool!Yield(job[w]) /\ job[w] \in Works
    BY <2>1, <2>2 DEF Pool!Yield, Executing
  <2> QED  BY <2>3 DEF Pool!Next
<1>7. CASE Scan(w) \/ Signal(w)
  <2>1. backlog' = backlog /\ job' = job /\ pc[w] \in {"scan", "signal"}
    BY <1>7 DEF Scan, Signal
  <2>2. UNCHANGED pc \/ \E l \in {"signal", "get"} : Goto(w, l)
    BY <1>7 DEF Scan, Signal, Return, AfterPut
  <2>3. CASE UNCHANGED pc
    <3>1. \A v \in Workers, k \in Works : Holds(v, k)' <=> Holds(v, k)
      BY <2>1, <2>3 DEF Holds
    <3> QED  BY <2>1, <3>1, PoolUnmoved
  <2>4. CASE \E l \in {"signal", "get"} : Goto(w, l)
    <3>1. PICK l \in {"signal", "get"} : Goto(w, l)
      BY <2>4
    <3>2. l \in Executes <=> pc[w] \in Executes
      BY <2>1 DEF Executes, Holding
    <3>3. UNCHANGED Pool!vars
      BY <2>1, <3>1, <3>2, PoolUnmovedByWorker
    <3> QED  BY <3>3
  <2> QED  BY <2>2, <2>3, <2>4
<1>8. CASE Die(w)
  <2>1. CASE pc[w] = "wait"
    <3>1. Goto(w, "dead") /\ backlog' = backlog /\ job' = job
      BY <1>8 DEF Die
    <3>2. "dead" \in Executes <=> pc[w] \in Executes
      BY <2>1 DEF Executes, Holding
    <3>3. UNCHANGED Pool!vars
      BY <3>1, <3>2, PoolUnmovedByWorker
    <3> QED  BY <3>3
  <2>2. CASE pc[w] = "run"
    <3>1. job[w] \in Executing /\ Executing' = Executing \ {job[w]} /\ UNCHANGED backlog
      BY <1>8, <2>2, PoolReleases DEF Die, Executes, Holding
    <3>2. Pool!Finish(job[w]) /\ job[w] \in Works
      BY <3>1 DEF Pool!Finish, Executing
    <3> QED  BY <3>2 DEF Pool!Next
  <2> QED  BY <1>8, <2>1, <2>2 DEF Die
<1> QED  BY <1>1, <1>2, <1>3, <1>4, <1>5, <1>6, <1>7, <1>8 DEF WorkerStep

LEMMA PoolClientStep ==
  ASSUME PlaceInv, NEW k \in Works, AddWork(k) \/ CancelWork(k) \/ ClientStep(k)
  PROVE  Pool!Next \/ UNCHANGED Pool!vars
<1> USE DEF queueVars, workVars
<1>1. /\ job' = job
      /\ UNCHANGED pc \/ \E l \in {"enqueue", "scan", "signal", "idle"} : Goto(k, l)
  BY WorksNotWorkers DEF AddWork, CancelWork, ClientStep, PutAdded, Enqueue, Scan, Signal, Return, AfterPut
<1>2. \A u \in Workers : pc'[u] = pc[u]
  <2>1. CASE UNCHANGED pc
    BY <2>1
  <2>2. CASE \E l \in {"enqueue", "scan", "signal", "idle"} : Goto(k, l)
    BY <2>2, GotoPlaces, WorkersNotWorks, WorksNotWorkers DEF PlaceInv
  <2> QED  BY <1>1, <2>1, <2>2
<1>3. \A w \in Workers, j \in Works : Holds(w, j)' <=> Holds(w, j)
  BY <1>1, <1>2 DEF Holds
<1>4. CASE backlog' = backlog
  <2>1. UNCHANGED Pool!vars
    BY <1>3, <1>4, PoolUnmoved
  <2> QED  BY <2>1
<1>5. CASE PutAdded(k)
  <2>1. pc[k] = "enqueue" /\ backlog' = Append(backlog, k)
    BY <1>5 DEF PutAdded, Enqueue
  <2>2. Executing' = Executing
    BY <1>3 DEF Executing
  <2>3. k \notin Executing /\ k \notin ToSet(backlog)
    BY <2>1 DEF PlaceInv, AtMostOnePlace, Waiting, Arriving, Executing
  <2>4. Pool!Submit(k)
    BY <2>1, <2>2, <2>3 DEF Pool!Submit, Pool!ToSet, ToSet
  <2> QED  BY <2>4 DEF Pool!Next
<1>6. PutAdded(k) \/ backlog' = backlog
  BY DEF AddWork, CancelWork, ClientStep, Scan, Signal
<1> QED  BY <1>4, <1>5, <1>6

LEMMA PoolOwnerStep ==
  ASSUME PlaceInv, FlushBacklog \/ OwnerStep
  PROVE  Pool!Next \/ UNCHANGED Pool!vars
<1> USE DEF queueVars, workVars
<1>1. pc' = pc /\ job' = job
  BY DEF FlushBacklog, OwnerStep, CloseWorker, FreeWorkers
<1>2. \A w \in Workers, j \in Works : Holds(w, j)' <=> Holds(w, j)
  BY <1>1 DEF Holds
<1>3. CASE backlog' = backlog
  <2>1. UNCHANGED Pool!vars
    BY <1>2, <1>3, PoolUnmoved
  <2> QED  BY <2>1
<1>4. CASE backlog' # backlog
  <2>1. backlog' = <<>> /\ backlog # <<>>
    BY <1>4 DEF FlushBacklog, OwnerStep, CloseWorker, FreeWorkers
  <2>2. Executing' = Executing
    BY <1>2 DEF Executing
  <2>3. Pool!Drop
    BY <2>1, <2>2 DEF Pool!Drop
  <2> QED  BY <2>3 DEF Pool!Next
<1> QED  BY <1>3, <1>4

LEMMA PoolStep ==
  ASSUME PlaceInv, [Next]_vars
  PROVE  [Pool!Next]_(Pool!vars)
<1>1. CASE UNCHANGED vars
  <2>1. backlog' = backlog /\ pc' = pc /\ job' = job
    BY <1>1 DEF vars, queueVars
  <2>2. \A w \in Workers, j \in Works : Holds(w, j)' <=> Holds(w, j)
    BY <2>1 DEF Holds
  <2>3. UNCHANGED Pool!vars
    BY <2>1, <2>2, PoolUnmoved
  <2> QED  BY <2>3
<1>2. ASSUME NEW w \in Workers, WorkerStep(w) PROVE [Pool!Next]_(Pool!vars)
  BY <1>2, PoolWorkerStep
<1>3. ASSUME NEW k \in Works, AddWork(k) \/ CancelWork(k) \/ ClientStep(k)
      PROVE  [Pool!Next]_(Pool!vars)
  BY <1>3, PoolClientStep
<1>4. CASE FlushBacklog \/ OwnerStep
  BY <1>4, PoolOwnerStep
<1> QED  BY <1>1, <1>2, <1>3, <1>4 DEF Next

(* workqueue.c implements the abstract pool: works are taken in the order  *)
(* they were put, at most NumWorkers are executed at a time, each by one   *)
(* worker, and the wakeups, requests and statuses change nothing of that.  *)
THEOREM ImplementsPool ==
  ASSUME Cancellable \cap Readded = {}
  PROVE  Spec => PoolSpec
<1>1. PlaceInv /\ [Next]_vars => PlaceInv'
  BY PlaceInvStep
<1>2. PlaceInv /\ [Next]_vars => [Pool!Next]_(Pool!vars)
  BY PoolStep
<1> QED  BY <1>1, <1>2, PlaceInvInit, PoolInit, PTL DEF Spec, PoolSpec, Pool!Spec

-----------------------------------------------------------------------------
(* workqueue_destroy on a queue nobody is using: no call is under way and  *)
(* every worker is blocked in its read, or ended.                          *)

(* Nothing in the queue moves any more. *)
AtRest == /\ \A k \in Works : pc[k] = "idle" /\ status[k] \in {"NEW", "COMPLETE"}
          /\ \A w \in Workers : pc[w] = "dead" \/ (pc[w] = "wait" /\ tokens[w] = 0)

HoldsNothing(w) == job[w] = NoWork

(* SomePlace lets a work be with a worker that died executing it: such a   *)
(* work would never complete, and only the destruction can cause it.       *)
DestroyInv ==
  /\ PlaceInv
  /\ \A w \in Workers : pc[w] \notin Holding \cup {"dead"} => HoldsNothing(w)
  /\ owner = "live" => closing = 0 /\ \A w \in Workers : pc[w] = "dead" => HoldsNothing(w)
  /\ owner # "live" => AtRest

LEMMA DestroyInvInit == Init => DestroyInv
BY PlaceInvInit DEF Init, DestroyInv, HoldsNothing

(* A step of a worker of a queue at rest can only end its thread. *)
LEMMA AtRestWorker ==
  ASSUME DestroyInv, owner # "live", NEW w \in Workers, WorkerStep(w)
  PROVE  /\ pc[w] = "wait" /\ Goto(w, "dead")
         /\ UNCHANGED <<job, status, tokens, owner, closing>>
<1> USE DEF workVars, eventVars, ownerVars
<1>1. pc[w] = "dead" \/ (pc[w] = "wait" /\ tokens[w] = 0)
  BY DEF DestroyInv, AtRest
<1>2. LeaveLoop(w) \/ Die(w)
  <2>1. ~ Wait(w)
    BY <1>1, SMT DEF Wait
  <2> QED  BY <1>1, <2>1 DEF WorkerStep, GoIdle, GoRunning, GetWork, GetNothing,
               CheckCancelled, BeginWork, WorkReturns, CompleteWork, Notified, PutYielded,
               Scan, Signal
<1> QED  BY <1>1, <1>2 DEF LeaveLoop, Die

LEMMA DestroyWorkerStep ==
  ASSUME DestroyInv, PlaceInv', NEW w \in Workers, WorkerStep(w)
  PROVE  DestroyInv'
<1> USE DEF workVars, eventVars, ownerVars
<1>0. /\ w \in Threads /\ TypeInv
      /\ job \in [Workers -> Works \cup {NoWork}]
  BY WorkersNotWorks DEF DestroyInv, PlaceInv, TypeInv, TypeOK
<1>1. CASE owner # "live"
  <2>1. /\ pc[w] = "wait" /\ Goto(w, "dead")
        /\ UNCHANGED <<job, status, tokens, owner, closing>>
    BY <1>1, AtRestWorker
  <2>2. pc'[w] = "dead" /\ \A u \in Threads \ {w} : pc'[u] = pc[u]
    BY <1>0, <2>1, GotoPlaces
  <2>3. \A k \in Works : pc'[k] = pc[k]
    BY <2>2, WorksNotWorkers
  <2>4. \A v \in Workers \ {w} : pc'[v] = pc[v]
    BY <2>2, WorkersNotWorks
  <2>5. AtRest'
    BY <1>1, <2>1, <2>2, <2>3, <2>4 DEF AtRest, DestroyInv
  <2> QED  BY <1>1, <2>1, <2>2, <2>4, <2>5 DEF DestroyInv, HoldsNothing
<1>2. CASE owner = "live"
  <2>1. UNCHANGED <<owner, closing>> /\ ~ Die(w)
    <3>1. ~ Die(w)
      BY <1>2, SMT DEF Die, DestroyInv, Workers
    <3> QED  BY <3>1 DEF WorkerStep, GoIdle, Wait, LeaveLoop, GoRunning, GetWork, GetNothing,
               CheckCancelled, BeginWork, WorkReturns, CompleteWork, Notified, PutYielded,
               Scan, Signal, Die
  <2>2. \A v \in Workers \ {w} : pc'[v] = pc[v] /\ job'[v] = job[v]
    <3>1. \A v \in Workers \ {w} : job'[v] = job[v]
      BY <1>0 DEF WorkerStep, GoIdle, Wait, LeaveLoop, GoRunning, GetWork, GetNothing,
               CheckCancelled, BeginWork, WorkReturns, CompleteWork, Notified, PutYielded,
               Scan, Signal, Die
    <3>2. UNCHANGED pc \/ \E l \in WorkerPlaces \cup {AfterPut(w)} : Goto(w, l)
      BY DEF WorkerStep, GoIdle, Wait, LeaveLoop, GoRunning, GetWork, GetNothing,
               CheckCancelled, BeginWork, WorkReturns, CompleteWork, Notified, PutYielded,
               Enqueue, Scan, Signal, Return, Die, WorkerPlaces, Holding
    <3>3. \A v \in Workers \ {w} : pc'[v] = pc[v]
      BY <1>0, <3>2, GotoPlaces, WorkersNotWorks
    <3> QED  BY <3>1, <3>3
  <2>3. pc'[w] \notin Holding => HoldsNothing(w)'
    <3>1. CASE GoIdle(w) \/ Wait(w) \/ LeaveLoop(w) \/ GoRunning(w) \/ GetNothing(w)
               \/ Scan(w) \/ Signal(w)
      <4>1. /\ UNCHANGED job
            /\ pc[w] \in {"start", "drained", "wait", "woken", "get", "scan", "signal"}
        BY <3>1 DEF GoIdle, Wait, LeaveLoop, GoRunning, GetNothing, Scan, Signal
      <4> QED  BY <4>1 DEF DestroyInv, HoldsNothing, Holding
    <3>2. CASE GetWork(w) \/ CheckCancelled(w) \/ BeginWork(w) \/ WorkReturns(w)
               \/ CompleteWork(w)
      <4>1. \E l \in Holding : Goto(w, l)
        BY <3>2 DEF GetWork, CheckCancelled, BeginWork, WorkReturns, CompleteWork, Holding
      <4> QED  BY <1>0, <4>1, GotoPlaces
    <3>3. CASE Notified(w) \/ PutYielded(w)
      BY <1>0, <3>3 DEF Notified, PutYielded, HoldsNothing
    <3> QED  BY <2>1, <3>1, <3>2, <3>3 DEF WorkerStep
  <2>4. \A v \in Workers : pc'[v] \notin Holding => HoldsNothing(v)'
    <3> SUFFICES ASSUME NEW v \in Workers, v # w, pc'[v] \notin Holding
                 PROVE  HoldsNothing(v)'
      BY <2>3
    <3>1. HoldsNothing(v)
      BY <1>2, <2>2 DEF DestroyInv
    <3> QED  BY <2>2, <3>1 DEF HoldsNothing
  <2>5. "dead" \notin Holding
    BY DEF Holding
  <2>6. \A v \in Workers : pc'[v] = "dead" => HoldsNothing(v)'
    BY <2>4, <2>5
  <2> QED  BY <1>2, <2>1, <2>4, <2>6 DEF DestroyInv
<1> QED  BY <1>1, <1>2

LEMMA DestroyClientStep ==
  ASSUME DestroyInv, PlaceInv', NEW k \in Works,
         AddWork(k) \/ CancelWork(k) \/ ClientStep(k)
  PROVE  DestroyInv'
<1>1. owner = "live"
  <2> SUFFICES ASSUME owner # "live" PROVE FALSE
    OBVIOUS
  <2>1. pc[k] = "idle"
    BY DEF DestroyInv, AtRest
  <2> QED  BY <2>1 DEF AddWork, CancelWork, ClientStep, PutAdded, Scan, Signal
<1>2. UNCHANGED <<owner, closing, job>>
  BY DEF AddWork, CancelWork, ClientStep, PutAdded, Scan, Signal, ownerVars
<1>3. UNCHANGED pc \/ \E l \in {"enqueue", "scan", "signal", AfterPut(k)} : Goto(k, l)
  BY DEF AddWork, CancelWork, ClientStep, PutAdded, Enqueue, Scan, Signal, Return
<1>4. \A w \in Workers : pc'[w] = pc[w]
  BY <1>3, GotoPlaces, WorkersNotWorks, WorksNotWorkers DEF DestroyInv, PlaceInv
<1> QED  BY <1>1, <1>2, <1>4 DEF DestroyInv, HoldsNothing

(* The works that are not complete are the ones workqueue_destroy flushes. *)
LEMMA FlushCompletes ==
  ASSUME DestroyInv, DestroyWhen # "returned", FlushBacklog
  PROVE  AtRest'
<1>1. /\ owner = "live" /\ Quiet /\ UNCHANGED <<pc, job, tokens>>
      /\ status' = [k \in Works |-> IF k \in ToSet(backlog) THEN "COMPLETE" ELSE status[k]]
  BY DEF FlushBacklog, eventVars
<1>2. ASSUME NEW k \in Works PROVE status'[k] \in {"NEW", "COMPLETE"}
  <2>1. CASE Waiting(k)
    BY <1>1, <2>1 DEF Waiting
  <2>2. CASE ~ Waiting(k)
    <3>1. ~ Arriving(k)
      BY <1>1 DEF Quiet, Arriving
    <3>2. \A w \in Workers : pc[w] \notin Holding /\ job[w] # k
      <4>1. \A w \in Workers : pc[w] \in {"dead", "wait"}
        BY <1>1 DEF Quiet
      <4>2. \A w \in Workers : HoldsNothing(w)
        BY <1>1, <4>1 DEF DestroyInv, Holding
      <4> QED  BY <4>1, <4>2, WorksAssumption DEF Holding, HoldsNothing
    <3>3. status[k] \notin {"QUEUED", "IN_PROGRESS"}
      BY <2>2, <3>1, <3>2 DEF DestroyInv, PlaceInv, SomePlace, Holds, DiedWith
    <3>4. status[k] \in {"NEW", "COMPLETE"}
      BY <3>3 DEF DestroyInv, PlaceInv, TypeInv, TypeOK
    <3> QED  BY <1>1, <2>2, <3>4 DEF Waiting
  <2> QED  BY <2>1, <2>2
<1> QED  BY <1>1, <1>2 DEF AtRest, Quiet

LEMMA DestroyInvStep ==
  ASSUME Cancellable \cap Readded = {}, DestroyWhen # "returned", DestroyInv, [Next]_vars
  PROVE  DestroyInv'
<1>0. PlaceInv'
  BY PlaceInvStep DEF DestroyInv
<1>1. CASE UNCHANGED vars
  BY <1>0, <1>1 DEF vars, queueVars, workVars, eventVars, ownerVars, DestroyInv, AtRest, HoldsNothing
<1>2. ASSUME NEW w \in Workers, WorkerStep(w) PROVE DestroyInv'
  BY <1>0, <1>2, DestroyWorkerStep
<1>3. ASSUME NEW k \in Works, AddWork(k) \/ CancelWork(k) \/ ClientStep(k) PROVE DestroyInv'
  BY <1>0, <1>3, DestroyClientStep
<1>4. CASE FlushBacklog
  <2>1. AtRest' /\ owner' = "closing" /\ UNCHANGED <<pc, job>>
    BY <1>4, FlushCompletes DEF FlushBacklog
  <2> QED  BY <1>0, <2>1 DEF DestroyInv, HoldsNothing
<1>5. CASE OwnerStep
  <2>1. owner # "live" /\ owner' # "live" /\ UNCHANGED <<pc, job, status, tokens>>
    BY <1>5 DEF OwnerStep, CloseWorker, FreeWorkers, workVars, eventVars
  <2>2. AtRest'
    BY <2>1 DEF DestroyInv, AtRest
  <2> QED  BY <1>0, <2>1, <2>2 DEF DestroyInv, HoldsNothing
<1> QED  BY <1>1, <1>2, <1>3, <1>4, <1>5 DEF Next

(* workqueue_destroy leaves no work that its client would poll for ever    *)
(* and no worker that uses the freed queue, if it is called once no call   *)
(* is under way and every worker is blocked or ended.                      *)
THEOREM DestroyedWhenQuiet ==
  ASSUME Cancellable \cap Readded = {}, DestroyWhen # "returned"
  PROVE  Spec => [](DestroyCompletesAll /\ NoUseAfterDestroy)
<1>1. DestroyInv => DestroyCompletesAll /\ NoUseAfterDestroy
  <2> SUFFICES ASSUME DestroyInv, owner = "freed"
               PROVE  DestroyCompletesAll /\ NoUseAfterDestroy
    BY DEF DestroyCompletesAll, NoUseAfterDestroy
  <2>1. AtRest
    BY DEF DestroyInv
  <2> QED  BY <2>1 DEF AtRest, DestroyCompletesAll, NoUseAfterDestroy
<1>2. DestroyInv /\ [Next]_vars => DestroyInv'
  BY DestroyInvStep
<1> QED  BY <1>1, <1>2, DestroyInvInit, PTL DEF Spec
==============================================================================
