------------------------------ MODULE Workqueue ------------------------------
(***************************************************************************)
(* src/workqueue.c with the event pipes of src/event.c: worker threads     *)
(* 1 .. NumWorkers that serve a backlog, and the threads that use it.      *)
(* Each work has a client thread that adds it, asks for its cancellation   *)
(* and adds it again once it reads WQ_WORK_COMPLETE; an owner destroys the *)
(* queue.  An action is a step between accesses to memory another thread   *)
(* accesses without the lock; a section under backlog_lock is one action.  *)
(***************************************************************************)
EXTENDS Integers, Sequences, FiniteSets, SequencesExt

CONSTANTS
  NumWorkers,     \* workqueue_t.num_workers
  Works,          \* the work_t objects
  NoWork,         \* the NULL a worker holds between works
  Readded,        \* the works whose client adds them again once complete
  Cancellable,    \* the works whose client may call workqueue_cancel_work
  TokensPerRead,  \* event values one read of flush_fd takes: 64 / 8 in fdutils.c
  PipeTokens,     \* event values a pipe holds before a write blocks: 65536 / 8
  MayFail,        \* the workers whose event_init may fail to make a pipe
  DestroyWhen     \* when the owner destroys: "never", "quiet" or "returned"

Workers == 1 .. NumWorkers
Threads == Workers \cup Works

ASSUME WorkersAssumption == NumWorkers \in Nat \ {0}
ASSUME WorksAssumption == NoWork \notin Works /\ Works \cap Workers = {}
                           /\ Readded \subseteq Works /\ Cancellable \subseteq Works
ASSUME BoundsAssumption == TokensPerRead \in Nat \ {0} /\ PipeTokens \in Nat \ {0}
ASSUME MayFailAssumption == MayFail \subseteq Workers
ASSUME DestroyAssumption == DestroyWhen \in {"never", "quiet", "returned"}

VARIABLES
  backlog, backlog_count,  \* workqueue_t: the queue and its count
  status,                  \* work_t.status
  cancel,                  \* WQ_REQ_CANCEL_WORK in work_t.requests
  state,                   \* worker_t.state
  opened,                  \* the workers whose event_t is initialized
  tokens,                  \* values in the pipe of worker_t.event
  pc,                      \* where each worker and each client is
  job,                     \* the work a worker holds
  scan,                    \* i of wakeup_first_free_worker, per thread
  owner,                   \* how far workqueue_destroy got
  closing                  \* the workers 1 .. closing are cancelled by it

queueVars == <<backlog, backlog_count>>
workVars  == <<status, cancel>>
eventVars == <<opened, tokens>>
ownerVars == <<owner, closing>>
vars == <<queueVars, workVars, state, eventVars, pc, job, scan, ownerVars>>

(* workqueue_create has returned; no worker thread has run yet. *)
Init == /\ backlog = <<>> /\ backlog_count = 0
        /\ status = [k \in Works |-> "NEW"]
        /\ cancel = [k \in Works |-> FALSE]
        /\ state = [w \in Workers |-> "OFFLINE"]
        /\ opened \in {Workers \ failed : failed \in SUBSET MayFail}
        /\ tokens = [w \in Workers |-> 0]
        /\ pc = [t \in Threads |-> IF t \in Workers THEN "start" ELSE "idle"]
        /\ job = [w \in Workers |-> NoWork]
        /\ scan = [t \in Threads |-> 1]
        /\ owner = "live" /\ closing = 0

Goto(t, l) == pc' = [pc EXCEPT ![t] = l]

----------------------------------------------------------------------------
(* put_backlog and wakeup_first_free_worker, by a client or by a worker *)

AfterPut(t) == IF t \in Workers THEN "get" ELSE "idle"

(* Enqueue that forgets backlog_count++ *)
EnqueueUncounted(t, k) == /\ backlog' = Append(backlog, k)
                          /\ UNCHANGED backlog_count
                          /\ Goto(t, "scan")

Enqueue(t, k) == /\ backlog' = Append(backlog, k)
                 /\ backlog_count' = backlog_count + 1
                 /\ Goto(t, "scan")

Return(t) == Goto(t, AfterPut(t)) /\ scan' = [scan EXCEPT ![t] = 1]

Scan(t) == LET i == scan[t] IN
  /\ pc[t] = "scan"
  /\ IF state[i] = "IDLE" THEN Goto(t, "signal") /\ UNCHANGED scan
     ELSE IF i < NumWorkers THEN scan' = [scan EXCEPT ![t] = i + 1] /\ UNCHANGED pc
     ELSE Return(t)
  /\ UNCHANGED <<queueVars, workVars, state, eventVars, job, ownerVars>>

(* event_set: a value into the pipe of the worker found, once there is     *)
(* room for it, or nothing if the event is not initialized                 *)
Signal(t) == LET w == scan[t] IN
  /\ pc[t] = "signal"
  /\ \/ w \notin opened /\ UNCHANGED tokens
     \/ /\ w \in opened /\ tokens[w] < PipeTokens
        /\ tokens' = [tokens EXCEPT ![w] = @ + 1]
  /\ Return(t)
  /\ UNCHANGED <<queueVars, workVars, state, opened, job, ownerVars>>

----------------------------------------------------------------------------
(* The clients: workqueue_add_work, workqueue_cancel_work *)

AddWork(k) ==
  /\ pc[k] = "idle" /\ owner = "live"
  /\ \/ status[k] = "NEW"
     \/ k \in Readded /\ status[k] = "COMPLETE"   \* workqueue_work_is_complete
  /\ cancel' = [cancel EXCEPT ![k] = FALSE]
  /\ status' = [status EXCEPT ![k] = "QUEUED"]
  /\ Goto(k, "enqueue")
  /\ UNCHANGED <<queueVars, state, eventVars, job, scan, ownerVars>>

PutAdded(k) == /\ pc[k] = "enqueue"
               /\ Enqueue(k, k)
               /\ UNCHANGED <<workVars, state, eventVars, job, scan, ownerVars>>

CancelWork(k) == /\ pc[k] = "idle" /\ owner = "live"
                 /\ k \in Cancellable /\ status[k] # "NEW"
                 /\ cancel' = [cancel EXCEPT ![k] = TRUE]
                 /\ UNCHANGED <<queueVars, status, state, eventVars, pc, job, scan, ownerVars>>

----------------------------------------------------------------------------
(* workqueue_factory, the thread of worker w *)

GoIdle(w) == /\ pc[w] \in {"start", "drained"}
             /\ state' = [state EXCEPT ![w] = "IDLE"]
             /\ Goto(w, "wait")
             /\ UNCHANGED <<queueVars, workVars, eventVars, job, scan, ownerVars>>

(* Wait with the result of flush_fd lost: event_is_set answers false. *)
WaitAnswersFalse(w) ==
  /\ pc[w] = "wait" /\ w \in opened /\ w > closing
  /\ tokens[w] > 0
  /\ tokens' = [tokens EXCEPT ![w] = 0]
  /\ Goto(w, "dead")
  /\ UNCHANGED <<queueVars, workVars, state, opened, job, scan, ownerVars>>

(* event_is_set: flush_fd blocks for a first value, and reads again while  *)
(* its buffer comes back full.                                             *)
Wait(w) == LET n == IF tokens[w] < TokensPerRead THEN tokens[w] ELSE TokensPerRead IN
  /\ pc[w] = "wait" /\ w \in opened /\ w > closing
  /\ tokens[w] > 0
  /\ tokens' = [tokens EXCEPT ![w] = @ - n]
  /\ Goto(w, IF n = TokensPerRead THEN "wait" ELSE "woken")
  /\ UNCHANGED <<queueVars, workVars, state, opened, job, scan, ownerVars>>

(* event_is_set answers false at once if the event is not initialized:     *)
(* the thread ends, its state still IDLE.                                  *)
LeaveLoop(w) == /\ pc[w] = "wait" /\ w \notin opened
                /\ Goto(w, "dead")
                /\ UNCHANGED <<queueVars, workVars, state, eventVars, job, scan, ownerVars>>

GoRunning(w) == /\ pc[w] = "woken"
                /\ state' = [state EXCEPT ![w] = "RUNNING"]
                /\ Goto(w, "get")
                /\ UNCHANGED <<queueVars, workVars, eventVars, job, scan, ownerVars>>

(* GetWork with queue_peek_first for queue_dequeue, or from the wrong end *)
GetWorkPeek(w) == /\ pc[w] = "get" /\ backlog # <<>>
                  /\ job' = [job EXCEPT ![w] = Head(backlog)]
                  /\ Goto(w, "check")
                  /\ UNCHANGED <<queueVars, workVars, state, eventVars, scan, ownerVars>>
GetWorkLast(w) == /\ pc[w] = "get" /\ backlog # <<>>
                  /\ backlog' = Front(backlog) /\ backlog_count' = backlog_count - 1
                  /\ job' = [job EXCEPT ![w] = Last(backlog)]
                  /\ Goto(w, "check")
                  /\ UNCHANGED <<workVars, state, eventVars, scan, ownerVars>>

(* get_backlog *)
GetWork(w) == /\ pc[w] = "get" /\ backlog # <<>>
              /\ backlog' = Tail(backlog) /\ backlog_count' = backlog_count - 1
              /\ job' = [job EXCEPT ![w] = Head(backlog)]
              /\ Goto(w, "check")
              /\ UNCHANGED <<workVars, state, eventVars, scan, ownerVars>>

GetNothing(w) == /\ pc[w] = "get" /\ backlog = <<>>
                 /\ Goto(w, "drained")
                 /\ UNCHANGED <<queueVars, workVars, state, eventVars, job, scan, ownerVars>>

(* CheckCancelled with the condition negated *)
CheckCancelledInverted(w) ==
  /\ pc[w] = "check"
  /\ status' = IF cancel[job[w]] THEN status ELSE [status EXCEPT ![job[w]] = "COMPLETE"]
  /\ Goto(w, "begin")
  /\ UNCHANGED <<queueVars, cancel, state, eventVars, job, scan, ownerVars>>

(* A work cancelled while it was queued is completed (and then executed    *)
(* all the same: the code has no `continue').                              *)
CheckCancelled(w) ==
  /\ pc[w] = "check"
  /\ status' = IF cancel[job[w]] THEN [status EXCEPT ![job[w]] = "COMPLETE"] ELSE status
  /\ Goto(w, "begin")
  /\ UNCHANGED <<queueVars, cancel, state, eventVars, job, scan, ownerVars>>

BeginWork(w) == /\ pc[w] = "begin"
                /\ status' = [status EXCEPT ![job[w]] = "IN_PROGRESS"]
                /\ Goto(w, "run")
                /\ UNCHANGED <<queueVars, cancel, state, eventVars, job, scan, ownerVars>>

(* WorkReturns without the second look at the requests *)
WorkReturnsUnchecked(w) ==
  /\ pc[w] = "run"
  /\ Goto(w, "complete") \/ Goto(w, "requeue")
  /\ UNCHANGED <<queueVars, workVars, state, eventVars, job, scan, ownerVars>>

(* work_fn returns WORK_DONE or WORK_ERR, or WORK_YIELD. *)
WorkReturns(w) ==
  /\ pc[w] = "run"
  /\ \/ Goto(w, "complete")
     \/ Goto(w, IF cancel[job[w]] THEN "complete" ELSE "requeue")
  /\ UNCHANGED <<queueVars, workVars, state, eventVars, job, scan, ownerVars>>

CompleteWork(w) == /\ pc[w] = "complete"
                   /\ status' = [status EXCEPT ![job[w]] = "COMPLETE"]
                   /\ Goto(w, "notify")
                   /\ UNCHANGED <<queueVars, cancel, state, eventVars, job, scan, ownerVars>>

(* Notified with one work per wakeup: `if' in place of the inner `while' *)
NotifiedLeaves(w) == /\ pc[w] = "notify"
                     /\ job' = [job EXCEPT ![w] = NoWork]
                     /\ Goto(w, "drained")
                     /\ UNCHANGED <<queueVars, workVars, state, eventVars, scan, ownerVars>>

(* complete_fn has run. *)
Notified(w) == /\ pc[w] = "notify"
               /\ job' = [job EXCEPT ![w] = NoWork]
               /\ Goto(w, "get")
               /\ UNCHANGED <<queueVars, workVars, state, eventVars, scan, ownerVars>>

PutYielded(w) == /\ pc[w] = "requeue"
                 /\ Enqueue(w, job[w])
                 /\ job' = [job EXCEPT ![w] = NoWork]
                 /\ UNCHANGED <<workVars, state, eventVars, scan, ownerVars>>

(* A cancelled thread ends at a cancellation point: the read of its pipe,  *)
(* or one in work_fn.                                                      *)
Die(w) == /\ w <= closing /\ pc[w] \in {"wait", "run"}
          /\ Goto(w, "dead")
          /\ UNCHANGED <<queueVars, workVars, state, eventVars, job, scan, ownerVars>>

----------------------------------------------------------------------------
(* workqueue_destroy, by the owner *)

(* No call is under way and every worker is blocked in its read, or ended. *)
Quiet == /\ \A k \in Works : pc[k] = "idle"
         /\ \A w \in Workers : \/ pc[w] = "dead"
                               \/ pc[w] = "wait" /\ w \in opened /\ tokens[w] = 0

(* Every work was added and its work_fn returned for the last time: what   *)
(* the main thread of tests/test-workqueue.c waits for.                    *)
AllReturned == /\ backlog = <<>>
               /\ \A k \in Works : pc[k] = "idle" /\ status[k] # "NEW"
               /\ \A w \in Workers : pc[w] \notin {"check", "begin", "run", "requeue"}

(* FlushBacklog that drops the works without completing them *)
FlushBacklogSilent ==
  /\ owner = "live"
  /\ DestroyWhen = "quiet" /\ Quiet
  /\ backlog' = <<>> /\ backlog_count' = 0
  /\ owner' = "closing"
  /\ UNCHANGED <<workVars, state, eventVars, pc, job, scan, closing>>

FlushBacklog ==
  /\ owner = "live"
  /\ \/ DestroyWhen = "quiet" /\ Quiet
     \/ DestroyWhen = "returned" /\ AllReturned
  /\ status' = [k \in Works |-> IF k \in ToSet(backlog) THEN "COMPLETE" ELSE status[k]]
  /\ backlog' = <<>> /\ backlog_count' = backlog_count - Len(backlog)
  /\ owner' = "closing"
  /\ UNCHANGED <<cancel, state, eventVars, pc, job, scan, closing>>

(* pthread_cancel and event_cleanup of the next worker *)
CloseWorker == /\ owner = "closing" /\ closing < NumWorkers
               /\ closing' = closing + 1
               /\ opened' = opened \ {closing'}
               /\ UNCHANGED <<queueVars, workVars, state, tokens, pc, job, scan, owner>>

(* FreeWorkers after a loop that ends one worker early *)
FreeWorkersEarly == /\ owner = "closing" /\ closing = NumWorkers - 1
                    /\ owner' = "freed"
                    /\ UNCHANGED <<queueVars, workVars, state, eventVars, pc, job, scan, closing>>

FreeWorkers == /\ owner = "closing" /\ closing = NumWorkers
               /\ owner' = "freed"
               /\ UNCHANGED <<queueVars, workVars, state, eventVars, pc, job, scan, closing>>

----------------------------------------------------------------------------
WorkerStep(w) == \/ GoIdle(w) \/ Wait(w) \/ LeaveLoop(w) \/ GoRunning(w)
                 \/ GetWork(w) \/ GetNothing(w)
                 \/ CheckCancelled(w) \/ BeginWork(w) \/ WorkReturns(w)
                 \/ CompleteWork(w) \/ Notified(w) \/ PutYielded(w)
                 \/ Scan(w) \/ Signal(w) \/ Die(w)

(* What a client does once it is inside workqueue_add_work *)
ClientStep(k) == PutAdded(k) \/ Scan(k) \/ Signal(k)

OwnerStep == CloseWorker \/ FreeWorkers

Next == \/ \E w \in Workers : WorkerStep(w)
        \/ \E k \in Works : AddWork(k) \/ CancelWork(k) \/ ClientStep(k)
        \/ FlushBacklog \/ OwnerStep

(* Every thread is scheduled and work_fn returns.  Nobody has to add,      *)
(* cancel or destroy.                                                      *)
Fairness == /\ \A w \in Workers : WF_vars(WorkerStep(w))
            /\ \A k \in Works : WF_vars(ClientStep(k))
            /\ WF_vars(OwnerStep)

Spec == Init /\ [][Next]_vars /\ Fairness

----------------------------------------------------------------------------
(* Where a worker holds the work it dequeued *)
Holding == {"check", "begin", "run", "complete", "notify", "requeue"}

(* Where a worker, and where a client, is between two of its steps *)
WorkerPlaces == Holding \cup {"start", "wait", "woken", "get", "drained",
                              "scan", "signal", "dead"}
ClientPlaces == {"idle", "enqueue", "scan", "signal"}

(* Types of the variables; job is not NULL where the code dereferences it. *)
TypeOK ==
  /\ backlog \in Seq(Works) /\ backlog_count \in Nat
  /\ status \in [Works -> {"NEW", "QUEUED", "IN_PROGRESS", "COMPLETE"}]
  /\ cancel \in [Works -> BOOLEAN]
  /\ state \in [Workers -> {"OFFLINE", "IDLE", "RUNNING"}]
  /\ opened \subseteq Workers /\ tokens \in [Workers -> 0 .. PipeTokens]
  /\ pc \in [Threads -> WorkerPlaces \cup ClientPlaces]
  /\ \A w \in Workers : pc[w] \in WorkerPlaces
  /\ \A k \in Works : pc[k] \in ClientPlaces
  /\ job \in [Workers -> Works \cup {NoWork}]
  /\ \A w \in Workers : pc[w] \in Holding => job[w] \in Works
  /\ scan \in [Threads -> Workers]
  /\ owner \in {"live", "closing", "freed"} /\ closing \in 0 .. NumWorkers

(* The places a work can be at: in the backlog, with its client on the way *)
(* there, or with a worker that has not completed it.                      *)
Waiting(k) == k \in ToSet(backlog)
Arriving(k) == pc[k] = "enqueue"
Holds(w, k) == job[w] = k /\ pc[w] \in Holding \ {"notify"}
DiedWith(w, k) == job[w] = k /\ pc[w] = "dead"

(* No two of these are true of a work, and no two workers hold it. *)
AtMostOnePlace ==
  /\ IsInjective(backlog)
  /\ \A k \in Works : ~ (Waiting(k) /\ Arriving(k))
  /\ \A w \in Workers, k \in Works : Holds(w, k) => ~ Waiting(k) /\ ~ Arriving(k)
  /\ \A w, v \in Workers, k \in Works : Holds(w, k) /\ Holds(v, k) => w = v

(* A work that was added and is not complete is somewhere.                 *)
SomePlace ==
  \A k \in Works : status[k] \in {"QUEUED", "IN_PROGRESS"} =>
    Waiting(k) \/ Arriving(k) \/ \E w \in Workers : Holds(w, k) \/ DiedWith(w, k)

(* A work is never lost, duplicated or executed by two workers at once,    *)
(* and backlog_count is the length of the backlog.                         *)
OnePlace == backlog_count = Len(backlog) /\ AtMostOnePlace /\ SomePlace

(* workqueue_work_is_complete answers true only of a work that no worker   *)
(* executes or will execute before it is added again.                      *)
CompleteMeansDone ==
  \A k \in Works : status[k] = "COMPLETE" =>
    /\ k \notin ToSet(backlog)
    /\ \A w \in Workers : ~ (job[w] = k /\ pc[w] \in {"begin", "run", "requeue"})

(* workqueue_add_work: the next free worker picks the work up.  When no    *)
(* call is under way, workers do not all wait while the backlog has works. *)
NextFreeWorkerPicksUp == ~ (Quiet /\ owner = "live" /\ backlog # <<>>)

(* A worker that will call get_backlog before it blocks *)
Draining(w) == pc[w] \in Holding \cup {"woken", "get", "scan", "signal"}

(* No work starves in the backlog: while some worker drains it, every work *)
(* in the backlog is dequeued, however often other works yield.            *)
ServedWhileDraining ==
  \A k \in Works :
    (k \in ToSet(backlog) /\ \E w \in Workers : Draining(w)) ~> (k \notin ToSet(backlog))

(* One value in the pipe of one worker is enough to have the whole backlog *)
(* served, as long as fewer values are pending than a read takes.          *)
ServedOnceSignalled ==
  \A k \in Works :
    (k \in ToSet(backlog) /\ \E w \in Workers : tokens[w] > 0) ~> (k \notin ToSet(backlog))

(* A work cancelled while a worker executes it completes and is given up   *)
(* by the worker, even if its work_fn would yield forever.                 *)
CancelEndsWork ==
  \A k \in Works :
    (cancel[k] /\ \E w \in Workers : job[w] = k /\ pc[w] = "run")
      ~> (status[k] = "COMPLETE" /\ \A w \in Workers : ~ Holds(w, k))

(* workqueue_destroy leaves no work that its client would poll for ever.   *)
DestroyCompletesAll ==
  owner = "freed" => \A k \in Works : status[k] \in {"NEW", "COMPLETE"}

(* Every worker thread ends once the queue is destroyed. *)
WorkersEnd == owner = "freed" ~> \A w \in Workers : pc[w] = "dead"

(* Once workqueue_destroy has returned, no worker uses the queue, its lock *)
(* or the freed array of workers.                                          *)
NoUseAfterDestroy ==
  owner = "freed" => \A w \in Workers : pc[w] \in {"wait", "run", "dead"}

(* The detailed queue implements the abstract pool of workers. *)
Executing == {k \in Works : \E w \in Workers : Holds(w, k)}
Pool == INSTANCE WorkPool WITH queue <- backlog, running <- Executing
PoolSpec == Pool!Spec
==============================================================================
