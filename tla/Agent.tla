------------------------------- MODULE Agent -------------------------------
(***************************************************************************)
(* The submission pipeline of the web honeypot's agent                     *)
(* (srv/web/isc_agent/agent.py): request handlers append log records to    *)
(* an in-memory queue and purge it when it is too long; a submission pass  *)
(* takes batches off the queue and hands them to a two-worker executor;    *)
(* each result is handled by a callback that puts a failed batch back at   *)
(* the front of the queue.  Passes are started by handlers, by a           *)
(* recurring timer and by the shutdown that a signal starts in the main    *)
(* thread.                                                                 *)
(*                                                                         *)
(* One step is a stretch of code that no other thread can observe half     *)
(* done.  A critical section of queue_lock that is one operation on the    *)
(* deque is a single step that needs the lock to be free; one that is      *)
(* longer takes the lock and releases it.  Reads made without the lock,    *)
(* such as len(self.queue), are steps of their own.                        *)
(***************************************************************************)
EXTENDS Integers, Sequences, FiniteSets, Functions

CONSTANTS
    Records,            \* the log records that requests may produce
    Handlers,           \* the HTTP server's request threads
    Timers,             \* the threads of the submission timer
    Workers,            \* the executor's threads
    Futures,            \* names for submissions in flight
    MaxSignals,         \* bound: SIGTERM and SIGINT the process receives
    QueueTriggerSize,   \* queue_trigger_size
    WebLogLimit,        \* web_log_limit
    PurgeRate,          \* web_log_purge_rate
    BatchSize,          \* batch_size, 100 in the code
    NoOne               \* no thread, no future

\* The main thread runs a shutdown handler per signal, a later one on top of
\* the earlier ones: frame n is the handler of the n-th signal.
Frames == 1..MaxSignals

Threads == Handlers \cup Timers \cup Frames

ASSUME ThreadsAssumption ==
    /\ MaxSignals \in Nat
    /\ Handlers \cap Timers = {}
    /\ (Handlers \cup Timers) \cap Frames = {}
    /\ NoOne \notin Threads \cup Futures

\* What read_config leaves in the attributes (there 10..1000 for the trigger,
\* at least twice the trigger for the limit, 2..10 for the rate).
ASSUME SizesAssumption ==
    /\ QueueTriggerSize \in Nat \ {0}
    /\ WebLogLimit \in Nat
    /\ WebLogLimit >= 2 * QueueTriggerSize
    /\ PurgeRate \in Nat
    /\ PurgeRate >= 2
    /\ BatchSize \in Nat \ {0}

VARIABLES
    fresh,                  \* records whose request has not been handled yet
    queue,                  \* self.queue
    queue_lock,             \* holder of self.queue_lock, or NoOne
    submit_lock,            \* holder of self.submit_lock, or NoOne
    pc,                     \* where each thread is
    temp_list,              \* a handler's copy of the queue while it purges
    batch,                  \* the batch a thread has popped and not submitted
    mine,                   \* the future a thread has not given its callback
    fut,                    \* the futures of the executor
    work_queue,             \* submissions no worker has taken
    job,                    \* the future a worker is busy with
    scheduler_reschedule,   \* self.scheduler_reschedule.is_set()
    open,                   \* the executor accepts submissions
    signals,                \* signals received
    exited,                 \* the process has ended
    received,               \* records the backend has received
    acked,                  \* records whose submission succeeded
    purged,                 \* records removed by a purge
    discarded               \* records popped and then refused by the executor

places == <<fresh, received, acked, purged, discarded>>
locks  == <<queue_lock, submit_lock>>
pool   == <<fut, work_queue, job, open>>
life   == <<scheduler_reschedule, signals, exited>>
vars   == <<fresh, queue, queue_lock, submit_lock, pc, temp_list, batch, mine,
            fut, work_queue, job, scheduler_reschedule, open, signals, exited,
            received, acked, purged, discarded>>

-----------------------------------------------------------------------------

PCs == {"idle", "size", "copy", "swap", "resize",
        "acquire", "check", "pop", "dispatch", "register", "callback",
        "stop", "close", "join", "exit"}

Stages == {"free", "pending", "running", "ok", "failed"}

FutureType == [batch : Seq(Records), stage : Stages, registered : BOOLEAN]

FreeFuture == [batch |-> <<>>, stage |-> "free", registered |-> FALSE]

\* temp_list[::rate]: the elements at positions 1, 1 + n, 1 + 2n, ...
EveryNth(s, n) == [i \in 1 .. ((Len(s) + n - 1) \div n) |-> s[(i - 1) * n + 1]]

\* Mutant: the batch goes back as one element.
Requeue_AsOneElement(b) == queue' = <<b>> \o queue

\* Mutant: the batch is not put back.
Requeue_Forgets(b) == b # <<>> /\ UNCHANGED queue

\* queue.extendleft(reversed(b)): b back at the front, in its own order.
Requeue(b) == queue' = b \o queue

\* The main thread only runs its innermost shutdown handler.
Active(t) == t \in Frames => t = signals

At(t, label) == Active(t) /\ pc[t] = label

Goto(t, label) == pc' = [pc EXCEPT ![t] = label]

\* Where a thread goes when _submit returns: a shutdown continues, a request
\* handler and a timer are done.
Return(t) == IF t \in Frames THEN "close" ELSE "idle"

\* Where a thread goes when _submit raises: the exception ends a shutdown,
\* and with it the main thread; handle_request catches it; a timer thread dies.
Unwind(t) == IF t \in Frames THEN "exit" ELSE "idle"

Init ==
    /\ fresh = Records
    /\ queue = <<>>
    /\ queue_lock = NoOne
    /\ submit_lock = NoOne
    /\ pc = [t \in Threads |-> "idle"]
    /\ temp_list = [h \in Handlers |-> <<>>]
    /\ batch = [t \in Threads |-> <<>>]
    /\ mine = [t \in Threads |-> NoOne]
    /\ fut = [f \in Futures |-> FreeFuture]
    /\ work_queue = <<>>
    /\ job = [w \in Workers |-> NoOne]
    /\ scheduler_reschedule = TRUE
    /\ open = TRUE
    /\ signals = 0
    /\ exited = FALSE
    /\ received = {}
    /\ acked = {}
    /\ purged = {}
    /\ discarded = {}

-----------------------------------------------------------------------------
(* add_to_queue: a request handler.                                        *)

AddToQueue(h, r) ==
    /\ pc[h] = "idle"
    /\ r \in fresh
    /\ queue_lock = NoOne
    /\ queue' = Append(queue, r)
    /\ fresh' = fresh \ {r}
    /\ Goto(h, "size")
    /\ UNCHANGED <<locks, temp_list, batch, mine, pool, life,
                   received, acked, purged, discarded>>

\* Which way add_to_queue goes on after a read of the queue's length.
TriggerBranch(size) == IF size >= QueueTriggerSize THEN "acquire" ELSE "idle"

\* queue_size = len(self.queue), without the lock.
ReadSize(h) ==
    /\ pc[h] = "size"
    /\ Goto(h, IF Len(queue) >= WebLogLimit THEN "copy"
                                            ELSE TriggerBranch(Len(queue)))
    /\ UNCHANGED <<queue, locks, temp_list, batch, mine, pool, life, places>>

\* Mutant: the queue is copied and replaced without the lock.
PurgeCopy_Unlocked(h) ==
    /\ pc[h] = "copy"
    /\ temp_list' = [temp_list EXCEPT ![h] = queue]
    /\ Goto(h, "swap")
    /\ UNCHANGED <<queue, locks, batch, mine, pool, life, places>>

PurgeCopy(h) ==
    /\ pc[h] = "copy"
    /\ queue_lock = NoOne
    /\ queue_lock' = h
    /\ temp_list' = [temp_list EXCEPT ![h] = queue]
    /\ Goto(h, "swap")
    /\ UNCHANGED <<queue, submit_lock, batch, mine, pool, life, places>>

PurgeSwap(h) ==
    /\ pc[h] = "swap"
    /\ queue' = EveryNth(temp_list[h], PurgeRate)
    /\ purged' = purged \cup (Range(temp_list[h]) \ Range(queue'))
    /\ temp_list' = [temp_list EXCEPT ![h] = <<>>]
    /\ queue_lock' = NoOne
    /\ Goto(h, "resize")
    /\ UNCHANGED <<submit_lock, batch, mine, pool, life,
                   fresh, received, acked, discarded>>

\* The length is read again after a purge, again without the lock.
RereadSize(h) ==
    /\ pc[h] = "resize"
    /\ Goto(h, TriggerBranch(Len(queue)))
    /\ UNCHANGED <<queue, locks, temp_list, batch, mine, pool, life, places>>

-----------------------------------------------------------------------------
(* _scheduler and _scheduled_submissions: a timer thread.                  *)

TimerFire(t) ==
    /\ pc[t] = "idle"
    /\ scheduler_reschedule
    /\ Goto(t, "acquire")
    /\ UNCHANGED <<queue, locks, temp_list, batch, mine, pool, life, places>>

-----------------------------------------------------------------------------
(* _submit: run by handlers, timers and shutdowns.                         *)

AcquireSubmit(t) ==
    /\ At(t, "acquire")
    /\ submit_lock = NoOne
    /\ submit_lock' = t
    /\ Goto(t, "check")
    /\ UNCHANGED <<queue, queue_lock, temp_list, batch, mine, pool, life,
                   places>>

\* if not self.queue: break
SubmitDone(t) ==
    /\ At(t, "check")
    /\ queue_lock = NoOne
    /\ queue = <<>>
    /\ submit_lock' = NoOne
    /\ Goto(t, Return(t))
    /\ UNCHANGED <<queue, queue_lock, temp_list, batch, mine, pool, life,
                   places>>

StartBatch(t) ==
    /\ At(t, "check")
    /\ queue_lock = NoOne
    /\ queue # <<>>
    /\ queue_lock' = t
    /\ Goto(t, "pop")
    /\ UNCHANGED <<queue, submit_lock, temp_list, batch, mine, pool, life,
                   places>>

\* One popleft.  The comprehension pops min(batch_size, len(self.queue))
\* records; the lock keeps the queue still, so it ends when the batch is full
\* or the queue is empty.
PopOne(t) ==
    /\ At(t, "pop")
    /\ batch' = [batch EXCEPT ![t] = Append(@, Head(queue))]
    /\ queue' = Tail(queue)
    /\ IF queue' = <<>> \/ Len(batch'[t]) = BatchSize
       THEN queue_lock' = NoOne /\ Goto(t, "dispatch")
       ELSE UNCHANGED <<queue_lock, pc>>
    /\ UNCHANGED <<submit_lock, temp_list, mine, pool, life, places>>

\* executor.submit
Dispatch(t) ==
    /\ At(t, "dispatch")
    /\ open
    /\ \E f \in Futures :
          /\ fut[f].stage = "free"
          /\ fut' = [fut EXCEPT ![f] = [batch |-> batch[t],
                                        stage |-> "pending",
                                        registered |-> FALSE]]
          /\ work_queue' = Append(work_queue, f)
          /\ mine' = [mine EXCEPT ![t] = f]
    /\ batch' = [batch EXCEPT ![t] = <<>>]
    /\ Goto(t, "register")
    /\ UNCHANGED <<queue, locks, temp_list, job, open, life, places>>

\* Mutant: the lock is not released when the submission is refused.
DispatchFails_KeepsLock(t) ==
    /\ At(t, "dispatch")
    /\ ~open
    /\ discarded' = discarded \cup Range(batch[t])
    /\ batch' = [batch EXCEPT ![t] = <<>>]
    /\ Goto(t, Unwind(t))
    /\ UNCHANGED <<queue, locks, temp_list, mine, pool, life,
                   fresh, received, acked, purged>>

\* executor.submit raises once the executor is shut down; the batch is a local
\* variable of the call that the exception ends.
DispatchFails(t) ==
    /\ At(t, "dispatch")
    /\ ~open
    /\ discarded' = discarded \cup Range(batch[t])
    /\ batch' = [batch EXCEPT ![t] = <<>>]
    /\ submit_lock' = NoOne
    /\ Goto(t, Unwind(t))
    /\ UNCHANGED <<queue, queue_lock, temp_list, mine, pool, life,
                   fresh, received, acked, purged>>

\* Mutant: a callback registered on a future that is done already never runs.
Register_NeverInline(t) ==
    /\ At(t, "register")
    /\ Goto(t, "check")
    /\ fut' = [fut EXCEPT ![mine[t]].registered = TRUE]
    /\ mine' = [mine EXCEPT ![t] = NoOne]
    /\ UNCHANGED <<queue, locks, temp_list, batch, work_queue, job, open, life,
                   places>>

\* add_done_callback: on a future that is already done it runs the callback
\* itself, in this thread.
Register(t) ==
    /\ At(t, "register")
    /\ IF fut[mine[t]].stage \in {"ok", "failed"}
       THEN Goto(t, "callback") /\ UNCHANGED <<fut, mine>>
       ELSE /\ Goto(t, "check")
            /\ fut' = [fut EXCEPT ![mine[t]].registered = TRUE]
            /\ mine' = [mine EXCEPT ![t] = NoOne]
    /\ UNCHANGED <<queue, locks, temp_list, batch, work_queue, job, open, life,
                   places>>

-----------------------------------------------------------------------------
(* callback_result_handler, in whichever thread runs it.                   *)

\* Mutant: a batch is put back even when it was accepted.
HandleResult_AlwaysRequeues(f) ==
    /\ fut[f].stage \in {"ok", "failed"}
    /\ queue_lock = NoOne
    /\ Requeue(fut[f].batch)
    /\ acked' = IF fut[f].stage = "ok" THEN acked \cup Range(fut[f].batch)
                                       ELSE acked
    /\ fut' = [fut EXCEPT ![f] = FreeFuture]

\* Mutant: any answer counts as success.
HandleResult_IgnoresResult(f) ==
    /\ fut[f].stage \in {"ok", "failed"}
    /\ acked' = acked \cup Range(fut[f].batch)
    /\ fut' = [fut EXCEPT ![f] = FreeFuture]
    /\ UNCHANGED queue

HandleResult(f) ==
    /\ \/ /\ fut[f].stage = "ok"
          /\ acked' = acked \cup Range(fut[f].batch)
          /\ UNCHANGED queue
       \/ /\ fut[f].stage = "failed"
          /\ queue_lock = NoOne
          /\ Requeue(fut[f].batch)
          /\ UNCHANGED acked
    /\ fut' = [fut EXCEPT ![f] = FreeFuture]

InlineCallback(t) ==
    /\ At(t, "callback")
    /\ HandleResult(mine[t])
    /\ mine' = [mine EXCEPT ![t] = NoOne]
    /\ Goto(t, "check")
    /\ UNCHANGED <<locks, temp_list, batch, work_queue, job, open, life,
                   fresh, received, purged, discarded>>

-----------------------------------------------------------------------------
(* The executor's workers and _send_to_backend.                            *)

TakeJob(w) ==
    /\ job[w] = NoOne
    /\ work_queue # <<>>
    /\ job' = [job EXCEPT ![w] = Head(work_queue)]
    /\ fut' = [fut EXCEPT ![Head(work_queue)].stage = "running"]
    /\ work_queue' = Tail(work_queue)
    /\ UNCHANGED <<queue, locks, pc, temp_list, batch, mine, open, life, places>>

\* The future is done.  The worker goes on to run the callback if there is one;
\* otherwise the submitting thread will find the future done and run it.
Finish(w, stage) ==
    /\ job[w] # NoOne
    /\ fut[job[w]].stage = "running"
    /\ fut' = [fut EXCEPT ![job[w]].stage = stage]
    /\ job' = [job EXCEPT ![w] = IF fut[@].registered THEN @ ELSE NoOne]

\* requests.post answers 200.
PostAccepted(w) ==
    /\ Finish(w, "ok")
    /\ received' = received \cup Range(fut[job[w]].batch)
    /\ UNCHANGED <<queue, locks, pc, temp_list, batch, mine, work_queue, open,
                   life, fresh, acked, purged, discarded>>

\* Another status, a timeout or a broken connection.  After a timeout the
\* backend may have the batch all the same.
PostFailed(w) ==
    /\ Finish(w, "failed")
    /\ received' \in {received, received \cup Range(fut[job[w]].batch)}
    /\ UNCHANGED <<queue, locks, pc, temp_list, batch, mine, work_queue, open,
                   life, fresh, acked, purged, discarded>>

WorkerCallback(w) ==
    /\ job[w] # NoOne
    /\ HandleResult(job[w])
    /\ job' = [job EXCEPT ![w] = NoOne]
    /\ UNCHANGED <<locks, pc, temp_list, batch, mine, work_queue, open, life,
                   fresh, received, purged, discarded>>

-----------------------------------------------------------------------------
(* shutdown, run by the signal handler in the main thread.                 *)

\* SIGTERM or SIGINT.  A signal that arrives while the interpreter is already
\* exiting is left out.
Signal ==
    /\ signals < MaxSignals
    /\ signals > 0 => pc[signals] # "exit"
    /\ signals' = signals + 1
    /\ Goto(signals + 1, "stop")
    /\ UNCHANGED <<queue, locks, temp_list, batch, mine, pool,
                   scheduler_reschedule, exited, places>>

\* Mutant: the timers are not stopped.
StopScheduling_KeepsTimers(f) ==
    /\ At(f, "stop")
    /\ Goto(f, "acquire")
    /\ UNCHANGED <<queue, locks, temp_list, batch, mine, pool, life, places>>

\* Mutant: no final submission.
StopScheduling_SkipsSubmit(f) ==
    /\ At(f, "stop")
    /\ scheduler_reschedule' = FALSE
    /\ Goto(f, "close")
    /\ UNCHANGED <<queue, locks, temp_list, batch, mine, pool, signals, exited,
                   places>>

\* Mutant: the executor is shut down before the final submission.
StopScheduling_ClosesFirst(f) ==
    /\ At(f, "stop")
    /\ scheduler_reschedule' = FALSE
    /\ open' = FALSE
    /\ Goto(f, "acquire")
    /\ UNCHANGED <<queue, locks, temp_list, batch, mine, fut, work_queue, job,
                   signals, exited, places>>

StopScheduling(f) ==
    /\ At(f, "stop")
    /\ scheduler_reschedule' = FALSE
    /\ Goto(f, "acquire")
    /\ UNCHANGED <<queue, locks, temp_list, batch, mine, pool, signals, exited,
                   places>>

\* executor.shutdown(wait=True): no new submissions, ...
CloseExecutor(f) ==
    /\ At(f, "close")
    /\ open' = FALSE
    /\ Goto(f, "join")
    /\ UNCHANGED <<queue, locks, temp_list, batch, mine, fut, work_queue, job,
                   life, places>>

\* Mutant: the backlog is empty, but workers may still be sending.
WorkersDone_IgnoresJobs == work_queue = <<>>

WorkersDone == work_queue = <<>> /\ \A w \in Workers : job[w] = NoOne

\* ... and wait for those accepted.  Then shutdown_handler calls sys.exit.
JoinExecutor(f) ==
    /\ At(f, "join")
    /\ WorkersDone
    /\ Goto(f, "exit")
    /\ UNCHANGED <<queue, locks, temp_list, batch, mine, pool, life, places>>

\* The interpreter waits for the timer threads and for the executor's workers,
\* never for the request handlers, which are daemon threads.
ExitProcess(f) ==
    /\ At(f, "exit")
    /\ \A t \in Timers : pc[t] = "idle"
    /\ WorkersDone
    /\ exited' = TRUE
    /\ UNCHANGED <<queue, locks, pc, temp_list, batch, mine, pool,
                   scheduler_reschedule, signals, places>>

-----------------------------------------------------------------------------

HandlerStep(h) == ReadSize(h) \/ PurgeCopy(h) \/ PurgeSwap(h) \/ RereadSize(h)

SubmitStep(t) ==
    \/ AcquireSubmit(t) \/ SubmitDone(t) \/ StartBatch(t) \/ PopOne(t)
    \/ Dispatch(t) \/ DispatchFails(t) \/ Register(t) \/ InlineCallback(t)

WorkerStep(w) ==
    TakeJob(w) \/ PostAccepted(w) \/ PostFailed(w) \/ WorkerCallback(w)

ShutdownStep(f) ==
    StopScheduling(f) \/ CloseExecutor(f) \/ JoinExecutor(f) \/ ExitProcess(f)

\* Nothing is left to happen: the process has ended, or it waits for requests
\* and there are none.
Finished == exited /\ UNCHANGED vars

Next ==
    \/ /\ ~exited
       /\ \/ \E h \in Handlers, r \in Records : AddToQueue(h, r)
          \/ \E h \in Handlers : HandlerStep(h)
          \/ \E t \in Timers : TimerFire(t)
          \/ \E t \in Threads : SubmitStep(t)
          \/ \E w \in Workers : WorkerStep(w)
          \/ Signal
          \/ \E f \in Frames : ShutdownStep(f)
    \/ Finished

Spec == Init /\ [][Next]_vars

\* Threads that can go on do go on; the timer keeps firing; a worker that is
\* given batches again and again is not refused for ever.  No fairness is
\* asked of requests and of signals.
Fairness ==
    /\ \A h \in Handlers : WF_vars(~exited /\ HandlerStep(h))
    /\ \A t \in Timers : WF_vars(~exited /\ TimerFire(t))
    /\ \A t \in Threads : WF_vars(~exited /\ SubmitStep(t))
    /\ \A w \in Workers : WF_vars(~exited /\ WorkerStep(w))
    /\ \A w \in Workers : SF_vars(~exited /\ PostAccepted(w))
    /\ \A f \in Frames : WF_vars(~exited /\ ShutdownStep(f))

FairSpec == Spec /\ Fairness

-----------------------------------------------------------------------------
(* Properties.                                                             *)

Popped   == UNION {Range(batch[t]) : t \in Threads}
InFlight == UNION {Range(fut[f].batch) : f \in Futures}

\* Every variable has the type that its comment gives it.
TypeOK ==
    /\ fresh \subseteq Records
    /\ queue \in Seq(Records)
    /\ queue_lock \in Threads \cup {NoOne}
    /\ submit_lock \in Threads \cup {NoOne}
    /\ pc \in [Threads -> PCs]
    /\ temp_list \in [Handlers -> Seq(Records)]
    /\ batch \in [Threads -> Seq(Records)]
    /\ mine \in [Threads -> Futures \cup {NoOne}]
    /\ fut \in [Futures -> FutureType]
    /\ work_queue \in Seq(Futures)
    /\ job \in [Workers -> Futures \cup {NoOne}]
    /\ scheduler_reschedule \in BOOLEAN
    /\ open \in BOOLEAN
    /\ signals \in 0..MaxSignals
    /\ exited \in BOOLEAN
    /\ received \subseteq Records
    /\ acked \subseteq Records
    /\ purged \subseteq Records
    /\ discarded \subseteq Records

\* No record vanishes between the queue, the batches and the callbacks: one
\* that has arrived is queued, in a batch, acknowledged, purged or discarded.
\* It is what the locks and the requeueing in callback_result_handler are for.
NothingLost ==
    Records \subseteq fresh \cup Range(queue) \cup Popped \cup InFlight
                         \cup acked \cup purged \cup discarded

\* No record is in two places, nor twice in one: a batch that is being sent is
\* not in the queue, and a record that was acknowledged or dropped does not
\* come back (add_to_queue's purge and _submit rewrite the same queue).
NothingDuplicated ==
    /\ IsInjective(queue)
    /\ \A t \in Threads : IsInjective(batch[t])
    /\ \A f \in Futures : IsInjective(fut[f].batch)
    /\ \A f, g \in Futures :
          f # g => Range(fut[f].batch) \cap Range(fut[g].batch) = {}
    /\ Range(queue) \cap (fresh \cup Popped \cup InFlight) = {}
    /\ Popped \cap (fresh \cup InFlight) = {}
    /\ InFlight \cap fresh = {}
    /\ acked \cap (fresh \cup Range(queue) \cup Popped \cup InFlight) = {}
    /\ (purged \cup discarded) \cap (acked \cup fresh \cup Range(queue)
                                   \cup Popped \cup InFlight) = {}

\* Only what the backend has received is forgotten as delivered: the callback
\* may run in the worker or in the submitting thread, after any other result.
AckedWasReceived == acked \subseteq received

\* A process that ends has left nothing with the executor: whatever happens
\* to the shutdown that runs _submit, every submission accepted before it has
\* been answered (executor.shutdown(wait=True) and the exit's own join).
ExitDrained ==
    exited => \A f \in Futures :
                 fut[f].stage = "free" \/ \E t \in Threads : mine[t] = f

-----------------------------------------------------------------------------
(* What the locks and the executor keep true between any two steps; with   *)
(* the properties above it is the inductive invariant of AgentProofs.      *)

Submitting == {"check", "pop", "dispatch", "register", "callback"}

\* A lock is held by the thread that is inside its critical section.
LocksHeld ==
    \A t \in Threads :
        /\ submit_lock = t <=> pc[t] \in Submitting
        /\ queue_lock = t <=> pc[t] \in {"swap", "pop"}

\* The shutdown of a signal that has not come has done nothing.
FramesWait == \A f \in Frames : f > signals => pc[f] = "idle"

\* Whoever pops finds a record, and whoever has read the queue to thin it out
\* still has what the queue holds.
LockedQueue ==
    /\ \A t \in Threads : pc[t] = "pop" => queue # <<>>
    /\ \A h \in Handlers : pc[h] = "swap" => temp_list[h] = queue

\* A batch is in a thread's hands only between the pop and the submission.
BatchesHeld ==
    \A t \in Threads : batch[t] # <<>> => pc[t] \in {"pop", "dispatch"}

\* A thread has an unregistered future from the submission to the callback's
\* registration, or to the end of a callback that it runs itself.
MineHeld ==
    \A t \in Threads : mine[t] # NoOne <=> pc[t] \in {"register", "callback"}

\* An unregistered future is its thread's own: no worker will call it back.
FuturesHeld ==
    /\ \A f \in Futures : fut[f].stage = "free" => fut[f] = FreeFuture
    /\ \A t \in Threads :
          /\ mine[t] # NoOne => /\ fut[mine[t]].stage # "free"
                                /\ ~fut[mine[t]].registered
          /\ pc[t] = "callback" => fut[mine[t]].stage \in {"ok", "failed"}

\* Every pending future is queued once and every busy worker has its own.
PoolHeld ==
    /\ IsInjective(work_queue)
    /\ \A f \in Range(work_queue) : fut[f].stage = "pending"
    /\ \A w \in Workers : job[w] # NoOne =>
          \/ fut[job[w]].stage = "running"
          \/ fut[job[w]].stage \in {"ok", "failed"} /\ fut[job[w]].registered
    /\ \A v, w \in Workers : job[v] = job[w] /\ job[v] # NoOne => v = w

\* A submission waits for its worker, then for its answer, then for its callback,
\* which is the worker's once it is registered and the submitting thread's before.
FuturesPlaced ==
    \A f \in Futures :
        /\ fut[f].stage = "pending" => f \in Range(work_queue)
        /\ fut[f].stage = "running" => \E w \in Workers : job[w] = f
        /\ fut[f].stage \in {"ok", "failed"} =>
              (\E w \in Workers : job[w] = f) \/ (\E t \in Threads : mine[t] = f)
        /\ fut[f].stage # "free" /\ ~fut[f].registered =>
              \E t \in Threads : mine[t] = f

\* The process ends when the workers are done.
ExitedIdle == exited => WorkersDone

\* The backend has every batch that it accepted.
AcceptedWasReceived ==
    \A f \in Futures : fut[f].stage = "ok" => Range(fut[f].batch) \subseteq received

PipelineInv ==
    /\ TypeOK /\ LocksHeld /\ FramesWait /\ LockedQueue
    /\ BatchesHeld /\ MineHeld /\ FuturesHeld /\ PoolHeld
    /\ FuturesPlaced /\ ExitedIdle
    /\ AcceptedWasReceived /\ AckedWasReceived /\ NothingLost /\ NothingDuplicated
=============================================================================
