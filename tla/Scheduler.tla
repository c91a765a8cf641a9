----------------------------- MODULE Scheduler -----------------------------
(***************************************************************************)
(* Start-up, the recurring jobs and their end: Agent.start with the retry  *)
(* loop around it, Agent._scheduler and the part of Agent.shutdown that    *)
(* stops the timers (srv/web/isc_agent/agent.py and __main__.py).          *)
(*                                                                         *)
(* A job is a chain of threading.Timer objects: each one, when it fires,   *)
(* runs _scheduler in its own thread, which first starts the next Timer of *)
(* the chain and then runs the task.  A Timer is a thread that is no       *)
(* daemon, so the process lives as long as any of them does.               *)
(***************************************************************************)
EXTENDS Naturals, FiniteSets, Functions

CONSTANTS
    Timers,         \* bound: the Timer objects alive at a time
    MaxRetries,     \* bound: attempts to start that fail in the first fetch
    Main,           \* the main thread
    NoTimer

ASSUME SchedulerAssumption ==
    /\ MaxRetries \in Nat
    /\ IsFiniteSet(Timers)
    /\ Main \notin Timers
    /\ NoTimer \notin Timers

\* _scheduled_hydrate_rules and _scheduled_submissions.
Tasks == {"hydrate", "submit"}

Threads == Timers \cup {Main}

VARIABLES
    scheduler_reschedule,   \* self.scheduler_reschedule.is_set()
    scheduler_timers,       \* self.scheduler_timers
    timer,                  \* the Timer objects
    step,                   \* where each thread is inside _scheduler
    main,                   \* where the main thread is
    retries                 \* attempts to start that have failed so far

vars == <<scheduler_reschedule, scheduler_timers, timer, step, main, retries>>

States == {"unused", "created", "waiting", "running"}

TimerType == [state : States, task : Tasks, cancelled : BOOLEAN]

\* A Timer object whose thread has ended, or that does not exist yet.
Ended == [state |-> "unused", task |-> "hydrate", cancelled |-> FALSE]

Steps == {"none", "create", "start", "task"}

Stages == {"starting", "hydrate", "submit", "serving",
           "stop", "cancel hydrate", "cancel submit", "final",
           "failed", "stopped"}

\* The main thread has returned; the interpreter waits for the other threads.
MainEnded == main \in {"failed", "stopped"}

Alive(t) == timer[t].state \in {"waiting", "running"}

Exited == MainEnded /\ \A t \in Timers : ~Alive(t)

\* The task of the _scheduler call that a thread is in.
TaskOf(x) == IF x = Main THEN main ELSE timer[x].task

At(x, label) == step[x] = label /\ (x = Main => main \in Tasks)

Goto(x, label) == step' = [step EXCEPT ![x] = label]

Init ==
    /\ scheduler_reschedule = TRUE
    /\ scheduler_timers = [k \in Tasks |-> NoTimer]
    /\ timer = [t \in Timers |-> Ended]
    /\ step = [x \in Threads |-> "none"]
    /\ main = "starting"
    /\ retries = 0

-----------------------------------------------------------------------------
(* start, in the main thread.                                              *)

\* getmyip and read_config succeed.  When getmyip raises, the loop of __main__
\* sleeps and tries again: nothing has changed.
StartAgent ==
    /\ main = "starting"
    /\ main' = "hydrate"
    /\ Goto(Main, "create")
    /\ UNCHANGED <<scheduler_reschedule, scheduler_timers, timer, retries>>

\* read_config calls sys.exit, which the loop's "except Exception" lets pass:
\* a bad setting, or a dshield_url that does not answer.
ConfigFails ==
    /\ main = "starting"
    /\ main' = "failed"
    /\ UNCHANGED <<scheduler_reschedule, scheduler_timers, timer, step, retries>>

-----------------------------------------------------------------------------
(* _scheduler, in the main thread at start-up and then in the timers.      *)

\* Mutant: the flag is ignored.
Fire_IgnoresFlag(t) ==
    /\ timer[t].state = "waiting"
    /\ ~timer[t].cancelled
    /\ timer' = [timer EXCEPT ![t].state = "running"]
    /\ Goto(t, "create")
    /\ UNCHANGED <<scheduler_reschedule, scheduler_timers, main, retries>>

\* The interval is over, nobody has cancelled the timer, and _scheduler goes on
\* if self.scheduler_reschedule.is_set().  In the main thread, it always is: a
\* shutdown only runs once start has returned.
Fire(t) ==
    /\ timer[t].state = "waiting"
    /\ ~timer[t].cancelled
    /\ IF scheduler_reschedule
       THEN timer' = [timer EXCEPT ![t].state = "running"] /\ Goto(t, "create")
       ELSE timer' = [timer EXCEPT ![t] = Ended] /\ UNCHANGED step
    /\ UNCHANGED <<scheduler_reschedule, scheduler_timers, main, retries>>

\* A cancelled timer's thread wakes up and ends.
EndCancelled(t) ==
    /\ timer[t].state = "waiting"
    /\ timer[t].cancelled
    /\ timer' = [timer EXCEPT ![t] = Ended]
    /\ UNCHANGED <<scheduler_reschedule, scheduler_timers, step, main, retries>>

\* A timer's thread ends, by a return or by an exception.
EndThread(t) ==
    /\ timer' = [timer EXCEPT ![t] = Ended]
    /\ Goto(t, "none")
    /\ UNCHANGED <<main, retries>>

\* The call returns: start goes on with the next job, and then to serve.
MainReturns ==
    /\ main' = IF main = "hydrate" THEN "submit" ELSE "serving"
    /\ Goto(Main, IF main = "hydrate" THEN "create" ELSE "none")
    /\ UNCHANGED <<timer, retries>>

\* The call raises: the loop of __main__ calls start again.
MainRaises ==
    /\ main' = "starting"
    /\ Goto(Main, "none")
    /\ UNCHANGED timer

\* A Timer that no thread runs and no variable refers to.
Unused(n) ==
    timer[n].state \in {"unused", "created"} /\ n \notin Range(scheduler_timers)

\* self.scheduler_timers[task_name] = Timer(...)
Create(x) ==
    /\ At(x, "create")
    /\ \E n \in Timers :
          /\ Unused(n)
          /\ timer' = [timer EXCEPT ![n] = [state |-> "created",
                                            task |-> TaskOf(x),
                                            cancelled |-> FALSE]]
          /\ scheduler_timers' = [scheduler_timers EXCEPT ![TaskOf(x)] = n]
    /\ Goto(x, "start")
    /\ UNCHANGED <<scheduler_reschedule, main, retries>>

\* Mutant: the timer is started only after the task, so a task that raises
\* takes its schedule along.
Start_AfterTask(x) ==
    LET n == scheduler_timers[TaskOf(x)]
    IN  /\ At(x, "start")
        /\ \/ timer' = [timer EXCEPT ![n].state = "waiting"] /\ Goto(x, "task")
              /\ UNCHANGED <<main, retries>>
           \/ x # Main /\ TaskOf(x) = "hydrate" /\ EndThread(x)
        /\ UNCHANGED <<scheduler_reschedule, scheduler_timers>>

\* self.scheduler_timers[task_name].start(): the timer is looked up again, and
\* may by then be the one of another call for the same task, started already.
Start(x) ==
    LET n == scheduler_timers[TaskOf(x)]
    IN  /\ At(x, "start")
        /\ \/ /\ timer[n].state = "created"
              /\ timer' = [timer EXCEPT ![n].state = "waiting"]
              /\ Goto(x, "task")
              /\ UNCHANGED <<main, retries>>
           \/ /\ timer[n].state # "created"
              /\ IF x = Main THEN MainRaises /\ UNCHANGED retries
                             ELSE EndThread(x)
        /\ UNCHANGED <<scheduler_reschedule, scheduler_timers>>

\* The task ends in a timer's thread; an exception ends the thread as well.
RunTask(t) ==
    /\ t \in Timers
    /\ At(t, "task")
    /\ EndThread(t)
    /\ UNCHANGED <<scheduler_reschedule, scheduler_timers>>

\* The task ends in the main thread.
RunFirstTask ==
    /\ At(Main, "task")
    /\ MainReturns
    /\ UNCHANGED <<scheduler_reschedule, scheduler_timers>>

\* update_honeypot_rules raises: its getresponse and json.loads are outside
\* its try statement.
FirstFetchFails ==
    /\ At(Main, "task")
    /\ main = "hydrate"
    /\ retries < MaxRetries
    /\ retries' = retries + 1
    /\ MainRaises
    /\ UNCHANGED <<scheduler_reschedule, scheduler_timers>>

-----------------------------------------------------------------------------
(* shutdown, in the main thread.  Agent models what happens when a second  *)
(* signal interrupts it.                                                   *)

Signal ==
    /\ main = "serving"
    /\ main' = "stop"
    /\ UNCHANGED <<scheduler_reschedule, scheduler_timers, timer, step, retries>>

\* self.scheduler_reschedule.clear()
StopScheduling ==
    /\ main = "stop"
    /\ scheduler_reschedule' = FALSE
    /\ main' = "cancel hydrate"
    /\ UNCHANGED <<scheduler_timers, timer, step, retries>>

\* each_timer.cancel(), in the order in which start has scheduled the jobs.
CancelTimer(k) ==
    /\ main = IF k = "hydrate" THEN "cancel hydrate" ELSE "cancel submit"
    /\ timer' = [timer EXCEPT ![scheduler_timers[k]].cancelled = TRUE]
    /\ main' = IF k = "hydrate" THEN "cancel submit" ELSE "final"
    /\ UNCHANGED <<scheduler_reschedule, scheduler_timers, step, retries>>

\* The final submission, the executor, stunnel, and sys.exit.
FinishShutdown ==
    /\ main = "final"
    /\ main' = "stopped"
    /\ UNCHANGED <<scheduler_reschedule, scheduler_timers, timer, step, retries>>

-----------------------------------------------------------------------------

SchedulerStep(x) == Create(x) \/ Start(x) \/ RunTask(x)

TimerStep(t) == Fire(t) \/ EndCancelled(t) \/ SchedulerStep(t)

ShutdownStep ==
    StopScheduling \/ (\E k \in Tasks : CancelTimer(k)) \/ FinishShutdown

MainStep ==
    SchedulerStep(Main) \/ RunFirstTask \/ FirstFetchFails \/ ShutdownStep

Done == Exited /\ UNCHANGED vars

Next ==
    \/ StartAgent \/ ConfigFails \/ Signal
    \/ MainStep
    \/ \E t \in Timers : TimerStep(t)
    \/ Done

Spec == Init /\ [][Next]_vars

\* Timers fire, threads go on and the network calls of the tasks end.  The
\* fairness is strong because of the bound on Timers: creating one never waits
\* in the program.  Whether the agent ever starts and whether a signal comes is
\* left open.
Fairness ==
    /\ SF_vars(MainStep)
    /\ \A t \in Timers : SF_vars(TimerStep(t))

FairSpec == Spec /\ Fairness

-----------------------------------------------------------------------------
(* Properties.                                                             *)

\* Every variable has the type that its comment gives it.
TypeOK ==
    /\ scheduler_reschedule \in BOOLEAN
    /\ scheduler_timers \in [Tasks -> Timers \cup {NoTimer}]
    /\ timer \in [Timers -> TimerType]
    /\ step \in [Threads -> Steps]
    /\ main \in Stages
    /\ retries \in 0..MaxRetries

\* A timer thread that will still start, or has just started, the next timer.
Carries(t, k) ==
    /\ timer[t].task = k
    /\ \/ timer[t].state = "waiting" /\ ~timer[t].cancelled
       \/ timer[t].state = "running" /\ step[t] \in {"create", "start"}

\* While the honeypot serves, no job ever drops out of the schedule: neither
\* by a task that raises, nor by two chains of the same job, left behind by a
\* retried start, that overwrite each other's entry in scheduler_timers.
AlwaysScheduled ==
    main \in {"serving", "stop"} => \A k \in Tasks : \E t \in Timers : Carries(t, k)

\* While the honeypot serves, each job is run again and again.
KeepsRunning ==
    \A k \in Tasks :
        main = "serving" ~> \/ main # "serving"
                            \/ \E t \in Timers : timer[t].task = k /\ At(t, "task")

\* After a signal the process ends: also a timer that shutdown could not
\* cancel, because it was started meanwhile or by an earlier attempt to start,
\* ends without starting another one.
ShutdownEndsTimers == main = "stop" ~> Exited
=============================================================================
