--------------------------- MODULE SchedulerProofs ---------------------------
(***************************************************************************)
(* No job drops out of the schedule, for any number of Timer objects and   *)
(* of attempts to start.  The argument is about the entry of a job in      *)
(* scheduler_timers: a timer leaves it only by creating the next one, so   *)
(* the entry's timer still carries the job, or some call of _scheduler is  *)
(* about to start it; and a call that finds it started already can end.    *)
(***************************************************************************)
EXTENDS Scheduler, TLAPS

\* The flag is cleared by a shutdown only, and then for good.
FlagWhileServing ==
    scheduler_reschedule <=>
        main \notin {"cancel hydrate", "cancel submit", "final", "stopped"}

\* A timer's thread is inside _scheduler exactly while it runs, and the main
\* thread while it schedules a first task.
RunningSteps ==
    /\ \A t \in Timers : timer[t].state = "running" <=> step[t] # "none"
    /\ main \in Tasks <=> step[Main] # "none"

\* The timer of an entry has not been replaced by the next one of its chain.
EntriesCarry ==
    \A k \in Tasks : scheduler_timers[k] # NoTimer =>
        LET n == scheduler_timers[k]
        IN  /\ timer[n].task = k
            /\ \/ timer[n].state \in {"created", "waiting"}
               \/ timer[n].state = "running" /\ step[n] = "create"

\* Thread x is at that step of a call of _scheduler for task k.
In(x, label, k) == step[x] = label /\ TaskOf(x) = k

\* A timer that is only created is about to be started.
CreatedIsStarted ==
    \A k \in Tasks :
        scheduler_timers[k] # NoTimer /\ timer[scheduler_timers[k]].state = "created"
            => \E x \in Threads : In(x, "start", k)

\* Jobs that have been scheduled have an entry.
EntriesExist ==
    /\ \A x \in Threads, k \in Tasks :
          In(x, "start", k) \/ In(x, "task", k) => scheduler_timers[k] # NoTimer
    /\ main = "submit" => scheduler_timers["hydrate"] # NoTimer
    /\ main \in {"serving", "stop"} => \A k \in Tasks : scheduler_timers[k] # NoTimer

\* What holds until shutdown clears the flag.
Scheduling ==
    /\ \A t \in Timers : ~timer[t].cancelled
    /\ EntriesCarry /\ CreatedIsStarted /\ EntriesExist

SchedulerInv ==
    TypeOK /\ FlagWhileServing /\ RunningSteps /\ (scheduler_reschedule => Scheduling)

-----------------------------------------------------------------------------

\* SchedulerInv holds initially.
LEMMA SchedulerInit == Init => SchedulerInv
BY SchedulerAssumption
DEF Init, SchedulerInv, TypeOK, FlagWhileServing, RunningSteps, Scheduling,
    EntriesCarry, CreatedIsStarted, EntriesExist, TimerType, Ended, States, Tasks,
    Steps, Stages, Threads, In

\* The task of a call of _scheduler is a task.
LEMMA TaskType ==
    ASSUME TypeOK, NEW x \in Threads, NEW label, At(x, label)
    PROVE  TaskOf(x) \in Tasks
BY DEF TypeOK, TimerType, At, TaskOf, Threads

\* Every step preserves the types.
LEMMA TypeStep == ASSUME TypeOK, [Next]_vars PROVE TypeOK'
<1> USE DEF TypeOK
<1>1. Ended \in TimerType
  BY DEF Ended, TimerType, States, Tasks
<1>2. CASE StartAgent \/ ConfigFails \/ Signal
  BY <1>2 DEF StartAgent, ConfigFails, Signal, Goto, Steps, Stages
<1>3. ASSUME NEW t \in Timers, Fire(t) \/ EndCancelled(t) PROVE TypeOK'
  BY <1>1, <1>3 DEF Fire, EndCancelled, Goto, TimerType, States, Steps
<1>4. ASSUME NEW x \in Threads, Create(x) PROVE TypeOK'
  <2>1. TaskOf(x) \in Tasks
    BY <1>4, TaskType DEF Create
  <2> QED
    BY <1>4, <2>1 DEF Create, Goto, TimerType, States, Steps
<1>5. ASSUME NEW x \in Threads, Start(x) PROVE TypeOK'
  <2>1. timer' \in [Timers -> TimerType] /\ step' \in [Threads -> Steps]
    BY <1>1, <1>5 DEF Start, EndThread, MainRaises, Goto, TimerType, States, Steps,
                      Threads
  <2>2. main' \in Stages /\ retries' = retries
    BY <1>5 DEF Start, EndThread, MainRaises, Stages
  <2> QED
    BY <1>5, <2>1, <2>2 DEF Start
<1>6. ASSUME NEW x \in Threads, RunTask(x) PROVE TypeOK'
  BY <1>1, <1>6 DEF RunTask, EndThread, Goto, Steps, Threads
<1>7. CASE RunFirstTask
  BY <1>7 DEF RunFirstTask, MainReturns, Goto, Steps, Stages
<1>8. CASE FirstFetchFails
  <2>1. retries' \in 0..MaxRetries
    BY <1>8, SchedulerAssumption DEF FirstFetchFails
  <2> QED
    BY <1>8, <2>1 DEF FirstFetchFails, MainRaises, Goto, Steps, Stages
<1>9. CASE ShutdownStep
  BY <1>9 DEF ShutdownStep, StopScheduling, CancelTimer, FinishShutdown, TimerType,
               Stages
<1>10. CASE UNCHANGED vars
  BY <1>10 DEF vars
<1> QED
  BY <1>2, <1>3, <1>4, <1>5, <1>6, <1>7, <1>8, <1>9, <1>10
  DEF Next, MainStep, TimerStep, SchedulerStep, Done, Threads

\* The facts about types that the next lemmas need.
LEMMA Shape ==
    ASSUME SchedulerInv
    PROVE  /\ Main \in Threads
           /\ \A t \in Timers : t \in Threads /\ t # Main
           /\ step \in [Threads -> Steps]
           /\ timer \in [Timers -> TimerType]
           /\ scheduler_timers \in [Tasks -> Timers \cup {NoTimer}]
           /\ NoTimer \notin Timers
           /\ \A t \in Timers : timer[t].state # "running" <=> step[t] = "none"
           /\ main \in Tasks <=> step[Main] # "none"
BY SchedulerAssumption DEF Threads, SchedulerInv, TypeOK, RunningSteps

\* Until shutdown clears the flag, each action preserves Scheduling.  First the
\* steps outside _scheduler.
LEMMA OutsideSchedule ==
    ASSUME SchedulerInv, Scheduling, StartAgent \/ ConfigFails \/ Signal
    PROVE  Scheduling'
<1>1. /\ UNCHANGED <<scheduler_timers, timer>>
      /\ \A t \in Timers : step'[t] = step[t]
      /\ step'[Main] \notin {"start", "task"}
      /\ main \in {"starting", "serving"}
      /\ main' \in {"hydrate", "failed", "stop"}
      /\ main' = "stop" => main = "serving"
  BY Shape DEF StartAgent, ConfigFails, Signal, Goto, Tasks
<1>2. EntriesCarry'
  BY <1>1, Shape DEF Scheduling, EntriesCarry
<1>3. \A x \in Threads, k \in Tasks, label \in {"start", "task"} :
          In(x, label, k)' <=> In(x, label, k)
  BY <1>1, Shape DEF In, TaskOf, Threads, Tasks
<1>4. CreatedIsStarted'
  BY <1>1, <1>3 DEF Scheduling, CreatedIsStarted
<1>5. EntriesExist'
  BY <1>1, <1>3 DEF Scheduling, EntriesExist
<1> QED
  BY <1>1, <1>2, <1>4, <1>5 DEF Scheduling

\* A timer that fires still carries its job: it is about to start the next one.
LEMMA FireSchedule ==
    ASSUME SchedulerInv, Scheduling, scheduler_reschedule,
           NEW t \in Timers, Fire(t)
    PROVE  Scheduling'
<1>1. /\ step' = [step EXCEPT ![t] = "create"]
      /\ timer' = [timer EXCEPT ![t].state = "running"]
      /\ timer[t].state = "waiting" /\ step[t] = "none"
      /\ scheduler_timers' = scheduler_timers /\ main' = main
  BY Shape DEF Fire, Goto
<1>2. \A x \in Threads, k \in Tasks, label \in {"start", "task"} :
          In(x, label, k)' <=> In(x, label, k)
  BY <1>1, Shape DEF In, TaskOf, Threads, TimerType
<1>3. EntriesCarry'
  BY <1>1, Shape DEF Scheduling, EntriesCarry, TimerType
<1>4. CreatedIsStarted'
  BY <1>1, <1>2, Shape DEF Scheduling, CreatedIsStarted, TimerType
<1>5. EntriesExist'
  BY <1>1, <1>2 DEF Scheduling, EntriesExist
<1> QED
  BY <1>1, <1>3, <1>4, <1>5, Shape DEF Scheduling, TimerType

\* The new timer is nobody's entry and no running thread; the old entry of the
\* task goes, and the one of the other task stays.
LEMMA CreateSchedule ==
    ASSUME SchedulerInv, Scheduling, NEW x \in Threads, Create(x)
    PROVE  Scheduling'
<1>0. PICK k0 \in Tasks : k0 = TaskOf(x)
  BY TaskType DEF Create, SchedulerInv
<1>1. PICK n \in Timers :
         /\ Unused(n)
         /\ timer' = [timer EXCEPT ![n] = [state |-> "created", task |-> k0,
                                           cancelled |-> FALSE]]
         /\ scheduler_timers' = [scheduler_timers EXCEPT ![k0] = n]
  BY <1>0 DEF Create
<1>2. /\ step' = [step EXCEPT ![x] = "start"] /\ main' = main
      /\ step[x] = "create"
  BY DEF Create, Goto, At
<1>3. n # x /\ step[n] = "none"
  BY <1>1, <1>2, Shape DEF Unused
<1>4. \A k \in Tasks : scheduler_timers[k] # n
  BY <1>1, Shape DEF Unused, Range
<1>5. x \in Timers => timer[x].task = k0
  BY <1>0, Shape DEF TaskOf
<1>6. \A y \in Threads, k \in Tasks, label \in {"start", "task"} :
          y # x => (In(y, label, k)' <=> In(y, label, k))
  <2> SUFFICES ASSUME NEW y \in Threads, NEW k \in Tasks,
                      NEW label \in {"start", "task"}, y # x
               PROVE  In(y, label, k)' <=> In(y, label, k)
    OBVIOUS
  <2>1. step'[y] = step[y]
    BY <1>2, Shape
  <2>2. CASE y = n
    BY <1>3, <2>1, <2>2 DEF In
  <2>3. CASE y # n
    BY <1>1, <1>2, <2>1, <2>3, Shape DEF In, TaskOf, Threads
  <2> QED
    BY <2>2, <2>3
<1>7. In(x, "start", k0)'
  <2>1. TaskOf(x)' = k0
    BY <1>0, <1>1, <1>2, <1>3, Shape DEF TaskOf, Threads
  <2> QED
    BY <1>2, <2>1, Shape DEF In
<1>8. EntriesCarry'
  <2> SUFFICES ASSUME NEW k \in Tasks, scheduler_timers'[k] # NoTimer
               PROVE  /\ timer'[scheduler_timers'[k]].task = k
                      /\ \/ timer'[scheduler_timers'[k]].state
                               \in {"created", "waiting"}
                         \/ /\ timer'[scheduler_timers'[k]].state = "running"
                            /\ step'[scheduler_timers'[k]] = "create"
    BY DEF EntriesCarry
  <2>1. CASE k = k0
    BY <1>0, <1>1, <2>1, Shape
  <2>2. CASE k # k0
    <3> DEFINE m == scheduler_timers[k]
    <3>1. scheduler_timers'[k] = m /\ m \in Timers /\ m # n
      BY <1>1, <1>4, <2>2, Shape
    <3>2. timer[m].task = k
      BY <3>1, Shape DEF Scheduling, EntriesCarry
    <3>3. m # x
      BY <1>5, <2>2, <3>1, <3>2
    <3>4. timer'[m] = timer[m] /\ step'[m] = step[m]
      BY <1>1, <1>2, <3>1, <3>3, Shape
    <3> QED
      BY <3>1, <3>4, Shape DEF Scheduling, EntriesCarry
  <2> QED
    BY <2>1, <2>2
<1>9. CreatedIsStarted'
  <2> SUFFICES ASSUME NEW k \in Tasks, scheduler_timers'[k] # NoTimer,
                      timer'[scheduler_timers'[k]].state = "created"
               PROVE  \E y \in Threads : In(y, "start", k)'
    BY DEF CreatedIsStarted
  <2>1. CASE k = k0
    BY <1>7, <2>1
  <2>2. CASE k # k0
    <3>1. /\ scheduler_timers[k] # NoTimer
          /\ timer[scheduler_timers[k]].state = "created"
      BY <1>1, <1>4, <2>2, Shape
    <3>2. PICK y \in Threads : In(y, "start", k)
      BY <3>1 DEF Scheduling, CreatedIsStarted
    <3>3. y # x
      BY <1>2, <3>2 DEF In
    <3> QED
      BY <1>6, <3>2, <3>3
  <2> QED
    BY <2>1, <2>2
<1>10. EntriesExist'
  <2>1. \A k \in Tasks : scheduler_timers[k] # NoTimer \/ k = k0
                           => scheduler_timers'[k] # NoTimer
    BY <1>1, Shape
  <2>2. \A k \in Tasks, label \in {"start", "task"} : In(x, label, k)' => k = k0
    BY <1>7 DEF In
  <2> QED
    BY <1>2, <1>6, <2>1, <2>2 DEF Scheduling, EntriesExist, Tasks
<1> QED
  BY <1>1, <1>8, <1>9, <1>10, Shape DEF Scheduling, TimerType

\* The entry is started, or somebody has started it already; in both cases it
\* carries the job from now on.
LEMMA StartSchedule ==
    ASSUME SchedulerInv, Scheduling, NEW x \in Threads, Start(x)
    PROVE  Scheduling'
<1>0. PICK k0 \in Tasks : k0 = TaskOf(x)
  BY TaskType DEF Start, SchedulerInv
<1> DEFINE n == scheduler_timers[k0]
<1>1. In(x, "start", k0) /\ step[x] = "start" /\ (x \in Timers => timer[x].task = k0)
  BY <1>0, Shape DEF Start, At, In, TaskOf
<1>2. n \in Timers /\ timer[n].task = k0
  BY <1>1, Shape DEF Scheduling, EntriesExist, EntriesCarry
<1>3. n # x
  BY <1>1, <1>2, Shape DEF Scheduling, EntriesCarry
<1>4. scheduler_timers' = scheduler_timers
  BY DEF Start
<1>5. CASE timer[n].state = "created"
  <2>1. /\ timer' = [timer EXCEPT ![n].state = "waiting"]
        /\ step' = [step EXCEPT ![x] = "task"]
        /\ main' = main
    BY <1>0, <1>5 DEF Start, Goto
  <2>2. \A y \in Threads : y # x => step'[y] = step[y]
    BY <2>1, Shape
  <2>3. \A y \in Threads : TaskOf(y)' = TaskOf(y)
    BY <1>2, <2>1, Shape DEF TaskOf, TimerType, Threads
  <2>4. EntriesCarry'
    BY <1>1, <1>2, <1>3, <1>4, <1>5, <2>1, <2>2, Shape
    DEF Scheduling, EntriesCarry, TimerType
  <2>5. CreatedIsStarted'
    <3> SUFFICES ASSUME NEW k \in Tasks, scheduler_timers[k] # NoTimer,
                        timer'[scheduler_timers[k]].state = "created"
                 PROVE  \E y \in Threads : In(y, "start", k)'
      BY <1>4 DEF CreatedIsStarted
    <3>1. k # k0 /\ timer[scheduler_timers[k]].state = "created"
      BY <1>2, <2>1, Shape DEF TimerType
    <3>2. PICK y \in Threads : In(y, "start", k)
      BY <3>1 DEF Scheduling, CreatedIsStarted
    <3>3. y # x
      BY <1>1, <3>1, <3>2 DEF In
    <3> QED
      BY <2>2, <2>3, <3>2, <3>3 DEF In
  <2>6. EntriesExist'
    BY <1>1, <1>4, <2>1, <2>2, <2>3 DEF Scheduling, EntriesExist, In
  <2>7. \A t \in Timers : ~timer'[t].cancelled
    BY <2>1, Shape DEF Scheduling, TimerType
  <2> QED
    BY <2>4, <2>5, <2>6, <2>7 DEF Scheduling
<1>6. CASE timer[n].state # "created"
  <2>1. /\ step' = [step EXCEPT ![x] = "none"]
        /\ x = Main => timer' = timer /\ main' = "starting"
        /\ x # Main => timer' = [timer EXCEPT ![x] = Ended] /\ main' = main
    BY <1>0, <1>6 DEF Start, MainRaises, EndThread, Goto
  <2>2. \A y \in Threads : y # x => step'[y] = step[y]
    BY <2>1, Shape
  <2>3. \A y \in Timers : y # x => timer'[y] = timer[y]
    BY <2>1, Shape
  <2>4. \A k \in Tasks : x \in Timers => scheduler_timers[k] # x
    <3> SUFFICES ASSUME NEW k \in Tasks, x \in Timers, scheduler_timers[k] = x
                 PROVE  FALSE
      OBVIOUS
    <3>1. timer[x].task = k
      BY Shape DEF Scheduling, EntriesCarry
    <3> QED
      BY <1>1, <1>3, <3>1
  <2>5. EntriesCarry'
    BY <1>4, <2>2, <2>3, <2>4, Shape DEF Scheduling, EntriesCarry
  <2>6. \A y \in Threads, k \in Tasks, label \in {"start", "task"} :
            In(y, label, k)' <=> y # x /\ In(y, label, k)
    BY <2>1, <2>2, <2>3, Shape DEF In, TaskOf, Threads
  <2>7. CreatedIsStarted'
    <3> SUFFICES ASSUME NEW k \in Tasks, scheduler_timers[k] # NoTimer,
                        timer'[scheduler_timers[k]].state = "created"
                 PROVE  \E y \in Threads : In(y, "start", k)'
      BY <1>4 DEF CreatedIsStarted
    <3>1. timer[scheduler_timers[k]].state = "created"
      BY <2>3, <2>4, Shape
    <3>2. PICK y \in Threads : In(y, "start", k)
      BY <3>1 DEF Scheduling, CreatedIsStarted
    <3>3. y # x
      BY <1>1, <1>6, <3>1, <3>2 DEF In
    <3> QED
      BY <2>6, <3>2, <3>3
  <2>8. EntriesExist'
    BY <1>4, <2>1, <2>6 DEF Scheduling, EntriesExist
  <2>9. \A t \in Timers : ~timer'[t].cancelled
    BY <2>1, Shape DEF Scheduling, Ended
  <2> QED
    BY <2>5, <2>7, <2>8, <2>9 DEF Scheduling
<1> QED
  BY <1>5, <1>6

\* A thread that ends with its task has handed its job on before.
LEMMA RunTaskSchedule ==
    ASSUME SchedulerInv, Scheduling, NEW t \in Timers, RunTask(t)
    PROVE  Scheduling'
<1>1. /\ step' = [step EXCEPT ![t] = "none"]
      /\ timer' = [timer EXCEPT ![t] = Ended]
      /\ step[t] = "task"
      /\ scheduler_timers' = scheduler_timers /\ main' = main
  BY DEF RunTask, EndThread, Goto, At
<1>2. \A k \in Tasks : scheduler_timers[k] # t
  BY <1>1, Shape DEF Scheduling, EntriesCarry
<1>3. \A y \in Threads, k \in Tasks, label \in {"start", "task"} :
          In(y, label, k)' <=> y # t /\ In(y, label, k)
  BY <1>1, Shape DEF In, TaskOf, Threads
<1>4. EntriesCarry'
  BY <1>1, <1>2, Shape DEF Scheduling, EntriesCarry
<1>5. CreatedIsStarted'
  <2> SUFFICES ASSUME NEW k \in Tasks, scheduler_timers[k] # NoTimer,
                      timer'[scheduler_timers[k]].state = "created"
               PROVE  \E y \in Threads : In(y, "start", k)'
    BY <1>1 DEF CreatedIsStarted
  <2>1. timer[scheduler_timers[k]].state = "created"
    BY <1>1, <1>2, Shape
  <2>2. PICK y \in Threads : In(y, "start", k)
    BY <2>1 DEF Scheduling, CreatedIsStarted
  <2> QED
    BY <1>1, <1>3, <2>2 DEF In
<1>6. EntriesExist'
  BY <1>1, <1>3 DEF Scheduling, EntriesExist
<1> QED
  BY <1>1, <1>4, <1>5, <1>6, Shape DEF Scheduling, Ended

\* The first task of a job ends in the main thread.
LEMMA FirstTaskSchedule ==
    ASSUME SchedulerInv, Scheduling, RunFirstTask \/ FirstFetchFails
    PROVE  Scheduling'
<1>1. /\ UNCHANGED <<scheduler_timers, timer>>
      /\ \A t \in Timers : step'[t] = step[t]
      /\ main \in Tasks /\ In(Main, "task", main)
      /\ step'[Main] \in {"none", "create"}
  BY Shape DEF RunFirstTask, FirstFetchFails, MainReturns, MainRaises, Goto, At, In,
               TaskOf
<1>2. \/ main = "hydrate" /\ main' = "submit"
      \/ main = "submit" /\ main' = "serving"
      \/ main' = "starting"
  BY <1>1 DEF RunFirstTask, FirstFetchFails, MainReturns, MainRaises, Tasks
<1>3. \A y \in Threads, k \in Tasks, label \in {"start", "task"} :
          In(y, label, k)' <=> y # Main /\ In(y, label, k)
  BY <1>1, Shape DEF In, TaskOf, Threads
<1>4. EntriesCarry'
  BY <1>1, Shape DEF Scheduling, EntriesCarry
<1>5. CreatedIsStarted'
  BY <1>1, <1>3 DEF Scheduling, CreatedIsStarted, In
<1>6. EntriesExist'
  <2>1. scheduler_timers[main] # NoTimer
    BY <1>1, Shape DEF Scheduling, EntriesExist
  <2>2. main' = "submit" => scheduler_timers["hydrate"] # NoTimer
    BY <1>2, <2>1
  <2>3. main' = "serving" => \A k \in Tasks : scheduler_timers[k] # NoTimer
    BY <1>2, <2>1 DEF Scheduling, EntriesExist, Tasks
  <2>4. main' # "stop"
    BY <1>2
  <2>5. \A y \in Threads, k \in Tasks :
            In(y, "start", k)' \/ In(y, "task", k)' => scheduler_timers[k] # NoTimer
    BY <1>3 DEF Scheduling, EntriesExist
  <2> QED
    BY <1>1, <2>2, <2>3, <2>4, <2>5 DEF EntriesExist
<1> QED
  BY <1>1, <1>4, <1>5, <1>6 DEF Scheduling

-----------------------------------------------------------------------------

\* Every step preserves SchedulerInv.
LEMMA SchedulerStepInv ==
    ASSUME SchedulerInv, [Next]_vars
    PROVE  SchedulerInv'
<1>0. TypeOK'
  BY TypeStep DEF SchedulerInv
<1>1. CASE StartAgent \/ ConfigFails \/ Signal
  <2>1. FlagWhileServing' /\ RunningSteps' /\ scheduler_reschedule' = scheduler_reschedule
    BY <1>1, Shape DEF StartAgent, ConfigFails, Signal, Goto, FlagWhileServing,
                       RunningSteps, SchedulerInv, Tasks
  <2> QED
    BY <1>0, <1>1, <2>1, OutsideSchedule DEF SchedulerInv
<1>2. ASSUME NEW t \in Timers, Fire(t) PROVE SchedulerInv'
  <2>1. FlagWhileServing' /\ scheduler_reschedule' = scheduler_reschedule
    BY <1>2 DEF Fire, FlagWhileServing, SchedulerInv
  <2>2. CASE scheduler_reschedule
    <3>1. RunningSteps'
      BY <1>2, <2>2, Shape DEF Fire, Goto, RunningSteps, TimerType
    <3> QED
      BY <1>0, <1>2, <2>1, <2>2, <3>1, FireSchedule DEF SchedulerInv
  <2>3. CASE ~scheduler_reschedule
    <3>1. RunningSteps'
      BY <1>2, <2>3, Shape DEF Fire, RunningSteps, Ended
    <3> QED
      BY <1>0, <2>1, <2>3, <3>1 DEF SchedulerInv
  <2> QED
    BY <2>2, <2>3
<1>3. ASSUME NEW t \in Timers, EndCancelled(t) PROVE SchedulerInv'
  <2>1. FlagWhileServing' /\ RunningSteps'
    BY <1>3, Shape DEF EndCancelled, FlagWhileServing, RunningSteps, SchedulerInv,
                       Ended
  <2>2. ~scheduler_reschedule'
    BY <1>3 DEF EndCancelled, SchedulerInv, Scheduling
  <2> QED
    BY <1>0, <2>1, <2>2 DEF SchedulerInv
<1>4. ASSUME NEW x \in Threads, Create(x) PROVE SchedulerInv'
  <2>1. FlagWhileServing' /\ scheduler_reschedule' = scheduler_reschedule
    BY <1>4 DEF Create, FlagWhileServing, SchedulerInv
  <2>2. RunningSteps'
    BY <1>4, Shape DEF Create, Unused, At, Goto, RunningSteps, Threads
  <2> QED
    BY <1>0, <1>4, <2>1, <2>2, CreateSchedule DEF SchedulerInv
<1>5. ASSUME NEW x \in Threads, Start(x) PROVE SchedulerInv'
  <2>1. FlagWhileServing' /\ scheduler_reschedule' = scheduler_reschedule
    BY <1>5 DEF Start, EndThread, MainRaises, At, FlagWhileServing, SchedulerInv, Tasks
  <2>2. RunningSteps'
    BY <1>5, Shape DEF Start, EndThread, MainRaises, At, Goto, RunningSteps, Ended,
                       TimerType, Threads, Tasks
  <2> QED
    BY <1>0, <1>5, <2>1, <2>2, StartSchedule DEF SchedulerInv
<1>6. ASSUME NEW t \in Timers, RunTask(t) PROVE SchedulerInv'
  <2>1. FlagWhileServing' /\ RunningSteps' /\ scheduler_reschedule' = scheduler_reschedule
    BY <1>6, Shape DEF RunTask, EndThread, Goto, FlagWhileServing, RunningSteps,
                       SchedulerInv, Ended
  <2> QED
    BY <1>0, <1>6, <2>1, RunTaskSchedule DEF SchedulerInv
<1>7. CASE RunFirstTask \/ FirstFetchFails
  <2>1. FlagWhileServing' /\ RunningSteps' /\ scheduler_reschedule' = scheduler_reschedule
    BY <1>7, Shape DEF RunFirstTask, FirstFetchFails, MainReturns, MainRaises, At,
                       Goto, FlagWhileServing, RunningSteps, SchedulerInv, Tasks
  <2> QED
    BY <1>0, <1>7, <2>1, FirstTaskSchedule DEF SchedulerInv
<1>8. CASE ShutdownStep
  <2>1. /\ main \in {"stop", "cancel hydrate", "cancel submit", "final"}
        /\ main' \in {"cancel hydrate", "cancel submit", "final", "stopped"}
        /\ step' = step
    BY <1>8 DEF ShutdownStep, StopScheduling, CancelTimer, FinishShutdown, Tasks
  <2>2. ASSUME NEW t \in Timers PROVE timer'[t].state = timer[t].state
    <3>1. ASSUME NEW k \in Tasks, CancelTimer(k)
          PROVE  timer'[t].state = timer[t].state
      BY <3>1, Shape DEF CancelTimer, TimerType
    <3> QED
      BY <1>8, <3>1 DEF ShutdownStep, StopScheduling, FinishShutdown
  <2>3. ~scheduler_reschedule'
    BY <1>8, <2>1 DEF ShutdownStep, StopScheduling, CancelTimer, FinishShutdown,
                      FlagWhileServing, SchedulerInv
  <2>4. FlagWhileServing' /\ RunningSteps'
    BY <2>1, <2>2, <2>3, Shape DEF FlagWhileServing, RunningSteps, Tasks
  <2> QED
    BY <1>0, <2>3, <2>4 DEF SchedulerInv
<1>9. CASE UNCHANGED vars
  <2>1. FlagWhileServing' /\ RunningSteps'
    BY <1>9 DEF vars, SchedulerInv, FlagWhileServing, RunningSteps
  <2>2. Scheduling' <=> Scheduling
    BY <1>9 DEF vars, Scheduling, EntriesCarry, CreatedIsStarted, EntriesExist, In,
                 TaskOf
  <2> QED
    BY <1>0, <1>9, <2>1, <2>2 DEF SchedulerInv, vars
<1> QED
  BY <1>1, <1>2, <1>3, <1>4, <1>5, <1>6, <1>7, <1>8, <1>9, Shape
  DEF Next, MainStep, TimerStep, SchedulerStep, RunTask, Done

\* An entry of a scheduled job leads to a timer that carries it.
LEMMA EntryLeadsOn == SchedulerInv => AlwaysScheduled
<1> SUFFICES ASSUME SchedulerInv, main \in {"serving", "stop"}, NEW k \in Tasks
             PROVE  \E t \in Timers : Carries(t, k)
  BY DEF AlwaysScheduled
<1>1. Scheduling
  BY DEF SchedulerInv, FlagWhileServing
<1> DEFINE n == scheduler_timers[k]
<1>2. n \in Timers /\ timer[n].task = k /\ ~timer[n].cancelled
  BY <1>1 DEF Scheduling, EntriesExist, EntriesCarry, SchedulerInv, TypeOK
<1>3. CASE timer[n].state # "created"
  BY <1>1, <1>2, <1>3 DEF Scheduling, EntriesExist, EntriesCarry, Carries
<1>4. CASE timer[n].state = "created"
  <2>1. PICK x \in Threads : In(x, "start", k)
    BY <1>1, <1>4 DEF Scheduling, EntriesExist, CreatedIsStarted
  <2>2. x \in Timers
    BY <2>1 DEF In, TaskOf, Threads, Tasks
  <2>3. x # Main
    BY <2>2, SchedulerAssumption
  <2>4. Carries(x, k)
    BY <2>1, <2>2, <2>3 DEF SchedulerInv, RunningSteps, In, TaskOf, Carries
  <2> QED
    BY <2>2, <2>4
<1> QED
  BY <1>3, <1>4

\* Every variable keeps its type.
THEOREM SchedulerTypes == Spec => []TypeOK
<1>1. Init => TypeOK
  BY SchedulerInit DEF SchedulerInv
<1>2. TypeOK /\ [Next]_vars => TypeOK'
  BY TypeStep
<1> QED
  BY <1>1, <1>2, PTL DEF Spec

\* While the honeypot serves, no job ever drops out of the schedule.
THEOREM NeverDropped == Spec => []AlwaysScheduled
<1>1. SchedulerInv /\ [Next]_vars => SchedulerInv'
  BY SchedulerStepInv
<1> QED
  BY <1>1, SchedulerInit, EntryLeadsOn, PTL DEF Spec
=============================================================================
