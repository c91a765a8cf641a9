--------------------------- MODULE StunnelProofs ---------------------------
(***************************************************************************)
(* Starting, watching and stopping stunnel, for any number of signals and  *)
(* processes: two never run together, and a signal stops the one that was  *)
(* known.  The invariant says what a thread about to start stunnel relies  *)
(* on: nothing is saved and nothing runs, or the configuration is gone, so *)
(* that what it starts ends at once.                                       *)
(***************************************************************************)
EXTENDS Stunnel, TLAPS

\* The stunnels that run and have not been told to end.
Running == {p \in Procs : stunnel[p] = "running"}

\* The threads that start stunnel.
Starters == {Starter, Watchdog}

\* The order of the start-up; once the main thread has ended, no handler runs.
Order ==
    /\ main \in {"installed", "constructing", "generating"} =>
          pc[Starter] = "idle" /\ Running = {}
    /\ main \in {"installed", "constructing", "generating", "spawned"} =>
          pc[Watchdog] = "idle"
    /\ pc[Starter] = "idle" => process = NoProc
    /\ pc[Starter] # "done" => pc[Watchdog] \in {"idle", "loop", "sleep", "done"}
    /\ pc[Starter] \in {"idle", "launch", "track", "pid", "done"}
    /\ \A f \in Frames : f > signals \/ main = "ended" => pc[f] = "idle"
    /\ exited => main = "ended"

\* A thread that starts a stunnel finds none saved; process and pid go together.
Saved ==
    /\ \A x \in Starters :
          /\ pc[x] \in {"launch", "track"} => process = NoProc /\ pid = NoProc
          /\ pc[x] = "track" => handle[x] # NoProc
          /\ pc[x] = "pid" => pid = NoProc
    /\ (\A x \in Starters : pc[x] # "pid") => (process = NoProc <=> pid = NoProc)

\* As long as there is a configuration, the one that runs is known.
RunningIsKnown ==
    conf_file =>
       /\ \A x \in Starters :
             /\ pc[x] = "launch" => Running = {}
             /\ pc[x] = "track" => Running \subseteq {handle[x]}
       /\ pc[Watchdog] \in {"wait", "waiting", "kill", "clear"} => Running = {}
       /\ (\A x \in Starters : pc[x] \notin {"launch", "track"}) =>
             Running \subseteq {process}

\* Until a signal comes the manager is there, and the watchdog waits for the
\* process that is saved and forgets it when it is dead.
BeforeSignals ==
    signals = 0 =>
       /\ owned = {}
       /\ pc[Starter] # "idle" => stun_mgr = "manager"
       /\ main = "generating" => stun_mgr = "manager"
       /\ pc[Watchdog] = "waiting" => handle[Watchdog] = process
       /\ pc[Watchdog] = "clear" => process = NoProc \/ stunnel[process] = "dead"

\* After one signal, the process that was known is dead, or still saved and the
\* handler is on its way to stop it.
OwnedIsStopped ==
    signals = 1 => \A p \in owned : stunnel[p] # "dead" =>
       /\ process = p /\ pid # NoProc /\ stun_mgr = "manager"
       /\ pc[1] \in {"agent", "manager", "flag", "test",
                     "terminate", "wait", "waiting", "kill"}
       /\ pc[1] = "waiting" => handle[1] = p
       /\ pc[Watchdog] = "waiting" => handle[Watchdog] = p
       /\ pc[Watchdog] # "clear"

StInv ==
    /\ TypeOK /\ Order /\ Saved /\ RunningIsKnown /\ AtMostOneRuns
    /\ BeforeSignals /\ OwnedIsStopped

\* What is left to prove of a step that keeps the types.
Keeps ==
    /\ Order' /\ Saved' /\ RunningIsKnown' /\ AtMostOneRuns'
    /\ BeforeSignals' /\ OwnedIsStopped'

-----------------------------------------------------------------------------

\* StInv holds initially.
LEMMA StInit == Init => StInv
<1> SUFFICES ASSUME Init PROVE StInv
  OBVIOUS
<1>1. Starter \in Threads /\ Watchdog \in Threads
  BY DEF Threads
<1>2. Running = {}
  BY DEF Init, Running
<1>3. TypeOK
  <2>1. /\ signals \in 0..MaxSignals /\ main \in Stages /\ pc \in [Threads -> PCs]
        /\ stunnel \in [Procs -> States] /\ handle \in [Threads -> Procs \cup {NoProc}]
    BY StunnelAssumption DEF Init, Stages, PCs, States
  <2> QED BY <2>1 DEF Init, TypeOK
<1>4. Order
  BY <1>1, <1>2 DEF Init, Order, Threads
<1>5. Saved
  BY <1>1 DEF Init, Saved, Starters
<1>6. RunningIsKnown /\ BeforeSignals /\ OwnedIsStopped
  BY <1>1, <1>2 DEF Init, RunningIsKnown, BeforeSignals, OwnedIsStopped
<1>7. AtMostOneRuns
  BY <1>2 DEF AtMostOneRuns, Running
<1> QED BY <1>3, <1>4, <1>5, <1>6, <1>7 DEF StInv

\* Goto moves one thread.
LEMMA GotoFacts ==
    ASSUME TypeOK, NEW x \in Threads, NEW label \in PCs, Goto(x, label)
    PROVE  /\ pc' \in [Threads -> PCs]
           /\ pc'[x] = label
           /\ \A y \in Threads \ {x} : pc'[y] = pc[y]
BY DEF Goto, TypeOK

\* The starter, the watchdog and the signal handlers are different threads.
LEMMA ThreadFacts ==
    /\ Starter \in Threads /\ Watchdog \in Threads /\ Starter # Watchdog
    /\ Frames \subseteq Threads
    /\ Starter \notin Frames /\ Watchdog \notin Frames
    /\ Threads = Frames \cup Starters
    /\ NoProc \notin Procs
    /\ Starters \subseteq Threads
BY StunnelAssumption DEF Threads, Starters

\* Every step keeps the types.
LEMMA TypeNext == TypeOK /\ [Next]_vars => TypeOK'
<1> SUFFICES ASSUME TypeOK, [Next]_vars PROVE TypeOK'
  OBVIOUS
<1> USE ThreadFacts DEF TypeOK
<1>1. ASSUME NEW x \in Threads, Unwind("error") \/ Unwind("exit") PROVE TypeOK'
  <2>1. pc' \in [Threads -> PCs] /\ handle' \in [Threads -> Procs \cup {NoProc}]
    BY <1>1 DEF Unwind, PCs
  <2>2. /\ process' \in {process, NoProc} /\ pid' \in {pid, NoProc}
        /\ conf_file' \in {conf_file, FALSE}
    BY <1>1 DEF Unwind
  <2>3. /\ main' \in Stages /\ stun_mgr' \in {"unset", "manager", "None"}
        /\ UNCHANGED <<watchdog_running, stunnel, signals, owned, exited>>
    BY <1>1 DEF Unwind, life, startup, Stages
  <2> QED BY <2>1, <2>2, <2>3
<1>2. CASE StartupStep
  <2>1. CASE Generate
    BY <2>1, GotoFacts DEF Generate, Stages, PCs, life
  <2>2. CASE StartWatchdog
    BY <2>2, GotoFacts DEF StartWatchdog, Stages, PCs, life
  <2>3. CASE CreateServer \/ Construct \/ NoBinary \/ GenerateFails \/ Join
    BY <2>3 DEF CreateServer, Construct, NoBinary, GenerateFails, Join, Stages,
                 life, manager
  <2> QED BY <1>2, <2>1, <2>2, <2>3 DEF StartupStep
<1>3. ASSUME NEW x \in Starters, StartStep(x) PROVE TypeOK'
  <2>1. x \in Threads /\ After(x) \in PCs
    BY DEF After, PCs
  <2>2. CASE LaunchSucceeds(x)
    <3>1. PICK p \in Procs :
              /\ stunnel' =
                 [stunnel EXCEPT ![p] = IF conf_file THEN "running" ELSE "dead"]
              /\ handle' = [handle EXCEPT ![x] = p]
      BY <2>2 DEF LaunchSucceeds
    <3>2. stunnel' \in [Procs -> States] /\ handle' \in [Threads -> Procs \cup {NoProc}]
      BY <2>1, <3>1 DEF States
    <3> QED BY <2>1, <2>2, <3>2, GotoFacts DEF LaunchSucceeds, PCs, startup, life
  <2>3. CASE LaunchFails(x)
    BY <2>1, <2>3, GotoFacts DEF LaunchFails, startup, manager, life
  <2>4. CASE SetProcess(x)
    BY <2>1, <2>4, GotoFacts DEF SetProcess, PCs, startup, life
  <2>5. CASE SetPid(x)
    BY <2>1, <2>5, GotoFacts DEF SetPid, startup, life
  <2> QED BY <1>3, <2>2, <2>3, <2>4, <2>5 DEF StartStep
<1>4. ASSUME NEW x \in Threads, StopStep(x) PROVE TypeOK'
  <2>1. CASE Fails(x)
    BY <1>1, <2>1, GotoFacts DEF Fails, PCs, startup, life
  <2>2. CASE Terminate(x) /\ ~Fails(x)
    <3>1. stunnel' \in [Procs -> States]
      BY <2>2 DEF Terminate, States
    <3> QED BY <2>2, <3>1, GotoFacts DEF Terminate, PCs, startup, life
  <2>3. CASE Wait(x) /\ ~Fails(x)
    BY <2>3, GotoFacts DEF Wait, PCs, startup, manager, life
  <2>4. CASE Waited(x) \/ WaitTimesOut(x)
    BY <2>4, GotoFacts DEF Waited, WaitTimesOut, PCs, startup, manager, life
  <2>5. CASE Kill(x) /\ ~Fails(x)
    <3>1. stunnel' \in [Procs -> States]
      BY <2>5 DEF Kill, States
    <3> QED BY <2>5, <3>1, GotoFacts DEF Kill, PCs, startup, life
  <2>6. CASE Clear(x)
    BY <2>6, GotoFacts DEF Clear, PCs, startup, life
  <2> QED BY <1>4, <2>1, <2>2, <2>3, <2>4, <2>5, <2>6 DEF StopStep
<1>5. CASE WatchdogLoop \/ WatchdogWakes \/ ServiceUp \/ ServiceDown
  <2>1. UNCHANGED <<startup, manager, handle, life>>
    BY <1>5 DEF WatchdogLoop, WatchdogWakes, ServiceUp, ServiceDown
  <2>2. \E label \in PCs : Goto(Watchdog, label)
    BY <1>5 DEF WatchdogLoop, WatchdogWakes, ServiceUp, ServiceDown, PCs
  <2> QED BY <2>1, <2>2, GotoFacts DEF startup, manager, life
<1>6. CASE Signal
  <2>1. signals + 1 \in Frames /\ signals + 1 \in 0..MaxSignals
    BY <1>6, StunnelAssumption DEF Signal, Frames
  <2>2. owned' \subseteq Procs
    BY <1>6 DEF Signal, Tracked
  <2> QED BY <1>6, <2>1, <2>2, GotoFacts DEF Signal, PCs, startup, manager
<1>7. ASSUME NEW f \in Frames, HandlerStep(f) PROVE TypeOK'
  <2>1. CASE AgentShutdown(f)
    BY <1>1, <2>1, GotoFacts DEF AgentShutdown, PCs, startup, manager, life
  <2>2. CASE TestManager(f)
    BY <1>1, <2>2, GotoFacts DEF TestManager, PCs, startup, manager, life
  <2>3. CASE StopWatchdog(f)
    BY <2>3, GotoFacts DEF StopWatchdog, PCs, startup, life
  <2>4. CASE TestTracked(f)
    BY <2>4, GotoFacts DEF TestTracked, PCs, startup, manager, life
  <2>5. CASE ExitHandler(f)
    BY <1>1, <2>5 DEF ExitHandler
  <2> QED BY <1>4, <1>7, <2>1, <2>2, <2>3, <2>4, <2>5 DEF HandlerStep
<1>8. CASE Collect
  <2>1. stunnel' \in [Procs -> States]
    BY <1>8 DEF Collect, Tracked, States
  <2> QED BY <1>8, <2>1 DEF Collect, startup, life
<1>9. CASE ExitProcess
  BY <1>9 DEF ExitProcess, startup, manager
<1>10. ASSUME NEW p \in Procs, Dies(p) PROVE TypeOK'
  BY <1>10 DEF Dies, States, startup, life
<1>11. CASE UNCHANGED vars
  BY <1>11 DEF vars
<1> QED
  BY <1>2, <1>3, <1>4, <1>5, <1>6, <1>7, <1>8, <1>9, <1>10, <1>11
  DEF Next, WatchdogStep, Rest, Starters

-----------------------------------------------------------------------------

\* An exception ends all handlers, and clears what is saved or leaves it alone.
LEMMA UnwindFacts ==
    ASSUME TypeOK, NEW kind, Unwind(kind)
    PROVE  /\ \A f \in Frames : pc'[f] = "idle" /\ handle'[f] = NoProc
           /\ \A x \in Starters : pc'[x] = pc[x] /\ handle'[x] = handle[x]
           /\ \/ process' = NoProc /\ pid' = NoProc /\ conf_file' = FALSE
              \/ /\ UNCHANGED <<process, pid, conf_file>>
                 /\ \A f \in Frames : pc[f] \notin TrySteps
           /\ main' \in {"serving", "ended"}
           /\ UNCHANGED <<stunnel, signals, owned, exited>>
<1>1. \A x \in Starters : x \in Threads /\ x \notin Frames
  BY ThreadFacts DEF Starters
<1> QED BY <1>1, ThreadFacts DEF Unwind, life, startup

\* Where no stunnel starts, two do not run.
LEMMA FewerRun ==
    ASSUME AtMostOneRuns,
           \A p \in Procs : stunnel'[p] = "running" => stunnel[p] = "running"
    PROVE  AtMostOneRuns'
BY DEF AtMostOneRuns

\* An exception in a handler keeps the invariant, if the known stunnel is dead.
LEMMA UnwindKeeps ==
    ASSUME StInv, ~exited, NEW kind, Unwind(kind), NEW f \in Frames, pc[f] # "idle",
           signals = 1 => \A p \in owned : stunnel[p] = "dead"
    PROVE  Keeps
<1> USE ThreadFacts, UnwindFacts DEF StInv
<1>1. f \leq signals /\ f \in Nat \ {0} /\ signals \in Nat
  BY StunnelAssumption DEF Order, TypeOK, Frames
<1>2. Order'
  BY <1>1 DEF Order, Starters, Running
<1>3. Saved'
  BY DEF Saved, Starters
<1>4. RunningIsKnown' /\ AtMostOneRuns'
  BY FewerRun DEF RunningIsKnown, Starters, Running
<1>5. BeforeSignals'
  <2>1. signals' = signals
    BY UnwindFacts
  <2> QED BY <1>1, <2>1 DEF BeforeSignals
<1>6. OwnedIsStopped'
  BY <1>1 DEF OwnedIsStopped
<1> QED BY <1>2, <1>3, <1>4, <1>5, <1>6 DEF Keeps

\* A step of the start-up keeps the invariant: nothing runs until it ends.
LEMMA StartupKeeps == ASSUME StInv, StartupStep PROVE Keeps
<1> USE ThreadFacts, GotoFacts DEF StInv
<1>1. /\ UNCHANGED <<process, pid, stunnel, handle, life>> /\ ~exited
      /\ \A x \in Frames : pc'[x] = pc[x]
  <2>1. CASE Generate \/ StartWatchdog
    BY <2>1 DEF Generate, StartWatchdog, PCs, MainRuns
  <2> QED BY <2>1
          DEF StartupStep, MainRuns, CreateServer, Construct, NoBinary,
              GenerateFails, Join, manager
<1>2. OwnedIsStopped'
  <2>1. UNCHANGED <<signals, owned, stunnel>>
    BY <1>1 DEF life
  <2>2. MainRuns
    BY DEF StartupStep, CreateServer, Construct, NoBinary, GenerateFails, Generate,
           StartWatchdog, Join
  <2>3. signals = 1 => 1 \in Frames
    BY StunnelAssumption DEF Frames, TypeOK
  <2>4. signals = 1 => \A p \in owned : stunnel[p] = "dead"
    BY <2>2, <2>3 DEF OwnedIsStopped, MainRuns
  <2> HIDE DEF StInv
  <2> QED BY <2>1, <2>4 DEF OwnedIsStopped
<1>3. CASE CreateServer \/ Construct \/ NoBinary \/ GenerateFails \/ Join
  <2>0. pc' = pc /\ conf_file' = conf_file
    BY <1>3 DEF CreateServer, Construct, NoBinary, GenerateFails, Join, manager
  <2>1. Order'
    BY <1>1, <1>3, <2>0
    DEF CreateServer, Construct, NoBinary, GenerateFails, Join, Order, Starters,
        Running, life
  <2>2. Saved' /\ RunningIsKnown' /\ AtMostOneRuns'
    BY <1>1, <2>0 DEF Saved, RunningIsKnown, AtMostOneRuns, Running
  <2>3. BeforeSignals'
    BY <1>1, <1>3, <2>0
    DEF CreateServer, Construct, NoBinary, GenerateFails, Join, BeforeSignals,
        Order, life
  <2> QED BY <1>2, <2>1, <2>2, <2>3 DEF Keeps
<1>4. CASE Generate
  <2>0. /\ pc[Starter] = "idle" /\ pc'[Starter] = "launch"
        /\ pc[Watchdog] = "idle" /\ pc'[Watchdog] = "idle"
    BY <1>4 DEF Generate, PCs, Order
  <2>1. Order'
    BY <1>1, <1>4, <2>0 DEF Generate, Order, Running, life
  <2>2. Saved'
    BY <1>1, <1>4, <2>0 DEF Saved, Starters, Order
  <2>3. RunningIsKnown' /\ AtMostOneRuns'
    BY <1>1, <1>4, <2>0
    DEF Generate, Order, RunningIsKnown, AtMostOneRuns, Running, Starters
  <2>4. BeforeSignals'
    BY <1>1, <1>4, <2>0 DEF Generate, BeforeSignals, life
  <2> QED BY <1>2, <2>1, <2>2, <2>3, <2>4 DEF Keeps
<1>5. CASE StartWatchdog
  <2>0. pc'[Starter] = pc[Starter] /\ pc'[Watchdog] = "loop" /\ pc[Watchdog] = "idle"
    BY <1>5 DEF StartWatchdog, PCs, Order
  <2>1. Order'
    BY <1>1, <1>5, <2>0 DEF StartWatchdog, Order, Running, life
  <2>2. Saved'
    BY <1>1, <1>5, <2>0 DEF Saved, Starters, Order
  <2>3. RunningIsKnown' /\ AtMostOneRuns'
    BY <1>1, <1>5, <2>0
    DEF StartWatchdog, RunningIsKnown, AtMostOneRuns, Running, Starters
  <2>4. BeforeSignals'
    BY <1>1, <1>5, <2>0 DEF StartWatchdog, BeforeSignals, life
  <2> QED BY <1>2, <2>1, <2>2, <2>3, <2>4 DEF Keeps
<1> QED BY <1>3, <1>4, <1>5 DEF StartupStep

\* A step of _start_stunnel keeps the invariant, whichever thread takes it.
LEMMA StartKeeps == ASSUME StInv, NEW x \in Starters, StartStep(x) PROVE Keeps
<1> USE ThreadFacts, GotoFacts DEF StInv
<1> DEFINE y == IF x = Starter THEN Watchdog ELSE Starter
<1>1. x \in Threads /\ y \in Threads /\ x # y /\ Starters = {x, y} /\ After(x) \in PCs
      /\ After(x) \in {"done", "loop"} /\ (x = Starter => After(x) = "done")
      /\ (x = Watchdog => After(x) = "loop")
  BY DEF Starters, After, PCs
<1>2. /\ ~exited /\ pc[x] \in {"launch", "track", "pid"}
      /\ UNCHANGED <<main, stun_mgr, watchdog_running, conf_file, signals, owned,
                     exited>>
      /\ x = Starter => pc[y] \in {"idle", "loop", "sleep", "done"}
      /\ x = Watchdog => pc[y] = "done"
      /\ pc'[x] \in {"track", "pid", After(x)}
      /\ pc'[y] = pc[y] /\ \A f \in Frames : pc'[f] = pc[f]
  <2>1. /\ ~exited /\ pc[x] \in {"launch", "track", "pid"}
        /\ UNCHANGED <<main, stun_mgr, watchdog_running, conf_file, signals, owned,
                       exited>>
    BY DEF StartStep, LaunchSucceeds, LaunchFails, SetProcess, SetPid, At, startup,
           manager, life
  <2>2. \E label \in {"track", "pid", After(x)} : Goto(x, label)
    BY DEF StartStep, LaunchSucceeds, LaunchFails, SetProcess, SetPid
  <2>3. PICK label \in {"track", "pid", After(x)} : Goto(x, label)
    BY <2>2
  <2>4. label \in PCs
    BY <1>1 DEF PCs
  <2>5. pc'[x] = label /\ pc'[y] = pc[y] /\ \A f \in Frames : pc'[f] = pc[f]
    BY <1>1, <2>3, <2>4 DEF Starters
  <2>6. x = Starter => pc[y] \in {"idle", "loop", "sleep", "done"}
    BY <2>1 DEF Order
  <2>7. x = Watchdog => pc[y] = "done"
    BY <2>1 DEF Order
  <2> QED BY <2>1, <2>5, <2>6, <2>7
<1>3. x = Starter \/ x = Watchdog
  BY DEF Starters
<1>4. (x = Starter => y = Watchdog) /\ (x = Watchdog => y = Starter)
  OBVIOUS
<1> HIDE DEF y
<1>5. CASE LaunchSucceeds(x)
  <2>1. PICK p \in Procs :
            /\ Unused(p)
            /\ stunnel' =
                 [stunnel EXCEPT ![p] = IF conf_file THEN "running" ELSE "dead"]
            /\ handle' = [handle EXCEPT ![x] = p]
    BY <1>5 DEF LaunchSucceeds
  <2>2. /\ handle'[x] = p /\ handle'[y] = handle[y]
        /\ \A f \in Frames : handle'[f] = handle[f]
    BY <1>1, <2>1 DEF TypeOK, Starters
  <2>3. /\ stunnel'[p] = IF conf_file THEN "running" ELSE "dead"
        /\ \A q \in Procs \ {p} : stunnel'[q] = stunnel[q]
    BY <2>1 DEF TypeOK
  <2>4. pc[x] = "launch" /\ pc'[x] = "track" /\ process' = process /\ pid' = pid
    BY <1>1, <1>5 DEF LaunchSucceeds, At, PCs
  <2>5. /\ process = NoProc /\ pid = NoProc /\ (conf_file => Running = {})
        /\ p \notin owned /\ p # NoProc
    BY <2>1, <2>4 DEF Saved, RunningIsKnown, Unused
  <2> HIDE DEF StInv
  <2>6. Order'
    BY <1>1, <1>2, <1>3, <1>4, <2>4, <2>5 DEF Order, StInv
  <2>7. Saved'
    BY <1>1, <1>2, <1>3, <1>4, <2>2, <2>4, <2>5 DEF Saved, StInv
  <2>8. RunningIsKnown'
    <3> SUFFICES ASSUME conf_file PROVE RunningIsKnown'
      BY <1>2 DEF RunningIsKnown
    <3>1. Running' = {p}
      BY <2>3, <2>5 DEF Running
    <3> QED BY <1>1, <1>2, <1>3, <1>4, <2>2, <2>4, <2>5, <3>1
            DEF RunningIsKnown, StInv
  <2>9. AtMostOneRuns'
    <3>1. CASE conf_file
      BY <2>3, <2>5, <3>1 DEF AtMostOneRuns, Running
    <3>2. CASE ~conf_file
      BY <2>3, <3>2 DEF AtMostOneRuns, StInv
    <3> QED BY <3>1, <3>2
  <2>10. BeforeSignals'
    BY <1>1, <1>2, <1>3, <1>4, <2>2, <2>4, <2>5 DEF BeforeSignals, StInv
  <2>11. OwnedIsStopped'
    <3>1. signals = 1 => \A q \in owned : stunnel[q] = "dead"
      BY <2>5 DEF OwnedIsStopped, StInv, TypeOK
    <3>2. \A q \in owned : stunnel'[q] = stunnel[q]
      BY <2>3, <2>5 DEF StInv, TypeOK
    <3> QED BY <1>2, <3>1, <3>2 DEF OwnedIsStopped
  <2> QED BY <2>6, <2>7, <2>8, <2>9, <2>10, <2>11 DEF Keeps
<1>6. CASE LaunchFails(x)
  <2>1. /\ pc[x] = "launch" /\ pc'[x] = After(x)
        /\ UNCHANGED <<process, pid, stunnel, handle>>
    BY <1>1, <1>6 DEF LaunchFails, At, manager
  <2>2. process = NoProc /\ pid = NoProc /\ (conf_file => Running = {})
    BY <2>1 DEF Saved, RunningIsKnown
  <2>3. Order'
    BY <1>1, <1>2, <1>3, <1>4, <2>1, <2>2 DEF Order, StInv
  <2>4. Saved'
    BY <1>1, <1>2, <1>3, <1>4, <2>1, <2>2 DEF Saved, StInv
  <2>5. RunningIsKnown' /\ AtMostOneRuns'
    BY <1>1, <1>2, <1>3, <1>4, <2>1, <2>2
    DEF RunningIsKnown, AtMostOneRuns, Running, StInv
  <2>6. BeforeSignals'
    BY <1>1, <1>2, <1>3, <1>4, <2>1, <2>2 DEF BeforeSignals, StInv
  <2>7. OwnedIsStopped'
    BY <1>1, <1>2, <1>3, <1>4, <2>1, <2>2 DEF OwnedIsStopped, StInv, TypeOK
  <2> QED BY <2>3, <2>4, <2>5, <2>6, <2>7 DEF Keeps
<1>7. CASE SetProcess(x)
  <2>1. /\ pc[x] = "track" /\ pc'[x] = "pid" /\ process' = handle[x]
        /\ handle'[x] = NoProc
        /\ UNCHANGED <<pid, stunnel>>
        /\ handle'[y] = handle[y] /\ \A f \in Frames : handle'[f] = handle[f]
    BY <1>1, <1>7 DEF SetProcess, At, PCs, Starters, TypeOK
  <2>2. process = NoProc /\ pid = NoProc /\ (conf_file => Running \subseteq {handle[x]})
        /\ handle[x] \in Procs
    BY <1>1, <2>1 DEF Saved, RunningIsKnown, TypeOK
  <2>3. Order'
    BY <1>1, <1>2, <1>3, <1>4, <2>1, <2>2 DEF Order, Running, StInv
  <2>4. Saved'
    BY <1>1, <1>2, <1>3, <1>4, <2>1, <2>2 DEF Saved, StInv
  <2>5. RunningIsKnown' /\ AtMostOneRuns'
    BY <1>1, <1>2, <1>3, <1>4, <2>1, <2>2
    DEF RunningIsKnown, AtMostOneRuns, Running, StInv
  <2>6. BeforeSignals'
    BY <1>1, <1>2, <1>3, <1>4, <2>1, <2>2 DEF BeforeSignals, StInv
  <2>7. OwnedIsStopped'
    BY <1>1, <1>2, <1>3, <1>4, <2>1, <2>2 DEF OwnedIsStopped, StInv, TypeOK
  <2> QED BY <2>3, <2>4, <2>5, <2>6, <2>7 DEF Keeps
<1>8. CASE SetPid(x)
  <2>1. /\ pc[x] = "pid" /\ pc'[x] = After(x)
        /\ pid' = IF process = NoProc THEN pid ELSE process
        /\ UNCHANGED <<process, stunnel, handle>>
    BY <1>1, <1>8 DEF SetPid, At
  <2>2. pid = NoProc
    BY <2>1 DEF Saved
  <2>3. Order'
    BY <1>1, <1>2, <1>3, <1>4, <2>1, <2>2 DEF Order, Running, StInv
  <2>4. Saved'
    BY <1>1, <1>2, <1>3, <1>4, <2>1, <2>2 DEF Saved, StInv
  <2>5. RunningIsKnown' /\ AtMostOneRuns'
    BY <1>1, <1>2, <1>3, <1>4, <2>1, <2>2
    DEF RunningIsKnown, AtMostOneRuns, Running, StInv
  <2>6. BeforeSignals'
    BY <1>1, <1>2, <1>3, <1>4, <2>1, <2>2 DEF BeforeSignals, StInv
  <2>7. OwnedIsStopped'
    BY <1>1, <1>2, <1>3, <1>4, <2>1, <2>2 DEF OwnedIsStopped, StInv, TypeOK
  <2> QED BY <2>3, <2>4, <2>5, <2>6, <2>7 DEF Keeps
<1> QED BY <1>5, <1>6, <1>7, <1>8 DEF StartStep


\* Nothing changes but where a thread is, and whether the watchdog goes on.
Quiet == UNCHANGED <<startup, process, pid, conf_file, stunnel, handle, life>>

\* A quiet step changes nothing that the invariant reads but pc.
LEMMA QuietFacts ==
    ASSUME StInv, Quiet
    PROVE  /\ UNCHANGED <<main, stun_mgr, process, pid, conf_file, stunnel, handle,
                          signals, owned, exited>>
           /\ Running' = Running /\ Running \subseteq Procs
           /\ signals \in Nat /\ (signals > 0 => 1 \in Frames)
BY StunnelAssumption DEF Quiet, startup, life, Running, StInv, TypeOK, Frames

\* A handler that goes on keeps the invariant, if the first one stays on the way
\* to the known stunnel.
LEMMA HandlerMoves ==
    ASSUME StInv, Quiet, NEW f \in Frames, NEW label \in PCs,
           Goto(f, label), f \leq signals, main # "ended",
           f = 1 => \A p \in owned : stunnel[p] # "dead" =>
              \/ label \in {"agent", "manager", "flag", "test", "terminate"}
              \/ signals # 1
    PROVE  Keeps
<1> USE ThreadFacts DEF StInv
<1>0. /\ \A x \in Starters : pc'[x] = pc[x]
      /\ pc'[f] = label /\ \A g \in Frames \ {f} : pc'[g] = pc[g]
  BY GotoFacts DEF Starters
<1>1. Order'
  BY <1>0, QuietFacts, StunnelAssumption DEF Order, Starters, Frames
<1>2. Saved' /\ RunningIsKnown' /\ AtMostOneRuns' /\ BeforeSignals'
  BY <1>0, QuietFacts
  DEF Saved, RunningIsKnown, AtMostOneRuns, BeforeSignals, Starters
<1>3. OwnedIsStopped'
  BY <1>0, QuietFacts DEF OwnedIsStopped, Starters, TypeOK
<1> QED BY <1>1, <1>2, <1>3 DEF Keeps

\* The watchdog goes on, and to starting stunnel only when none is saved.
LEMMA WatchdogMoves ==
    ASSUME StInv, Quiet, NEW label \in PCs, Goto(Watchdog, label),
           pc[Watchdog] \in {"loop", "sleep", "check"},
           \/ label \in {"loop", "sleep", "done"}
           \/ pc[Starter] = "done" /\ label \in {"check", "terminate"}
           \/ pc[Starter] = "done" /\ label = "launch" /\ ~Tracked
    PROVE  Keeps
<1> USE ThreadFacts DEF StInv
<1>0. /\ pc'[Starter] = pc[Starter] /\ pc'[Watchdog] = label
      /\ \A f \in Frames : pc'[f] = pc[f]
  BY GotoFacts
<1>1. Order'
  BY <1>0, QuietFacts DEF Order, Starters, Frames
<1>2. Saved'
  BY <1>0, QuietFacts DEF Saved, Starters, Tracked
<1>3. RunningIsKnown' /\ AtMostOneRuns'
  BY <1>0, QuietFacts
  DEF RunningIsKnown, AtMostOneRuns, Starters, Tracked, Saved, Order
<1>4. BeforeSignals' /\ OwnedIsStopped'
  BY <1>0, QuietFacts DEF BeforeSignals, OwnedIsStopped, TypeOK
<1> QED BY <1>1, <1>2, <1>3, <1>4 DEF Keeps

\* A step of the loop of _watchdog keeps the invariant.
LEMMA LoopKeeps ==
    ASSUME StInv, WatchdogLoop \/ WatchdogWakes \/ ServiceUp \/ ServiceDown PROVE Keeps
<1>1. Quiet
  BY DEF WatchdogLoop, WatchdogWakes, ServiceUp, ServiceDown, Quiet, manager
<1>2. CASE WatchdogLoop
  <2>1. PICK label \in {"sleep", "done"} : Goto(Watchdog, label)
    BY <1>2 DEF WatchdogLoop
  <2>2. label \in PCs /\ pc[Watchdog] = "loop"
    BY <1>2 DEF WatchdogLoop, At, PCs
  <2> QED BY <1>1, <2>1, <2>2, WatchdogMoves
<1>3. CASE WatchdogWakes
  BY <1>1, <1>3, WatchdogMoves DEF WatchdogWakes, At, PCs
<1>4. CASE ServiceUp
  BY <1>1, <1>4, WatchdogMoves DEF ServiceUp, At, PCs
<1>5. CASE ServiceDown
  <2>1. pc[Watchdog] = "check" /\ pc[Starter] = "done"
    BY <1>5 DEF ServiceDown, At, StInv, Order
  <2>2. PICK label \in {"terminate", "launch"} :
           Goto(Watchdog, label) /\ (label = "launch" => ~Tracked)
    BY <1>5 DEF ServiceDown
  <2>3. label \in PCs
    BY DEF PCs
  <2> QED BY <1>1, <2>1, <2>2, <2>3, WatchdogMoves
<1> QED BY <1>2, <1>3, <1>4, <1>5

\* A signal keeps the invariant: the first one finds the known stunnel saved.
LEMMA SignalKeeps == ASSUME StInv, Signal PROVE Keeps
<1> USE ThreadFacts DEF StInv
<1> DEFINE f == signals + 1
<1>1. f \in Frames /\ f \in Nat /\ signals \in Nat /\ ~exited /\ main # "ended"
  BY StunnelAssumption DEF Signal, Frames, TypeOK
<1>2. /\ signals' = f /\ pc'[f] = "agent"
      /\ \A x \in Threads \ {f} : pc'[x] = pc[x]
      /\ owned' = IF signals = 0 /\ Tracked THEN {process} ELSE owned
      /\ UNCHANGED <<main, stun_mgr, process, pid, conf_file, stunnel, handle,
                     exited>>
  BY <1>1, GotoFacts DEF Signal, startup, manager, PCs
<1>3. pc'[Starter] = pc[Starter] /\ pc'[Watchdog] = pc[Watchdog]
  BY <1>1, <1>2
<1>4. Order'
  BY <1>1, <1>2, <1>3, StunnelAssumption DEF Order, Running, Frames
<1>5. Saved' /\ RunningIsKnown' /\ AtMostOneRuns'
  BY <1>2, <1>3 DEF Saved, RunningIsKnown, AtMostOneRuns, Running, Starters
<1>6. BeforeSignals'
  BY <1>1, <1>2 DEF BeforeSignals
<1>7. OwnedIsStopped'
  <2> SUFFICES ASSUME f = 1, NEW p \in owned', stunnel[p] # "dead"
               PROVE  /\ process = p /\ pid # NoProc /\ stun_mgr = "manager"
                      /\ pc[Watchdog] = "waiting" => handle[Watchdog] = p
                      /\ pc[Watchdog] # "clear"
    BY <1>2, <1>3 DEF OwnedIsStopped
  <2>1. signals = 0
    BY <1>1
  <2>2. Tracked /\ p = process
    BY <1>2, <2>1 DEF BeforeSignals
  <2>3. stun_mgr = "manager"
    BY <2>1, <2>2 DEF BeforeSignals, Order, Tracked
  <2> QED BY <2>1, <2>2, <2>3 DEF BeforeSignals, Tracked
<1> QED BY <1>4, <1>5, <1>6, <1>7 DEF Keeps

\* A handler runs only for a signal that came, before the main thread has ended.
LEMMA HandlerFacts ==
    ASSUME StInv, NEW f \in Frames, pc[f] # "idle"
    PROVE  /\ f \in Nat \ {0} /\ signals \in Nat /\ f \leq signals /\ main # "ended"
           /\ (signals = 1 => f = 1) /\ signals # 0
BY StunnelAssumption DEF StInv, Order, TypeOK, Frames

\* A step of shutdown_handler keeps the invariant.
LEMMA HandlerKeeps ==
    ASSUME StInv, NEW f \in Frames,
           \/ AgentShutdown(f) \/ TestManager(f) \/ StopWatchdog(f)
           \/ TestTracked(f) \/ ExitHandler(f)
    PROVE  Keeps
<1>1. /\ pc[f] \in {"agent", "manager", "flag", "test", "exit"} /\ ~exited
  BY DEF AgentShutdown, TestManager, StopWatchdog, TestTracked, ExitHandler, At
<1>2. /\ f \leq signals /\ main # "ended" /\ pc[f] # "idle"
      /\ f \in Nat \ {0} /\ signals \in Nat /\ (signals = 1 => f = 1)
  BY <1>1, HandlerFacts
<1>3. ASSUME NEW kind, Unwind(kind),
             signals = 1 => \A p \in owned : stunnel[p] = "dead"
      PROVE  Keeps
  BY <1>1, <1>2, <1>3, UnwindKeeps
<1>4. signals = 1 => \A p \in owned : stunnel[p] # "dead" =>
         /\ process = p /\ pid # NoProc /\ stun_mgr = "manager"
         /\ p # NoProc /\ pc[f] # "exit"
  BY <1>2, ThreadFacts DEF StInv, OwnedIsStopped, TypeOK
<1>5. CASE AgentShutdown(f)
  <2>1. CASE Unwind("error") /\ f > 1
    BY <1>2, <1>3, <2>1
  <2>2. CASE Goto(f, "manager") /\ UNCHANGED <<startup, manager, handle, life>>
    BY <1>2, <2>2, HandlerMoves DEF PCs, Quiet, manager
  <2>3. CASE /\ \E g \in Frames : g < f
             /\ Goto(f, "blocked") /\ UNCHANGED <<startup, manager, handle, life>>
    <3>1. f # 1
      BY <2>3, StunnelAssumption DEF Frames
    <3> QED BY <1>2, <2>3, <3>1, HandlerMoves DEF PCs, Quiet, manager
  <2> QED BY <1>5, <2>1, <2>2, <2>3 DEF AgentShutdown
<1>6. CASE TestManager(f)
  <2>1. CASE stun_mgr = "unset"
    BY <1>3, <1>4, <1>6, <2>1 DEF TestManager
  <2>2. CASE stun_mgr # "unset"
    <3>1. PICK label \in {"flag", "exit"} :
             Goto(f, label) /\ (stun_mgr = "manager" => label = "flag")
      BY <1>6, <2>2 DEF TestManager
    <3>2. Quiet /\ label \in PCs
      BY <1>6, <2>2 DEF TestManager, Quiet, manager, PCs
    <3>3. f = 1 => \A p \in owned : stunnel[p] # "dead" =>
             label \in {"agent", "manager", "flag", "test", "terminate"} \/ signals # 1
      BY <1>4, <3>1
    <3> QED BY <1>2, <3>1, <3>2, <3>3, HandlerMoves
  <2> QED BY <2>1, <2>2
<1>7. CASE StopWatchdog(f)
  BY <1>2, <1>7, HandlerMoves DEF StopWatchdog, PCs, Quiet
<1>8. CASE TestTracked(f)
  <2>1. PICK label \in {"terminate", "exit"} :
           Goto(f, label) /\ (Tracked => label = "terminate")
    BY <1>8 DEF TestTracked
  <2>2. Quiet /\ label \in PCs
    BY <1>8 DEF TestTracked, Quiet, manager, PCs
  <2>3. f = 1 => \A p \in owned : stunnel[p] # "dead" =>
           label \in {"agent", "manager", "flag", "test", "terminate"} \/ signals # 1
    BY <1>4, <2>1 DEF Tracked
  <2> QED BY <1>2, <2>1, <2>2, <2>3, HandlerMoves
<1>9. CASE ExitHandler(f)
  BY <1>3, <1>4, <1>9 DEF ExitHandler, At
<1> QED BY <1>5, <1>6, <1>7, <1>8, <1>9

\* No stunnel starts, and none comes back to life.
Shrinks == \A p \in Procs : /\ stunnel'[p] = "running" => stunnel[p] = "running"
                            /\ stunnel[p] = "dead" => stunnel'[p] = "dead"

\* The end of a stunnel by itself keeps the invariant.
LEMMA DiesKeeps ==
    ASSUME StInv, Shrinks,
           UNCHANGED <<startup, pc, process, pid, conf_file, handle, life>>
    PROVE  Keeps
<1>1. /\ UNCHANGED <<main, stun_mgr, signals, owned, exited, pc, process, pid,
                     conf_file, handle>>
      /\ Running' \subseteq Running
      /\ owned \subseteq Procs /\ process \in Procs \cup {NoProc}
  BY DEF startup, life, Shrinks, Running, StInv, TypeOK
<1>2. Order' /\ Saved' /\ RunningIsKnown' 
  BY <1>1 DEF Order, Saved, RunningIsKnown, StInv
<1>3. AtMostOneRuns'
  BY FewerRun DEF Shrinks, StInv
<1>4. BeforeSignals' /\ OwnedIsStopped'
  BY <1>1 DEF BeforeSignals, OwnedIsStopped, StInv, Shrinks
<1> QED BY <1>2, <1>3, <1>4 DEF Keeps

\* The end of the process keeps the invariant.
LEMMA ExitKeeps == ASSUME StInv, ExitProcess PROVE Keeps
<1>1. /\ UNCHANGED <<main, stun_mgr, signals, owned, pc, process, pid,
                     conf_file, handle, stunnel>>
      /\ main = "ended"
  BY DEF ExitProcess, startup, manager
<1> QED
  BY <1>1
  DEF Keeps, StInv, Order, Saved, RunningIsKnown, AtMostOneRuns, BeforeSignals,
              OwnedIsStopped, Running

\* __del__ keeps the invariant: it kills what is saved.
LEMMA CollectKeeps == ASSUME StInv, Collect PROVE Keeps
<1> USE ThreadFacts
<1>1. /\ UNCHANGED <<main, stun_mgr, signals, owned, exited, pc, handle>>
      /\ process' = NoProc /\ pid' = NoProc /\ conf_file' = FALSE
      /\ pc[Starter] \in {"idle", "done"} /\ pc[Watchdog] \in {"idle", "done"}
      /\ process \in Procs
      /\ stunnel' = [stunnel EXCEPT ![process] = "dead"]
  BY DEF Collect, startup, life, Unreferenced, Tracked, StInv, TypeOK
<1>2. Shrinks /\ Running' \subseteq Running /\ stunnel'[process] = "dead"
      /\ \A p \in Procs \ {process} : stunnel'[p] = stunnel[p]
  BY <1>1 DEF Shrinks, Running, StInv, TypeOK
<1>3. Order' /\ Saved' /\ RunningIsKnown' /\ BeforeSignals'
  BY <1>1, <1>2 DEF Order, Saved, RunningIsKnown, BeforeSignals, StInv, Starters
<1>4. AtMostOneRuns'
  BY <1>2, FewerRun DEF Shrinks, StInv
<1>5. OwnedIsStopped'
  BY <1>1, <1>2 DEF OwnedIsStopped, StInv, TypeOK
<1> QED BY <1>3, <1>4, <1>5 DEF Keeps

\* The threads that stop stunnel.
Stoppers == Frames \cup {Watchdog}

\* An AttributeError keeps the invariant: nothing was saved.
LEMMA FailsKeeps ==
    ASSUME StInv, ~exited, NEW x \in Stoppers,
           pc[x] \in {"terminate", "wait", "kill"}, Fails(x)
    PROVE  Keeps
<1> USE ThreadFacts DEF StInv
<1>1. /\ process = NoProc
      /\ signals = 1 => \A p \in owned : stunnel[p] = "dead"
  BY DEF Fails, OwnedIsStopped, TypeOK
<1>2. CASE x \in Frames
  BY <1>1, <1>2, UnwindKeeps DEF Fails
<1>3. CASE x = Watchdog
  <2>1. /\ UNCHANGED <<main, stun_mgr, process, conf_file, stunnel, handle,
                       signals, owned, exited>>
        /\ pid' = NoProc /\ pc'[Watchdog] = "done" /\ pc'[Starter] = pc[Starter]
        /\ pc[Starter] = "done" /\ \A f \in Frames : pc'[f] = pc[f]
    BY <1>3, GotoFacts DEF Fails, PCs, startup, life, Order
  <2> HIDE DEF StInv
  <2>2. Order' /\ Saved'
    BY <1>1, <1>3, <2>1 DEF Order, Saved, Starters, Running, StInv
  <2>3. RunningIsKnown' /\ AtMostOneRuns'
    BY <1>1, <1>3, <2>1 DEF RunningIsKnown, AtMostOneRuns, Starters, Running, StInv
  <2>4. BeforeSignals' /\ OwnedIsStopped'
    BY <1>1, <1>3, <2>1 DEF BeforeSignals, OwnedIsStopped, StInv
  <2> QED BY <2>2, <2>3, <2>4 DEF Keeps
<1> QED BY <1>2, <1>3 DEF Stoppers

\* Where they do.
Stopping == {"terminate", "wait", "waiting", "kill", "clear"}

\* A step of stopping stunnel keeps the invariant, in shutdown and in _watchdog.
LEMMA StopKeeps ==
    ASSUME StInv, NEW x \in Stoppers, StopStep(x)
    PROVE  Keeps
<1> USE ThreadFacts
<1>1. /\ ~exited /\ pc[x] \in Stopping /\ x \in Threads /\ x # Starter
      /\ UNCHANGED <<exited, signals, owned>> \/ Fails(x)
      /\ UNCHANGED <<main, stun_mgr>> \/ Fails(x)
  BY DEF StopStep, Terminate, Wait, Waited, WaitTimesOut, Kill, Clear, At, Stopping,
         startup, life, Stoppers
<1>2. /\ x \in Frames => /\ x \leq signals /\ main # "ended" /\ signals # 0
                         /\ (signals = 1 => x = 1)
      /\ x = Watchdog => pc[Starter] = "done"
  <2>1. x = Watchdog => pc[Starter] = "done"
    BY <1>1 DEF StInv, Order, Stopping
  <2>2. pc[x] # "idle"
    BY <1>1 DEF Stopping
  <2> QED BY <2>1, <2>2, HandlerFacts
<1>3. CASE Fails(x) /\ pc[x] \in {"terminate", "wait", "kill"}
  BY <1>1, <1>3, FailsKeeps
<1>4. ASSUME NEW label \in PCs, Goto(x, label)
      PROVE  /\ pc'[x] = label /\ pc'[Starter] = pc[Starter]
             /\ \A f \in Frames \ {x} : pc'[f] = pc[f]
             /\ x # Watchdog => pc'[Watchdog] = pc[Watchdog]
  BY <1>1, <1>4, GotoFacts DEF StInv
\* The steps that neither track nor forget a stunnel.
<1>5. ASSUME NEW label \in Stopping, Goto(x, label), Shrinks,
             UNCHANGED <<startup, process, pid, conf_file, life>>,
             pc[x] # "clear",
             \A y \in Threads \ {x} : handle'[y] = handle[y],
             pc[x] = "terminate" => label = "wait",
             label = "wait" => process # NoProc /\ stunnel'[process] # "running",
             label = "waiting" => handle'[x] = process,
             label = "clear" => \/ process # NoProc /\ stunnel'[process] = "dead"
                                \/ pc[x] = "waiting" /\ stunnel[handle[x]] = "dead"
      PROVE  Keeps
  <2>1. label \in PCs
    BY DEF Stopping, PCs
  <2>2. /\ pc'[x] = label /\ pc'[Starter] = pc[Starter]
        /\ \A f \in Frames \ {x} : pc'[f] = pc[f]
        /\ x # Watchdog => pc'[Watchdog] = pc[Watchdog]
    BY <1>4, <1>5, <2>1
  <2>3. /\ UNCHANGED <<main, stun_mgr, signals, owned, exited, process, pid,
                       conf_file>>
        /\ handle'[Starter] = handle[Starter]
        /\ x # Watchdog => handle'[Watchdog] = handle[Watchdog]
        /\ Running' \subseteq Running /\ Running \subseteq Procs
        /\ owned \subseteq Procs
    BY <1>1, <1>5 DEF startup, life, Shrinks, Running, StInv, TypeOK
  <2>4. Order'
    BY <1>1, <1>2, <2>2, <2>3 DEF Order, StInv, Stoppers, Stopping
  <2>5. Saved'
    BY <1>1, <1>2, <2>2, <2>3 DEF Saved, Starters, StInv, Stopping, Stoppers
  <2>6. RunningIsKnown'
    <3> SUFFICES ASSUME conf_file PROVE RunningIsKnown'
      BY <2>3 DEF RunningIsKnown
    <3>1. CASE x = Watchdog
      <4>1. Running' = {}
        <5>1. CASE pc[x] = "terminate"
          <6>1. label = "wait"
            BY <1>5, <5>1 DEF Stopping
          <6>2. Running \subseteq {process}
            BY <1>2, <3>1, <5>1 DEF RunningIsKnown, Starters, StInv
          <6> QED BY <1>5, <2>3, <6>1, <6>2 DEF Running
        <5>2. CASE pc[x] # "terminate"
          BY <1>1, <1>5, <2>3, <3>1, <5>2 DEF RunningIsKnown, StInv, Stopping
        <5> QED BY <5>1, <5>2
      <4> QED BY <1>2, <2>2, <3>1, <4>1 DEF RunningIsKnown, Starters, Stopping
    <3>2. CASE x # Watchdog
      <4>1. handle'[Watchdog] = handle[Watchdog]
        BY <1>5, <3>2
      <4> QED BY <2>2, <2>3, <3>2, <4>1 DEF RunningIsKnown, Starters, StInv
    <3> QED BY <3>1, <3>2
  <2>7. AtMostOneRuns'
    BY <1>5, FewerRun DEF Shrinks, StInv
  <2>8. BeforeSignals'
    <3> SUFFICES ASSUME signals = 0 PROVE BeforeSignals'
      BY <2>3 DEF BeforeSignals
    <3>1. x = Watchdog
      BY <1>2 DEF Stoppers
    <3>2. pc'[Watchdog] = "waiting" => handle'[Watchdog] = process
      BY <1>5, <2>2, <3>1
    <3>3. pc'[Watchdog] = "clear" => process = NoProc \/ stunnel'[process] = "dead"
      BY <1>5, <2>2, <2>3, <3>1 DEF BeforeSignals, StInv, Shrinks, TypeOK
    <3> QED BY <2>2, <2>3, <3>2, <3>3 DEF BeforeSignals, StInv
  <2>9. OwnedIsStopped'
    <3> SUFFICES ASSUME signals = 1, NEW p \in owned, stunnel'[p] # "dead"
                 PROVE /\ process = p /\ pid # NoProc /\ stun_mgr = "manager"
                       /\ pc'[1] \in {"agent", "manager", "flag", "test",
                                     "terminate", "wait", "waiting", "kill"}
                       /\ pc'[1] = "waiting" => handle'[1] = p
                       /\ pc'[Watchdog] = "waiting" => handle'[Watchdog] = p
                       /\ pc'[Watchdog] # "clear"
      BY <2>3 DEF OwnedIsStopped
    <3>1. /\ process = p /\ pid # NoProc /\ stun_mgr = "manager"
          /\ pc[1] \in {"agent", "manager", "flag", "test",
                        "terminate", "wait", "waiting", "kill"}
          /\ pc[1] = "waiting" => handle[1] = p
          /\ pc[Watchdog] = "waiting" => handle[Watchdog] = p
          /\ pc[Watchdog] # "clear" /\ p \in Procs /\ stunnel[p] # "dead"
      BY <1>5, <2>3 DEF OwnedIsStopped, Shrinks, StInv
    <3>2. 1 \in Frames
      BY StunnelAssumption DEF Frames, StInv, TypeOK
    <3>3. CASE x = 1
      <4>1. label # "clear"
        BY <1>5, <3>1, <3>3
      <4>2. handle'[Watchdog] = handle[Watchdog] /\ pc'[Watchdog] = pc[Watchdog]
        BY <1>5, <2>2, <3>2, <3>3
      <4> QED BY <1>5, <2>2, <3>1, <3>3, <4>1, <4>2 DEF Stopping
    <3>4. CASE x = Watchdog
      <4>1. label # "clear"
        BY <1>5, <3>1, <3>4
      <4>2. handle'[1] = handle[1] /\ pc'[1] = pc[1]
        BY <1>5, <2>2, <3>2, <3>4
      <4> QED BY <1>5, <2>2, <3>1, <3>4, <4>1, <4>2
    <3> QED BY <1>2, <3>3, <3>4 DEF Stoppers
  <2> QED BY <2>4, <2>5, <2>6, <2>7, <2>8, <2>9 DEF Keeps
<1>6. CASE Terminate(x) /\ ~Fails(x)
  <2>1. /\ pc[x] = "terminate" /\ Goto(x, "wait")
        /\ process # NoProc /\ handle' = handle
        /\ UNCHANGED <<startup, process, pid, conf_file, life>>
        /\ stunnel' = [stunnel EXCEPT ![process] =
                         IF @ = "running" THEN "terminated" ELSE @]
    BY <1>6 DEF Terminate, At
  <2>2. Shrinks /\ stunnel'[process] # "running"
    BY <2>1 DEF Shrinks, StInv, TypeOK
  <2> QED BY <1>5, <2>1, <2>2 DEF Stopping
<1>7. CASE Wait(x) /\ ~Fails(x)
  <2>1. /\ pc[x] = "wait" /\ Goto(x, "waiting")
        /\ handle' = [handle EXCEPT ![x] = process]
        /\ UNCHANGED <<startup, process, pid, conf_file, stunnel, life>>
    BY <1>7 DEF Wait, At, manager
  <2>2. /\ Shrinks /\ handle'[x] = process
        /\ \A y \in Threads \ {x} : handle'[y] = handle[y]
    BY <1>1, <2>1 DEF Shrinks, StInv, TypeOK
  <2> QED BY <1>5, <2>1, <2>2 DEF Stopping
<1>8. CASE Waited(x) \/ WaitTimesOut(x)
  <2>1. PICK label \in {"clear", "kill"} :
           Goto(x, label) /\ (label = "clear" => stunnel[handle[x]] = "dead")
    BY <1>8 DEF Waited, WaitTimesOut
  <2>2. /\ pc[x] = "waiting" /\ Shrinks
        /\ UNCHANGED <<startup, process, pid, conf_file, handle, life>>
    BY <1>8 DEF Waited, WaitTimesOut, At, manager, Shrinks
  <2> QED BY <1>5, <2>1, <2>2 DEF Stopping
<1>9. CASE Kill(x) /\ ~Fails(x)
  <2>1. /\ pc[x] = "kill" /\ Goto(x, "clear")
        /\ process # NoProc /\ handle' = handle
        /\ UNCHANGED <<startup, process, pid, conf_file, life>>
        /\ stunnel' = [stunnel EXCEPT ![process] = "dead"]
    BY <1>9 DEF Kill, At
  <2>2. Shrinks /\ stunnel'[process] = "dead"
    BY <2>1 DEF Shrinks, StInv, TypeOK
  <2> QED BY <1>5, <2>1, <2>2 DEF Stopping
<1>10. CASE Clear(x)
  <2>1. /\ pc[x] = "clear" /\ process' = NoProc /\ pid' = NoProc
        /\ conf_file' = (conf_file /\ x \notin Frames)
        /\ UNCHANGED <<main, stun_mgr, signals, owned, exited, stunnel>>
        /\ \A y \in Threads \ {x} : handle'[y] = handle[y]
    BY <1>10 DEF Clear, At, startup, life, StInv, TypeOK
  <2>2. PICK label \in {"exit", "launch"} :
           Goto(x, label) /\ (label = "exit" <=> x \in Frames)
    BY <1>10 DEF Clear
  <2>3. /\ pc'[x] = label /\ pc'[Starter] = pc[Starter]
        /\ \A f \in Frames \ {x} : pc'[f] = pc[f]
        /\ x # Watchdog => pc'[Watchdog] = pc[Watchdog]
    BY <1>4, <2>2 DEF PCs
  <2>4. signals = 1 => \A p \in owned : stunnel[p] = "dead"
    BY <1>2, <2>1 DEF OwnedIsStopped, StInv, Stoppers
  <2>5. Order'
    BY <1>1, <1>2, <2>1, <2>2, <2>3 DEF Order, Running, StInv, Stoppers
  <2>6. Saved'
    BY <1>2, <2>1, <2>2, <2>3 DEF Saved, Starters, StInv, Stoppers
  <2>7. RunningIsKnown'
    BY <1>2, <2>1, <2>2, <2>3 DEF RunningIsKnown, Running, Starters, StInv, Stoppers
  <2>8. AtMostOneRuns'
    BY <2>1 DEF AtMostOneRuns, StInv
  <2>9. BeforeSignals'
    BY <1>2, <2>1, <2>2, <2>3 DEF BeforeSignals, StInv, Stoppers
  <2>10. OwnedIsStopped'
    BY <2>1, <2>4 DEF OwnedIsStopped
  <2> QED BY <2>5, <2>6, <2>7, <2>8, <2>9, <2>10 DEF Keeps
<1> QED
  BY <1>3, <1>6, <1>7, <1>8, <1>9, <1>10 DEF StopStep, Terminate, Wait, Kill, At

-----------------------------------------------------------------------------

\* The invariant of stunnel_manager.py and of what __main__.py does with it: at
\* every step, who starts a stunnel finds none saved, and the one that runs is
\* known as long as it can have a configuration.
THEOREM StunnelInvariant == Spec => []StInv
<1>1. ASSUME StInv, [Next]_vars PROVE StInv'
  <2>1. TypeOK'
    BY <1>1, TypeNext DEF StInv
  <2>2. ASSUME StartupStep PROVE Keeps
    BY <1>1, <2>2, StartupKeeps
  <2>3. ASSUME NEW x \in Starters, StartStep(x) PROVE Keeps
    BY <1>1, <2>3, StartKeeps
  <2>4. ASSUME NEW x \in Stoppers, StopStep(x) PROVE Keeps
    BY <1>1, <2>4, StopKeeps
  <2>5. ASSUME WatchdogStep PROVE Keeps
    BY <1>1, <2>3, <2>4, <2>5, LoopKeeps DEF WatchdogStep, Starters, Stoppers
  <2>6. ASSUME NEW f \in Frames, HandlerStep(f) PROVE Keeps
    BY <1>1, <2>4, <2>6, HandlerKeeps DEF HandlerStep, Stoppers
  <2>7. ASSUME NEW p \in Procs, Dies(p) PROVE Keeps
    <3>1. Shrinks
      BY <1>1, <2>7 DEF Dies, Shrinks, StInv, TypeOK
    <3> QED BY <1>1, <2>7, <3>1, DiesKeeps DEF Dies
  <2>8. ASSUME UNCHANGED vars PROVE Keeps
    <3>1. Shrinks
      BY <2>8 DEF vars, Shrinks
    <3> QED BY <1>1, <2>8, <3>1, DiesKeeps DEF vars, startup, life
  <2>9. Keeps
    BY <1>1, <2>2, <2>3, <2>5, <2>6, <2>7, <2>8, SignalKeeps, CollectKeeps, ExitKeeps
    DEF Next, Rest, Starters
  <2> QED BY <2>1, <2>9 DEF StInv, Keeps
<1> QED BY <1>1, StInit, PTL DEF Spec

\* Every variable keeps its type, in every run of the program.
THEOREM StunnelTypes == Spec => []TypeOK
BY StunnelInvariant, PTL DEF StInv

\* Two stunnels never run side by side, whatever starter, watchdog and signal
\* handlers do to self.process without a lock.
THEOREM OneStunnelRuns == Spec => []AtMostOneRuns
BY StunnelInvariant, PTL DEF StInv

\* One signal stops the stunnel that the manager knew of when it came, in
\* whatever state the watchdog was with the same process, and also when the
\* handler's exception does not end the honeypot.
THEOREM KnownIsStopped == Spec => []StopsWhatItKnew
<1>1. StInv => StopsWhatItKnew
  <2> SUFFICES ASSUME StInv, exited \/ Swallowed, signals = 1,
                      NEW p \in owned, stunnel[p] # "dead"
               PROVE FALSE
    BY DEF StopsWhatItKnew
  <2>1. pc[1] = "idle"
    BY StunnelAssumption DEF StInv, Order, TypeOK, Frames, Swallowed, MainRuns
  <2> QED BY <2>1 DEF StInv, OwnedIsStopped
<1> QED BY <1>1, StunnelInvariant, PTL
=============================================================================
